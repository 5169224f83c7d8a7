----------------------------- MODULE It6616Panel -----------------------------
(***************************************************************************)
(* The panel control of the ite_it6616 driver (it6616-panel.c,              *)
(* it6616-core.c): it reports a state that nothing can read back from the   *)
(* panel, and switches it with DCS packets, each of which may fail before   *)
(* or after it may have been sent.  it->lock is held through a request, so  *)
(* a request is one step.                                                   *)
(***************************************************************************)
EXTENDS Naturals

VARIABLES
  display, awake,  \* the panel: does it show pixels, is it out of sleep
  bound,           \* the driver has the device, and the attribute "panel" exists
  suspended,
  panel_state,
  lost             \* history: the panel changed without the driver knowing

panel == <<display, awake, panel_state>>
bridge == <<panel, bound, suspended, lost>>

States == {"on", "off", "sleep", "unknown"}
Targets == {"on", "off", "sleep"}

\* The packets, in the order in which a request that needs them sends them.
Packets == {"sleep_out", "display_off", "display_on", "sleep_in"}
Order == [p \in Packets |-> CASE p = "sleep_out" -> 1 [] p = "display_off" -> 2
                              [] p = "display_on" -> 3 [] p = "sleep_in" -> 4]

\* Mutant: the way back from an unknown state does not wake the panel.
NeededAwake(state, target) ==
  {p \in Packets :
     \/ p = "sleep_out" /\ state = "sleep"
     \/ p = "display_off" /\ (state = "unknown" \/ (state = "on" /\ target # "on"))
     \/ p = "display_on" /\ target = "on"
     \/ p = "sleep_in" /\ target = "sleep"}

\* What takes the panel from one state to another: from an unknown one a full
\* sequence, whatever part of it may be in force already.
Needed(state, target) ==
  {p \in Packets :
     \/ p = "sleep_out" /\ state \in {"sleep", "unknown"}
     \/ p = "display_off" /\ (state = "unknown" \/ (state = "on" /\ target # "on"))
     \/ p = "display_on" /\ target = "on"
     \/ p = "sleep_in" /\ target = "sleep"}

\* What packets, sent in their order, do to the panel.
Sent(packets) ==
  /\ display' = IF "display_on" \in packets THEN TRUE
                ELSE IF "display_off" \in packets THEN FALSE ELSE display
  /\ awake' = IF "sleep_in" \in packets THEN FALSE
              ELSE IF "sleep_out" \in packets THEN TRUE ELSE awake

\* The state reported on the way, after these packets: sleep-out alone does not
\* prove the display bit.
Reached(packets) ==
  IF "display_off" \in packets \/ (panel_state = "sleep" /\ packets # {})
  THEN "off" ELSE panel_state

\* The request ends at packet p, which may have been sent (fired), and may have
\* reached the panel (landed).
Failed(done, p) ==
  \E fired, landed \in BOOLEAN :
    /\ landed => fired
    /\ Sent(done \cup (IF landed THEN {p} ELSE {}))
    /\ panel_state' = IF fired THEN "unknown" ELSE Reached(done)

\* it6616_set_panel_state_locked(), returning success or not.
SetPanel(target, ok) ==
  IF target = panel_state THEN ok /\ UNCHANGED panel
  ELSE LET needed == Needed(panel_state, target) IN
       IF ok THEN Sent(needed) /\ panel_state' = target
       ELSE \E p \in needed : Failed({q \in needed : Order[q] < Order[p]}, p)

\* What the driver has lost sight of it finds again by the way back from unknown.
Found == lost' = (lost /\ panel_state' # "unknown")

\* it6616_debugfs_dcs_locked(): what a raw packet is refused for, and what it
\* does to the state.  A packet that is none of the four may be a soft reset.
Allowed(p) ==
  CASE p = "display_off" -> TRUE
    [] p = "display_on" -> panel_state \in {"on", "off"}
    [] p = "sleep_in" -> panel_state = "off"
    [] p = "sleep_out" -> panel_state = "sleep"
RawState(p) ==
  CASE p = "display_off" -> IF panel_state \in {"on", "off"} THEN "off" ELSE panel_state
    [] p = "display_on" -> "on"
    [] p = "sleep_in" -> "sleep"
    [] p = "sleep_out" -> "off"

RawPacket(p, ok) ==
  /\ Allowed(p)
  /\ IF ok THEN Sent({p}) /\ panel_state' = RawState(p) ELSE Failed({}, p)
  /\ Found
Reset == display' = FALSE /\ awake' = FALSE
RawOther(ok) ==
  \/ ok /\ UNCHANGED <<panel, lost>>
  \/ ok /\ Reset /\ lost' = TRUE /\ UNCHANGED panel_state
  \/ ~ok /\ UNCHANGED <<panel, lost>>
  \/ ~ok /\ (Reset \/ UNCHANGED <<display, awake>>) /\ panel_state' = "unknown" /\ lost' = FALSE

\* it6616_restore_on(), at removal and shutdown; the driver goes whatever it
\* returned.
Unbind(ok) ==
  /\ bound /\ ~suspended
  /\ SetPanel("on", ok)
  /\ bound' = FALSE
  /\ UNCHANGED <<suspended, lost>>

\* it6616_probe() takes the panel to be on.
Bind ==
  /\ ~bound /\ ~suspended
  /\ bound' = TRUE /\ panel_state' = "on"
  /\ lost' = ~(display /\ awake)
  /\ UNCHANGED <<display, awake, suspended>>

\* it6616_suspend(), it6616_resume(): power management may have reset the panel.
BridgeSuspend ==
  /\ ~suspended /\ suspended' = TRUE
  /\ UNCHANGED <<panel, bound, lost>>
BridgeResume ==
  /\ suspended /\ suspended' = FALSE
  /\ display' \in BOOLEAN /\ awake' \in BOOLEAN
  /\ IF bound THEN panel_state' = "unknown" /\ lost' = FALSE
     ELSE UNCHANGED <<panel_state, lost>>
  /\ UNCHANGED bound

PanelTypeOK ==
  /\ display \in BOOLEAN /\ awake \in BOOLEAN
  /\ bound \in BOOLEAN /\ suspended \in BOOLEAN /\ lost \in BOOLEAN
  /\ panel_state \in States

\* What the driver reports is so: no sequence of requests, raw packets and
\* failures in any place leaves it saying "on", "off" or "sleep" of a panel that
\* is not (it6616-panel.c: panel_state, "unknown" being the way out).
PanelTruthful ==
  bound /\ ~lost =>
    /\ panel_state = "on" => display /\ awake
    /\ panel_state = "off" => ~display /\ awake
    /\ panel_state = "sleep" => ~display /\ ~awake
=============================================================================
