-------------------------------- MODULE Screen --------------------------------
(***************************************************************************)
(* The front-panel screen: the library that switches it (display.rs of      *)
(* crates/t6-hw-rs), used by three daemons under one file lock, over the    *)
(* backlight of t6_platform and the panel of ite_it6616.  Whoever holds the *)
(* lock is one program counter; each access to a driver is one step that    *)
(* may fail, and the caller may die between two of them.                    *)
(***************************************************************************)
EXTENDS It6616Panel

CONSTANTS
  Max,        \* the highest brightness
  DefaultOn,  \* DEFAULT_ON
  MaxTrouble  \* how many failures, deaths and interventions there may be

ASSUME ScreenParameters ==
  /\ Max \in Nat /\ DefaultOn \in 1..Max
  /\ MaxTrouble \in Nat

VARIABLES
  \* the backlight: what it shines with (register 0xa3), and what its class keeps
  light, power, level,
  \* whoever holds the file lock: the step, the state wanted, the level read
  pc, want, seen,
  \* history
  last,     \* how the last switch ended
  unsure,   \* something else touched the panel since it was last switched
  missed,   \* a write that failed reached the backlight
  trouble   \* still to come

backlight == <<light, power, level>>
caller    == <<pc, want, seen, last>>
history   == <<unsure, missed, trouble>>
vars      == <<bridge, backlight, caller, history>>

Levels == 0..Max
Steps == {"free", "blank", "panel", "restore", "light"}

Shown(on, v) == IF on THEN v ELSE 0

\* What trouble there may be is counted.
Cost(troubled) ==
  /\ troubled => trouble > 0
  /\ trouble' = IF troubled THEN trouble - 1 ELSE trouble

\* bl_power: nothing is written when it has the value already; the old value comes
\* back when the write fails.
WritePower(on, ok) ==
  /\ power = on => ok
  /\ power' = IF ok THEN on ELSE power
  /\ IF power = on THEN UNCHANGED <<light, missed>>
     ELSE IF ok THEN light' = Shown(on, level) /\ missed' = FALSE
     ELSE \/ light' = Shown(on, level) /\ missed' = TRUE
          \/ UNCHANGED <<light, missed>>
  /\ UNCHANGED level
  /\ Cost(~ok)

\* brightness: the class keeps the new level even when the write fails.
WriteLevel(v, ok) ==
  /\ level' = v
  /\ light' = Shown(power, v) \/ (~ok /\ light' = light)
  /\ missed' = (missed /\ light' # Shown(power, v))
  /\ UNCHANGED power
  /\ Cost(~ok)

End(outcome) == pc' = "free" /\ last' = outcome

-----------------------------------------------------------------------------
\* The library.

\* is_on()
IsOn == power /\ level > 0

\* set_power(), toggle(): the lock is taken and the level read.
Switch(on) ==
  /\ pc = "free" /\ ~suspended
  /\ pc' = "blank" /\ want' = on /\ seen' = level /\ last' = "none"
  /\ UNCHANGED <<bridge, backlight, history>>
Toggle == Switch(~IsOn)

\* Mutant: a level of zero counts as blank.
BlankIfLit ==
  /\ pc = "blank" /\ ~suspended
  /\ IF level = 0 THEN pc' = "panel" /\ UNCHANGED <<last, backlight, missed, trouble>>
     ELSE \E ok \in BOOLEAN :
            /\ WritePower(FALSE, ok)
            /\ IF ok THEN pc' = "panel" /\ UNCHANGED last ELSE End("error")
  /\ UNCHANGED <<bridge, want, seen, unsure>>

Blank ==
  /\ pc = "blank" /\ ~suspended
  /\ \E ok \in BOOLEAN :
       /\ WritePower(FALSE, ok)
       /\ IF ok THEN pc' = "panel" /\ UNCHANGED last ELSE End("error")
  /\ UNCHANGED <<bridge, want, seen, unsure>>

AfterPanel ==
  IF want THEN pc' = (IF seen = 0 THEN "restore" ELSE "light") /\ UNCHANGED last
  ELSE End("off")

\* Mutant: the panel's refusal is not looked at.
PanelAnyway ==
  /\ pc = "panel" /\ ~suspended
  /\ \/ ~bound /\ AfterPanel /\ UNCHANGED <<bridge, unsure, trouble>>
     \/ \E ok \in BOOLEAN :
          /\ bound /\ SetPanel(IF want THEN "on" ELSE "off", ok)
          /\ AfterPanel
          /\ unsure' = FALSE
          /\ Found /\ Cost(~ok) /\ UNCHANGED <<bound, suspended>>
  /\ UNCHANGED <<backlight, want, seen, missed>>

\* bridge_set_panel(): without the driver there is nothing to switch; an error
\* leaves the backlight off.
Panel ==
  /\ pc = "panel" /\ ~suspended
  /\ \/ ~bound /\ AfterPanel /\ UNCHANGED <<bridge, unsure, trouble>>
     \/ \E ok \in BOOLEAN :
          /\ bound /\ SetPanel(IF want THEN "on" ELSE "off", ok)
          /\ IF ok THEN AfterPanel ELSE End("error")
          /\ unsure' = (unsure /\ (~ok \/ lost))
          /\ Found /\ Cost(~ok) /\ UNCHANGED <<bound, suspended>>
  /\ UNCHANGED <<backlight, want, seen, missed>>

Restore ==
  /\ pc = "restore" /\ ~suspended
  /\ \E ok \in BOOLEAN :
       /\ WriteLevel(DefaultOn, ok)
       /\ IF ok THEN pc' = "light" /\ UNCHANGED last ELSE End("error")
  /\ UNCHANGED <<bridge, want, seen, unsure>>

Light ==
  /\ pc = "light" /\ ~suspended
  /\ \E ok \in BOOLEAN :
       /\ WritePower(TRUE, ok)
       /\ End(IF ok THEN "on" ELSE "error")
  /\ UNCHANGED <<bridge, want, seen, unsure>>

\* set_brightness(), one write under the lock
SetBrightness(v) ==
  /\ pc = "free" /\ ~suspended
  /\ \E ok \in BOOLEAN : WriteLevel(v, ok)
  /\ UNCHANGED <<bridge, caller, unsure>>

\* The caller dies, and the lock with it.
Die ==
  /\ pc # "free"
  /\ End("error") /\ Cost(TRUE)
  /\ UNCHANGED <<bridge, backlight, want, seen, unsure, missed>>

-----------------------------------------------------------------------------
\* Those who do not take the lock.

\* A desktop or systemd-backlight sets the level.
Outsider(v) ==
  /\ ~suspended
  /\ level' = v /\ light' = Shown(power, v)
  /\ missed' = FALSE
  /\ Cost(v = 0)
  /\ UNCHANGED <<bridge, power, caller, unsure>>

\* The panel attribute and the debugfs file, by hand.
ByHand ==
  /\ bound /\ ~suspended
  /\ \E ok \in BOOLEAN :
       \/ \E target \in Targets : SetPanel(target, ok) /\ Found
       \/ \E p \in Packets : RawPacket(p, ok)
       \/ RawOther(ok)
  /\ unsure' = TRUE /\ Cost(TRUE)
  /\ UNCHANGED <<bound, suspended, backlight, caller, missed>>

Rebind ==
  /\ \/ \E ok \in BOOLEAN : Unbind(ok)
     \/ Bind
  /\ unsure' = TRUE /\ Cost(bound)
  /\ UNCHANGED <<backlight, caller, missed>>

\* The backlight's class darkens it for a suspend, and lights it at resume.
Suspend ==
  /\ BridgeSuspend
  /\ light' = 0 /\ Cost(TRUE)
  /\ UNCHANGED <<power, level, caller, unsure, missed>>
Resume ==
  /\ BridgeResume
  /\ light' = Shown(power, level)
  /\ unsure' = TRUE /\ missed' = FALSE
  /\ UNCHANGED <<power, level, caller, trouble>>

\* The firmware brings the screen up lit.
Init ==
  /\ display = TRUE /\ awake = TRUE
  /\ bound \in BOOLEAN /\ suspended = FALSE /\ lost = FALSE
  /\ panel_state = "on"
  /\ power = TRUE /\ level \in Levels /\ light = level
  /\ pc = "free" /\ want = TRUE /\ seen = 0 /\ last = "none"
  /\ unsure = FALSE /\ missed = FALSE /\ trouble = MaxTrouble

Step == Blank \/ Panel \/ Restore \/ Light

Next ==
  \/ Step \/ Toggle \/ Die
  \/ \E on \in BOOLEAN : Switch(on)
  \/ \E v \in 1..Max : SetBrightness(v)
  \/ \E v \in Levels : Outsider(v)
  \/ ByHand \/ Rebind \/ Suspend \/ Resume

Spec == Init /\ [][Next]_vars

\* A caller that holds the lock goes on.
FairSpec == Spec /\ WF_vars(Step)

-----------------------------------------------------------------------------
TypeOK ==
  /\ PanelTypeOK
  /\ light \in Levels /\ power \in BOOLEAN /\ level \in Levels
  /\ pc \in Steps /\ want \in BOOLEAN /\ seen \in Levels
  /\ last \in {"none", "on", "off", "error"}
  /\ unsure \in BOOLEAN /\ missed \in BOOLEAN /\ trouble \in Nat

On == display /\ awake

\* The backlight never shines over a panel that is off, asleep or uncertain: not in
\* any step of a switch, and not after a switch that failed or died, whoever
\* sets the brightness in between (display.rs: "an off/uncertain panel").
LitOverOn == light > 0 /\ ~unsure /\ ~missed => On

\* The bridge's driver reports the panel as it is, and no light shines over one that is off.
ScreenSafe == PanelTruthful /\ LitOverOn

\* A switch that reported success left the screen so: lit power over a panel that is
\* on, or darkness that no brightness set since has broken.
SwitchedIsSo ==
  pc = "free" /\ ~unsure =>
    /\ last = "on" => power /\ On
    /\ last = "off" => ~power /\ (light = 0 \/ missed) /\ (bound => ~display)

\* Switching on again and again lights the screen in the end, whatever failed before
\* and whatever was done to the panel (display.rs: "retry screen on to recover").
RetryLights ==
  (/\ <>[](want /\ bound /\ ~lost /\ ~suspended)
   /\ []<>(pc = "blank"))
  => []<>(light > 0 /\ On)

\* The strengthening that makes them inductive.  Lit power means a panel that is on;
\* while a switch is between blank and light, the power is off; the panel is on
\* when the light is next; without the bridge's driver nothing has changed it;
\* and a change it did not see is known to the history.
PowerInv ==
  /\ ~bound /\ ~unsure => On
  /\ lost => unsure
  /\ power /\ ~unsure => On
  /\ pc \in {"panel", "restore", "light"} => ~power
  /\ pc \in {"restore", "light"} => want /\ (~unsure => On)
  /\ ~power /\ ~missed => light = 0
  /\ suspended => light = 0

IInv == TypeOK /\ PanelTruthful /\ PowerInv /\ SwitchedIsSo
=============================================================================
