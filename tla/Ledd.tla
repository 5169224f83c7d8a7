-------------------------------- MODULE Ledd --------------------------------
(***************************************************************************)
(* t6-ledd, the single owner of the t6:* LEDs (crates/t6-ledd): a policy    *)
(* pass chooses an effect for every device, frames draw the effects through *)
(* a bank that skips writes it believes unnecessary, and settings are       *)
(* changed over a socket, by hand edits and SIGHUP, across restarts.        *)
(*                                                                          *)
(* Devices share the loop and the file and nothing else, so the module      *)
(* follows one of them, of any kind of the catalog.  Its situation is what  *)
(* its monitor reports: "alarm" is a failed drive, an overheated machine, a *)
(* radio fault; "news" a drive in the bay, a dark screen, limited network;  *)
(* "normal" an empty bay, a lit screen, a working connection.               *)
(***************************************************************************)
EXTENDS Naturals, FiniteSets

CONSTANTS
  Configs,     \* the configurations that are told apart
  Broken,      \* a file that does not load
  MaxTrouble   \* how many writes may fail

Kinds == {"bay", "power", "tray", "status"}

Settings == [night : SUBSET {"manual", "schedule"}, bays_enabled : BOOLEAN,
             bay_fault_blink : BOOLEAN, mode : {"auto", "quiet", "white", "off"}]

ASSUME LeddParameters ==
  /\ Configs \subseteq Settings /\ Broken \notin Settings
  /\ MaxTrouble \in Nat

VARIABLES
  \* the machine
  dev,        \* the device followed
  hw,         \* its LEDs that are lit
  situation, window,
  file, drift,  \* the configuration file; it changed since it was last read or saved
  \* struct Daemon
  cfg, config_error, plan, at,
  believed,   \* struct LedBank: what it last wrote to each LED
  \* history
  missed,     \* a failed write reached an LED since the bank was last emptied
  trouble     \* failures still to come

world  == <<dev, situation, window>>
daemon == <<cfg, config_error, plan, at>>
leds   == <<hw, believed, missed, trouble>>
vars   == <<world, file, drift, daemon, leds>>

\* The LEDs of the device in the order of its table; a colour is a set of them.
Leds   == IF dev \in {"bay", "power"} THEN 1..2 ELSE 1..3
White  == IF dev = "tray" THEN 1..3 ELSE {1}
Red    == IF dev = "status" THEN {1} ELSE {2}
Yellow == {1, 2}
Blue   == {3}

Colours == IF dev \in {"bay", "power"} THEN {{}, {1}, {2}} ELSE SUBSET Leds

\* Modes a device offers: validate_for(), with manual_colors() and drop_retired_colors().
Modes == CASE dev = "bay"    -> {"auto"}
           [] dev = "power"  -> {"auto", "off"}
           [] dev = "tray"   -> {"white", "off"}
           [] dev = "status" -> {"auto", "quiet", "off"}
Valid == {c \in Configs : c.mode \in Modes}

\* An empty file, every entry at its default, and Config::default().
Empty == [night |-> {}, bays_enabled |-> TRUE, bay_fault_blink |-> TRUE,
          mode |-> IF dev = "tray" THEN "off" ELSE "auto"]
Default == IF dev = "status" THEN [Empty EXCEPT !.mode = "quiet"] ELSE Empty

-----------------------------------------------------------------------------
\* The policy.

\* night_active()
Night(c) == "manual" \in c.night \/ ("schedule" \in c.night /\ window)

Solid(colour) == [leds |-> colour, blinks |-> FALSE]
Blink(colour) == [leds |-> colour, blinks |-> TRUE]
Off == Solid({})

\* status_effect(), and State::effect() of wifi.rs and bluetooth.rs
StatusEffect(c) ==
  CASE situation = "alarm" -> Solid(Red)
    [] situation # "alarm" /\ (Night(c) \/ c.mode = "off") -> Off
    [] situation = "normal" /\ ~Night(c) /\ c.mode = "quiet" -> Off
    [] situation = "normal" /\ ~Night(c) /\ c.mode = "auto" -> Solid(Blue)
    [] OTHER -> Solid(Yellow)

BayEffect(c) ==
  CASE situation = "alarm" /\ c.bay_fault_blink -> Blink(Red)
    [] situation = "news" /\ ~Night(c) /\ c.bays_enabled -> Solid(White)
    [] OTHER -> Off

PowerEffect(c) ==
  CASE c.mode = "auto" /\ situation = "alarm" -> Blink(Red)
    [] c.mode = "auto" /\ situation = "news" /\ ~Night(c) -> Solid(White)
    [] OTHER -> Off

\* Mutant: night mode comes before everything.
EvaluateNightFirst(c) ==
  CASE Night(c) -> Off
    [] ~Night(c) /\ dev = "bay"    -> BayEffect(c)
    [] ~Night(c) /\ dev = "power"  -> PowerEffect(c)
    [] ~Night(c) /\ dev = "status" -> StatusEffect(c)
    [] OTHER -> IF c.mode = "white" THEN Solid(White) ELSE Off

\* Mutant: a fixed colour stays at night.
EvaluateFixedAtNight(c) ==
  CASE dev = "bay"    -> BayEffect(c)
    [] dev = "power"  -> PowerEffect(c)
    [] dev = "status" -> StatusEffect(c)
    [] dev = "tray"   -> IF c.mode = "white" THEN Solid(White) ELSE Off

\* evaluate()
Evaluate(c) ==
  CASE dev = "bay"    -> BayEffect(c)
    [] dev = "power"  -> PowerEffect(c)
    [] dev = "status" -> StatusEffect(c)
    [] dev = "tray"   -> IF c.mode = "white" /\ ~Night(c) THEN Solid(White) ELSE Off

-----------------------------------------------------------------------------
\* The bank.

Unknown == [l \in Leds |-> "unknown"]
Want(on, l) == IF l \in on THEN "on" ELSE "off"

\* LedBank::set(): the writes that are due, and those before the write of l.
Due(b, on) == {l \in Leds : b[l] # Want(on, l)}
Rank(on, l) == l + IF l \in on THEN 3 ELSE 0
Before(b, on, l) == {k \in Due(b, on) : Rank(on, k) < Rank(on, l)}

\* What writes make of the bank's memory.
Recorded(b, on, written) == [l \in Leds |-> IF l \in written THEN Want(on, l) ELSE b[l]]

\* What they make of the LEDs: a bay or power LED shows one colour, the last that was
\* switched on, which switching another off leaves.
Lit(on, written) ==
  IF dev \in {"bay", "power"} /\ written \cap on # {} THEN written \cap on
  ELSE (hw \ (written \ on)) \cup (written \cap on)

\* Mutant: a write is remembered before it has succeeded.
SetRemembersFailed(b, on, seen) ==
  \/ /\ hw' = Lit(on, Due(b, on))
     /\ believed' = Recorded(b, on, Due(b, on))
     /\ missed' = seen /\ trouble' = trouble
  \/ \E l \in Due(b, on), landed \in BOOLEAN :
       /\ trouble > 0 /\ trouble' = trouble - 1
       /\ landed => dev # "status"
       /\ hw' = Lit(on, Before(b, on, l) \cup (IF landed THEN {l} ELSE {}))
       /\ believed' = Recorded(b, on, Before(b, on, l) \cup {l})
       /\ missed' = (seen \/ landed)

\* set() the colour on, with b for the bank's memory and seen for what of it is wrong
\* already.  It ends at the first write that fails; one to the embedded controller
\* can fail after it has reached the controller, while the radio LEDs are GPIOs and
\* fail only when the driver is gone.
Set(b, on, seen) ==
  \/ /\ hw' = Lit(on, Due(b, on))
     /\ believed' = Recorded(b, on, Due(b, on))
     /\ missed' = seen /\ trouble' = trouble
  \/ \E l \in Due(b, on), landed \in BOOLEAN :
       /\ trouble > 0 /\ trouble' = trouble - 1
       /\ landed => dev # "status"
       /\ hw' = Lit(on, Before(b, on, l) \cup (IF landed THEN {l} ELSE {}))
       /\ believed' = Recorded(b, on, Before(b, on, l))
       /\ missed' = (seen \/ landed)

\* render(): the frame's colour, in the lit or the dark half of a blink.
Render(effect, lit, b, seen) ==
  Set(b, IF effect.blinks /\ ~lit THEN {} ELSE effect.leds, seen)

-----------------------------------------------------------------------------
\* The daemon.

\* refresh_now() under the configuration c
Refresh(c, b, seen) ==
  /\ plan' = Evaluate(c)
  /\ \E lit \in BOOLEAN : Render(Evaluate(c), lit, b, seen)

\* main() up to its loop, with load_or_default(): a file that does not load
\* leaves the defaults in force, and says so.
Start ==
  /\ at = "down" /\ at' = "loop"
  /\ cfg' = IF file = Broken THEN Default ELSE file
  /\ config_error' = (file = Broken) /\ drift' = FALSE
  /\ Refresh(cfg', Unknown, FALSE)
  /\ UNCHANGED <<world, file>>

\* 50 ms without a request: the old plan is drawn; every 2 s a new one is made.
Frame(lit, due) ==
  /\ at = "loop"
  /\ Render(plan, lit, believed, missed)
  /\ plan' = IF due THEN Evaluate(cfg) ELSE plan
  /\ UNCHANGED <<world, file, drift, cfg, config_error, at>>

\* The screen went on or off since the last policy pass.
ScreenChanged ==
  /\ at = "loop"
  /\ Refresh(cfg, believed, missed)
  /\ UNCHANGED <<world, file, drift, cfg, config_error, at>>

\* What one command makes of a configuration.
Changed(c) ==
  {[c EXCEPT !.bays_enabled = on] : on \in BOOLEAN}
  \cup {[c EXCEPT !.bay_fault_blink = on] : on \in BOOLEAN}
  \cup {[c EXCEPT !.night = IF on THEN @ \cup {n} ELSE @ \ {n}] :
          n \in {"manual", "schedule"}, on \in BOOLEAN}
  \cup {[c EXCEPT !.mode = m] : m \in Modes}

\* command(), a setting: it is in force before it is saved.
Command ==
  /\ at = "loop"
  /\ cfg' \in Changed(cfg) \cap Valid
  /\ file' = cfg' /\ drift' = FALSE /\ config_error' = FALSE
  /\ Refresh(cfg', believed, missed)
  /\ UNCHANGED <<world, at>>

\* The file is written in place: when that fails, it is as it was, or cut short;
\* the setting stays in force and the next policy pass follows it.
CommandUnsaved ==
  /\ at = "loop" /\ trouble > 0
  /\ cfg' \in Changed(cfg) \cap Valid
  /\ file' \in {file, Empty, Broken} /\ drift' = TRUE
  /\ trouble' = trouble - 1
  /\ UNCHANGED <<world, config_error, plan, at, hw, believed, missed>>

\* Mutant: reload() does not empty the bank.
ReloadKeepsBank ==
  /\ at = "loop" /\ drift' = FALSE
  /\ IF file = Broken
     THEN config_error' = TRUE /\ UNCHANGED <<cfg, plan, leds>>
     ELSE cfg' = file /\ config_error' = FALSE /\ Refresh(file, believed, FALSE)
  /\ UNCHANGED <<world, file, at>>

\* reload(), by SIGHUP or by command
Reload ==
  /\ at = "loop" /\ drift' = FALSE
  /\ IF file = Broken
     THEN config_error' = TRUE /\ UNCHANGED <<cfg, plan, leds>>
     ELSE cfg' = file /\ config_error' = FALSE /\ Refresh(file, Unknown, FALSE)
  /\ UNCHANGED <<world, file, at>>

\* What the process knew is gone.
Forgotten == cfg' = Default /\ config_error' = FALSE /\ plan' = Off

\* park(): a status LED keeps what it shows, unanimated; a bay shows its drive, which
\* may be gone after it failed.
Term ==
  /\ at = "loop" /\ at' = "down"
  /\ \E colour \in CASE dev = "status" -> {plan.leds}
                      [] dev = "tray"   -> {{}}
                      [] dev = "power"  -> {White}
                      [] dev = "bay"    -> {White : x \in {situation} \ {"normal"}}
                                           \cup {{} : x \in {situation} \ {"news"}} :
       Set(believed, colour, missed)
  /\ Forgotten
  /\ UNCHANGED <<world, file, drift>>

\* The process dies, perhaps while it saves.
Kill ==
  /\ at = "loop" /\ at' = "down"
  /\ \/ UNCHANGED <<file, trouble>>
     \/ trouble > 0 /\ trouble' = trouble - 1 /\ file' \in {Empty, Broken}
  /\ believed' = Unknown /\ missed' = FALSE /\ Forgotten
  /\ UNCHANGED <<world, drift, hw>>

-----------------------------------------------------------------------------
\* The machine and its users.

Happens == /\ situation' \in {"alarm", "news", "normal"}
           /\ UNCHANGED <<dev, window, file, drift, daemon, leds>>
\* Only a scheduled night looks at the clock.
Clock == /\ "schedule" \in cfg.night
         /\ window' = ~window
         /\ UNCHANGED <<dev, situation, file, drift, daemon, leds>>
HandEdit == /\ file' \in Valid \cup {Broken} /\ drift' = TRUE
            /\ UNCHANGED <<world, daemon, leds>>

Init ==
  /\ dev \in Kinds
  /\ hw \in {{}, Red}
  /\ situation = "normal" /\ window = FALSE
  /\ file \in Valid \cup {Broken} /\ drift = FALSE
  /\ cfg = Default /\ config_error = FALSE /\ plan = Off /\ at = "down"
  /\ believed = Unknown /\ missed = FALSE /\ trouble = MaxTrouble

Next ==
  \/ Start \/ ScreenChanged \/ Command \/ CommandUnsaved \/ Reload \/ Term \/ Kill
  \/ \E lit, due \in BOOLEAN : Frame(lit, due)
  \/ Happens \/ Clock \/ HandEdit

Spec == Init /\ [][Next]_vars

\* Requests leave the loop its 50 ms again and again: in the light half of a blink,
\* in the dark half, and when the policy is due.
FairSpec ==
  /\ Spec
  /\ \A lit \in BOOLEAN : WF_vars(\E due \in BOOLEAN : Frame(lit, due))
  /\ WF_vars(\E lit \in BOOLEAN : Frame(lit, TRUE))

-----------------------------------------------------------------------------
TypeOK ==
  /\ dev \in Kinds /\ hw \subseteq Leds
  /\ situation \in {"alarm", "news", "normal"} /\ window \in BOOLEAN
  /\ file # Broken => file \in Settings /\ file.mode \in Modes
  /\ drift \in BOOLEAN
  /\ cfg \in Settings /\ cfg.mode \in Modes /\ config_error \in BOOLEAN
  /\ plan \in [leds : Colours, blinks : BOOLEAN]
  /\ at \in {"down", "loop"}
  /\ believed \in [Leds -> {"on", "off", "unknown"}]
  /\ missed \in BOOLEAN /\ trouble \in Nat

\* What the bank believes of an LED is so, unless a failed write reached it: a write
\* that is skipped would not have changed anything.
BankHonest ==
  at = "loop" /\ ~missed => \A l \in Leds :
    believed[l] # "unknown" => (l \in hw <=> believed[l] = "on")

\* Unless an error is shown, an edit not reloaded or a save that failed, the
\* configuration in force is that of the file: a restart changes nothing.
InForce == at = "loop" /\ ~config_error /\ ~drift => cfg = file

\* What the daemon remembers, of its LEDs and of its file, is so.
RemembersRight == BankHonest /\ InForce

\* Reloading repairs what the bank had wrong: if no write fails, the LED shows the
\* plan afterwards.
ReloadRepaints ==
  [][Reload /\ file # Broken /\ trouble' = trouble =>
       hw' = plan'.leds \/ (plan'.blinks /\ hw' = {})]_vars

\* An alarm that lasts is lit again and again, whatever the mode, the night, the
\* writes that failed and the settings that were changed before.
AlarmShown ==
  <>[](/\ at = "loop" /\ situation = "alarm" /\ dev # "tray"
       /\ dev = "bay" => cfg.bay_fault_blink
       /\ dev = "power" => cfg.mode = "auto")
  => []<>(hw = Red)

\* In a night that lasts, what is no alarm goes dark and stays dark.
NightDark ==
  <>[](at = "loop" /\ Night(cfg) /\ (situation = "alarm" => dev = "tray"))
  => <>[](hw = {} \/ missed)

-----------------------------------------------------------------------------
\* Statements of the sources that a run refutes.

\* The header of the file: "hand edits are kept but reformatted on the next
\* change".
HandEditsKept ==
  [][drift /\ file # Broken /\ ~drift' /\ file' # file => file' \in Changed(file)]_vars

=============================================================================
