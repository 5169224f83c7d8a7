-------------------------------- MODULE Fand --------------------------------
(***************************************************************************)
(* The loop of t6-fand (crates/t6-fand/src/main.rs): parking, reload on     *)
(* SIGHUP, one control step over all zones, and the end on SIGTERM.  Each   *)
(* zone drives a fan of its own; what a zone's controller asks for          *)
(* (FandZone) is any duty here.  Writing a fan may fail, with the duty      *)
(* having reached the fan or not.                                           *)
(***************************************************************************)
EXTENDS Naturals, FiniteSets

CONSTANTS
  Fans,        \* in the order of their zones' names: 1, 2, ...
  Duties,
  Profiles,
  Configs,     \* configurations that pass Config::validate()
  MaxTrouble,  \* how many accesses may fail
  NoProfile    \* no file /run/t6-fand/profile

\* A configuration: the fans that have a zone, the profiles each zone has a
\* curve for, the default profile, the fail-safe duty.
FandParameters ==
  /\ Fans \subseteq Nat /\ IsFiniteSet(Fans)
  /\ NoProfile \notin Profiles /\ MaxTrouble \in Nat
  /\ \A c \in Configs :
       /\ c.zones \subseteq Fans /\ c.zones # {}
       /\ c.failsafe_pwm \in Duties
       /\ c.profile \in Profiles
       /\ \A z \in c.zones : c.profile \in c.curves[z]

VARIABLES
  \* the machine
  duty,       \* of each fan
  readable,   \* the fans whose zone has a sensor that can be read
  file,       \* the configuration file
  override,   \* /run/t6-fand/profile
  hup, term,  \* signals not yet seen
  \* struct Daemon
  cfg, last_pwm,
  \* its loop: what it does, the zones still to do, and the profile of the step
  at, todo, profile,
  \* history
  faulty,     \* fans whose last access failed
  driven,     \* fans that a zone has driven since the daemon started
  trouble     \* faults still to come

machine == <<readable, file, override, hup, term>>
daemon  == <<cfg, last_pwm>>
loop    == <<at, todo, profile>>
history == <<faulty, driven, trouble>>
vars    == <<duty, machine, daemon, loop, history>>

At == {"parking", "idle", "stepping", "leaving", "stopped"}

\* The zones are worked through in the order of their names.
Head(zones) == CHOOSE z \in zones : \A y \in zones : z <= y

-----------------------------------------------------------------------------
\* take_control() and set_percent(); ok if both returned Ok.
Write(z, pwm, ok) ==
  /\ \/ duty' = [duty EXCEPT ![z] = pwm]
     \/ ~ok /\ UNCHANGED duty
  /\ faulty' = IF ok THEN faulty \ {z} ELSE faulty \cup {z}
  /\ driven' = driven \cup {z}
  /\ trouble' = trouble - (IF ok THEN 0 ELSE 1)
  /\ ok \/ trouble > 0

\* park(), one zone: the duty counts as set even if it could not be.
ParkZone ==
  /\ at \in {"parking", "leaving"} /\ todo # {}
  /\ \E ok \in BOOLEAN : Write(Head(todo), cfg.failsafe_pwm, ok)
  /\ last_pwm' = [last_pwm EXCEPT ![Head(todo)] = cfg.failsafe_pwm]
  /\ todo' = todo \ {Head(todo)}
  /\ UNCHANGED <<machine, cfg, at, profile>>

Parked ==
  /\ at \in {"parking", "leaving"} /\ todo = {}
  /\ at' = IF at = "parking" THEN "idle" ELSE "stopped"
  /\ UNCHANGED <<duty, machine, daemon, todo, profile, history>>

\* Mutant: the zones of the new configuration are not parked.
ReloadWithoutPark ==
  /\ at = "idle" /\ ~term /\ hup
  /\ hup' = FALSE
  /\ cfg' = file
  /\ last_pwm' = [z \in Fans |-> IF z \in file.zones THEN file.failsafe_pwm ELSE 0]
  /\ UNCHANGED <<duty, readable, file, override, term, loop, history>>

\* The loop: SIGTERM first, then SIGHUP.  A configuration that cannot be loaded,
\* or names a fan that is not found, leaves the current one.
Reload ==
  /\ at = "idle" /\ ~term /\ hup
  /\ hup' = FALSE
  /\ \/ /\ cfg' = file
        /\ last_pwm' = [z \in Fans |-> IF z \in file.zones THEN file.failsafe_pwm ELSE 0]
        /\ at' = "parking"
        /\ todo' = file.zones
     \/ UNCHANGED <<daemon, at, todo>>
  /\ UNCHANGED <<duty, readable, file, override, term, profile, history>>

Leave ==
  /\ at = "idle" /\ term
  /\ at' = "leaving"
  /\ todo' = cfg.zones
  /\ UNCHANGED <<duty, machine, daemon, profile, history>>

\* active_profile()
ActiveProfile ==
  IF override # NoProfile /\ \A z \in cfg.zones : override \in cfg.curves[z]
  THEN override ELSE cfg.profile

BeginStep ==
  /\ at = "idle" /\ ~term /\ ~hup
  /\ at' = "stepping"
  /\ todo' = cfg.zones
  /\ profile' = ActiveProfile
  /\ UNCHANGED <<duty, machine, daemon, history>>

\* step(), one zone: a duty that is the last one is not written; one that
\* cannot be written ends the step.
StepZone ==
  /\ at = "stepping" /\ todo # {}
  /\ LET z == Head(todo) IN
     \E pwm \in IF z \in readable THEN Duties ELSE {cfg.failsafe_pwm} :
       \/ /\ pwm = last_pwm[z]
          /\ todo' = todo \ {z}
          /\ UNCHANGED <<duty, last_pwm, at, history>>
       \/ \E ok \in BOOLEAN :
            /\ pwm # last_pwm[z]
            /\ Write(z, pwm, ok)
            /\ last_pwm' = IF ok THEN [last_pwm EXCEPT ![z] = pwm] ELSE last_pwm
            /\ todo' = IF ok THEN todo \ {z} ELSE {}
            /\ at' = IF ok THEN at ELSE "idle"
  /\ UNCHANGED <<machine, cfg, profile>>

\* The status file, which only tells, is written.
EndStep ==
  /\ at = "stepping" /\ todo = {}
  /\ at' = "idle"
  /\ UNCHANGED <<duty, machine, daemon, todo, profile, history>>

-----------------------------------------------------------------------------
\* The machine and its users.

Sensors == /\ \E z \in Fans : readable' = IF z \in readable THEN readable \ {z} ELSE readable \cup {z}
           /\ UNCHANGED <<duty, file, override, hup, term, daemon, loop, history>>
Edit == /\ file' \in Configs
        /\ UNCHANGED <<duty, readable, override, hup, term, daemon, loop, history>>
Override == /\ override' \in Profiles \cup {NoProfile}
            /\ UNCHANGED <<duty, readable, file, hup, term, daemon, loop, history>>
Hup == /\ hup' = TRUE
       /\ UNCHANGED <<duty, readable, file, override, term, daemon, loop, history>>
Term == /\ term' = TRUE
        /\ UNCHANGED <<duty, readable, file, override, hup, daemon, loop, history>>

\* The service is started; the fans run at whatever they ran.
Init ==
  /\ duty \in [Fans -> Duties]
  /\ readable \in SUBSET Fans
  /\ file \in Configs /\ cfg = file
  /\ override \in Profiles \cup {NoProfile}
  /\ hup = FALSE /\ term = FALSE
  /\ last_pwm = [z \in Fans |-> IF z \in cfg.zones THEN cfg.failsafe_pwm ELSE 0]
  /\ at = "parking" /\ todo = cfg.zones
  /\ profile = NoProfile
  /\ faulty = {} /\ driven = {} /\ trouble = MaxTrouble

Daemon == \/ ParkZone \/ Parked \/ Reload \/ Leave \/ BeginStep \/ StepZone \/ EndStep

Next == Daemon \/ Sensors \/ Edit \/ Override \/ Hup \/ Term

Spec == Init /\ [][Next]_vars

\* The process runs.
FairSpec == Spec /\ WF_vars(Daemon)

-----------------------------------------------------------------------------
TypeOK ==
  /\ duty \in [Fans -> Duties] /\ readable \subseteq Fans
  /\ file \in Configs /\ override \in Profiles \cup {NoProfile}
  /\ hup \in BOOLEAN /\ term \in BOOLEAN
  /\ cfg \in Configs /\ last_pwm \in [Fans -> Duties \cup {0}]
  /\ at \in At /\ todo \subseteq cfg.zones
  /\ profile \in Profiles \cup {NoProfile}
  /\ faulty \subseteq driven /\ driven \subseteq Fans /\ trouble \in Nat

\* What the daemon believes of a fan is so, unless its last access failed: a
\* write that is skipped because nothing changed skips nothing.
BelievedIsReal ==
  \A z \in cfg.zones :
    ~(at \in {"parking", "leaving"} /\ z \in todo) /\ z \notin faulty => duty[z] = last_pwm[z]

\* Every zone has a curve for the profile of the step: no override, whenever it
\* is written and whatever configuration is loaded after it, makes the daemon
\* panic on a missing curve and leave the fans as they are.
ProfileHasCurves ==
  at = "stepping" => \A z \in cfg.zones : profile \in cfg.curves[z]

\* A daemon that has left parked the fans of its zones.
LeavesParked ==
  at = "stopped" => \A z \in cfg.zones \ faulty : duty[z] = cfg.failsafe_pwm

\* What the loop keeps at every step.
LoopSound == TypeOK /\ BelievedIsReal /\ ProfileHasCurves /\ LeavesParked

\* SIGTERM ends the daemon.
TermEnds == term ~> at = "stopped"

-----------------------------------------------------------------------------
\* Statements of the sources that a run refutes.

\* README: "a zone whose sensors cannot be read gets failsafe_pwm".
UnreadableGetsFailsafe ==
  \A z \in Fans :
    <>[](z \in cfg.zones \ readable /\ ~hup /\ ~term) => <>(duty[z] = cfg.failsafe_pwm)

=============================================================================
