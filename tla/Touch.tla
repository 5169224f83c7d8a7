--------------------------------- MODULE Touch ---------------------------------
(***************************************************************************)
(* The driver of the touch controller (ft8722): the interrupt thread that   *)
(* turns frames into fingers and the pen, the run of phantom frames it sees  *)
(* through, the work that recalibrates the controller, and suspend and       *)
(* unbinding, all of which take the interrupt away and give it back.         *)
(***************************************************************************)
EXTENDS Naturals

CONSTANTS
  RunLen,     \* how many phantom frames make a run long enough
  MaxGhosts,  \* how often the controller falls into its phantom state
  MaxPauses,  \* how often phantom frames pause for longer than FT8722_PHANTOM_GAP_MS
  MaxNaps,    \* how often the system suspends or the driver is unbound
  None

TouchAssumption ==
  /\ RunLen \in Nat \ {0}
  /\ MaxGhosts \in Nat /\ MaxPauses \in Nat /\ MaxNaps \in Nat

VARIABLES
  depth,            \* how often the interrupt is disabled
  queued, work,     \* recover_work: scheduled, and how far it has come
  recent,           \* recovered_once, within FT8722_RECOVER_INTERVAL of it
  state,            \* of the driver: "up", "suspending", "suspended", "removing", "gone"
  fingers, pen,     \* reported to the input layer as down, as in range
  phantom, run,     \* the last frame was a phantom one; how long the run is
  ghost, held, near, \* the controller's phantom state; a finger on the glass, the pen near it
  ghosts, pauses, naps

driver  == <<depth, queued, work, recent, state>>
reports == <<fingers, pen, phantom, run>>
glass   == <<ghost, held, near>>
count   == <<ghosts, pauses, naps>>
touch   == <<driver, reports, glass, count>>

WorkSteps == {"idle", "entering", "recovering"}
States == {"up", "suspending", "suspended", "removing", "gone"}

\* ft8722_input_release_all(), and the run forgotten
Released == fingers' = FALSE /\ pen' = FALSE
Forgotten == phantom' = FALSE /\ run' = 0

Enabled == depth = 0 /\ state # "gone"

-----------------------------------------------------------------------------
\* The interrupt thread; disable_irq() waits for it, so that a frame is one step.

\* ft8722_phantom_frame(), ft8722_phantom_detected()
PhantomFrame ==
  /\ Enabled /\ ghost
  /\ fingers' = (phantom /\ fingers)
  /\ phantom' = TRUE
  /\ run' = (IF run < RunLen THEN run + 1 ELSE run)
  /\ queued' = (queued \/ (run' = RunLen /\ ~recent))
  /\ UNCHANGED <<pen, depth, work, recent, state, glass, count>>

\* Mutant: a small frame ends the run.
ContactsEndTheRun ==
  /\ Enabled
  /\ fingers' = held /\ Forgotten
  /\ UNCHANGED <<pen, driver, glass, count>>

\* A frame with contacts, or with none; also between phantom frames.
Contacts ==
  /\ Enabled
  /\ fingers' = held /\ phantom' = FALSE
  /\ UNCHANGED <<pen, run, driver, glass, count>>
PenFrame ==
  /\ Enabled
  /\ pen' = near /\ phantom' = FALSE
  /\ UNCHANGED <<fingers, run, driver, glass, count>>

\* A frame that cannot be read or tells of an error; one of no known form.
BadFrame ==
  /\ Enabled
  /\ Released /\ phantom' \in {phantom, FALSE}
  /\ UNCHANGED <<run, driver, glass, count>>

-----------------------------------------------------------------------------
\* ft8722_recover(), from its start to disable_irq() to the end.

WorkStarts ==
  /\ queued /\ work = "idle"
  /\ queued' = FALSE /\ work' = "entering"
  /\ UNCHANGED <<depth, recent, state, reports, glass, count>>

WorkDisables ==
  /\ work = "entering" /\ work' = "recovering"
  /\ depth' = depth + 1
  /\ UNCHANGED <<queued, recent, state, reports, glass, count>>

\* The controller may fail, and stay as it is.
Recovered(cured) ==
  /\ work = "recovering" /\ work' = "idle"
  /\ ghost' = (ghost /\ ~cured)
  /\ Released /\ Forgotten
  /\ recent' = TRUE
  /\ depth' = depth - 1
  /\ UNCHANGED <<queued, state, held, near, count>>

IntervalPasses ==
  /\ recent /\ recent' = FALSE
  /\ UNCHANGED <<depth, queued, work, state, reports, glass, count>>

-----------------------------------------------------------------------------
\* ft8722_suspend(), ft8722_stop_recovery(): disable_irq(), then cancel_work_sync(),
\* which waits for work that runs.

Disables(to) ==
  /\ state = "up" /\ naps > 0 /\ naps' = naps - 1
  /\ state' = to /\ depth' = depth + 1
  /\ UNCHANGED <<queued, work, recent, reports, glass, ghosts, pauses>>

Suspend == Disables("suspending")
Remove == Disables("removing")

SuspendEnds ==
  /\ state = "suspending" /\ work = "idle"
  /\ state' = "suspended" /\ queued' = FALSE
  /\ Released /\ Forgotten
  /\ UNCHANGED <<depth, work, recent, glass, count>>
Resume ==
  /\ state = "suspended" /\ state' = "up"
  /\ depth' = depth - 1
  /\ UNCHANGED <<queued, work, recent, reports, glass, count>>

\* The interrupt is freed, then the input devices, which takes what they report back.
RemoveEnds ==
  /\ state = "removing" /\ work = "idle"
  /\ state' = "gone" /\ queued' = FALSE
  /\ Released
  /\ UNCHANGED <<depth, work, recent, phantom, run, glass, count>>

\* ft8722_probe()
Probe ==
  /\ state = "gone" /\ state' = "up"
  /\ depth' = 0 /\ recent' = FALSE /\ Forgotten
  /\ UNCHANGED <<queued, work, fingers, pen, glass, count>>

-----------------------------------------------------------------------------
\* The controller and its user.

Ghosts ==
  /\ ~ghost /\ ghosts > 0
  /\ ghost' = TRUE /\ ghosts' = ghosts - 1
  /\ UNCHANGED <<driver, reports, held, near, pauses, naps>>

\* The next phantom frame begins a run of its own.
Pause ==
  /\ run > 0 /\ pauses > 0 /\ pauses' = pauses - 1
  /\ run' = 0
  /\ UNCHANGED <<fingers, pen, phantom, driver, glass, ghosts, naps>>

Finger == held' = ~held /\ UNCHANGED <<driver, reports, ghost, near, count>>
Pen == near' = ~near /\ UNCHANGED <<driver, reports, ghost, held, count>>

Init ==
  /\ depth = 0 /\ queued = FALSE /\ work = "idle" /\ recent = FALSE /\ state = "up"
  /\ fingers = FALSE /\ pen = FALSE /\ phantom = FALSE /\ run = 0
  /\ ghost = FALSE /\ held = FALSE /\ near = FALSE
  /\ ghosts = MaxGhosts /\ pauses = MaxPauses /\ naps = MaxNaps

Next ==
  \/ PhantomFrame \/ Contacts \/ PenFrame \/ BadFrame
  \/ WorkStarts \/ WorkDisables \/ IntervalPasses
  \/ \E cured \in BOOLEAN : Recovered(cured)
  \/ Suspend \/ SuspendEnds \/ Resume \/ Remove \/ RemoveEnds \/ Probe
  \/ Ghosts \/ Pause \/ Finger \/ Pen

\* Work that is scheduled runs.  The controller reports what happens on it, in its phantom
\* state as phantoms, and not every recalibration fails.
Works == WorkStarts \/ WorkDisables
Waited == SuspendEnds \/ RemoveEnds
PenSeen == ~ghost /\ PenFrame
Fairness ==
  /\ WF_touch(Works) /\ SF_touch(Recovered(TRUE)) /\ WF_touch(IntervalPasses)
  /\ WF_touch(Waited) /\ WF_touch(PhantomFrame) /\ WF_touch(PenSeen)
Spec == Init /\ [][Next]_touch /\ Fairness

-----------------------------------------------------------------------------
TypeOK ==
  /\ depth \in 0..2 /\ run \in 0..RunLen
  /\ work \in WorkSteps /\ state \in States
  /\ queued \in BOOLEAN /\ recent \in BOOLEAN
  /\ fingers \in BOOLEAN /\ pen \in BOOLEAN /\ phantom \in BOOLEAN
  /\ ghost \in BOOLEAN /\ held \in BOOLEAN /\ near \in BOOLEAN
  /\ ghosts \in Nat /\ pauses \in Nat /\ naps \in Nat

\* Who took the interrupt away gives it back, in whatever order they end (ft8722_core.c:
\* disable_irq(), enable_irq()).
IrqBalanced ==
  state # "gone" =>
    depth = (IF work = "recovering" THEN 1 ELSE 0) + (IF state = "up" THEN 0 ELSE 1)

\* Asleep or unbound, nothing is down, and no recovery runs or is to run ("no handler,
\* then no recovery in flight").
SleepsQuietly ==
  state \in {"suspended", "gone"} => work = "idle" /\ ~queued /\ ~fingers /\ ~pen

\* The frame before a phantom one leaves nothing down (ft8722_phantom_frame()).
PhantomsReleased == phantom => ~fingers

TouchSound == TypeOK /\ IrqBalanced /\ SleepsQuietly /\ PhantomsReleased

\* The phantom state ends, whatever small frames are between its frames ("does not end the
\* run"), and a pen that has left is reported so.
Stuck == ghost \/ (pen /\ ~near)
Settled == (~ghost \/ state # "up") /\ (~pen \/ near)
TouchSettles == Stuck ~> Settled
=============================================================================
