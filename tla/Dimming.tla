-------------------------------- MODULE Dimming --------------------------------
(***************************************************************************)
(* How t6-paneld dims a screen nobody uses, and brings its level back       *)
(* (idle.rs): the timer with its fade and its way back, the level to return *)
(* to in the settings file, holds, others who switch the screen or set its  *)
(* level, and the end of the process at any step.  Seconds are `idle`: how  *)
(* much of the time to dim and to switch off has passed since the last use. *)
(***************************************************************************)
EXTENDS Naturals

CONSTANTS
  Top,       \* the highest level
  Mishaps,   \* how many levels others set, ends of the process and failing writes there are
  None

DimmingAssumption ==
  /\ Top \in Nat \ {0} /\ Mishaps \in Nat
  /\ None \notin Nat /\ None \notin [normal : 0..Top, level : 0..Top]

VARIABLES
  lit, shown,       \* the backlight: switched on, and its level
  dimmed_from,      \* in the settings file
  timer,            \* the step of timer(), or "dead"
  dim,              \* its Dim: [normal, level], or None
  at, then,         \* the level the fade has reached; what follows the way back
  was_on, resting,  \* as the timer saw the screen; dim_retry_at lies ahead
  idle, touched,    \* the time since the last use; a use since the dim began
  held, dims,       \* a hold is on; dim_after_s > 0
  \* history: the level somebody chose last, and whether the code gave it up
  chosen, spoiled,
  left  \* of the mishaps

light == <<lit, shown>>
clock == <<was_on, resting, idle, touched, held, dims>>
vars  == <<light, dimmed_from, timer, dim, at, then, clock, chosen, spoiled, left>>

Levels == 0..Top
Steps == {"look", "save", "fade", "clear", "back", "off", "dead"}

\* mark_activity()
Marked == touched' = TRUE /\ idle' = 0
Unmarked == UNCHANGED <<touched, idle>>

\* A write that may fail; one that does may spoil the level for good.
Mishap == left > 0 /\ left' = left - 1
Fault(spoils) == Mishap /\ spoiled' = (spoiled \/ spoils)
Fine == UNCHANGED <<left, spoiled>>

\* A level chosen while the way back still leads to a higher one, unseen.
Unseen == dimmed_from # None /\ 0 < chosen /\ chosen < dimmed_from

\* set_level(v): a write that fails may have landed.
SetLevel(v, spoils) ==
  \/ shown' = v /\ Fine
  \/ shown' \in {shown, v} /\ Fault(spoils)
\* set_dimmed_from(v), whose failure is ignored
Keep(v) ==
  \/ dimmed_from' = v /\ Fine
  \/ dimmed_from' = dimmed_from /\ Fault(TRUE)

-----------------------------------------------------------------------------
\* timer(), from one await to the next.

\* What ends a dim, but for a level somebody else has set.
Used == touched \/ (lit /\ ~was_on) \/ held \/ ~lit \/ ~dims
\* The screen came on: it is counted from now.
Woken == IF lit /\ ~was_on THEN Marked ELSE Unmarked
Since == IF lit /\ ~was_on THEN 0 ELSE idle

\* Back from dim.
Return ==
  /\ timer = "look" /\ dim # None
  /\ Used \/ shown # dim.level
  /\ timer' = "clear" /\ then' = (IF Used THEN "look" ELSE "mark")
  /\ was_on' = lit /\ Woken
  /\ UNCHANGED <<light, dimmed_from, dim, at, resting, held, dims, chosen, spoiled, left>>

AtRest == timer = "look" /\ (dim # None => ~Used /\ shown = dim.level)

\* Nothing is due: the timer sleeps until something is.
Look ==
  /\ AtRest
  /\ ~lit \/ held \/ Since = 0 \/ (Since = 1 /\ (~dims \/ dim # None \/ resting \/ shown = 0))
  /\ was_on' = lit /\ Woken
  /\ UNCHANGED <<light, dimmed_from, timer, dim, at, then, resting, held, dims, chosen, spoiled, left>>

\* Time to dim: dim_level() is below the level, or the level is as dim as it goes.
DimDue ==
  /\ AtRest /\ dim = None
  /\ lit /\ ~held /\ Since = 1 /\ dims /\ ~resting /\ shown > 0
  /\ \E v \in 1..shown :
       /\ dim' = [normal |-> shown, level |-> v]
       /\ timer' = (IF v < shown THEN "save" ELSE "look")
  /\ at' = shown /\ was_on' = lit /\ touched' = FALSE
  /\ UNCHANGED <<light, dimmed_from, then, resting, idle, held, dims, chosen, spoiled, left>>

OffDue ==
  /\ AtRest /\ lit /\ ~held /\ Since = 2
  /\ timer' = "off" /\ was_on' = lit
  /\ UNCHANGED <<light, dimmed_from, dim, at, then, resting, idle, touched, held, dims,
                 chosen, spoiled, left>>

\* screensaver::screen_off(), then the level it wakes up at, then mark_activity()
ScreenOff ==
  /\ timer = "off"
  /\ lit' \in {lit, FALSE}
  /\ IF dim # None THEN timer' = "clear" /\ then' = "mark" /\ Unmarked
     ELSE timer' = "look" /\ UNCHANGED then /\ Marked
  /\ UNCHANGED <<shown, dimmed_from, dim, at, was_on, resting, held, dims, chosen, spoiled, left>>

\* dim(): the level to return to is on disk before the first step down.
Save ==
  /\ timer = "save" /\ timer' = "fade"
  /\ Keep(dim.normal)
  /\ UNCHANGED <<light, dim, at, then, clock, chosen>>

FadeTo(v) ==
  /\ at' = v
  /\ \/ /\ shown' = v /\ v < at /\ Fine
        /\ timer' = (IF v = dim.level THEN "look" ELSE "fade")
        /\ UNCHANGED <<dim, then>>
     \/ /\ shown' \in {shown, v} /\ Fault(FALSE)
        /\ dim' = [normal |-> dim.normal, level |-> shown']
        /\ timer' = "clear" /\ then' = "retry"

\* A use puts it back, a write that fails as well.
Fade ==
  /\ timer = "fade"
  /\ IF touched
     THEN /\ dim' = [normal |-> dim.normal, level |-> shown] /\ timer' = "clear" /\ then' = "look"
          /\ UNCHANGED <<shown, at, spoiled, left>>
     ELSE \E v \in dim.level..at : FadeTo(v)
  /\ UNCHANGED <<lit, dimmed_from, clock, chosen>>

\* undim(), first half: the settings forget the level.
Clear ==
  /\ timer = "clear" /\ timer' = "back"
  /\ Keep(None)
  /\ UNCHANGED <<light, dim, at, then, clock, chosen>>

\* undim(), second half: somebody else's level stands.
Back ==
  /\ timer = "back"
  /\ IF shown # dim.level THEN shown' = shown /\ Fine ELSE SetLevel(dim.normal, TRUE)
  /\ timer' = "look" /\ dim' = None
  /\ IF then = "mark" THEN Marked ELSE Unmarked
  /\ resting' = (resting \/ then = "retry")
  /\ UNCHANGED <<lit, dimmed_from, at, then, was_on, held, dims, chosen>>

-----------------------------------------------------------------------------
\* Users, others, and time.

\* A finger or a key; read_device() is a thread of the process.
Touch ==
  /\ timer # "dead" /\ Marked
  /\ UNCHANGED <<light, dimmed_from, timer, dim, at, then, was_on, resting, held, dims,
                 chosen, spoiled, left>>

Hold ==
  /\ timer # "dead" /\ held' = TRUE
  /\ UNCHANGED <<light, dimmed_from, timer, dim, at, then, was_on, resting, idle, touched, dims,
                 chosen, spoiled, left>>
\* hold_for(0) counts as a use; a hold that runs out starts the countdown again.
HoldEnds ==
  /\ held /\ held' = FALSE /\ idle' = 0 /\ touched' \in {touched, TRUE}
  /\ UNCHANGED <<light, dimmed_from, timer, dim, at, then, was_on, resting, dims,
                 chosen, spoiled, left>>

TimePasses ==
  /\ \/ idle < 2 /\ idle' = idle + 1 /\ UNCHANGED resting
     \/ resting /\ resting' = FALSE /\ UNCHANGED idle
  /\ UNCHANGED <<light, dimmed_from, timer, dim, at, then, was_on, touched, held, dims,
                 chosen, spoiled, left>>

Setting ==
  /\ dims' = ~dims
  /\ UNCHANGED <<light, dimmed_from, timer, dim, at, then, was_on, resting, idle, touched, held,
                 chosen, spoiled, left>>

\* The power button, a double tap, the Control Center.
Switched ==
  /\ lit' = ~lit
  /\ UNCHANGED <<shown, dimmed_from, timer, dim, at, then, clock, chosen, spoiled, left>>

\* Somebody else sets a level.  One set during the fade is faded over, one equal to the dim
\* level is taken for it, as is one below the saved level while the process is down: given up.
Chosen(v) ==
  /\ v # shown /\ Mishap
  /\ shown' = v /\ chosen' = v
  /\ spoiled' = (spoiled \/ timer \in {"save", "fade"}
                   \/ (IF dim # None THEN v = dim.level ELSE FALSE)
                   \/ (timer = "dead" /\ dimmed_from # None /\ 0 < v /\ v < dimmed_from))
  /\ UNCHANGED <<lit, dimmed_from, timer, dim, at, then, clock>>

-----------------------------------------------------------------------------
\* The process.

\* restore_saved(); `gone`: what it cannot know of is lost
RestoreSaved(gone) ==
  LET back == dimmed_from # None /\ 0 < shown /\ shown < dimmed_from
      level == IF back THEN dimmed_from ELSE shown
  IN \/ shown' = level /\ dimmed_from' = None
        /\ spoiled' = (spoiled \/ gone)
     \/ dimmed_from # None /\ shown' \in {shown, level} /\ dimmed_from' \in {dimmed_from, None}
        /\ left > 0 /\ spoiled' = TRUE

Ends ==
  /\ timer # "dead" /\ Mishap
  /\ timer' = "dead" /\ dim' = None /\ held' = FALSE
  /\ UNCHANGED <<lit, at, then, was_on, resting, idle, touched, dims, chosen>>

\* A level set in the meantime and not seen would be taken for a dimmed one, and between
\* the two halves of undim() nothing is left of the level.
Lost == Unseen \/ (timer = "back" /\ shown # chosen)

Crash ==
  /\ Ends
  /\ spoiled' = (spoiled \/ Lost)
  /\ UNCHANGED <<shown, dimmed_from>>

\* SIGTERM: restore_saved() runs beside the timer, so a fade may go on after it.
Stop ==
  /\ Ends
  /\ IF timer \in {"save", "fade"}
     THEN /\ shown' \in dim.level..dim.normal /\ dimmed_from' \in {None, dim.normal}
          /\ spoiled' = TRUE
     ELSE RestoreSaved(Lost)

Start ==
  /\ timer = "dead" /\ timer' = "look"
  /\ RestoreSaved(FALSE) /\ UNCHANGED left
  /\ Marked /\ was_on' = lit /\ resting' = FALSE
  /\ UNCHANGED <<lit, dim, at, then, held, dims, chosen>>

Init ==
  /\ lit = TRUE /\ shown \in 1..Top /\ chosen = shown
  /\ dimmed_from = None /\ timer = "look" /\ dim = None /\ at = 0 /\ then = "look"
  /\ was_on = TRUE /\ resting = FALSE /\ idle = 0 /\ touched = TRUE /\ held = FALSE
  /\ dims \in BOOLEAN
  /\ spoiled = FALSE
  /\ left = Mishaps

Step == Return \/ Look \/ DimDue \/ OffDue \/ ScreenOff \/ Save \/ Fade \/ Clear \/ Back

\* Once the level is given up, the behaviour is not followed further.
GivenUp == spoiled /\ UNCHANGED vars

Next ==
  \/ GivenUp
  \/ /\ ~spoiled
     /\ \/ Step \/ Touch \/ Hold \/ HoldEnds \/ TimePasses \/ Setting \/ Switched
        \/ \E v \in Levels : Chosen(v)
        \/ Crash \/ Stop \/ Start

\* The timer is polled by its runtime, every two seconds while the screen is dimmed,
\* and the service is started again.
Goes ==
  ~spoiled /\ (Return \/ ScreenOff \/ Save \/ Fade \/ Clear \/ Back \/ Start)
Spec == Init /\ [][Next]_vars /\ WF_vars(Goes)

-----------------------------------------------------------------------------
Dims == [normal : Levels, level : Levels]
FlagsOK ==
  /\ lit \in BOOLEAN /\ was_on \in BOOLEAN /\ resting \in BOOLEAN /\ touched \in BOOLEAN
  /\ held \in BOOLEAN /\ dims \in BOOLEAN /\ spoiled \in BOOLEAN
LevelsOK ==
  /\ shown \in Levels /\ chosen \in Levels /\ at \in Levels
  /\ dimmed_from \in Levels \cup {None} /\ dim \in Dims \cup {None}
  /\ timer \in Steps /\ then \in {"look", "mark", "retry"}
  /\ left \in Nat
TypeOK == FlagsOK /\ LevelsOK /\ idle \in 0..2

\* A level nobody chose is always on its way back: the settings hold the chosen one, or
\* the timer is about to write it (idle.rs: "so it comes back after a restart or a stop").
NotForgotten ==
  ~spoiled /\ shown # chosen =>
    \/ dimmed_from = chosen /\ 0 < shown /\ shown < dimmed_from
    \/ timer = "back" /\ dim.normal = chosen /\ dim.level = shown

\* At rest and not dimmed, the screen has the level somebody chose ("it is the level while
\* the screen is not dimmed, whoever set it").
RestsAtChosen == timer = "look" /\ dim = None /\ ~spoiled => shown = chosen

DimmingSound == TypeOK /\ NotForgotten /\ RestsAtChosen

\* The strengthening that makes them inductive: what the settings, the screen and the
\* timer's own record hold of the chosen level at each step.
WayInv ==
  /\ dim # None => 0 < dim.level /\ dim.level <= dim.normal
  /\ timer \in {"save", "fade", "clear", "back"} => dim # None
  /\ timer = "dead" => dim = None
AtRestInv == dim = None /\ timer # "dead" => shown = chosen /\ dimmed_from = None
SaveInv ==
  timer = "save" => dimmed_from = None /\ at = shown /\ shown = dim.normal /\ chosen = dim.normal
FadeInv ==
  timer = "fade" =>
    /\ dimmed_from = dim.normal /\ chosen = dim.normal
    /\ at = shown /\ dim.level <= shown /\ shown <= dim.normal
DimInv ==
  dim # None /\ timer # "save" /\ timer # "fade" =>
    /\ shown # dim.level => shown = chosen
    /\ shown = dim.level => chosen = dim.normal
    /\ timer = "back" => dimmed_from = None
    /\ timer # "back" =>
         /\ dimmed_from = None \/ dimmed_from = dim.normal
         /\ shown = dim.level /\ dim.level < dim.normal => dimmed_from = dim.normal
DeadInv ==
  timer = "dead" =>
    /\ dimmed_from = None => shown = chosen
    /\ dimmed_from # None =>
         \/ shown = chosen /\ ~(0 < chosen /\ chosen < dimmed_from)
         \/ chosen = dimmed_from /\ 0 < shown /\ shown < dimmed_from
LevelInv == ~spoiled => AtRestInv /\ SaveInv /\ FadeInv /\ DimInv /\ DeadInv
IInv == TypeOK /\ WayInv /\ LevelInv

\* A use, a hold, a screen that goes dark or a restart brings the level back.
InUse == touched \/ held \/ ~lit \/ timer = "dead"
IsBack == shown = chosen \/ spoiled \/ ~InUse
ComesBack == InUse ~> IsBack
=============================================================================
