-------------------------------- MODULE Pages --------------------------------
(***************************************************************************)
(* A page of the front panel that shows one setting of the device and lets *)
(* it be changed: the cached data behind it (core/resource.js), the        *)
(* painter that keeps its markup (core/dom.js), and the ways the pages     *)
(* under pages/settings/ and pages/network/ send a change:                 *)
(*   "polled"  read again every few seconds while the page is up, with the *)
(*             reads held back after a change (LEDs, sound, hotspot,       *)
(*             Thunderbolt);                                               *)
(*   "stepper" the same with a time that is tapped up and down and sent    *)
(*             when the taps settle (the LEDs' night window);              *)
(*   "once"    read when the page comes up and after a change (wired port, *)
(*             Thunderbolt link, account, update);                         *)
(*   "night"   the night window, read with /api/panel and sent when the    *)
(*             taps settle.                                                *)
(*                                                                         *)
(* The setting's value is the number of the change that made it.  `view`   *)
(* is what the page shows, `last` the markup the painter painted last: a   *)
(* control the person presses changes the first and not the second.        *)
(***************************************************************************)
EXTENDS Integers

CONSTANTS
  Kinds,       \* the kinds of page checked
  MaxChanges,  \* bound: changes made here or elsewhere
  MaxFails,    \* bound: reads that fail
  FailedPuts,  \* whether storing a change may fail
  LateFlush,   \* whether something may come between a finger's lift and the
               \* paint that waited for it (a task of its own, dom.js:93-94)
  Blank, Skeleton, Failed,  \* what a page without data shows
  None

PagesAssumption ==
  /\ Kinds \subseteq {"polled", "stepper", "once", "night"}
  /\ {MaxChanges, MaxFails} \subseteq Nat
  /\ {FailedPuts, LateFlush} \subseteq BOOLEAN
  /\ {Blank, Skeleton, Failed, None} \cap Nat = {}
  /\ None \notin [says : Nat \cup {None}]

VARIABLES
  kind, fails,
  srv, made,     \* the backend's value; changes numbered so far
  up,            \* the page is shown
  data, status,  \* the resource
  req,           \* its request in flight: None or [says], says = None until read
  hold,          \* the poller skips its ticks
  puts,          \* changes on their way: [n, done]
  view, last,    \* what is shown; what was painted last
  finger,        \* a finger is down on the page, or a field has focus
  held,          \* the paint that waits for the finger: None or a markup
  tapped         \* the value tapped on a stepper and not sent yet, or None

res   == <<data, status, req>>
page  == <<view, last, held>>
vars == <<kind, fails, srv, made, up, res, hold, puts, page, finger, tapped>>

Polled == kind \in {"polled", "stepper"}
Unread == [says |-> None]

Init ==
  /\ kind \in Kinds /\ fails = 0
  /\ srv = 0 /\ made = 0 /\ up = FALSE
  /\ data \in {None, 0} /\ (kind = "night" => data = 0)
  /\ status = "idle" /\ req = None
  /\ hold = FALSE /\ puts = {}
  /\ view = (IF data = None THEN Blank ELSE 0) /\ last = view /\ held = None
  /\ finger = FALSE /\ tapped = None

(***************************************************************************)
(* painter(): paint markup s when it changed, later when a finger is down. *)
(***************************************************************************)
paint(s) ==
  IF s = last THEN UNCHANGED page
  ELSE IF finger THEN held' = s /\ UNCHANGED <<view, last>>
  ELSE view' = s /\ last' = s /\ UNCHANGED held

\* a stepper of the night page is not painted over before it is sent
paintData(d) == IF kind = "night" /\ tapped # None THEN UNCHANGED page ELSE paint(d)

(***************************************************************************)
(* resource.refresh(), and what bindResource paints at each change of it.  *)
(***************************************************************************)
\* a mistake: each refresh starts with an empty page
refreshBlank ==
  /\ req' = Unread /\ UNCHANGED data
  /\ status' = IF data = None THEN "loading" ELSE "refreshing"
  /\ paint(Blank)

refresh ==
  IF req # None THEN UNCHANGED <<res, page>>
  ELSE /\ req' = Unread /\ UNCHANGED data
       /\ status' = IF data = None THEN "loading" ELSE "refreshing"
       /\ IF data # None THEN paintData(data)
          ELSE IF view # Skeleton THEN paint(Blank) ELSE UNCHANGED page

Calm == LateFlush \/ held = None \/ finger

Read == /\ req # None /\ req.says = None
        /\ req' = [says |-> srv]
        /\ UNCHANGED <<kind, fails, srv, made, up, data, status, hold, puts, page, finger, tapped>>

Answered ==
  /\ Calm
  /\ req # None /\ req.says # None
  /\ data' = req.says /\ status' = "idle" /\ req' = None
  /\ paintData(req.says)
  /\ UNCHANGED <<kind, fails, srv, made, up, hold, puts, finger, tapped>>

\* the error state only where there is nothing to show; a poll of /api/panel
\* that fails changes nothing
ReadFails ==
  /\ Calm
  /\ req # None
  /\ fails < MaxFails /\ fails' = fails + 1
  /\ req' = None /\ UNCHANGED data
  /\ status' = IF kind = "night" THEN "idle" ELSE "failed"
  /\ IF data = None THEN paint(Failed) ELSE paintData(data)
  /\ UNCHANGED <<kind, srv, made, up, hold, puts, finger, tapped>>

\* 300 ms with nothing to show and still loading
SkeletonDue ==
  /\ Calm
  /\ data = None /\ status = "loading" /\ view = Blank
  /\ paint(Skeleton)
  /\ UNCHANGED <<kind, fails, srv, made, up, res, hold, puts, finger, tapped>>

(***************************************************************************)
(* The page comes and goes; its poller ticks; a finger goes down and up.   *)
(***************************************************************************)
Show ==
  /\ ~up /\ up' = TRUE
  /\ IF kind = "night" THEN UNCHANGED <<res, page>> ELSE refresh
  /\ UNCHANGED <<kind, fails, srv, made, hold, puts, finger, tapped>>

\* leaving the night page takes its timer away, and what was tapped with it
Hide ==
  /\ up /\ ~finger /\ up' = FALSE
  /\ tapped' = IF kind = "night" THEN None ELSE tapped
  /\ UNCHANGED <<kind, fails, srv, made, res, hold, puts, page, finger>>

\* a mistake: the poller skips its tick while the last read failed
TickOnce ==
  /\ up /\ ~hold /\ status # "failed"
  /\ refresh
  /\ UNCHANGED <<kind, fails, srv, made, up, hold, puts, finger, tapped>>

\* the poller, or the panel's own loop
Tick ==
  /\ \/ Polled /\ up /\ ~hold
     \/ kind = "night"
  /\ req = None
  /\ refresh
  /\ UNCHANGED <<kind, fails, srv, made, up, hold, puts, finger, tapped>>

HoldEnds == /\ hold /\ hold' = FALSE
            /\ UNCHANGED <<kind, fails, srv, made, up, res, puts, page, finger, tapped>>

Retry == /\ up /\ view = Failed /\ refresh
         /\ UNCHANGED <<kind, fails, srv, made, up, hold, puts, finger, tapped>>

FingerDown == /\ Calm /\ up /\ ~finger /\ finger' = TRUE
              /\ UNCHANGED <<kind, fails, srv, made, up, res, hold, puts, page, tapped>>

FingerUp == /\ finger /\ finger' = FALSE
            /\ UNCHANGED <<kind, fails, srv, made, up, res, hold, puts, page, tapped>>

\* soon after, the paint that waited, if there is one: a newer paint, or one
\* equal to the markup painted last, does not take it back
Flush ==
  /\ held # None /\ ~finger /\ held' = None
  /\ view' = IF held = last THEN view ELSE held
  /\ last' = held
  /\ UNCHANGED <<kind, fails, srv, made, up, res, hold, puts, finger, tapped>>

(***************************************************************************)
(* Changes.                                                                *)
(***************************************************************************)
CanChange == up /\ made < MaxChanges /\ view \in Nat
n1 == made + 1

\* a switch, a segment, an output: pressed at once, sent at once
pressed ==
  /\ CanChange /\ made' = n1 /\ view' = n1
  /\ puts' = puts \cup {[n |-> n1, done |-> FALSE]}
  /\ UNCHANGED <<kind, fails, srv, up, res, last, held, finger, tapped>>

PressPolled == kind = "polled" /\ pressed /\ hold' = TRUE
PressOnce   == kind = "once" /\ pressed /\ UNCHANGED hold

\* - or + of a stepper: the text moves; sent 700 ms after the last tap
StepTap ==
  /\ kind \in {"stepper", "night"} /\ CanChange /\ made' = n1
  /\ view' = n1 /\ tapped' = n1
  /\ hold' = (hold \/ Polled)
  /\ UNCHANGED <<kind, fails, srv, up, res, puts, last, held, finger>>

\* what is sent is what the page shows by then
StepSend ==
  /\ tapped # None /\ tapped' = None
  /\ hold' = (hold \/ Polled)
  /\ puts' = puts \cup {[n |-> view, done |-> FALSE]}
  /\ UNCHANGED <<kind, fails, srv, made, up, res, page, finger>>

Apply(p) ==
  /\ ~p.done /\ srv' = p.n
  /\ puts' = (puts \ {p}) \cup {[p EXCEPT !.done = TRUE]}
  /\ UNCHANGED <<kind, fails, made, up, res, hold, page, finger, tapped>>

\* the change is stored (or not): the poller goes on and the page reads again;
\* the night page takes the answer itself and drops a poll on its way
PutAnswered(p) ==
  /\ Calm
  /\ p.done /\ puts' = puts \ {p} /\ hold' = FALSE
  /\ IF kind = "night"
     THEN data' = p.n /\ status' = "idle" /\ req' = Unread /\ paintData(p.n)
     ELSE refresh
  /\ UNCHANGED <<kind, fails, srv, made, up, finger, tapped>>

PutFails(p) ==
  /\ Calm
  /\ FailedPuts /\ ~p.done /\ puts' = puts \ {p} /\ hold' = FALSE
  /\ IF kind = "night" THEN paintData(data) /\ UNCHANGED res ELSE refresh
  /\ UNCHANGED <<kind, fails, srv, made, up, finger, tapped>>

ElsewhereChanged ==
  /\ made < MaxChanges /\ made' = n1 /\ srv' = n1
  /\ UNCHANGED <<kind, fails, up, res, hold, puts, page, finger, tapped>>

SomePut == \E p \in puts : Apply(p) \/ PutAnswered(p)

Next ==
  \/ Read \/ Answered \/ ReadFails \/ SkeletonDue
  \/ Show \/ Hide \/ Tick \/ HoldEnds \/ Retry \/ FingerDown \/ FingerUp \/ Flush
  \/ PressPolled \/ PressOnce \/ StepTap \/ StepSend \/ SomePut
  \/ \E p \in puts : PutFails(p)
  \/ ElsewhereChanged

\* the timers of a page fire, a finger lifts, and the backend answers
Fairness ==
  /\ WF_vars(Read) /\ WF_vars(Answered) /\ WF_vars(SkeletonDue)
  /\ WF_vars(Tick) /\ WF_vars(HoldEnds) /\ WF_vars(FingerUp) /\ WF_vars(Flush)
  /\ WF_vars(StepSend) /\ WF_vars(SomePut)

Spec == Init /\ [][Next]_vars /\ Fairness

-----------------------------------------------------------------------------
\* The values each variable takes; what is held back is a paint, and what is on
\* its way says which.
Markup == Nat \cup {Blank, Skeleton, Failed}

TypeOK ==
  /\ kind \in Kinds /\ fails \in 0..MaxFails /\ srv \in Nat /\ made \in Nat
  /\ {up, hold, finger} \subseteq BOOLEAN
  /\ data \in Nat \cup {None}
  /\ status \in {"idle", "loading", "refreshing", "failed"}
  /\ req = None \/ req.says \in Nat \cup {None}
  /\ \A p \in puts : p.n \in Nat /\ p.done \in BOOLEAN
  /\ view \in Markup /\ last \in Markup /\ held \in Markup \cup {None}
  /\ tapped \in Nat \cup {None}

\* The status of the resource tells whether there is data (resource.js:15-39): a
\* reader that finds "loading" may show a skeleton, one that finds "refreshing"
\* may not; and a request counts as one until its answer or its failure.
StatusTells ==
  /\ TypeOK
  /\ status = "loading" => data = None
  /\ status = "refreshing" => data # None
  /\ kind # "night" => (req # None <=> status \in {"loading", "refreshing"})
  /\ data # None => view \in Nat \/ held # None

\* A page that has data shows data, whatever its reads do: "Never clear data
\* that is on screen because a refresh is running" (resource.js:8); and
\* nothing is painted under a finger (dom.js:76-80).
PaintedWithCare ==
  /\ view \in Nat => view' \in Nat
  /\ finger /\ made' = made => finger' = FALSE \/ view' = view
PaintsWithCare == [][PaintedWithCare]_vars

\* What leaves a stepper is what was tapped on it (night.js:32-35: a change not
\* sent yet is not painted over).
SentIsTapped ==
  [][kind = "night" /\ puts' # puts /\ tapped # None /\ tapped' = None
       => \E p \in puts' : p.n = tapped]_vars

\* A page that is read again and again ends up showing what the device does while it
\* is up, though changes overlap, reads come late and some fail (leds.js:2-3).
ShowsWhatIs == kind = "polled" /\ up => view = srv
ShowsInTheEnd == <>[]ShowsWhatIs
=============================================================================
