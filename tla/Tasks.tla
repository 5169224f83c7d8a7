-------------------------------- MODULE Tasks --------------------------------
(***************************************************************************)
(* Copies and moves in the background (shell/tasks.js): the chip in the    *)
(* status bar, the polls that keep it, and what is said when a task ends.  *)
(* poll() is called by its own timer, by whoever starts a task and by the  *)
(* sheet's cancel button, so polls overlap and answers may come in any     *)
(* order.                                                                  *)
(***************************************************************************)
EXTENDS Integers, FiniteSets

CONSTANTS
  TaskIds,
  MaxPolls,      \* bound: requests of the list at a time
  MaxMissed,     \* bound: requests that fail
  MaxCancels, None

TasksAssumption == {MaxPolls, MaxMissed, MaxCancels} \subseteq Nat

VARIABLES
  state,         \* t6-paneld: "none", "running", "done", "failed" or "cancelled" of each task
  tasks,         \* the list as last answered; {} at first and after a failure
  chip,          \* the chip is in the bar
  seen, said,    \* tasks whose end was reported; how often a toast said so
  starting,      \* tasks asked for, not answered
  polls,         \* requests: [id, says]
  timer, orphans,\* the timer of the last poll is set; others that are
  cancels, missed

vars == <<state, tasks, chip, seen, said, starting, polls, timer, orphans, cancels, missed>>

Init ==
  /\ state = [x \in TaskIds |-> "none"]
  /\ tasks = {} /\ chip = FALSE /\ seen = {} /\ said = [x \in TaskIds |-> 0]
  /\ starting = {} /\ polls = {[id |-> 1, says |-> None]}
  /\ timer = FALSE /\ orphans = 0 /\ cancels = 0 /\ missed = 0

running(ts) == {x \in ts : x.state = "running"}
FreePolls == (1..MaxPolls) \ {q.id : q \in polls}

\* poll(): the timer it knows of is dropped, and the list is asked for
poll ==
  /\ FreePolls # {}
  /\ polls' = polls \cup {[id |-> CHOOSE i \in FreePolls : TRUE, says |-> None]}
  /\ timer' = FALSE

TimerDue ==
  /\ timer /\ poll
  /\ UNCHANGED <<state, tasks, chip, seen, said, starting, orphans, cancels, missed>>

OrphanDue ==
  /\ orphans > 0 /\ orphans' = orphans - 1 /\ poll
  /\ UNCHANGED <<state, tasks, chip, seen, said, starting, cancels, missed>>

startTask(x) ==
  /\ state[x] = "none" /\ x \notin starting
  /\ starting' = starting \cup {x}
  /\ UNCHANGED <<state, tasks, chip, seen, said, polls, timer, orphans, cancels, missed>>

Begins(x) ==
  /\ x \in starting /\ state[x] = "none"
  /\ state' = [state EXCEPT ![x] = "running"]
  /\ UNCHANGED <<tasks, chip, seen, said, starting, polls, timer, orphans, cancels, missed>>

Started(x) ==
  /\ x \in starting /\ state[x] # "none"
  /\ starting' = starting \ {x} /\ poll
  /\ UNCHANGED <<state, tasks, chip, seen, said, orphans, cancels, missed>>

\* the sheet's cancel button; the list is asked for whether it worked or not
cancel ==
  /\ cancels < MaxCancels /\ cancels' = cancels + 1
  /\ \E x \in running(tasks) :
       state' = [state EXCEPT ![x.id] = IF @ = "running" THEN "cancelled" ELSE @]
  /\ poll
  /\ UNCHANGED <<tasks, chip, seen, said, starting, orphans, missed>>

Ends(x) ==
  /\ state[x] = "running" /\ \E how \in {"done", "failed"} : state' = [state EXCEPT ![x] = how]
  /\ UNCHANGED <<tasks, chip, seen, said, starting, polls, timer, orphans, cancels, missed>>

Read ==
  \E q \in polls :
    /\ q.says = None
    /\ polls' = (polls \ {q}) \cup
         {[q EXCEPT !.says = {[id |-> x, state |-> state[x]] : x \in {y \in TaskIds : state[y] # "none"}}]}
    /\ UNCHANGED <<state, tasks, chip, seen, said, starting, timer, orphans, cancels, missed>>

\* the chip is painted, and the next poll set while anything runs
painted(ts) ==
  /\ tasks' = ts /\ chip' = (running(ts) # {})
  /\ timer' = (timer \/ running(ts) # {})
  /\ orphans' = IF timer /\ running(ts) # {} THEN orphans + 1 ELSE orphans

\* each end is reported once; a toast says the last one's
Answered ==
  \E q \in polls :
    /\ q.says # None /\ polls' = polls \ {q}
    /\ LET ended == {x \in q.says : x.state # "running" /\ x.id \notin seen}
       IN  /\ seen' = seen \cup {x.id : x \in ended}
           /\ said' = [x \in TaskIds |->
                IF running(q.says) = {} /\ \E e \in ended : e.id = x /\ e.state # "cancelled"
                THEN said[x] + 1 ELSE said[x]]
    /\ painted(q.says)
    /\ UNCHANGED <<state, starting, cancels, missed>>

\* as if nothing were running
Missed ==
  /\ missed < MaxMissed /\ missed' = missed + 1
  /\ \E q \in polls : polls' = polls \ {q}
  /\ painted({})
  /\ UNCHANGED <<state, seen, said, starting, cancels>>

Next ==
  \/ TimerDue \/ OrphanDue \/ cancel \/ Read \/ Answered \/ Missed
  \/ \E x \in TaskIds : startTask(x) \/ Begins(x) \/ Started(x) \/ Ends(x)

SomeBegins == \E x \in TaskIds : Begins(x)
SomeStarted == \E x \in TaskIds : Started(x)
SomeEnds == \E x \in TaskIds : Ends(x)

Fairness ==
  /\ WF_vars(TimerDue) /\ WF_vars(OrphanDue) /\ WF_vars(Read) /\ WF_vars(Answered)
  /\ WF_vars(SomeBegins) /\ SF_vars(SomeStarted) /\ WF_vars(SomeEnds)

Spec == Init /\ [][Next]_vars /\ Fairness

-----------------------------------------------------------------------------
\* The chip is there exactly while the last answer has a task running, and then
\* never stands still: a poll is on its way or due, also when polls overlapped and
\* one failed.  An end is told once at most (tasks.js: poll).
ChipSound ==
  /\ \A x \in tasks : x.id \in TaskIds /\ x.state \in {"running", "done", "failed", "cancelled"}
  /\ chip <=> running(tasks) # {}
  /\ chip => timer \/ orphans > 0 \/ polls # {}
  /\ \A x \in TaskIds : said[x] <= 1 /\ (said[x] = 1 => x \in seen /\ state[x] \in {"done", "failed"})

\* Every task that is started here is reported when it has ended, so the folders
\* list its files, and the chip leaves, unless a poll failed.
Told == missed > 0 \/ (~chip /\ \A x \in TaskIds : state[x] # "none" => x \in seen)
EveryEndTold == <>[]Told

\* "When the last task ends the chip leaves and a toast says what was done."
\* (tasks.js:4): the end of a task started here is reported, whatever failed.
EndIsReported == <>[](\A x \in TaskIds : state[x] \in {"done", "failed"} => x \in seen)
=============================================================================
