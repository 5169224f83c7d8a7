-------------------------------- MODULE Health --------------------------------
(***************************************************************************)
(* The "drivers & services" card of the Control Center page                *)
(* (t6-webd/www/app.js: loadHealth, maybeLoadSystem and the repair         *)
(* button): it asks for /api/health now and then, starts the repair unit,  *)
(* follows it while it runs and says how it ended.                         *)
(***************************************************************************)
EXTENDS Integers

CONSTANTS
  MaxRuns, MaxTrouble, MaxAsked,  \* bounds: repairs, requests that fail, requests at a time
  None

HealthAssumption ==
  {MaxRuns, MaxTrouble, MaxAsked} \subseteq Nat /\ None \notin {"sent", "done"}

VARIABLES
  unit,             \* t6-repair.service: "dead", "queued" or "running"
  ended, run,       \* how the last run ended; runs started
  trouble,
  asked,            \* requests of /api/health: [id, says]; what an answer says of the unit
                    \* is of the run it has begun last (of, kept for SaidAsItEnded alone)
  healthTimer, kick,\* the next look at a running repair; the first one
  post,             \* the repair's own request: None or "sent" or "done"
  repairRequested,
  problems, button, \* the card as shown: something is wrong; Repair can be pressed
  told, toldOf      \* what was said, and of which run

vars == <<unit, ended, run, trouble, asked, healthTimer, kick, post, repairRequested,
          problems, button, told, toldOf>>

Init ==
  /\ unit = "dead" /\ ended \in {None, "ok", "failed"} /\ run = 0
  /\ trouble = 0 /\ asked = {} /\ healthTimer = FALSE /\ kick = FALSE /\ post = None
  /\ repairRequested = FALSE /\ problems = FALSE /\ button = FALSE
  /\ told = None /\ toldOf = 0

Free == (1..MaxAsked) \ {a.id : a \in asked}
Ask == IF Free = {} THEN UNCHANGED asked
       ELSE asked' = asked \cup {[id |-> CHOOSE i \in Free : TRUE, says |-> None]}

\* loadHealth() of the poll every 15 seconds, of the tab, of a change of language
maybeLoadSystem ==
  /\ Free # {} /\ Ask /\ healthTimer' = FALSE
  /\ UNCHANGED <<unit, ended, run, trouble, kick, post, repairRequested, problems, button, told, toldOf>>

TimerDue ==
  /\ healthTimer /\ healthTimer' = FALSE /\ Ask
  /\ UNCHANGED <<unit, ended, run, trouble, kick, post, repairRequested, problems, button, told, toldOf>>

\* half a second after the repair was accepted
KickDue ==
  /\ kick
  /\ kick' = FALSE /\ healthTimer' = FALSE /\ Ask
  /\ UNCHANGED <<unit, ended, run, trouble, post, repairRequested, problems, button, told, toldOf>>

Read ==
  \E a \in asked :
    /\ a.says = None
    /\ asked' = (asked \ {a}) \cup
         {[a EXCEPT !.says = [running |-> unit = "running", last |-> ended, bad |-> ended # "ok",
                              of |-> IF unit = "queued" THEN run - 1 ELSE run]]}
    /\ UNCHANGED <<unit, ended, run, trouble, healthTimer, kick, post, repairRequested, problems, button, told, toldOf>>

\* the end of a repair started here is spoken of once
spoken(h) ==
  IF ~h.running /\ repairRequested
  THEN /\ repairRequested' = FALSE /\ toldOf' = run
       /\ told' = IF h.last = "failed" THEN "failed" ELSE "repaired"
  ELSE UNCHANGED <<repairRequested, told, toldOf>>

loadHealth ==
  \E a \in asked :
    /\ a.says # None /\ asked' = asked \ {a}
    /\ problems' = (a.says.bad \/ a.says.running)
    /\ button' = ~a.says.running
    /\ spoken(a.says)
    /\ healthTimer' = (healthTimer \/ a.says.running)
    /\ UNCHANGED <<unit, ended, run, trouble, kick, post>>

HealthFails ==
  /\ trouble < MaxTrouble /\ trouble' = trouble + 1
  /\ \E a \in asked : asked' = asked \ {a}
  /\ UNCHANGED <<unit, ended, run, healthTimer, kick, post, repairRequested, problems, button, told, toldOf>>

\* the button; an answer may enable it again while the request is out
click ==
  /\ problems /\ button /\ post = None /\ run < MaxRuns
  /\ post' = "sent" /\ button' = FALSE
  /\ UNCHANGED <<unit, ended, run, trouble, asked, healthTimer, kick, repairRequested, problems, told, toldOf>>

\* systemd takes the job, then reports the unit as activating, then as dead
Queue ==
  /\ post = "sent" /\ post' = "done"
  /\ unit' = (IF unit # "dead" THEN unit ELSE "queued")
  /\ run' = (IF unit = "dead" THEN run + 1 ELSE run)
  /\ UNCHANGED <<ended, trouble, asked, healthTimer, kick, repairRequested, problems, button, told, toldOf>>

Begin ==
  /\ unit = "queued" /\ unit' = "running"
  /\ UNCHANGED <<ended, run, trouble, asked, healthTimer, kick, post, repairRequested, problems, button, told, toldOf>>

End ==
  /\ unit = "running" /\ unit' = "dead" /\ ended' \in {"ok", "failed"}
  /\ UNCHANGED <<run, trouble, asked, healthTimer, kick, post, repairRequested, problems, button, told, toldOf>>

Accepted ==
  /\ post = "done" /\ post' = None
  /\ repairRequested' = TRUE /\ kick' = TRUE
  /\ UNCHANGED <<unit, ended, run, trouble, asked, healthTimer, problems, button, told, toldOf>>

Refused ==
  /\ post = "sent" /\ trouble < MaxTrouble /\ trouble' = trouble + 1
  /\ post' = None /\ Ask /\ healthTimer' = FALSE
  /\ UNCHANGED <<unit, ended, run, kick, repairRequested, problems, button, told, toldOf>>

Next ==
  \/ maybeLoadSystem \/ TimerDue \/ KickDue \/ Read \/ loadHealth \/ HealthFails
  \/ click \/ Queue \/ Begin \/ End \/ Accepted \/ Refused

Spec ==
  /\ Init /\ [][Next]_vars
  /\ WF_vars(maybeLoadSystem) /\ WF_vars(TimerDue) /\ WF_vars(Read) /\ WF_vars(loadHealth)
  /\ WF_vars(Begin) /\ WF_vars(End)

-----------------------------------------------------------------------------
\* "Drivers repaired" and "Driver repair failed" are said of a run that is over,
\* and as it ended (app.js:1202-1206); nothing but a look that was taken before that run
\* began can say otherwise, and it does where it is answered after the repair was accepted.
SaidAsItEnded ==
  told' # told \/ toldOf' # toldOf
    => \/ unit = "dead" /\ (told' = "failed" <=> ended = "failed")
       \/ \E a \in asked \ asked' : a.says.of < run

\* A repair asked for here is spoken of in the end, also when looks at it fail:
\* the 15 s poll takes over (app.js:1135-1138).
OutcomeTold == repairRequested ~> ~repairRequested
=============================================================================
