-------------------------------- MODULE WebUi --------------------------------
(***************************************************************************)
(* The admin page of the front panel in the fnOS desktop                   *)
(* (src/panel/web/app.js): it loads the state every five seconds and after *)
(* each action, asks before it turns the panel off, restarts it or repairs *)
(* the sound, and follows a repair to its end.  `on` is the panel's switch *)
(* and `set` any of the settings chosen from a list.                       *)
(***************************************************************************)
EXTENDS Integers, FiniteSets

CONSTANTS
  Settings, First,  \* what `set` may be, and what it is at first
  Plans,       \* bounds: how often the person uses the switch, the two
               \* questions and the list: [panel, restart, repair, list]
  MaxLoads,    \* bound: loads under way at a time
  MaxTrouble,  \* bound: failures
  None

WebUiAssumption ==
  /\ MaxLoads \in Nat \ {0} /\ MaxTrouble \in Nat
  /\ Plans \subseteq [panel : Nat, restart : Nat, repair : Nat, list : Nat]
  /\ First \in Settings /\ None \notin Settings /\ None \notin {"off", "restart", "repair"}

VARIABLES
  plan,                \* what is left of the plan
  on, set, unit,       \* the backend; unit: the last repair
  trouble,
  status, audio,       \* state.status, state.audio: the last answers, or None
  loads,               \* loads under way: [id, step, says]
  sw, swDisabled,      \* the switch as shown
  sel, focus,          \* the list as shown; it is open
  modal,               \* the question asked, or None
  puts,                \* changes on their way: [what, v, done]
  repairing, repairs,  \* the flag; the repairs followed: [id, step, says]
  repairDisabled, told \* the button as shown; what was said of the last repair

backend == <<on, set, unit>>
shown   == <<sw, swDisabled, sel, repairDisabled>>
answers == <<status, audio>>
asked   == <<modal, focus>>
vars == <<plan, backend, trouble, answers, loads, shown, asked, puts, repairing, repairs, told>>

Init ==
  /\ plan \in Plans /\ on \in BOOLEAN /\ set = First /\ unit = "idle"
  /\ trouble = 0
  /\ status = None /\ audio = None
  /\ loads = {[id |-> 1, step |-> "status", says |-> None]}
  /\ sw = FALSE /\ swDisabled = TRUE /\ sel = None /\ focus = FALSE
  /\ modal = None /\ puts = {}
  /\ repairing = FALSE /\ repairs = {} /\ repairDisabled = FALSE /\ told = "nothing"

-----------------------------------------------------------------------------
(* load(): the state, then the sound, then one painting of both.            *)

FreeLoads == (1..MaxLoads) \ {l.id : l \in loads}
Loading(ls) == IF FreeLoads = {} THEN ls
               ELSE ls \cup {[id |-> CHOOSE i \in FreeLoads : TRUE, step |-> "status", says |-> None]}
load == loads' = Loading(loads)

renderAudio(a, busy) ==
  repairDisabled' = IF a = None THEN repairDisabled ELSE busy \/ a = "running"

\* the list is left alone while it is open
render(s, a, busy) ==
  IF s = None THEN UNCHANGED shown
  ELSE /\ sw' = s.on /\ swDisabled' = FALSE
       /\ sel' = IF focus THEN sel ELSE s.set
       /\ renderAudio(a, busy)

Read ==
  \E l \in loads :
    /\ l.says = None
    /\ loads' = (loads \ {l}) \cup
         {[l EXCEPT !.says = IF l.step = "status" THEN [on |-> on, set |-> set, audio |-> None]
                                    ELSE [on |-> None, set |-> None, audio |-> unit]]}
    /\ UNCHANGED <<plan, backend, trouble, answers, shown, asked, puts, repairing, repairs, told>>

StatusAnswered ==
  \E l \in loads :
    /\ l.step = "status" /\ l.says # None
    /\ status' = l.says /\ UNCHANGED audio
    /\ loads' = (loads \ {l}) \cup {[id |-> l.id, step |-> "audio", says |-> None]}
    /\ UNCHANGED <<plan, backend, trouble, shown, asked, puts, repairing, repairs, told>>

AudioAnswered ==
  \E l \in loads :
    /\ l.step = "audio" /\ l.says # None
    /\ audio' = l.says.audio /\ UNCHANGED status
    /\ loads' = loads \ {l}
    /\ render(status, audio', repairing)
    /\ UNCHANGED <<plan, backend, trouble, asked, puts, repairing, repairs, told>>

LoadFails ==
  \E l \in loads :
    /\ trouble < MaxTrouble /\ trouble' = trouble + 1
    /\ IF l.step = "status"
       THEN /\ status' = None /\ UNCHANGED <<audio, shown>>
            /\ loads' = (loads \ {l}) \cup {[id |-> l.id, step |-> "audio", says |-> None]}
       ELSE /\ audio' = None /\ UNCHANGED status
            /\ loads' = loads \ {l}
            /\ render(status, None, repairing)
    /\ UNCHANGED <<plan, backend, asked, puts, repairing, repairs, told>>

\* every five seconds, unless a question is open
Interval ==
  /\ modal = None /\ FreeLoads # {} /\ load
  /\ UNCHANGED <<plan, backend, trouble, answers, shown, asked, puts, repairing, repairs, told>>

(***************************************************************************)
(* run(): an action, what is said of it, and a load.                       *)
(***************************************************************************)
Act(a) == plan[a] > 0 /\ plan' = [plan EXCEPT ![a] = @ - 1]
run(what, v) == puts' = puts \cup {[what |-> what, v |-> v, done |-> FALSE]}

Store(p) ==
  /\ ~p.done /\ puts' = (puts \ {p}) \cup {[p EXCEPT !.done = TRUE]}
  /\ on' = IF p.what \in {"on", "off"} THEN p.what = "on" ELSE on
  /\ set' = IF p.what = "set" THEN p.v ELSE set
  /\ UNCHANGED <<plan, unit, trouble, answers, loads, shown, asked, repairing, repairs, told>>

RunEnds(p) ==
  /\ p.done \/ trouble < MaxTrouble
  /\ trouble' = IF p.done THEN trouble ELSE trouble + 1
  /\ puts' = puts \ {p} /\ load
  /\ UNCHANGED <<plan, backend, answers, shown, asked, repairing, repairs, told>>

\* off is asked for first; a question takes the place of one still open, whose
\* answer then never comes
switchPanel ==
  /\ ~swDisabled /\ Act("panel")
  /\ sw' = ~sw /\ UNCHANGED <<sel, repairDisabled, focus>>
  /\ IF sw THEN modal' = "off" /\ UNCHANGED <<puts, swDisabled>>
     ELSE run("on", None) /\ swDisabled' = TRUE /\ UNCHANGED modal
  /\ UNCHANGED <<backend, trouble, answers, loads, repairing, repairs, told>>

openRestart ==
  /\ status # None /\ status.on /\ Act("restart") /\ modal' = "restart"
  /\ UNCHANGED <<backend, trouble, answers, loads, shown, focus, puts, repairing, repairs, told>>

openRepair ==
  /\ ~repairDisabled /\ Act("repair") /\ modal' = "repair"
  /\ UNCHANGED <<backend, trouble, answers, loads, shown, focus, puts, repairing, repairs, told>>

\* a mistake: the buttons of a question still answer the one it took the place of
confirmedFirst ==
  /\ modal # None /\ modal' = None
  /\ swDisabled' = TRUE /\ run("off", None)
  /\ UNCHANGED <<sw, sel, repairDisabled, repairing, repairs>>
  /\ UNCHANGED <<plan, backend, trouble, answers, loads, focus, told>>

confirmed ==
  /\ modal # None /\ modal' = None
  /\ CASE modal = "off" ->
            /\ swDisabled' = TRUE /\ run("off", None)
            /\ UNCHANGED <<sw, sel, repairDisabled, repairing, repairs>>
       [] modal = "restart" ->
            run("restart", None) /\ UNCHANGED <<shown, repairing, repairs>>
       [] modal = "repair" ->
            /\ repairing' = TRUE /\ renderAudio(audio, TRUE)
            /\ repairs' = repairs \cup {[id |-> plan.repair, step |-> "post", says |-> None]}
            /\ UNCHANGED <<sw, swDisabled, sel, puts>>
  /\ UNCHANGED <<plan, backend, trouble, answers, loads, focus, told>>

cancelled ==
  /\ modal # None /\ modal' = None
  /\ sw' = (sw \/ modal = "off")
  /\ UNCHANGED <<plan, backend, trouble, answers, loads, swDisabled, sel, repairDisabled, focus, puts, repairing, repairs, told>>

openList ==
  /\ ~swDisabled /\ status # None /\ status.on /\ ~focus /\ focus' = TRUE /\ Act("list")
  /\ UNCHANGED <<backend, trouble, answers, loads, shown, modal, puts, repairing, repairs, told>>

\* closed, with another choice or the same
closeList ==
  /\ focus /\ focus' = FALSE
  /\ \/ UNCHANGED <<sel, puts>>
     \/ \E v \in Settings \ {sel} : sel' = v /\ run("set", v)
  /\ UNCHANGED <<plan, backend, trouble, answers, loads, sw, swDisabled, repairDisabled, modal, repairing, repairs, told>>

(***************************************************************************)
(* A repair: started, then asked after every 1.5 seconds until it is over. *)
(***************************************************************************)
RepairStarts ==
  \E r \in repairs :
    /\ r.step = "post" /\ unit' = "running"
    /\ repairs' = (repairs \ {r}) \cup {[r EXCEPT !.step = "wait"]}
    /\ UNCHANGED <<plan, on, set, trouble, answers, loads, shown, asked, puts, repairing, told>>

AskAfter ==
  \E r \in repairs :
    /\ r.step = "wait"
    /\ repairs' = (repairs \ {r}) \cup {[id |-> r.id, step |-> "ask", says |-> None]}
    /\ UNCHANGED <<plan, backend, trouble, answers, loads, shown, asked, puts, repairing, told>>

RepairRead ==
  \E r \in repairs :
    /\ r.step = "ask" /\ r.says = None
    /\ repairs' = (repairs \ {r}) \cup {[r EXCEPT !.says = unit]}
    /\ UNCHANGED <<plan, backend, trouble, answers, loads, shown, asked, puts, repairing, told>>

RepairAnswered ==
  \E r \in repairs :
    /\ r.step = "ask" /\ r.says # None
    /\ audio' = r.says /\ UNCHANGED status
    /\ IF r.says = "running"
       THEN /\ repairs' = (repairs \ {r}) \cup {[r EXCEPT !.step = "wait"]}
            /\ UNCHANGED <<repairing, loads, told>>
       ELSE /\ repairs' = repairs \ {r} /\ repairing' = FALSE /\ load
            /\ told' = IF r.says = "failed" THEN "failed" ELSE "repaired"
    /\ UNCHANGED <<plan, backend, trouble, shown, asked, puts>>

\* one request that fails ends it
RepairLost ==
  \E r \in repairs :
    /\ trouble < MaxTrouble /\ trouble' = trouble + 1
    /\ repairs' = repairs \ {r} /\ repairing' = FALSE /\ load /\ told' = "failed"
    /\ UNCHANGED <<plan, backend, answers, shown, asked, puts>>

RepairOver ==
  /\ unit = "running" /\ unit' \in {"ok", "failed"}
  /\ UNCHANGED <<plan, on, set, trouble, answers, loads, shown, asked, puts, repairing, repairs, told>>

SomePut == \E p \in puts : Store(p) \/ RunEnds(p)

Next ==
  \/ Read \/ StatusAnswered \/ AudioAnswered \/ LoadFails \/ Interval
  \/ SomePut
  \/ switchPanel \/ openRestart \/ openRepair \/ confirmed \/ cancelled \/ openList \/ closeList
  \/ RepairStarts \/ AskAfter \/ RepairRead \/ RepairAnswered \/ RepairLost \/ RepairOver

Fairness ==
  /\ WF_vars(Read) /\ WF_vars(StatusAnswered) /\ WF_vars(AudioAnswered) /\ WF_vars(Interval)
  /\ WF_vars(SomePut)
  /\ WF_vars(RepairStarts) /\ WF_vars(AskAfter) /\ WF_vars(RepairRead)
  /\ WF_vars(RepairAnswered) /\ WF_vars(RepairOver)

Spec == Init /\ [][Next]_vars /\ Fairness

-----------------------------------------------------------------------------
TypeOK ==
  /\ {on, sw, swDisabled, focus, repairing, repairDisabled} \subseteq BOOLEAN
  /\ set \in Settings /\ sel \in Settings \cup {None}
  /\ unit \in {"idle", "running", "ok", "failed"} /\ audio \in {None, "idle", "running", "ok", "failed"}
  /\ trouble \in 0..MaxTrouble
  /\ status = None \/ status.set \in Settings
  /\ \A l \in loads : l.id \in 1..MaxLoads /\ l.step \in {"status", "audio"}
  /\ modal \in {None, "off", "restart", "repair"}
  /\ told \in {"nothing", "repaired", "failed"}

\* The panel is turned off only by OK on the question that asks just that,
\* whichever questions were open before (web/app.js: confirmDialog).
OffIsConfirmed ==
  (\E p \in puts' \ puts : p.what = "off" /\ ~p.done)
    => modal = "off" /\ modal' = None

\* "Audio repaired" is said of a repair that was started and has ended well.
RepairedIsTrue ==
  (Cardinality(repairs') < Cardinality(repairs) /\ told' = "repaired")
    => \E r \in repairs : r.step = "ask" /\ r.says = "ok"

\* Whatever overlaps, the page ends up showing what the backend holds.
Shows == modal # None \/ (sw = on /\ (focus \/ sel = set))
ShowsInTheEnd == <>[]Shows

\* "poll until the backend reports the outcome" (web/app.js:467)
FollowedToTheEnd ==
  [][repairing /\ ~repairing' => unit # "running"]_vars
=============================================================================
