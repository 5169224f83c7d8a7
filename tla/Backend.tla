------------------------------- MODULE Backend -------------------------------
(***************************************************************************)
(* The front panel's live state: the requests it makes                     *)
(* (src/panel/www/js/core/api.js), the loop that polls /api/panel and      *)
(* decides whether the backend is there (core/panel.js, shell/offline.js), *)
(* and the settings that loop carries, each with its own way of showing a  *)
(* change before the backend has it: the theme (core/theme.js), rows that  *)
(* save at once and a slider that saves a moment later (pages/settings/).  *)
(*                                                                         *)
(* Every change has a number of its own, so the value of a setting is the  *)
(* number of the change that made it.  A request is a record that waits    *)
(* first for the backend and then for the page to take the answer.         *)
(***************************************************************************)
EXTENDS Integers, FiniteSets

CONSTANTS
  MaxChanges,  \* bound: changes made here or by somebody else
  MaxCount,    \* bound: where misses and tries stop counting
  MaxFaults,   \* bound: how often the backend's health changes
  SlowPuts,    \* whether a theme change may take longer than SETTLE_MS
  None

ASSUME BackendAssumption ==
  /\ MaxChanges \in Nat
  /\ MaxCount \in Nat /\ MaxCount >= 2
  /\ MaxFaults \in Nat
  /\ SlowPuts \in BOOLEAN

MISSES_FOR_OFFLINE == 2
Keys == {"theme", "row", "level"}

VARIABLES
  health,   \* the backend: "up", "broken" (answers errors), "down" (no answer in 8 s)
  faults,   \* health changes so far
  srv,      \* the settings the backend has
  applied,  \* how many changes the backend has made
  made,     \* how many changes were ever numbered
  puts,     \* changes on their way: [n, key, at], at = None until applied
  acked,    \* the backend's count at the newest change it acknowledged
  data,     \* panel.data: settings as polled, or patched since
  polled,   \* the backend's count in the poll shown last
  poll,     \* the poll in flight, or None
  again,    \* poll once more as soon as this one ends
  gen,      \* bumped by refreshPanel
  timer,    \* whether a poll is scheduled
  misses, online, tries,
  theme,    \* the theme in effect on the screen
  settle,   \* chosenAt is less than SETTLE_MS ago
  debounce  \* the slider's value that waits to be sent, or 0

loop    == <<poll, again, gen, timer>>
seen    == <<data, polled>>
link    == <<misses, online, tries>>
look    == <<theme, settle>>
server  == <<srv, applied>>
vars == <<health, faults, server, made, puts, acked, seen, loop, link, look, debounce>>

Capped(n) == IF n > MaxCount THEN MaxCount ELSE n
Request   == [gen : Nat, at : Nat \cup {None}, says : [Keys -> Nat]]
Zero      == [k \in Keys |-> 0]

\* None is no count and no request.
ASSUME NoneAssumption == None \notin Nat \cup Request

Init ==
  /\ health \in {"up", "down"} /\ faults = 0
  /\ srv = Zero /\ applied = 0 /\ made = 0 /\ puts = {} /\ acked = 0
  /\ data = Zero /\ polled = 0
  /\ poll = [gen |-> 0, at |-> None, says |-> Zero]   \* startPanel
  /\ again = FALSE /\ gen = 0 /\ timer = FALSE
  /\ misses = 0 /\ online = TRUE /\ tries = 0
  /\ theme = 0 /\ settle = FALSE /\ debounce = 0

(***************************************************************************)
(* poll() and refreshPanel().  Poll(g, flying) is poll() called when the   *)
(* generation is g and `flying` says whether one is in flight.             *)
(***************************************************************************)
Poll(g, flying) ==
  /\ timer' = FALSE
  /\ IF flying THEN again' = TRUE /\ UNCHANGED poll
     ELSE poll' = [gen |-> g, at |-> None, says |-> Zero] /\ UNCHANGED again

\* Mutant: the generation is not bumped
refreshSameGen == gen' = gen /\ Poll(gen, poll # None)

refreshPanel == gen' = gen + 1 /\ Poll(gen + 1, poll # None)

\* a request outside the loop got no answer: look sooner, unless one looks now
noAnswer ==
  /\ timer' = (timer \/ (online /\ poll = None))
  /\ UNCHANGED <<poll, again, gen>>

\* the end of poll(): once more at once, or later
Ends == IF again THEN /\ poll' = [gen |-> gen, at |-> None, says |-> Zero]
                      /\ again' = FALSE /\ timer' = FALSE
        ELSE poll' = None /\ timer' = TRUE /\ UNCHANGED again

PollDue == /\ timer /\ Poll(gen, poll # None)
           /\ UNCHANGED <<health, faults, server, made, puts, acked, seen, gen, link, look, debounce>>

\* a poll's answer comes in; an answer older than the last change is dropped
PollAnswered ==
  /\ poll # None /\ poll.at # None
  /\ misses' = 0
  /\ IF poll.gen = gen
     THEN /\ data' = poll.says /\ polled' = poll.at
          /\ online' = TRUE /\ tries' = IF online THEN tries ELSE 0
          /\ theme' = IF settle THEN theme ELSE poll.says["theme"]
     ELSE UNCHANGED <<data, polled, online, tries, theme>>
  /\ Ends
  /\ UNCHANGED <<health, faults, server, made, puts, acked, gen, settle, debounce>>

\* 8 s without an answer, a refused connection, or the gateway's 502..504
PollUnreachable ==
  /\ poll # None /\ health = "down"
  /\ misses' = Capped(misses + 1)
  /\ IF ~online THEN tries' = Capped(tries + 1) /\ UNCHANGED online
     ELSE IF misses + 1 >= MISSES_FOR_OFFLINE
     THEN online' = FALSE /\ tries' = Capped(misses + 1)
     ELSE UNCHANGED <<online, tries>>
  /\ Ends
  /\ UNCHANGED <<health, faults, server, made, puts, acked, seen, gen, look, debounce>>

\* an error status, or a body cut off half way: neither an answer nor a miss
PollFailed ==
  /\ poll # None
  /\ \/ health = "broken" /\ poll.at = None
     \/ health = "down" /\ poll.at # None
  /\ Ends
  /\ UNCHANGED <<health, faults, server, made, puts, acked, seen, gen, link, look, debounce>>

(***************************************************************************)
(* Changes.  Sent(n, key) puts the request of change n on its way.         *)
(***************************************************************************)
Next1 == made + 1
CanChange == made < MaxChanges
Sent(n, key) == puts' = puts \cup {[n |-> n, key |-> key, at |-> None]}

\* Mutant: the choice is not dated
chooseThemeUndated ==
  /\ CanChange /\ made' = Next1
  /\ theme' = Next1
  /\ Sent(Next1, "theme")
  /\ UNCHANGED <<health, faults, server, acked, seen, loop, link, settle, debounce>>

\* setTheme: shown at once, then stored
chooseTheme ==
  /\ CanChange /\ made' = Next1
  /\ settle' = TRUE /\ theme' = Next1
  /\ Sent(Next1, "theme")
  /\ UNCHANGED <<health, faults, server, acked, seen, loop, link, debounce>>

\* a switch, a segment: patch what is shown, then store it
changeRow ==
  /\ CanChange /\ made' = Next1
  /\ data' = [data EXCEPT !["row"] = Next1]
  /\ Sent(Next1, "row")
  /\ UNCHANGED <<health, faults, server, acked, polled, loop, link, look, debounce>>

\* the brightness slider: patch what is shown, store it 120 ms after the last move
moveSlider ==
  /\ CanChange /\ made' = Next1
  /\ data' = [data EXCEPT !["level"] = Next1]
  /\ debounce' = Next1
  /\ UNCHANGED <<health, faults, server, puts, acked, polled, loop, link, look>>

sliderSettles ==
  /\ debounce # 0 /\ debounce' = 0
  /\ Sent(debounce, "level")
  /\ UNCHANGED <<health, faults, server, made, acked, seen, loop, link, look>>

\* SETTLE_MS after the theme was chosen or its answer came
settled ==
  /\ settle /\ (SlowPuts \/ \A p \in puts : p.key # "theme")
  /\ settle' = FALSE
  /\ UNCHANGED <<health, faults, server, made, puts, acked, seen, loop, link, theme, debounce>>

\* the answer of a change: the theme's is adopted, a row's brings a refresh
ChangeAnswered(p) ==
  /\ p.at # None
  /\ puts' = puts \ {p}
  /\ IF p.key = "level" THEN UNCHANGED <<acked, data, loop, look>>
     ELSE /\ acked' = IF p.at > acked THEN p.at ELSE acked
          /\ IF p.key = "theme"
             THEN /\ settle' = TRUE /\ theme' = p.n
                  /\ data' = [data EXCEPT !["theme"] = p.n]
             ELSE UNCHANGED <<data, look>>
          /\ refreshPanel
  /\ UNCHANGED <<health, faults, server, made, polled, link, debounce>>

\* no answer, or an error: a row asks what is true, the others leave it to the loop
ChangeFailed(p) ==
  /\ health = "down" \/ (health = "broken" /\ p.at = None)
  /\ puts' = puts \ {p}
  /\ IF p.key = "row" THEN refreshPanel
     ELSE IF health = "down" THEN noAnswer ELSE UNCHANGED loop
  /\ UNCHANGED <<health, faults, server, made, acked, seen, link, look, debounce>>

(***************************************************************************)
(* The backend: it applies changes in the order they reach it, answers     *)
(* polls from what it has then, and somebody else may change a setting.    *)
(***************************************************************************)
Apply(p) ==
  /\ p.at = None /\ health = "up"
  /\ srv' = [srv EXCEPT ![p.key] = p.n] /\ applied' = applied + 1
  /\ puts' = (puts \ {p}) \cup {[p EXCEPT !.at = applied + 1]}
  /\ UNCHANGED <<health, faults, made, acked, seen, loop, link, look, debounce>>

ReadState ==
  /\ poll # None /\ poll.at = None /\ health = "up"
  /\ poll' = [poll EXCEPT !.at = applied, !.says = srv]
  /\ UNCHANGED <<health, faults, server, made, puts, acked, seen, again, gen, timer, link, look, debounce>>

ElsewhereChanged(key) ==
  /\ CanChange /\ made' = Next1 /\ health = "up"
  /\ srv' = [srv EXCEPT ![key] = Next1] /\ applied' = applied + 1
  /\ UNCHANGED <<health, faults, puts, acked, seen, loop, link, look, debounce>>

HealthChanges ==
  /\ faults < MaxFaults /\ faults' = faults + 1
  /\ health' \in {"up", "broken", "down"} \ {health}
  /\ UNCHANGED <<server, made, puts, acked, seen, loop, link, look, debounce>>

AnyAnswered == \E p \in puts : ChangeAnswered(p)
AnyFailed   == \E p \in puts : ChangeFailed(p)
AnyApplied  == \E p \in puts : Apply(p)

Next ==
  \/ PollDue \/ PollAnswered \/ PollUnreachable \/ PollFailed
  \/ chooseTheme \/ changeRow \/ moveSlider \/ sliderSettles \/ settled
  \/ AnyAnswered \/ AnyFailed \/ AnyApplied
  \/ ReadState \/ HealthChanges
  \/ \E key \in Keys : ElsewhereChanged(key)

\* timers fire, a backend that is up answers, and a request ends within 8 s
Fairness ==
  /\ WF_vars(PollDue) /\ WF_vars(PollAnswered)
  /\ WF_vars(PollUnreachable) /\ WF_vars(PollFailed)
  /\ WF_vars(sliderSettles) /\ WF_vars(settled)
  /\ WF_vars(AnyAnswered) /\ WF_vars(AnyFailed) /\ WF_vars(AnyApplied)
  /\ WF_vars(ReadState)

Spec == Init /\ [][Next]_vars /\ Fairness

-----------------------------------------------------------------------------
PutOk == [n : Nat, key : Keys, at : Nat \cup {None}]

TypeOK ==
  /\ health \in {"up", "broken", "down"} /\ faults \in Nat
  /\ srv \in [Keys -> Nat] /\ applied \in Nat /\ made \in Nat
  /\ puts \subseteq PutOk /\ acked \in Nat
  /\ data \in [Keys -> Nat] /\ polled \in Nat
  /\ poll \in Request \cup {None} /\ again \in BOOLEAN /\ gen \in Nat
  /\ timer \in BOOLEAN /\ misses \in Nat /\ online \in BOOLEAN /\ tries \in Nat
  /\ theme \in Nat /\ settle \in BOOLEAN /\ debounce \in Nat

\* The loop never stops and never doubles: there is a poll in flight or a
\* poll scheduled, never both and never neither, and "once more" is only
\* remembered while one is in flight (panel.js poll, refreshPanel and the
\* noAnswer handler share one timer and one flag).
OneLoop ==
  /\ (poll # None) <=> ~timer
  /\ again => poll # None

\* An answer still in flight that will be shown is not older than a change
\* the backend has acknowledged (panel.js: gen).
FlightFresh ==
  poll # None /\ poll.gen = gen /\ poll.at # None => poll.at >= acked

\* A theme that is being stored is dated (SETTLE_MS outlasts the request).
StoredIsDated == ~SlowPuts /\ (\E p \in puts : p.key = "theme") => settle

IInv ==
  /\ TypeOK /\ OneLoop /\ FlightFresh /\ StoredIsDated
  /\ acked <= applied
  /\ \A p \in puts : p.at # None => p.at <= applied
  /\ \A p \in puts : p.n <= made
  /\ debounce <= made
  /\ poll # None => poll.gen <= gen

\* What the panel shows never goes back behind a change the backend has
\* acknowledged: a poll that left before it is dropped (panel.js:33-35).
NotBeforeTheChange == [][polled' # polled => polled' >= acked]_vars

\* While a theme chosen here is being stored, no poll changes it back; only
\* a newer choice or the backend's answer to one does (theme.js SETTLE_MS).
ChosenThemeStays ==
  [][(\E p \in puts : p.key = "theme") /\ puts' = puts => theme' = theme]_vars

\* A backend that stays up is shown as it is in the end, whatever was patched,
\* lost or refused before; one that stays down ends on the offline page.
Tracks ==
  /\ <>[](health = "up") => <>[](online /\ data = srv /\ theme = srv["theme"])
  /\ <>[](health = "down") => <>[](~online)

\* settings/index.js:44: "Show a change in the cached /api/panel at once, so a
\* poll in flight doesn't paint the old value back."
NotPaintedBack ==
  [][data["level"] = made /\ made' = made => data'["level"] = data["level"]]_vars
=============================================================================
