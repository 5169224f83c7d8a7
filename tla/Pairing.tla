-------------------------------- MODULE Pairing --------------------------------
(***************************************************************************)
(* A Bluetooth pairing as the panel sees it: the questions BlueZ's agent   *)
(* asks (crates/t6-paneld/src/api/bluetooth.rs), the one record they are   *)
(* kept in, and the dialog of the Bluetooth page that shows it and brings  *)
(* the answer (pages/network/bluetooth.js).  Of BlueZ there is only what   *)
(* its questions and the Pair call come to.                                *)
(***************************************************************************)
EXTENDS Integers, FiniteSets

CONSTANTS
  Devs,          \* devices in reach
  MaxQuestions,  \* bound: questions BlueZ asks
  MaxVisits,     \* bound: times the page is shown
  MaxAnswers,    \* bound: answers given
  MaxPairs,      \* bound: pairings begun
  MaxTrouble,    \* bound: requests that fail
  Parallel,      \* whether a page made anew starts a second pairing beside the first
  None

Kinds   == {"type", "confirm", "enter"}
Prompts == [id : Nat, dev : Devs, kind : Kinds, entered : 0..1]

\* None is no prompt and no answer.
PairingAssumption ==
  /\ {MaxQuestions, MaxVisits, MaxAnswers, MaxPairs, MaxTrouble} \subseteq Nat
  /\ Parallel \in BOOLEAN /\ None \notin Prompts \cup {"yes", "no"}

VARIABLES
  pairs, begun,         \* post_pair calls under way: [dev, fate, mine]
  prompt, questions,    \* PROMPT: None or [id, dev, kind, entered]; the ids given out
  waits,                \* agent calls that wait for an answer: [id, dev, says]
  page, visits,         \* "none", "shown", "hidden"
  pairing, ask,         \* the page's: the device being paired; the dialog: None or [id, entered]
  answers, given,       \* posts under way: [id, says]
  known, req,           \* the Bluetooth resource and its request: None or [read, says]
  lost

agent == <<prompt, questions, waits>>
here  == <<page, visits, pairing>>
vars  == <<pairs, begun, agent, here, ask, answers, given, known, req, lost>>

Unread == [read |-> FALSE, says |-> None]

Init ==
  /\ pairs = {} /\ begun = 0 /\ prompt = None /\ questions = 0 /\ waits = {}
  /\ page = "none" /\ visits = 0 /\ pairing = None /\ ask = None
  /\ answers = {} /\ given = 0 /\ known = None /\ req = None /\ lost = 0

-----------------------------------------------------------------------------
(* The page draws itself whenever the resource changes, also as a refresh   *)
(* begins: the dialog is what the data at hand says (render, showPrompt).   *)

Shown(p) == IF p = None THEN None ELSE [id |-> p.id, entered |-> p.entered]
render(p) == ask' = IF page = "none" THEN None ELSE Shown(p)

\* dropped while one is under way
refresh ==
  IF req = None THEN req' = Unread /\ render(known)
  ELSE UNCHANGED <<req, ask>>

Poll ==
  /\ page # "none" /\ req = None /\ refresh
  /\ UNCHANGED <<pairs, begun, agent, here, answers, given, known, lost>>

Read ==
  /\ req # None /\ ~req.read /\ req' = [read |-> TRUE, says |-> prompt]
  /\ UNCHANGED <<pairs, begun, agent, here, ask, answers, given, known, lost>>

Answered ==
  /\ req # None /\ req' = None
  /\ \/ req.read /\ known' = req.says /\ UNCHANGED lost
     \/ lost < MaxTrouble /\ lost' = lost + 1 /\ UNCHANGED known
  /\ render(known')
  /\ UNCHANGED <<pairs, begun, agent, here, answers, given>>

show ==
  /\ page # "shown" /\ visits < MaxVisits /\ visits' = visits + 1 /\ page' = "shown"
  /\ pairing' = IF page = "none" THEN None ELSE pairing
  /\ req' = (IF req = None THEN Unread ELSE req) /\ ask' = Shown(known)
  /\ UNCHANGED <<pairs, begun, agent, answers, given, known, lost>>

\* Home and another tab dismiss what lies over the page, which declines; a page torn
\* down with its session closes the question unanswered (own(closeAsk))
hide ==
  /\ page = "shown" /\ page' \in {"none", "hidden"} /\ ask' = None
  /\ answers' \in {answers} \cup (IF ask = None THEN {} ELSE {answers \cup {[id |-> ask.id, says |-> "no"]}})
  /\ ask # None /\ page' = "hidden" => answers' # answers
  /\ pairs' = {[p EXCEPT !.mine = @ /\ page' = "hidden"] : p \in pairs}
  /\ UNCHANGED <<begun, agent, visits, pairing, given, known, req, lost>>

-----------------------------------------------------------------------------
(* A pairing and its questions.                                             *)

pair(d) ==
  /\ page = "shown" /\ ask = None /\ pairing = None /\ begun < MaxPairs /\ begun' = begun + 1
  /\ (Parallel \/ pairs = {}) /\ \A p \in pairs : p.dev # d
  /\ pairing' = d /\ pairs' = pairs \cup {[dev |-> d, fate |-> "on", mine |-> TRUE]}
  /\ render(known)
  /\ UNCHANGED <<agent, page, visits, answers, given, known, req, lost>>

\* who waits for the answer that a dropped prompt would have carried is refused
Drop(ws) == {IF prompt # None /\ w.id = prompt.id /\ w.says = None THEN [w EXCEPT !.says = "no"] ELSE w : w \in ws}
Fated(d, f) == {IF p.dev = d THEN [p EXCEPT !.fate = f] ELSE p : p \in pairs}

Rest == UNCHANGED <<begun, here, ask, answers, given, known, req, lost>>

\* the agent's methods, and show: the same question again keeps its id
Asks(d, kind) ==
  /\ \E p \in pairs : p.dev = d /\ p.fate = "on"
  /\ \A w \in waits : w.dev # d
  /\ LET again == prompt # None /\ prompt.dev = d /\ prompt.kind = kind
         id    == IF again THEN prompt.id ELSE questions + 1
     IN  /\ again \/ questions < MaxQuestions
         /\ questions' = IF again THEN questions ELSE questions + 1
         /\ prompt' = [id |-> id, dev |-> d, kind |-> kind, entered |-> IF again THEN 1 ELSE 0]
         /\ waits' = IF kind = "type" THEN Drop(waits)
                     ELSE Drop(waits) \cup {[id |-> id, dev |-> d, says |-> None]}
  /\ UNCHANGED pairs /\ Rest

\* answered, refused, or a minute is over; the prompt is cleared whosever it is
wait(w) ==
  /\ prompt' = None /\ waits' = Drop(waits \ {w})
  /\ pairs' = IF w.says = "yes" THEN pairs ELSE Fated(w.dev, "no")
  /\ UNCHANGED questions /\ Rest

SomeWait == \E w \in waits : wait(w)

\* BlueZ gives the question up
cancel ==
  /\ prompt # None /\ prompt' = None /\ waits' = Drop(waits) /\ pairs' = Fated(prompt.dev, "no")
  /\ UNCHANGED questions /\ Rest

\* a mistake: the prompt outlives the pairing
PairEndsAsking ==
  \E p \in pairs :
    /\ \A w \in waits : w.dev # p.dev
    /\ pairs' = pairs \ {p} /\ UNCHANGED <<prompt, waits>>
    /\ pairing' = IF p.mine THEN None ELSE pairing
    /\ refresh
    /\ UNCHANGED <<begun, questions, page, visits, answers, given, known, lost>>

\* Pair returns, and the page is told how it went
PairEnds ==
  \E p \in pairs :
    /\ \A w \in waits : w.dev # p.dev
    /\ pairs' = pairs \ {p}
    /\ IF prompt # None /\ prompt.dev = p.dev THEN prompt' = None /\ waits' = Drop(waits)
       ELSE UNCHANGED <<prompt, waits>>
    /\ pairing' = IF p.mine THEN None ELSE pairing
    /\ refresh
    /\ UNCHANGED <<begun, questions, page, visits, answers, given, known, lost>>

\* the dialog's buttons, and Back; a code that is none is "bad"
answer ==
  /\ ask # None /\ given < MaxAnswers /\ given' = given + 1 /\ ask' = None
  /\ \E s \in {"yes", "no", "bad"} : answers' = answers \cup {[id |-> ask.id, says |-> s]}
  /\ UNCHANGED <<pairs, begun, agent, here, known, req, lost>>

Said(a, id) ==
  IF a.says = "bad" /\ prompt.kind = "enter" THEN UNCHANGED <<prompt, waits, pairs>>
  ELSE IF a.says = "no"
       THEN /\ prompt' = None /\ waits' = Drop(waits)
            /\ pairs' = IF prompt.kind = "type" THEN Fated(prompt.dev, "no") ELSE pairs
       ELSE /\ waits' = {IF w.id = id /\ w.says = None THEN [w EXCEPT !.says = "yes"] ELSE w : w \in waits}
            /\ UNCHANGED <<prompt, pairs>>

\* a mistake: the answer is taken for whatever is asked
anyPrompt(a) ==
  IF prompt = None THEN UNCHANGED <<prompt, waits, pairs>> ELSE Said(a, prompt.id)

post_prompt(a) ==
  IF prompt = None \/ prompt.id # a.id THEN UNCHANGED <<prompt, waits, pairs>> ELSE Said(a, a.id)

\* the answer arrives, or is lost on its way; the page asks how things stand
AnswerPosted ==
  \E a \in answers :
    /\ answers' = answers \ {a}
    /\ \/ post_prompt(a) /\ UNCHANGED lost
       \/ lost < MaxTrouble /\ lost' = lost + 1 /\ UNCHANGED <<prompt, waits, pairs>>
    /\ refresh
    /\ UNCHANGED <<begun, questions, here, given, known>>

Next ==
  \/ Poll \/ Read \/ Answered \/ show \/ hide
  \/ \E d \in Devs : pair(d) \/ \E k \in Kinds : Asks(d, k)
  \/ SomeWait \/ cancel \/ PairEnds \/ answer \/ AnswerPosted

Fairness ==
  /\ WF_vars(Poll) /\ WF_vars(Read) /\ WF_vars(Answered)
  /\ WF_vars(SomeWait) /\ WF_vars(PairEnds) /\ WF_vars(AnswerPosted)

Spec == Init /\ [][Next]_vars /\ Fairness

-----------------------------------------------------------------------------
TypeOK ==
  /\ questions \in 0..MaxQuestions /\ given \in 0..MaxAnswers /\ lost \in 0..MaxTrouble
  /\ begun \in 0..MaxPairs /\ \A p \in pairs : p.dev \in Devs /\ p.fate \in {"on", "no"}

\* A question the agent waits for is the one on record, so that somebody can answer it;
\* it is asked for a pairing under way; and the dialog is never left without its page.
PairingSound ==
  /\ TypeOK
  /\ \A w \in waits : w.says = None => prompt # None /\ prompt.id = w.id
  /\ prompt # None => \E p \in pairs : p.dev = prompt.dev
  /\ page = "none" => ask = None

\* A device is let in by the answer to its own question, and not by one that was meant
\* for a question that is over (post_prompt).
AcceptedIsAsked ==
  \A w \in waits : \A v \in waits' :
    w.id = v.id /\ w.dev = v.dev /\ w.says = None /\ v.says = "yes"
      => \E a \in answers : a.id = w.id /\ a.says # "no"

\* A question is refused by whoever declines it at the panel, or by BlueZ itself: with
\* Parallel a second question takes the place of the first, and both are refused.
RefusedIsDeclined ==
  \A w \in waits : \A v \in waits' :
    w.id = v.id /\ w.dev = v.dev /\ w.says = None /\ v.says = "no"
      => (\E a \in answers : a.id = w.id /\ a.says = "no") \/ pairs' = Fated(w.dev, "no")

\* The dialog ends up showing the question that is asked, and no pairing is shown that
\* is over.
PageShows == page = "shown" => ask = Shown(prompt) /\ (pairing # None => pairs # {})
PairingSettles == <>[]PageShows

\* What was answered is not asked again; it is, until the answer was read back.
NotAskedAgain == ask # None => \A a \in answers : a.id # ask.id
=============================================================================
