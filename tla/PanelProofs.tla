------------------------------ MODULE PanelProofs ------------------------------
(***************************************************************************)
(* What the front panel and its network pages keep, for any number of      *)
(* changes, visits, presses and failures: the loop that polls t6-paneld,   *)
(* Bluetooth's pairing and search, Wi-Fi with the hotspot, the wired ports,*)
(* and the navigation (Router): the stacks under the tabs and slips, the   *)
(* page on screen, the ones that slide and the ones destroyed.             *)
(*                                                                         *)
(* An operation of router.js builds on others, on a triple of navigation,  *)
(* page flags and slide: each of those has a lemma that says which triples *)
(* it leads to (Settles) and which pages it uses (Step, Uses).  An action  *)
(* takes such a triple over (Becomes), and the invariant RouterInv is that *)
(* the triple settles, that every stack has an owner (Owned), and that     *)
(* pages are left for what follows the slide (Spared).                     *)
(***************************************************************************)
EXTENDS MCPanel, SequenceTheorems, FiniteSetTheorems, WellFoundedInduction, TLAPS

-----------------------------------------------------------------------------
\* The loop that polls (Backend).

LEMMA LoopBegins == Init => IInv
<1> SUFFICES ASSUME Init PROVE IInv
  OBVIOUS
<1>1. Zero \in [Keys -> Nat] /\ Keys = {"theme", "row", "level"}
  BY DEF Zero, Keys
<1>2. poll \in Request /\ poll # None /\ poll.gen = 0 /\ poll.at = None
  BY <1>1, NoneAssumption DEF Init, Request
<1>3. TypeOK
  BY <1>1, <1>2 DEF Init, TypeOK
<1> QED
  BY <1>2, <1>3 DEF Init, IInv, OneLoop, FlightFresh, StoredIsDated

\* What poll() and its end leave of the loop.
LoopTypes ==
  /\ poll \in Request \cup {None} /\ again \in BOOLEAN /\ gen \in Nat /\ timer \in BOOLEAN
LoopAge == poll # None => poll.gen <= gen
LoopOK == LoopTypes /\ OneLoop /\ FlightFresh /\ LoopAge

\* A poll just begun.
Fresh(g) == [gen |-> g, at |-> None, says |-> Zero]

LEMMA Begun ==
  ASSUME NEW g \in Nat
  PROVE  Fresh(g) \in Request /\ Fresh(g) # None /\ Fresh(g).gen = g /\ Fresh(g).at = None
<1>1. Zero \in [Keys -> Nat]
  BY DEF Zero
<1>2. Fresh(g) \in Request
  BY <1>1 DEF Request, Fresh
<1> QED
  BY <1>2, NoneAssumption DEF Fresh

LEMMA BegunOK ==
  ASSUME gen' \in Nat, poll' = Fresh(gen'), again' = FALSE, timer' = FALSE
  PROVE  LoopOK'
<1>1. poll' \in Request /\ poll' # None /\ poll'.gen = gen' /\ poll'.at = None
  BY Begun
<1>2. LoopTypes'
  BY <1>1 DEF LoopTypes
<1>3. OneLoop'
  BY <1>1 DEF OneLoop
<1>4. FlightFresh'
  BY <1>1 DEF FlightFresh
<1>5. poll'.gen <= gen'
  BY <1>1
<1> QED
  BY <1>2, <1>3, <1>4, <1>5 DEF LoopOK, LoopAge

LEMMA PollKeeps ==
  ASSUME LoopOK, acked' = acked, gen' = gen, timer, Poll(gen, poll # None)
  PROVE  LoopOK'
<1>1. poll = None /\ again = FALSE
  BY DEF LoopOK, LoopTypes, OneLoop
<1>2. poll' = Fresh(gen) /\ again' = FALSE /\ timer' = FALSE
  BY <1>1 DEF Poll, Fresh
<1>3. gen' \in Nat
  BY DEF LoopOK, LoopTypes
<1> QED
  BY <1>2, <1>3, BegunOK

\* refreshPanel(): what is in flight is shown no more.
LEMMA RefreshKeeps ==
  ASSUME LoopOK, refreshPanel
  PROVE  LoopOK'
<1>1. gen \in Nat /\ gen' = gen + 1 /\ poll \in Request \cup {None}
  BY DEF LoopOK, LoopTypes, refreshPanel
<1>2. CASE poll # None
  <2>1. poll' = poll /\ again' = TRUE /\ timer' = FALSE
    BY <1>2 DEF refreshPanel, Poll
  <2>2. poll.gen <= gen /\ poll.gen \in Nat /\ poll \in Request
    BY <1>1, <1>2 DEF LoopOK, LoopAge, Request
  <2>3. poll'.gen < gen' /\ poll'.gen <= gen' /\ gen' \in Nat
    BY <1>1, <2>1, <2>2
  <2>4. LoopTypes'
    BY <2>1, <2>2, <2>3 DEF LoopTypes
  <2>5. OneLoop'
    BY <1>2, <2>1 DEF OneLoop
  <2>6. poll'.gen # gen'
    BY <2>2, <2>3, <1>1, <2>1
  <2>7. FlightFresh'
    BY <2>6 DEF FlightFresh
  <2> QED
    BY <2>3, <2>4, <2>5, <2>7 DEF LoopOK, LoopAge
<1>3. CASE poll = None
  <2>1. poll' = Fresh(gen + 1) /\ again' = again /\ timer' = FALSE
    BY <1>3 DEF refreshPanel, Poll, Fresh
  <2>2. again = FALSE
    BY <1>3 DEF LoopOK, LoopTypes, OneLoop
  <2>3. gen' \in Nat
    BY <1>1
  <2> QED
    BY <1>1, <2>1, <2>2, <2>3, BegunOK
<1> QED
  BY <1>2, <1>3

LEMMA EndsKeeps ==
  ASSUME LoopOK, Ends, gen' = gen
  PROVE  LoopOK'
<1>1. gen \in Nat /\ again \in BOOLEAN
  BY DEF LoopOK, LoopTypes
<1>2. CASE again
  <2>1. poll' = Fresh(gen) /\ again' = FALSE /\ timer' = FALSE
    BY <1>2 DEF Ends, Fresh
  <2> QED
    BY <1>1, <2>1, BegunOK
<1>3. CASE ~again
  <2>1. poll' = None /\ timer' = TRUE /\ again' = FALSE
    BY <1>1, <1>3 DEF Ends
  <2>2. LoopTypes'
    BY <1>1, <2>1 DEF LoopTypes
  <2> QED
    BY <2>1, <2>2 DEF LoopOK, LoopAge, OneLoop, FlightFresh
<1> QED
  BY <1>2, <1>3

LEMMA SameLoop ==
  ASSUME LoopOK, UNCHANGED loop, acked' = acked
  PROVE  LoopOK'
<1>1. UNCHANGED <<poll, again, gen, timer, acked>>
  BY DEF loop
<1> QED
  BY <1>1 DEF LoopOK, LoopTypes, LoopAge, OneLoop, FlightFresh

\* What is left of the invariant besides the loop.
RestOK ==
  /\ health \in {"up", "broken", "down"} /\ faults \in Nat
  /\ srv \in [Keys -> Nat] /\ applied \in Nat /\ made \in Nat
  /\ puts \subseteq PutOk /\ acked \in Nat
  /\ data \in [Keys -> Nat] /\ polled \in Nat
  /\ misses \in Nat /\ online \in BOOLEAN /\ tries \in Nat
  /\ theme \in Nat /\ settle \in BOOLEAN /\ debounce \in Nat
  /\ StoredIsDated
  /\ acked <= applied
  /\ \A put \in puts : put.at # None => put.at <= applied
  /\ \A put \in puts : put.n <= made
  /\ debounce <= made

LEMMA Parts == IInv <=> LoopOK /\ RestOK
  BY DEF IInv, TypeOK, LoopOK, LoopTypes, LoopAge, RestOK

LEMMA SameRest ==
  ASSUME RestOK, UNCHANGED <<health, faults, server, made, puts, acked, seen, link, look, debounce>>
  PROVE  RestOK'
BY DEF RestOK, StoredIsDated, server, seen, link, look

LEMMA CappedIsNat == \A n \in Nat : Capped(n) \in Nat
BY BackendAssumption DEF Capped

\* A change put on its way.
LEMMA SentIsOk ==
  ASSUME RestOK, NEW n \in Nat, NEW key \in Keys, n <= made', made' \in Nat, made <= made',
         Sent(n, key), key = "theme" => settle', settle => settle', applied' = applied
  PROVE  /\ puts' \subseteq PutOk /\ StoredIsDated'
         /\ \A put \in puts' : put.at # None => put.at <= applied'
         /\ \A put \in puts' : put.n <= made'
<1> DEFINE new == [n |-> n, key |-> key, at |-> None]
<1>1. new \in PutOk /\ new.n = n /\ new.key = key /\ new.at = None
  BY DEF PutOk
<1>2. puts' = puts \cup {new}
  BY DEF Sent
<1> HIDE DEF new
<1>3. puts' \subseteq PutOk
  BY <1>1, <1>2 DEF RestOK
<1>4. StoredIsDated'
  BY <1>1, <1>2 DEF RestOK, StoredIsDated
<1>5. \A put \in puts' : put.at # None => put.at <= applied'
  BY <1>1, <1>2 DEF RestOK
<1>6. \A put \in puts' : put.n <= made'
  <2> SUFFICES ASSUME NEW put \in puts' PROVE put.n <= made'
    OBVIOUS
  <2>1. CASE put = new
    BY <2>1, <1>1
  <2>2. CASE put \in puts
    <3>1. put.n \in Nat /\ put.n <= made /\ made \in Nat
      BY <2>2 DEF RestOK, PutOk
    <3> QED
      BY <3>1
  <2> QED
    BY <1>2, <2>1, <2>2
<1> QED
  BY <1>3, <1>4, <1>5, <1>6

\* Fewer changes on their way.
LEMMA FewerPuts ==
  ASSUME RestOK, puts' \subseteq puts, made' = made, applied' = applied, settle => settle'
  PROVE  /\ puts' \subseteq PutOk /\ StoredIsDated'
         /\ \A put \in puts' : put.at # None => put.at <= applied'
         /\ \A put \in puts' : put.n <= made'
BY DEF RestOK, StoredIsDated

LEMMA LoopMoves ==
  ASSUME IInv, Next
  PROVE  IInv'
<1>1. LoopOK /\ RestOK
  BY Parts
<1>2. made \in Nat /\ applied \in Nat /\ Next1 \in Nat /\ Next1 = made + 1
  BY <1>1 DEF RestOK, Next1
<1> SUFFICES LoopOK' /\ RestOK'
  BY Parts, PTL
<1>3. CASE PollDue
  <2>1. LoopOK'
    BY <1>1, <1>3, PollKeeps DEF PollDue
  <2>2. RestOK'
    BY <1>1, <1>3, SameRest DEF PollDue
  <2> QED
    BY <2>1, <2>2
<1>4. CASE PollAnswered
  <2>1. LoopOK'
    BY <1>1, <1>4, EndsKeeps DEF PollAnswered
  <2>2. poll \in Request /\ poll.at \in Nat
    BY <1>1, <1>4 DEF PollAnswered, LoopOK, LoopTypes, Request
  <2>3. poll.says \in [Keys -> Nat] /\ poll.says["theme"] \in Nat
    BY <2>2 DEF Request, Keys
  <2>4. UNCHANGED <<health, faults, srv, applied, made, puts, acked, settle, debounce>>
    BY <1>4 DEF PollAnswered, server
  <2>5. data' \in [Keys -> Nat] /\ polled' \in Nat /\ misses' \in Nat
    BY <1>1, <1>4, <2>2, <2>3 DEF PollAnswered, RestOK
  <2>6. online' \in BOOLEAN /\ tries' \in Nat
    <3>1. CASE poll.gen = gen
      <4>1. online' = TRUE /\ (tries' = tries \/ tries' = 0)
        BY <1>4, <3>1 DEF PollAnswered
      <4> QED
        BY <1>1, <4>1 DEF RestOK
    <3>2. CASE poll.gen # gen
      <4>1. online' = online /\ tries' = tries
        BY <1>4, <3>2 DEF PollAnswered
      <4> QED
        BY <1>1, <4>1 DEF RestOK
    <3> QED
      BY <3>1, <3>2
  <2>7. theme' \in Nat
    BY <1>1, <1>4, <2>3 DEF PollAnswered, RestOK
  <2>8. RestOK'
    BY <1>1, <2>4, <2>5, <2>6, <2>7 DEF RestOK, StoredIsDated
  <2> QED
    BY <2>1, <2>8
<1>5. CASE PollUnreachable
  <2>1. LoopOK'
    BY <1>1, <1>5, EndsKeeps DEF PollUnreachable
  <2>2. UNCHANGED <<health, faults, srv, applied, made, puts, acked, data, polled, theme, settle, debounce>>
    BY <1>5 DEF PollUnreachable, server, seen, look
  <2>3. misses \in Nat /\ misses + 1 \in Nat /\ tries \in Nat /\ tries + 1 \in Nat
    BY <1>1 DEF RestOK
  <2>4. Capped(misses + 1) \in Nat /\ Capped(tries + 1) \in Nat
    BY <2>3, CappedIsNat
  <2>5. misses' \in Nat /\ tries' \in Nat
    BY <1>1, <1>5, <2>3, <2>4 DEF PollUnreachable
  <2>6. online' \in BOOLEAN
    BY <1>1, <1>5 DEF PollUnreachable, RestOK
  <2>7. RestOK'
    BY <1>1, <2>2, <2>5, <2>6 DEF RestOK, StoredIsDated
  <2> QED
    BY <2>1, <2>7
<1>6. CASE PollFailed
  <2>1. LoopOK'
    BY <1>1, <1>6, EndsKeeps DEF PollFailed
  <2>2. RestOK'
    BY <1>1, <1>6, SameRest DEF PollFailed
  <2> QED
    BY <2>1, <2>2
<1>7. CASE chooseTheme
  <2>1. LoopOK'
    BY <1>1, <1>7, SameLoop DEF chooseTheme
  <2>2. UNCHANGED <<health, faults, srv, applied, acked, data, polled, misses, online, tries, debounce>>
    BY <1>7 DEF chooseTheme, server, seen, link
  <2>3. made' = made + 1 /\ settle' = TRUE /\ theme' = made + 1 /\ Sent(made + 1, "theme")
    BY <1>7, <1>2 DEF chooseTheme
  <2>4. /\ puts' \subseteq PutOk /\ StoredIsDated'
        /\ \A put \in puts' : put.at # None => put.at <= applied'
        /\ \A put \in puts' : put.n <= made'
    BY <1>1, <1>2, <2>2, <2>3, SentIsOk DEF Keys
  <2>5. debounce' <= made'
    BY <1>1, <1>2, <2>2, <2>3 DEF RestOK
  <2>6. RestOK'
    BY <1>1, <1>2, <2>2, <2>3, <2>4, <2>5 DEF RestOK
  <2> QED
    BY <2>1, <2>6
<1>8. CASE changeRow
  <2>1. LoopOK'
    BY <1>1, <1>8, SameLoop DEF changeRow
  <2>2. UNCHANGED <<health, faults, srv, applied, acked, polled, misses, online, tries, theme, settle, debounce>>
    BY <1>8 DEF changeRow, server, link, look
  <2>3. made' = made + 1 /\ Sent(made + 1, "row")
    BY <1>8, <1>2 DEF changeRow
  <2>4. data' \in [Keys -> Nat]
    BY <1>1, <1>2, <1>8 DEF changeRow, RestOK
  <2>5. /\ puts' \subseteq PutOk /\ StoredIsDated'
        /\ \A put \in puts' : put.at # None => put.at <= applied'
        /\ \A put \in puts' : put.n <= made'
    BY <1>1, <1>2, <2>2, <2>3, SentIsOk DEF Keys
  <2>6. debounce' <= made'
    BY <1>1, <1>2, <2>2, <2>3 DEF RestOK
  <2>7. RestOK'
    BY <1>1, <1>2, <2>2, <2>3, <2>4, <2>5, <2>6 DEF RestOK
  <2> QED
    BY <2>1, <2>7
<1>9. CASE moveSlider
  <2>1. LoopOK'
    BY <1>1, <1>9, SameLoop DEF moveSlider
  <2>2. UNCHANGED <<health, faults, srv, applied, puts, acked, polled, misses, online, tries, theme, settle>>
    BY <1>9 DEF moveSlider, server, link, look
  <2>3. made' = made + 1 /\ debounce' = made + 1
    BY <1>9, <1>2 DEF moveSlider
  <2>4. data' \in [Keys -> Nat]
    BY <1>1, <1>2, <1>9 DEF moveSlider, RestOK
  <2>5. \A put \in puts' : put.n <= made'
    <3> SUFFICES ASSUME NEW put \in puts PROVE put.n <= made + 1
      BY <2>2, <2>3
    <3>1. put.n \in Nat /\ put.n <= made
      BY <1>1 DEF RestOK, PutOk
    <3> QED
      BY <3>1, <1>2
  <2>6. StoredIsDated'
    BY <1>1, <2>2 DEF RestOK, StoredIsDated
  <2>7. RestOK'
    BY <1>1, <1>2, <2>2, <2>3, <2>4, <2>5, <2>6 DEF RestOK
  <2> QED
    BY <2>1, <2>7
<1>10. CASE sliderSettles
  <2>1. LoopOK'
    BY <1>1, <1>10, SameLoop DEF sliderSettles
  <2>2. UNCHANGED <<health, faults, srv, applied, made, acked, data, polled, misses, online, tries, theme, settle>>
    BY <1>10 DEF sliderSettles, server, seen, link, look
  <2>3. debounce' = 0 /\ Sent(debounce, "level") /\ debounce \in Nat /\ debounce <= made
    BY <1>1, <1>10 DEF sliderSettles, RestOK
  <2>4. /\ puts' \subseteq PutOk /\ StoredIsDated'
        /\ \A put \in puts' : put.at # None => put.at <= applied'
        /\ \A put \in puts' : put.n <= made'
    BY <1>1, <1>2, <2>2, <2>3, SentIsOk DEF Keys
  <2>5. RestOK'
    BY <1>1, <1>2, <2>2, <2>3, <2>4 DEF RestOK
  <2> QED
    BY <2>1, <2>5
<1>11. CASE settled
  <2>1. LoopOK'
    BY <1>1, <1>11, SameLoop DEF settled
  <2>2. UNCHANGED <<health, faults, srv, applied, made, puts, acked, data, polled, misses, online, tries, theme, debounce>>
    BY <1>11 DEF settled, server, seen, link
  <2>3. StoredIsDated'
    BY <1>11, <2>2 DEF settled, StoredIsDated
  <2>4. settle' = FALSE
    BY <1>11 DEF settled
  <2>5. RestOK'
    BY <1>1, <2>2, <2>3, <2>4 DEF RestOK
  <2> QED
    BY <2>1, <2>5
<1>12. ASSUME NEW put \in puts, ChangeAnswered(put) PROVE LoopOK' /\ RestOK'
  <2>1. UNCHANGED <<health, faults, srv, applied, made, polled, misses, online, tries, debounce>>
    BY <1>12 DEF ChangeAnswered, server, link
  <2>2. put \in PutOk /\ put.at \in Nat /\ put.n \in Nat /\ put.at <= applied
    BY <1>1, <1>12 DEF ChangeAnswered, RestOK, PutOk
  <2>3. puts' = puts \ {put}
    BY <1>12 DEF ChangeAnswered
  <2>4. LoopOK'
    BY <1>1, <1>12, SameLoop, RefreshKeeps DEF ChangeAnswered
  <2>5. acked' \in Nat /\ acked' <= applied
    BY <1>1, <1>12, <2>2 DEF ChangeAnswered, RestOK
  <2>6. data' \in [Keys -> Nat]
    BY <1>1, <1>12, <2>2 DEF ChangeAnswered, RestOK
  <2>7. theme' \in Nat
    BY <1>1, <1>12, <2>2 DEF ChangeAnswered, look, RestOK
  <2>8. settle' \in BOOLEAN /\ (settle => settle')
    BY <1>1, <1>12 DEF ChangeAnswered, look, RestOK
  <2>9. /\ puts' \subseteq PutOk /\ StoredIsDated'
        /\ \A p \in puts' : p.at # None => p.at <= applied'
        /\ \A p \in puts' : p.n <= made'
    BY <1>1, <2>1, <2>3, <2>8, FewerPuts
  <2>10. RestOK'
    BY <1>1, <2>1, <2>5, <2>6, <2>7, <2>8, <2>9 DEF RestOK
  <2> QED
    BY <2>4, <2>10
<1>13. ASSUME NEW put \in puts, ChangeFailed(put) PROVE LoopOK' /\ RestOK'
  <2>1. UNCHANGED <<health, faults, srv, applied, made, acked, data, polled, misses, online, tries, theme, settle, debounce>>
    BY <1>13 DEF ChangeFailed, server, seen, link, look
  <2>2. puts' \subseteq puts
    BY <1>13 DEF ChangeFailed
  <2>3. ASSUME noAnswer PROVE LoopOK'
    <3>1. UNCHANGED <<poll, again, gen>> /\ timer' = (timer \/ (online /\ poll = None))
      BY <2>3 DEF noAnswer
    <3>2. timer' = timer
      BY <1>1, <3>1 DEF LoopOK, LoopTypes, OneLoop
    <3>3. UNCHANGED loop
      BY <3>1, <3>2 DEF loop
    <3> QED
      BY <1>1, <2>1, <3>3, SameLoop
  <2>4. LoopOK'
    BY <1>1, <1>13, <2>1, <2>3, SameLoop, RefreshKeeps DEF ChangeFailed
  <2>5. /\ puts' \subseteq PutOk /\ StoredIsDated'
        /\ \A p \in puts' : p.at # None => p.at <= applied'
        /\ \A p \in puts' : p.n <= made'
    BY <1>1, <2>1, <2>2, FewerPuts
  <2>6. RestOK'
    BY <1>1, <2>1, <2>5 DEF RestOK
  <2> QED
    BY <2>4, <2>6
<1>14. ASSUME NEW put \in puts, Apply(put) PROVE LoopOK' /\ RestOK'
  <2> DEFINE new == [put EXCEPT !.at = applied + 1]
  <2>1. UNCHANGED <<health, faults, made, acked, data, polled, misses, online, tries, theme, settle, debounce>>
    BY <1>14 DEF Apply, seen, link, look
  <2>2. put \in PutOk /\ put.n \in Nat /\ put.n <= made /\ put.key \in Keys
    BY <1>1 DEF RestOK, PutOk
  <2>3. new \in PutOk /\ new.at = applied + 1 /\ new.key = put.key /\ new.n = put.n
    BY <1>2, <2>2 DEF PutOk
  <2>4. puts' = (puts \ {put}) \cup {new} /\ applied' = applied + 1
    BY <1>14 DEF Apply
  <2> HIDE DEF new
  <2>5. LoopOK'
    BY <1>1, <1>14, SameLoop DEF Apply
  <2>6. srv' \in [Keys -> Nat]
    BY <1>1, <1>14, <2>2 DEF Apply, RestOK
  <2>7. puts' \subseteq PutOk
    BY <1>1, <2>3, <2>4 DEF RestOK
  <2>8. StoredIsDated'
    BY <1>1, <2>1, <2>3, <2>4 DEF RestOK, StoredIsDated
  <2>9. \A p \in puts' : p.n <= made'
    BY <1>1, <2>1, <2>2, <2>3, <2>4 DEF RestOK
  <2>10. \A p \in puts' : p.at # None => p.at <= applied'
    <3> SUFFICES ASSUME NEW p \in puts', p.at # None PROVE p.at <= applied'
      OBVIOUS
    <3>1. CASE p = new
      BY <3>1, <1>2, <2>3, <2>4
    <3>2. CASE p \in puts
      <4>1. p.at \in Nat /\ p.at <= applied
        BY <1>1, <3>2 DEF RestOK, PutOk
      <4> QED
        BY <4>1, <1>2, <2>4
    <3> QED
      BY <2>4, <3>1, <3>2
  <2>11. acked' <= applied' /\ applied' \in Nat
    BY <1>1, <1>2, <2>1, <2>4 DEF RestOK
  <2>12. RestOK'
    BY <1>1, <2>1, <2>6, <2>7, <2>8, <2>9, <2>10, <2>11 DEF RestOK
  <2> QED
    BY <2>5, <2>12
<1>15. CASE ReadState
  <2>1. UNCHANGED <<acked, again, gen, timer>> /\ poll \in Request /\ poll # None
    BY <1>1, <1>15 DEF ReadState, LoopOK, LoopTypes
  <2>2. poll' = [poll EXCEPT !.at = applied, !.says = srv]
    BY <1>15 DEF ReadState
  <2>3. poll' \in Request /\ poll'.at = applied /\ poll'.gen = poll.gen
    BY <1>1, <1>2, <2>1, <2>2 DEF Request, RestOK
  <2>4. poll' # None
    BY <2>3, NoneAssumption
  <2>5. LoopTypes' /\ LoopAge'
    BY <1>1, <2>1, <2>3 DEF LoopOK, LoopTypes, LoopAge
  <2>6. OneLoop'
    BY <1>1, <2>1, <2>4 DEF LoopOK, OneLoop
  <2>7. FlightFresh'
    BY <1>1, <2>1, <2>3 DEF FlightFresh, RestOK
  <2>8. RestOK'
    BY <1>1, <1>15, SameRest DEF ReadState
  <2> QED
    BY <2>5, <2>6, <2>7, <2>8 DEF LoopOK
<1>16. CASE HealthChanges
  <2>1. LoopOK'
    BY <1>1, <1>16, SameLoop DEF HealthChanges
  <2>2. UNCHANGED <<srv, applied, made, puts, acked, data, polled, misses, online, tries, theme, settle, debounce>>
    BY <1>16 DEF HealthChanges, server, seen, link, look
  <2>3. health' \in {"up", "broken", "down"} /\ faults' \in Nat
    BY <1>1, <1>16 DEF HealthChanges, RestOK
  <2>4. RestOK'
    BY <1>1, <2>2, <2>3 DEF RestOK, StoredIsDated
  <2> QED
    BY <2>1, <2>4
<1>17. ASSUME NEW key \in Keys, ElsewhereChanged(key) PROVE LoopOK' /\ RestOK'
  <2>1. LoopOK'
    BY <1>1, <1>17, SameLoop DEF ElsewhereChanged
  <2>2. UNCHANGED <<health, faults, puts, acked, data, polled, misses, online, tries, theme, settle, debounce>>
    BY <1>17 DEF ElsewhereChanged, seen, link, look
  <2>3. made' = made + 1 /\ applied' = applied + 1 /\ srv' \in [Keys -> Nat]
    BY <1>1, <1>2, <1>17 DEF ElsewhereChanged, RestOK
  <2>4. \A put \in puts' : (put.at # None => put.at <= applied') /\ put.n <= made'
    <3> SUFFICES ASSUME NEW put \in puts
                 PROVE  (put.at # None => put.at <= applied + 1) /\ put.n <= made + 1
      BY <2>2, <2>3
    <3>1. put.n \in Nat /\ put.n <= made /\ (put.at # None => put.at \in Nat /\ put.at <= applied)
      BY <1>1 DEF RestOK, PutOk
    <3> QED
      BY <3>1, <1>2
  <2>5. acked' <= applied' /\ debounce' <= made'
    BY <1>1, <1>2, <2>2, <2>3 DEF RestOK
  <2>6. StoredIsDated'
    BY <1>1, <2>2 DEF RestOK, StoredIsDated
  <2>7. RestOK'
    BY <1>1, <1>2, <2>2, <2>3, <2>4, <2>5, <2>6 DEF RestOK
  <2> QED
    BY <2>1, <2>7
<1> QED
  BY <1>3, <1>4, <1>5, <1>6, <1>7, <1>8, <1>9, <1>10, <1>11, <1>12, <1>13, <1>14, <1>15, <1>16, <1>17
     DEF Next, AnyAnswered, AnyFailed, AnyApplied

LEMMA LoopStays ==
  ASSUME IInv, UNCHANGED vars
  PROVE  IInv'
<1>1. LoopOK'
  BY Parts, SameLoop DEF vars
<1>2. RestOK'
  BY Parts, SameRest DEF vars
<1> QED
  BY <1>1, <1>2, Parts, PTL

\* A step of the loop shows nothing older than an acknowledged change.
LEMMA NeverBack ==
  ASSUME IInv, Next, polled' # polled
  PROVE  polled' >= acked
<1>1. PollAnswered
  BY DEF Next, PollDue, PollUnreachable, PollFailed, chooseTheme, changeRow, moveSlider,
         sliderSettles, settled, AnyAnswered, ChangeAnswered, AnyFailed, ChangeFailed,
         AnyApplied, Apply, ReadState, HealthChanges, ElsewhereChanged, seen
<1>2. poll # None /\ poll.at # None /\ poll.gen = gen /\ polled' = poll.at
  BY <1>1 DEF PollAnswered
<1> QED
  BY <1>2 DEF IInv, FlightFresh

\* A step of the loop that leaves the changes alone leaves a theme being stored.
LEMMA ThemeKept ==
  ASSUME IInv, Next, ~SlowPuts, \E put \in puts : put.key = "theme", puts' = puts
  PROVE  theme' = theme
<1>1. settle
  BY DEF IInv, StoredIsDated
<1>2. CASE chooseTheme
  <2>1. [n |-> made + 1, key |-> "theme", at |-> None] \in puts
    BY <1>2 DEF chooseTheme, Sent, Next1
  <2>2. made + 1 <= made /\ made \in Nat
    BY <2>1 DEF IInv, TypeOK
  <2> QED
    BY <2>2
<1>3. CASE PollAnswered
  BY <1>1, <1>3 DEF PollAnswered
<1>4. CASE AnyAnswered
  BY <1>4 DEF AnyAnswered, ChangeAnswered
<1> QED
  BY <1>2, <1>3, <1>4
     DEF Next, PollDue, PollUnreachable, PollFailed, changeRow, moveSlider,
         sliderSettles, settled, AnyFailed, ChangeFailed,
         AnyApplied, Apply, ReadState, HealthChanges, ElsewhereChanged, look

-----------------------------------------------------------------------------
\* The devices of the Bluetooth page (Discovery).

Choices == [dev : Devs, op : {"connect", "disconnect", "forget"}]

SearchInv ==
  /\ bonds \in [Devs -> {"no", "paired", "connected"}]
  /\ presses \in 0..MaxPresses /\ visits \in 0..MaxVisits /\ trouble \in 0..MaxTrouble
  /\ powered \in BOOLEAN /\ until \in BOOLEAN /\ stopping \in BOOLEAN /\ searching \in BOOLEAN
  /\ page \in BOOLEAN
  /\ managed \in Choices \cup {None} /\ ops \subseteq Choices
  /\ D!SearchIsHeld

LEMMA SearchBegins ==
  ASSUME D!DiscoveryAssumption, D!Init
  PROVE  SearchInv
<1>1. bonds \in [Devs -> {"no", "paired", "connected"}] /\ powered \in BOOLEAN
  BY DEF D!Init
<1>2. presses = 0 /\ visits = 0 /\ trouble = 0 /\ {MaxVisits, MaxPresses, MaxTrouble} \subseteq Nat
  BY DEF D!Init, D!DiscoveryAssumption
<1>3. presses \in 0..MaxPresses /\ visits \in 0..MaxVisits /\ trouble \in 0..MaxTrouble
  BY <1>2
<1>4. until = FALSE /\ stopping = FALSE /\ searching = FALSE /\ page = FALSE /\ managed = None /\ ops = {}
  BY DEF D!Init
<1> QED
  BY <1>1, <1>3, <1>4 DEF SearchInv, D!SearchIsHeld

LEMMA SearchMoves ==
  ASSUME D!DiscoveryAssumption, SearchInv, [D!Next]_(D!vars)
  PROVE  SearchInv'
<1> USE DEF D!DiscoveryAssumption
<1>1. CASE D!Poll \/ D!Read
  <2>1. UNCHANGED <<powered, bonds, until, stopping, searching, page, visits, managed, ops, presses, trouble>>
    BY <1>1 DEF D!Poll, D!Read, D!scan, D!sheet
  <2> QED
    BY <2>1 DEF SearchInv, D!SearchIsHeld
<1>2. CASE D!Answered
  <2>1. UNCHANGED <<powered, bonds, until, stopping, searching, page, visits, managed, ops, presses>>
    BY <1>2 DEF D!Answered, D!scan, D!sheet
  <2>2. trouble' \in 0..MaxTrouble
    BY <1>2 DEF D!Answered, D!Fails, SearchInv
  <2> QED
    BY <2>1, <2>2 DEF SearchInv, D!SearchIsHeld
<1>3. CASE D!show
  <2>1. UNCHANGED <<powered, bonds, until, stopping, searching, managed, ops, presses, trouble>>
    BY <1>3 DEF D!show, D!scan, D!sheet
  <2>2. visits' \in 0..MaxVisits /\ page' = TRUE
    BY <1>3 DEF D!show, SearchInv
  <2> QED
    BY <2>1, <2>2 DEF SearchInv, D!SearchIsHeld
<1>4. CASE D!hide
  <2>1. UNCHANGED <<powered, bonds, until, stopping, searching, visits, ops, presses, trouble>>
    BY <1>4 DEF D!hide, D!scan
  <2>2. page' = FALSE /\ managed' = None
    BY <1>4 DEF D!hide
  <2> QED
    BY <2>1, <2>2 DEF SearchInv, D!SearchIsHeld
<1>5. CASE D!renew
  <2>1. UNCHANGED <<powered, bonds, until, stopping, searching, page, visits, managed, ops, presses, trouble>>
    BY <1>5 DEF D!renew, D!Rest, D!scan, D!sheet
  <2> QED
    BY <2>1 DEF SearchInv, D!SearchIsHeld
<1>6. CASE D!post_scan
  <2>1. UNCHANGED <<powered, bonds, stopping, page, visits, managed, ops, presses, trouble>>
    BY <1>6 DEF D!post_scan, D!Rest, D!sheet
  <2>2. PICK l \in leases :
          IF l = "drop" THEN until' = FALSE /\ searching' = (searching /\ ~until)
          ELSE until' = (until \/ powered) /\ searching' = (searching \/ (~until /\ powered))
    BY <1>6 DEF D!post_scan
  <2>3. until' \in BOOLEAN /\ searching' \in BOOLEAN
    BY <2>2
  <2>4. D!SearchIsHeld'
    BY <2>1, <2>2 DEF SearchInv, D!SearchIsHeld
  <2> QED
    BY <2>1, <2>3, <2>4 DEF SearchInv
<1>7. CASE D!scan_watchdog
  <2>1. UNCHANGED <<powered, bonds, searching, page, visits, managed, ops, presses>>
    BY <1>7 DEF D!scan_watchdog, D!Rest, D!sheet
  <2>2. until' = FALSE /\ stopping' = TRUE
    BY <1>7 DEF D!scan_watchdog
  <2>3. trouble' \in 0..MaxTrouble
    BY <1>7 DEF D!scan_watchdog, D!Fails, SearchInv
  <2> QED
    BY <2>1, <2>2, <2>3 DEF SearchInv, D!SearchIsHeld
<1>8. CASE D!StopDiscovery
  <2>1. UNCHANGED <<powered, bonds, until, page, visits, managed, ops, presses, trouble>>
    BY <1>8 DEF D!StopDiscovery, D!Rest, D!sheet
  <2>2. stopping' = FALSE /\ searching' = FALSE
    BY <1>8 DEF D!StopDiscovery
  <2> QED
    BY <2>1, <2>2 DEF SearchInv, D!SearchIsHeld
<1>9. CASE D!setPower
  <2>1. UNCHANGED <<until, stopping, page, visits, managed, ops, trouble>>
    BY <1>9 DEF D!setPower, D!sheet
  <2>2. presses' \in 0..MaxPresses
    BY <1>9 DEF D!setPower, D!Press, SearchInv
  <2>5. powered' \in BOOLEAN
    BY <1>9 DEF D!setPower
  <2>3. searching' \in BOOLEAN /\ D!SearchIsHeld'
    <3>1. CASE searching' = FALSE
      BY <3>1 DEF D!SearchIsHeld
    <3>2. CASE searching' = searching
      BY <2>1, <3>2 DEF SearchInv, D!SearchIsHeld
    <3> QED
      BY <1>9, <3>1, <3>2 DEF D!setPower
  <2>4. bonds' \in [Devs -> {"no", "paired", "connected"}]
    BY <1>9 DEF D!setPower, SearchInv
  <2> QED
    BY <2>1, <2>2, <2>3, <2>4, <2>5 DEF SearchInv
<1>10. ASSUME NEW dev \in Devs, D!pair(dev) PROVE SearchInv'
  <2>1. UNCHANGED <<powered, stopping, page, visits, managed, ops, trouble>>
    BY <1>10 DEF D!pair, D!sheet
  <2>2. presses' \in 0..MaxPresses
    BY <1>10 DEF D!pair, D!Press, SearchInv
  <2>3. until' = FALSE /\ searching' = (searching /\ ~until)
    BY <1>10 DEF D!pair
  <2>4. bonds' \in [Devs -> {"no", "paired", "connected"}]
    BY <1>10 DEF D!pair, SearchInv
  <2> QED
    BY <2>1, <2>2, <2>3, <2>4 DEF SearchInv, D!SearchIsHeld
<1>11. ASSUME NEW dev \in Devs, D!manage(dev) PROVE SearchInv'
  <2>1. UNCHANGED <<powered, bonds, until, stopping, searching, page, visits, ops, trouble>>
    BY <1>11 DEF D!manage, D!scan
  <2>2. presses' \in 0..MaxPresses
    BY <1>11 DEF D!manage, D!Press, SearchInv
  <2>3. managed' \in Choices
    BY <1>11 DEF D!manage, Choices
  <2> QED
    BY <2>1, <2>2, <2>3 DEF SearchInv, D!SearchIsHeld
<1>12. CASE D!chosen
  <2>1. UNCHANGED <<powered, bonds, until, stopping, searching, page, visits, presses, trouble>>
    BY <1>12 DEF D!chosen, D!scan
  <2>2. managed' \in {managed, None} /\ (ops' = ops \/ ops' = ops \cup {managed}) /\ managed # None
    BY <1>12 DEF D!chosen
  <2> QED
    BY <2>1, <2>2 DEF SearchInv, D!SearchIsHeld
<1>13. CASE D!OpDone
  <2>1. UNCHANGED <<powered, until, stopping, searching, page, visits, managed, presses>>
    BY <1>13 DEF D!OpDone, D!scan
  <2>2. PICK o \in ops :
          /\ ops' = ops \ {o}
          /\ \/ /\ powered /\ bonds[o.dev] # "no" /\ UNCHANGED trouble
                /\ bonds' = [bonds EXCEPT ![o.dev] =
                     CASE o.op = "forget" -> "no" [] o.op = "connect" -> "connected"
                       [] o.op = "disconnect" -> "paired"]
             \/ (D!Fails \/ (UNCHANGED trouble /\ ~(powered /\ bonds[o.dev] # "no"))) /\ UNCHANGED bonds
    BY <1>13 DEF D!OpDone
  <2>3. o.dev \in Devs /\ o.op \in {"connect", "disconnect", "forget"}
    BY DEF SearchInv, Choices
  <2>4. bonds' \in [Devs -> {"no", "paired", "connected"}]
    BY <2>2, <2>3 DEF SearchInv
  <2>5. trouble' \in 0..MaxTrouble
    BY <2>2 DEF D!Fails, SearchInv
  <2> QED
    BY <2>1, <2>2, <2>4, <2>5 DEF SearchInv, D!SearchIsHeld
<1>14. CASE UNCHANGED D!vars
  <2>1. UNCHANGED <<powered, bonds, until, stopping, searching, page, visits, managed, ops, presses, trouble>>
    BY <1>14 DEF D!vars, D!scan, D!sheet
  <2> QED
    BY <2>1 DEF SearchInv, D!SearchIsHeld
<1> QED
  BY <1>1, <1>2, <1>3, <1>4, <1>5, <1>6, <1>7, <1>8, <1>9, <1>10, <1>11, <1>12, <1>13, <1>14 DEF D!Next

LEMMA SearchSays == SearchInv => D!TypeOK /\ D!SearchIsHeld
BY DEF SearchInv, D!TypeOK

-----------------------------------------------------------------------------
\* A pairing and its questions (Pairing).

PairsOk == [dev : Devs, fate : {"on", "no"}, mine : BOOLEAN]
WaitsOk == [id : Nat, dev : Devs, says : {None, "yes", "no"}]
Devices(ps) == {p.dev : p \in ps}

PairTypes ==
  /\ questions \in 0..MaxQuestions /\ given \in 0..MaxAnswers /\ lost \in 0..MaxTrouble
  /\ begun \in 0..MaxPairs
  /\ pairs \subseteq PairsOk /\ waits \subseteq WaitsOk
  /\ prompt \in B!Prompts \cup {None}

\* A call waits for the question on record,
Awaited == \A v \in waits : v.says = None => prompt # None /\ prompt.id = v.id
\* about a device that is being paired,
Asked == (prompt # None => prompt.dev \in Devices(pairs)) /\ Devices(waits) \subseteq Devices(pairs)
\* each device's in its turn,
OneWait == \A v, u \in waits : v.dev = u.dev => v = u
\* and one device after the other.
OnePair == ~Parallel => \A m, n \in Devices(pairs) : m = n
AskedHere == page = "none" => ask = None

PairInv == PairTypes /\ Awaited /\ Asked /\ OneWait /\ OnePair /\ AskedHere

LEMMA PairBegins ==
  ASSUME B!PairingAssumption, B!Init
  PROVE  PairInv
<1>1. questions = 0 /\ given = 0 /\ lost = 0 /\ begun = 0 /\ pairs = {} /\ waits = {} /\ prompt = None
      /\ ask = None
  BY DEF B!Init
<1>2. {MaxQuestions, MaxAnswers, MaxPairs, MaxTrouble} \subseteq Nat
  BY DEF B!PairingAssumption
<1>3. PairTypes
  BY <1>1, <1>2 DEF PairTypes
<1>4. Devices(pairs) = {} /\ Devices(waits) = {}
  BY <1>1 DEF Devices
<1> QED
  BY <1>1, <1>3, <1>4 DEF PairInv, Awaited, Asked, OneWait, OnePair, AskedHere

\* What becomes of a call whose prompt is dropped.
Refused(u) == IF u.says = None THEN [u EXCEPT !.says = "no"] ELSE u

LEMMA RefusedFacts ==
  ASSUME B!PairingAssumption, NEW u \in WaitsOk
  PROVE  /\ Refused(u) \in WaitsOk /\ Refused(u).says \in {"yes", "no"} /\ Refused(u).says # None
         /\ Refused(u).id = u.id /\ Refused(u).dev = u.dev
         /\ Refused(u).says = "yes" => u.says = "yes"
BY DEF WaitsOk, Refused, B!PairingAssumption

LEMMA DropIs ==
  ASSUME B!PairingAssumption, PairTypes, Awaited, NEW ws, ws \subseteq waits
  PROVE  B!Drop(ws) = {Refused(u) : u \in ws}
BY DEF B!Drop, Refused, Awaited, PairTypes, WaitsOk

LEMMA DropFacts ==
  ASSUME B!PairingAssumption, PairTypes, Awaited, OneWait, NEW ws, ws \subseteq waits
  PROVE  /\ B!Drop(ws) \subseteq WaitsOk /\ \A v \in B!Drop(ws) : v.says # None
         /\ Devices(B!Drop(ws)) \subseteq Devices(waits)
         /\ \A v, u \in B!Drop(ws) : v.dev = u.dev => v = u
<1>1. B!Drop(ws) = {Refused(u) : u \in ws} /\ ws \subseteq WaitsOk
  BY DropIs DEF PairTypes
<1>2. \A u \in ws : /\ Refused(u) \in WaitsOk /\ Refused(u).says # None
                    /\ Refused(u).dev = u.dev
  BY <1>1, RefusedFacts
<1>3. Devices(B!Drop(ws)) \subseteq Devices(waits)
  BY <1>1, <1>2 DEF Devices
<1>4. \A v, u \in B!Drop(ws) : v.dev = u.dev => v = u
  <2> SUFFICES ASSUME NEW v1 \in ws, NEW u1 \in ws, Refused(v1).dev = Refused(u1).dev
               PROVE  Refused(v1) = Refused(u1)
    BY <1>1
  <2> QED
    BY <1>2 DEF OneWait
<1> QED
  BY <1>1, <1>2, <1>3, <1>4

LEMMA FatedKeeps ==
  ASSUME pairs \subseteq PairsOk, NEW dev, NEW f \in {"on", "no"}
  PROVE  B!Fated(dev, f) \subseteq PairsOk /\ Devices(B!Fated(dev, f)) = Devices(pairs)
<1> DEFINE F(p) == IF p.dev = dev THEN [p EXCEPT !.fate = f] ELSE p
<1>1. \A p \in PairsOk : F(p) \in PairsOk /\ F(p).dev = p.dev
  BY DEF PairsOk
<1>2. B!Fated(dev, f) = {F(p) : p \in pairs}
  BY DEF B!Fated
<1> HIDE DEF F
<1> QED
  BY <1>1, <1>2 DEF Devices

\* The questions left alone, and as many devices being paired as before.
LEMMA SameQuestions ==
  ASSUME PairInv, UNCHANGED <<prompt, questions, waits>>, Devices(pairs') = Devices(pairs)
  PROVE  Awaited' /\ Asked' /\ OneWait' /\ OnePair'
BY DEF PairInv, Awaited, Asked, OneWait, OnePair

\* The prompt dropped, and calls that waited for it refused.
LEMMA Dropped ==
  ASSUME B!PairingAssumption, PairInv, UNCHANGED questions, prompt' = None,
         NEW ws, ws \subseteq waits, waits' = B!Drop(ws),
         Devices(pairs') = Devices(pairs)
         \/ (Devices(pairs') \subseteq Devices(pairs) /\ Devices(waits) \subseteq Devices(pairs'))
  PROVE  waits' \subseteq WaitsOk /\ Awaited' /\ Asked' /\ OneWait' /\ OnePair'
<1>1. /\ waits' \subseteq WaitsOk /\ \A v \in waits' : v.says # None
      /\ Devices(waits') \subseteq Devices(waits)
      /\ \A v, u \in waits' : v.dev = u.dev => v = u
  BY DropFacts DEF PairInv
<1>2. Awaited' /\ OneWait'
  BY <1>1 DEF Awaited, OneWait
<1>3. Asked' /\ OnePair'
  BY <1>1 DEF PairInv, Asked, OnePair
<1> QED
  BY <1>1, <1>2, <1>3

LEMMA RefreshHere ==
  ASSUME AskedHere, page' = page, B!refresh
  PROVE  AskedHere'
BY DEF AskedHere, B!refresh, B!render

LEMMA AsksKeeps ==
  ASSUME B!PairingAssumption, PairInv, NEW dev \in Devs, NEW kind \in B!Kinds, B!Asks(dev, kind)
  PROVE  PairInv'
<1> DEFINE again1 == prompt # None /\ prompt.dev = dev /\ prompt.kind = kind
           id     == IF again1 THEN prompt.id ELSE questions + 1
           new    == [id |-> id, dev |-> dev, says |-> None]
<1>1. /\ \E p \in pairs : p.dev = dev /\ p.fate = "on"
      /\ \A u \in waits : u.dev # dev
      /\ again1 \/ questions < MaxQuestions
      /\ questions' = IF again1 THEN questions ELSE questions + 1
      /\ prompt' = [id |-> id, dev |-> dev, kind |-> kind, entered |-> IF again1 THEN 1 ELSE 0]
      /\ waits' = IF kind = "type" THEN B!Drop(waits) ELSE B!Drop(waits) \cup {new}
      /\ UNCHANGED <<pairs, begun, page, ask, given, lost>>
  BY DEF B!Asks, B!Rest, B!here
<1>2. questions \in Nat /\ questions' \in 0..MaxQuestions
  <2>1. questions \in 0..MaxQuestions /\ MaxQuestions \in Nat
    BY DEF PairInv, PairTypes, B!PairingAssumption
  <2>2. CASE again1
    BY <1>1, <2>1, <2>2
  <2>3. CASE ~again1
    BY <1>1, <2>1, <2>3
  <2> QED
    BY <2>1, <2>2, <2>3
<1>3. id \in Nat
  <2>1. prompt # None => prompt.id \in Nat
    BY DEF PairInv, PairTypes, B!Prompts
  <2> QED
    BY <1>2, <2>1
<1> HIDE DEF again1, id
<1>4. prompt' \in B!Prompts /\ prompt'.id = id /\ prompt'.dev = dev
  BY <1>1, <1>3 DEF B!Prompts
<1>5. prompt' # None
  BY <1>4 DEF B!PairingAssumption
<1>6. new \in WaitsOk /\ new.dev = dev /\ new.id = id /\ new.says = None
  BY <1>3 DEF WaitsOk
<1>7. /\ B!Drop(waits) \subseteq WaitsOk /\ \A v \in B!Drop(waits) : v.says # None
      /\ Devices(B!Drop(waits)) \subseteq Devices(waits)
      /\ \A v, u \in B!Drop(waits) : v.dev = u.dev => v = u
  BY DropFacts DEF PairInv
<1>8. waits' \subseteq B!Drop(waits) \cup {new}
  BY <1>1
<1>9. dev \notin Devices(waits) /\ dev \in Devices(pairs) /\ Devices(pairs') = Devices(pairs)
  BY <1>1 DEF Devices
<1> HIDE DEF new
<1>10. PairTypes'
  BY <1>1, <1>2, <1>4, <1>6, <1>7, <1>8 DEF PairInv, PairTypes
<1>11. Awaited'
  BY <1>4, <1>5, <1>6, <1>7, <1>8 DEF Awaited
<1>12. Devices(waits') \subseteq Devices(waits) \cup {dev}
  BY <1>6, <1>7, <1>8 DEF Devices
<1>13. Asked' /\ OnePair'
  BY <1>4, <1>9, <1>12 DEF PairInv, Asked, OnePair
<1>14. \A v \in B!Drop(waits) : v.dev # dev
  BY <1>7, <1>9 DEF Devices
<1>15. OneWait'
  BY <1>6, <1>7, <1>8, <1>14 DEF OneWait
<1>16. AskedHere'
  BY <1>1 DEF PairInv, AskedHere
<1> QED
  BY <1>10, <1>11, <1>13, <1>15, <1>16 DEF PairInv

LEMMA SaidKeeps ==
  ASSUME B!PairingAssumption, PairInv, NEW a, NEW id, B!Said(a, id), UNCHANGED questions
  PROVE  /\ pairs' \subseteq PairsOk /\ waits' \subseteq WaitsOk /\ prompt' \in B!Prompts \cup {None}
         /\ Awaited' /\ Asked' /\ OneWait' /\ OnePair'
<1> DEFINE G(u) == IF u.id = id /\ u.says = None THEN [u EXCEPT !.says = "yes"] ELSE u
<1>0. PairTypes /\ pairs \subseteq PairsOk /\ waits \subseteq WaitsOk /\ prompt \in B!Prompts \cup {None}
  BY DEF PairInv, PairTypes
<1>1. CASE UNCHANGED <<prompt, waits, pairs>>
  BY <1>0, <1>1, SameQuestions
<1>2. CASE /\ prompt' = None /\ waits' = B!Drop(waits)
           /\ pairs' = IF prompt.kind = "type" THEN B!Fated(prompt.dev, "no") ELSE pairs
  <2>1. pairs' \subseteq PairsOk /\ Devices(pairs') = Devices(pairs)
    BY <1>0, <1>2, FatedKeeps
  <2>2. waits' \subseteq WaitsOk /\ Awaited' /\ Asked' /\ OneWait' /\ OnePair'
    BY <1>2, <2>1, Dropped
  <2> QED
    BY <1>2, <2>1, <2>2
<1>3. CASE waits' = {G(u) : u \in waits} /\ UNCHANGED <<prompt, pairs>>
  <2>1. \A u \in WaitsOk : /\ G(u) \in WaitsOk /\ G(u).dev = u.dev /\ G(u).id = u.id
                           /\ G(u).says = None => u.says = None
    BY DEF WaitsOk, B!PairingAssumption
  <2> HIDE DEF G
  <2>2. waits' \subseteq WaitsOk /\ Devices(waits') = Devices(waits)
    BY <1>0, <1>3, <2>1 DEF Devices
  <2>3. Awaited'
    BY <1>0, <1>3, <2>1 DEF PairInv, Awaited
  <2>4. OneWait'
    BY <1>0, <1>3, <2>1 DEF PairInv, OneWait
  <2>5. Asked' /\ OnePair'
    BY <1>3, <2>2 DEF PairInv, Asked, OnePair
  <2> QED
    BY <1>0, <1>3, <2>2, <2>3, <2>4, <2>5
<1> QED
  BY <1>1, <1>2, <1>3 DEF B!Said

LEMMA PairMoves ==
  ASSUME B!PairingAssumption, PairInv, [B!Next]_(B!vars)
  PROVE  PairInv'
<1>0. /\ PairTypes /\ pairs \subseteq PairsOk /\ waits \subseteq WaitsOk /\ prompt \in B!Prompts \cup {None}
      /\ AskedHere
  BY DEF PairInv, PairTypes
<1>1. CASE B!Poll \/ B!Read
  <2>1. UNCHANGED <<pairs, begun, prompt, questions, waits, page, given, lost>>
    BY <1>1 DEF B!Poll, B!Read, B!agent, B!here
  <2>2. AskedHere'
    BY <1>0, <1>1, <2>1, RefreshHere DEF B!Poll, B!Read, AskedHere
  <2>3. PairTypes'
    BY <1>0, <2>1 DEF PairTypes
  <2> QED
    BY <2>1, <2>2, <2>3, SameQuestions DEF PairInv
<1>2. CASE B!Answered
  <2>1. UNCHANGED <<pairs, begun, prompt, questions, waits, page, given>>
    BY <1>2 DEF B!Answered, B!agent, B!here
  <2>2. AskedHere'
    BY <1>2, <2>1 DEF B!Answered, B!render, AskedHere
  <2>3. lost' \in 0..MaxTrouble
    BY <1>0, <1>2 DEF B!Answered, PairTypes, B!PairingAssumption
  <2>4. PairTypes'
    BY <1>0, <2>1, <2>3 DEF PairTypes
  <2> QED
    BY <2>1, <2>2, <2>4, SameQuestions DEF PairInv
<1>3. CASE B!show
  <2>1. UNCHANGED <<pairs, begun, prompt, questions, waits, given, lost>> /\ page' = "shown"
    BY <1>3 DEF B!show, B!agent
  <2>2. AskedHere'
    BY <2>1 DEF AskedHere
  <2>3. PairTypes'
    BY <1>0, <2>1 DEF PairTypes
  <2> QED
    BY <2>1, <2>2, <2>3, SameQuestions DEF PairInv
<1>4. CASE B!hide
  <2>1. UNCHANGED <<begun, prompt, questions, waits, given, lost>> /\ ask' = None
    BY <1>4 DEF B!hide, B!agent
  <2> DEFINE H(p) == [p EXCEPT !.mine = @ /\ page' = "hidden"]
  <2>2. pairs' = {H(p) : p \in pairs}
    BY <1>4 DEF B!hide
  <2>3. \A p \in PairsOk : H(p) \in PairsOk /\ H(p).dev = p.dev
    <3> SUFFICES ASSUME NEW p \in PairsOk PROVE H(p) \in PairsOk /\ H(p).dev = p.dev
      OBVIOUS
    <3>1. H(p) = [p EXCEPT !.mine = p.mine /\ page' = "hidden"]
      BY DEF PairsOk
    <3>2. (p.mine /\ page' = "hidden") \in BOOLEAN
      OBVIOUS
    <3> QED
      BY <3>1, <3>2 DEF PairsOk
  <2> HIDE DEF H
  <2>4. pairs' \subseteq PairsOk /\ Devices(pairs') = Devices(pairs)
    BY <1>0, <2>2, <2>3 DEF Devices
  <2>5. PairTypes'
    BY <1>0, <2>1, <2>4 DEF PairTypes
  <2>6. AskedHere'
    BY <2>1 DEF AskedHere
  <2> QED
    BY <2>1, <2>4, <2>5, <2>6, SameQuestions DEF PairInv
<1>5. ASSUME NEW dev \in Devs, B!pair(dev) PROVE PairInv'
  <2> DEFINE new == [dev |-> dev, fate |-> "on", mine |-> TRUE]
  <2>1. /\ UNCHANGED <<prompt, questions, waits, page, given, lost>> /\ page = "shown"
        /\ pairs' = pairs \cup {new} /\ begun < MaxPairs /\ begun' = begun + 1
        /\ Parallel \/ pairs = {}
    BY <1>5 DEF B!pair, B!agent
  <2>2. new \in PairsOk /\ new.dev = dev
    BY DEF PairsOk
  <2> HIDE DEF new
  <2>3. begun' \in 0..MaxPairs
    BY <1>0, <2>1 DEF PairTypes, B!PairingAssumption
  <2>4. PairTypes'
    BY <1>0, <2>1, <2>2, <2>3 DEF PairTypes
  <2>5. Devices(pairs') = Devices(pairs) \cup {dev}
    BY <2>1, <2>2 DEF Devices
  <2>6. Parallel \/ Devices(pairs) = {}
    BY <2>1 DEF Devices
  <2>7. Awaited' /\ Asked' /\ OneWait' /\ OnePair'
    BY <2>1, <2>5, <2>6 DEF PairInv, Awaited, Asked, OneWait, OnePair
  <2>8. AskedHere'
    BY <2>1 DEF AskedHere
  <2> QED
    BY <2>4, <2>7, <2>8 DEF PairInv
<1>6. ASSUME NEW dev \in Devs, NEW kind \in B!Kinds, B!Asks(dev, kind) PROVE PairInv'
  BY <1>6, AsksKeeps
<1>7. ASSUME NEW u \in waits, B!wait(u) PROVE PairInv'
  <2>1. /\ UNCHANGED <<questions, begun, page, ask, given, lost>>
        /\ prompt' = None /\ waits' = B!Drop(waits \ {u})
        /\ pairs' = IF u.says = "yes" THEN pairs ELSE B!Fated(u.dev, "no")
    BY <1>7 DEF B!wait, B!Rest, B!here
  <2>2. pairs' \subseteq PairsOk /\ Devices(pairs') = Devices(pairs)
    BY <1>0, <2>1, FatedKeeps
  <2>3. waits \ {u} \subseteq waits
    OBVIOUS
  <2>4. waits' \subseteq WaitsOk /\ Awaited' /\ Asked' /\ OneWait' /\ OnePair'
    BY <2>1, <2>2, <2>3, Dropped
  <2>5. PairTypes'
    BY <1>0, <2>1, <2>2, <2>4 DEF PairTypes
  <2>6. AskedHere'
    BY <1>0, <2>1 DEF AskedHere
  <2> QED
    BY <2>4, <2>5, <2>6 DEF PairInv
<1>8. CASE B!cancel
  <2>1. /\ UNCHANGED <<questions, begun, page, ask, given, lost>>
        /\ prompt' = None /\ waits' = B!Drop(waits)
        /\ pairs' = B!Fated(prompt.dev, "no")
    BY <1>8 DEF B!cancel, B!Rest, B!here
  <2>2. pairs' \subseteq PairsOk /\ Devices(pairs') = Devices(pairs)
    BY <1>0, <2>1, FatedKeeps
  <2>3. waits' \subseteq WaitsOk /\ Awaited' /\ Asked' /\ OneWait' /\ OnePair'
    BY <2>1, <2>2, Dropped
  <2>4. PairTypes'
    BY <1>0, <2>1, <2>2, <2>3 DEF PairTypes
  <2>5. AskedHere'
    BY <1>0, <2>1 DEF AskedHere
  <2> QED
    BY <2>3, <2>4, <2>5 DEF PairInv
<1>9. ASSUME NEW p \in pairs, \A u \in waits : u.dev # p.dev, pairs' = pairs \ {p},
             IF prompt # None /\ prompt.dev = p.dev THEN prompt' = None /\ waits' = B!Drop(waits)
             ELSE UNCHANGED <<prompt, waits>>,
             B!refresh, UNCHANGED <<begun, questions, page, given, lost>>
      PROVE  PairInv'
  <2>1. pairs' \subseteq PairsOk /\ Devices(pairs') \subseteq Devices(pairs)
    BY <1>0, <1>9 DEF Devices
  <2>2. \A n \in Devices(pairs) : n = p.dev \/ n \in Devices(pairs')
    BY <1>9 DEF Devices
  <2>3. p.dev \notin Devices(waits)
    BY <1>9 DEF Devices
  <2>4. Devices(waits) \subseteq Devices(pairs')
    BY <2>2, <2>3 DEF PairInv, Asked
  <2>5. waits' \subseteq WaitsOk /\ Awaited' /\ Asked' /\ OneWait' /\ OnePair' /\ prompt' \in {prompt, None}
    <3>1. CASE prompt # None /\ prompt.dev = p.dev
      BY <1>9, <2>1, <2>4, <3>1, Dropped
    <3>2. CASE ~(prompt # None /\ prompt.dev = p.dev)
      <4>1. UNCHANGED <<prompt, waits>>
        BY <1>9, <3>2
      <4>2. Asked'
        BY <2>2, <2>4, <3>2, <4>1 DEF PairInv, Asked
      <4>3. OnePair'
        BY <2>1 DEF PairInv, OnePair
      <4>4. Awaited' /\ OneWait'
        BY <4>1 DEF PairInv, Awaited, OneWait
      <4> QED
        BY <1>0, <4>1, <4>2, <4>3, <4>4
    <3> QED
      BY <3>1, <3>2
  <2>6. PairTypes'
    BY <1>0, <1>9, <2>1, <2>5 DEF PairTypes
  <2>7. AskedHere'
    BY <1>0, <1>9, RefreshHere
  <2> QED
    BY <2>5, <2>6, <2>7 DEF PairInv
<1>10. CASE B!PairEnds
  BY <1>9, <1>10 DEF B!PairEnds
<1>11. CASE B!answer
  <2>1. UNCHANGED <<pairs, begun, prompt, questions, waits, lost>> /\ ask' = None
    BY <1>11 DEF B!answer, B!agent
  <2>2. given' \in 0..MaxAnswers
    BY <1>0, <1>11 DEF B!answer, PairTypes, B!PairingAssumption
  <2>3. PairTypes' /\ AskedHere'
    BY <1>0, <2>1, <2>2 DEF PairTypes, AskedHere
  <2> QED
    BY <2>1, <2>3, SameQuestions DEF PairInv
<1>12. CASE B!AnswerPosted
  <2>1. PICK a \in answers :
          /\ \/ B!post_prompt(a) /\ UNCHANGED lost
             \/ lost < MaxTrouble /\ lost' = lost + 1 /\ UNCHANGED <<prompt, waits, pairs>>
          /\ B!refresh
          /\ UNCHANGED <<begun, questions, page, given>>
    BY <1>12 DEF B!AnswerPosted, B!here
  <2>2. /\ pairs' \subseteq PairsOk /\ waits' \subseteq WaitsOk /\ prompt' \in B!Prompts \cup {None}
        /\ Awaited' /\ Asked' /\ OneWait' /\ OnePair'
    <3>1. CASE UNCHANGED <<prompt, waits, pairs>>
      BY <1>0, <2>1, <3>1, SameQuestions
    <3>2. CASE B!Said(a, a.id)
      BY <2>1, <3>2, SaidKeeps
    <3> QED
      BY <2>1, <3>1, <3>2 DEF B!post_prompt
  <2>3. lost' \in 0..MaxTrouble
    BY <1>0, <2>1 DEF PairTypes, B!PairingAssumption
  <2>4. PairTypes'
    BY <1>0, <2>1, <2>2, <2>3 DEF PairTypes
  <2>5. AskedHere'
    BY <1>0, <2>1, RefreshHere
  <2> QED
    BY <2>2, <2>4, <2>5 DEF PairInv
<1>13. CASE UNCHANGED B!vars
  <2>1. UNCHANGED <<pairs, begun, prompt, questions, waits, page, given, lost, ask>>
    BY <1>13 DEF B!vars, B!agent, B!here
  <2>2. PairTypes' /\ AskedHere'
    BY <1>0, <2>1 DEF PairTypes, AskedHere
  <2> QED
    BY <2>1, <2>2, SameQuestions DEF PairInv
<1> QED
  BY <1>1, <1>2, <1>3, <1>4, <1>5, <1>6, <1>7, <1>8, <1>10, <1>11, <1>12, <1>13
     DEF B!Next, B!SomeWait

LEMMA PairSays ==
  ASSUME PairInv
  PROVE  B!PairingSound
<1>1. B!TypeOK
  BY DEF PairInv, PairTypes, B!TypeOK, PairsOk
<1>2. prompt # None => \E p \in pairs : p.dev = prompt.dev
  BY DEF PairInv, Asked, Devices
<1> QED
  BY <1>1, <1>2 DEF PairInv, Awaited, AskedHere, B!PairingSound

\* Only its own answer lets a device in.
LEMMA AcceptedFor ==
  ASSUME B!PairingAssumption, PairInv, B!Next
  PROVE  B!AcceptedIsAsked
<1> SUFFICES ASSUME NEW u \in waits, NEW v \in waits', u.id = v.id, u.dev = v.dev, u.says = None, v.says = "yes"
             PROVE  \E a \in answers : a.id = u.id /\ a.says # "no"
  BY DEF B!AcceptedIsAsked
<1>0. PairTypes /\ Awaited /\ OneWait /\ waits \subseteq WaitsOk /\ None \notin {"yes", "no"}
  BY DEF PairInv, PairTypes, B!PairingAssumption
<1>1. v \notin waits
  BY <1>0 DEF OneWait
<1>2. ASSUME NEW ws, ws \subseteq waits PROVE v \notin B!Drop(ws)
  <2> SUFFICES ASSUME NEW x \in ws, v = Refused(x) PROVE FALSE
    BY <1>0, <1>2, DropIs
  <2>1. x \in waits /\ x \in WaitsOk
    BY <1>0, <1>2
  <2>2. x.dev = u.dev /\ x.says = "yes"
    BY <2>1, RefusedFacts
  <2> QED
    BY <1>0, <2>1, <2>2 DEF OneWait
<1>3. waits' # waits /\ \A ws \in SUBSET waits : waits' # B!Drop(ws)
  BY <1>1, <1>2
<1>4. ASSUME NEW dev \in Devs, NEW kind \in B!Kinds, B!Asks(dev, kind) PROVE FALSE
  <2>1. PICK i : waits' \subseteq B!Drop(waits) \cup {[id |-> i, dev |-> dev, says |-> None]}
    BY <1>4 DEF B!Asks
  <2>2. v = [id |-> i, dev |-> dev, says |-> None]
    BY <1>2, <2>1
  <2> QED
    BY <1>0, <2>2
<1>5. ~B!SomeWait /\ ~B!cancel /\ ~B!PairEnds
  <2>1. \A x \in waits : ~B!wait(x)
    <3> SUFFICES ASSUME NEW x \in waits, waits' = B!Drop(waits \ {x}) PROVE FALSE
      BY DEF B!wait
    <3> QED
      BY <1>3
  <2>2. waits' # B!Drop(waits)
    BY <1>3
  <2>3. ~B!cancel
    BY <2>2 DEF B!cancel
  <2>4. ~B!PairEnds
    BY <1>3, <2>2 DEF B!PairEnds
  <2> QED
    BY <2>1, <2>3, <2>4 DEF B!SomeWait
<1>6. B!AnswerPosted
  BY <1>3, <1>4, <1>5 DEF B!Next, B!Poll, B!Read, B!Answered, B!show, B!hide, B!pair, B!answer, B!agent
<1>7. PICK a \in answers : B!post_prompt(a) \/ UNCHANGED waits
  BY <1>6 DEF B!AnswerPosted
<1>8. B!Said(a, a.id)
  BY <1>3, <1>7 DEF B!post_prompt
<1>9. a.says # "no" /\ waits' = {IF x.id = a.id /\ x.says = None THEN [x EXCEPT !.says = "yes"] ELSE x : x \in waits}
  BY <1>3, <1>8 DEF B!Said
<1>10. PICK x \in waits : v = IF x.id = a.id /\ x.says = None THEN [x EXCEPT !.says = "yes"] ELSE x
  BY <1>9
<1>11. x.id = a.id /\ v.id = x.id
  BY <1>0, <1>1, <1>10 DEF WaitsOk
<1> QED
  BY <1>9, <1>11

\* With one pairing at a time, a question that waits is of the device being paired, and is
\* the only one.
LEMMA OneAtATime ==
  ASSUME PairInv, ~Parallel, NEW u \in waits
  PROVE  waits = {u} /\ \A p \in pairs : p.dev = u.dev
<1>1. \A x \in waits : x.dev = u.dev
  BY DEF PairInv, Asked, OnePair, Devices
<1>2. \A p \in pairs : p.dev = u.dev
  BY DEF PairInv, Asked, OnePair, Devices
<1> QED
  BY <1>1, <1>2 DEF PairInv, OneWait

LEMMA RefusedFor ==
  ASSUME B!PairingAssumption, PairInv, ~Parallel, B!Next
  PROVE  B!RefusedIsDeclined
<1> SUFFICES ASSUME NEW u \in waits, NEW v \in waits', u.id = v.id, u.dev = v.dev, u.says = None, v.says = "no"
             PROVE  (\E a \in answers : a.id = u.id /\ a.says = "no") \/ pairs' = B!Fated(u.dev, "no")
  BY DEF B!RefusedIsDeclined
<1>0. PairTypes /\ Awaited /\ OneWait /\ waits \subseteq WaitsOk /\ None \notin {"yes", "no"}
  BY DEF PairInv, PairTypes, B!PairingAssumption
<1>1. waits' # waits /\ waits = {u} /\ \A p \in pairs : p.dev = u.dev
  BY <1>0, OneAtATime DEF OneWait
<1>2. prompt # None /\ prompt.id = u.id /\ prompt.dev = u.dev
  <2>1. prompt # None /\ prompt.id = u.id
    BY <1>0 DEF Awaited
  <2>2. \E p \in pairs : p.dev = prompt.dev
    BY <2>1 DEF PairInv, Asked, Devices
  <2> QED
    BY <1>1, <2>1, <2>2
<1>3. ASSUME NEW dev \in Devs, NEW kind \in B!Kinds, B!Asks(dev, kind) PROVE FALSE
  BY <1>1, <1>3 DEF B!Asks
<1>4. ~B!SomeWait
  <2> SUFFICES ASSUME NEW x \in waits, B!wait(x) PROVE FALSE
    BY DEF B!SomeWait
  <2>1. waits' = B!Drop({})
    BY <1>1 DEF B!wait
  <2>2. B!Drop({}) = {}
    BY DEF B!Drop
  <2> QED
    BY <2>1, <2>2
<1>5. ~B!PairEnds
  BY <1>1 DEF B!PairEnds
<1>6. CASE B!cancel
  BY <1>2, <1>6 DEF B!cancel
<1>7. CASE B!AnswerPosted
  <2>1. PICK a \in answers : B!post_prompt(a) \/ UNCHANGED waits
    BY <1>7 DEF B!AnswerPosted
  <2>2. B!Said(a, a.id) /\ a.id = u.id
    BY <1>1, <1>2, <2>1 DEF B!post_prompt
  <2>3. a.says = "no"
    <3> SUFFICES ASSUME waits' = {IF x.id = a.id /\ x.says = None THEN [x EXCEPT !.says = "yes"] ELSE x : x \in waits}
                 PROVE  FALSE
      BY <1>1, <2>2 DEF B!Said
    <3>1. v = [u EXCEPT !.says = "yes"]
      BY <1>1, <2>2
    <3>2. v.says = "yes"
      BY <1>0, <3>1 DEF WaitsOk
    <3> QED
      BY <3>2
  <2> QED
    BY <2>2, <2>3
<1> QED
  BY <1>1, <1>3, <1>4, <1>5, <1>6, <1>7
     DEF B!Next, B!Poll, B!Read, B!Answered, B!show, B!hide, B!pair, B!answer, B!agent

LEMMA NoAnswerWaits ==
  ASSUME B!PairingAssumption, PairInv, UNCHANGED B!vars
  PROVE  B!AcceptedIsAsked /\ B!RefusedIsDeclined
<1>1. waits' = waits /\ OneWait /\ None \notin {"yes", "no"}
  BY DEF PairInv, B!vars, B!agent, B!PairingAssumption
<1> QED
  BY <1>1 DEF OneWait, B!AcceptedIsAsked, B!RefusedIsDeclined

-----------------------------------------------------------------------------
\* Wi-Fi and the hotspot (Wireless).

Settings  == [name : Int, band : Int]
StartArgs == [name : Int, band : Int, start : BOOLEAN, sets : SUBSET {"name", "band"}]
OpsOk ==
  [op : {"radio"}, arg : BOOLEAN] \cup [op : {"join", "forget"}, arg : Aps]
  \cup [op : {"disconnect", "stop", "resume"}, arg : {None}] \cup [op : {"start"}, arg : StartArgs]
StopRadio == <<W!Op("stop", None), W!Op("radio", TRUE)>>
Todos     == {<<o>> : o \in OpsOk} \cup {StopRadio}
QuietAsks == {"settings", "setUp", "overWifi"}
AskNames  == QuietAsks \cup {"overHotspot", "sheet", "forget", "password"}
FlowsOk   == [id : Nat, asks : Seq(AskNames), todo : Todos, typing : BOOLEAN]

Meaning(a) == [name |-> a.name, band |-> a.band]
IsStart(f) == Head(f.todo).op = "start"

WirTypes ==
  /\ radio \in BOOLEAN /\ hot \in BOOLEAN /\ joined \in Aps \cup {None} /\ saved \subseteq Aps
  /\ presses \in 0..MaxPresses /\ trouble \in 0..MaxTrouble
  /\ settings \in Settings \cup {None} /\ meant \in Settings \cup {None}
  /\ flows \subseteq FlowsOk

\* One change of the settings at a time;
StartsOk ==
  /\ \A f \in flows : IsStart(f) => ~f.typing /\ f.asks \in Seq(QuietAsks)
  /\ \A f, g \in flows : IsStart(f) /\ IsStart(g) => f = g
\* one that is still asked about is alone, and sends along what is meant;
AskedOk ==
  \A f \in flows : IsStart(f) /\ f.asks # <<>> =>
    flows = {f} /\ W!Chosen(Head(f.todo).arg) = Meaning(Head(f.todo).arg)
\* one that was decided on is what is meant;
DecidedOk ==
  \A f \in flows : IsStart(f) /\ f.asks = <<>> => meant = Meaning(Head(f.todo).arg)
\* and without one there is what was meant.
SettledOk == (\A f \in flows : IsStart(f) => f.asks # <<>>) => settings = meant

WirInv == WirTypes /\ StartsOk /\ AskedOk /\ DecidedOk /\ SettledOk

LEMMA WirBegins ==
  ASSUME W!WirelessAssumption, W!Init
  PROVE  WirInv
<1>1. radio \in BOOLEAN /\ hot \in BOOLEAN /\ joined \in Aps \cup {None} /\ saved \subseteq Aps
  BY DEF W!Init
<1>2. presses \in 0..MaxPresses /\ trouble \in 0..MaxTrouble
  BY DEF W!Init, W!WirelessAssumption
<1>3. settings \in Settings \cup {None} /\ meant = settings /\ flows = {}
  BY DEF W!Init, Settings
<1> QED
  BY <1>1, <1>2, <1>3 DEF WirInv, WirTypes, StartsOk, AskedOk, DecidedOk, SettledOk

LEMMA TwoInARow ==
  ASSUME NEW x, NEW y
  PROVE  Head(<<x, y>>) = x /\ Tail(<<x, y>>) = <<y>> /\ Len(<<x, y>>) = 2 /\ Head(<<y>>) = y
<1>1. Head(<<x, y>>) = x
  OBVIOUS
<1>2. Tail(<<x, y>>) = <<y>>
  OBVIOUS
<1> QED
  BY <1>1, <1>2

LEMMA TodoFacts ==
  ASSUME NEW t \in Todos
  PROVE  /\ Head(t) \in OpsOk
         /\ Len(t) = 1 \/ (Len(t) # 1 /\ Tail(t) \in Todos /\ Head(Tail(t)).op = "radio" /\ Head(t).op = "stop")
<1>1. ASSUME NEW o \in OpsOk, t = <<o>> PROVE Head(t) \in OpsOk /\ Len(t) = 1
  BY <1>1
<1>2. CASE t = StopRadio
  <2>1. W!Op("stop", None) \in OpsOk /\ W!Op("radio", TRUE) \in OpsOk
    BY DEF W!Op, OpsOk
  <2>2. Head(t) = W!Op("stop", None) /\ Tail(t) = <<W!Op("radio", TRUE)>> /\ Len(t) = 2
    BY <1>2, TwoInARow DEF StopRadio
  <2>3. Tail(t) \in Todos /\ Head(Tail(t)) = W!Op("radio", TRUE)
    BY <2>1, <2>2, TwoInARow DEF Todos
  <2>4. W!Op("radio", TRUE).op = "radio" /\ W!Op("stop", None).op = "stop"
    BY DEF W!Op
  <2> QED
    BY <2>1, <2>2, <2>3, <2>4
<1> QED
  BY <1>1, <1>2 DEF Todos

\* What an order is about.
LEMMA OpFacts ==
  ASSUME NEW o \in OpsOk
  PROVE  /\ o.op \in {"radio", "join", "forget", "disconnect", "stop", "resume", "start"}
         /\ o.op = "radio" => o.arg \in BOOLEAN
         /\ o.op \in {"join", "forget"} => o.arg \in Aps
         /\ o.op = "start" => o.arg \in StartArgs
BY DEF OpsOk

LEMMA MeaningIs ==
  ASSUME NEW a \in StartArgs
  PROVE  Meaning(a) \in Settings
BY DEF StartArgs, Settings, Meaning

\* A press that changes no settings.
LEMMA PressKeeps ==
  ASSUME W!WirelessAssumption, WirInv, NEW asks \in Seq(AskNames), NEW todo \in Todos,
         W!Press(asks, todo), Head(todo).op # "start"
  PROVE  WirInv'
<1> DEFINE new == [id |-> presses + 1, asks |-> asks, todo |-> todo, typing |-> FALSE]
<1>1. /\ \A f \in flows : f.asks = <<>>
      /\ presses < MaxPresses /\ presses' = presses + 1 /\ flows' = flows \cup {new} /\ meant' = meant
      /\ UNCHANGED <<radio, hot, joined, saved, settings, trouble>>
  BY DEF W!Press, W!Free, W!Decide, W!card
<1>2. presses \in Nat /\ presses' \in 0..MaxPresses
  BY <1>1 DEF WirInv, WirTypes, W!WirelessAssumption
<1>3. new \in FlowsOk /\ ~IsStart(new)
  BY <1>2 DEF FlowsOk, IsStart
<1> HIDE DEF new
<1>4. WirTypes'
  BY <1>1, <1>2, <1>3 DEF WirInv, WirTypes
<1>5. \A f \in flows' : IsStart(f) => f \in flows /\ f.asks = <<>>
  BY <1>1, <1>3
<1>6. StartsOk' /\ AskedOk'
  BY <1>5 DEF WirInv, StartsOk, AskedOk
<1>7. DecidedOk' /\ SettledOk'
  BY <1>1, <1>3, <1>5 DEF WirInv, DecidedOk, SettledOk
<1> QED
  BY <1>4, <1>6, <1>7 DEF WirInv

\* A press that does, on a page that shows what there is.
LEMMA StartKeeps ==
  ASSUME W!WirelessAssumption, WirInv, NEW asks \in Seq(QuietAsks), NEW a \in StartArgs,
         flows = {}, W!Chosen(a) = Meaning(a), W!Press(asks, <<W!Op("start", a)>>)
  PROVE  WirInv'
<1> DEFINE todo == <<W!Op("start", a)>>
           new  == [id |-> presses + 1, asks |-> asks, todo |-> todo, typing |-> FALSE]
<1>0. W!Op("start", a) \in OpsOk /\ W!Op("start", a).op = "start" /\ W!Op("start", a).arg = a
  BY DEF W!Op, OpsOk
<1>1. todo \in Todos /\ Head(todo).op = "start" /\ Head(todo).arg = a
  BY <1>0 DEF Todos
<1> HIDE DEF todo
<1>2. /\ presses < MaxPresses /\ presses' = presses + 1 /\ flows' = {new}
      /\ meant' = IF asks # <<>> THEN meant ELSE Meaning(a)
      /\ UNCHANGED <<radio, hot, joined, saved, settings, trouble>>
  BY <1>1 DEF W!Press, W!Decide, W!card, todo
<1>3. presses \in Nat /\ presses' \in 0..MaxPresses
  BY <1>2 DEF WirInv, WirTypes, W!WirelessAssumption
<1>4. asks \in Seq(AskNames)
  BY DEF AskNames
<1>5. /\ new \in FlowsOk /\ IsStart(new) /\ new.asks = asks /\ new.typing = FALSE
      /\ Head(new.todo).arg = a
  BY <1>1, <1>3, <1>4 DEF FlowsOk, IsStart
<1> HIDE DEF new
<1>6. settings = meant
  BY DEF WirInv, SettledOk
<1>7. meant' \in Settings \cup {None}
  BY <1>2, MeaningIs DEF WirInv, WirTypes
<1>8. WirTypes'
  BY <1>2, <1>3, <1>5, <1>7 DEF WirInv, WirTypes
<1>9. StartsOk'
  BY <1>2, <1>5 DEF StartsOk
<1>10. AskedOk'
  <2>1. asks # <<>> => W!Chosen(a)' = Meaning(a)
    BY <1>2 DEF W!Chosen
  <2> QED
    BY <1>2, <1>5, <2>1 DEF AskedOk, Meaning
<1>11. DecidedOk' /\ SettledOk'
  BY <1>2, <1>5, <1>6 DEF DecidedOk, SettledOk, Meaning
<1> QED
  BY <1>8, <1>9, <1>10, <1>11 DEF WirInv

\* The rest of the model leaves what the invariant is about.
LEMMA SameFlows ==
  ASSUME WirInv, UNCHANGED <<radio, hot, joined, saved, settings, presses, trouble, meant, flows>>
  PROVE  WirInv'
<1>1. WirTypes' /\ StartsOk'
  BY DEF WirInv, WirTypes, StartsOk
<1>2. AskedOk' /\ DecidedOk' /\ SettledOk'
  BY DEF WirInv, AskedOk, DecidedOk, SettledOk, W!Chosen
<1> QED
  BY <1>1, <1>2 DEF WirInv

\* The questions, as sequences.
LEMMA AsksAre ==
  /\ <<>> \in Seq(AskNames) /\ <<"overHotspot">> \in Seq(AskNames) /\ <<"sheet">> \in Seq(AskNames)
  /\ <<"sheet", "forget">> \in Seq(AskNames) /\ <<"password">> \in Seq(AskNames)
  /\ <<>> \in Seq(QuietAsks) /\ <<"settings">> \in Seq(QuietAsks)
  /\ W!OverWifi \in Seq(QuietAsks) /\ W!OverWifi \in Seq(AskNames)
  /\ <<"setUp">> \o W!OverWifi \in Seq(QuietAsks) /\ <<"setUp">> \o W!OverWifi # <<>>
<1>1. /\ <<>> \in Seq(AskNames) /\ <<"overHotspot">> \in Seq(AskNames) /\ <<"sheet">> \in Seq(AskNames)
      /\ <<"sheet", "forget">> \in Seq(AskNames) /\ <<"password">> \in Seq(AskNames)
  BY DEF AskNames, QuietAsks
<1>2. /\ <<>> \in Seq(QuietAsks) /\ <<"settings">> \in Seq(QuietAsks) /\ <<"setUp">> \in Seq(QuietAsks)
      /\ <<"overWifi">> \in Seq(QuietAsks) /\ <<"overWifi">> \in Seq(AskNames)
  BY DEF QuietAsks, AskNames
<1>3. W!OverWifi \in Seq(QuietAsks) /\ W!OverWifi \in Seq(AskNames)
  BY <1>1, <1>2 DEF W!OverWifi
<1>4. <<"setUp">> \o W!OverWifi \in Seq(QuietAsks)
  BY <1>2, <1>3, ConcatProperties
<1>5. Len(<<"setUp">> \o W!OverWifi) = 1 + Len(W!OverWifi) /\ Len(W!OverWifi) \in Nat
  BY <1>2, <1>3, ConcatProperties, LenProperties
<1>6. <<"setUp">> \o W!OverWifi # <<>>
  BY <1>5
<1> QED
  BY <1>1, <1>2, <1>3, <1>4, <1>6

LEMMA TodosAre ==
  /\ \A v \in BOOLEAN : <<W!Op("radio", v)>> \in Todos
  /\ \A ap \in Aps : <<W!Op("join", ap)>> \in Todos /\ <<W!Op("forget", ap)>> \in Todos
  /\ <<W!Op("disconnect", None)>> \in Todos /\ <<W!Op("resume", None)>> \in Todos
  /\ <<W!Op("stop", None)>> \in Todos
  /\ StopRadio \in Todos
BY DEF Todos, OpsOk, W!Op

LEMMA HeadsAre ==
  ASSUME NEW o, NEW v
  PROVE  Head(<<W!Op(o, v)>>).op = o /\ Head(<<W!Op(o, v)>>).arg = v
<1>1. W!Op(o, v).op = o /\ W!Op(o, v).arg = v
  BY DEF W!Op
<1>2. Head(<<W!Op(o, v)>>) = W!Op(o, v)
  BY TwoInARow
<1> QED
  BY <1>1, <1>2

LEMMA RadioPressed ==
  ASSUME W!WirelessAssumption, WirInv, W!setRadio
  PROVE  WirInv'
<1>1. ASSUME NEW v \in BOOLEAN, W!Press(<<>>, <<W!Op("radio", v)>>) PROVE WirInv'
  <2>1. <<W!Op("radio", v)>> \in Todos
    BY TodosAre
  <2>2. Head(<<W!Op("radio", v)>>).op # "start"
    BY HeadsAre
  <2>3. <<>> \in Seq(AskNames)
    BY AsksAre
  <2> QED
    BY <1>1, <2>1, <2>2, <2>3, PressKeeps
<1>3. CASE W!Press(<<"overHotspot">>, <<W!Op("stop", None), W!Op("radio", TRUE)>>)
  <2>1. W!Press(<<"overHotspot">>, StopRadio)
    BY <1>3 DEF StopRadio
  <2>2. Head(StopRadio) = W!Op("stop", None)
    BY TwoInARow DEF StopRadio
  <2>3. Head(StopRadio).op # "start"
    BY <2>2 DEF W!Op
  <2>4. StopRadio \in Todos
    BY TodosAre
  <2>5. <<"overHotspot">> \in Seq(AskNames)
    BY AsksAre
  <2> QED
    BY <2>1, <2>3, <2>4, <2>5, PressKeeps
<1> QED
  BY <1>1, <1>3 DEF W!setRadio

LEMMA NetworkChosen ==
  ASSUME W!WirelessAssumption, WirInv, NEW ap \in Aps, W!choose(ap)
  PROVE  WirInv'
<1>1. CASE W!Press(<<"sheet">>, <<W!Op("disconnect", None)>>)
  <2>1. <<W!Op("disconnect", None)>> \in Todos
    BY TodosAre
  <2>2. Head(<<W!Op("disconnect", None)>>).op # "start"
    BY HeadsAre
  <2>3. <<"sheet">> \in Seq(AskNames)
    BY AsksAre
  <2> QED
    BY <1>1, <2>1, <2>2, <2>3, PressKeeps
<1>2. CASE W!Press(<<"sheet", "forget">>, <<W!Op("forget", ap)>>)
  <2>1. <<W!Op("forget", ap)>> \in Todos
    BY TodosAre
  <2>2. Head(<<W!Op("forget", ap)>>).op # "start"
    BY HeadsAre
  <2>3. <<"sheet", "forget">> \in Seq(AskNames)
    BY AsksAre
  <2> QED
    BY <1>2, <2>1, <2>2, <2>3, PressKeeps
<1>3. CASE W!Press(<<>>, <<W!Op("join", ap)>>)
  <2>1. <<W!Op("join", ap)>> \in Todos
    BY TodosAre
  <2>2. Head(<<W!Op("join", ap)>>).op # "start"
    BY HeadsAre
  <2>3. <<>> \in Seq(AskNames)
    BY AsksAre
  <2> QED
    BY <1>3, <2>1, <2>2, <2>3, PressKeeps
<1>4. CASE W!Press(<<"password">>, <<W!Op("join", ap)>>)
  <2>1. <<W!Op("join", ap)>> \in Todos
    BY TodosAre
  <2>2. Head(<<W!Op("join", ap)>>).op # "start"
    BY HeadsAre
  <2>3. <<"password">> \in Seq(AskNames)
    BY AsksAre
  <2> QED
    BY <1>4, <2>1, <2>2, <2>3, PressKeeps
<1> QED
  BY <1>1, <1>2, <1>3, <1>4 DEF W!choose

\* A page that shows what there is, and nothing under way: its settings are the ones meant.
LEMMA CalmIs ==
  ASSUME WirInv, ~Hasty, W!Calm
  PROVE  /\ flows = {} /\ settings = meant /\ spot.settings = settings /\ spot.active = hot
         /\ hot \in BOOLEAN /\ settings \in Settings \cup {None}
<1>1. spot = W!OfSpot /\ flows = {}
  BY DEF W!Calm
<1>2. settings = meant
  BY <1>1 DEF WirInv, SettledOk
<1> QED
  BY <1>1, <1>2 DEF WirInv, WirTypes, W!OfSpot

LEMMA TurnedOn ==
  ASSUME W!WirelessAssumption, WirInv, ~Hasty, W!turnOn
  PROVE  WirInv'
<1>1. CASE W!Press(W!OverWifi, <<W!Op("resume", None)>>)
  <2>1. <<W!Op("resume", None)>> \in Todos
    BY TodosAre
  <2>2. Head(<<W!Op("resume", None)>>).op # "start"
    BY HeadsAre
  <2>3. W!OverWifi \in Seq(AskNames)
    BY AsksAre
  <2> QED
    BY <1>1, <2>1, <2>2, <2>3, PressKeeps
<1>2. CASE spot.settings = None /\ W!Calm /\ W!Press(<<"setUp">> \o W!OverWifi, <<W!First>>)
  <2> DEFINE a == [name |-> 0, band |-> 0, start |-> TRUE, sets |-> {"name", "band"}]
  <2>1. a \in StartArgs /\ W!First = W!Op("start", a)
    BY DEF StartArgs, W!First
  <2>2. W!Chosen(a) = Meaning(a)
    BY DEF W!Chosen, Meaning
  <2> HIDE DEF a
  <2> QED
    BY <1>2, <2>1, <2>2, AsksAre, CalmIs, StartKeeps
<1> QED
  BY <1>1, <1>2 DEF W!turnOn

LEMMA TurnedOff ==
  ASSUME W!WirelessAssumption, WirInv, W!turnOff
  PROVE  WirInv'
<1>1. CASE W!Press(<<>>, <<W!Op("stop", None)>>)
  <2>1. <<W!Op("stop", None)>> \in Todos
    BY TodosAre
  <2>2. Head(<<W!Op("stop", None)>>).op # "start"
    BY HeadsAre
  <2>3. <<>> \in Seq(AskNames)
    BY AsksAre
  <2> QED
    BY <1>1, <2>1, <2>2, <2>3, PressKeeps
<1> QED
  BY <1>1 DEF W!turnOff

LEMMA Edited ==
  ASSUME W!WirelessAssumption, WirInv, ~Hasty, W!edit \/ W!setBand
  PROVE  WirInv'
<1>1. W!Calm /\ spot.settings # None
  BY DEF W!edit, W!setBand, W!change
<1>2. /\ flows = {} /\ settings = meant /\ spot.settings = settings /\ spot.active \in BOOLEAN
      /\ settings \in Settings /\ meant # None
  BY <1>1, CalmIs
<1>3. presses + 1 \in Int /\ 1 - settings.band \in Int /\ settings.name \in Int /\ settings.band \in Int
  <2>1. presses \in Int /\ settings.name \in Int /\ settings.band \in Int
    BY <1>2 DEF WirInv, WirTypes, Settings
  <2> QED
    BY <2>1
<1>4. CASE W!edit
  <2> DEFINE a == [name |-> presses + 1, band |-> settings.band, start |-> spot.active, sets |-> {"name"}]
             s == [settings EXCEPT !.name = presses + 1]
  <2>1. s.name = presses + 1 /\ s.band = settings.band
    BY <1>2 DEF Settings
  <2>2. W!Press(<<"settings">>, <<W!Op("start", [name |-> s.name, band |-> s.band, start |-> spot.active, sets |-> {"name"}])>>)
    BY <1>2, <1>4 DEF W!edit, W!change
  <2>3. W!Press(<<"settings">>, <<W!Op("start", a)>>)
    BY <2>1, <2>2
  <2>4. a \in StartArgs /\ W!Chosen(a) = Meaning(a)
    BY <1>2, <1>3 DEF StartArgs, W!Chosen, Meaning
  <2> HIDE DEF a
  <2> QED
    BY <1>2, <2>3, <2>4, AsksAre, StartKeeps
<1>5. CASE W!setBand
  <2> DEFINE a == [name |-> settings.name, band |-> 1 - settings.band, start |-> spot.active, sets |-> {"band"}]
             s == [settings EXCEPT !.band = 1 - @]
  <2>1. s.name = settings.name /\ s.band = 1 - settings.band
    BY <1>2 DEF Settings
  <2>2. W!Press(<<>>, <<W!Op("start", [name |-> s.name, band |-> s.band, start |-> spot.active, sets |-> {"band"}])>>)
    BY <1>2, <1>5 DEF W!setBand, W!change
  <2>3. W!Press(<<>>, <<W!Op("start", a)>>)
    BY <2>1, <2>2
  <2>4. a \in StartArgs /\ W!Chosen(a) = Meaning(a)
    BY <1>2, <1>3 DEF StartArgs, W!Chosen, Meaning
  <2> HIDE DEF a
  <2> QED
    BY <1>2, <2>3, <2>4, AsksAre, StartKeeps
<1> QED
  BY <1>4, <1>5

\* A step that begins no change of the settings and ends none that was decided on.
LEMMA StartsStay ==
  ASSUME WirInv, UNCHANGED <<settings, meant>>,
         \A f \in flows' : IsStart(f) => f \in flows /\ f.asks = <<>>,
         \A f \in flows : IsStart(f) /\ f.asks = <<>> => f \in flows'
  PROVE  StartsOk' /\ AskedOk' /\ DecidedOk' /\ SettledOk'
<1>1. StartsOk' /\ AskedOk'
  BY DEF WirInv, StartsOk, AskedOk
<1>2. DecidedOk' /\ SettledOk'
  BY DEF WirInv, DecidedOk, SettledOk
<1> QED
  BY <1>1, <1>2

\* What else goes on while a change is decided on, or none is made.
LEMMA OthersDecided ==
  ASSUME WirInv, NEW f \in flows, ~IsStart(f)
  PROVE  \A g \in flows : IsStart(g) => g.asks = <<>>
BY DEF WirInv, AskedOk

LEMMA FlowEdits ==
  ASSUME NEW f \in FlowsOk
  PROVE  /\ [f EXCEPT !.asks = <<>>] \in FlowsOk /\ [f EXCEPT !.asks = <<>>].todo = f.todo
         /\ \A v \in BOOLEAN : [f EXCEPT !.typing = v] \in FlowsOk /\ [f EXCEPT !.typing = v].todo = f.todo
         /\ f.asks # <<>> => LET g == [f EXCEPT !.asks = Tail(@)] IN
              /\ g \in FlowsOk /\ g.todo = f.todo /\ g.typing = f.typing /\ g.asks = Tail(f.asks)
         /\ Tail(f.todo) \in Todos => LET g == [f EXCEPT !.todo = Tail(@)] IN
              g \in FlowsOk /\ g.todo = Tail(f.todo)
<1>1. f.asks \in Seq(AskNames)
  BY DEF FlowsOk
<1>2. f.asks # <<>> => Tail(f.asks) \in Seq(AskNames)
  BY <1>1, HeadTailProperties
<1>3. <<>> \in Seq(AskNames)
  BY AsksAre
<1>4. [f EXCEPT !.asks = <<>>] \in FlowsOk /\ [f EXCEPT !.asks = <<>>].todo = f.todo
  BY <1>3 DEF FlowsOk
<1>5. ASSUME f.asks # <<>>, NEW g, g = [f EXCEPT !.asks = Tail(@)]
      PROVE  g \in FlowsOk /\ g.todo = f.todo /\ g.typing = f.typing /\ g.asks = Tail(f.asks)
  BY <1>2, <1>5 DEF FlowsOk
<1>6. ASSUME Tail(f.todo) \in Todos, NEW g, g = [f EXCEPT !.todo = Tail(@)]
      PROVE  g \in FlowsOk /\ g.todo = Tail(f.todo)
  BY <1>6 DEF FlowsOk
<1>7. \A v \in BOOLEAN : [f EXCEPT !.typing = v] \in FlowsOk /\ [f EXCEPT !.typing = v].todo = f.todo
  BY DEF FlowsOk
<1> QED
  BY <1>4, <1>5, <1>6, <1>7

LEMMA CancelKeeps ==
  ASSUME WirInv, W!Cancels
  PROVE  WirInv'
<1>1. PICK f \in flows :
        /\ f.asks # <<>>
        /\ flows' = IF f.typing THEN (flows \ {f}) \cup {[f EXCEPT !.asks = <<>>]} ELSE flows \ {f}
        /\ UNCHANGED <<radio, hot, joined, saved, settings, meant, presses, trouble>>
  BY DEF W!Cancels, W!card
<1> DEFINE g == [f EXCEPT !.asks = <<>>]
<1>2. f \in FlowsOk /\ g \in FlowsOk /\ g.todo = f.todo
  BY FlowEdits DEF WirInv, WirTypes
<1> HIDE DEF g
<1>3. CASE IsStart(f)
  <2>1. flows = {f} /\ ~f.typing
    BY <1>1, <1>3 DEF WirInv, AskedOk, StartsOk
  <2>2. flows' = {}
    BY <1>1, <2>1
  <2>3. StartsOk' /\ AskedOk' /\ DecidedOk' /\ SettledOk'
    BY <1>1, <2>1, <2>2, StartsStay
  <2>4. WirTypes'
    BY <1>1, <2>2 DEF WirInv, WirTypes
  <2> QED
    BY <2>3, <2>4 DEF WirInv
<1>4. CASE ~IsStart(f)
  <2>1. flows' \subseteq flows \cup {g} /\ ~IsStart(g) /\ flows \subseteq flows' \cup {f}
    BY <1>1, <1>2, <1>4 DEF g, IsStart
  <2>2. StartsOk' /\ AskedOk' /\ DecidedOk' /\ SettledOk'
    <3>1. \A h \in flows' : IsStart(h) => h \in flows /\ h.asks = <<>>
      BY <1>4, <2>1, OthersDecided
    <3>2. \A h \in flows : IsStart(h) /\ h.asks = <<>> => h \in flows'
      BY <1>4, <2>1
    <3> QED
      BY <1>1, <3>1, <3>2, StartsStay
  <2>3. WirTypes'
    BY <1>1, <1>2, <2>1 DEF WirInv, WirTypes
  <2> QED
    BY <2>2, <2>3 DEF WirInv
<1> QED
  BY <1>3, <1>4

LEMMA AnswerKeeps ==
  ASSUME WirInv, W!Answers
  PROVE  WirInv'
<1>1. PICK f \in flows :
        /\ f.asks # <<>> /\ ~f.typing
        /\ flows' = (flows \ {f}) \cup
             {IF Head(f.asks) = "password" THEN [f EXCEPT !.typing = TRUE] ELSE [f EXCEPT !.asks = Tail(@)]}
        /\ W!Decide(Tail(f.asks), Head(f.todo))
        /\ UNCHANGED <<radio, hot, joined, saved, settings, presses, trouble>>
  BY DEF W!Answers, W!card
<1>0. f \in FlowsOk
  BY DEF WirInv, WirTypes
<1>2. CASE IsStart(f)
  <2> DEFINE g == [f EXCEPT !.asks = Tail(@)]
             a == Head(f.todo).arg
  <2>1. flows = {f} /\ f.asks \in Seq(QuietAsks) /\ settings = meant /\ W!Chosen(a) = Meaning(a)
    BY <1>1, <1>2 DEF WirInv, AskedOk, StartsOk, SettledOk
  <2>2. Head(f.asks) # "password" /\ Tail(f.asks) \in Seq(QuietAsks)
    <3>1. Head(f.asks) \in QuietAsks /\ Tail(f.asks) \in Seq(QuietAsks)
      BY <1>1, <2>1, HeadTailProperties
    <3> QED
      BY <3>1 DEF QuietAsks
  <2>3. /\ g \in FlowsOk /\ g.todo = f.todo /\ g.typing = f.typing /\ g.asks = Tail(f.asks)
    BY <1>0, <1>1, FlowEdits
  <2>4. flows' = {g}
    BY <1>1, <2>1, <2>2
  <2> HIDE DEF g
  <2>5. a \in StartArgs
    <3>1. f.todo \in Todos
      BY <1>0 DEF FlowsOk
    <3>2. Head(f.todo) \in OpsOk
      BY <3>1, TodoFacts
    <3> QED
      BY <1>2, <3>2, OpFacts DEF IsStart
  <2>6. meant' = IF g.asks # <<>> THEN meant ELSE Meaning(a)
    BY <1>1, <1>2, <2>1, <2>3 DEF W!Decide, IsStart
  <2>7. meant' \in Settings \cup {None}
    BY <2>5, <2>6, MeaningIs DEF WirInv, WirTypes
  <2>8. WirTypes'
    BY <1>1, <2>3, <2>4, <2>7 DEF WirInv, WirTypes
  <2>9. IsStart(g) /\ ~g.typing /\ Head(g.todo).arg = a
    BY <1>1, <1>2, <2>3 DEF IsStart
  <2> HIDE DEF a
  <2>10. StartsOk'
    BY <2>2, <2>3, <2>4, <2>9 DEF StartsOk
  <2>11. AskedOk'
    <3>1. g.asks # <<>> => W!Chosen(a)' = W!Chosen(a)
      BY <2>6 DEF W!Chosen, a
    <3>2. Meaning(a)' = Meaning(a)
      BY DEF Meaning, a
    <3> QED
      BY <2>1, <2>4, <2>9, <3>1, <3>2 DEF AskedOk
  <2>12. DecidedOk' /\ SettledOk'
    BY <1>1, <2>1, <2>4, <2>6, <2>9 DEF DecidedOk, SettledOk
  <2> QED
    BY <2>8, <2>10, <2>11, <2>12 DEF WirInv
<1>3. CASE ~IsStart(f)
  <2>1. PICK g \in FlowsOk : g.todo = f.todo /\ flows' = (flows \ {f}) \cup {g}
    BY <1>0, <1>1, FlowEdits
  <2>2. meant' = meant
    BY <1>1, <1>3 DEF W!Decide, IsStart
  <2>3. ~IsStart(g)
    BY <1>3, <2>1 DEF IsStart
  <2>4. StartsOk' /\ AskedOk' /\ DecidedOk' /\ SettledOk'
    <3>1. \A h \in flows' : IsStart(h) => h \in flows /\ h.asks = <<>>
      BY <1>3, <2>1, <2>3, OthersDecided
    <3>2. \A h \in flows : IsStart(h) /\ h.asks = <<>> => h \in flows'
      BY <1>3, <2>1
    <3> QED
      BY <1>1, <2>2, <3>1, <3>2, StartsStay
  <2>5. WirTypes'
    BY <1>1, <2>1, <2>2 DEF WirInv, WirTypes
  <2> QED
    BY <2>4, <2>5 DEF WirInv
<1> QED
  BY <1>2, <1>3

\* What NetworkManager makes of an order, and what is left of one that failed.
LEMMA DoneTypes ==
  ASSUME W!WirelessAssumption, WirInv, NEW o \in OpsOk, W!Done(o) \/ W!Undone(o)
  PROVE  /\ radio' \in BOOLEAN /\ hot' \in BOOLEAN /\ joined' \in Aps \cup {None} /\ saved' \subseteq Aps
         /\ settings' \in Settings \cup {None}
         /\ o.op # "start" => settings' = settings
         /\ o.op = "start" /\ W!Done(o) => settings' = Meaning(o.arg)
<1>0. /\ radio \in BOOLEAN /\ hot \in BOOLEAN /\ joined \in Aps \cup {None} /\ saved \subseteq Aps
      /\ settings \in Settings \cup {None}
  BY DEF WirInv, WirTypes
<1>1. CASE W!Undone(o)
  <2>1. CASE UNCHANGED W!card
    <3>1. UNCHANGED <<radio, hot, joined, saved, settings>>
      BY <2>1 DEF W!card
    <3>2. o.op = "start" /\ W!Done(o) => settings' = Meaning(o.arg)
      BY DEF W!Done, Meaning
    <3> QED
      BY <1>0, <3>1, <3>2
  <2>2. CASE o.op = "start" /\ settings' = None /\ hot' = FALSE /\ UNCHANGED <<radio, joined, saved>>
    <3>1. W!Done(o) => settings' = Meaning(o.arg)
      BY <2>2 DEF W!Done, Meaning
    <3> QED
      BY <1>0, <2>2, <3>1
  <2> QED
    BY <1>1, <2>1, <2>2 DEF W!Undone
<1>2. CASE W!Done(o)
  <2>1. CASE o.op = "radio"
    <3>1. o.arg \in BOOLEAN
      BY <2>1, OpFacts
    <3>2. /\ radio' = o.arg /\ hot' = (hot /\ o.arg) /\ UNCHANGED <<saved, settings>>
          /\ joined' \in (IF ~o.arg THEN {None} ELSE IF radio THEN {joined} ELSE saved \cup {None})
      BY <1>2, <2>1 DEF W!Done
    <3>3. joined' \in Aps \cup {None}
      BY <1>0, <3>2
    <3>4. radio' \in BOOLEAN /\ hot' \in BOOLEAN
      BY <3>1, <3>2
    <3> QED
      BY <1>0, <2>1, <3>2, <3>3, <3>4
  <2>2. CASE o.op = "join"
    <3>1. o.arg \in Aps
      BY <2>2, OpFacts
    <3>2. hot' = FALSE /\ joined' = o.arg /\ saved' = saved \cup {o.arg} /\ UNCHANGED <<radio, settings>>
      BY <1>2, <2>2 DEF W!Done
    <3> QED
      BY <1>0, <2>2, <3>1, <3>2
  <2>3. CASE o.op = "disconnect"
    <3>1. joined' = None /\ UNCHANGED <<radio, hot, saved, settings>>
      BY <1>2, <2>3 DEF W!Done
    <3> QED
      BY <1>0, <2>3, <3>1
  <2>4. CASE o.op = "forget"
    <3>1. saved' = saved \ {o.arg} /\ joined' \in {None, joined} /\ UNCHANGED <<radio, hot, settings>>
      BY <1>2, <2>4 DEF W!Done
    <3> QED
      BY <1>0, <2>4, <3>1
  <2>5. CASE o.op = "stop"
    <3>1. hot' = FALSE /\ joined' \in saved \cup {None} /\ UNCHANGED <<radio, saved, settings>>
      BY <1>2, <2>5 DEF W!Done
    <3> QED
      BY <1>0, <2>5, <3>1
  <2>6. CASE o.op = "resume"
    <3>1. hot' = TRUE /\ joined' = None /\ UNCHANGED <<radio, saved, settings>>
      BY <1>2, <2>6 DEF W!Done
    <3> QED
      BY <1>0, <2>6, <3>1
  <2>7. CASE o.op = "start"
    <3>1. o.arg \in StartArgs
      BY <2>7, OpFacts
    <3>2. /\ settings' = Meaning(o.arg) /\ hot' = o.arg.start /\ UNCHANGED <<radio, saved>>
          /\ joined' \in {None, joined}
      BY <1>2, <2>7 DEF W!Done, Meaning
    <3>3. o.arg.start \in BOOLEAN
      BY <3>1 DEF StartArgs
    <3>4. settings' \in Settings
      BY <3>1, <3>2, MeaningIs
    <3> QED
      BY <1>0, <2>7, <3>2, <3>3, <3>4
  <2> QED
    BY <2>1, <2>2, <2>3, <2>4, <2>5, <2>6, <2>7, OpFacts
<1> QED
  BY <1>1, <1>2

LEMMA PostKeeps ==
  ASSUME W!WirelessAssumption, WirInv, W!Posted
  PROVE  WirInv'
<1> DEFINE Rest(f) == IF Len(f.todo) = 1 THEN {} ELSE {[f EXCEPT !.todo = Tail(@)]}
<1>1. PICK f \in flows :
        /\ f.asks = <<>> \/ f.typing
        /\ \/ W!Done(Head(f.todo)) /\ flows' = (flows \ {f}) \cup Rest(f) /\ UNCHANGED <<trouble, meant>>
           \/ /\ trouble' = trouble \/ (trouble < MaxTrouble /\ trouble' = trouble + 1)
              /\ W!Undone(Head(f.todo))
              /\ meant' = IF Head(f.todo).op = "start" THEN settings' ELSE meant
              /\ flows' = (flows \ {f}) \cup (IF f.asks # <<>> THEN {[f EXCEPT !.typing = FALSE]} ELSE Rest(f))
        /\ presses' = presses
  BY DEF W!Posted
<1> DEFINE o == Head(f.todo)
<1>0. f \in FlowsOk /\ f.todo \in Todos
  BY DEF WirInv, WirTypes, FlowsOk
<1>2. o \in OpsOk
  BY <1>0, TodoFacts
<1>3. /\ radio' \in BOOLEAN /\ hot' \in BOOLEAN /\ joined' \in Aps \cup {None} /\ saved' \subseteq Aps
      /\ settings' \in Settings \cup {None}
      /\ o.op # "start" => settings' = settings
      /\ o.op = "start" /\ W!Done(o) => settings' = Meaning(o.arg)
  BY <1>1, <1>2, DoneTypes
<1>4. trouble' \in 0..MaxTrouble
  <2>1. trouble' = trouble \/ (trouble < MaxTrouble /\ trouble' = trouble + 1)
    BY <1>1
  <2> QED
    BY <2>1 DEF WirInv, WirTypes, W!WirelessAssumption
<1>5. Rest(f) \subseteq FlowsOk /\ \A g \in Rest(f) : ~IsStart(g) /\ o.op = "stop"
  <2>1. CASE Len(f.todo) = 1
    BY <2>1
  <2>2. CASE Len(f.todo) # 1
    <3>1. Tail(f.todo) \in Todos /\ Head(Tail(f.todo)).op = "radio" /\ o.op = "stop"
      BY <1>0, <2>2, TodoFacts
    <3> DEFINE g == [f EXCEPT !.todo = Tail(@)]
    <3>2. g \in FlowsOk /\ g.todo = Tail(f.todo)
      BY <1>0, <3>1, FlowEdits
    <3> HIDE DEF g
    <3>3. ~IsStart(g)
      BY <3>1, <3>2 DEF IsStart
    <3>4. Rest(f) = {g}
      BY <2>2 DEF g
    <3> QED
      BY <3>1, <3>2, <3>3, <3>4
  <2> QED
    BY <2>1, <2>2
<1> HIDE DEF Rest
<1>6. CASE IsStart(f)
  <2>1. f.asks = <<>> /\ o.op = "start" /\ Rest(f) = {}
    BY <1>1, <1>5, <1>6 DEF WirInv, StartsOk, IsStart
  <2>2. meant = Meaning(o.arg) /\ \A g \in flows \ {f} : ~IsStart(g)
    BY <1>6, <2>1 DEF WirInv, DecidedOk, StartsOk
  <2>3. flows' = flows \ {f} /\ settings' = meant'
    <3>1. CASE W!Done(o) /\ flows' = (flows \ {f}) \cup Rest(f) /\ UNCHANGED <<trouble, meant>>
      BY <1>3, <2>1, <2>2, <3>1
    <3>2. CASE /\ meant' = IF o.op = "start" THEN settings' ELSE meant
               /\ flows' = (flows \ {f}) \cup (IF f.asks # <<>> THEN {[f EXCEPT !.typing = FALSE]} ELSE Rest(f))
      BY <2>1, <3>2
    <3> QED
      BY <1>1, <3>1, <3>2
  <2>4. \A g \in flows' : ~IsStart(g)
    BY <2>2, <2>3
  <2>5. StartsOk' /\ AskedOk' /\ DecidedOk' /\ SettledOk'
    BY <2>3, <2>4 DEF StartsOk, AskedOk, DecidedOk, SettledOk
  <2>6. WirTypes'
    BY <1>1, <1>3, <1>4, <2>3 DEF WirInv, WirTypes
  <2> QED
    BY <2>5, <2>6 DEF WirInv
<1>7. CASE ~IsStart(f)
  <2>1. o.op # "start" /\ settings' = settings /\ meant' = meant
    BY <1>1, <1>3, <1>7 DEF IsStart
  <2>2. PICK more : flows' = (flows \ {f}) \cup more /\ more \subseteq FlowsOk /\ \A g \in more : ~IsStart(g)
    <3> DEFINE g == [f EXCEPT !.typing = FALSE]
    <3>1. g \in FlowsOk /\ g.todo = f.todo
      BY <1>0, FlowEdits
    <3> HIDE DEF g
    <3>2. ~IsStart(g)
      BY <1>7, <3>1 DEF IsStart
    <3>3. flows' = (flows \ {f}) \cup Rest(f) \/ flows' = (flows \ {f}) \cup {g}
      BY <1>1 DEF g
    <3> DEFINE m == IF flows' = (flows \ {f}) \cup Rest(f) THEN Rest(f) ELSE {g}
    <3>4. m \subseteq FlowsOk /\ \A h \in m : ~IsStart(h)
      <4>1. {g} \subseteq FlowsOk /\ \A h \in {g} : ~IsStart(h)
        BY <3>1, <3>2
      <4>2. Rest(f) \subseteq FlowsOk /\ \A h \in Rest(f) : ~IsStart(h)
        BY <1>5
      <4> QED
        BY <4>1, <4>2
    <3>5. flows' = (flows \ {f}) \cup m
      BY <3>3
    <3> HIDE DEF m
    <3> QED
      BY <3>4, <3>5
  <2>3. StartsOk' /\ AskedOk' /\ DecidedOk' /\ SettledOk'
    <3>1. \A h \in flows' : IsStart(h) => h \in flows /\ h.asks = <<>>
      BY <1>7, <2>2, OthersDecided
    <3>2. \A h \in flows : IsStart(h) /\ h.asks = <<>> => h \in flows'
      BY <1>7, <2>2
    <3> QED
      BY <2>1, <3>1, <3>2, StartsStay
  <2>4. WirTypes'
    BY <1>1, <1>3, <1>4, <2>1, <2>2 DEF WirInv, WirTypes
  <2> QED
    BY <2>3, <2>4 DEF WirInv
<1> QED
  BY <1>6, <1>7

LEMMA WirMoves ==
  ASSUME W!WirelessAssumption, WirInv, ~Hasty, [W!Next]_(W!vars)
  PROVE  WirInv'
<1>1. CASE \/ W!Poll \/ W!ReadPanel \/ W!ReadList \/ W!ReadSpot
           \/ W!PanelAnswered \/ W!ListAnswered \/ W!SpotAnswered
  <2>1. UNCHANGED <<radio, hot, joined, saved, settings, presses, trouble, meant, flows>>
    BY <1>1 DEF W!Poll, W!ReadPanel, W!ReadList, W!ReadSpot, W!PanelAnswered, W!ListAnswered,
                W!SpotAnswered, W!Kept, W!card
  <2> QED
    BY <2>1, SameFlows
<1>2. CASE W!Goes \/ UNCHANGED W!vars
  <2>1. UNCHANGED <<radio, hot, joined, saved, settings, presses, trouble, meant, flows>>
    BY <1>2 DEF W!Goes, W!vars, W!card
  <2> QED
    BY <2>1, SameFlows
<1> QED
  BY <1>1, <1>2, RadioPressed, NetworkChosen, TurnedOn, TurnedOff, Edited, CancelKeeps, AnswerKeeps,
     PostKeeps DEF W!Next

LEMMA WirSays ==
  ASSUME WirInv
  PROVE  W!WirelessSound
<1>1. W!TypeOK
  BY DEF WirInv, WirTypes, W!TypeOK
<1>2. W!SettingsAreMeant
  BY DEF WirInv, SettledOk, W!SettingsAreMeant
<1> QED
  BY <1>1, <1>2 DEF W!WirelessSound

\* What a press begins.
LEMMA PressNew ==
  ASSUME NEW asks, NEW todo, W!Press(asks, todo), NEW f \in flows' \ flows
  PROVE  f.asks = asks /\ f.todo = todo
<1>1. f = [id |-> presses + 1, asks |-> asks, todo |-> todo, typing |-> FALSE]
  BY DEF W!Press
<1> QED
  BY <1>1

LEMMA TakenFor ==
  ASSUME W!WirelessAssumption, WirInv, W!Next
  PROVE  W!TakenWhenAsked
<1> SUFFICES ASSUME NEW f \in flows' \ flows, f.asks = <<>>, panel.joined # None,
                    Head(f.todo).op = "resume"
                    \/ (Head(f.todo).op = "start" /\ Head(f.todo).arg.start /\ ~spot.active)
             PROVE  \E g \in flows : g.id = f.id /\ g.asks # <<>>
  BY DEF W!TakenWhenAsked
<1>0. flows \subseteq FlowsOk
  BY DEF WirInv, WirTypes
<1>1. ~W!setRadio
  <2>1. ASSUME NEW v \in BOOLEAN PROVE ~W!Press(<<>>, <<W!Op("radio", v)>>)
    <3> SUFFICES ASSUME W!Press(<<>>, <<W!Op("radio", v)>>) PROVE FALSE
      OBVIOUS
    <3>1. f.todo = <<W!Op("radio", v)>>
      BY PressNew
    <3>2. Head(f.todo).op = "radio"
      BY <3>1, HeadsAre
    <3> QED
      BY <3>2
  <2>2. ~W!Press(<<"overHotspot">>, <<W!Op("stop", None), W!Op("radio", TRUE)>>)
    BY PressNew
  <2> QED
    BY <2>1, <2>2 DEF W!setRadio
<1>2. ASSUME NEW ap \in Aps PROVE ~W!choose(ap)
  <2>1. ~W!Press(<<>>, <<W!Op("join", ap)>>)
    <3> SUFFICES ASSUME W!Press(<<>>, <<W!Op("join", ap)>>) PROVE FALSE
      OBVIOUS
    <3>1. f.todo = <<W!Op("join", ap)>>
      BY PressNew
    <3>2. Head(f.todo).op = "join"
      BY <3>1, HeadsAre
    <3> QED
      BY <3>2
  <2>2. /\ ~W!Press(<<"sheet">>, <<W!Op("disconnect", None)>>)
        /\ ~W!Press(<<"sheet", "forget">>, <<W!Op("forget", ap)>>)
        /\ ~W!Press(<<"password">>, <<W!Op("join", ap)>>)
    BY PressNew
  <2> QED
    BY <2>1, <2>2 DEF W!choose
<1>3. ~W!turnOn
  <2>1. W!OverWifi # <<>> /\ <<"setUp">> \o W!OverWifi # <<>>
    BY AsksAre DEF W!OverWifi
  <2>2. ~W!Press(W!OverWifi, <<W!Op("resume", None)>>)
    BY <2>1, PressNew
  <2>3. ~W!Press(<<"setUp">> \o W!OverWifi, <<W!First>>)
    BY <2>1, PressNew
  <2> QED
    BY <2>2, <2>3 DEF W!turnOn
<1>4. ~W!turnOff
  <2>1. ~W!Press(<<>>, <<W!Op("stop", None)>>)
    <3> SUFFICES ASSUME W!Press(<<>>, <<W!Op("stop", None)>>) PROVE FALSE
      OBVIOUS
    <3>1. f.todo = <<W!Op("stop", None)>>
      BY PressNew
    <3>2. Head(f.todo).op = "stop"
      BY <3>1, HeadsAre
    <3> QED
      BY <3>2
  <2> QED
    BY <2>1 DEF W!turnOff
<1>5. ~W!edit
  BY PressNew DEF W!edit, W!change
<1>6. ~W!setBand
  <2> SUFFICES ASSUME NEW s, W!change(<<>>, s, {"band"}) PROVE FALSE
    BY DEF W!setBand
  <2> DEFINE a == [name |-> s.name, band |-> s.band, start |-> spot.active, sets |-> {"band"}]
  <2>1. f.todo = <<W!Op("start", a)>>
    BY PressNew DEF W!change
  <2>2. Head(f.todo).op = "start" /\ Head(f.todo).arg = a
    BY <2>1, HeadsAre
  <2>3. a.start = spot.active
    OBVIOUS
  <2> HIDE DEF a
  <2> QED
    BY <2>2, <2>3
<1>7. CASE W!Cancels
  <2>1. PICK g \in flows : g.asks # <<>> /\ flows' \subseteq flows \cup {[g EXCEPT !.asks = <<>>]}
    BY <1>7 DEF W!Cancels
  <2>2. f = [g EXCEPT !.asks = <<>>] /\ g \in FlowsOk
    BY <1>0, <2>1
  <2>3. f.id = g.id
    BY <2>2 DEF FlowsOk
  <2> QED
    BY <2>1, <2>3
<1>8. CASE W!Answers
  <2>1. PICK g \in flows :
          g.asks # <<>> /\ flows' \subseteq flows \cup {[g EXCEPT !.typing = TRUE], [g EXCEPT !.asks = Tail(@)]}
    BY <1>8 DEF W!Answers
  <2>2. g \in FlowsOk /\ (f = [g EXCEPT !.typing = TRUE] \/ f = [g EXCEPT !.asks = Tail(@)])
    BY <1>0, <2>1
  <2>3. f.id = g.id
    BY <2>2 DEF FlowsOk
  <2> QED
    BY <2>1, <2>3
<1>9. ~W!Posted
  <2> SUFFICES ASSUME W!Posted PROVE FALSE
    OBVIOUS
  <2>1. PICK g \in flows :
          \/ g.asks # <<>> /\ f = [g EXCEPT !.typing = FALSE]
          \/ Len(g.todo) # 1 /\ f = [g EXCEPT !.todo = Tail(@)]
    BY DEF W!Posted
  <2>2. g \in FlowsOk /\ g.todo \in Todos
    BY <1>0 DEF FlowsOk
  <2>3. CASE g.asks # <<>> /\ f = [g EXCEPT !.typing = FALSE]
    <3>1. f.asks = g.asks
      BY <2>2, <2>3 DEF FlowsOk
    <3> QED
      BY <2>3, <3>1
  <2>4. CASE Len(g.todo) # 1 /\ f = [g EXCEPT !.todo = Tail(@)]
    <3>1. Tail(g.todo) \in Todos /\ Head(Tail(g.todo)).op = "radio"
      BY <2>2, <2>4, TodoFacts
    <3>2. f.todo = Tail(g.todo)
      BY <2>2, <2>4, <3>1, FlowEdits
    <3> QED
      BY <3>1, <3>2
  <2> QED
    BY <2>1, <2>3, <2>4
<1> QED
  BY <1>1, <1>2, <1>3, <1>4, <1>5, <1>6, <1>7, <1>8, <1>9
     DEF W!Next, W!Poll, W!ReadPanel, W!ReadList, W!ReadSpot, W!PanelAnswered, W!ListAnswered,
         W!SpotAnswered, W!Goes, W!Kept

-----------------------------------------------------------------------------
\* The wired ports (Wired).

OnPort(f) == f = [p \in Ports |-> f[p]]
IsSave(s) == s = [id |-> s.id, port |-> s.port, what |-> s.what, step |-> s.step] /\ s.port \in Ports
FocusOn(p) == focus # None /\ focus.port = p
TakenAs(p, a) == a # E!Auto /\ \E q \in Ports \ {p} : live[q].ip = a.ip

EthTypes ==
  /\ plugged \subseteq Ports /\ editing \subseteq Ports
  /\ presses \in 0..MaxTyped /\ trouble \in 0..MaxTrouble
  /\ OnPort(profile) /\ OnPort(live) /\ OnPort(meant)
  /\ \A s \in saves : IsSave(s)
  /\ focus \in [port : Ports, field : {"ip", "mask"}] \cup {None}

\* One save at a time, which was found free before it is done.
OneSave == \A s, t \in saves : s = t
FoundFree == \A s \in saves : s.step = "modify" => ~TakenAs(s.port, s.what)

\* What a port is to be is what it is, or on its way, or being typed;
MeantOk == \A p \in Ports : meant[p] # None =>
  profile[p] = meant[p] \/ (\E s \in saves : s.port = p) \/ FocusOn(p)
\* what is on its way was meant, unless it will be refused;
SavesOk == \A s \in saves :
  \/ meant[s.port] = s.what \/ FocusOn(s.port)
  \/ s.step = "check" /\ meant[s.port] = profile[s.port] /\ TakenAs(s.port, s.what)
\* and so is what stands in the field that is typed in.
FocusOk == focus # None =>
  \/ inputs[focus.port] = meant[focus.port]
  \/ saves = {} /\ meant[focus.port] = profile[focus.port] /\ TakenAs(focus.port, inputs[focus.port])

EthInv == EthTypes /\ OneSave /\ FoundFree /\ MeantOk /\ SavesOk /\ FocusOk /\ E!NoClash

LEMMA EthBegins ==
  ASSUME E!WiredAssumption, E!Init
  PROVE  EthInv
<1>1. EthTypes
  BY DEF E!WiredAssumption, E!Init, EthTypes, OnPort
<1>2. saves = {} /\ focus = None /\ \A p \in Ports : meant[p] = None
  BY DEF E!Init
<1>3. E!NoClash
  BY DEF E!Init, E!NoClash, E!Blank
<1> QED
  BY <1>1, <1>2, <1>3 DEF EthInv, OneSave, FoundFree, MeantOk, SavesOk, FocusOk

\* A paint leaves the field with the focus alone.
LEMMA PaintKeeps ==
  ASSUME NEW c, NEW o, E!render(c, o), focus # None
  PROVE  inputs' = inputs
BY DEF E!render

\* The page paints, reads and asks.
LEMMA EthSame ==
  ASSUME EthInv, UNCHANGED <<plugged, profile, live, saves, meant, focus, trouble>>,
         presses' \in 0..MaxTyped, editing' \subseteq Ports, focus # None => inputs' = inputs
  PROVE  EthInv'
<1>1. EthTypes'
  BY DEF EthInv, EthTypes, OnPort
<1>2. OneSave' /\ FoundFree' /\ MeantOk' /\ E!NoClash'
  BY DEF EthInv, OneSave, FoundFree, MeantOk, FocusOn, TakenAs, E!NoClash
<1>3. SavesOk'
  BY DEF EthInv, SavesOk, FocusOn, TakenAs
<1>4. FocusOk'
  BY DEF EthInv, FocusOk, TakenAs
<1> QED
  BY <1>1, <1>2, <1>3, <1>4 DEF EthInv

\* A save begins, on a page with nothing under way.
LEMMA SaveBegins ==
  ASSUME E!WiredAssumption, EthInv, NEW p \in Ports, NEW a, E!save(p, a), saves = {}, focus' = None,
         UNCHANGED <<plugged, profile, live, trouble>>, presses' \in 0..MaxTyped, editing' \subseteq Ports,
         OnPort(meant)', \A q \in Ports \ {p} : meant'[q] = meant[q] /\ ~FocusOn(q),
         meant'[p] = a \/ (meant'[p] = profile[p] /\ TakenAs(p, a))
  PROVE  EthInv'
<1> DEFINE new == [id |-> presses', port |-> p, what |-> a, step |-> "check"]
<1>1. saves' = {new}
  BY DEF E!save
<1>2. IsSave(new) /\ new.port = p /\ new.what = a /\ new.step = "check"
  BY DEF IsSave
<1> HIDE DEF new
<1>3. EthTypes'
  BY <1>1, <1>2 DEF EthInv, EthTypes, OnPort, IsSave
<1>4. OneSave' /\ FoundFree' /\ FocusOk' /\ E!NoClash'
  BY <1>1, <1>2 DEF EthInv, OneSave, FoundFree, FocusOk, E!NoClash
<1>5. TakenAs(p, a)' <=> TakenAs(p, a)
  BY DEF TakenAs
<1>6. SavesOk'
  BY <1>1, <1>2, <1>5 DEF SavesOk, TakenAs
<1>7. MeantOk'
  BY <1>1, <1>2 DEF EthInv, MeantOk
<1> QED
  BY <1>3, <1>4, <1>6, <1>7 DEF EthInv

LEMMA Pressed ==
  ASSUME E!WiredAssumption, EthInv, presses < MaxTyped, presses' = presses + 1
  PROVE  presses' \in 0..MaxTyped
BY DEF E!WiredAssumption, EthInv, EthTypes

LEMMA MethodKeeps ==
  ASSUME E!WiredAssumption, EthInv, ~Overlap, NEW p \in Ports, E!method(p)
  PROVE  EthInv'
<1>1. /\ presses' \in 0..MaxTyped /\ saves = {} /\ focus = None /\ focus' = None
      /\ UNCHANGED <<plugged, profile, live, trouble>>
  BY Pressed DEF E!method, E!Press, E!Calm, E!nm
<1>2. CASE E!save(p, E!Auto) /\ meant' = [meant EXCEPT ![p] = E!Auto] /\ UNCHANGED editing
  <2>1. OnPort(meant)' /\ meant'[p] = E!Auto /\ \A q \in Ports \ {p} : meant'[q] = meant[q] /\ ~FocusOn(q)
    BY <1>1, <1>2 DEF EthInv, EthTypes, OnPort, FocusOn
  <2>2. editing' \subseteq Ports
    BY <1>2 DEF EthInv, EthTypes
  <2>3. E!save(p, E!Auto)
    BY <1>2
  <2> DEFINE auto == E!Auto
  <2> HIDE DEF auto
  <2>4. E!save(p, auto) /\ meant'[p] = auto
    BY <2>1, <2>3 DEF auto
  <2> QED
    BY <1>1, <2>1, <2>2, <2>4, SaveBegins
<1>3. CASE editing' = editing \cup {p} /\ UNCHANGED <<saves, meant>>
  <2>1. editing' \subseteq Ports
    BY <1>3 DEF EthInv, EthTypes
  <2> QED
    BY <1>1, <1>3, <2>1, EthSame
<1> QED
  BY <1>2, <1>3 DEF E!method

LEMMA TypesKeeps ==
  ASSUME E!WiredAssumption, EthInv, NEW p \in Ports, NEW f \in {"ip", "mask"}, NEW v, E!types(p, f, v)
  PROVE  EthInv'
<1>1. /\ presses' \in 0..MaxTyped /\ focus = None /\ focus' = [port |-> p, field |-> f]
      /\ UNCHANGED <<plugged, profile, live, editing, trouble, saves>>
      /\ meant' = [meant EXCEPT ![p] = inputs'[p]]
  BY Pressed DEF E!types, E!Press, E!nm
<1>2. focus' \in [port : Ports, field : {"ip", "mask"}] /\ focus'.port = p
  BY <1>1
<1>3. focus' # None
  BY <1>2 DEF E!WiredAssumption
<1>4. OnPort(meant)' /\ meant'[p] = inputs'[p] /\ \A q \in Ports \ {p} : meant'[q] = meant[q]
  BY <1>1 DEF EthInv, EthTypes, OnPort
<1>5. EthTypes'
  BY <1>1, <1>2, <1>4 DEF EthInv, EthTypes, OnPort
<1>6. OneSave' /\ FoundFree' /\ E!NoClash'
  BY <1>1 DEF EthInv, OneSave, FoundFree, TakenAs, E!NoClash
<1>7. MeantOk'
  BY <1>1, <1>2, <1>3, <1>4 DEF EthInv, MeantOk, FocusOn
<1>8. SavesOk'
  <2> SUFFICES ASSUME NEW s \in saves, s.port # p
               PROVE  \/ meant'[s.port] = s.what
                      \/ s.step = "check" /\ meant'[s.port] = profile'[s.port] /\ TakenAs(s.port, s.what)'
    BY <1>1, <1>2, <1>3 DEF SavesOk, FocusOn
  <2>1. s.port \in Ports /\ meant'[s.port] = meant[s.port]
    BY <1>4 DEF EthInv, EthTypes, IsSave
  <2>2. TakenAs(s.port, s.what)' <=> TakenAs(s.port, s.what)
    BY <1>1 DEF TakenAs
  <2>3. ~FocusOn(s.port)
    BY <1>1 DEF FocusOn
  <2> QED
    BY <1>1, <2>1, <2>2, <2>3 DEF EthInv, SavesOk
<1>9. FocusOk'
  BY <1>2, <1>4 DEF FocusOk
<1> QED
  BY <1>5, <1>6, <1>7, <1>8, <1>9 DEF EthInv

LEMMA LeavesKeeps ==
  ASSUME E!WiredAssumption, EthInv, ~Overlap, E!Leaves
  PROVE  EthInv'
<1> DEFINE p == focus.port
           a == inputs[focus.port]
<1>1. /\ focus # None /\ saves = {} /\ focus' = None
      /\ UNCHANGED <<plugged, profile, live, editing, presses, trouble>>
  BY DEF E!Leaves, E!Calm, E!nm
<1>2. /\ p \in Ports /\ presses' \in 0..MaxTyped /\ editing' \subseteq Ports
      /\ \A q \in Ports \ {p} : ~FocusOn(q)
  BY <1>1 DEF EthInv, EthTypes, FocusOn
<1>3. CASE E!save(p, a) /\ UNCHANGED meant
  <2>1. meant[p] = a \/ (meant[p] = profile[p] /\ TakenAs(p, a))
    BY <1>1 DEF EthInv, FocusOk
  <2>2. OnPort(meant)'
    BY <1>3 DEF EthInv, EthTypes, OnPort
  <2>3. E!save(p, a) /\ meant' = meant
    BY <1>3
  <2> HIDE DEF p, a
  <2> QED
    BY <1>1, <1>2, <2>1, <2>2, <2>3, SaveBegins
<1>4. CASE UNCHANGED saves /\ meant' = [meant EXCEPT ![p] = None]
  <2>1. OnPort(meant)' /\ meant'[p] = None /\ \A q \in Ports \ {p} : meant'[q] = meant[q]
    BY <1>2, <1>4 DEF EthInv, EthTypes, OnPort
  <2>2. saves' = {}
    BY <1>1, <1>4
  <2>3. EthTypes'
    BY <1>1, <1>2, <2>1, <2>2 DEF EthInv, EthTypes, OnPort
  <2>4. OneSave' /\ FoundFree' /\ SavesOk' /\ FocusOk' /\ E!NoClash'
    BY <1>1, <2>2 DEF EthInv, OneSave, FoundFree, SavesOk, FocusOk, E!NoClash
  <2>5. MeantOk'
    BY <1>1, <1>2, <2>1 DEF EthInv, MeantOk
  <2> QED
    BY <2>3, <2>4, <2>5 DEF EthInv
<1> QED
  BY <1>3, <1>4 DEF E!Leaves

LEMMA CheckedKeeps ==
  ASSUME E!WiredAssumption, EthInv, NEW s \in saves, E!Checked(s)
  PROVE  EthInv'
<1>0. /\ s.step = "check" /\ IsSave(s) /\ s.port \in Ports /\ saves = {s}
      /\ UNCHANGED <<profile, live, trouble>>
  BY DEF E!Checked, EthInv, EthTypes, OneSave, IsSave
<1>1. E!Taken(s) <=> TakenAs(s.port, s.what)
  BY DEF E!Taken, TakenAs
<1>2. CASE E!Taken(s)
  <2>1. /\ saves' = {} /\ editing' = editing
        /\ meant' = [meant EXCEPT ![s.port] = IF @ = s.what THEN profile[s.port] ELSE @]
        /\ UNCHANGED <<plugged, focus, presses>> /\ E!render(conf, editing')
    BY <1>0, <1>2 DEF E!Checked, E!over
  <2>2. /\ OnPort(meant)' /\ meant'[s.port] = IF meant[s.port] = s.what THEN profile[s.port] ELSE meant[s.port]
        /\ \A q \in Ports \ {s.port} : meant'[q] = meant[q]
    BY <1>0, <2>1 DEF EthInv, EthTypes, OnPort
  <2>3. EthTypes'
    BY <1>0, <2>1, <2>2 DEF EthInv, EthTypes, OnPort
  <2>4. OneSave' /\ FoundFree' /\ SavesOk' /\ E!NoClash'
    BY <1>0, <2>1 DEF EthInv, OneSave, FoundFree, SavesOk, E!NoClash
  <2>5. MeantOk'
    <3> SUFFICES ASSUME NEW q \in Ports, meant'[q] # None PROVE profile'[q] = meant'[q] \/ FocusOn(q)'
      BY DEF MeantOk
    <3>0. FocusOn(q)' <=> FocusOn(q)
      BY <2>1 DEF FocusOn
    <3>1. CASE q = s.port
      <4>1. meant'[q] = profile[q] \/ FocusOn(q)
        BY <1>0, <2>2, <3>1 DEF EthInv, SavesOk
      <4> QED
        BY <1>0, <3>0, <4>1
    <3>2. CASE q # s.port
      <4>1. profile[q] = meant[q] \/ FocusOn(q)
        BY <1>0, <2>2, <3>2 DEF EthInv, MeantOk
      <4> QED
        BY <1>0, <2>2, <3>0, <3>2, <4>1
    <3> QED
      BY <3>1, <3>2
  <2>6. FocusOk'
    <3> SUFFICES ASSUME focus # None
                 PROVE  \/ inputs'[focus.port] = meant'[focus.port]
                        \/ /\ meant'[focus.port] = profile'[focus.port]
                           /\ TakenAs(focus.port, inputs[focus.port])'
      BY <2>1, PaintKeeps DEF FocusOk
    <3>1. inputs' = inputs /\ inputs[focus.port] = meant[focus.port] /\ focus.port \in Ports
      BY <1>0, <2>1, PaintKeeps DEF EthInv, FocusOk, EthTypes
    <3>2. CASE focus.port = s.port /\ meant[s.port] = s.what
      <4>1. meant'[focus.port] = profile'[focus.port]
        BY <1>0, <2>2, <3>2
      <4>2. TakenAs(focus.port, inputs[focus.port])
        BY <1>1, <1>2, <3>1, <3>2
      <4>3. TakenAs(focus.port, inputs[focus.port])'
        BY <1>0, <2>1, <3>1, <4>2 DEF TakenAs
      <4> QED
        BY <4>1, <4>3
    <3>3. CASE ~(focus.port = s.port /\ meant[s.port] = s.what)
      BY <2>2, <3>1, <3>3
    <3> QED
      BY <3>2, <3>3
  <2> QED
    BY <2>3, <2>4, <2>5, <2>6 DEF EthInv
<1>3. CASE ~E!Taken(s)
  <2> DEFINE t == [s EXCEPT !.step = "modify"]
  <2>1. saves' = {t} /\ UNCHANGED <<plugged, editing, inputs, focus, meant, presses>>
    BY <1>0, <1>3 DEF E!Checked, E!ui
  <2>2. IsSave(t) /\ t.port = s.port /\ t.what = s.what /\ t.step = "modify"
    BY <1>0 DEF IsSave
  <2> HIDE DEF t
  <2>3. EthTypes'
    BY <1>0, <2>1, <2>2 DEF EthInv, EthTypes, OnPort, IsSave
  <2>4. ~TakenAs(t.port, t.what)'
    BY <1>0, <1>1, <1>3, <2>2 DEF TakenAs
  <2>5. OneSave' /\ E!NoClash'
    BY <1>0, <2>1 DEF EthInv, OneSave, E!NoClash
  <2>6. FoundFree'
    BY <2>1, <2>4 DEF FoundFree, TakenAs
  <2>7. MeantOk'
    BY <1>0, <2>1, <2>2 DEF EthInv, MeantOk, FocusOn
  <2>8. SavesOk'
    BY <1>0, <1>1, <1>3, <2>1, <2>2 DEF EthInv, SavesOk, FocusOn
  <2>9. FocusOk'
    BY <1>0, <2>1 DEF EthInv, FocusOk
  <2> QED
    BY <2>3, <2>5, <2>6, <2>7, <2>8, <2>9 DEF EthInv
<1> QED
  BY <1>2, <1>3

LEMMA ModifiedKeeps ==
  ASSUME E!WiredAssumption, EthInv, NEW s \in saves, E!Modified(s)
  PROVE  EthInv'
<1>0. /\ s.step = "modify" /\ IsSave(s) /\ s.port \in Ports /\ saves = {s} /\ ~TakenAs(s.port, s.what)
      /\ OnPort(profile) /\ OnPort(live)
  BY DEF E!Modified, EthInv, EthTypes, OneSave, FoundFree, IsSave
<1>1. /\ UNCHANGED <<plugged, focus, presses, meant>> /\ saves' = {} /\ editing' \subseteq Ports
      /\ focus # None => inputs' = inputs
  BY <1>0, PaintKeeps DEF E!Modified, E!over, EthInv, EthTypes
<1>2. /\ profile' = [profile EXCEPT ![s.port] = s.what]
      /\ OnPort(profile)' /\ profile'[s.port] = s.what /\ \A q \in Ports \ {s.port} : profile'[q] = profile[q]
  BY <1>0 DEF E!Modified, OnPort
<1>3. trouble' \in 0..MaxTrouble
  <2>1. trouble' = trouble \/ (trouble < MaxTrouble /\ trouble' = trouble + 1)
    BY DEF E!Modified
  <2> QED
    BY <2>1 DEF EthInv, EthTypes, E!WiredAssumption
<1>4. /\ OnPort(live)' /\ \A q \in Ports \ {s.port} : live'[q] = live[q]
      /\ \/ live'[s.port] = live[s.port]
         \/ live'[s.port] = E!Leased
         \/ s.what # E!Auto /\ live'[s.port] = s.what
  <2>1. \/ live' = live
        \/ live' = [live EXCEPT ![s.port] = IF s.what = E!Auto THEN E!Leased ELSE s.what]
    BY DEF E!Modified
  <2> QED
    BY <1>0, <2>1 DEF OnPort
<1>5. EthTypes'
  BY <1>1, <1>2, <1>3, <1>4 DEF EthInv, EthTypes, OnPort
<1>6. OneSave' /\ FoundFree' /\ SavesOk'
  BY <1>1 DEF OneSave, FoundFree, SavesOk
<1>7. FocusOk'
  <2> SUFFICES ASSUME focus # None PROVE inputs'[focus.port] = meant'[focus.port]
    BY <1>1 DEF FocusOk
  <2> QED
    BY <1>0, <1>1 DEF EthInv, FocusOk
<1>8. MeantOk'
  <2> SUFFICES ASSUME NEW q \in Ports, meant[q] # None PROVE profile'[q] = meant[q] \/ FocusOn(q)
    BY <1>1 DEF MeantOk, FocusOn
  <2>1. CASE q = s.port
    BY <1>0, <1>2, <2>1 DEF EthInv, SavesOk
  <2>2. CASE q # s.port
    BY <1>0, <1>2, <2>2 DEF EthInv, MeantOk
  <2> QED
    BY <2>1, <2>2
<1>9. E!NoClash'
  <2> SUFFICES ASSUME NEW p \in Ports, NEW q \in Ports \ {p}, live'[p].ip # 0,
                      live'[p] # E!Leased, live'[q] # E!Leased
               PROVE  live'[p].ip # live'[q].ip
    BY DEF E!NoClash, E!Leased
  <2>1. CASE live'[p] = live[p] /\ live'[q] = live[q]
    BY <2>1 DEF EthInv, E!NoClash, E!Leased
  <2>2. ASSUME NEW u \in Ports, NEW v \in Ports \ {u}, u = s.port, live'[u] = s.what, s.what # E!Auto
        PROVE  live'[u].ip # live'[v].ip
    BY <1>0, <1>4, <2>2 DEF TakenAs
  <2> QED
    BY <1>4, <2>1, <2>2
<1> QED
  BY <1>5, <1>6, <1>7, <1>8, <1>9 DEF EthInv

LEMMA EthMoves ==
  ASSUME E!WiredAssumption, EthInv, ~Overlap, [E!Next]_(E!vars)
  PROVE  EthInv'
<1>0. presses \in 0..MaxTyped /\ editing \subseteq Ports
  BY DEF EthInv, EthTypes
<1>1. CASE E!show \/ E!hide \/ UNCHANGED E!vars
  <2>1. UNCHANGED <<plugged, profile, live, saves, meant, focus, trouble, presses, editing, inputs>>
    BY <1>1 DEF E!show, E!hide, E!vars, E!nm, E!ui
  <2> QED
    BY <1>0, <2>1, EthSame
<1>2. CASE E!PanelAnswered
  <2>1. UNCHANGED <<plugged, profile, live, saves, meant, focus, trouble, presses, editing>>
    BY <1>2 DEF E!PanelAnswered, E!nm
  <2>2. focus # None => inputs' = inputs
    BY <1>2, PaintKeeps DEF E!PanelAnswered
  <2> QED
    BY <1>0, <2>1, <2>2, EthSame
<1>3. ASSUME NEW p \in Ports, E!Read(p) PROVE EthInv'
  <2>1. UNCHANGED <<plugged, profile, live, saves, meant, focus, trouble, presses, editing, inputs>>
    BY <1>3 DEF E!Read, E!nm, E!ui
  <2> QED
    BY <1>0, <2>1, EthSame
<1>4. ASSUME NEW p \in Ports, E!Answered(p) PROVE EthInv'
  <2>1. UNCHANGED <<plugged, profile, live, saves, meant, focus, trouble, presses, editing>>
    BY <1>4 DEF E!Answered, E!nm
  <2>2. E!render(conf', editing)
    BY <1>4 DEF E!Answered
  <2>3. focus # None => inputs' = inputs
    BY <2>2 DEF E!render
  <2> QED
    BY <1>0, <2>1, <2>3, EthSame
<1> QED
  BY <1>1, <1>2, <1>3, <1>4, LeavesKeeps, MethodKeeps, TypesKeeps, CheckedKeeps, ModifiedKeeps DEF E!Next

LEMMA EthSays ==
  ASSUME EthInv
  PROVE  E!WiredSound
<1>1. E!TypeOK
  BY DEF EthInv, EthTypes, E!TypeOK
<1>2. E!SavedAsTyped
  BY DEF EthInv, MeantOk, FocusOn, E!SavedAsTyped
<1> QED
  BY <1>1, <1>2 DEF EthInv, E!WiredSound

-----------------------------------------------------------------------------
\* The five of them in one specification, a scene at a time (MCPanel).

PanelInv ==
  /\ IInv
  /\ scene = "pairing" => PairInv
  /\ scene = "discovery" => SearchInv
  /\ scene = "wireless" /\ ~Hasty => WirInv
  /\ scene = "wired" /\ ~Overlap => EthInv

LEMMA PanelBegins == PanelInit => PanelInv
<1> SUFFICES ASSUME PanelInit PROVE PanelInv
  OBVIOUS
<1>1. IInv
  BY LoopBegins DEF PanelInit
<1>2. CASE scene \in {"poll", "router"}
  BY <1>1, <1>2 DEF PanelInv
<1>3. CASE scene = "pairing"
  BY <1>1, <1>3, PanelParameters, PairBegins DEF PanelInit, PanelInv
<1>4. CASE scene = "discovery"
  BY <1>1, <1>4, PanelParameters, SearchBegins DEF PanelInit, PanelInv
<1>5. CASE scene = "wireless"
  BY <1>1, <1>5, PanelParameters, WirBegins DEF PanelInit, PanelInv
<1>6. CASE scene = "wired"
  BY <1>1, <1>6, PanelParameters, EthBegins DEF PanelInit, PanelInv
<1> QED
  BY <1>2, <1>3, <1>4, <1>5, <1>6 DEF PanelInit

\* A step of one leaves the scene and the variables of the others alone.
LEMMA PanelSteps ==
  ASSUME [PanelNext]_all
  PROVE  /\ scene' = scene
         /\ scene = "poll" => [Next]_vars
         /\ scene # "poll" => UNCHANGED vars
         /\ scene = "pairing" => [B!Next]_(B!vars)
         /\ scene = "discovery" => [D!Next]_(D!vars)
         /\ scene = "wireless" => [W!Next]_(W!vars)
         /\ scene = "wired" => [E!Next]_(E!vars)
<1>1. CASE UNCHANGED all
  <2>1. UNCHANGED <<scene, vars, pending, page, visits, known, req, presses, trouble, meant, ofR, ofB, ofD, ofW, ofE>>
    BY <1>1 DEF all
  <2>2. UNCHANGED B!vars
    BY <2>1 DEF ofB, B!vars, B!agent, B!here
  <2>3. UNCHANGED D!vars
    BY <2>1 DEF ofD, D!vars, D!scan, D!sheet, D!data
  <2>4. UNCHANGED W!vars
    BY <2>1 DEF ofW, W!vars, W!card, W!seen
  <2>5. UNCHANGED E!vars
    BY <2>1 DEF ofE, E!vars, E!nm, E!net, E!ui
  <2> QED
    BY <2>1, <2>2, <2>3, <2>4, <2>5
<1>2. CASE PanelNext
  BY <1>2 DEF PanelNext
<1> QED
  BY <1>1, <1>2

LEMMA PanelKeeps ==
  ASSUME PanelInv, [PanelNext]_all
  PROVE  PanelInv'
<1>0. scene' = scene
  BY PanelSteps
<1>1. IInv'
  <2>1. [Next]_vars
    BY PanelSteps
  <2> QED
    BY <2>1, LoopMoves, LoopStays DEF PanelInv
<1>2. CASE scene \notin {"pairing", "discovery", "wireless", "wired"}
  BY <1>0, <1>1, <1>2 DEF PanelInv
<1>3. CASE scene = "pairing"
  BY <1>0, <1>1, <1>3, PanelSteps, PanelParameters, PairMoves DEF PanelInv
<1>4. CASE scene = "discovery"
  BY <1>0, <1>1, <1>4, PanelSteps, PanelParameters, SearchMoves DEF PanelInv
<1>5. CASE scene = "wireless"
  BY <1>0, <1>1, <1>5, PanelSteps, PanelParameters, WirMoves DEF PanelInv
<1>6. CASE scene = "wired"
  BY <1>0, <1>1, <1>6, PanelSteps, PanelParameters, EthMoves DEF PanelInv
<1> QED
  BY <1>2, <1>3, <1>4, <1>5, <1>6

LEMMA PanelHolds == PanelSpec => []PanelInv
BY PanelBegins, PanelKeeps, PTL DEF PanelSpec

\* The loop that polls keeps its types, and never stops or doubles; an answer that is still
\* to be shown is no older than an acknowledged change (panel.js).
THEOREM LoopIsSound == PanelSpec => [](TypeOK /\ OneLoop /\ FlightFresh)
<1>1. PanelInv => TypeOK /\ OneLoop /\ FlightFresh
  BY DEF PanelInv, IInv
<1> QED
  BY <1>1, PanelHolds, PTL

\* What is shown never goes back behind a change that was acknowledged, however many
\* changes and failures there are, and in whatever order the answers come (panel.js, gen).
THEOREM ShowsNothingOlder == PanelSpec => NotBeforeTheChange
<1>1. PanelInv /\ [PanelNext]_all => [polled' # polled => polled' >= acked]_vars
  <2> SUFFICES ASSUME PanelInv, [PanelNext]_all, polled' # polled PROVE polled' >= acked
    OBVIOUS
  <2>1. [Next]_vars
    BY PanelSteps
  <2>2. Next
    BY <2>1 DEF vars, seen
  <2> QED
    BY <2>2, NeverBack DEF PanelInv
<1> QED
  BY <1>1, PanelHolds, PTL DEF PanelSpec, NotBeforeTheChange

\* A theme chosen here stays until its answer or a newer choice, as long as storing it takes
\* no longer than SETTLE_MS (theme.js).
THEOREM ThemeStays ==
  ASSUME ~SlowPuts
  PROVE  PanelSpec => ChosenThemeStays
<1>1. PanelInv /\ [PanelNext]_all =>
        [(\E p \in puts : p.key = "theme") /\ puts' = puts => theme' = theme]_vars
  <2> SUFFICES ASSUME PanelInv, [PanelNext]_all, \E p \in puts : p.key = "theme", puts' = puts
               PROVE  theme' = theme \/ UNCHANGED vars
    OBVIOUS
  <2>1. [Next]_vars
    BY PanelSteps
  <2>2. CASE Next
    BY <2>2, ThemeKept DEF PanelInv
  <2> QED
    BY <2>1, <2>2
<1> QED
  BY <1>1, PanelHolds, PTL DEF PanelSpec, ChosenThemeStays

\* A question of BlueZ can be answered, a search is held by somebody, no page sends old
\* settings along, and no two ports are given one address, for any number of devices,
\* networks, ports, visits, presses and failures: where no settings of the hotspot are
\* changed before the last change is shown, and no address while another is saved.
THEOREM NetworkIsSound ==
  ASSUME ~Hasty, ~Overlap
  PROVE  PanelSpec => []NetworkSound
<1>1. PanelInv => NetworkSound
  BY PairSays, SearchSays, WirSays, EthSays DEF PanelInv, NetworkSound
<1> QED
  BY <1>1, PanelHolds, PTL

\* No device is let in or refused but by the answer to its own question, while one is
\* paired at a time, and no connection in use is taken unasked (post_prompt; setRadio and
\* turnOn).
THEOREM NetworkIsAsked ==
  ASSUME ~Hasty, ~Parallel
  PROVE  PanelSpec => NetworkAsks
<1> DEFINE A == /\ scene = "pairing" => B!AcceptedIsAsked /\ B!RefusedIsDeclined
                /\ scene = "wireless" => W!TakenWhenAsked
<1>1. PanelInv /\ [PanelNext]_all => A
  <2> SUFFICES ASSUME PanelInv, [PanelNext]_all PROVE A
    OBVIOUS
  <2>1. CASE scene = "pairing"
    BY <2>1, PanelSteps, PanelParameters, AcceptedFor, RefusedFor, NoAnswerWaits DEF PanelInv
  <2>2. CASE scene = "wireless"
    <3>1. WirInv /\ W!WirelessAssumption /\ [W!Next]_(W!vars)
      BY <2>2, PanelSteps, PanelParameters DEF PanelInv
    <3>2. CASE W!Next
      BY <2>2, <3>1, <3>2, TakenFor
    <3>3. CASE UNCHANGED W!vars
      BY <2>2, <3>3 DEF W!vars, W!TakenWhenAsked
    <3> QED
      BY <3>1, <3>2, <3>3
  <2> QED
    BY <2>1, <2>2
<1>2. PanelInv /\ [PanelNext]_all => [A]_all
  BY <1>1
<1> QED
  BY <1>2, PanelHolds, PTL DEF PanelSpec, NetworkAsks

-----------------------------------------------------------------------------
\* The stacks of pages under the tabs and slips (Router).

\* A stack has a first page and none twice; no page is on two.
StackOk(st) ==
  /\ st \in Seq(PageIds) /\ st # <<>>
  /\ \A i, j \in 1..Len(st) : st[i] = st[j] => i = j
StacksOk(k) ==
  /\ k = [s \in DOMAIN k |-> k[s]]
  /\ \A s \in DOMAIN k : StackOk(k[s])
  /\ \A s, u \in DOMAIN k : s # u => R!ToSet(k[s]) \cap R!ToSet(k[u]) = {}
Paged(k) == UNION {R!ToSet(k[s]) : s \in DOMAIN k}

LEMMA StackFacts ==
  ASSUME NEW st, StackOk(st)
  PROVE  /\ Len(st) \in Nat \ {0} /\ R!Last(st) \in R!ToSet(st) /\ R!ToSet(st) \subseteq PageIds
         /\ Head(st) \in R!ToSet(st) /\ DOMAIN st = 1..Len(st)
         /\ \A i \in 1..Len(st) : st[i] \in R!ToSet(st)
<1>1. Len(st) \in Nat \ {0} /\ DOMAIN st = 1..Len(st) /\ \A i \in 1..Len(st) : st[i] \in PageIds
  BY DEF StackOk
<1>2. Head(st) = st[1]
  BY DEF StackOk
<1> QED
  BY <1>1, <1>2 DEF R!Last, R!ToSet

\* A stack of one page.
LEMMA OnePage ==
  ASSUME NEW p \in PageIds
  PROVE  StackOk(<<p>>) /\ R!ToSet(<<p>>) = {p} /\ R!Last(<<p>>) = p /\ Len(<<p>>) = 1
<1>1. Len(<<p>>) = 1 /\ <<p>>[1] = p /\ DOMAIN <<p>> = {1} /\ <<p>> \in Seq(PageIds)
  OBVIOUS
<1> HIDE DEF StackOk
<1>2. R!ToSet(<<p>>) = {p}
  BY <1>1 DEF R!ToSet
<1>3. R!Last(<<p>>) = p
  BY <1>1 DEF R!Last
<1>4. StackOk(<<p>>)
  BY <1>1 DEF StackOk
<1> QED
  BY <1>1, <1>2, <1>3, <1>4

LEMMA OneMore ==
  ASSUME NEW st, StackOk(st), NEW p \in PageIds, p \notin R!ToSet(st)
  PROVE  /\ StackOk(Append(st, p)) /\ R!ToSet(Append(st, p)) = R!ToSet(st) \cup {p}
         /\ R!Last(Append(st, p)) = p
<1> DEFINE q == Append(st, p)
           m == Len(st)
<1>1. /\ m \in Nat \ {0} /\ DOMAIN st = 1..m /\ st \in Seq(PageIds)
      /\ \A i \in 1..m : st[i] # p
  BY StackFacts DEF StackOk, R!ToSet
<1>2. /\ q \in Seq(PageIds) /\ Len(q) = m + 1 /\ DOMAIN q = 1..(m + 1) /\ q[m + 1] = p
      /\ \A i \in 1..m : q[i] = st[i]
  BY <1>1
<1> HIDE DEF q
<1>3. q # <<>>
  BY <1>1, <1>2
<1>4. \A i, j \in 1..m : st[i] = st[j] => i = j
  BY DEF StackOk
<1> HIDE DEF m
<1>5. \A i, j \in 1..(m + 1) : q[i] = q[j] => i = j
  <2> SUFFICES ASSUME NEW i \in 1..(m + 1), NEW j \in 1..(m + 1), q[i] = q[j] PROVE i = j
    OBVIOUS
  <2>1. (i = m + 1 \/ i \in 1..m) /\ (j = m + 1 \/ j \in 1..m)
    BY <1>1
  <2> QED
    BY <1>1, <1>2, <1>4, <2>1
<1>6. R!ToSet(q) = R!ToSet(st) \cup {p}
  <2>1. 1..(m + 1) = 1..m \cup {m + 1}
    BY <1>1
  <2> QED
    BY <1>1, <1>2, <2>1 DEF R!ToSet
<1> QED
  BY <1>2, <1>3, <1>5, <1>6 DEF StackOk, R!Last, q

\* The top page leaves.
LEMMA OneLess ==
  ASSUME NEW st, StackOk(st), Len(st) > 1
  PROVE  /\ StackOk(R!Front(st)) /\ R!ToSet(R!Front(st)) = R!ToSet(st) \ {R!Last(st)}
         /\ R!Last(R!Front(st)) = st[Len(st) - 1] /\ Len(R!Front(st)) = Len(st) - 1
<1> DEFINE q == R!Front(st)
           m == Len(st)
<1>1. m \in Nat /\ m > 1 /\ DOMAIN st = 1..m /\ st \in Seq(PageIds)
  BY StackFacts DEF StackOk
<1>2. /\ q \in Seq(PageIds) /\ Len(q) = m - 1 /\ DOMAIN q = 1..(m - 1)
      /\ \A i \in 1..(m - 1) : q[i] = st[i]
  BY <1>1 DEF R!Front
<1> HIDE DEF q
<1>3. q # <<>>
  BY <1>1, <1>2
<1>4. \A i, j \in 1..m : st[i] = st[j] => i = j
  BY DEF StackOk
<1>5. R!Last(st) = st[m]
  BY DEF R!Last
<1> HIDE DEF m
<1>6. StackOk(q)
  <2>1. 1..(m - 1) \subseteq 1..m
    BY <1>1
  <2> QED
    BY <1>2, <1>3, <1>4, <2>1 DEF StackOk
<1>7. R!ToSet(q) = R!ToSet(st) \ {st[m]}
  <2>1. 1..m = 1..(m - 1) \cup {m} /\ m \notin 1..(m - 1) /\ m \in 1..m
    BY <1>1
  <2> QED
    BY <1>1, <1>2, <1>4, <2>1 DEF R!ToSet
<1>8. R!Last(q) = st[m - 1]
  BY <1>1, <1>2 DEF R!Last
<1> QED
  BY <1>2, <1>5, <1>6, <1>7, <1>8 DEF q, m

\* Only the first page stays.
LEMMA FirstOnly ==
  ASSUME NEW st, StackOk(st)
  PROVE  /\ StackOk(<<Head(st)>>) /\ R!Last(<<Head(st)>>) = Head(st) /\ Head(st) \in PageIds
         /\ R!ToSet(<<Head(st)>>) = {Head(st)}
         /\ R!ToSet(Tail(st)) = R!ToSet(st) \ {Head(st)}
<1>1. Head(st) \in R!ToSet(st) /\ Head(st) \in PageIds
  BY StackFacts
<1>2. R!ToSet(Tail(st)) = R!ToSet(st) \ {Head(st)}
  <2> DEFINE m == Len(st)
             q == Tail(st)
  <2>1. m \in Nat \ {0} /\ DOMAIN st = 1..m /\ st \in Seq(PageIds) /\ Head(st) = st[1]
    BY StackFacts DEF StackOk
  <2>2. Len(q) = m - 1 /\ DOMAIN q = 1..(m - 1) /\ \A i \in 1..(m - 1) : q[i] = st[i + 1]
    BY <2>1 DEF StackOk
  <2>3. \A i, j \in 1..m : st[i] = st[j] => i = j
    BY DEF StackOk
  <2> HIDE DEF q, m
  <2>4. \A i \in 1..(m - 1) : i + 1 \in 1..m /\ i + 1 # 1 /\ q[i] \in R!ToSet(st) \ {st[1]}
    BY <2>1, <2>2, <2>3 DEF R!ToSet
  <2>5. \A j \in 1..m : j = 1 \/ (j - 1 \in 1..(m - 1) /\ q[j - 1] = st[j])
    BY <2>1, <2>2
  <2>6. R!ToSet(q) \subseteq R!ToSet(st) \ {st[1]}
    BY <2>2, <2>4 DEF R!ToSet
  <2>7. R!ToSet(st) \ {st[1]} \subseteq R!ToSet(q)
    <3> SUFFICES ASSUME NEW j \in 1..m, st[j] # st[1] PROVE st[j] \in R!ToSet(q)
      BY <2>1 DEF R!ToSet
    <3>1. j - 1 \in 1..(m - 1) /\ q[j - 1] = st[j]
      BY <2>5
    <3> QED
      BY <2>2, <3>1 DEF R!ToSet
  <2> QED
    BY <2>1, <2>6, <2>7 DEF q
<1> QED
  BY <1>1, <1>2, OnePage

\* The pages between a level and the top leave.
CutAt(st, l) == Append(SubSeq(st, 1, l), R!Last(st))
Between(st, l) == IF Len(st) > l + 1 THEN {st[i] : i \in (l + 1) .. (Len(st) - 1)} ELSE {}

LEMMA MiddleOut ==
  ASSUME NEW st, StackOk(st), NEW l \in Nat \ {0}, Len(st) > l
  PROVE  /\ StackOk(CutAt(st, l)) /\ R!Last(CutAt(st, l)) = R!Last(st) /\ Len(CutAt(st, l)) > 1
         /\ R!ToSet(CutAt(st, l)) = R!ToSet(st) \ Between(st, l)
         /\ Between(st, l) \subseteq R!ToSet(st)
<1> DEFINE m == Len(st)
           c == SubSeq(st, 1, l)
           q == CutAt(st, l)
           mid == Between(st, l)
<1>1. /\ m \in Nat /\ m > l /\ DOMAIN st = 1..m /\ R!Last(st) = st[m] /\ R!Last(st) \in PageIds
      /\ st \in Seq(PageIds)
  BY StackFacts DEF R!Last, StackOk
<1>2. c \in Seq(PageIds) /\ Len(c) = l /\ \A i \in 1..l : c[i] = st[i]
  BY <1>1
<1>13. q = Append(c, R!Last(st))
  BY DEF CutAt
<1> HIDE DEF q, c
<1>3. /\ q \in Seq(PageIds) /\ Len(q) = l + 1 /\ DOMAIN q = 1..(l + 1) /\ q[l + 1] = st[m]
      /\ \A i \in 1..l : q[i] = st[i]
  BY <1>1, <1>2, <1>13
<1>4. \A i, j \in 1..m : st[i] = st[j] => i = j
  BY DEF StackOk
<1>5. \A y : y \in mid <=> \E i \in (l + 1) .. (m - 1) : y = st[i]
  BY <1>1 DEF Between
<1> HIDE DEF m, mid
<1>6. \A i, j \in 1..(l + 1) : q[i] = q[j] => i = j
  <2> SUFFICES ASSUME NEW i \in 1..(l + 1), NEW j \in 1..(l + 1), q[i] = q[j] PROVE i = j
    OBVIOUS
  <2>1. (i = l + 1 \/ (i \in 1..l /\ i \in 1..m /\ i # m)) /\ (j = l + 1 \/ (j \in 1..l /\ j \in 1..m /\ j # m))
    BY <1>1
  <2>2. m \in 1..m
    BY <1>1
  <2> QED
    BY <1>3, <1>4, <2>1, <2>2
<1>7. /\ 1..m = 1..l \cup (l + 1)..(m - 1) \cup {m}
      /\ 1..(l + 1) = 1..l \cup {l + 1}
      /\ \A i \in (l + 1)..(m - 1) : i \notin 1..l /\ i # m /\ i \in 1..m
      /\ m \in 1..m
  BY <1>1
<1>8. /\ \A y : y \in R!ToSet(st) <=> \E i \in 1..m : y = st[i]
      /\ \A y : y \in R!ToSet(q) <=> \E i \in 1..(l + 1) : y = q[i]
  BY <1>1, <1>3 DEF R!ToSet
<1>9. \A y : y \in R!ToSet(q) <=> y = st[m] \/ \E i \in 1..l : y = st[i]
  BY <1>3, <1>7, <1>8
<1>10. R!ToSet(q) = R!ToSet(st) \ mid /\ mid \subseteq R!ToSet(st)
  <2>1. \A i \in 1..l : i \in 1..m /\ \A j \in (l + 1)..(m - 1) : st[i] # st[j]
    BY <1>4, <1>7
  <2>2. \A j \in (l + 1)..(m - 1) : st[m] # st[j]
    BY <1>4, <1>7
  <2>3. \A y : ~(y \in R!ToSet(q) /\ y \in mid)
    BY <1>5, <1>9, <2>1, <2>2
  <2>4. \A y : y \in R!ToSet(st) <=> y \in R!ToSet(q) \/ y \in mid
    BY <1>5, <1>7, <1>8, <1>9
  <2> QED
    BY <2>3, <2>4
<1>11. R!Last(q) = st[m] /\ q # <<>> /\ Len(q) > 1
  BY <1>1, <1>3 DEF R!Last
<1>12. StackOk(q)
  BY <1>3, <1>6, <1>11 DEF StackOk
<1> QED
  BY <1>1, <1>10, <1>11, <1>12 DEF q, mid

\* A stack is changed without a page of another,
LEMMA StackChanged ==
  ASSUME NEW k, StacksOk(k), NEW s \in DOMAIN k, NEW q, StackOk(q),
         R!ToSet(q) \cap Paged(k) \subseteq R!ToSet(k[s]),
         NEW m, m = [k EXCEPT ![s] = q]
  PROVE  /\ StacksOk(m) /\ DOMAIN m = DOMAIN k /\ m[s] = q
         /\ \A u \in DOMAIN k \ {s} : m[u] = k[u]
         /\ Paged(m) \subseteq Paged(k) \cup R!ToSet(q)
         /\ Paged(m) \cap (R!ToSet(k[s]) \ R!ToSet(q)) = {}
<1>1. /\ DOMAIN m = DOMAIN k /\ m[s] = q /\ m = [x \in DOMAIN m |-> m[x]]
      /\ \A u \in DOMAIN k \ {s} : m[u] = k[u]
  BY DEF StacksOk
<1>2. \A u \in DOMAIN k : StackOk(m[u])
  BY <1>1 DEF StacksOk
<1>3. \A u \in DOMAIN k : R!ToSet(k[u]) \subseteq Paged(k)
  BY DEF Paged
<1>4. \A x, u \in DOMAIN k : x # u => R!ToSet(k[x]) \cap R!ToSet(k[u]) = {}
  BY DEF StacksOk
<1>5. \A x, u \in DOMAIN k : x # u => R!ToSet(m[x]) \cap R!ToSet(m[u]) = {}
  <2> SUFFICES ASSUME NEW x \in DOMAIN k, NEW u \in DOMAIN k, x # u
               PROVE  R!ToSet(m[x]) \cap R!ToSet(m[u]) = {}
    OBVIOUS
  <2>1. CASE x # s /\ u # s
    BY <1>1, <1>4, <2>1
  <2>2. CASE x = s
    BY <1>1, <1>3, <1>4, <2>2
  <2>3. CASE u = s
    BY <1>1, <1>3, <1>4, <2>3
  <2> QED
    BY <2>1, <2>2, <2>3
<1>6. Paged(m) \subseteq Paged(k) \cup R!ToSet(q)
  BY <1>1, <1>3 DEF Paged
<1>7. Paged(m) \cap (R!ToSet(k[s]) \ R!ToSet(q)) = {}
  <2> SUFFICES ASSUME NEW x \in Paged(m), x \in R!ToSet(k[s]), x \notin R!ToSet(q) PROVE FALSE
    OBVIOUS
  <2>1. PICK u \in DOMAIN k : x \in R!ToSet(m[u])
    BY <1>1 DEF Paged
  <2> QED
    BY <1>1, <1>4, <2>1
<1>8. StacksOk(m)
  BY <1>1, <1>2, <1>5 DEF StacksOk
<1> QED
  BY <1>1, <1>6, <1>7, <1>8

\* one is begun with a page on none,
LEMMA StackBegun ==
  ASSUME NEW k, StacksOk(k), NEW s, s \notin DOMAIN k, NEW p \in PageIds, p \notin Paged(k),
         NEW m, m = [x \in DOMAIN k \cup {s} |-> IF x = s THEN <<p>> ELSE k[x]]
  PROVE  /\ StacksOk(m) /\ DOMAIN m = DOMAIN k \cup {s} /\ m[s] = <<p>>
         /\ \A u \in DOMAIN k : m[u] = k[u]
         /\ Paged(m) = Paged(k) \cup {p}
<1>1. /\ DOMAIN m = DOMAIN k \cup {s} /\ m[s] = <<p>> /\ m = [x \in DOMAIN m |-> m[x]]
      /\ \A u \in DOMAIN k : m[u] = k[u]
  OBVIOUS
<1>2. StackOk(<<p>>) /\ R!ToSet(<<p>>) = {p}
  BY OnePage
<1>3. \A u \in DOMAIN m : StackOk(m[u])
  BY <1>1, <1>2 DEF StacksOk
<1>4. \A u \in DOMAIN k : p \notin R!ToSet(k[u])
  BY DEF Paged
<1>5. \A x, u \in DOMAIN m : x # u => R!ToSet(m[x]) \cap R!ToSet(m[u]) = {}
  BY <1>1, <1>2, <1>4 DEF StacksOk
<1>6. Paged(m) = Paged(k) \cup {p}
  BY <1>1, <1>2 DEF Paged
<1> QED
  BY <1>1, <1>3, <1>5, <1>6 DEF StacksOk

\* and some leave.
LEMMA StacksLeft ==
  ASSUME NEW k, StacksOk(k), NEW ss
  PROVE  /\ StacksOk(R!Without(k, ss)) /\ DOMAIN R!Without(k, ss) = DOMAIN k \ ss
         /\ \A u \in DOMAIN R!Without(k, ss) : R!Without(k, ss)[u] = k[u]
         /\ Paged(R!Without(k, ss)) \subseteq Paged(k)
         /\ \A u \in ss \cap DOMAIN k : Paged(R!Without(k, ss)) \cap R!ToSet(k[u]) = {}
<1> DEFINE m == R!Without(k, ss)
<1>1. /\ DOMAIN m = DOMAIN k \ ss /\ m = [x \in DOMAIN m |-> m[x]]
      /\ \A u \in DOMAIN m : m[u] = k[u]
  BY DEF R!Without
<1> HIDE DEF m
<1>2. StacksOk(m)
  BY <1>1 DEF StacksOk
<1>3. Paged(m) \subseteq Paged(k)
  BY <1>1 DEF Paged
<1>4. \A u \in ss \cap DOMAIN k : \A x \in DOMAIN m : R!ToSet(m[x]) \cap R!ToSet(k[u]) = {}
  BY <1>1 DEF StacksOk
<1>5. \A u \in ss \cap DOMAIN k : Paged(m) \cap R!ToSet(k[u]) = {}
  BY <1>4 DEF Paged
<1> QED
  BY <1>1, <1>2, <1>3, <1>5 DEF m

Slots == Slips \cup {"files"}

SlipsOk(q) ==
  /\ q \in Seq(Slots) /\ Len(q) <= MaxSlips
  /\ \A i, j \in 1..Len(q) : q[i] = q[j] => i = j

\* The books of the tabs: only the files tab has slips, which are told apart.
BooksOk(f) ==
  /\ f = [t \in R!Tab |-> f[t]]
  /\ \A t \in R!Tab : /\ f[t] = [ids |-> f[t].ids, cur |-> f[t].cur]
                      /\ f[t].cur \in R!ToSet(f[t].ids)
                      /\ t # "files" => f[t].ids = <<t>>
  /\ SlipsOk(f["files"].ids)

NavIs(n)   == n = [tab |-> n.tab, books |-> n.books, stacks |-> n.stacks]
CurOf(n)   == n.books[n.tab].cur
SlipsOf(n) == R!ToSet(n.books["files"].ids)
\* Where the slips can be seen each has its stack, the one on screen always.
StacksThere(n) ==
  /\ CurOf(n) \in DOMAIN n.stacks
  /\ n.tab = "files" \/ Len(n.books["files"].ids) # 1 => SlipsOf(n) \subseteq DOMAIN n.stacks

FlagsAre(g) == g = [shown |-> g.shown, running |-> g.running, mounted |-> g.mounted,
                    dead |-> g.dead, top |-> g.top]
SlideIs(sl) ==
  /\ sl = [kind |-> sl.kind, top |-> sl.top, under |-> sl.under, next |-> sl.next]
  /\ sl.kind \in {"none", "push", "back"} /\ sl.next \in {"none", "pop", "push"}
  /\ sl.kind = "none" => sl = R!Still

\* While an operation is at work: what is shown is on a stack, and runs once it has arrived.
Loose(n, g) ==
  /\ NavIs(n) /\ n.tab \in R!Tab /\ BooksOk(n.books) /\ StacksOk(n.stacks) /\ FlagsAre(g)
  /\ g.running = g.shown \cap g.mounted /\ g.shown \subseteq Paged(n.stacks)
  /\ g.dead \cap Paged(n.stacks) = {}

\* After it: the top page is shown, or will be when the slide that is under way ends.
Settles(n, g, sl) ==
  /\ Loose(n, g) /\ StacksThere(n) /\ SlideIs(sl)
  /\ g.shown = IF sl.kind = "none" THEN {R!TopOf(n)} ELSE {}
  /\ sl.kind # "back" => g.top = R!TopOf(n) /\ sl.next = "none"
  /\ sl.kind = "push" => sl.top = R!TopOf(n)
  /\ sl.kind = "back" => sl.under = R!TopOf(n) /\ sl.top \in PageIds \ Paged(n.stacks)

\* A slip that was closed keeps its stack for the timer, and no stack is without an owner.
Owned(n, c) ==
  /\ c \subseteq Slots \cap DOMAIN n.stacks /\ c \cap SlipsOf(n) = {}
  /\ DOMAIN n.stacks \subseteq R!Tab \cup SlipsOf(n) \cup c

\* A page can be opened when a slide has ended.
Two(free)   == \E x, y \in free : x # y
Three(free) == \E x, y, z \in free : x # y /\ y # z /\ x # z
FreeOf(n, g, sl, dr) ==
  PageIds \ (Paged(n.stacks) \cup {sl.top, sl.under, dr.top, dr.under} \cup g.running)
Spared(sl, free) ==
  /\ sl.kind = "push" => free # {}
  /\ sl.next = "push" => Two(free)
  /\ sl.next = "pop" => Three(free)

Dragged(n, sl, dr) ==
  /\ dr = [phase |-> dr.phase, top |-> dr.top, under |-> dr.under]
  /\ dr.phase \in {"none", "drag", "leave", "stay"}
  /\ dr.phase = "none" => dr = R!NoDrag
  /\ dr.phase # "none" => sl.kind = "none" /\ Len(n.stacks[CurOf(n)]) > 1

RouterIs(n, g, pd, sl, dr, c) ==
  /\ Settles(n, g, sl) /\ Owned(n, c) /\ Spared(sl, FreeOf(n, g, sl, dr)) /\ Dragged(n, sl, dr)
  /\ pd \in R!Tab \cup {None} /\ (pd # None => sl.kind # "none")
RouterInv == RouterIs(nav, pages, pending, slide, drag, closing)

LEMMA TabIs == R!Tab = {"overview", "files", "network"}
<1> DEFINE q == <<"overview", "files", "network">>
<1>1. DOMAIN q = {1, 2, 3} /\ q[1] = "overview" /\ q[2] = "files" /\ q[3] = "network"
  OBVIOUS
<1> HIDE DEF q
<1>2. R!ToSet(q) = {"overview", "files", "network"}
  BY <1>1 DEF R!ToSet
<1> QED
  BY <1>2 DEF R!Tab, q

LEMMA PagedIs == ASSUME NEW n PROVE R!InStacks(n) = Paged(n.stacks)
BY DEF R!InStacks, Paged

\* The current stack and its top.
LEMMA TopFacts ==
  ASSUME NEW n, StacksOk(n.stacks), CurOf(n) \in DOMAIN n.stacks
  PROVE  /\ StackOk(n.stacks[CurOf(n)]) /\ R!StackOf(n, n.tab) = n.stacks[CurOf(n)]
         /\ R!TopOf(n) = R!Last(n.stacks[CurOf(n)])
         /\ R!TopOf(n) \in R!ToSet(n.stacks[CurOf(n)])
         /\ R!ToSet(n.stacks[CurOf(n)]) \subseteq Paged(n.stacks)
         /\ R!TopOf(n) \in Paged(n.stacks) /\ R!TopOf(n) \in PageIds
<1>1. StackOk(n.stacks[CurOf(n)])
  BY DEF StacksOk
<1>2. R!ToSet(n.stacks[CurOf(n)]) \subseteq Paged(n.stacks)
  BY DEF Paged
<1>3. R!TopOf(n) = R!Last(n.stacks[CurOf(n)]) /\ R!StackOf(n, n.tab) = n.stacks[CurOf(n)]
  BY DEF R!TopOf, R!StackOf, CurOf
<1> QED
  BY <1>1, <1>2, <1>3, StackFacts

\* Slips that are alone are the current one, and ids of other tabs are their own.
LEMMA BookFacts ==
  ASSUME NEW f, BooksOk(f), MaxSlips \in Nat \ {0}
  PROVE  /\ R!ToSet(f["files"].ids) \subseteq Slots /\ f["files"].cur \in R!ToSet(f["files"].ids)
         /\ Len(f["files"].ids) \in Nat \ {0}
         /\ Len(f["files"].ids) = 1 => R!ToSet(f["files"].ids) = {f["files"].cur}
         /\ \A t \in R!Tab \ {"files"} : f[t].cur = t
         /\ DOMAIN f["files"].ids = 1..Len(f["files"].ids)
         /\ \A i \in 1..Len(f["files"].ids) : f["files"].ids[i] \in R!ToSet(f["files"].ids)
<1> DEFINE q == f["files"].ids
<1>1. q \in Seq(Slots) /\ f["files"].cur \in R!ToSet(q)
  BY TabIs DEF BooksOk, SlipsOk
<1>2. Len(q) \in Nat /\ DOMAIN q = 1..Len(q) /\ \A i \in 1..Len(q) : q[i] \in Slots
  BY <1>1
<1>3. \A t \in R!Tab \ {"files"} : f[t].ids = <<t>> /\ f[t].cur \in R!ToSet(f[t].ids)
  BY DEF BooksOk
<1> HIDE DEF q
<1>4. R!ToSet(q) \subseteq Slots /\ Len(q) # 0 /\ \A i \in 1..Len(q) : q[i] \in R!ToSet(q)
  BY <1>1, <1>2 DEF R!ToSet
<1>5. Len(q) = 1 => R!ToSet(q) = {f["files"].cur}
  <2> SUFFICES ASSUME Len(q) = 1 PROVE R!ToSet(q) = {f["files"].cur}
    OBVIOUS
  <2>1. 1..1 = {1}
    OBVIOUS
  <2>2. R!ToSet(q) = {q[1]}
    BY <1>2, <2>1 DEF R!ToSet
  <2> QED
    BY <1>1, <2>2
<1>6. ASSUME NEW t \in R!Tab \ {"files"} PROVE f[t].cur = t
  <2> DEFINE c == <<t>>
  <2>1. DOMAIN c = {1} /\ c[1] = t
    OBVIOUS
  <2> HIDE DEF c
  <2>2. R!ToSet(c) = {t}
    BY <2>1 DEF R!ToSet
  <2> QED
    BY <1>3, <2>2 DEF c
<1> QED
  BY <1>1, <1>2, <1>4, <1>5, <1>6 DEF q

LEMMA SettlesFacts ==
  ASSUME NEW n, NEW g, NEW sl, Settles(n, g, sl)
  PROVE  /\ Loose(n, g) /\ StacksOk(n.stacks) /\ CurOf(n) \in DOMAIN n.stacks
         /\ g.shown \subseteq {R!TopOf(n)} /\ R!TopOf(n) \in Paged(n.stacks)
BY TopFacts DEF Settles, Loose, StacksThere

\* A stack is begun where there is none.
LEMMA RootFacts ==
  ASSUME NEW n, NEW g, NEW sl, NEW t \in R!Tab, NEW p, NEW v \in BOOLEAN, Loose(n, g),
         n.books[t].cur \notin DOMAIN n.stacks => p \in PageIds \ Paged(n.stacks),
         NEW r, r = R!ensureRoot(<<n, g, sl>>, t, p, v)
  PROVE  /\ r = <<r[1], r[2], sl>> /\ r[3] = sl /\ Loose(r[1], r[2])
         /\ r[1].tab = n.tab /\ r[1].books = n.books
         /\ DOMAIN r[1].stacks = DOMAIN n.stacks \cup {n.books[t].cur}
         /\ \A s \in DOMAIN n.stacks : r[1].stacks[s] = n.stacks[s]
         /\ Paged(n.stacks) \subseteq Paged(r[1].stacks)
         /\ Paged(r[1].stacks) \subseteq Paged(n.stacks) \cup {p}
         /\ r[2].shown = g.shown /\ r[2].top = g.top
<1> DEFINE s == n.books[t].cur
<1>1. CASE s \in DOMAIN n.stacks
  <2>1. r = <<n, g, sl>>
    BY <1>1 DEF R!ensureRoot
  <2> QED
    BY <1>1, <2>1
<1>2. CASE s \notin DOMAIN n.stacks
  <2> DEFINE k == [x \in DOMAIN n.stacks \cup {s} |-> IF x = s THEN <<p>> ELSE n.stacks[x]]
             m == [n EXCEPT !.stacks = k]
             h == R!Create(g, p, v)
  <2>1. r = <<m, h, sl>>
    BY <1>2 DEF R!ensureRoot
  <2>2. /\ StacksOk(k) /\ DOMAIN k = DOMAIN n.stacks \cup {s}
        /\ \A u \in DOMAIN n.stacks : k[u] = n.stacks[u]
        /\ Paged(k) = Paged(n.stacks) \cup {p}
    <3>1. StacksOk(n.stacks) /\ p \in PageIds /\ p \notin Paged(n.stacks)
      BY <1>2 DEF Loose
    <3> HIDE DEF s
    <3> QED
      BY <1>2, <3>1, StackBegun
  <2> HIDE DEF k
  <2>3. m = [tab |-> n.tab, books |-> n.books, stacks |-> k]
    BY DEF Loose, NavIs
  <2>4. h = [shown |-> g.shown, running |-> g.running, dead |-> g.dead \ {p}, top |-> g.top,
             mounted |-> IF v THEN g.mounted \cup {p} ELSE g.mounted \ {p}]
    <3>1. FlagsAre(g)
      BY DEF Loose
    <3>2. h = [g EXCEPT !.dead = g.dead \ {p},
                        !.mounted = IF v THEN g.mounted \cup {p} ELSE g.mounted \ {p}]
      BY DEF R!Create
    <3> HIDE DEF h
    <3> DEFINE f == IF v THEN g.mounted \cup {p} ELSE g.mounted \ {p}
    <3> HIDE DEF f
    <3>3. h = [g EXCEPT !.dead = g.dead \ {p}, !.mounted = f]
      BY <3>2 DEF f
    <3>4. h = [shown |-> g.shown, running |-> g.running, dead |-> g.dead \ {p}, top |-> g.top, mounted |-> f]
      BY <3>1, <3>3 DEF FlagsAre
    <3> QED
      BY <3>4 DEF f
  <2>5. h.running = h.shown \cap h.mounted
    BY <1>2, <2>4 DEF Loose
  <2>6. NavIs(m) /\ FlagsAre(h)
    BY <2>3, <2>4 DEF NavIs, FlagsAre
  <2>7. h.dead \cap Paged(k) = {} /\ h.shown \subseteq Paged(k)
    BY <2>2, <2>4 DEF Loose
  <2> HIDE DEF h, m
  <2>8. Loose(m, h)
    BY <2>2, <2>3, <2>5, <2>6, <2>7 DEF Loose
  <2>9. r[1] = m /\ r[2] = h /\ r[3] = sl /\ m.stacks = k /\ m.tab = n.tab /\ m.books = n.books
    BY <2>1, <2>3
  <2>10. Paged(r[1].stacks) = Paged(n.stacks) \cup {p} /\ DOMAIN r[1].stacks = DOMAIN n.stacks \cup {s}
         /\ \A u \in DOMAIN n.stacks : r[1].stacks[u] = n.stacks[u]
    BY <2>2, <2>9
  <2>11. r[2].shown = g.shown /\ r[2].top = g.top
    BY <2>4, <2>9
  <2> QED
    BY <2>1, <2>8, <2>9, <2>10, <2>11
<1> QED
  BY <1>1, <1>2

\* Another page comes on top of the screen.
LEMMA TurnFacts ==
  ASSUME NEW n, NEW g, Loose(n, g), StacksThere(n), NEW q, g.shown \subseteq {q},
         NEW h, h = R!show(R!setTop(R!hide(g, q), R!TopOf(n)), R!TopOf(n))
  PROVE  Settles(n, h, R!Still)
<1> DEFINE p == R!TopOf(n)
<1>1. p \in Paged(n.stacks)
  BY TopFacts DEF Loose, StacksThere
<1> HIDE DEF p
<1>2. g.shown \ {q} = {} /\ g.running \ {q} = {}
  BY DEF Loose
<1>3. h = [shown |-> {p}, running |-> IF p \in g.mounted THEN {p} ELSE {}, mounted |-> g.mounted,
           dead |-> g.dead, top |-> p]
  BY <1>2 DEF R!show, R!setTop, R!hide, Loose, FlagsAre, p
<1>4. Loose(n, h)
  BY <1>1, <1>3 DEF Loose, FlagsAre
<1>5. h.shown = {p} /\ h.top = p
  BY <1>3
<1>6. SlideIs(R!Still) /\ R!Still.kind = "none" /\ R!Still.next = "none"
  BY DEF SlideIs, R!Still
<1> QED
  BY <1>4, <1>5, <1>6 DEF Settles, p

\* What an operation leaves of the books, and which pages it uses.
Step(n, sl, r, ps) ==
  /\ r = <<r[1], r[2], r[3]>> /\ Settles(r[1], r[2], r[3])
  /\ r[1].books = n.books /\ DOMAIN n.stacks \subseteq DOMAIN r[1].stacks
  /\ DOMAIN r[1].stacks \subseteq DOMAIN n.stacks \cup {n.books[t].cur : t \in R!Tab}
  /\ Paged(r[1].stacks) \subseteq Paged(n.stacks) \cup ps
  /\ r[3] = sl \/ (r[3].kind # "none" /\ {r[3].top, r[3].under} \subseteq Paged(n.stacks) \cup ps)

LEMMA StepStays ==
  ASSUME NEW n, NEW g, NEW sl, Settles(n, g, sl), NEW ps, NEW r, r = <<n, g, sl>>
  PROVE  Step(n, sl, r, ps)
<1>1. r[1] = n /\ r[2] = g /\ r[3] = sl /\ r = <<r[1], r[2], r[3]>>
  OBVIOUS
<1> QED
  BY <1>1 DEF Step

LEMMA StepWider ==
  ASSUME NEW n, NEW sl, NEW r, NEW ps, NEW qs, Step(n, sl, r, ps), ps \subseteq qs
  PROVE  Step(n, sl, r, qs)
BY DEF Step

LEMMA StepOn ==
  ASSUME NEW n, NEW sl, NEW r, NEW ps, Step(n, sl, r, ps),
         NEW q, NEW qs, Step(r[1], r[3], q, qs)
  PROVE  Step(n, sl, q, ps \cup qs)
<1>1. q = <<q[1], q[2], q[3]>> /\ Settles(q[1], q[2], q[3]) /\ q[1].books = n.books
  BY DEF Step
<1>2. DOMAIN n.stacks \subseteq DOMAIN q[1].stacks
  BY DEF Step
<1>3. DOMAIN q[1].stacks \subseteq DOMAIN n.stacks \cup {n.books[t].cur : t \in R!Tab}
  BY DEF Step
<1>4. Paged(q[1].stacks) \subseteq Paged(n.stacks) \cup (ps \cup qs)
  BY DEF Step
<1>5. q[3] = sl \/ (q[3].kind # "none" /\ {q[3].top, q[3].under} \subseteq Paged(n.stacks) \cup (ps \cup qs))
  BY DEF Step
<1> QED
  BY <1>1, <1>2, <1>3, <1>4, <1>5 DEF Step

LEMMA ThereStill ==
  ASSUME NEW n, StacksThere(n), NEW m, m.tab = n.tab, m.books = n.books,
         DOMAIN n.stacks \subseteq DOMAIN m.stacks
  PROVE  StacksThere(m)
BY DEF StacksThere, CurOf, SlipsOf

\* The stack on screen is changed.
StackWith(n, q) == [n EXCEPT !.stacks[CurOf(n)] = q]
LEMMA WithIs ==
  ASSUME NEW n, NavIs(n), NEW q, NEW m, m = StackWith(n, q)
  PROVE  /\ NavIs(m) /\ m.tab = n.tab /\ m.books = n.books
         /\ m.stacks = [n.stacks EXCEPT ![CurOf(n)] = q] /\ CurOf(m) = CurOf(n)
<1>1. m = [tab |-> n.tab, books |-> n.books, stacks |-> [n.stacks EXCEPT ![CurOf(n)] = q]]
  BY DEF NavIs, StackWith
<1> QED
  BY <1>1 DEF NavIs, CurOf

\* Pages between the top and a lower one leave the stack on screen.
LEMMA MidLeaves ==
  ASSUME NEW n, NEW g, NEW sl, Settles(n, g, sl), NEW st, st = n.stacks[CurOf(n)],
         NEW q, StackOk(q), R!Last(q) = R!Last(st),
         NEW mid, mid \subseteq R!ToSet(st), R!ToSet(q) = R!ToSet(st) \ mid,
         NEW m, m = StackWith(n, q), NEW h, h = R!destroy(g, mid)
  PROVE  /\ Settles(m, h, sl) /\ m.tab = n.tab /\ m.books = n.books /\ DOMAIN m.stacks = DOMAIN n.stacks
         /\ CurOf(m) = CurOf(n) /\ m.stacks[CurOf(m)] = q /\ Paged(m.stacks) \subseteq Paged(n.stacks)
<1> DEFINE s == CurOf(n)
<1>0. Loose(n, g) /\ StacksOk(n.stacks) /\ s \in DOMAIN n.stacks /\ R!TopOf(n) \in Paged(n.stacks)
      /\ StacksThere(n)
  BY SettlesFacts DEF Settles
<1>1. NavIs(n) /\ FlagsAre(g)
  BY <1>0 DEF Loose
<1>2. /\ NavIs(m) /\ m.tab = n.tab /\ m.books = n.books /\ m.stacks = [n.stacks EXCEPT ![s] = q]
      /\ CurOf(m) = s
  BY <1>1, WithIs
<1>3. R!TopOf(n) = R!Last(st) /\ R!ToSet(st) \subseteq Paged(n.stacks)
  BY <1>0, TopFacts
<1> HIDE DEF s
<1>4. /\ StacksOk(m.stacks) /\ DOMAIN m.stacks = DOMAIN n.stacks /\ m.stacks[s] = q
      /\ Paged(m.stacks) \subseteq Paged(n.stacks) \cup R!ToSet(q)
      /\ Paged(m.stacks) \cap (R!ToSet(st) \ R!ToSet(q)) = {}
  <2>1. R!ToSet(q) \cap Paged(n.stacks) \subseteq R!ToSet(n.stacks[s]) /\ st = n.stacks[s]
    BY DEF s
  <2> QED
    BY <1>0, <1>2, <2>1, StackChanged
<1>5. Paged(m.stacks) \subseteq Paged(n.stacks) /\ Paged(m.stacks) \cap mid = {}
  BY <1>3, <1>4
<1>6. R!TopOf(m) = R!TopOf(n)
  <2>1. R!TopOf(m) = R!Last(q)
    BY <1>0, <1>2, <1>4, TopFacts DEF s
  <2> QED
    BY <1>3, <2>1
<1>7. h = [shown |-> g.shown, running |-> g.running, mounted |-> g.mounted, dead |-> g.dead \cup mid, top |-> g.top]
  BY <1>1 DEF R!destroy, FlagsAre
<1>8. StacksThere(m)
  BY <1>0, <1>2, <1>4, ThereStill
<1>9. R!TopOf(m) \in Paged(m.stacks)
  BY <1>0, <1>2, <1>4, TopFacts DEF s
<1>10. Loose(m, h)
  <2>1. h.shown \subseteq Paged(m.stacks)
    BY <1>6, <1>7, <1>9, SettlesFacts
  <2>2. h.dead \cap Paged(m.stacks) = {}
    BY <1>0, <1>5, <1>7 DEF Loose
  <2>3. FlagsAre(h) /\ h.running = h.shown \cap h.mounted
    BY <1>0, <1>7 DEF Loose, FlagsAre
  <2> QED
    BY <1>0, <1>2, <1>4, <2>1, <2>2, <2>3 DEF Loose
<1>11. Settles(m, h, sl)
  <2>1. SlideIs(sl) /\ h.shown = g.shown /\ h.top = g.top
    BY <1>7 DEF Settles
  <2>2. h.shown = IF sl.kind = "none" THEN {R!TopOf(m)} ELSE {}
    BY <1>6, <2>1 DEF Settles
  <2>3. sl.kind # "back" => h.top = R!TopOf(m) /\ sl.next = "none"
    BY <1>6, <2>1 DEF Settles
  <2>4. sl.kind = "push" => sl.top = R!TopOf(m)
    BY <1>6 DEF Settles
  <2>5. sl.kind = "back" => sl.under = R!TopOf(m) /\ sl.top \in PageIds \ Paged(m.stacks)
    BY <1>5, <1>6 DEF Settles
  <2> QED
    BY <1>8, <1>10, <2>1, <2>2, <2>3, <2>4, <2>5 DEF Settles
<1> QED
  BY <1>2, <1>4, <1>5, <1>11 DEF s

\* The top page leaves the stack and slides out.
LEMMA BackFacts ==
  ASSUME NEW n, NEW g, NEW sl, Settles(n, g, sl), NEW x \in {"none", "pop", "push"},
         NEW r, r = R!back(<<n, g, sl>>, x), NEW st, st = n.stacks[CurOf(n)]
  PROVE  /\ Step(n, sl, r, {}) /\ r[1].tab = n.tab
         /\ sl.kind # "none" \/ Len(st) < 2 => r = <<n, g, sl>>
         /\ sl.kind = "none" /\ Len(st) >= 2 => r[3].kind = "back" /\ r[3].next = x
<1> DEFINE s == CurOf(n)
<1>0. Loose(n, g) /\ StacksOk(n.stacks) /\ s \in DOMAIN n.stacks /\ R!TopOf(n) \in Paged(n.stacks)
      /\ StacksThere(n)
  BY SettlesFacts DEF Settles
<1>1. StackOk(st) /\ Len(st) \in Nat
  BY <1>0, StackFacts DEF StacksOk
<1>2. CASE sl.kind # "none" \/ Len(st) < 2
  <2>1. r = <<n, g, sl>>
    BY <1>2 DEF R!back, CurOf
  <2> QED
    BY <1>1, <1>2, <2>1, StepStays
<1>3. CASE sl.kind = "none" /\ ~(Len(st) < 2)
  <2> DEFINE q == R!Front(st)
             p == R!Last(st)
             m == [n EXCEPT !.stacks[s] = q]
             h == R!hide(g, p)
             z == [kind |-> "back", top |-> p, under |-> st[Len(st) - 1], next |-> x]
  <2>1. r = <<m, h, z>>
    BY <1>3 DEF R!back, CurOf
  <2>2. NavIs(n) /\ FlagsAre(g)
    BY <1>0 DEF Loose
  <2>3. /\ NavIs(m) /\ m.tab = n.tab /\ m.books = n.books /\ m.stacks = [n.stacks EXCEPT ![s] = q]
        /\ CurOf(m) = s
    <3>1. m = [n EXCEPT !.stacks[s] = q]
      OBVIOUS
    <3> HIDE DEF s, m, q, p, h, z
    <3>2. m = [tab |-> n.tab, books |-> n.books, stacks |-> [n.stacks EXCEPT ![s] = q]]
      BY <2>2, <3>1 DEF NavIs
    <3>3. CurOf(m) = CurOf(n)
      BY <3>2 DEF CurOf
    <3> QED
      BY <3>2, <3>3 DEF NavIs, s
  <2>4. StackOk(q) /\ R!ToSet(q) = R!ToSet(st) \ {p} /\ R!Last(q) = st[Len(st) - 1]
    BY <1>1, <1>3, OneLess
  <2>5. R!TopOf(n) = p /\ R!ToSet(st) \subseteq Paged(n.stacks) /\ p \in R!ToSet(st) /\ p \in PageIds
    BY <1>0, TopFacts
  <2> HIDE DEF q, p, s, m
  <2>6. /\ StacksOk(m.stacks) /\ DOMAIN m.stacks = DOMAIN n.stacks /\ m.stacks[s] = q
        /\ Paged(m.stacks) \subseteq Paged(n.stacks) \cup R!ToSet(q)
        /\ Paged(m.stacks) \cap (R!ToSet(st) \ R!ToSet(q)) = {}
    <3>1. R!ToSet(q) \cap Paged(n.stacks) \subseteq R!ToSet(n.stacks[s]) /\ st = n.stacks[s]
      BY <2>4 DEF s
    <3> QED
      BY <1>0, <2>3, <2>4, <3>1, StackChanged
  <2>7. Paged(m.stacks) \subseteq Paged(n.stacks) /\ p \notin Paged(m.stacks)
    BY <2>4, <2>5, <2>6
  <2>8. R!TopOf(m) = R!Last(q)
    BY <1>0, <2>3, <2>6, TopFacts DEF s
  <2>9. g.shown = {p} /\ g.running \subseteq {p}
    BY <1>0, <1>3, <2>5 DEF Settles, Loose
  <2>10. h = [shown |-> {}, running |-> {}, mounted |-> g.mounted, dead |-> g.dead, top |-> g.top]
    <3>1. h = [g EXCEPT !.shown = g.shown \ {p}, !.running = g.running \ {p}]
      BY DEF R!hide
    <3>2. g.shown \ {p} = {} /\ g.running \ {p} = {}
      BY <2>9
    <3> HIDE DEF h
    <3>3. h = [g EXCEPT !.shown = {}, !.running = {}]
      BY <3>1, <3>2
    <3> QED
      BY <2>2, <3>3 DEF FlagsAre
  <2>11. z.kind = "back" /\ z.top = p /\ z.under = st[Len(st) - 1] /\ z.next = x
    OBVIOUS
  <2>12. SlideIs(z)
    BY DEF SlideIs
  <2> HIDE DEF h, z
  <2>13. Loose(m, h)
    <3>1. FlagsAre(h) /\ h.running = h.shown \cap h.mounted /\ h.shown \subseteq Paged(m.stacks)
      BY <2>10 DEF FlagsAre
    <3>2. h.dead \cap Paged(m.stacks) = {}
      BY <1>0, <2>7, <2>10 DEF Loose
    <3> QED
      BY <1>0, <2>3, <2>6, <3>1, <3>2 DEF Loose
  <2>14. StacksThere(m)
    BY <1>0, <2>3, <2>6, ThereStill
  <2>15. h.shown = {}
    BY <2>10
  <2>16. Settles(m, h, z)
    BY <2>4, <2>5, <2>7, <2>8, <2>11, <2>12, <2>13, <2>14, <2>15 DEF Settles
  <2>17. z.under \in R!ToSet(st)
    <3>1. Len(st) - 1 \in 1..Len(st)
      BY <1>1, <1>3
    <3> QED
      BY <1>1, <2>11, <3>1, StackFacts
  <2>18. r[1] = m /\ r[2] = h /\ r[3] = z /\ r = <<r[1], r[2], r[3]>>
    BY <2>1
  <2>19. z.kind # "none" /\ {z.top, z.under} \subseteq Paged(n.stacks)
    BY <2>5, <2>11, <2>17
  <2>20. Step(n, sl, r, {})
    BY <2>3, <2>6, <2>7, <2>16, <2>18, <2>19 DEF Step
  <2> QED
    BY <1>3, <2>3, <2>11, <2>18, <2>20
<1> QED
  BY <1>1, <1>2, <1>3

LEMMA BackToFacts ==
  ASSUME NEW n, NEW g, NEW sl, Settles(n, g, sl), NEW x \in {"none", "pop", "push"},
         NEW l \in Nat \ {0}, NEW r, r = R!backTo(<<n, g, sl>>, l, x),
         NEW st, st = n.stacks[CurOf(n)]
  PROVE  /\ Step(n, sl, r, {}) /\ r[1].tab = n.tab
         /\ Len(st) <= l => r = <<n, g, sl>>
         /\ sl.kind = "none" /\ Len(st) > l => r[3].kind = "back" /\ r[3].next = x
         /\ r[3] # sl => sl.kind = "none" /\ r[3].kind = "back" /\ r[3].next = x
<1>0. StackOk(st) /\ Len(st) \in Nat
  BY SettlesFacts, StackFacts DEF StacksOk
<1>1. CASE Len(st) <= l
  <2>1. r = <<n, g, sl>>
    BY <1>1 DEF R!backTo, CurOf
  <2>2. ~(Len(st) > l)
    BY <1>0, <1>1
  <2>3. r[1] = n /\ r[3] = sl
    BY <2>1
  <2> QED
    BY <1>1, <2>1, <2>2, <2>3, StepStays
<1>2. CASE ~(Len(st) <= l)
  <2> DEFINE mid == Between(st, l)
             q == CutAt(st, l)
             m == StackWith(n, q)
             h == R!destroy(g, mid)
  <2>1. r = R!back(<<m, h, sl>>, x)
    BY <1>2 DEF R!backTo, CurOf, CutAt, Between, StackWith
  <2>2. Len(st) > l
    BY <1>0, <1>2
  <2>3. /\ StackOk(q) /\ R!Last(q) = R!Last(st) /\ Len(q) > 1
        /\ R!ToSet(q) = R!ToSet(st) \ mid /\ mid \subseteq R!ToSet(st)
    BY <1>0, <2>2, MiddleOut
  <2>5. /\ Settles(m, h, sl) /\ m.tab = n.tab /\ m.books = n.books /\ DOMAIN m.stacks = DOMAIN n.stacks
        /\ CurOf(m) = CurOf(n) /\ m.stacks[CurOf(m)] = q /\ Paged(m.stacks) \subseteq Paged(n.stacks)
    <3>1. m = StackWith(n, q) /\ h = R!destroy(g, mid)
      OBVIOUS
    <3> HIDE DEF m, h, q, mid
    <3> QED
      BY <2>3, <3>1, MidLeaves
  <2> HIDE DEF m, h, q, mid
  <2>6. Len(q) \in Nat
    BY <2>3, StackFacts
  <2>7. ~(Len(q) < 2) /\ Len(q) >= 2
    BY <2>3, <2>6
  <2>8. /\ Step(m, sl, r, {}) /\ r[1].tab = m.tab
        /\ sl.kind # "none" \/ Len(q) < 2 => r = <<m, h, sl>>
        /\ sl.kind = "none" /\ Len(q) >= 2 => r[3].kind = "back" /\ r[3].next = x
    <3>1. q = m.stacks[CurOf(m)] /\ Settles(m, h, sl)
      BY <2>5
    <3> QED
      BY <2>1, <3>1, BackFacts
  <2>9. Step(n, sl, r, {})
    BY <2>5, <2>8 DEF Step
  <2>10. r[3] # sl => sl.kind = "none"
    BY <2>8
  <2> QED
    BY <1>2, <2>5, <2>7, <2>8, <2>9, <2>10
<1> QED
  BY <1>1, <1>2

\* A page nobody holds opens one level down.
LEMMA PushFacts ==
  ASSUME NEW n, NEW g, NEW sl, Settles(n, g, sl), NEW p, NEW v \in BOOLEAN,
         sl.kind = "none" => p \in PageIds \ Paged(n.stacks),
         NEW r, r = R!push(<<n, g, sl>>, p, v)
  PROVE  /\ Step(n, sl, r, {p}) /\ r[1].tab = n.tab
         /\ sl.kind = "none" => r[3].kind = "push" /\ r[3].next = "none"
         /\ sl.kind # "none" => r = <<n, g, sl>>
<1> DEFINE s == CurOf(n)
           st == n.stacks[s]
<1>0. Loose(n, g) /\ StacksOk(n.stacks) /\ s \in DOMAIN n.stacks /\ R!TopOf(n) \in Paged(n.stacks)
      /\ StacksThere(n)
  BY SettlesFacts DEF Settles
<1>1. CASE sl.kind # "none"
  <2>1. r = <<n, g, sl>>
    BY <1>1 DEF R!push
  <2>2. r[1] = n
    BY <2>1
  <2> QED
    BY <1>1, <2>1, <2>2, StepStays
<1>2. CASE sl.kind = "none"
  <2> DEFINE q == Append(st, p)
             y == R!Last(st)
             m == [n EXCEPT !.stacks[s] = q]
             h == R!setTop(R!hide(R!Create(g, p, v), y), p)
             z == [kind |-> "push", top |-> p, under |-> y, next |-> "none"]
  <2>1. r = <<m, h, z>>
    BY <1>2 DEF R!push, CurOf
  <2>2. NavIs(n) /\ FlagsAre(g) /\ p \in PageIds /\ p \notin Paged(n.stacks)
    BY <1>0, <1>2 DEF Loose
  <2>3. /\ StackOk(st) /\ R!TopOf(n) = y /\ y \in R!ToSet(st) /\ y \in Paged(n.stacks)
        /\ R!ToSet(st) \subseteq Paged(n.stacks)
    BY <1>0, TopFacts
  <2>4. StackOk(q) /\ R!ToSet(q) = R!ToSet(st) \cup {p} /\ R!Last(q) = p
    BY <2>2, <2>3, OneMore
  <2>5. st = n.stacks[s] /\ m = [n EXCEPT !.stacks[s] = q]
    OBVIOUS
  <2> HIDE DEF q, y, s, m, st, h
  <2>6. m = [tab |-> n.tab, books |-> n.books, stacks |-> [n.stacks EXCEPT ![s] = q]]
    BY <2>2, <2>5 DEF NavIs
  <2>7. CurOf(m) = s /\ NavIs(m)
    BY <2>6 DEF CurOf, NavIs, s
  <2>8. /\ StacksOk(m.stacks) /\ DOMAIN m.stacks = DOMAIN n.stacks /\ m.stacks[s] = q
        /\ Paged(m.stacks) \subseteq Paged(n.stacks) \cup R!ToSet(q)
    <3>1. R!ToSet(q) \cap Paged(n.stacks) \subseteq R!ToSet(n.stacks[s])
      BY <2>2, <2>4, <2>5
    <3>2. m.stacks = [n.stacks EXCEPT ![s] = q]
      BY <2>6
    <3> QED
      BY <1>0, <2>4, <3>1, <3>2, StackChanged
  <2>9. Paged(m.stacks) \subseteq Paged(n.stacks) \cup {p}
    BY <2>3, <2>4, <2>8
  <2>10. R!TopOf(m) = p /\ p \in Paged(m.stacks)
    BY <1>0, <2>4, <2>7, <2>8, TopFacts
  <2>11. g.shown = {y} /\ g.running \subseteq {y}
    BY <1>0, <1>2, <2>3 DEF Settles, Loose
  <2>12. /\ h.shown = {} /\ h.running = {} /\ h.dead = g.dead \ {p} /\ h.top = p /\ FlagsAre(h)
    <3> DEFINE c == IF v THEN g.mounted \cup {p} ELSE g.mounted \ {p}
               f == R!Create(g, p, v)
    <3>4. f = [g EXCEPT !.dead = g.dead \ {p}, !.mounted = c]
      BY DEF R!Create
    <3>1. h = [R!hide(f, y) EXCEPT !.top = p]
      BY DEF h, R!setTop
    <3> HIDE DEF c, f
    <3>2. f = [shown |-> g.shown, running |-> g.running, dead |-> g.dead \ {p}, top |-> g.top, mounted |-> c]
      BY <2>2, <3>4 DEF FlagsAre
    <3>3. h = [shown |-> g.shown \ {y}, running |-> g.running \ {y}, dead |-> g.dead \ {p}, top |-> p, mounted |-> c]
      BY <3>1, <3>2 DEF R!hide
    <3> QED
      BY <2>11, <3>3 DEF FlagsAre
  <2>13. z.kind = "push" /\ z.top = p /\ z.under = y /\ z.next = "none" /\ SlideIs(z)
    BY DEF SlideIs
  <2> HIDE DEF z
  <2>14. Loose(m, h)
    <3>1. h.dead \cap Paged(m.stacks) = {}
      BY <1>0, <2>9, <2>12 DEF Loose
    <3>2. h.running = h.shown \cap h.mounted /\ h.shown \subseteq Paged(m.stacks)
      BY <2>12
    <3>3. m.tab = n.tab /\ m.books = n.books
      BY <2>6
    <3> QED
      BY <1>0, <2>7, <2>8, <2>12, <3>1, <3>2, <3>3 DEF Loose
  <2>15. StacksThere(m)
    BY <1>0, <2>6, <2>8, ThereStill
  <2>16. Settles(m, h, z)
    BY <2>10, <2>12, <2>13, <2>14, <2>15 DEF Settles
  <2>17. r[1] = m /\ r[2] = h /\ r[3] = z /\ r = <<r[1], r[2], r[3]>>
    BY <2>1
  <2>18. {z.top, z.under} \subseteq Paged(n.stacks) \cup {p} /\ z.kind # "none"
    BY <2>3, <2>13
  <2>19. m.books = n.books /\ m.tab = n.tab
    BY <2>6
  <2>20. Step(n, sl, r, {p})
    BY <2>8, <2>9, <2>16, <2>17, <2>18, <2>19 DEF Step
  <2> QED
    BY <1>2, <2>13, <2>17, <2>19, <2>20
<1> QED
  BY <1>1, <1>2

\* Another tab comes on screen.
LEMMA SwitchFacts ==
  ASSUME MaxSlips \in Nat \ {0}, NEW n, NEW g, NEW sl, Settles(n, g, sl), sl.kind = "none",
         NEW t \in R!Tab, NEW p, NEW v \in BOOLEAN,
         n.books[t].cur \notin DOMAIN n.stacks => p \in PageIds \ Paged(n.stacks),
         NEW r, r = R!switchTab(<<n, g, sl>>, t, p, v)
  PROVE  Step(n, sl, r, {p}) /\ r[1].tab = t /\ r[3] = sl
<1> DEFINE u == R!ensureRoot(<<n, g, sl>>, t, p, v)
           m == [u[1] EXCEPT !.tab = t]
           h == R!show(R!setTop(R!hide(u[2], R!TopOf(n)), R!TopOf(m)), R!TopOf(m))
<1>0. Loose(n, g) /\ g.shown \subseteq {R!TopOf(n)} /\ StacksThere(n) /\ BooksOk(n.books)
  BY SettlesFacts DEF Settles, Loose
<1>1. r = <<m, h, u[3]>>
  BY DEF R!switchTab
<1>2. /\ u[3] = sl /\ Loose(u[1], u[2])
      /\ u[1].tab = n.tab /\ u[1].books = n.books
      /\ DOMAIN u[1].stacks = DOMAIN n.stacks \cup {n.books[t].cur}
      /\ Paged(u[1].stacks) \subseteq Paged(n.stacks) \cup {p}
      /\ u[2].shown = g.shown
  <2> HIDE DEF u
  <2>1. u = R!ensureRoot(<<n, g, sl>>, t, p, v)
    BY DEF u
  <2> QED
    BY <1>0, <2>1, RootFacts
<1>3. h = R!show(R!setTop(R!hide(u[2], R!TopOf(n)), R!TopOf(m)), R!TopOf(m)) /\ m = [u[1] EXCEPT !.tab = t]
  OBVIOUS
<1> HIDE DEF u, m, h
<1>4. m = [tab |-> t, books |-> n.books, stacks |-> u[1].stacks]
  <2>1. NavIs(u[1])
    BY <1>2 DEF Loose
  <2> QED
    BY <1>2, <1>3, <2>1 DEF NavIs
<1>5. Loose(m, u[2])
  <2>1. NavIs(m) /\ m.tab \in R!Tab /\ m.books = u[1].books /\ m.stacks = u[1].stacks
    BY <1>2, <1>4 DEF NavIs
  <2> QED
    BY <1>2, <2>1 DEF Loose
<1>6. StacksThere(m)
  <2>1. CurOf(m) = n.books[t].cur /\ CurOf(m) \in DOMAIN m.stacks
    BY <1>2, <1>4 DEF CurOf
  <2>2. ASSUME Len(n.books["files"].ids) # 1 PROVE SlipsOf(m) \subseteq DOMAIN m.stacks
    BY <1>0, <1>2, <1>4, <2>2 DEF StacksThere, SlipsOf
  <2>3. ASSUME Len(n.books["files"].ids) = 1, t = "files" PROVE SlipsOf(m) \subseteq DOMAIN m.stacks
    <3>1. R!ToSet(n.books["files"].ids) = {n.books["files"].cur}
      BY <1>0, <2>3, BookFacts
    <3> QED
      BY <1>4, <2>1, <2>3, <3>1 DEF SlipsOf
  <2>4. m.tab = t /\ m.books = n.books
    BY <1>4
  <2> QED
    BY <2>1, <2>2, <2>3, <2>4 DEF StacksThere
<1>7. Settles(m, h, R!Still)
  BY <1>0, <1>2, <1>3, <1>5, <1>6, TurnFacts
<1>8. sl = R!Still
  BY DEF Settles, SlideIs
<1>9. r[1] = m /\ r[2] = h /\ r[3] = sl /\ r = <<r[1], r[2], r[3]>>
  BY <1>1, <1>2
<1>10. m.books = n.books /\ m.tab = t /\ m.stacks = u[1].stacks
  BY <1>4
<1> QED
  BY <1>2, <1>7, <1>8, <1>9, <1>10 DEF Step

-----------------------------------------------------------------------------
\* Going back to the first page, landing, and what is forgotten after an operation.

LEMMA PopFacts ==
  ASSUME NEW n, NEW g, NEW sl, Settles(n, g, sl), NEW x \in {"none", "pop", "push"},
         NEW r, r = R!popToRoot(<<n, g, sl>>, x)
  PROVE  /\ Step(n, sl, r, {}) /\ r[1].tab = n.tab
         /\ sl.kind = "none" /\ Len(n.stacks[CurOf(n)]) > 1 => r[3].kind = "back" /\ r[3].next = x
         /\ r[3] # sl => sl.kind = "none" /\ r[3].kind = "back" /\ r[3].next = x
<1> DEFINE st == n.stacks[CurOf(n)]
           l == 1
<1>1. r = R!backTo(<<n, g, sl>>, l, x) /\ l \in Nat \ {0} /\ st = n.stacks[CurOf(n)] /\ l = 1
  BY DEF R!popToRoot
<1> HIDE DEF st, l
<1>2. Step(n, sl, r, {}) /\ r[1].tab = n.tab
  BY <1>1, BackToFacts
<1>3. r[3] # sl => sl.kind = "none" /\ r[3].kind = "back" /\ r[3].next = x
  BY <1>1, BackToFacts
<1>4. sl.kind = "none" /\ Len(st) > l => r[3].kind = "back" /\ r[3].next = x
  BY <1>1, BackToFacts
<1> QED
  BY <1>1, <1>2, <1>3, <1>4

\* Nothing began to slide, or a page that leaves.
OnTab(r, t) == r[1].tab = t
SameOrBack(z, sl, x) == z = sl \/ (z.kind = "back" /\ z.next = x)

\* The tab an operation goes to, which is the current one or another.
LEMMA GoFacts ==
  ASSUME MaxSlips \in Nat \ {0}, NEW n, NEW g, NEW sl, Settles(n, g, sl), sl.kind = "none",
         NEW t \in R!Tab, NEW p, NEW v \in BOOLEAN, NEW x \in {"none", "pop", "push"},
         n.books[t].cur \notin DOMAIN n.stacks => p \in PageIds \ Paged(n.stacks)
  PROVE  /\ Step(n, sl, R!go(<<n, g, sl>>, t, p, v, x), {p})
         /\ OnTab(R!go(<<n, g, sl>>, t, p, v, x), t)
         /\ SameOrBack(R!go(<<n, g, sl>>, t, p, v, x)[3], sl, x)
<1> DEFINE r == R!go(<<n, g, sl>>, t, p, v, x)
<1>3. r = R!go(<<n, g, sl>>, t, p, v, x)
  OBVIOUS
<1> HIDE DEF r
<1>1. CASE t = n.tab
  <2>1. r = R!popToRoot(<<n, g, sl>>, x)
    BY <1>1, <1>3 DEF R!go
  <2>3. /\ Step(n, sl, r, {}) /\ r[1].tab = n.tab
        /\ r[3] # sl => r[3].kind = "back" /\ r[3].next = x
    BY <2>1, PopFacts
  <2>4. Step(n, sl, r, {p})
    BY <2>3, StepWider
  <2> QED
    BY <1>1, <2>3, <2>4 DEF r, SameOrBack, OnTab
<1>2. CASE t # n.tab
  <2>1. r = R!switchTab(<<n, g, sl>>, t, p, v)
    BY <1>2, <1>3 DEF R!go
  <2>2. Step(n, sl, r, {p}) /\ r[1].tab = t /\ r[3] = sl
    BY <2>1, SwitchFacts
  <2> QED
    BY <1>2, <2>2 DEF r, SameOrBack, OnTab
<1> QED
  BY <1>1, <1>2

\* Back to the first page and a new one on it, which waits for the slide.
NotPop(z, sl) == z.next # "pop" \/ z = sl

LEMMA PopPushFacts ==
  ASSUME NEW n, NEW g, NEW sl, Settles(n, g, sl), NEW p, NEW v \in BOOLEAN,
         sl.kind = "none" => p \in PageIds \ Paged(n.stacks)
  PROVE  /\ Step(n, sl, R!popThenPush(<<n, g, sl>>, p, v), {p})
         /\ OnTab(R!popThenPush(<<n, g, sl>>, p, v), n.tab)
         /\ NotPop(R!popThenPush(<<n, g, sl>>, p, v)[3], sl)
<1> DEFINE r == R!popThenPush(<<n, g, sl>>, p, v)
           o == R!popToRoot(<<n, g, sl>>, "push")
<1>1. o = R!popToRoot(<<n, g, sl>>, "push") /\ "push" \in {"none", "pop", "push"}
  OBVIOUS
<1>2. r = o \/ r = R!push(o, p, v)
  BY DEF R!popThenPush
<1> HIDE DEF o, r
<1>3. /\ Step(n, sl, o, {}) /\ o[1].tab = n.tab
      /\ o[3] # sl => sl.kind = "none" /\ o[3].kind = "back" /\ o[3].next = "push"
  BY <1>1, PopFacts
<1>4. CASE r = o
  <2>1. Step(n, sl, r, {p})
    BY <1>3, <1>4, StepWider
  <2> QED
    BY <1>3, <1>4, <2>1 DEF r, OnTab, NotPop
<1>5. CASE r = R!push(o, p, v)
  <2>1. o = <<o[1], o[2], o[3]>> /\ Settles(o[1], o[2], o[3]) /\ Paged(o[1].stacks) \subseteq Paged(n.stacks)
    BY <1>3 DEF Step
  <2>2. r = R!push(<<o[1], o[2], o[3]>>, p, v)
    BY <1>5, <2>1
  <2>3. o[3].kind = "none" => p \in PageIds \ Paged(o[1].stacks)
    BY <1>3, <2>1
  <2>4. /\ Step(o[1], o[3], r, {p}) /\ r[1].tab = o[1].tab
        /\ o[3].kind = "none" => r[3].kind = "push" /\ r[3].next = "none"
        /\ o[3].kind # "none" => r = <<o[1], o[2], o[3]>>
    BY <2>1, <2>2, <2>3, PushFacts
  <2>5. Step(n, sl, r, {} \cup {p})
    BY <1>3, <2>4, StepOn
  <2>6. {} \cup {p} = {p}
    OBVIOUS
  <2>7. o[3].kind # "none" => r[3] = o[3]
    BY <2>4
  <2>8. r[3].next # "pop" \/ r[3] = sl
    BY <1>3, <2>4, <2>7
  <2> QED
    BY <1>3, <2>4, <2>5, <2>6, <2>8 DEF r, OnTab, NotPop
<1> QED
  BY <1>2, <1>4, <1>5

LEMMA ShowIs ==
  ASSUME NEW g, FlagsAre(g), g.shown = {}, g.running = {}, NEW p, NEW h, h = R!show(g, p)
  PROVE  h = [shown |-> {p}, running |-> {p} \cap g.mounted, mounted |-> g.mounted,
              dead |-> g.dead, top |-> g.top]
<1> DEFINE c == IF p \in g.mounted THEN g.running \cup {p} ELSE g.running
<1>1. h = [g EXCEPT !.shown = g.shown \cup {p}, !.running = c]
  BY DEF R!show
<1>2. c = {p} \cap g.mounted
  BY Zenon
<1> HIDE DEF c
<1>3. h = [shown |-> g.shown \cup {p}, running |-> c, mounted |-> g.mounted, dead |-> g.dead, top |-> g.top]
  BY <1>1 DEF FlagsAre
<1>4. g.shown \cup {p} = {p}
  OBVIOUS
<1> QED
  BY <1>2, <1>3, <1>4

\* The slide has ended: the page that stays is shown.
LEMMA LandFacts ==
  ASSUME NEW n, NEW g, NEW sl, Settles(n, g, sl), sl.kind # "none",
         NEW h, h = IF sl.kind = "push" THEN R!show(g, sl.top)
                    ELSE R!show(R!setTop(R!destroy(g, {sl.top}), sl.under), sl.under)
  PROVE  Settles(n, h, R!Still)
<1> DEFINE p == R!TopOf(n)
<1>1. Loose(n, g) /\ p \in Paged(n.stacks) /\ StacksThere(n) /\ SlideIs(sl)
  BY SettlesFacts DEF Settles
<1>2. FlagsAre(g) /\ g.shown = {} /\ g.running = {} /\ g.dead \cap Paged(n.stacks) = {}
  BY <1>1 DEF Settles, Loose
<1>3. SlideIs(R!Still) /\ R!Still.kind = "none" /\ R!Still.next = "none"
  BY DEF SlideIs, R!Still
<1>4. CASE sl.kind = "push"
  <2>1. sl.top = p /\ g.top = p
    BY <1>4 DEF Settles
  <2>2. h = R!show(g, p)
    BY <1>4, <2>1
  <2> HIDE DEF p
  <2>3. h = [shown |-> {p}, running |-> {p} \cap g.mounted, mounted |-> g.mounted,
             dead |-> g.dead, top |-> p]
    BY <1>2, <2>1, <2>2, ShowIs
  <2>4. h.running = h.shown \cap h.mounted /\ h.shown = {p} /\ h.top = p /\ h.dead = g.dead /\ FlagsAre(h)
    BY <2>3 DEF FlagsAre
  <2>5. Loose(n, h)
    BY <1>1, <1>2, <2>4 DEF Loose
  <2> QED
    BY <1>1, <1>3, <2>4, <2>5 DEF Settles, p
<1>5. CASE sl.kind # "push"
  <2>1. sl.under = p /\ sl.top \notin Paged(n.stacks)
    BY <1>1, <1>5 DEF Settles, SlideIs
  <2> DEFINE y == sl.top
             f == R!setTop(R!destroy(g, {y}), p)
  <2>2. h = R!show(f, p)
    BY <1>5, <2>1
  <2> HIDE DEF p, y
  <2>3. f = [shown |-> {}, running |-> {}, mounted |-> g.mounted, dead |-> g.dead \cup {y}, top |-> p]
    <3>1. R!destroy(g, {y}) = [shown |-> {}, running |-> {}, mounted |-> g.mounted, dead |-> g.dead \cup {y}, top |-> g.top]
      BY <1>2 DEF R!destroy, FlagsAre
    <3> QED
      BY <3>1 DEF R!setTop
  <2> HIDE DEF f
  <2>8. FlagsAre(f) /\ f.shown = {} /\ f.running = {} /\ f.mounted = g.mounted /\ f.top = p
        /\ f.dead = g.dead \cup {y}
    BY <2>3 DEF FlagsAre
  <2>4. h = [shown |-> {p}, running |-> {p} \cap g.mounted, mounted |-> g.mounted,
             dead |-> g.dead \cup {y}, top |-> p]
    <3>1. h = [shown |-> {p}, running |-> {p} \cap f.mounted, mounted |-> f.mounted,
             dead |-> f.dead, top |-> f.top]
      BY <2>2, <2>8, ShowIs
    <3> QED
      BY <2>8, <3>1
  <2>5. h.running = h.shown \cap h.mounted /\ h.shown = {p} /\ h.top = p /\ h.dead = g.dead \cup {y} /\ FlagsAre(h)
    BY <2>4 DEF FlagsAre
  <2>6. h.dead \cap Paged(n.stacks) = {}
    BY <1>2, <2>1, <2>5 DEF y
  <2>7. Loose(n, h)
    BY <1>1, <2>5, <2>6 DEF Loose
  <2> QED
    BY <1>1, <1>3, <2>5, <2>7 DEF Settles, p
<1> QED
  BY <1>4, <1>5

\* Pages nothing refers to are forgotten.
LEMMA TidyFacts ==
  ASSUME NEW n, NEW g, NEW sl, Settles(n, g, sl), NEW dr, NEW h, h = R!Tidy(g, n, sl, dr)
  PROVE  Settles(n, h, sl) /\ h.running \subseteq Paged(n.stacks)
<1> DEFINE held == R!InStacks(n) \cup {sl.top, sl.under, dr.top, dr.under} \cup g.running
<1>1. Loose(n, g) /\ FlagsAre(g) /\ g.running = g.shown \cap g.mounted /\ g.shown \subseteq Paged(n.stacks)
      /\ g.dead \cap Paged(n.stacks) = {}
  BY DEF Settles, Loose
<1>2. Paged(n.stacks) \subseteq held
  BY PagedIs
<1>3. h = [g EXCEPT !.dead = g.dead \cap held, !.mounted = g.mounted \cap held, !.shown = g.shown \cap held]
  BY DEF R!Tidy
<1> HIDE DEF held
<1>4. h = [shown |-> g.shown \cap held, running |-> g.running, mounted |-> g.mounted \cap held,
           dead |-> g.dead \cap held, top |-> g.top]
  BY <1>1, <1>3 DEF FlagsAre
<1>5. h.shown = g.shown /\ h.top = g.top /\ h.dead \subseteq g.dead /\ FlagsAre(h)
      /\ h.running = h.shown \cap h.mounted
  <2>1. g.shown \cap held = g.shown /\ g.running = g.shown \cap (g.mounted \cap held)
    BY <1>1, <1>2
  <2> QED
    BY <1>4, <2>1 DEF FlagsAre
<1>6. Loose(n, h)
  BY <1>1, <1>5 DEF Loose
<1> QED
  BY <1>1, <1>5, <1>6 DEF Settles

-----------------------------------------------------------------------------
\* The row of slips of the files tab.

\* The book of the files tab is changed.
BookWith(n, q, s) ==
  [tab |-> n.tab, books |-> [n.books EXCEPT !["files"] = [ids |-> q, cur |-> s]], stacks |-> n.stacks]

LEMMA IdsWith ==
  ASSUME NEW n, NavIs(n), BooksOk(n.books), NEW q,
         NEW m, m = [n EXCEPT !.books["files"].ids = q]
  PROVE  m = BookWith(n, q, n.books["files"].cur)
<1> DEFINE y == n.books["files"]
           x == [y EXCEPT !.ids = q]
           k == [n.books EXCEPT !["files"] = x]
<1>1. y = [ids |-> y.ids, cur |-> y.cur]
  BY TabIs DEF BooksOk
<1>2. m = [n EXCEPT !.books = k]
  OBVIOUS
<1>3. x = [ids |-> q, cur |-> y.cur]
  BY <1>1
<1> HIDE DEF k
<1>4. m = [tab |-> n.tab, books |-> k, stacks |-> n.stacks]
  BY <1>2 DEF NavIs
<1> HIDE DEF x, y
<1>5. k = [n.books EXCEPT !["files"] = [ids |-> q, cur |-> y.cur]]
  BY <1>3 DEF k
<1> QED
  BY <1>4, <1>5 DEF BookWith, y

LEMMA CurWith ==
  ASSUME NEW n, NavIs(n), BooksOk(n.books), NEW s,
         NEW m, m = [n EXCEPT !.books["files"].cur = s]
  PROVE  m = BookWith(n, n.books["files"].ids, s)
<1> DEFINE y == n.books["files"]
           x == [y EXCEPT !.cur = s]
           k == [n.books EXCEPT !["files"] = x]
<1>1. y = [ids |-> y.ids, cur |-> y.cur]
  BY TabIs DEF BooksOk
<1>2. m = [n EXCEPT !.books = k]
  OBVIOUS
<1>3. x = [ids |-> y.ids, cur |-> s]
  BY <1>1
<1> HIDE DEF k
<1>4. m = [tab |-> n.tab, books |-> k, stacks |-> n.stacks]
  BY <1>2 DEF NavIs
<1> HIDE DEF x, y
<1>5. k = [n.books EXCEPT !["files"] = [ids |-> y.ids, cur |-> s]]
  BY <1>3 DEF k
<1> QED
  BY <1>4, <1>5 DEF BookWith, y

LEMMA BookedFacts ==
  ASSUME NEW n, NEW g, Loose(n, g), NEW q, SlipsOk(q), NEW s \in R!ToSet(q),
         NEW m, m = BookWith(n, q, s)
  PROVE  /\ Loose(m, g) /\ m.tab = n.tab /\ m.stacks = n.stacks
         /\ m.books["files"].ids = q /\ m.books["files"].cur = s /\ SlipsOf(m) = R!ToSet(q)
         /\ m.tab = "files" => CurOf(m) = s
         /\ m.tab # "files" => CurOf(m) = CurOf(n)
<1> DEFINE f == m.books
<1>1. NavIs(m) /\ m.tab = n.tab /\ m.stacks = n.stacks /\ f = [n.books EXCEPT !["files"] = [ids |-> q, cur |-> s]]
  BY DEF BookWith, NavIs
<1>2. "files" \in R!Tab /\ BooksOk(n.books)
  BY TabIs DEF Loose
<1> HIDE DEF f
<1>3. /\ f = [t \in R!Tab |-> f[t]] /\ f["files"] = [ids |-> q, cur |-> s]
      /\ \A t \in R!Tab \ {"files"} : f[t] = n.books[t]
  BY <1>1, <1>2 DEF BooksOk
<1>4. f["files"].ids = q /\ f["files"].cur = s
  BY <1>3
<1>5. BooksOk(f)
  BY <1>2, <1>3, <1>4 DEF BooksOk
<1>6. Loose(m, g)
  BY <1>1, <1>5 DEF Loose, f
<1>7. SlipsOf(m) = R!ToSet(q)
  BY <1>4 DEF SlipsOf, f
<1>8. m.tab = "files" => CurOf(m) = s
  BY <1>4 DEF CurOf, f
<1>9. ASSUME m.tab # "files" PROVE CurOf(m) = CurOf(n)
  <2>1. m.tab \in R!Tab \ {"files"}
    BY <1>1, <1>9 DEF Loose
  <2> QED
    BY <1>1, <1>3, <2>1 DEF CurOf, f
<1> QED
  BY <1>1, <1>4, <1>6, <1>7, <1>8, <1>9 DEF f

\* Slips leave the row while the files tab is on screen.
LEMMA RowFacts ==
  ASSUME NEW n, NEW g, NEW sl, Settles(n, g, sl), n.tab = "files",
         NEW q, SlipsOk(q), R!ToSet(q) \subseteq SlipsOf(n), CurOf(n) \in R!ToSet(q),
         NEW m, m = [n EXCEPT !.books["files"].ids = q]
  PROVE  /\ Settles(m, g, sl) /\ m.tab = n.tab /\ m.stacks = n.stacks
         /\ SlipsOf(m) = R!ToSet(q)
<1>1. Loose(n, g) /\ NavIs(n) /\ BooksOk(n.books) /\ CurOf(n) = n.books["files"].cur /\ StacksThere(n)
  BY DEF Settles, Loose, CurOf
<1>2. m = BookWith(n, q, n.books["files"].cur)
  BY <1>1, IdsWith
<1>3. m = BookWith(n, q, CurOf(n))
  BY <1>1, <1>2
<1>4. /\ Loose(m, g) /\ m.tab = n.tab /\ m.stacks = n.stacks
      /\ SlipsOf(m) = R!ToSet(q) /\ CurOf(m) = CurOf(n)
  BY <1>1, <1>3, BookedFacts
<1>5. StacksThere(m)
  BY <1>1, <1>4 DEF StacksThere
<1>6. R!TopOf(m) = R!TopOf(n)
  BY <1>1, <1>4, TopFacts DEF StacksThere, Loose
<1>7. Settles(m, g, sl)
  BY <1>4, <1>5, <1>6 DEF Settles
<1> QED
  BY <1>4, <1>7

\* What switchSlip makes of n: slip s is on screen, with page p if it had none.
Switches(n, sl, s, p, r) ==
  /\ r = <<r[1], r[2], r[3]>> /\ Settles(r[1], r[2], r[3]) /\ r[3] = sl
  /\ r[1].tab = "files" /\ r[1].books["files"].ids = n.books["files"].ids /\ CurOf(r[1]) = s
  /\ DOMAIN r[1].stacks = DOMAIN n.stacks \cup {s}
  /\ Paged(r[1].stacks) \subseteq Paged(n.stacks) \cup {p}

\* Another slip comes on screen; it may have no page yet.
LEMMA SlipFacts ==
  ASSUME MaxSlips \in Nat \ {0}, NEW n, NEW g, NEW sl, sl = R!Still, Loose(n, g), n.tab = "files",
         CurOf(n) \in DOMAIN n.stacks, g.shown = {R!TopOf(n)}, g.top = R!TopOf(n),
         NEW s \in SlipsOf(n), SlipsOf(n) \subseteq DOMAIN n.stacks \cup {s},
         NEW p, NEW v \in BOOLEAN, s \notin DOMAIN n.stacks => p \in PageIds \ Paged(n.stacks)
  PROVE  Switches(n, sl, s, p, R!switchSlip(<<n, g, sl>>, s, p, v))
<1> DEFINE r == R!switchSlip(<<n, g, sl>>, s, p, v)
<1>1. CurOf(n) = n.books["files"].cur /\ "files" \in R!Tab /\ NavIs(n) /\ BooksOk(n.books)
  BY TabIs DEF CurOf, Loose
<1>2. SlideIs(sl) /\ sl.kind = "none" /\ sl.next = "none"
  BY DEF SlideIs, R!Still
<1>3. CASE s = CurOf(n)
  <2>1. r = <<n, g, sl>>
    BY <1>1, <1>3 DEF R!switchSlip
  <2>2. DOMAIN n.stacks = DOMAIN n.stacks \cup {s}
    BY <1>3
  <2>3. StacksThere(n)
    BY <2>2 DEF StacksThere
  <2>4. Settles(n, g, sl)
    BY <1>2, <2>3 DEF Settles
  <2>5. r[1] = n /\ r[2] = g /\ r[3] = sl
    BY <2>1
  <2> QED
    BY <1>3, <2>1, <2>2, <2>4, <2>5 DEF Switches
<1>4. CASE s # CurOf(n)
  <2> DEFINE f == [n EXCEPT !.books["files"].cur = s]
             u == R!ensureRoot(<<f, g, sl>>, "files", p, v)
             old == R!TopOf(n)
             h == R!show(R!setTop(R!hide(u[2], old), R!TopOf(u[1])), R!TopOf(u[1]))
  <2>1. r = <<u[1], h, u[3]>>
    BY <1>1, <1>4 DEF R!switchSlip
  <2>2. u = R!ensureRoot(<<f, g, sl>>, "files", p, v)
    OBVIOUS
  <2>3. f = BookWith(n, n.books["files"].ids, s)
    <3>1. f = [n EXCEPT !.books["files"].cur = s]
      OBVIOUS
    <3> HIDE DEF f
    <3> QED
      BY <1>1, <3>1, CurWith
  <2>4. h = R!show(R!setTop(R!hide(u[2], old), R!TopOf(u[1])), R!TopOf(u[1]))
    OBVIOUS
  <2> HIDE DEF f, u, h, old
  <2>5. SlipsOk(n.books["files"].ids) /\ s \in R!ToSet(n.books["files"].ids)
    BY <1>1 DEF BooksOk, SlipsOf
  <2>6. /\ Loose(f, g) /\ f.tab = n.tab /\ f.stacks = n.stacks /\ f.books["files"].ids = n.books["files"].ids
        /\ f.books["files"].cur = s /\ SlipsOf(f) = SlipsOf(n)
    BY <2>3, <2>5, BookedFacts DEF SlipsOf
  <2>7. f.books["files"].cur \notin DOMAIN f.stacks => p \in PageIds \ Paged(f.stacks)
    BY <2>6
  <2>8. /\ u[3] = sl /\ Loose(u[1], u[2])
        /\ u[1].tab = f.tab /\ u[1].books = f.books
        /\ DOMAIN u[1].stacks = DOMAIN f.stacks \cup {f.books["files"].cur}
        /\ Paged(u[1].stacks) \subseteq Paged(f.stacks) \cup {p}
        /\ u[2].shown = g.shown
    BY <1>1, <2>2, <2>6, <2>7, RootFacts
  <2>9. CurOf(u[1]) = s /\ SlipsOf(u[1]) = SlipsOf(n) /\ DOMAIN u[1].stacks = DOMAIN n.stacks \cup {s}
    BY <2>6, <2>8 DEF CurOf, SlipsOf
  <2>10. StacksThere(u[1])
    BY <2>9 DEF StacksThere
  <2>11. u[2].shown \subseteq {old}
    BY <2>8 DEF old
  <2>12. Settles(u[1], h, R!Still)
    BY <2>4, <2>8, <2>10, <2>11, TurnFacts
  <2>13. r[1] = u[1] /\ r[2] = h /\ r[3] = sl /\ r = <<r[1], r[2], r[3]>>
    BY <2>1, <2>8
  <2>14. r[1].tab = "files" /\ r[1].books["files"].ids = n.books["files"].ids
         /\ Paged(r[1].stacks) \subseteq Paged(n.stacks) \cup {p}
    BY <2>6, <2>8, <2>13
  <2> QED
    BY <2>9, <2>12, <2>13, <2>14 DEF Switches
<1> QED
  BY <1>3, <1>4

-----------------------------------------------------------------------------
\* Slips that leave the row, and stacks that leave.

\* A slip leaves the row.
LEMMA SlipOut ==
  ASSUME NEW q, SlipsOk(q), NEW i \in 1..Len(q), NEW y, y = R!RemoveAt(q, i)
  PROVE  SlipsOk(y) /\ R!ToSet(y) = R!ToSet(q) \ {q[i]}
<1> DEFINE m == Len(q)
           c == SubSeq(q, 1, i - 1)
           x == SubSeq(q, i + 1, m)
<1>1. m \in Nat /\ q \in Seq(Slots) /\ DOMAIN q = 1..m /\ i \in Nat /\ 1 <= i /\ i <= m /\ i \in 1..m
      /\ MaxSlips \in Nat /\ m <= MaxSlips
  BY PanelParameters DEF SlipsOk, R!RouterAssumption
<1>2. \A k, l \in 1..m : q[k] = q[l] => k = l
  BY DEF SlipsOk
<1>3. /\ c \in Seq(Slots) /\ Len(c) = i - 1 /\ \A k \in 1..(i - 1) : c[k] = q[k]
  BY <1>1
<1>4. /\ x \in Seq(Slots) /\ Len(x) = m - i /\ \A k \in 1..(m - i) : x[k] = q[k + i]
  <2> DEFINE z == i + 1
  <2> HIDE DEF m
  <2>1. z \in Int /\ m \in Int /\ m - z + 1 = m - i /\ \A k \in 1..(m - i) : z + k - 1 = k + i
    BY <1>1
  <2>5. z <= m \/ m - i = 0
    BY <1>1
  <2>2. \A k \in z..m : q[k] \in Slots
    BY <1>1 DEF m
  <2>3. x = SubSeq(q, z, m)
    OBVIOUS
  <2> HIDE DEF z, x, m
  <2>4. /\ x \in Seq(Slots) /\ Len(x) = IF z <= m THEN m - z + 1 ELSE 0
        /\ \A k \in 1..(m - z + 1) : x[k] = q[z + k - 1]
    BY <2>1, <2>2, <2>3, SubSeqProperties
  <2> QED
    BY <2>1, <2>4, <2>5
<1>5. y = c \o x
  BY DEF R!RemoveAt
<1> HIDE DEF c, x, m
<1>6. y \in Seq(Slots) /\ Len(y) = m - 1 /\ DOMAIN y = 1..(m - 1)
  <2>1. y \in Seq(Slots) /\ Len(y) = Len(c) + Len(x)
    BY <1>3, <1>4, <1>5, ConcatProperties
  <2>2. Len(y) = m - 1
    BY <1>1, <1>3, <1>4, <2>1
  <2> QED
    BY <2>1, <2>2
<1>7. /\ \A k \in 1..(i - 1) : y[k] = q[k]
      /\ \A k \in i..(m - 1) : y[k] = q[k + 1]
  <2>1. ASSUME NEW k \in 1..(i - 1) PROVE y[k] = q[k]
    BY <1>1, <1>3, <1>4, <1>5
  <2>2. ASSUME NEW k \in i..(m - 1) PROVE y[k] = q[k + 1]
    <3>1. k - (i - 1) \in 1..(m - i) /\ (k - (i - 1)) + i = k + 1 /\ k \in 1..(m - 1) /\ k > i - 1
      BY <1>1
    <3>2. y[k] = x[k - (i - 1)]
      BY <1>1, <1>3, <1>4, <1>5, <3>1
    <3> QED
      BY <1>4, <3>1, <3>2
  <2> QED
    BY <2>1, <2>2
<1>8. /\ 1..(m - 1) = 1..(i - 1) \cup i..(m - 1)
      /\ \A k \in 1..(i - 1) : k \in 1..m /\ k # i
      /\ \A k \in i..(m - 1) : k + 1 \in 1..m /\ k + 1 # i /\ k + 1 \notin 1..(i - 1)
      /\ \A k \in 1..m : k = i \/ k \in 1..(i - 1) \/ (k - 1 \in i..(m - 1) /\ (k - 1) + 1 = k)
  BY <1>1
<1>9. \A k, l \in 1..(m - 1) : y[k] = y[l] => k = l
  <2> SUFFICES ASSUME NEW k \in 1..(m - 1), NEW l \in 1..(m - 1), y[k] = y[l] PROVE k = l
    OBVIOUS
  <2>1. CASE k \in 1..(i - 1) /\ l \in 1..(i - 1)
    BY <1>2, <1>7, <1>8, <2>1
  <2>2. CASE k \in i..(m - 1) /\ l \in i..(m - 1)
    <3>1. k + 1 = l + 1
      BY <1>2, <1>7, <1>8, <2>2
    <3> QED
      BY <1>1, <3>1
  <2>3. CASE k \in 1..(i - 1) /\ l \in i..(m - 1)
    BY <1>2, <1>7, <1>8, <2>3
  <2>4. CASE k \in i..(m - 1) /\ l \in 1..(i - 1)
    BY <1>2, <1>7, <1>8, <2>4
  <2> QED
    BY <1>8, <2>1, <2>2, <2>3, <2>4
<1>10. /\ \A z : z \in R!ToSet(q) <=> \E k \in 1..m : z = q[k]
       /\ \A z : z \in R!ToSet(y) <=> \E k \in 1..(m - 1) : z = y[k]
  BY <1>1, <1>6 DEF R!ToSet
<1>11. R!ToSet(y) \subseteq R!ToSet(q) \ {q[i]}
  <2> SUFFICES ASSUME NEW k \in 1..(m - 1) PROVE y[k] \in R!ToSet(q) /\ y[k] # q[i]
    BY <1>10
  <2>1. CASE k \in 1..(i - 1)
    <3>1. y[k] = q[k] /\ k \in 1..m /\ k # i
      BY <1>7, <1>8, <2>1
    <3> QED
      BY <1>1, <1>2, <1>10, <3>1
  <2>2. CASE k \in i..(m - 1)
    <3>1. y[k] = q[k + 1] /\ k + 1 \in 1..m /\ k + 1 # i
      BY <1>7, <1>8, <2>2
    <3> QED
      BY <1>1, <1>2, <1>10, <3>1
  <2> QED
    BY <1>8, <2>1, <2>2
<1>12. R!ToSet(q) \ {q[i]} \subseteq R!ToSet(y)
  <2> SUFFICES ASSUME NEW k \in 1..m, q[k] # q[i] PROVE q[k] \in R!ToSet(y)
    BY <1>10
  <2>1. CASE k \in 1..(i - 1)
    BY <1>7, <1>8, <1>10, <2>1
  <2>2. CASE k - 1 \in i..(m - 1) /\ (k - 1) + 1 = k
    <3>1. y[k - 1] = q[k] /\ k - 1 \in 1..(m - 1)
      BY <1>7, <1>8, <2>2
    <3> QED
      BY <1>10, <3>1
  <2> QED
    BY <1>8, <2>1, <2>2
<1>13. Len(y) <= MaxSlips
  BY <1>1, <1>6
<1>14. SlipsOk(y)
  BY <1>6, <1>9, <1>13 DEF SlipsOk
<1> QED
  BY <1>11, <1>12, <1>14

\* Stacks leave with their pages.
StacksWith(n, k) == [tab |-> n.tab, books |-> n.books, stacks |-> k]
OnStacks(n, ss)  == UNION {R!ToSet(n.stacks[s]) : s \in ss \cap DOMAIN n.stacks}

LEMMA LeaveFacts ==
  ASSUME NEW n, NEW g, Loose(n, g), NEW ss,
         NEW m, m = StacksWith(n, R!Without(n.stacks, ss)),
         NEW h, FlagsAre(h), h.shown = g.shown \ OnStacks(n, ss),
         h.running = g.running \ (OnStacks(n, ss) \cap g.shown),
         h.mounted = g.mounted, h.dead = g.dead \cup OnStacks(n, ss)
  PROVE  /\ Loose(m, h) /\ m.tab = n.tab /\ m.books = n.books /\ CurOf(m) = CurOf(n)
         /\ DOMAIN m.stacks = DOMAIN n.stacks \ ss /\ Paged(m.stacks) \subseteq Paged(n.stacks)
         /\ \A s \in DOMAIN n.stacks \ ss : m.stacks[s] = n.stacks[s]
<1> DEFINE k == R!Without(n.stacks, ss)
           ps == OnStacks(n, ss)
<1>1. NavIs(m) /\ m.tab = n.tab /\ m.books = n.books /\ CurOf(m) = CurOf(n) /\ m.stacks = k
  BY DEF StacksWith, NavIs, CurOf
<1>2. StacksOk(n.stacks) /\ g.running = g.shown \cap g.mounted /\ g.shown \subseteq Paged(n.stacks)
      /\ g.dead \cap Paged(n.stacks) = {} /\ n.tab \in R!Tab /\ BooksOk(n.books)
  BY DEF Loose
<1>4. /\ StacksOk(k) /\ DOMAIN k = DOMAIN n.stacks \ ss
      /\ \A u \in DOMAIN k : k[u] = n.stacks[u]
      /\ Paged(k) \subseteq Paged(n.stacks)
      /\ \A u \in ss \cap DOMAIN n.stacks : Paged(k) \cap R!ToSet(n.stacks[u]) = {}
  BY <1>2, StacksLeft
<1> HIDE DEF k
<1>5. Paged(k) \cap ps = {}
  BY <1>4 DEF OnStacks
<1>6. Paged(n.stacks) \subseteq Paged(k) \cup ps
  <2> SUFFICES ASSUME NEW s \in DOMAIN n.stacks, NEW x \in R!ToSet(n.stacks[s]) PROVE x \in Paged(k) \cup ps
    BY DEF Paged
  <2>1. CASE s \in ss
    BY <2>1 DEF OnStacks
  <2>2. CASE s \notin ss
    <3>1. s \in DOMAIN k /\ k[s] = n.stacks[s]
      BY <1>4, <2>2
    <3> QED
      BY <3>1 DEF Paged
  <2> QED
    BY <2>1, <2>2
<1> HIDE DEF ps
<1>7. h.shown = g.shown \ ps /\ h.running = g.running \ (ps \cap g.shown) /\ h.dead = g.dead \cup ps
  BY DEF ps
<1>8. h.running = h.shown \cap h.mounted /\ h.shown \subseteq Paged(k) /\ h.dead \cap Paged(k) = {}
  BY <1>2, <1>4, <1>5, <1>6, <1>7
<1>9. Loose(m, h)
  BY <1>1, <1>2, <1>4, <1>8 DEF Loose
<1> QED
  BY <1>1, <1>4, <1>9

\* A page of one stack is on no other.
LEMMA Apart ==
  ASSUME NEW n, StacksOk(n.stacks), NEW s \in DOMAIN n.stacks, NEW ss, s \notin ss
  PROVE  R!ToSet(n.stacks[s]) \cap OnStacks(n, ss) = {}
BY DEF StacksOk, OnStacks

\* A stack that is not on screen goes back to its first page.
HeadOnly(n, s) == [n EXCEPT !.stacks[s] = <<Head(n.stacks[s])>>]

LEMMA HeadFacts ==
  ASSUME NEW n, NEW g, Loose(n, g), NEW s \in DOMAIN n.stacks,
         g.shown \cap R!ToSet(n.stacks[s]) = {},
         NEW m, m = HeadOnly(n, s), NEW h, h = R!destroy(g, R!ToSet(Tail(n.stacks[s])))
  PROVE  /\ Loose(m, h) /\ m.tab = n.tab /\ m.books = n.books /\ DOMAIN m.stacks = DOMAIN n.stacks
         /\ CurOf(m) = CurOf(n) /\ m.stacks[s] = <<Head(n.stacks[s])>> /\ Paged(m.stacks) \subseteq Paged(n.stacks)
         /\ \A u \in DOMAIN n.stacks \ {s} : m.stacks[u] = n.stacks[u]
         /\ h.shown = g.shown /\ h.top = g.top
<1> DEFINE st == n.stacks[s]
           q == <<Head(st)>>
           mid == R!ToSet(Tail(st))
           k == [n.stacks EXCEPT ![s] = q]
<1>1. StacksOk(n.stacks) /\ StackOk(st) /\ NavIs(n) /\ n.tab \in R!Tab /\ BooksOk(n.books) /\ FlagsAre(g)
      /\ g.running = g.shown \cap g.mounted /\ g.shown \subseteq Paged(n.stacks) /\ g.dead \cap Paged(n.stacks) = {}
  BY DEF Loose, StacksOk
<1> HIDE DEF st
<1>2. StackOk(q) /\ R!ToSet(q) = {Head(st)} /\ mid = R!ToSet(st) \ {Head(st)} /\ Head(st) \in R!ToSet(st)
  BY <1>1, FirstOnly, StackFacts
<1>3. h = R!destroy(g, mid) /\ k = [n.stacks EXCEPT ![s] = q] /\ st = n.stacks[s]
  BY DEF st
<1>4. m = [tab |-> n.tab, books |-> n.books, stacks |-> k]
  BY <1>1 DEF HeadOnly, NavIs, st
<1>5. q = <<Head(n.stacks[s])>>
  BY DEF st
<1> HIDE DEF q, mid, k
<1>6. NavIs(m) /\ m.tab = n.tab /\ m.books = n.books /\ m.stacks = k /\ CurOf(m) = CurOf(n)
  BY <1>4 DEF NavIs, CurOf
<1>7. R!ToSet(st) \subseteq Paged(n.stacks)
  BY <1>3 DEF Paged
<1>8. /\ StacksOk(k) /\ DOMAIN k = DOMAIN n.stacks /\ k[s] = q
      /\ \A u \in DOMAIN n.stacks \ {s} : k[u] = n.stacks[u]
      /\ Paged(k) \subseteq Paged(n.stacks) \cup R!ToSet(q)
      /\ Paged(k) \cap (R!ToSet(n.stacks[s]) \ R!ToSet(q)) = {}
  <2>1. R!ToSet(q) \cap Paged(n.stacks) \subseteq R!ToSet(n.stacks[s])
    BY <1>2, <1>3
  <2> QED
    BY <1>1, <1>2, <1>3, <2>1, StackChanged
<1>9. Paged(k) \subseteq Paged(n.stacks) /\ Paged(k) \cap mid = {}
  BY <1>2, <1>3, <1>7, <1>8
<1>10. h = [shown |-> g.shown, running |-> g.running, mounted |-> g.mounted, dead |-> g.dead \cup mid, top |-> g.top]
  BY <1>1, <1>3 DEF R!destroy, FlagsAre
<1>11. \A x \in Paged(n.stacks) : x \in R!ToSet(st) \/ x \in Paged(k)
  <2> SUFFICES ASSUME NEW u \in DOMAIN n.stacks, NEW x \in R!ToSet(n.stacks[u]), u # s PROVE x \in Paged(k)
    BY <1>3 DEF Paged
  <2>1. k[u] = n.stacks[u] /\ u \in DOMAIN k
    BY <1>8
  <2> QED
    BY <2>1 DEF Paged
<1>12. Loose(m, h)
  <2>1. FlagsAre(h) /\ h.shown = g.shown /\ h.running = h.shown \cap h.mounted /\ h.dead = g.dead \cup mid
    BY <1>1, <1>10 DEF FlagsAre
  <2>2. h.shown \subseteq Paged(k) /\ h.dead \cap Paged(k) = {}
    BY <1>1, <1>3, <1>9, <1>11, <2>1
  <2> QED
    BY <1>1, <1>6, <1>8, <2>1, <2>2 DEF Loose
<1> QED
  BY <1>5, <1>6, <1>8, <1>9, <1>10, <1>12

-----------------------------------------------------------------------------
\* The pages an operation uses, and those that stay free for the next.

LEMMA SameCount ==
  ASSUME NEW s
  PROVE  (R!IsFiniteSet(s) <=> IsFiniteSet(s)) /\ R!Cardinality(s) = Cardinality(s)
<1>1. R!IsFiniteSet(s) <=> IsFiniteSet(s)
  BY DEF R!IsFiniteSet, IsFiniteSet
<1>2. R!Cardinality(s) = Cardinality(s)
  BY DEF R!Cardinality, Cardinality
<1> QED
  BY <1>1, <1>2

LEMMA RouterConstants ==
  /\ MaxSlips \in Nat \ {0} /\ Slips \cap R!Tab = {} /\ PageIds \subseteq Nat /\ IsFiniteSet(PageIds)
  /\ None \notin PageIds /\ None \notin R!Tab
<1>1. MaxSlips \in Nat \ {0}
  BY PanelParameters DEF R!RouterAssumption
<1>2. Slips \cap R!Tab = {} /\ None \notin R!Tab
  BY PanelParameters DEF R!RouterAssumption
<1>3. PageIds \subseteq Nat /\ IsFiniteSet(PageIds)
  BY PanelParameters, SameCount DEF R!RouterAssumption
<1>4. None \notin PageIds
  BY <1>3, NoneAssumption
<1> QED
  BY <1>1, <1>2, <1>3, <1>4

\* The smallest of the pages.
LEMMA LeastFacts ==
  ASSUME NEW some, some \subseteq Nat, some # {}
  PROVE  R!Least(some) \in some
<1> DEFINE Less == {ss \in Nat \X Nat : ss[1] < ss[2]}
<1>1. IsWellFoundedOn(Less, Nat)
  BY NatLessThanWellFounded DEF OpToRel
<1>2. PICK z \in some : \A y \in some : ~(<<y, z>> \in Less)
  <2> HIDE DEF Less
  <2> QED
    BY <1>1, WFMin
<1>3. ASSUME NEW y \in some PROVE z <= y
  <2>1. y \in Nat /\ z \in Nat
    OBVIOUS
  <2>2. ~(y < z)
    <3> SUFFICES ASSUME y < z PROVE <<y, z>> \in Less
      BY <1>2
    <3> QED
      BY <2>1
  <2> QED
    BY <2>1, <2>2
<1>4. \E x \in some : \A y \in some : x <= y
  BY <1>3
<1> QED
  BY <1>4 DEF R!Least

Four(free) == \E x, y, z, u \in free : x # y /\ x # z /\ x # u /\ y # z /\ y # u /\ z # u

\* Taking one and another page leaves the rest.
LEMMA LeftFacts ==
  ASSUME NEW free, free \subseteq PageIds,
         NEW one, one = R!Least(free), NEW two, two = R!Least(free \ {one})
  PROVE  /\ free # {} => one \in free
         /\ Two(free) => one \in free /\ two \in free \ {one}
         /\ Three(free) => Two(free) /\ free \ {one, two} # {}
         /\ Four(free) => Three(free) /\ Two(free \ {one, two})
<1>1. free # {} => one \in free
  BY LeastFacts, RouterConstants
<1>2. Two(free) => free # {} /\ free \ {one} # {}
  BY DEF Two
<1>3. free \ {one} # {} => two \in free \ {one}
  <2> DEFINE q == free \ {one}
  <2>1. q \subseteq Nat /\ two = R!Least(q)
    BY RouterConstants
  <2> HIDE DEF q
  <2>2. q # {} => two \in q
    BY <2>1, LeastFacts
  <2> QED
    BY <2>2 DEF q
<1>4. Three(free) => Two(free) /\ free \ {one, two} # {}
  BY DEF Three, Two
<1>5. Four(free) => Three(free)
  BY DEF Four, Three
<1>6. ASSUME Four(free) PROVE Two(free \ {one, two})
  <2>1. PICK x, y, z, u \in free : x # y /\ x # z /\ x # u /\ y # z /\ y # u /\ z # u
    BY <1>6 DEF Four
  <2> QED
    BY <2>1 DEF Two
<1> QED
  BY <1>1, <1>2, <1>3, <1>4, <1>5, <1>6

LEMMA FreeIs == R!Free = FreeOf(nav, pages, slide, drag)
BY PagedIs DEF R!Free, FreeOf

LEMMA TakeOne ==
  ASSUME NEW s, IsFiniteSet(s), NEW m \in Nat, Cardinality(s) > m
  PROVE  \E x \in s : IsFiniteSet(s \ {x}) /\ Cardinality(s \ {x}) > m - 1
<1>1. Cardinality(s) \in Nat
  BY FS_CardinalityType
<1>2. s # {}
  BY <1>1, FS_EmptySet
<1>3. PICK x : x \in s
  BY <1>2
<1>4. IsFiniteSet(s \ {x}) /\ Cardinality(s \ {x}) = Cardinality(s) - 1
  BY <1>3, FS_RemoveElement
<1>5. Cardinality(s \ {x}) > m - 1
  BY <1>1, <1>4
<1> QED
  BY <1>3, <1>4, <1>5

LEMMA RoomFacts == R!Room => Four(R!Free)
<1> SUFFICES ASSUME R!Room PROVE Four(R!Free)
  OBVIOUS
<1> DEFINE s == R!Free
<1>1. s \subseteq PageIds
  BY FreeIs DEF FreeOf
<1>2. IsFiniteSet(s)
  BY <1>1, RouterConstants, FS_Subset
<1>3. Cardinality(s) > 3
  BY SameCount DEF R!Room
<1> HIDE DEF s
<1>4. PICK x \in s : IsFiniteSet(s \ {x}) /\ Cardinality(s \ {x}) > 2
  <2>1. 3 \in Nat /\ 3 - 1 = 2
    OBVIOUS
  <2> QED
    BY <1>2, <1>3, <2>1, TakeOne
<1>5. PICK y \in s \ {x} : IsFiniteSet((s \ {x}) \ {y}) /\ Cardinality((s \ {x}) \ {y}) > 1
  <2>1. 2 \in Nat /\ 2 - 1 = 1
    OBVIOUS
  <2> QED
    BY <1>4, <2>1, TakeOne
<1>6. PICK z \in (s \ {x}) \ {y} :
        IsFiniteSet(((s \ {x}) \ {y}) \ {z}) /\ Cardinality(((s \ {x}) \ {y}) \ {z}) > 0
  <2>1. 1 \in Nat /\ 1 - 1 = 0
    OBVIOUS
  <2> QED
    BY <1>5, <2>1, TakeOne
<1>7. PICK u : u \in ((s \ {x}) \ {y}) \ {z}
  BY <1>6, FS_EmptySet
<1> QED
  BY <1>4, <1>5, <1>6, <1>7 DEF Four, s

\* The pages an operation uses.
Uses(n, sl, r, ps) ==
  /\ Paged(r[1].stacks) \subseteq Paged(n.stacks) \cup ps
  /\ r[3] = sl \/ {r[3].top, r[3].under} \subseteq Paged(n.stacks) \cup ps

LEMMA StepUses == ASSUME NEW n, NEW sl, NEW r, NEW ps, Step(n, sl, r, ps) PROVE Uses(n, sl, r, ps)
BY DEF Step, Uses

LEMMA UsesOn ==
  ASSUME NEW n, NEW sl, NEW r, NEW ps, Uses(n, sl, r, ps), NEW q, NEW qs, Uses(r[1], r[3], q, qs)
  PROVE  Uses(n, sl, q, ps \cup qs)
<1>1. Paged(q[1].stacks) \subseteq Paged(n.stacks) \cup (ps \cup qs)
  BY DEF Uses
<1>2. q[3] = sl \/ {q[3].top, q[3].under} \subseteq Paged(n.stacks) \cup (ps \cup qs)
  BY DEF Uses
<1> QED
  BY <1>1, <1>2 DEF Uses

\* What it did not use is free afterwards.
LEMMA FreeStays ==
  ASSUME NEW n, NEW g, NEW sl, NEW r, NEW ps, Uses(n, sl, r, ps),
         NEW h, h.running \subseteq Paged(r[1].stacks)
  PROVE  FreeOf(n, g, sl, R!NoDrag) \ ps \subseteq FreeOf(r[1], h, r[3], R!NoDrag)
<1> SUFFICES ASSUME NEW y \in FreeOf(n, g, sl, R!NoDrag), y \notin ps
             PROVE  y \in FreeOf(r[1], h, r[3], R!NoDrag)
  OBVIOUS
<1>1. /\ y \in PageIds /\ y \notin Paged(n.stacks) /\ y # sl.top /\ y # sl.under
      /\ y # R!NoDrag.top /\ y # R!NoDrag.under
  BY DEF FreeOf
<1>2. y \notin Paged(r[1].stacks) /\ y \notin h.running
  BY <1>1 DEF Uses
<1>3. y # r[3].top /\ y # r[3].under
  BY <1>1 DEF Uses
<1> QED
  BY <1>1, <1>2, <1>3 DEF FreeOf

LEMMA SparedMore ==
  ASSUME NEW sl, NEW free, Spared(sl, free), NEW more, free \subseteq more
  PROVE  Spared(sl, more)
<1>1. Two(free) => Two(more)
  BY DEF Two
<1>2. Three(free) => Three(more)
  BY DEF Three
<1> QED
  BY <1>1, <1>2 DEF Spared

\* What an operation came to is taken over.
LEMMA Becomes ==
  ASSUME NEW r, Settles(r[1], r[2], r[3]), NEW dr, R!Become(r, dr)
  PROVE  /\ Settles(nav', pages', slide') /\ nav' = r[1] /\ slide' = r[3] /\ drag' = dr
         /\ pages'.running \subseteq Paged(r[1].stacks)
<1>1. nav' = r[1] /\ slide' = r[3] /\ drag' = dr /\ pages' = R!Tidy(r[2], r[1], r[3], dr)
  BY DEF R!Become
<1>2. Settles(r[1], pages', r[3]) /\ pages'.running \subseteq Paged(r[1].stacks)
  BY <1>1, TidyFacts
<1> QED
  BY <1>1, <1>2

LEMMA OwnedStays ==
  ASSUME NEW n, NEW c, Owned(n, c), BooksOk(n.books), NEW sl, NEW r, NEW ps, Step(n, sl, r, ps)
  PROVE  Owned(r[1], c)
<1>1. SlipsOf(r[1]) = SlipsOf(n) /\ DOMAIN n.stacks \subseteq DOMAIN r[1].stacks
  BY DEF Step, SlipsOf
<1>2. \A t \in R!Tab : n.books[t].cur \in R!Tab \cup SlipsOf(n)
  BY BookFacts, RouterConstants DEF SlipsOf
<1>3. DOMAIN r[1].stacks \subseteq R!Tab \cup SlipsOf(n) \cup c
  BY <1>2 DEF Step, Owned
<1> QED
  BY <1>1, <1>3 DEF Owned

\* An operation while no finger swipes.
LEMMA Calmly ==
  ASSUME NEW r, NEW ps, Settles(r[1], r[2], r[3]), Owned(r[1], closing'), R!Become(r, R!NoDrag),
         NEW n, NEW g, NEW sl, Uses(n, sl, r, ps), Spared(r[3], FreeOf(n, g, sl, R!NoDrag) \ ps),
         pending' \in R!Tab \cup {None}, pending' # None => r[3].kind # "none"
  PROVE  RouterInv'
<1>1. /\ Settles(nav', pages', slide') /\ nav' = r[1] /\ slide' = r[3] /\ drag' = R!NoDrag
      /\ pages'.running \subseteq Paged(r[1].stacks)
  BY Becomes
<1>2. FreeOf(n, g, sl, R!NoDrag) \ ps \subseteq FreeOf(nav', pages', slide', drag')
  BY <1>1, FreeStays
<1>3. Spared(slide', FreeOf(nav', pages', slide', drag'))
  BY <1>1, <1>2, SparedMore
<1>4. Dragged(nav', slide', drag')
  BY <1>1 DEF Dragged, R!NoDrag
<1>5. RouterIs(nav', pages', pending', slide', drag', closing')
  BY <1>1, <1>3, <1>4 DEF RouterIs
<1> QED
  BY <1>5 DEF RouterInv

-----------------------------------------------------------------------------
\* Each operation keeps the invariant: taps, and pages pushed and left.

\* What every operation finds.
LEMMA Found ==
  ASSUME RouterInv
  PROVE  /\ Settles(nav, pages, slide) /\ Owned(nav, closing) /\ Spared(slide, R!Free)
         /\ Loose(nav, pages) /\ BooksOk(nav.books) /\ nav.tab \in R!Tab /\ StacksOk(nav.stacks)
         /\ R!Free \cap Paged(nav.stacks) = {} /\ R!Free \subseteq PageIds
         /\ pending \in R!Tab \cup {None} /\ (pending # None => R!busy)
         /\ R!depth = Len(nav.stacks[CurOf(nav)])
<1>1. RouterIs(nav, pages, pending, slide, drag, closing)
  BY DEF RouterInv
<1>2. Settles(nav, pages, slide) /\ Owned(nav, closing) /\ Spared(slide, R!Free)
  BY <1>1, FreeIs DEF RouterIs
<1>3. Loose(nav, pages) /\ BooksOk(nav.books) /\ nav.tab \in R!Tab /\ StacksOk(nav.stacks)
  BY <1>2 DEF Settles, Loose
<1>4. R!Free \cap Paged(nav.stacks) = {} /\ R!Free \subseteq PageIds
  BY FreeIs DEF FreeOf
<1>5. pending \in R!Tab \cup {None} /\ (pending # None => R!busy)
  BY <1>1 DEF RouterIs, R!busy
<1>6. R!depth = Len(nav.stacks[CurOf(nav)])
  BY DEF R!depth, R!StackOf, CurOf
<1> QED
  BY <1>2, <1>3, <1>4, <1>5, <1>6

LEMMA CalmFacts ==
  ASSUME RouterInv, ~MidSlide, R!Calm
  PROVE  drag = R!NoDrag
BY DEF RouterInv, RouterIs, Dragged, R!Calm

\* An operation done while nothing slides, of whose pages enough were free.
LEMMA Done ==
  ASSUME RouterInv, drag = R!NoDrag, NEW r, NEW ps, Step(nav, slide, r, ps), R!Become(r, drag),
         closing' = closing, Spared(r[3], R!Free \ ps),
         pending' \in R!Tab \cup {None}, pending' # None => r[3].kind # "none"
  PROVE  RouterInv'
<1>1. Settles(r[1], r[2], r[3]) /\ Uses(nav, slide, r, ps)
  BY StepUses DEF Step
<1>2. Owned(r[1], closing')
  BY Found, OwnedStays
<1>3. Spared(r[3], FreeOf(nav, pages, slide, R!NoDrag) \ ps) /\ R!Become(r, R!NoDrag)
  BY FreeIs
<1> QED
  BY <1>1, <1>2, <1>3, Calmly

LEMMA NotBusy ==
  ASSUME RouterInv, ~R!busy
  PROVE  pending = None /\ slide.kind = "none" /\ slide = R!Still /\ slide.next = "none"
<1>1. pending = None /\ slide.kind = "none"
  BY Found DEF R!busy
<1>2. slide = R!Still
  BY <1>1, Found DEF Settles, SlideIs
<1> QED
  BY <1>1, <1>2 DEF R!Still

\* There is a page to open, another and more.
LEMMA FreshFacts ==
  ASSUME RouterInv, R!Room
  PROVE  /\ R!Fresh \in R!Free /\ R!Second \in R!Free \ {R!Fresh} /\ R!Free \ {R!Fresh} # {}
         /\ Two(R!Free \ {R!Fresh, R!Second}) /\ Three(R!Free)
<1> DEFINE s == R!Free
           one == R!Fresh
           two == R!Second
<1>1. s \subseteq PageIds /\ one = R!Least(s) /\ two = R!Least(s \ {one}) /\ Four(s)
  BY Found, RoomFacts DEF R!Fresh, R!Second
<1> HIDE DEF s, one, two
<1>2. Three(s) /\ Two(s \ {one, two})
  BY <1>1, LeftFacts
<1>3. Two(s)
  BY <1>1, <1>2, LeftFacts
<1>4. one \in s /\ two \in s \ {one}
  BY <1>1, <1>3, LeftFacts
<1> QED
  BY <1>2, <1>4 DEF s, one, two

\* Nothing needs a page after a slide of these.
LEMMA NeedsNone ==
  ASSUME NEW sl, sl = R!Still \/ (sl.kind = "back" /\ sl.next = "none"), NEW free
  PROVE  Spared(sl, free)
BY DEF Spared, R!Still

LEMMA TapTabKeeps ==
  ASSUME RouterInv, ~MidSlide, NEW t \in R!Tab, R!TapTab(t)
  PROVE  RouterInv'
<1>1. drag = R!NoDrag /\ closing' = closing
  BY CalmFacts DEF R!TapTab
<1>2. CASE R!busy
  <2>1. pending' = t /\ nav' = nav /\ pages' = pages /\ slide' = slide /\ drag' = drag
    BY <1>2 DEF R!TapTab
  <2> QED
    BY <1>1, <1>2, <2>1 DEF RouterInv, RouterIs, R!busy
<1>3. CASE ~R!busy
  <2>1. /\ pending' = pending
        /\ R!Room \/ nav.books[t].cur \in DOMAIN nav.stacks
    BY <1>3 DEF R!TapTab
  <2>2. PICK v \in BOOLEAN : R!Become(R!go(R!Now, t, R!Fresh, v, "none"), drag)
    BY <1>3 DEF R!TapTab
  <2> DEFINE r == R!go(<<nav, pages, slide>>, t, R!Fresh, v, "none")
             p == R!Fresh
             x == "none"
  <2>3. R!Become(r, drag) /\ r = R!go(<<nav, pages, slide>>, t, p, v, x) /\ x = "none" /\ x \in {"none", "pop", "push"}
    BY <2>2 DEF R!Now
  <2>4. R!Room => p \in R!Free
    BY FreshFacts
  <2> HIDE DEF r, p, x
  <2>5. nav.books[t].cur \notin DOMAIN nav.stacks => p \in PageIds \ Paged(nav.stacks)
    BY <2>1, <2>4, Found
  <2>6. /\ Settles(nav, pages, slide) /\ slide.kind = "none" /\ MaxSlips \in Nat \ {0} /\ pending = None
    BY <1>3, Found, NotBusy, RouterConstants
  <2>7. Step(nav, slide, r, {p})
    BY <2>3, <2>5, <2>6, GoFacts
  <2>8. SameOrBack(r[3], slide, x)
    BY <2>3, <2>5, <2>6, GoFacts
  <2>9. Spared(r[3], R!Free \ {p})
    BY <1>3, <2>3, <2>8, NotBusy, NeedsNone DEF SameOrBack
  <2> QED
    BY <1>1, <2>1, <2>3, <2>6, <2>7, <2>9, Done
<1> QED
  BY <1>2, <1>3

LEMMA NextTaps ==
  ASSUME RouterInv, R!nextTab
  PROVE  \E t \in R!Tab : R!TapTab(t)
<1> DEFINE q == <<"overview", "files", "network">>
           y == IF pending = None THEN nav.tab ELSE pending
           i == CHOOSE k \in DOMAIN q : q[k] = y
           t == q[(i % Len(q)) + 1]
<1>1. R!TapTab(t)
  BY DEF R!nextTab
<1>2. DOMAIN q = {1, 2, 3} /\ Len(q) = 3 /\ q[1] = "overview" /\ q[2] = "files" /\ q[3] = "network"
  OBVIOUS
<1>3. y \in {"overview", "files", "network"}
  BY Found, TabIs
<1> HIDE DEF q, y
<1>4. \E k \in DOMAIN q : q[k] = y
  BY <1>2, <1>3
<1>5. i \in {1, 2, 3}
  BY <1>2, <1>4
<1> HIDE DEF i
<1>6. (i % 3) + 1 \in {1, 2, 3}
  BY <1>5
<1>7. t \in R!Tab
  BY <1>2, <1>6, TabIs
<1> HIDE DEF t
<1> QED
  BY <1>1, <1>7

LEMMA NextTabKeeps ==
  ASSUME RouterInv, ~MidSlide, R!nextTab
  PROVE  RouterInv'
BY NextTaps, TapTabKeeps

LEMMA PushKeeps ==
  ASSUME RouterInv, ~MidSlide, R!Push
  PROVE  RouterInv'
<1>1. drag = R!NoDrag /\ closing' = closing /\ ~R!busy /\ R!Room /\ pending' = pending
  BY CalmFacts DEF R!Push
<1>2. PICK v \in BOOLEAN : R!Become(R!push(R!Now, R!Fresh, v), drag)
  BY DEF R!Push
<1> DEFINE p == R!Fresh
           r == R!push(<<nav, pages, slide>>, p, v)
<1>3. R!Become(r, drag) /\ r = R!push(<<nav, pages, slide>>, p, v)
  BY <1>2 DEF R!Now
<1>4. p \in R!Free /\ R!Free \ {p} # {}
  BY <1>1, FreshFacts
<1> HIDE DEF r, p
<1>5. slide.kind = "none" /\ pending = None /\ p \in PageIds \ Paged(nav.stacks) /\ Settles(nav, pages, slide)
  BY <1>1, <1>4, NotBusy, Found
<1>6. Step(nav, slide, r, {p}) /\ r[3].kind = "push" /\ r[3].next = "none"
  BY <1>3, <1>5, PushFacts
<1>7. Spared(r[3], R!Free \ {p})
  BY <1>4, <1>6 DEF Spared
<1> QED
  BY <1>1, <1>3, <1>5, <1>6, <1>7, Done

LEMMA BackKeeps ==
  ASSUME RouterInv, ~MidSlide, R!Back
  PROVE  RouterInv'
<1> DEFINE x == "none"
           r == R!back(<<nav, pages, slide>>, x)
           st == nav.stacks[CurOf(nav)]
<1>1. drag = R!NoDrag /\ closing' = closing /\ ~R!busy /\ pending' = pending
  BY CalmFacts DEF R!Back
<1>3. R!Become(r, drag) /\ r = R!back(<<nav, pages, slide>>, x) /\ x = "none" /\ x \in {"none", "pop", "push"} /\ st = nav.stacks[CurOf(nav)]
  BY DEF R!Now, R!Back
<1> HIDE DEF r, x, st
<1>5. slide.kind = "none" /\ pending = None /\ Settles(nav, pages, slide) /\ slide = R!Still
  BY <1>1, NotBusy, Found
<1>6. Step(nav, slide, r, {})
  BY <1>3, <1>5, BackFacts
<1>7. r[3] = slide \/ (r[3].kind = "back" /\ r[3].next = x)
  <2>1. Len(st) \in Nat
    BY <1>3, <1>5, SettlesFacts, TopFacts, StackFacts
  <2>2. CASE Len(st) < 2
    <3>1. r = <<nav, pages, slide>>
      BY <1>3, <1>5, <2>2, BackFacts
    <3> QED
      BY <3>1
  <2>3. CASE Len(st) >= 2
    BY <1>3, <1>5, <2>3, BackFacts
  <2> QED
    BY <2>1, <2>2, <2>3
<1>8. Spared(r[3], R!Free \ {})
  BY <1>3, <1>5, <1>7, NeedsNone
<1> QED
  BY <1>1, <1>3, <1>5, <1>6, <1>8, Done

LEMMA BackToKeeps ==
  ASSUME RouterInv, ~MidSlide, NEW l \in 1..MaxDepth, R!BackTo(l)
  PROVE  RouterInv'
<1> DEFINE x == "none"
           r == R!backTo(<<nav, pages, slide>>, l, x)
           st == nav.stacks[CurOf(nav)]
<1>1. drag = R!NoDrag /\ closing' = closing /\ ~R!busy /\ pending' = pending
  BY CalmFacts DEF R!BackTo
<1>3. R!Become(r, drag) /\ r = R!backTo(<<nav, pages, slide>>, l, x) /\ x = "none"
      /\ x \in {"none", "pop", "push"} /\ st = nav.stacks[CurOf(nav)] /\ l \in Nat \ {0}
  BY DEF R!Now, R!BackTo
<1> HIDE DEF r, x, st
<1>5. slide.kind = "none" /\ pending = None /\ Settles(nav, pages, slide) /\ slide = R!Still
  BY <1>1, NotBusy, Found
<1>6. Step(nav, slide, r, {})
  BY <1>3, <1>5, BackToFacts
<1>7. r[3] = slide \/ (r[3].kind = "back" /\ r[3].next = x)
  BY <1>3, <1>5, BackToFacts
<1>8. Spared(r[3], R!Free \ {})
  BY <1>3, <1>5, <1>7, NeedsNone
<1> QED
  BY <1>1, <1>3, <1>5, <1>6, <1>8, Done

-----------------------------------------------------------------------------
\* A page of another tab (goTo), and the end of a slide (done).

LEMMA GoToKeeps ==
  ASSUME RouterInv, ~MidSlide, NEW t \in R!Tab, R!GoTo(t)
  PROVE  RouterInv'
<1>1. drag = R!NoDrag /\ closing' = closing /\ ~R!busy /\ R!Room
  BY CalmFacts DEF R!GoTo
<1>2. pending' = pending
  BY <1>1 DEF R!GoTo
<1> DEFINE p == R!Fresh
           y == R!Second
<1>3. p \in R!Free /\ y \in R!Free \ {p} /\ Two(R!Free \ {p, y}) /\ Three(R!Free)
  BY <1>1, FreshFacts
<1>4. slide.kind = "none" /\ pending = None /\ Settles(nav, pages, slide) /\ slide = R!Still /\ slide.next = "none"
  BY <1>1, NotBusy, Found
<1>5. p \in PageIds \ Paged(nav.stacks) /\ y \in PageIds \ Paged(nav.stacks) /\ y # p
  BY <1>3, Found
<1>6. CASE t = nav.tab /\ R!depth > 1
  <2> DEFINE x == "pop"
             r == R!popToRoot(<<nav, pages, slide>>, x)
  <2>1. R!Become(r, drag) /\ r = R!popToRoot(<<nav, pages, slide>>, x) /\ x = "pop" /\ x \in {"none", "pop", "push"}
    BY <1>1, <1>6 DEF R!GoTo, R!Now
  <2> HIDE DEF x, r
  <2>2. Step(nav, slide, r, {})
    BY <1>4, <2>1, PopFacts
  <2>3. r[3] # slide => slide.kind = "none" /\ r[3].kind = "back" /\ r[3].next = x
    BY <1>4, <2>1, PopFacts
  <2>4. Spared(r[3], R!Free \ {})
    <3>1. R!Free \ {} = R!Free
      OBVIOUS
    <3> QED
      BY <1>3, <1>4, <2>1, <2>3, <3>1 DEF Spared
  <2> QED
    BY <1>1, <1>2, <1>4, <2>1, <2>2, <2>4, Done
<1>7. CASE ~(t = nav.tab /\ R!depth > 1)
  <2>1. PICK v \in BOOLEAN :
          R!Become(R!popThenPush(IF t = nav.tab THEN R!Now ELSE R!switchTab(R!Now, t, R!Fresh, v), R!Second, v), drag)
    BY <1>1, <1>7 DEF R!GoTo
  <2> DEFINE o == IF t = nav.tab THEN <<nav, pages, slide>> ELSE R!switchTab(<<nav, pages, slide>>, t, p, v)
             r == R!popThenPush(o, y, v)
  <2>2. R!Become(r, drag)
    BY <2>1 DEF R!Now
  <2>3. r = R!popThenPush(o, y, v)
    OBVIOUS
  <2> HIDE DEF r
  <2>4. Step(nav, slide, o, {p}) /\ o[3] = slide
    <3>1. CASE t = nav.tab
      <4>1. o = <<nav, pages, slide>>
        BY <3>1
      <4> HIDE DEF o
      <4>2. o[3] = slide
        BY <4>1
      <4> QED
        BY <1>4, <4>1, <4>2, StepStays
    <3>2. CASE t # nav.tab
      <4>1. o = R!switchTab(<<nav, pages, slide>>, t, p, v)
        BY <3>2
      <4> HIDE DEF o, p
      <4> QED
        BY <1>4, <1>5, <4>1, RouterConstants, SwitchFacts
    <3> QED
      BY <3>1, <3>2
  <2> HIDE DEF o, p, y
  <2>5. o = <<o[1], o[2], o[3]>> /\ Settles(o[1], o[2], o[3]) /\ Paged(o[1].stacks) \subseteq Paged(nav.stacks) \cup {p}
    BY <2>4 DEF Step
  <2>6. r = R!popThenPush(<<o[1], o[2], o[3]>>, y, v) /\ (o[3].kind = "none" => y \in PageIds \ Paged(o[1].stacks))
    BY <1>5, <2>3, <2>5
  <2>7. Step(o[1], o[3], r, {y}) /\ NotPop(r[3], o[3])
    BY <2>5, <2>6, PopPushFacts
  <2>8. Step(nav, slide, r, {p} \cup {y})
    BY <2>4, <2>7, StepOn
  <2>9. r[3].next # "pop"
    BY <1>4, <2>4, <2>7 DEF NotPop
  <2>10. Two(R!Free \ ({p} \cup {y})) /\ R!Free \ ({p} \cup {y}) # {}
    <3>1. R!Free \ ({p} \cup {y}) = R!Free \ {p, y}
      OBVIOUS
    <3> QED
      BY <1>3, <3>1 DEF Two
  <2>11. Spared(r[3], R!Free \ ({p} \cup {y}))
    BY <2>9, <2>10 DEF Spared
  <2> QED
    BY <1>1, <1>2, <1>4, <2>2, <2>8, <2>11, Done
<1> QED
  BY <1>6, <1>7

\* The slide ends; the tab that waited comes, and what goTo left to do.
LEMMA EndSlideSteps ==
  ASSUME RouterInv, R!EndSlide
  PROVE  RouterInv' /\ (pending # None => nav'.tab = pending)
<1> DEFINE h == IF slide.kind = "push" THEN R!show(pages, slide.top)
                ELSE R!show(R!setTop(R!destroy(pages, {slide.top}), slide.under), slide.under)
           spare == R!Free \cup (IF slide.kind = "back" THEN {slide.top} ELSE {})
           one == R!Least(spare)
           two == R!Least(spare \ {one})
           z == R!Still
           x == "none"
<1>1. /\ R!busy /\ pending' = None /\ closing' = closing
  BY DEF R!EndSlide
<1>2. PICK v \in BOOLEAN :
        LET gone == IF pending = None THEN <<nav, h, z>> ELSE R!go(<<nav, h, z>>, pending, one, v, x)
        IN  R!Become(CASE slide.next = "pop"  -> R!popThenPush(gone, two, v)
                       [] slide.next = "push" -> R!push(gone, two, v)
                       [] OTHER -> gone, drag)
  BY DEF R!EndSlide
<1> DEFINE gone == IF pending = None THEN <<nav, h, z>> ELSE R!go(<<nav, h, z>>, pending, one, v, x)
           r == CASE slide.next = "pop"  -> R!popThenPush(gone, two, v)
                  [] slide.next = "push" -> R!push(gone, two, v)
                  [] OTHER -> gone
<1>3. R!Become(r, drag)
  BY <1>2
<1>4. /\ Settles(nav, pages, slide) /\ slide.kind # "none" /\ Spared(slide, R!Free) /\ Owned(nav, closing)
      /\ pending \in R!Tab \cup {None} /\ SlideIs(slide) /\ BooksOk(nav.books)
  BY <1>1, Found DEF R!busy, Settles
<1>5. drag = R!NoDrag
  BY <1>4 DEF RouterInv, RouterIs, Dragged
<1>6. h = (IF slide.kind = "push" THEN R!show(pages, slide.top)
           ELSE R!show(R!setTop(R!destroy(pages, {slide.top}), slide.under), slide.under)) /\ z = R!Still
  OBVIOUS
<1>7. z.kind = "none" /\ z.next = "none"
  BY DEF R!Still
<1>8. /\ slide.kind = "push" => slide.next = "none" /\ spare = R!Free
      /\ slide.kind = "back" => spare = R!Free \cup {slide.top} /\ slide.top \in PageIds \ Paged(nav.stacks)
      /\ slide.kind \in {"push", "back"} /\ slide.next \in {"none", "pop", "push"}
  BY <1>4 DEF Settles, SlideIs
<1>9. one = R!Least(spare) /\ two = R!Least(spare \ {one})
  OBVIOUS
<1> HIDE DEF h, z
<1>10. Settles(nav, h, z)
  BY <1>4, <1>6, LandFacts
<1>11. x = "none" /\ x \in {"none", "pop", "push"}
  OBVIOUS
<1>12. gone = IF pending = None THEN <<nav, h, z>> ELSE R!go(<<nav, h, z>>, pending, one, v, x)
  OBVIOUS
<1>13. /\ slide.next = "pop" => r = R!popThenPush(gone, two, v)
       /\ slide.next = "push" => r = R!push(gone, two, v)
       /\ slide.next = "none" => r = gone
  OBVIOUS
<1> HIDE DEF spare, one, two, gone, r, x
<1>14. R!Free \cap (Paged(nav.stacks) \cup {slide.top, None}) = {} /\ R!Free \subseteq PageIds
  BY <1>5, Found, FreeIs DEF FreeOf, R!NoDrag
<1>15. spare \subseteq PageIds /\ spare \cap Paged(nav.stacks) = {} /\ None \notin spare
  BY <1>8, <1>14, RouterConstants
<1>16. /\ spare # {}
       /\ slide.next = "push" => Three(spare)
       /\ slide.next = "pop" => Four(spare)
  <2>1. spare # {}
    BY <1>4, <1>8 DEF Spared
  <2>2. ASSUME slide.next = "push" PROVE Three(spare)
    <3>1. Two(R!Free) /\ spare = R!Free \cup {slide.top} /\ slide.top \notin R!Free
      BY <1>4, <1>8, <1>14, <2>2 DEF Spared
    <3> QED
      BY <3>1 DEF Two, Three
  <2>3. ASSUME slide.next = "pop" PROVE Four(spare)
    <3>1. Three(R!Free) /\ spare = R!Free \cup {slide.top} /\ slide.top \notin R!Free
      BY <1>4, <1>8, <1>14, <2>3 DEF Spared
    <3> QED
      BY <3>1 DEF Three, Four
  <2> QED
    BY <2>1, <2>2, <2>3
<1>17. /\ one \in spare
       /\ slide.next # "none" => two \in spare \ {one} /\ spare \ {one, two} # {}
       /\ slide.next = "pop" => Two(spare \ {one, two})
  <2>1. one \in spare
    BY <1>9, <1>15, <1>16, LeftFacts
  <2>2. ASSUME slide.next = "pop" PROVE Three(spare) /\ Two(spare \ {one, two})
    BY <1>9, <1>15, <1>16, <2>2, LeftFacts
  <2>3. ASSUME slide.next # "none" PROVE Two(spare) /\ spare \ {one, two} # {}
    <3>1. Three(spare)
      BY <1>8, <1>16, <2>2, <2>3
    <3>2. Two(spare)
      BY <1>9, <1>15, <3>1, LeftFacts
    <3>3. spare \ {one, two} # {}
      BY <3>1 DEF Three
    <3> QED
      BY <3>2, <3>3
  <2>4. ASSUME slide.next # "none" PROVE two \in spare \ {one}
    BY <1>9, <1>15, <2>3, <2>4, LeftFacts
  <2> QED
    BY <2>1, <2>2, <2>3, <2>4
<1>18. Step(nav, z, gone, {one}) /\ SameOrBack(gone[3], z, x) /\ (pending # None => gone[1].tab = pending)
  <2>1. CASE pending = None
    <3>1. gone = <<nav, h, z>>
      BY <1>12, <2>1
    <3>2. gone[3] = z
      BY <3>1
    <3> QED
      BY <1>10, <2>1, <3>1, <3>2, StepStays DEF SameOrBack
  <2>2. CASE pending # None
    <3>1. pending \in R!Tab /\ gone = R!go(<<nav, h, z>>, pending, one, v, x)
      BY <1>4, <1>12, <2>2
    <3>2. nav.books[pending].cur \notin DOMAIN nav.stacks => one \in PageIds \ Paged(nav.stacks)
      BY <1>15, <1>17
    <3>3. MaxSlips \in Nat \ {0}
      BY RouterConstants
    <3>4. Step(nav, z, gone, {one})
      BY <1>7, <1>10, <1>11, <3>1, <3>2, <3>3, GoFacts
    <3>5. SameOrBack(gone[3], z, x)
      BY <1>7, <1>10, <1>11, <3>1, <3>2, <3>3, GoFacts
    <3>6. OnTab(gone, pending)
      BY <1>7, <1>10, <1>11, <3>1, <3>2, <3>3, GoFacts
    <3> QED
      BY <3>4, <3>5, <3>6 DEF OnTab
  <2> QED
    BY <2>1, <2>2
<1>19. /\ gone = <<gone[1], gone[2], gone[3]>> /\ Settles(gone[1], gone[2], gone[3])
       /\ Paged(gone[1].stacks) \subseteq Paged(nav.stacks) \cup {one}
       /\ gone[3].next = "none" /\ gone[3].kind # "push"
  BY <1>7, <1>11, <1>18 DEF Step, SameOrBack
<1>20. slide.next # "none" => two \in PageIds \ Paged(gone[1].stacks)
  BY <1>15, <1>17, <1>19
<1>21. spare \subseteq FreeOf(nav, h, z, R!NoDrag)
  <2>1. h.running \subseteq Paged(nav.stacks)
    BY <1>10 DEF Settles, Loose
  <2>2. z.top = None /\ z.under = None /\ R!NoDrag.top = None /\ R!NoDrag.under = None
    BY <1>6 DEF R!Still, R!NoDrag
  <2> QED
    BY <1>15, <2>1, <2>2 DEF FreeOf
<1>22. /\ Step(nav, z, r, {one} \cup {two}) /\ Spared(r[3], spare \ ({one} \cup {two}))
       /\ r[1].tab = gone[1].tab
  <2>0. {one} \cup {two} = {one, two}
    OBVIOUS
  <2>1. CASE slide.next = "none"
    <3>1. r = gone
      BY <1>13, <2>1
    <3>2. Step(nav, z, r, {one} \cup {two})
      BY <1>18, <3>1, StepWider
    <3>3. Spared(r[3], spare \ ({one} \cup {two}))
      BY <1>19, <3>1 DEF Spared
    <3> QED
      BY <3>1, <3>2, <3>3
  <2>2. CASE slide.next = "push"
    <3>1. r = R!push(<<gone[1], gone[2], gone[3]>>, two, v)
      BY <1>13, <1>19, <2>2
    <3>2. two \in PageIds \ Paged(gone[1].stacks)
      BY <1>20, <2>2
    <3>3. /\ Step(gone[1], gone[3], r, {two}) /\ r[1].tab = gone[1].tab
          /\ gone[3].kind = "none" => r[3].kind = "push" /\ r[3].next = "none"
          /\ gone[3].kind # "none" => r = <<gone[1], gone[2], gone[3]>>
      BY <1>19, <3>1, <3>2, PushFacts
    <3>4. r[3].next = "none"
      BY <1>19, <3>3
    <3>5. Spared(r[3], spare \ ({one} \cup {two}))
      BY <1>17, <2>0, <2>2, <3>4 DEF Spared
    <3>6. Step(nav, z, r, {one} \cup {two})
      BY <1>18, <3>3, StepOn
    <3> QED
      BY <3>3, <3>5, <3>6
  <2>3. CASE slide.next = "pop"
    <3>1. r = R!popThenPush(<<gone[1], gone[2], gone[3]>>, two, v)
      BY <1>13, <1>19, <2>3
    <3>2. two \in PageIds \ Paged(gone[1].stacks)
      BY <1>20, <2>3
    <3>3. /\ Step(gone[1], gone[3], r, {two}) /\ r[1].tab = gone[1].tab
          /\ r[3].next # "pop" \/ r[3] = gone[3]
      <4>1. Step(gone[1], gone[3], r, {two})
        BY <1>19, <3>1, <3>2, PopPushFacts
      <4>2. OnTab(r, gone[1].tab)
        BY <1>19, <3>1, <3>2, PopPushFacts
      <4>3. NotPop(r[3], gone[3])
        BY <1>19, <3>1, <3>2, PopPushFacts
      <4> QED
        BY <4>1, <4>2, <4>3 DEF OnTab, NotPop
    <3>4. r[3].next # "pop"
      BY <1>19, <3>3
    <3>5. Two(spare \ {one, two}) /\ spare \ {one, two} # {}
      BY <1>17, <2>3
    <3>6. Spared(r[3], spare \ ({one} \cup {two}))
      BY <2>0, <3>4, <3>5 DEF Spared
    <3>7. Step(nav, z, r, {one} \cup {two})
      BY <1>18, <3>3, StepOn
    <3> QED
      BY <3>3, <3>6, <3>7
  <2> QED
    BY <1>8, <2>1, <2>2, <2>3
<1>23. Spared(r[3], FreeOf(nav, h, z, R!NoDrag) \ ({one} \cup {two}))
  BY <1>21, <1>22, SparedMore
<1>24. Settles(r[1], r[2], r[3]) /\ Uses(nav, z, r, {one} \cup {two})
  BY <1>22, StepUses DEF Step
<1>25. Owned(r[1], closing')
  BY <1>1, <1>4, <1>22, OwnedStays
<1>26. RouterInv'
  BY <1>1, <1>3, <1>5, <1>23, <1>24, <1>25, Calmly
<1>27. nav' = r[1]
  BY <1>3 DEF R!Become
<1> QED
  BY <1>18, <1>22, <1>26, <1>27

-----------------------------------------------------------------------------
\* Modules that arrive, and the slip on screen.

\* A page's module arrives.
LEMMA ArriveKeeps ==
  ASSUME RouterInv, NEW p, R!Arrive(p)
  PROVE  RouterInv'
<1>1. /\ nav' = nav /\ pending' = pending /\ slide' = slide /\ drag' = drag /\ closing' = closing
      /\ pages' = [pages EXCEPT !.mounted = @ \cup {p},
                                !.running = IF p \in pages.shown THEN @ \cup {p} ELSE @]
      /\ p \notin pages.mounted \cup pages.dead
  BY DEF R!Arrive
<1>2. /\ Loose(nav, pages) /\ FlagsAre(pages) /\ pages.running = pages.shown \cap pages.mounted
      /\ pages.shown \subseteq Paged(nav.stacks) /\ Settles(nav, pages, slide)
  BY Found DEF Loose
<1> DEFINE y == IF p \in pages.shown THEN pages.running \cup {p} ELSE pages.running
<1>3. pages' = [pages EXCEPT !.mounted = pages.mounted \cup {p}, !.running = y]
  BY <1>1
<1>4. y = pages.shown \cap (pages.mounted \cup {p}) /\ y \subseteq pages.running \cup pages.shown
  BY <1>2
<1> HIDE DEF y
<1>5. pages' = [shown |-> pages.shown, running |-> y, mounted |-> pages.mounted \cup {p},
                dead |-> pages.dead, top |-> pages.top]
  BY <1>2, <1>3 DEF FlagsAre
<1>6. /\ pages'.shown = pages.shown /\ pages'.running = y /\ pages'.mounted = pages.mounted \cup {p}
      /\ pages'.dead = pages.dead /\ pages'.top = pages.top /\ FlagsAre(pages')
  BY <1>5 DEF FlagsAre
<1>7. Loose(nav, pages')
  BY <1>2, <1>4, <1>6 DEF Loose
<1>8. Settles(nav, pages', slide)
  BY <1>2, <1>6, <1>7 DEF Settles
<1>9. FreeOf(nav, pages, slide, drag) \subseteq FreeOf(nav, pages', slide, drag)
  BY <1>2, <1>4, <1>6 DEF FreeOf
<1>10. RouterIs(nav, pages, pending, slide, drag, closing)
  BY DEF RouterInv
<1>11. Spared(slide, FreeOf(nav, pages', slide, drag))
  BY <1>9, <1>10, SparedMore DEF RouterIs
<1>12. RouterIs(nav, pages', pending, slide, drag, closing)
  BY <1>8, <1>10, <1>11 DEF RouterIs
<1> QED
  BY <1>1, <1>12 DEF RouterInv

\* What a step in the row of slips finds.
LEMMA RowFound ==
  ASSUME RouterInv, ~MidSlide, R!OnFiles
  PROVE  /\ drag = R!NoDrag /\ slide = R!Still /\ slide.kind = "none" /\ pending = None /\ nav.tab = "files"
         /\ Settles(nav, pages, slide) /\ Loose(nav, pages) /\ Owned(nav, closing)
         /\ pages.shown = {R!TopOf(nav)} /\ pages.top = R!TopOf(nav)
         /\ CurOf(nav) \in DOMAIN nav.stacks /\ SlipsOf(nav) \subseteq DOMAIN nav.stacks
         /\ CurOf(nav) = nav.books["files"].cur /\ CurOf(nav) \in SlipsOf(nav)
         /\ R!Ids = nav.books["files"].ids /\ R!ToSet(R!Ids) = SlipsOf(nav) /\ SlipsOk(R!Ids)
         /\ SlipsOf(nav) \subseteq Slots /\ DOMAIN R!Ids = 1..Len(R!Ids) /\ Len(R!Ids) \in Nat \ {0}
         /\ \A i \in 1..Len(R!Ids) : R!Ids[i] \in SlipsOf(nav)
<1>1. drag = R!NoDrag /\ ~R!busy /\ nav.tab = "files"
  BY CalmFacts DEF R!OnFiles
<1>2. slide = R!Still /\ slide.kind = "none" /\ pending = None /\ slide.next = "none"
  BY <1>1, NotBusy
<1>3. Settles(nav, pages, slide) /\ Loose(nav, pages) /\ Owned(nav, closing) /\ BooksOk(nav.books)
  BY Found
<1>4. pages.shown = {R!TopOf(nav)} /\ pages.top = R!TopOf(nav) /\ StacksThere(nav)
  BY <1>2, <1>3 DEF Settles
<1>5. CurOf(nav) \in DOMAIN nav.stacks /\ SlipsOf(nav) \subseteq DOMAIN nav.stacks
  BY <1>1, <1>4 DEF StacksThere
<1>6. R!Ids = nav.books["files"].ids /\ CurOf(nav) = nav.books["files"].cur /\ R!ToSet(R!Ids) = SlipsOf(nav)
  BY <1>1 DEF R!Ids, CurOf, SlipsOf
<1>7. SlipsOk(R!Ids)
  BY <1>3, <1>6 DEF BooksOk
<1>8. /\ CurOf(nav) \in SlipsOf(nav) /\ SlipsOf(nav) \subseteq Slots
  BY <1>3, <1>6, BookFacts, RouterConstants DEF SlipsOf
<1>9. /\ DOMAIN R!Ids = 1..Len(R!Ids) /\ Len(R!Ids) \in Nat \ {0}
      /\ \A i \in 1..Len(R!Ids) : R!Ids[i] \in SlipsOf(nav)
  BY <1>3, <1>6, BookFacts, RouterConstants DEF SlipsOf
<1> QED
  BY <1>1, <1>2, <1>3, <1>4, <1>5, <1>6, <1>7, <1>8, <1>9

\* Another slip, which has its stack, comes on screen: what switchSlip makes.
LEMMA Switched ==
  ASSUME RouterInv, ~MidSlide, R!OnFiles, NEW s \in SlipsOf(nav), NEW p, NEW v \in BOOLEAN,
         NEW r, r = R!switchSlip(R!Now, s, p, v)
  PROVE  /\ r = <<r[1], r[2], r[3]>> /\ Settles(r[1], r[2], r[3]) /\ r[3] = slide
         /\ r[1].tab = "files" /\ SlipsOf(r[1]) = SlipsOf(nav) /\ r[1].books["files"].ids = R!Ids
         /\ CurOf(r[1]) = s /\ DOMAIN r[1].stacks = DOMAIN nav.stacks
<1> DEFINE n == nav
           g == pages
           sl == slide
<1>1. /\ MaxSlips \in Nat \ {0} /\ sl = R!Still /\ Loose(n, g) /\ n.tab = "files" /\ CurOf(n) \in DOMAIN n.stacks
      /\ g.shown = {R!TopOf(n)} /\ g.top = R!TopOf(n) /\ s \in SlipsOf(n)
      /\ SlipsOf(n) \subseteq DOMAIN n.stacks \cup {s} /\ s \in DOMAIN n.stacks
  BY RowFound, RouterConstants
<1>2. r = R!switchSlip(<<n, g, sl>>, s, p, v)
  BY DEF R!Now
<1>5. R!Ids = n.books["files"].ids
  BY DEF R!Ids
<1> HIDE DEF n, g, sl
<1>3. Switches(n, sl, s, p, r)
  BY <1>1, <1>2, SlipFacts
<1>4. r = <<r[1], r[2], r[3]>> /\ Settles(r[1], r[2], r[3]) /\ r[3] = sl /\ r[1].tab = "files"
      /\ r[1].books["files"].ids = n.books["files"].ids /\ CurOf(r[1]) = s
  BY <1>3 DEF Switches
<1>6. DOMAIN r[1].stacks = DOMAIN n.stacks \cup {s}
  BY <1>3 DEF Switches
<1>7. DOMAIN r[1].stacks = DOMAIN n.stacks
  BY <1>1, <1>6
<1>8. SlipsOf(r[1]) = SlipsOf(n)
  BY <1>4 DEF SlipsOf
<1> QED
  BY <1>4, <1>5, <1>7, <1>8 DEF n, g, sl

\* A step in the row of slips is done, no page slides after it.
LEMMA RowDone ==
  ASSUME RouterInv, ~MidSlide, R!OnFiles, NEW r, Settles(r[1], r[2], r[3]), r[3] = slide,
         Owned(r[1], closing'), R!Become(r, drag), pending' = pending
  PROVE  RouterInv'
<1>1. drag = R!NoDrag /\ slide = R!Still /\ pending = None /\ slide.kind = "none"
  BY RowFound
<1>2. /\ Settles(nav', pages', slide') /\ nav' = r[1] /\ slide' = r[3] /\ drag' = drag
  BY Becomes
<1>3. Dragged(nav', slide', drag')
  BY <1>1, <1>2 DEF Dragged, R!NoDrag
<1>4. Spared(slide', FreeOf(nav', pages', slide', drag'))
  BY <1>1, <1>2, NeedsNone
<1>5. RouterIs(nav', pages', pending', slide', drag', closing')
  BY <1>1, <1>2, <1>3, <1>4 DEF RouterIs
<1> QED
  BY <1>5 DEF RouterInv

LEMMA SwitchSlipTabKeeps ==
  ASSUME RouterInv, ~MidSlide, NEW s, R!switchSlipTab(s)
  PROVE  RouterInv'
<1> DEFINE r == R!switchSlip(R!Now, s, R!Fresh, TRUE)
           p == R!Fresh
           v == TRUE
<1>1. R!OnFiles /\ s \in R!ToSet(R!Ids) /\ R!Become(r, drag) /\ pending' = pending /\ closing' = closing
  BY DEF R!switchSlipTab
<1>2. s \in SlipsOf(nav) /\ Owned(nav, closing)
  BY <1>1, RowFound
<1>3. r = R!switchSlip(R!Now, s, p, v) /\ v \in BOOLEAN
  OBVIOUS
<1> HIDE DEF r, p, v
<1>4. /\ Settles(r[1], r[2], r[3]) /\ r[3] = slide
      /\ SlipsOf(r[1]) = SlipsOf(nav) /\ DOMAIN r[1].stacks = DOMAIN nav.stacks
  BY <1>1, <1>2, <1>3, Switched
<1>5. Owned(r[1], closing')
  BY <1>1, <1>2, <1>4 DEF Owned
<1> QED
  BY <1>1, <1>4, <1>5, RowDone

-----------------------------------------------------------------------------
\* Slips that close and open.

\* The row of slips becomes shorter, its slips that left wait for their timers.
LEMMA Shorter ==
  ASSUME RouterInv, ~MidSlide, R!OnFiles,
         NEW r, Settles(r[1], r[2], r[3]), r[3] = slide, r[1].tab = "files",
         SlipsOf(r[1]) = SlipsOf(nav), DOMAIN r[1].stacks = DOMAIN nav.stacks,
         NEW q, SlipsOk(q), R!ToSet(q) \subseteq SlipsOf(nav), CurOf(r[1]) \in R!ToSet(q),
         R!Become(<<[r[1] EXCEPT !.books["files"].ids = q], r[2], r[3]>>, drag),
         closing' = closing \cup (SlipsOf(nav) \ R!ToSet(q)), pending' = pending
  PROVE  RouterInv'
<1> DEFINE n == r[1]
           g == r[2]
           m == [n EXCEPT !.books["files"].ids = q]
           o == <<m, g, r[3]>>
<1>1. R!Become(o, drag) /\ m = [n EXCEPT !.books["files"].ids = q]
  OBVIOUS
<1>2. Settles(n, g, slide) /\ n.tab = "files" /\ R!ToSet(q) \subseteq SlipsOf(n) /\ CurOf(n) \in R!ToSet(q)
  OBVIOUS
<1>3. o[1] = m /\ o[2] = g /\ o[3] = slide
  OBVIOUS
<1>4. DOMAIN n.stacks = DOMAIN nav.stacks
  OBVIOUS
<1> HIDE DEF n, g, m, o
<1>5. Settles(m, g, slide) /\ m.stacks = n.stacks /\ SlipsOf(m) = R!ToSet(q)
  BY <1>1, <1>2, RowFacts
<1>6. Owned(nav, closing) /\ SlipsOf(nav) \subseteq DOMAIN nav.stacks /\ SlipsOf(nav) \subseteq Slots
  BY RowFound
<1>7. Owned(m, closing')
  BY <1>4, <1>5, <1>6 DEF Owned
<1> QED
  BY <1>1, <1>3, <1>5, <1>7, RowDone

\* A slip closes; the one on screen gives way to its neighbour.
LEMMA CloseSlipTabKeeps ==
  ASSUME RouterInv, ~MidSlide, NEW s, R!closeSlipTab(s)
  PROVE  RouterInv'
<1> DEFINE ids == R!Ids
           i == CHOOSE k \in DOMAIN ids : ids[k] = s
           near == IF i < Len(ids) THEN ids[i + 1] ELSE ids[i - 1]
           r == IF s = nav.books["files"].cur THEN R!switchSlip(R!Now, near, R!Fresh, TRUE) ELSE R!Now
           q == R!RemoveAt(ids, i)
           p == R!Fresh
           v == TRUE
<1>1. /\ R!OnFiles /\ s \in R!ToSet(ids) /\ Len(ids) > 1 /\ closing' = closing \cup {s} /\ pending' = pending
      /\ R!Become(<<[r[1] EXCEPT !.books["files"].ids = R!RemoveAt(@, i)], r[2], r[3]>>, drag)
  BY DEF R!closeSlipTab
<1>2. /\ slide = R!Still /\ nav.tab = "files" /\ Settles(nav, pages, slide) /\ Owned(nav, closing)
      /\ CurOf(nav) = nav.books["files"].cur /\ CurOf(nav) \in SlipsOf(nav) /\ SlipsOf(nav) \subseteq DOMAIN nav.stacks
      /\ ids = nav.books["files"].ids /\ R!ToSet(ids) = SlipsOf(nav) /\ SlipsOk(ids)
      /\ DOMAIN ids = 1..Len(ids) /\ Len(ids) \in Nat \ {0} /\ \A k \in 1..Len(ids) : ids[k] \in SlipsOf(nav)
  BY <1>1, RowFound
<1>3. q = R!RemoveAt(ids, i) /\ v \in BOOLEAN
  OBVIOUS
<1>4. r = IF s = nav.books["files"].cur THEN R!switchSlip(R!Now, near, p, v) ELSE R!Now
  OBVIOUS
<1> HIDE DEF ids, r, q, p, v
<1>5. \E k \in DOMAIN ids : ids[k] = s
  BY <1>1, <1>2 DEF R!ToSet
<1>6. i \in 1..Len(ids) /\ ids[i] = s
  BY <1>2, <1>5
<1> HIDE DEF i
<1>7. SlipsOk(q) /\ R!ToSet(q) = SlipsOf(nav) \ {s}
  BY <1>2, <1>3, <1>6, SlipOut
<1>8. near \in SlipsOf(nav) /\ near # s
  <2> DEFINE j == IF i < Len(ids) THEN i + 1 ELSE i - 1
  <2>1. j \in 1..Len(ids) /\ j # i
    BY <1>1, <1>2, <1>6
  <2>2. near = ids[j]
    OBVIOUS
  <2> HIDE DEF j, near
  <2>3. near \in SlipsOf(nav)
    BY <1>2, <2>1, <2>2
  <2>4. near # s
    BY <1>2, <1>6, <2>1, <2>2 DEF SlipsOk
  <2> QED
    BY <2>3, <2>4
<1> HIDE DEF near
<1>9. /\ Settles(r[1], r[2], r[3]) /\ r[3] = slide /\ r[1].tab = "files" /\ r[1].books["files"].ids = ids
      /\ SlipsOf(r[1]) = SlipsOf(nav) /\ DOMAIN r[1].stacks = DOMAIN nav.stacks
      /\ CurOf(r[1]) \in SlipsOf(nav) \ {s}
  <2>1. CASE s = nav.books["files"].cur
    <3>1. r = R!switchSlip(R!Now, near, p, v)
      BY <1>4, <2>1
    <3> QED
      BY <1>1, <1>3, <1>8, <3>1, Switched DEF ids
  <2>2. CASE s # nav.books["files"].cur
    <3>1. r[1] = nav /\ r[2] = pages /\ r[3] = slide
      BY <1>4, <2>2 DEF R!Now
    <3> QED
      BY <1>2, <2>2, <3>1
  <2> QED
    BY <2>1, <2>2
<1>10. R!Become(<<[r[1] EXCEPT !.books["files"].ids = q], r[2], r[3]>>, drag)
  BY <1>1, <1>3, <1>9
<1>11. closing' = closing \cup (SlipsOf(nav) \ R!ToSet(q))
  BY <1>1, <1>2, <1>7
<1>12. R!ToSet(q) \subseteq SlipsOf(nav) /\ CurOf(r[1]) \in R!ToSet(q)
  BY <1>7, <1>9
<1> QED
  BY <1>1, <1>7, <1>9, <1>10, <1>11, <1>12, Shorter

\* One slip alone.
LEMMA OneSlip ==
  ASSUME NEW s \in Slots
  PROVE  SlipsOk(<<s>>) /\ R!ToSet(<<s>>) = {s}
<1> DEFINE q == <<s>>
<1>1. q \in Seq(Slots) /\ Len(q) = 1 /\ DOMAIN q = {1} /\ q[1] = s /\ 1..1 = {1}
  OBVIOUS
<1> HIDE DEF q
<1>2. R!ToSet(q) = {s}
  BY <1>1 DEF R!ToSet
<1>3. 1 <= MaxSlips
  BY RouterConstants
<1>4. SlipsOk(q)
  BY <1>1, <1>3 DEF SlipsOk
<1> QED
  BY <1>2, <1>4 DEF q

LEMMA CloseOthersKeeps ==
  ASSUME RouterInv, ~MidSlide, NEW s, R!closeOtherSlipTabs(s)
  PROVE  RouterInv'
<1> DEFINE r == R!switchSlip(R!Now, s, R!Fresh, TRUE)
           q == <<s>>
           p == R!Fresh
           v == TRUE
<1>1. /\ R!OnFiles /\ s \in R!ToSet(R!Ids) /\ closing' = closing \cup (R!ToSet(R!Ids) \ {s}) /\ pending' = pending
      /\ R!Become(<<[r[1] EXCEPT !.books["files"].ids = q], r[2], r[3]>>, drag)
  BY DEF R!closeOtherSlipTabs
<1>2. s \in SlipsOf(nav) /\ s \in Slots /\ R!ToSet(R!Ids) = SlipsOf(nav)
  BY <1>1, RowFound
<1>3. SlipsOk(q) /\ R!ToSet(q) = {s}
  BY <1>2, OneSlip
<1>4. r = R!switchSlip(R!Now, s, p, v) /\ v \in BOOLEAN
  OBVIOUS
<1> HIDE DEF r, q, p, v
<1>5. /\ Settles(r[1], r[2], r[3]) /\ r[3] = slide /\ r[1].tab = "files"
      /\ SlipsOf(r[1]) = SlipsOf(nav) /\ DOMAIN r[1].stacks = DOMAIN nav.stacks /\ CurOf(r[1]) = s
  BY <1>1, <1>2, <1>4, Switched
<1>6. R!ToSet(q) \subseteq SlipsOf(nav) /\ CurOf(r[1]) \in R!ToSet(q)
      /\ closing' = closing \cup (SlipsOf(nav) \ R!ToSet(q))
  BY <1>1, <1>2, <1>3, <1>5
<1> QED
  BY <1>1, <1>3, <1>5, <1>6, Shorter

\* A slip opens, and perhaps a folder in it.
LEMMA SlipIn ==
  ASSUME NEW q, SlipsOk(q), Len(q) < MaxSlips, NEW s \in Slots, s \notin R!ToSet(q)
  PROVE  SlipsOk(Append(q, s)) /\ R!ToSet(Append(q, s)) = R!ToSet(q) \cup {s}
<1> DEFINE m == Len(q)
           y == Append(q, s)
<1>1. m \in Nat /\ q \in Seq(Slots) /\ DOMAIN q = 1..m /\ MaxSlips \in Nat /\ m < MaxSlips
  BY RouterConstants DEF SlipsOk
<1>2. \A k \in 1..m : q[k] # s
  BY <1>1 DEF R!ToSet
<1>3. /\ y \in Seq(Slots) /\ Len(y) = m + 1 /\ DOMAIN y = 1..(m + 1) /\ y[m + 1] = s
      /\ \A i \in 1..m : y[i] = q[i]
  BY <1>1
<1>4. \A i, j \in 1..m : q[i] = q[j] => i = j
  BY DEF SlipsOk
<1> HIDE DEF m, y
<1>5. \A i, j \in 1..(m + 1) : y[i] = y[j] => i = j
  <2> SUFFICES ASSUME NEW i \in 1..(m + 1), NEW j \in 1..(m + 1), y[i] = y[j] PROVE i = j
    OBVIOUS
  <2>1. (i = m + 1 \/ i \in 1..m) /\ (j = m + 1 \/ j \in 1..m)
    BY <1>1
  <2> QED
    BY <1>2, <1>3, <1>4, <2>1
<1>6. R!ToSet(y) = R!ToSet(q) \cup {s}
  <2>1. 1..(m + 1) = 1..m \cup {m + 1}
    BY <1>1
  <2> QED
    BY <1>1, <1>3, <2>1 DEF R!ToSet
<1>7. Len(y) <= MaxSlips
  BY <1>1, <1>3
<1> QED
  BY <1>3, <1>5, <1>6, <1>7 DEF SlipsOk, y

LEMMA OpenSlipTabKeeps ==
  ASSUME RouterInv, ~MidSlide, NEW s \in Slips, NEW folder \in BOOLEAN, R!openSlipTab(s, folder)
  PROVE  RouterInv'
<1> DEFINE n == [nav EXCEPT !.books["files"].ids = Append(R!Ids, s)]
           y == Append(R!Ids, s)
           p == R!Fresh
           p2 == R!Second
<1>1. /\ R!OnFiles /\ Len(R!Ids) < MaxSlips /\ s \notin R!ToSet(R!Ids) \cup DOMAIN nav.stacks /\ R!Room
      /\ pending' = pending /\ closing' = closing
  BY DEF R!openSlipTab
<1>2. PICK v \in BOOLEAN :
        LET u == R!switchSlip(<<n, pages, slide>>, s, R!Fresh, v)
        IN  R!Become(IF folder THEN R!push(u, R!Second, v) ELSE u, drag)
  <2>1. nav.books["files"].ids = R!Ids
    BY DEF R!Ids
  <2> QED
    BY <2>1 DEF R!openSlipTab
<1> DEFINE u == R!switchSlip(<<n, pages, slide>>, s, p, v)
           r == IF folder THEN R!push(u, p2, v) ELSE u
<1>3. R!Become(r, drag)
  BY <1>2
<1>4. /\ drag = R!NoDrag /\ slide = R!Still /\ slide.kind = "none" /\ nav.tab = "files" /\ Loose(nav, pages)
      /\ pending = None
      /\ Owned(nav, closing) /\ pages.shown = {R!TopOf(nav)} /\ pages.top = R!TopOf(nav)
      /\ CurOf(nav) \in DOMAIN nav.stacks /\ SlipsOf(nav) \subseteq DOMAIN nav.stacks
      /\ CurOf(nav) = nav.books["files"].cur /\ CurOf(nav) \in SlipsOf(nav)
      /\ R!ToSet(R!Ids) = SlipsOf(nav) /\ SlipsOk(R!Ids)
  BY <1>1, RowFound
<1>5. p \in PageIds \ Paged(nav.stacks) /\ p2 \in PageIds \ Paged(nav.stacks) /\ p # p2
      /\ R!Free \ {p, p2} # {}
  BY <1>1, FreshFacts, Found DEF Two
<1>6. u = R!switchSlip(<<n, pages, slide>>, s, p, v) /\ n = [nav EXCEPT !.books["files"].ids = y]
      /\ y = Append(R!Ids, s)
  OBVIOUS
<1>7. (folder => r = R!push(u, p2, v)) /\ (~folder => r = u)
  BY Zenon
<1> HIDE DEF n, y, p, p2, u, r
<1>8. s \in Slots
  BY DEF Slots
<1>9. SlipsOk(y) /\ R!ToSet(y) = SlipsOf(nav) \cup {s}
  <2>1. s \notin R!ToSet(R!Ids)
    BY <1>1
  <2>2. SlipsOk(Append(R!Ids, s)) /\ R!ToSet(Append(R!Ids, s)) = R!ToSet(R!Ids) \cup {s}
    BY <1>1, <1>4, <1>8, <2>1, SlipIn
  <2> QED
    BY <1>4, <1>6, <2>2
<1>10. n = BookWith(nav, y, CurOf(nav))
  <2>1. NavIs(nav) /\ BooksOk(nav.books)
    BY <1>4 DEF Loose
  <2> QED
    BY <1>4, <1>6, <2>1, IdsWith
<1>11. /\ Loose(n, pages) /\ n.tab = "files" /\ n.stacks = nav.stacks /\ SlipsOf(n) = SlipsOf(nav) \cup {s}
       /\ CurOf(n) = CurOf(nav)
  <2>1. CurOf(nav) \in R!ToSet(y)
    BY <1>4, <1>9
  <2> QED
    BY <1>4, <1>9, <1>10, <2>1, BookedFacts
<1>12. R!TopOf(n) = R!TopOf(nav)
  BY <1>4, <1>11, TopFacts DEF Loose
<1>13. /\ MaxSlips \in Nat \ {0} /\ CurOf(n) \in DOMAIN n.stacks /\ pages.shown = {R!TopOf(n)}
       /\ pages.top = R!TopOf(n) /\ s \in SlipsOf(n) /\ SlipsOf(n) \subseteq DOMAIN n.stacks \cup {s}
       /\ p \in PageIds \ Paged(n.stacks)
  BY <1>4, <1>5, <1>11, <1>12, RouterConstants
<1>14. Switches(n, slide, s, p, u)
  BY <1>4, <1>6, <1>11, <1>13, SlipFacts
<1>15. /\ u = <<u[1], u[2], u[3]>> /\ Settles(u[1], u[2], u[3]) /\ u[3] = slide
       /\ u[1].tab = "files" /\ u[1].books["files"].ids = n.books["files"].ids /\ CurOf(u[1]) = s
  BY <1>14 DEF Switches
<1>16. DOMAIN u[1].stacks = DOMAIN n.stacks \cup {s}
  BY <1>14 DEF Switches
<1>17. Paged(u[1].stacks) \subseteq Paged(n.stacks) \cup {p}
  BY <1>14 DEF Switches
<1>18. SlipsOf(u[1]) = SlipsOf(nav) \cup {s}
  BY <1>11, <1>15 DEF SlipsOf
<1>19. Owned(u[1], closing)
  BY <1>1, <1>4, <1>11, <1>16, <1>18 DEF Owned
<1>20. Uses(nav, slide, u, {p})
  BY <1>11, <1>15, <1>17 DEF Uses
<1>21. CASE ~folder
  <2>1. r = u
    BY <1>7, <1>21
  <2>2. Owned(r[1], closing') /\ Settles(r[1], r[2], r[3]) /\ r[3] = slide
    BY <1>1, <1>15, <1>19, <2>1
  <2> QED
    BY <1>1, <1>3, <2>2, RowDone
<1>22. CASE folder
  <2>1. r = R!push(<<u[1], u[2], u[3]>>, p2, v)
    BY <1>7, <1>15, <1>22
  <2>2. p2 \in PageIds \ Paged(u[1].stacks) /\ u[3].kind = "none"
    BY <1>4, <1>5, <1>11, <1>15, <1>17
  <2>3. Step(u[1], u[3], r, {p2}) /\ r[3].kind = "push" /\ r[3].next = "none"
    BY <1>15, <2>1, <2>2, PushFacts
  <2>4. Uses(nav, slide, r, {p} \cup {p2})
    BY <1>20, <2>3, StepUses, UsesOn
  <2>5. Owned(r[1], closing') /\ Settles(r[1], r[2], r[3])
    <3>1. BooksOk(u[1].books)
      BY <1>15 DEF Settles, Loose
    <3> QED
      BY <1>1, <1>19, <2>3, <3>1, OwnedStays DEF Step
  <2>6. Spared(r[3], FreeOf(nav, pages, slide, R!NoDrag) \ ({p} \cup {p2}))
    <3>1. R!Free \ {p, p2} = FreeOf(nav, pages, slide, R!NoDrag) \ ({p} \cup {p2})
      BY <1>4, FreeIs
    <3> QED
      BY <1>5, <2>3, <3>1 DEF Spared
  <2>7. pending' \in R!Tab \cup {None} /\ pending' = None /\ R!Become(r, R!NoDrag)
    BY <1>1, <1>3, <1>4
  <2> QED
    BY <2>4, <2>5, <2>6, <2>7, Calmly
<1> QED
  BY <1>21, <1>22

-----------------------------------------------------------------------------
\* Stacks dropped by their timers, and the edge swipe.

\* The stack of a closed slip goes, which is not on screen.
LEMMA ClosedApart ==
  ASSUME RouterInv, NEW s \in closing
  PROVE  s # CurOf(nav) /\ s \notin SlipsOf(nav) /\ s \in DOMAIN nav.stacks
<1>1. Owned(nav, closing) /\ BooksOk(nav.books) /\ nav.tab \in R!Tab
  BY Found
<1>2. s \in Slots /\ s \in DOMAIN nav.stacks /\ s \notin SlipsOf(nav)
  BY <1>1 DEF Owned
<1>3. CASE nav.tab = "files"
  <2>1. CurOf(nav) \in SlipsOf(nav)
    BY <1>1, <1>3, BookFacts, RouterConstants DEF CurOf, SlipsOf
  <2> QED
    BY <1>2, <2>1
<1>4. CASE nav.tab # "files"
  <2>1. CurOf(nav) = nav.tab
    BY <1>1, <1>4, BookFacts, RouterConstants DEF CurOf
  <2>2. nav.tab \notin Slots
    BY <1>1, <1>4, RouterConstants DEF Slots
  <2> QED
    BY <1>2, <2>1, <2>2
<1> QED
  BY <1>3, <1>4

\* Their pages are no longer shown and are destroyed.
Leaves(g, h, n, ss) ==
  /\ FlagsAre(h) /\ h.shown = g.shown \ OnStacks(n, ss)
  /\ h.running = g.running \ (OnStacks(n, ss) \cap g.shown)
  /\ h.mounted = g.mounted /\ h.dead = g.dead \cup OnStacks(n, ss) /\ h.top = g.top

LEMMA DroppedIs ==
  ASSUME NEW n, NEW g, FlagsAre(g), NEW s \in DOMAIN n.stacks
  PROVE  Leaves(g, R!dropStack(g, n, s), n, {s})
<1> DEFINE ps == R!ToSet(n.stacks[s])
           h == R!dropStack(g, n, s)
<1>1. OnStacks(n, {s}) = ps
  BY DEF OnStacks
<1>2. h = R!destroy([g EXCEPT !.shown = g.shown \ ps, !.running = g.running \ (ps \cap g.shown)], ps)
  BY DEF R!dropStack
<1> HIDE DEF ps, h
<1>3. h = [shown |-> g.shown \ ps, running |-> g.running \ (ps \cap g.shown), mounted |-> g.mounted,
           dead |-> g.dead \cup ps, top |-> g.top]
  BY <1>2 DEF R!destroy, FlagsAre
<1> QED
  BY <1>1, <1>3 DEF FlagsAre, Leaves, h

LeftBehind(n, m, ss) ==
  /\ m.tab = n.tab /\ m.books = n.books /\ CurOf(m) = CurOf(n)
  /\ DOMAIN m.stacks = DOMAIN n.stacks \ ss /\ Paged(m.stacks) \subseteq Paged(n.stacks)
  /\ \A s \in DOMAIN n.stacks \ ss : m.stacks[s] = n.stacks[s]

LEMMA LeavesFacts ==
  ASSUME NEW n, NEW g, Loose(n, g), NEW ss, NEW h, Leaves(g, h, n, ss)
  PROVE  /\ Loose(StacksWith(n, R!Without(n.stacks, ss)), h)
         /\ LeftBehind(n, StacksWith(n, R!Without(n.stacks, ss)), ss)
<1> DEFINE m == StacksWith(n, R!Without(n.stacks, ss))
<1>1. m = StacksWith(n, R!Without(n.stacks, ss))
  OBVIOUS
<1> HIDE DEF m
<1>2. /\ Loose(m, h) /\ m.tab = n.tab /\ m.books = n.books /\ CurOf(m) = CurOf(n)
      /\ DOMAIN m.stacks = DOMAIN n.stacks \ ss /\ Paged(m.stacks) \subseteq Paged(n.stacks)
      /\ \A s \in DOMAIN n.stacks \ ss : m.stacks[s] = n.stacks[s]
  BY <1>1, LeaveFacts DEF Leaves
<1> QED
  BY <1>2 DEF LeftBehind, m

\* Stacks leave that are not on screen: nothing shown changes.
LEMMA LeaveQuietly ==
  ASSUME NEW n, NEW g, NEW sl, Settles(n, g, sl), NEW ss, CurOf(n) \notin ss, ss \cap SlipsOf(n) = {},
         NEW m, m = StacksWith(n, R!Without(n.stacks, ss)), NEW h, Leaves(g, h, n, ss)
  PROVE  Settles(m, h, sl)
<1>1. Loose(n, g) /\ StacksOk(n.stacks) /\ CurOf(n) \in DOMAIN n.stacks /\ g.shown \subseteq {R!TopOf(n)}
      /\ StacksThere(n)
  BY SettlesFacts DEF Settles
<1>2. /\ Loose(m, h) /\ m.tab = n.tab /\ m.books = n.books /\ CurOf(m) = CurOf(n)
      /\ DOMAIN m.stacks = DOMAIN n.stacks \ ss /\ Paged(m.stacks) \subseteq Paged(n.stacks)
      /\ \A s \in DOMAIN n.stacks \ ss : m.stacks[s] = n.stacks[s]
  BY <1>1, LeavesFacts DEF LeftBehind
<1>3. StacksThere(m)
  BY <1>1, <1>2 DEF StacksThere, SlipsOf
<1>4. R!TopOf(m) = R!TopOf(n) /\ R!TopOf(n) \in R!ToSet(n.stacks[CurOf(n)])
  BY <1>1, <1>2, <1>3, TopFacts DEF StacksThere, Loose
<1>5. R!ToSet(n.stacks[CurOf(n)]) \cap OnStacks(n, ss) = {}
  BY <1>1, Apart
<1>6. h.shown = g.shown
  BY <1>1, <1>4, <1>5 DEF Leaves
<1>7. h.top = g.top
  BY DEF Leaves
<1> QED
  BY <1>2, <1>3, <1>4, <1>6, <1>7 DEF Settles

LEMMA DropClosedKeeps ==
  ASSUME RouterInv, NEW s, R!DropClosed(s)
  PROVE  RouterInv'
<1> DEFINE m == [nav EXCEPT !.stacks = R!Without(nav.stacks, {s})]
           h == R!dropStack(pages, nav, s)
           r == <<m, h, slide>>
<1>1. s \in closing /\ closing' = closing \ {s} /\ R!Become(r, drag) /\ pending' = pending
  BY DEF R!DropClosed
<1>2. /\ Settles(nav, pages, slide) /\ Owned(nav, closing) /\ Loose(nav, pages) /\ NavIs(nav) /\ FlagsAre(pages)
      /\ pending \in R!Tab \cup {None} /\ (pending # None => slide.kind # "none")
  BY Found DEF Loose, R!busy
<1>3. s # CurOf(nav) /\ s \notin SlipsOf(nav) /\ s \in DOMAIN nav.stacks
  BY <1>1, ClosedApart
<1>4. m = StacksWith(nav, R!Without(nav.stacks, {s}))
  BY <1>2 DEF NavIs, StacksWith
<1>5. h = R!dropStack(pages, nav, s) /\ r[1] = m /\ r[2] = h /\ r[3] = slide
  OBVIOUS
<1> HIDE DEF m, h, r
<1>6. Leaves(pages, h, nav, {s})
  BY <1>2, <1>3, <1>5, DroppedIs
<1>7. CurOf(nav) \notin {s} /\ {s} \cap SlipsOf(nav) = {}
  BY <1>3
<1>8. Settles(m, h, slide)
  BY <1>2, <1>4, <1>6, <1>7, LeaveQuietly
<1>9. /\ m.tab = nav.tab /\ m.books = nav.books /\ CurOf(m) = CurOf(nav)
      /\ DOMAIN m.stacks = DOMAIN nav.stacks \ {s} /\ Paged(m.stacks) \subseteq Paged(nav.stacks)
      /\ \A u \in DOMAIN nav.stacks \ {s} : m.stacks[u] = nav.stacks[u]
  <2> DEFINE ss == {s}
  <2>1. m = StacksWith(nav, R!Without(nav.stacks, ss)) /\ Leaves(pages, h, nav, ss)
    BY <1>4, <1>6
  <2> HIDE DEF ss
  <2>2. /\ m.tab = nav.tab /\ m.books = nav.books /\ CurOf(m) = CurOf(nav)
        /\ DOMAIN m.stacks = DOMAIN nav.stacks \ ss /\ Paged(m.stacks) \subseteq Paged(nav.stacks)
        /\ \A u \in DOMAIN nav.stacks \ ss : m.stacks[u] = nav.stacks[u]
    BY <1>2, <2>1, LeavesFacts DEF LeftBehind
  <2> QED
    BY <2>2 DEF ss
<1>10. Owned(m, closing')
  BY <1>1, <1>2, <1>9 DEF Owned, SlipsOf
<1>11. /\ Settles(nav', pages', slide') /\ nav' = m /\ slide' = slide /\ drag' = drag
       /\ pages'.running \subseteq Paged(m.stacks)
  <2>1. Settles(r[1], r[2], r[3])
    BY <1>5, <1>8
  <2>2. /\ Settles(nav', pages', slide') /\ nav' = r[1] /\ slide' = r[3] /\ drag' = drag
        /\ pages'.running \subseteq Paged(r[1].stacks)
    BY <1>1, <2>1, Becomes
  <2> QED
    BY <1>5, <2>2
<1>12. FreeOf(nav, pages, slide, drag) \subseteq FreeOf(nav', pages', slide', drag')
  BY <1>9, <1>11 DEF FreeOf
<1>13. Spared(slide', FreeOf(nav', pages', slide', drag'))
  BY <1>2, <1>11, <1>12, SparedMore DEF RouterInv, RouterIs
<1>14. Dragged(nav', slide', drag')
  <2>1. Dragged(nav, slide, drag) /\ CurOf(nav) \in DOMAIN nav.stacks \ {s}
    <3>1. CurOf(nav) \in DOMAIN nav.stacks
      BY <1>2, SettlesFacts
    <3> QED
      BY <1>3, <3>1 DEF RouterInv, RouterIs
  <2>2. m.stacks[CurOf(m)] = nav.stacks[CurOf(nav)]
    BY <1>9, <2>1
  <2> QED
    BY <1>11, <2>1, <2>2 DEF Dragged
<1>15. RouterIs(nav', pages', pending', slide', drag', closing')
  BY <1>1, <1>2, <1>10, <1>11, <1>13, <1>14 DEF RouterIs
<1> QED
  BY <1>15 DEF RouterInv

\* A finger down while pages rest; it has moved nothing yet.
LEMMA PointerDownKeeps ==
  ASSUME RouterInv, R!PointerDown
  PROVE  RouterInv'
<1> DEFINE st == R!StackOf(nav, nav.tab)
<1>1. /\ R!depth > 1 /\ ~R!busy /\ nav' = nav /\ pages' = pages /\ pending' = pending
      /\ slide' = slide /\ closing' = closing
      /\ drag' = [phase |-> "drag", top |-> R!Last(st), under |-> st[Len(st) - 1]]
  BY DEF R!PointerDown
<1> HIDE DEF st
<1>2. /\ Settles(nav, pages, slide) /\ Owned(nav, closing) /\ pending = None /\ slide.kind = "none"
      /\ slide = R!Still /\ Len(nav.stacks[CurOf(nav)]) > 1
  BY <1>1, Found, NotBusy
<1>3. Dragged(nav, slide, drag')
  BY <1>1, <1>2 DEF Dragged
<1>4. Spared(slide, FreeOf(nav, pages, slide, drag'))
  BY <1>2, NeedsNone
<1>5. RouterIs(nav', pages', pending', slide', drag', closing')
  BY <1>1, <1>2, <1>3, <1>4 DEF RouterIs
<1> QED
  BY <1>5 DEF RouterInv

\* While it swipes nothing slides and there is a page below.
LEMMA SwipeFound ==
  ASSUME RouterInv, drag.phase # "none"
  PROVE  /\ Settles(nav, pages, slide) /\ Owned(nav, closing) /\ pending = None
         /\ slide = R!Still /\ slide.kind = "none" /\ Len(nav.stacks[CurOf(nav)]) > 1
         /\ drag = [phase |-> drag.phase, top |-> drag.top, under |-> drag.under]
<1>1. Dragged(nav, slide, drag)
  BY DEF RouterInv, RouterIs
<1>2. ~R!busy
  BY <1>1 DEF Dragged, R!busy
<1> QED
  BY <1>1, <1>2, Found, NotBusy DEF Dragged

LEMMA LetGoKeeps ==
  ASSUME RouterInv, R!LetGo
  PROVE  RouterInv'
<1>1. /\ drag.phase # "none" /\ nav' = nav /\ pending' = pending /\ slide' = slide /\ closing' = closing
      /\ drag' = R!NoDrag /\ pages' = R!Tidy(pages, nav, slide, R!NoDrag)
  BY DEF R!LetGo
<1>2. Settles(nav, pages, slide) /\ Owned(nav, closing) /\ pending = None /\ slide = R!Still
  BY <1>1, SwipeFound
<1>3. Settles(nav, pages', slide)
  BY <1>1, <1>2, TidyFacts
<1>4. Spared(slide, FreeOf(nav, pages', slide, drag'))
  BY <1>2, NeedsNone
<1>5. Dragged(nav, slide, drag')
  BY <1>1 DEF Dragged, R!NoDrag
<1>6. RouterIs(nav', pages', pending', slide', drag', closing')
  BY <1>1, <1>2, <1>3, <1>4, <1>5 DEF RouterIs
<1> QED
  BY <1>6 DEF RouterInv

LEMMA ReleaseKeeps ==
  ASSUME RouterInv, NEW v \in BOOLEAN, R!Release(v)
  PROVE  RouterInv'
<1> DEFINE y == IF v THEN "leave" ELSE "stay"
<1>1. /\ drag.phase # "none" /\ nav' = nav /\ pages' = pages /\ pending' = pending /\ slide' = slide
      /\ closing' = closing /\ drag' = [drag EXCEPT !.phase = y]
  BY DEF R!Release
<1>2. y \in {"leave", "stay"}
  OBVIOUS
<1> HIDE DEF y
<1>3. /\ Settles(nav, pages, slide) /\ Owned(nav, closing) /\ pending = None
      /\ slide = R!Still /\ slide.kind = "none" /\ Len(nav.stacks[CurOf(nav)]) > 1
      /\ drag = [phase |-> drag.phase, top |-> drag.top, under |-> drag.under]
  BY <1>1, SwipeFound
<1>4. drag' = [phase |-> y, top |-> drag.top, under |-> drag.under]
  BY <1>1, <1>3
<1>5. Dragged(nav, slide, drag')
  BY <1>2, <1>3, <1>4 DEF Dragged
<1>6. Spared(slide, FreeOf(nav, pages, slide, drag'))
  BY <1>3, NeedsNone
<1>7. RouterIs(nav', pages', pending', slide', drag', closing')
  BY <1>1, <1>3, <1>5, <1>6 DEF RouterIs
<1> QED
  BY <1>7 DEF RouterInv

\* The page swiped away leaves as one that slid out does.
Swept(n, sl, m, h) ==
  /\ Settles(m, h, sl) /\ m.books = n.books /\ DOMAIN m.stacks = DOMAIN n.stacks
  /\ Paged(m.stacks) \subseteq Paged(n.stacks)

LEMMA SweptFacts ==
  ASSUME NEW n, NEW g, NEW sl, Settles(n, g, sl), sl = R!Still, NEW st, st = n.stacks[CurOf(n)], Len(st) > 1,
         NEW m, m = StackWith(n, R!Front(st)),
         NEW f, f = R!destroy(R!hide(g, R!Last(st)), {R!Last(st)}),
         NEW h, h = R!show(R!setTop(f, R!TopOf(m)), R!TopOf(m))
  PROVE  Swept(n, sl, m, h)
<1> DEFINE x == "none"
           r == R!back(<<n, g, sl>>, x)
           y == R!hide(g, R!Last(st))
           z == [kind |-> "back", top |-> R!Last(st), under |-> st[Len(st) - 1], next |-> x]
<1>1. sl.kind = "none" /\ Len(st) \in Nat /\ ~(Len(st) < 2)
  <2>1. StackOk(st)
    BY SettlesFacts DEF StacksOk
  <2>2. Len(st) \in Nat
    BY <2>1, StackFacts
  <2> QED
    BY <2>2 DEF R!Still
<1>2. r = <<m, y, z>>
  BY <1>1 DEF R!back, StackWith, CurOf
<1>3. /\ r = R!back(<<n, g, sl>>, x) /\ x \in {"none", "pop", "push"} /\ z.kind = "back" /\ z.top = R!Last(st)
      /\ z.kind # "push" /\ z.kind # "none" /\ f = R!destroy(y, {z.top}) /\ sl.kind = "none" => sl.kind = "none"
  OBVIOUS
<1>4. z.kind = "back" /\ z.top = R!Last(st) /\ z.kind # "push" /\ z.kind # "none" /\ f = R!destroy(y, {z.top})
  OBVIOUS
<1>9. "none" \in {"none", "pop", "push"} /\ x = "none"
  OBVIOUS
<1>10. r = R!back(<<n, g, sl>>, x)
  OBVIOUS
<1> HIDE DEF r, y, z, x
<1>5. Step(n, sl, r, {})
  BY <1>9, <1>10, BackFacts
<1>6. r[1] = m /\ r[2] = y /\ r[3] = z
  BY <1>2
<1>7. Settles(m, y, z) /\ m.books = n.books /\ Paged(m.stacks) \subseteq Paged(n.stacks)
  BY <1>5, <1>6 DEF Step
<1>8. z.under = R!TopOf(m)
  BY <1>4, <1>7 DEF Settles
<1>11. h = IF z.kind = "push" THEN R!show(y, z.top)
           ELSE R!show(R!setTop(R!destroy(y, {z.top}), z.under), z.under)
  BY <1>4, <1>8
<1>12. Settles(m, h, R!Still)
  BY <1>4, <1>7, <1>11, LandFacts
<1>13. DOMAIN m.stacks = DOMAIN n.stacks
  <2>1. NavIs(n)
    BY DEF Settles, Loose
  <2>2. m.stacks = [n.stacks EXCEPT ![CurOf(n)] = R!Front(st)]
    BY <2>1, WithIs
  <2> QED
    BY <2>2
<1> QED
  BY <1>7, <1>12, <1>13 DEF Swept

LEMMA SettledKeeps ==
  ASSUME RouterInv, R!Settled
  PROVE  RouterInv'
<1> DEFINE s == CurOf(nav)
           st == nav.stacks[s]
           m == [nav EXCEPT !.stacks[s] = R!Front(st)]
           f == R!destroy(R!hide(pages, R!Last(st)), {R!Last(st)})
           h == R!show(R!setTop(f, R!TopOf(m)), R!TopOf(m))
           o == <<m, h, slide>>
<1>1. drag.phase # "none" /\ pending' = pending /\ closing' = closing
  BY DEF R!Settled
<1>2. /\ Settles(nav, pages, slide) /\ Owned(nav, closing) /\ pending = None
      /\ slide = R!Still /\ slide.kind = "none" /\ Len(st) > 1
  BY <1>1, SwipeFound
<1>3. R!Become(R!Now, R!NoDrag) \/ R!Become(o, R!NoDrag)
  <2>1. ~(Len(st) < 2)
    <3>1. StackOk(st)
      BY <1>2, SettlesFacts DEF StacksOk
    <3>2. Len(st) \in Nat
      BY <3>1, StackFacts
    <3> QED
      BY <1>2, <3>2
  <2>2. LET q == nav.stacks[CurOf(nav)]
            p == R!Last(q)
            n == [nav EXCEPT !.stacks[CurOf(nav)] = R!Front(q)]
            g == R!destroy(R!hide(pages, p), {p})
        IN  R!Become(IF drag.phase = "stay" THEN R!Now
                     ELSE IF Len(q) < 2 THEN <<n, g, slide>>
                     ELSE <<n, R!show(R!setTop(g, R!TopOf(n)), R!TopOf(n)), slide>>, R!NoDrag)
    BY DEF R!Settled, CurOf
  <2> QED
    BY <2>1, <2>2, Zenon
<1>4. m = StackWith(nav, R!Front(st)) /\ st = nav.stacks[CurOf(nav)] /\ f = R!destroy(R!hide(pages, R!Last(st)), {R!Last(st)})
      /\ h = R!show(R!setTop(f, R!TopOf(m)), R!TopOf(m)) /\ o[1] = m /\ o[2] = h /\ o[3] = slide
  BY DEF StackWith
<1> HIDE DEF m, f, h, st, s, o
<1>5. Swept(nav, slide, m, h)
  BY <1>2, <1>4, SweptFacts
<1>6. pending' \in R!Tab \cup {None} /\ pending' = None
  BY <1>1, <1>2
<1>7. CASE R!Become(R!Now, R!NoDrag)
  <2> DEFINE r == <<nav, pages, slide>>
  <2>1. R!Become(r, R!NoDrag) /\ r[1] = nav /\ r[2] = pages /\ r[3] = slide
    BY <1>7 DEF R!Now
  <2> HIDE DEF r
  <2>2. Settles(r[1], r[2], r[3]) /\ Owned(r[1], closing') /\ Uses(nav, slide, r, {})
        /\ Spared(r[3], FreeOf(nav, pages, slide, R!NoDrag) \ {})
    BY <1>1, <1>2, <2>1, NeedsNone DEF Uses
  <2> QED
    BY <1>6, <2>1, <2>2, Calmly
<1>8. CASE R!Become(o, R!NoDrag)
  <2>1. Settles(o[1], o[2], o[3]) /\ Uses(nav, slide, o, {})
        /\ Spared(o[3], FreeOf(nav, pages, slide, R!NoDrag) \ {})
    BY <1>1, <1>2, <1>4, <1>5, NeedsNone DEF Uses, Swept
  <2>2. Owned(o[1], closing')
    BY <1>1, <1>2, <1>4, <1>5 DEF Owned, SlipsOf, Swept
  <2> QED
    BY <1>6, <1>8, <2>1, <2>2, Calmly
<1> QED
  BY <1>3, <1>7, <1>8

-----------------------------------------------------------------------------
\* Signing out.

\* The row of slips returns to its first one, the stacks of the others leave.
FirstSlip  == nav.books["files"].ids[1]
OtherSlips == SlipsOf(nav) \ {FirstSlip}

RowReset(n, g) ==
  /\ Loose(n, g) /\ n.tab = nav.tab /\ SlipsOf(n) = {FirstSlip} /\ Len(n.books["files"].ids) = 1
  /\ n.books["files"].cur = FirstSlip
  /\ DOMAIN n.stacks = DOMAIN nav.stacks \ OtherSlips /\ Paged(n.stacks) \subseteq Paged(nav.stacks)
  /\ \A u \in DOMAIN n.stacks : n.stacks[u] = nav.stacks[u]
  /\ g.top = pages.top
  /\ CurOf(nav) \notin OtherSlips => CurOf(n) = CurOf(nav) /\ g.shown = pages.shown
  /\ CurOf(nav) \in OtherSlips => CurOf(n) = FirstSlip /\ g.shown = {}

LEMMA FirstFacts ==
  ASSUME RouterInv
  PROVE  /\ FirstSlip \in SlipsOf(nav) /\ FirstSlip \in Slots /\ SlipsOf(nav) \subseteq Slots
         /\ nav.tab = "files" => CurOf(nav) \in SlipsOf(nav)
         /\ nav.tab # "files" => CurOf(nav) = nav.tab /\ nav.tab \notin Slots
<1>1. BooksOk(nav.books) /\ nav.tab \in R!Tab /\ MaxSlips \in Nat \ {0}
  BY Found, RouterConstants
<1>2. /\ SlipsOf(nav) \subseteq Slots /\ Len(nav.books["files"].ids) \in Nat \ {0}
      /\ \A i \in 1..Len(nav.books["files"].ids) : nav.books["files"].ids[i] \in SlipsOf(nav)
      /\ nav.books["files"].cur \in SlipsOf(nav)
      /\ \A t \in R!Tab \ {"files"} : nav.books[t].cur = t
  BY <1>1, BookFacts DEF SlipsOf
<1>3. FirstSlip \in SlipsOf(nav)
  BY <1>2 DEF FirstSlip
<1>4. nav.tab # "files" => nav.tab \notin Slots
  BY <1>1, RouterConstants DEF Slots
<1> QED
  BY <1>1, <1>2, <1>3, <1>4 DEF CurOf

LEMMA RowResets ==
  ASSUME RouterInv, slide = R!Still, NEW n, NEW g, Leaves(pages, g, nav, OtherSlips),
         n = [nav EXCEPT !.books["files"] = [ids |-> <<FirstSlip>>, cur |-> FirstSlip],
                         !.stacks = R!Without(nav.stacks, OtherSlips)]
  PROVE  RowReset(n, g)
<1> DEFINE q == <<FirstSlip>>
           k == BookWith(nav, q, FirstSlip)
<1>1. /\ FirstSlip \in SlipsOf(nav) /\ FirstSlip \in Slots
      /\ nav.tab = "files" => CurOf(nav) \in SlipsOf(nav)
      /\ nav.tab # "files" => CurOf(nav) = nav.tab /\ nav.tab \notin Slots
      /\ SlipsOf(nav) \subseteq Slots
  BY FirstFacts
<1>2. Loose(nav, pages) /\ NavIs(nav) /\ pages.shown = {R!TopOf(nav)} /\ StacksThere(nav) /\ StacksOk(nav.stacks)
  BY Found DEF Settles, Loose, R!Still
<1>3. SlipsOk(q) /\ R!ToSet(q) = {FirstSlip} /\ Len(q) = 1 /\ FirstSlip \in R!ToSet(q)
  BY <1>1, OneSlip
<1>4. k = [tab |-> nav.tab, books |-> [nav.books EXCEPT !["files"] = [ids |-> q, cur |-> FirstSlip]],
           stacks |-> nav.stacks]
  BY DEF BookWith
<1>5. n = StacksWith(k, R!Without(k.stacks, OtherSlips))
  <2> DEFINE y == [ids |-> q, cur |-> FirstSlip]
             x == R!Without(nav.stacks, OtherSlips)
  <2>1. n = [nav EXCEPT !.books["files"] = y, !.stacks = x]
    OBVIOUS
  <2>2. k = [tab |-> nav.tab, books |-> [nav.books EXCEPT !["files"] = y], stacks |-> nav.stacks]
    BY <1>4
  <2>3. x = R!Without(nav.stacks, OtherSlips)
    OBVIOUS
  <2> HIDE DEF y, x, k
  <2>4. n = [tab |-> nav.tab, books |-> [nav.books EXCEPT !["files"] = y], stacks |-> x]
    BY <1>2, <2>1 DEF NavIs
  <2> QED
    BY <2>2, <2>3, <2>4 DEF StacksWith
<1>6. k = BookWith(nav, q, FirstSlip)
  OBVIOUS
<1> HIDE DEF k, q
<1>7. /\ Loose(k, pages) /\ k.tab = nav.tab /\ k.stacks = nav.stacks
      /\ k.books["files"].ids = q /\ k.books["files"].cur = FirstSlip /\ SlipsOf(k) = R!ToSet(q)
      /\ k.tab = "files" => CurOf(k) = FirstSlip
      /\ k.tab # "files" => CurOf(k) = CurOf(nav)
  BY <1>2, <1>3, <1>6, BookedFacts
<1>8. OnStacks(k, OtherSlips) = OnStacks(nav, OtherSlips)
  BY <1>7 DEF OnStacks
<1>9. /\ Loose(n, g) /\ n.tab = k.tab /\ n.books = k.books /\ CurOf(n) = CurOf(k)
      /\ DOMAIN n.stacks = DOMAIN k.stacks \ OtherSlips /\ Paged(n.stacks) \subseteq Paged(k.stacks)
      /\ \A s \in DOMAIN k.stacks \ OtherSlips : n.stacks[s] = k.stacks[s]
  <2> DEFINE ss == OtherSlips
  <2>1. n = StacksWith(k, R!Without(k.stacks, ss)) /\ Leaves(pages, g, k, ss)
    BY <1>5, <1>8 DEF Leaves
  <2> HIDE DEF ss
  <2>2. /\ Loose(n, g) /\ n.tab = k.tab /\ n.books = k.books /\ CurOf(n) = CurOf(k)
        /\ DOMAIN n.stacks = DOMAIN k.stacks \ ss /\ Paged(n.stacks) \subseteq Paged(k.stacks)
        /\ \A s \in DOMAIN k.stacks \ ss : n.stacks[s] = k.stacks[s]
    <3>1. Loose(n, g)
      BY <1>7, <2>1, LeavesFacts
    <3>2. LeftBehind(k, n, ss)
      BY <1>7, <2>1, LeavesFacts
    <3> QED
      BY <3>1, <3>2 DEF LeftBehind
  <2> QED
    BY <2>2 DEF ss
<1>10. SlipsOf(n) = {FirstSlip}
  BY <1>3, <1>7, <1>9 DEF SlipsOf
<1>11. R!TopOf(nav) \in R!ToSet(nav.stacks[CurOf(nav)]) /\ CurOf(nav) \in DOMAIN nav.stacks
  BY <1>2, TopFacts DEF StacksThere
<1>12. ASSUME CurOf(nav) \notin OtherSlips PROVE CurOf(n) = CurOf(nav) /\ g.shown = pages.shown
  <2>1. R!ToSet(nav.stacks[CurOf(nav)]) \cap OnStacks(nav, OtherSlips) = {}
    BY <1>2, <1>11, <1>12, Apart
  <2>2. g.shown = pages.shown
    BY <1>2, <1>11, <2>1 DEF Leaves
  <2>3. nav.tab = "files" => CurOf(nav) = FirstSlip
    BY <1>1, <1>12 DEF OtherSlips
  <2> QED
    BY <1>7, <1>9, <2>2, <2>3
<1>13. ASSUME CurOf(nav) \in OtherSlips PROVE CurOf(n) = FirstSlip /\ g.shown = {}
  <2>1. nav.tab = "files"
    BY <1>1, <1>13 DEF OtherSlips
  <2>2. R!TopOf(nav) \in OnStacks(nav, OtherSlips)
    BY <1>11, <1>13 DEF OnStacks
  <2> QED
    BY <1>2, <1>7, <1>9, <2>1, <2>2 DEF Leaves
<1>14. g.top = pages.top
  BY DEF Leaves
<1> QED
  BY <1>3, <1>7, <1>9, <1>10, <1>12, <1>13, <1>14 DEF RowReset

\* The first slip has its stack, made if it had none.
RowReady(u) ==
  /\ u = <<u[1], u[2], slide>> /\ u[3] = slide /\ Loose(u[1], u[2]) /\ u[1].tab = nav.tab
  /\ SlipsOf(u[1]) = {FirstSlip} /\ StacksThere(u[1]) /\ FirstSlip \in DOMAIN u[1].stacks
  /\ Owned(u[1], closing) /\ Paged(u[1].stacks) \subseteq Paged(nav.stacks) \cup {R!Fresh}
  /\ u[2].top = pages.top
  /\ CurOf(nav) \notin OtherSlips =>
       CurOf(u[1]) = CurOf(nav) /\ u[2].shown = pages.shown /\ R!TopOf(u[1]) = R!TopOf(nav)
  /\ CurOf(nav) \in OtherSlips => CurOf(u[1]) = FirstSlip /\ u[2].shown = {}

LEMMA RowRoots ==
  ASSUME RouterInv, slide = R!Still, R!Room \/ FirstSlip \in DOMAIN nav.stacks, NEW n, NEW g, RowReset(n, g),
         NEW v \in BOOLEAN
  PROVE  RowReady(R!ensureRoot(<<n, g, slide>>, "files", R!Fresh, v))
<1> DEFINE t == "files"
           p == R!Fresh
           u == R!ensureRoot(<<n, g, slide>>, t, p, v)
<1>1. t \in R!Tab /\ t = "files" /\ u = R!ensureRoot(<<n, g, slide>>, t, p, v)
  BY TabIs
<1>2. /\ Settles(nav, pages, slide) /\ Owned(nav, closing) /\ StacksOk(nav.stacks) /\ StacksThere(nav)
      /\ CurOf(nav) \in DOMAIN nav.stacks
  BY Found, SettlesFacts DEF Settles
<1>3. FirstSlip \notin DOMAIN nav.stacks => p \in PageIds \ Paged(nav.stacks)
  BY Found, FreshFacts
<1> HIDE DEF t, p, u
<1>4. FirstSlip \notin OtherSlips
  BY DEF OtherSlips
<1>5. n.books[t].cur \notin DOMAIN n.stacks => p \in PageIds \ Paged(n.stacks)
  BY <1>1, <1>3, <1>4 DEF RowReset
<1>6. /\ u = <<u[1], u[2], slide>> /\ u[3] = slide /\ Loose(u[1], u[2])
      /\ u[1].tab = n.tab /\ u[1].books = n.books
      /\ DOMAIN u[1].stacks = DOMAIN n.stacks \cup {n.books[t].cur}
      /\ \A s \in DOMAIN n.stacks : u[1].stacks[s] = n.stacks[s]
      /\ Paged(n.stacks) \subseteq Paged(u[1].stacks)
      /\ Paged(u[1].stacks) \subseteq Paged(n.stacks) \cup {p}
      /\ u[2].shown = g.shown /\ u[2].top = g.top
  <2>1. Loose(n, g)
    BY DEF RowReset
  <2> QED
    BY <1>1, <1>5, <2>1, RootFacts
<1>7. /\ DOMAIN u[1].stacks = (DOMAIN nav.stacks \ OtherSlips) \cup {FirstSlip}
      /\ SlipsOf(u[1]) = {FirstSlip} /\ CurOf(u[1]) = CurOf(n) /\ Len(u[1].books["files"].ids) = 1
      /\ u[2].top = pages.top /\ u[2].shown = g.shown
  BY <1>1, <1>6 DEF RowReset, SlipsOf, CurOf
<1>8. CurOf(u[1]) \in DOMAIN u[1].stacks
  BY <1>2, <1>7 DEF RowReset
<1>9. StacksThere(u[1])
  BY <1>7, <1>8 DEF StacksThere
<1>10. Owned(u[1], closing)
  <2>1. closing \cap OtherSlips = {} /\ FirstSlip \notin closing
    BY <1>2, FirstFacts DEF Owned, OtherSlips
  <2>2. DOMAIN nav.stacks \ OtherSlips \subseteq R!Tab \cup {FirstSlip} \cup closing
    BY <1>2 DEF Owned, OtherSlips
  <2> QED
    BY <1>2, <1>7, <2>1, <2>2 DEF Owned
<1>11. ASSUME CurOf(nav) \notin OtherSlips PROVE R!TopOf(u[1]) = R!TopOf(nav) /\ CurOf(u[1]) = CurOf(nav)
                                                 /\ u[2].shown = pages.shown
  <2>1. CurOf(u[1]) = CurOf(nav) /\ u[2].shown = pages.shown
    BY <1>7, <1>11 DEF RowReset
  <2>2. CurOf(nav) \in DOMAIN n.stacks
    BY <1>2, <1>11 DEF RowReset
  <2>3. u[1].stacks[CurOf(nav)] = nav.stacks[CurOf(nav)]
    BY <1>6, <2>2 DEF RowReset
  <2>4. R!TopOf(u[1]) = R!Last(u[1].stacks[CurOf(u[1])])
    BY <1>6, <1>8, TopFacts DEF Loose
  <2>5. R!TopOf(nav) = R!Last(nav.stacks[CurOf(nav)])
    BY <1>2, TopFacts
  <2> QED
    BY <2>1, <2>3, <2>4, <2>5
<1>12. ASSUME CurOf(nav) \in OtherSlips PROVE CurOf(u[1]) = FirstSlip /\ u[2].shown = {}
  BY <1>7, <1>12 DEF RowReset
<1>13. u[1].tab = nav.tab /\ FirstSlip \in DOMAIN u[1].stacks /\ Paged(u[1].stacks) \subseteq Paged(nav.stacks) \cup {p}
  BY <1>6, <1>7 DEF RowReset
<1>14. RowReady(u)
  BY <1>6, <1>7, <1>9, <1>10, <1>11, <1>12, <1>13 DEF RowReady, p
<1> QED
  BY <1>1, <1>14 DEF p

\* What is not shown cannot be hidden again.
LEMMA HidesNone ==
  ASSUME NEW n, NEW g, Loose(n, g), g.shown = {}, NEW q
  PROVE  R!hide(g, q) = g
<1>1. g.running = {} /\ FlagsAre(g)
  BY DEF Loose
<1>2. R!hide(g, q) = [g EXCEPT !.shown = g.shown \ {q}, !.running = g.running \ {q}]
  BY DEF R!hide
<1>3. g.shown \ {q} = g.shown /\ g.running \ {q} = g.running
  BY <1>1
<1> QED
  BY <1>1, <1>2, <1>3 DEF FlagsAre

\* What signing out came to: the row is ready and its first slip on its first page.
LEMMA SignedOff ==
  ASSUME RouterInv, slide = R!Still, drag = R!NoDrag, pending = None,
         NEW r, Settles(r[1], r[2], r[3]), Owned(r[1], closing), R!Become(r, drag),
         Uses(nav, slide, r, {R!Fresh}), SameOrBack(r[3], slide, "none"),
         closing' = closing, pending' = pending
  PROVE  RouterInv'
<1>1. Spared(r[3], FreeOf(nav, pages, slide, R!NoDrag) \ {R!Fresh})
  <2> DEFINE free == FreeOf(nav, pages, slide, R!NoDrag) \ {R!Fresh}
  <2> HIDE DEF free
  <2>1. Spared(r[3], free)
    BY NeedsNone DEF SameOrBack
  <2> QED
    BY <2>1 DEF free
<1> QED
  BY <1>1, Calmly

\* The first slip, not on screen, goes back to its first page.
LEMMA HeadReady ==
  ASSUME RouterInv, slide = R!Still, NEW u, RowReady(u), CurOf(u[1]) # FirstSlip \/ u[2].shown = {},
         NEW m, m = HeadOnly(u[1], FirstSlip),
         NEW h, h = R!destroy(u[2], R!ToSet(Tail(u[1].stacks[FirstSlip])))
  PROVE  /\ Loose(m, h) /\ m.tab = nav.tab /\ StacksThere(m) /\ CurOf(m) = CurOf(u[1])
         /\ Owned(m, closing) /\ Paged(m.stacks) \subseteq Paged(nav.stacks) \cup {R!Fresh}
         /\ m.stacks[FirstSlip] = <<Head(u[1].stacks[FirstSlip])>>
         /\ (CurOf(u[1]) # FirstSlip => R!TopOf(m) = R!TopOf(u[1]))
         /\ h.shown = u[2].shown /\ h.top = pages.top
<1> DEFINE n == u[1]
           g == u[2]
<1>1. /\ Loose(n, g) /\ n.tab = nav.tab /\ SlipsOf(n) = {FirstSlip} /\ StacksThere(n)
      /\ FirstSlip \in DOMAIN n.stacks
      /\ Owned(n, closing) /\ Paged(n.stacks) \subseteq Paged(nav.stacks) \cup {R!Fresh} /\ g.top = pages.top
      /\ CurOf(n) # FirstSlip \/ g.shown = {}
      /\ CurOf(n) # FirstSlip => g.shown \subseteq {R!TopOf(n)}
  <2>1. CurOf(n) # FirstSlip => g.shown \subseteq {R!TopOf(n)}
    <3>1. pages.shown \subseteq {R!TopOf(nav)}
      BY Found, SettlesFacts
    <3> QED
      BY <3>1 DEF RowReady
  <2> QED
    BY <2>1 DEF RowReady
<1>2. m = HeadOnly(n, FirstSlip) /\ h = R!destroy(g, R!ToSet(Tail(n.stacks[FirstSlip])))
  OBVIOUS
<1> HIDE DEF n, g
<1>3. g.shown \cap R!ToSet(n.stacks[FirstSlip]) = {}
  <2>1. StacksOk(n.stacks) /\ CurOf(n) \in DOMAIN n.stacks
    BY <1>1 DEF Loose, StacksThere
  <2>2. R!TopOf(n) \in R!ToSet(n.stacks[CurOf(n)])
    BY <2>1, TopFacts
  <2> QED
    BY <1>1, <2>1, <2>2 DEF StacksOk
<1>4. /\ Loose(m, h) /\ m.tab = n.tab /\ m.books = n.books /\ DOMAIN m.stacks = DOMAIN n.stacks
      /\ CurOf(m) = CurOf(n) /\ m.stacks[FirstSlip] = <<Head(n.stacks[FirstSlip])>> /\ Paged(m.stacks) \subseteq Paged(n.stacks)
      /\ \A s \in DOMAIN n.stacks \ {FirstSlip} : m.stacks[s] = n.stacks[s]
      /\ h.shown = g.shown /\ h.top = g.top
  <2> DEFINE s == FirstSlip
  <2>1. /\ m = HeadOnly(n, s) /\ h = R!destroy(g, R!ToSet(Tail(n.stacks[s]))) /\ Loose(n, g)
        /\ s \in DOMAIN n.stacks /\ g.shown \cap R!ToSet(n.stacks[s]) = {}
    BY <1>1, <1>2, <1>3
  <2> HIDE DEF s
  <2>2. Loose(m, h) /\ m.tab = n.tab /\ m.books = n.books
    BY <2>1, HeadFacts
  <2>3. DOMAIN m.stacks = DOMAIN n.stacks /\ CurOf(m) = CurOf(n) /\ m.stacks[s] = <<Head(n.stacks[s])>>
    BY <2>1, HeadFacts
  <2>4. Paged(m.stacks) \subseteq Paged(n.stacks)
    BY <2>1, HeadFacts, SMTT(60)
  <2>6. \A y \in DOMAIN n.stacks \ {s} : m.stacks[y] = n.stacks[y]
    BY <2>1, HeadFacts
  <2>5. h.shown = g.shown /\ h.top = g.top
    BY <2>1, HeadFacts
  <2> QED
    BY <2>2, <2>3, <2>4, <2>5, <2>6 DEF s
<1>5. StacksThere(m)
  BY <1>1, <1>4, ThereStill
<1>6. Owned(m, closing)
  BY <1>1, <1>4 DEF Owned, SlipsOf
<1>7. ASSUME CurOf(n) # FirstSlip PROVE R!TopOf(m) = R!TopOf(n)
  <2>1. R!TopOf(m) = R!Last(m.stacks[CurOf(m)])
    BY <1>4, <1>5, TopFacts DEF Loose, StacksThere
  <2>2. R!TopOf(n) = R!Last(n.stacks[CurOf(n)]) /\ CurOf(n) \in DOMAIN n.stacks
    BY <1>1, TopFacts DEF Loose, StacksThere
  <2> QED
    BY <1>4, <1>7, <2>1, <2>2
<1> QED
  BY <1>1, <1>4, <1>5, <1>6, <1>7 DEF n, g

LEMMA SignOutKeeps ==
  ASSUME RouterInv, ~MidSlide, R!SignOut
  PROVE  RouterInv'
<1> DEFINE ps == OnStacks(nav, OtherSlips)
           n == [nav EXCEPT !.books["files"] = [ids |-> <<FirstSlip>>, cur |-> FirstSlip],
                            !.stacks = R!Without(nav.stacks, OtherSlips)]
           g == [pages EXCEPT !.shown = pages.shown \ ps, !.running = pages.running \ (pages.shown \cap ps),
                              !.dead = pages.dead \cup ps]
           v == TRUE
           u == R!ensureRoot(<<n, g, slide>>, "files", R!Fresh, v)
           st == u[1].stacks[FirstSlip]
           m == [u[1] EXCEPT !.stacks[FirstSlip] = <<Head(st)>>]
           h == R!destroy(u[2], R!ToSet(Tail(st)))
           f == R!show(R!setTop(h, Head(st)), Head(st))
           x == "none"
<1>1. /\ ~R!Moving /\ (R!Room \/ FirstSlip \in DOMAIN nav.stacks) /\ pending' = pending /\ closing' = closing
      /\ R!Become(IF nav.tab # "files" THEN <<m, h, slide>>
                  ELSE IF nav.books["files"].cur # FirstSlip THEN <<m, f, slide>>
                  ELSE R!popToRoot(u, x), drag)
  BY DEF R!SignOut, FirstSlip, OtherSlips, SlipsOf, OnStacks
<1>2. /\ pending = None /\ slide = R!Still /\ slide.kind = "none" /\ drag = R!NoDrag
      /\ Settles(nav, pages, slide) /\ pages.shown = {R!TopOf(nav)} /\ pages.top = R!TopOf(nav)
  <2>1. drag = R!NoDrag /\ ~R!busy
    BY <1>1 DEF R!Moving, RouterInv, RouterIs, Dragged
  <2>2. pending = None /\ slide = R!Still /\ slide.kind = "none" /\ Settles(nav, pages, slide)
    BY <2>1, NotBusy, Found
  <2> QED
    BY <2>1, <2>2 DEF Settles
<1>3. v \in BOOLEAN /\ x = "none" /\ x \in {"none", "pop", "push"}
  OBVIOUS
<1>4. Leaves(pages, g, nav, OtherSlips)
  <2>1. FlagsAre(pages)
    BY <1>2 DEF Settles, Loose
  <2>2. ps = OnStacks(nav, OtherSlips)
    OBVIOUS
  <2> HIDE DEF ps
  <2>3. g = [shown |-> pages.shown \ ps, running |-> pages.running \ (ps \cap pages.shown),
             mounted |-> pages.mounted, dead |-> pages.dead \cup ps, top |-> pages.top]
    <3> DEFINE y == pages.running \ (ps \cap pages.shown)
    <3>1. y = pages.running \ (pages.shown \cap ps)
      OBVIOUS
    <3> HIDE DEF y
    <3>2. g = [pages EXCEPT !.shown = pages.shown \ ps, !.running = y, !.dead = pages.dead \cup ps]
      BY <3>1
    <3> HIDE DEF g
    <3>3. g = [shown |-> pages.shown \ ps, running |-> y, mounted |-> pages.mounted,
               dead |-> pages.dead \cup ps, top |-> pages.top]
      BY <2>1, <3>2 DEF FlagsAre
    <3> QED
      BY <3>3 DEF y
  <2> HIDE DEF g
  <2> QED
    BY <2>2, <2>3 DEF Leaves, FlagsAre
<1>5. n = [nav EXCEPT !.books["files"] = [ids |-> <<FirstSlip>>, cur |-> FirstSlip],
                      !.stacks = R!Without(nav.stacks, OtherSlips)]
  OBVIOUS
<1> HIDE DEF n, g, ps
<1>6. RowReset(n, g)
  BY <1>2, <1>4, <1>5, RowResets
<1> HIDE DEF v
<1>7. RowReady(u)
  BY <1>1, <1>2, <1>3, <1>6, RowRoots
<1> HIDE DEF u
<1>8. /\ u = <<u[1], u[2], slide>> /\ u[3] = slide /\ Loose(u[1], u[2]) /\ u[1].tab = nav.tab
      /\ StacksThere(u[1]) /\ Owned(u[1], closing)
      /\ Paged(u[1].stacks) \subseteq Paged(nav.stacks) \cup {R!Fresh}
      /\ u[2].top = pages.top
      /\ CurOf(nav) \notin OtherSlips =>
           CurOf(u[1]) = CurOf(nav) /\ u[2].shown = pages.shown /\ R!TopOf(u[1]) = R!TopOf(nav)
      /\ CurOf(nav) \in OtherSlips => CurOf(u[1]) = FirstSlip /\ u[2].shown = {}
  BY <1>7 DEF RowReady
<1>9. m = HeadOnly(u[1], FirstSlip) /\ h = R!destroy(u[2], R!ToSet(Tail(u[1].stacks[FirstSlip])))
      /\ f = R!show(R!setTop(h, Head(st)), Head(st)) /\ st = u[1].stacks[FirstSlip]
  BY DEF HeadOnly
<1> HIDE DEF m, h, f, st, x
<1>10. CASE nav.tab # "files"
  <2> DEFINE r == <<m, h, slide>>
  <2>1. R!Become(r, drag) /\ r[1] = m /\ r[2] = h /\ r[3] = slide
    BY <1>1, <1>10
  <2> HIDE DEF r
  <2>2. CurOf(nav) \notin OtherSlips /\ CurOf(nav) # FirstSlip
    BY <1>10, FirstFacts DEF OtherSlips
  <2>3. CurOf(u[1]) # FirstSlip
    BY <1>8, <2>2
  <2>4. /\ Loose(m, h) /\ StacksThere(m) /\ Owned(m, closing)
        /\ Paged(m.stacks) \subseteq Paged(nav.stacks) \cup {R!Fresh}
        /\ R!TopOf(m) = R!TopOf(u[1]) /\ h.shown = u[2].shown /\ h.top = pages.top
    BY <1>2, <1>7, <1>9, <2>3, HeadReady
  <2>5. h.shown = {R!TopOf(m)} /\ h.top = R!TopOf(m)
    BY <1>2, <1>8, <2>2, <2>4
  <2>6. Settles(m, h, slide)
    BY <1>2, <2>4, <2>5 DEF Settles, R!Still
  <2>7. Settles(r[1], r[2], r[3]) /\ Owned(r[1], closing) /\ SameOrBack(r[3], slide, "none")
        /\ Uses(nav, slide, r, {R!Fresh})
    BY <2>1, <2>4, <2>6 DEF SameOrBack, Uses
  <2> QED
    BY <1>1, <1>2, <2>1, <2>7, SignedOff
<1>11. CASE nav.tab = "files" /\ nav.books["files"].cur # FirstSlip
  <2> DEFINE r == <<m, f, slide>>
  <2>1. R!Become(r, drag) /\ r[1] = m /\ r[2] = f /\ r[3] = slide
    BY <1>1, <1>11
  <2> HIDE DEF r
  <2>2. CurOf(nav) \in OtherSlips
    BY <1>11, FirstFacts DEF OtherSlips, CurOf
  <2>3. CurOf(u[1]) = FirstSlip /\ u[2].shown = {}
    BY <1>8, <2>2
  <2>4. /\ Loose(m, h) /\ StacksThere(m) /\ Owned(m, closing) /\ CurOf(m) = FirstSlip
        /\ Paged(m.stacks) \subseteq Paged(nav.stacks) \cup {R!Fresh}
        /\ m.stacks[FirstSlip] = <<Head(st)>> /\ h.shown = {}
    BY <1>2, <1>7, <1>9, <2>3, HeadReady
  <2>5. R!TopOf(m) = Head(st)
    <3>1. StackOk(st)
      BY <1>7, <1>9 DEF RowReady, Loose, StacksOk
    <3>2. R!Last(<<Head(st)>>) = Head(st)
      BY <3>1, FirstOnly
    <3>3. R!TopOf(m) = R!Last(m.stacks[CurOf(m)])
      BY <2>4, TopFacts DEF Loose, StacksThere
    <3> QED
      BY <2>4, <3>2, <3>3
  <2>6. f = R!show(R!setTop(R!hide(h, None), R!TopOf(m)), R!TopOf(m)) /\ h.shown \subseteq {None}
    BY <1>9, <2>4, <2>5, HidesNone
  <2>7. Settles(m, f, slide)
    BY <1>2, <2>4, <2>6, TurnFacts
  <2>8. Settles(r[1], r[2], r[3]) /\ Owned(r[1], closing) /\ SameOrBack(r[3], slide, "none")
        /\ Uses(nav, slide, r, {R!Fresh})
    BY <2>1, <2>4, <2>7 DEF SameOrBack, Uses
  <2> QED
    BY <1>1, <1>2, <2>1, <2>8, SignedOff
<1>12. CASE nav.tab = "files" /\ nav.books["files"].cur = FirstSlip
  <2> DEFINE r == R!popToRoot(<<u[1], u[2], u[3]>>, x)
  <2>1. R!Become(r, drag) /\ r = R!popToRoot(<<u[1], u[2], u[3]>>, x)
    BY <1>1, <1>8, <1>12
  <2> HIDE DEF r
  <2>2. CurOf(nav) \notin OtherSlips
    BY <1>12 DEF OtherSlips, CurOf
  <2>3. Settles(u[1], u[2], u[3])
    BY <1>2, <1>8, <2>2 DEF Settles, R!Still
  <2>4. Step(u[1], u[3], r, {})
    BY <1>3, <2>1, <2>3, PopFacts
  <2>5. r[3] # u[3] => u[3].kind = "none" /\ r[3].kind = "back" /\ r[3].next = x
    BY <1>3, <2>1, <2>3, PopFacts
  <2>6. Uses(nav, slide, r, {R!Fresh})
    BY <1>8, <2>4 DEF Step, Uses
  <2>7. Settles(r[1], r[2], r[3]) /\ Owned(r[1], closing)
    <3>1. BooksOk(u[1].books)
      BY <1>8 DEF Loose
    <3> QED
      BY <1>8, <2>4, <3>1, OwnedStays DEF Step
  <2>8. SameOrBack(r[3], slide, "none")
    BY <1>3, <1>8, <2>5 DEF SameOrBack
  <2> QED
    BY <1>1, <1>2, <2>1, <2>6, <2>7, <2>8, SignedOff
<1> QED
  BY <1>10, <1>11, <1>12

-----------------------------------------------------------------------------
\* All of it.

\* The panel begins on the first page of its first tab.
LEMMA RouterBegins ==
  ASSUME R!Init
  PROVE  RouterInv
<1>1. PICK p \in PageIds, v \in BOOLEAN :
        /\ nav = [tab |-> Head(<<"overview", "files", "network">>),
                  books |-> [t \in R!Tab |-> [ids |-> <<t>>, cur |-> t]],
                  stacks |-> [s \in {Head(<<"overview", "files", "network">>)} |-> <<p>>]]
        /\ pages = [shown |-> {p}, running |-> IF v THEN {p} ELSE {},
                    mounted |-> IF v THEN {p} ELSE {}, dead |-> {}, top |-> p]
        /\ pending = None /\ slide = R!Still /\ drag = R!NoDrag /\ closing = {}
  BY DEF R!Init
<1> DEFINE k == [s \in {"overview"} |-> <<p>>]
           f == [t \in R!Tab |-> [ids |-> <<t>>, cur |-> t]]
           y == IF v THEN {p} ELSE {}
<1>2. Head(<<"overview", "files", "network">>) = "overview"
  OBVIOUS
<1>3. nav = [tab |-> "overview", books |-> f, stacks |-> k]
  BY <1>1, <1>2
<1>4. /\ DOMAIN k = {"overview"} /\ k["overview"] = <<p>> /\ k = [s \in DOMAIN k |-> k[s]]
  OBVIOUS
<1>5. y \subseteq {p}
  OBVIOUS
<1>6. pages = [shown |-> {p}, running |-> y, mounted |-> y, dead |-> {}, top |-> p]
  BY <1>1
<1>7. /\ DOMAIN f = R!Tab /\ \A t \in R!Tab : f[t] = [ids |-> <<t>>, cur |-> t]
      /\ f = [t \in R!Tab |-> f[t]]
  OBVIOUS
<1> HIDE DEF k, f, y
<1>8. nav.tab = "overview" /\ nav.books = f /\ nav.stacks = k /\ NavIs(nav)
  BY <1>3 DEF NavIs
<1>9. pages.shown = {p} /\ pages.running = y /\ pages.mounted = y /\ pages.dead = {} /\ pages.top = p /\ FlagsAre(pages)
  BY <1>6 DEF FlagsAre
<1>10. StackOk(<<p>>) /\ R!ToSet(<<p>>) = {p} /\ R!Last(<<p>>) = p
  BY OnePage
<1>11. StacksOk(k)
  BY <1>4, <1>10 DEF StacksOk
<1>12. Paged(k) = {p}
  BY <1>4, <1>10 DEF Paged
<1>13. ASSUME NEW t PROVE R!ToSet(<<t>>) = {t}
  <2> DEFINE q == <<t>>
  <2>1. DOMAIN q = {1} /\ q[1] = t
    OBVIOUS
  <2> HIDE DEF q
  <2>2. R!ToSet(q) = {t}
    BY <2>1 DEF R!ToSet
  <2> QED
    BY <2>2 DEF q
<1>14. "overview" \in R!Tab /\ "files" \in R!Tab
  BY TabIs
<1>15. \A t \in R!Tab : f[t].ids = <<t>> /\ f[t].cur = t /\ f[t] = [ids |-> f[t].ids, cur |-> f[t].cur]
  BY <1>7
<1>16. SlipsOk(<<"files">>)
  BY OneSlip DEF Slots
<1>17. BooksOk(f)
  <2>1. \A t \in R!Tab : f[t].cur \in R!ToSet(f[t].ids)
    BY <1>13, <1>15
  <2>2. SlipsOk(f["files"].ids)
    BY <1>14, <1>15, <1>16
  <2> QED
    BY <1>7, <1>15, <2>1, <2>2 DEF BooksOk
<1>18. CurOf(nav) = "overview" /\ SlipsOf(nav) = {"files"} /\ nav.books["files"].ids = <<"files">>
  BY <1>8, <1>13, <1>14, <1>15 DEF CurOf, SlipsOf
<1>19. Len(<<"files">>) = 1
  OBVIOUS
<1>20. StacksThere(nav)
  BY <1>4, <1>8, <1>18, <1>19 DEF StacksThere
<1>21. R!TopOf(nav) = p
  <2>1. R!TopOf(nav) = R!Last(nav.stacks[CurOf(nav)])
    BY <1>8, <1>11, <1>20, TopFacts DEF StacksThere
  <2> QED
    BY <1>4, <1>8, <1>10, <1>18, <2>1
<1>22. Loose(nav, pages)
  <2>1. pages.running = pages.shown \cap pages.mounted
    BY <1>5, <1>9
  <2> QED
    BY <1>8, <1>9, <1>11, <1>12, <1>14, <1>17, <2>1 DEF Loose
<1>23. slide = R!Still /\ slide.kind = "none" /\ slide.next = "none" /\ SlideIs(slide)
  BY <1>1 DEF R!Still, SlideIs
<1>24. Settles(nav, pages, slide)
  BY <1>9, <1>20, <1>21, <1>22, <1>23 DEF Settles
<1>25. Owned(nav, closing)
  BY <1>1, <1>4, <1>8, <1>14 DEF Owned
<1>26. Spared(slide, FreeOf(nav, pages, slide, drag))
  BY <1>23, NeedsNone
<1>27. Dragged(nav, slide, drag)
  BY <1>1 DEF Dragged, R!NoDrag
<1> QED
  BY <1>1, <1>24, <1>25, <1>26, <1>27 DEF RouterInv, RouterIs

LEMMA TapKeeps ==
  ASSUME RouterInv, ~MidSlide, R!Tap
  PROVE  RouterInv'
<1>1. ASSUME NEW t \in R!Tab, R!TapTab(t) PROVE RouterInv'
  BY <1>1, TapTabKeeps
<1>2. ASSUME NEW t \in R!Tab, R!GoTo(t) PROVE RouterInv'
  BY <1>2, GoToKeeps
<1>3. CASE R!nextTab
  BY <1>3, NextTabKeeps
<1>4. CASE R!Push
  BY <1>4, PushKeeps
<1>5. CASE R!Back
  BY <1>5, BackKeeps
<1>6. ASSUME NEW l \in 1..MaxDepth, R!BackTo(l) PROVE RouterInv'
  BY <1>6, BackToKeeps
<1> QED
  BY <1>1, <1>2, <1>3, <1>4, <1>5, <1>6 DEF R!Tap

LEMMA SlipKeeps ==
  ASSUME RouterInv, ~MidSlide, R!Slip
  PROVE  RouterInv'
<1>1. ASSUME NEW s \in Slips, NEW folder \in BOOLEAN, R!openSlipTab(s, folder) PROVE RouterInv'
  BY <1>1, OpenSlipTabKeeps
<1>2. ASSUME NEW s, R!switchSlipTab(s) PROVE RouterInv'
  BY <1>2, SwitchSlipTabKeeps
<1>3. ASSUME NEW s, R!closeSlipTab(s) PROVE RouterInv'
  BY <1>3, CloseSlipTabKeeps
<1>4. ASSUME NEW s, R!closeOtherSlipTabs(s) PROVE RouterInv'
  BY <1>4, CloseOthersKeeps
<1> QED
  BY <1>1, <1>2, <1>3, <1>4 DEF R!Slip

LEMMA SwipeKeeps ==
  ASSUME RouterInv, R!Swipe
  PROVE  RouterInv'
<1>1. CASE R!PointerDown
  BY <1>1, PointerDownKeeps
<1>2. CASE R!LetGo
  BY <1>2, LetGoKeeps
<1>3. ASSUME NEW v \in BOOLEAN, R!Release(v) PROVE RouterInv'
  BY <1>3, ReleaseKeeps
<1>4. CASE R!Settled
  BY <1>4, SettledKeeps
<1> QED
  BY <1>1, <1>2, <1>3, <1>4 DEF R!Swipe

LEMMA RouterMoves ==
  ASSUME RouterInv, ~MidSlide, [R!Next]_(R!vars)
  PROVE  RouterInv'
<1>1. CASE UNCHANGED R!vars
  <2>1. nav' = nav /\ pages' = pages /\ pending' = pending /\ slide' = slide /\ drag' = drag /\ closing' = closing
    BY <1>1 DEF R!vars
  <2>2. RouterIs(nav', pages', pending', slide', drag', closing')
    BY <2>1 DEF RouterInv
  <2> QED
    BY <2>2 DEF RouterInv
<1>2. CASE R!Tap
  BY <1>2, TapKeeps
<1>3. CASE R!Slip
  BY <1>3, SlipKeeps
<1>4. CASE R!Swipe
  BY <1>4, SwipeKeeps
<1>5. CASE R!SignOut
  BY <1>5, SignOutKeeps
<1>6. CASE R!EndSlide
  BY <1>6, EndSlideSteps
<1>7. ASSUME NEW p \in PageIds, R!Arrive(p) PROVE RouterInv'
  BY <1>7, ArriveKeeps
<1>8. ASSUME NEW s \in Slips \cup {"files"}, R!DropClosed(s) PROVE RouterInv'
  BY <1>8, DropClosedKeeps
<1>9. CASE R!Next
  BY <1>2, <1>3, <1>4, <1>5, <1>6, <1>7, <1>8, <1>9 DEF R!Next
<1> QED
  BY <1>1, <1>9

\* What the invariant says of the stacks, of the page on screen and of those destroyed.
LEMMA StacksSay == RouterInv => R!StacksSound
<1> SUFFICES ASSUME RouterInv PROVE R!StacksSound
  OBVIOUS
<1>1. /\ Settles(nav, pages, slide) /\ Owned(nav, closing) /\ BooksOk(nav.books) /\ nav.tab \in R!Tab
      /\ StacksOk(nav.stacks) /\ pending \in R!Tab \cup {None}
  BY Found
<1>2. R!Rooted
  BY <1>1, StackFacts DEF StacksOk, R!Rooted
<1>3. \A s \in DOMAIN nav.stacks : R!ToSet(nav.stacks[s]) \subseteq PageIds
  BY <1>1, StackFacts DEF StacksOk
<1>4. slide.kind \in {"none", "push", "back"} /\ drag.phase \in {"none", "drag", "leave", "stay"}
  BY <1>1 DEF Settles, SlideIs, RouterInv, RouterIs, Dragged
<1>5. R!TypeOK
  BY <1>1, <1>3, <1>4 DEF R!TypeOK, BooksOk
<1>6. R!ToSet(R!Ids) = SlipsOf(nav) /\ Len(R!Ids) <= MaxSlips
  BY <1>1 DEF R!Ids, SlipsOf, BooksOk, SlipsOk
<1> QED
  BY <1>1, <1>2, <1>5, <1>6 DEF R!StacksSound, Owned

LEMMA TopSays == RouterInv => R!OnlyTopRuns /\ R!DeadStayQuiet
<1> SUFFICES ASSUME RouterInv PROVE R!OnlyTopRuns /\ R!DeadStayQuiet
  OBVIOUS
<1>1. Settles(nav, pages, slide) /\ Loose(nav, pages) /\ StacksOk(nav.stacks)
  BY Found
<1>2. R!OnlyTopRuns
  BY <1>1 DEF Settles, Loose, R!OnlyTopRuns, R!busy
<1>3. R!InStacks(nav) = Paged(nav.stacks)
  BY PagedIs
<1>4. R!DeadStayQuiet
  BY <1>1, <1>3 DEF Loose, StacksOk, R!DeadStayQuiet
<1> QED
  BY <1>2, <1>4

\* A tab that waits is left only for that tab, or for another one.
LEMMA WaitSteps ==
  ASSUME RouterInv, ~MidSlide, [R!Next]_(R!vars)
  PROVE  R!TapKept
<1>1. pending # None => R!busy
  BY Found
<1>2. ASSUME NEW t \in R!Tab, pending = t, pending' # t PROVE nav'.tab = t \/ pending' # None
  <2>1. t # None /\ R!busy
    BY <1>1, <1>2, RouterConstants
  <2>2. ASSUME NEW u \in R!Tab, R!TapTab(u) PROVE pending' # None
    BY <2>1, <2>2, RouterConstants DEF R!TapTab
  <2>3. ASSUME NEW u, R!GoTo(u) PROVE FALSE
    BY <2>1, <2>3 DEF R!GoTo
  <2>4. CASE R!nextTab
    BY <2>1, <2>4, NextTaps, <2>2
  <2>5. CASE R!EndSlide
    BY <1>2, <2>1, <2>5, EndSlideSteps
  <2>6. CASE R!Push \/ R!Back \/ \E l \in 1..MaxDepth : R!BackTo(l)
    BY <1>2, <2>6 DEF R!Push, R!Back, R!BackTo
  <2>7. CASE R!Slip
    BY <1>2, <2>7 DEF R!Slip, R!openSlipTab, R!switchSlipTab, R!closeSlipTab, R!closeOtherSlipTabs
  <2>8. CASE R!Swipe
    BY <1>2, <2>8 DEF R!Swipe, R!PointerDown, R!LetGo, R!Release, R!Settled
  <2>9. CASE R!SignOut
    BY <1>2, <2>9 DEF R!SignOut
  <2>10. ASSUME NEW p, R!Arrive(p) \/ R!DropClosed(p) PROVE FALSE
    BY <1>2, <2>10 DEF R!Arrive, R!DropClosed
  <2>11. CASE UNCHANGED R!vars
    BY <1>2, <2>11 DEF R!vars
  <2>12. CASE R!Tap
    BY <2>2, <2>3, <2>4, <2>6, <2>12 DEF R!Tap
  <2> QED
    BY <2>5, <2>7, <2>8, <2>9, <2>10, <2>11, <2>12 DEF R!Next
<1> QED
  BY <1>1, <1>2 DEF R!TapKept

-----------------------------------------------------------------------------
\* The router in the specification of the panel, where it is one scene of six (MCPanel).

RouterScene == scene = "router" => RouterInv

LEMMA SceneBegins == PanelInit => RouterScene
BY RouterBegins DEF PanelInit, RouterScene

LEMMA SceneSteps ==
  ASSUME [PanelNext]_all
  PROVE  scene' = scene /\ (scene = "router" => [R!Next]_(R!vars))
<1>1. CASE UNCHANGED all
  <2>1. UNCHANGED <<scene, vars, pending, page, visits, known, req, presses, trouble, meant, ofR, ofB, ofD, ofW, ofE>>
    BY <1>1 DEF all
  <2>2. UNCHANGED R!vars
    BY <2>1 DEF ofR, R!vars
  <2> QED
    BY <2>1, <2>2
<1>2. CASE PanelNext
  BY <1>2 DEF PanelNext
<1> QED
  BY <1>1, <1>2

LEMMA SceneKeeps ==
  ASSUME ~MidSlide, RouterScene, [PanelNext]_all
  PROVE  RouterScene'
BY SceneSteps, RouterMoves DEF RouterScene

\* Each tab keeps its own stack of pages, the files tab one for each of its slips and for
\* those that are closed but wait for their timers; only the page on screen is shown and
\* runs, and none at all while one slides; and a page destroyed is on no stack, is not
\* shown and does not run: for any number of slips and pages, however taps, slides,
\* swipes, late modules and the sign-out follow each other (router.js, swipe.js), as long
\* as no tap or sign-out gets past what blocks them while pages move.
THEOREM RouterIsSound ==
  ASSUME ~MidSlide
  PROVE  PanelSpec => []RouterSound
<1>1. RouterScene => RouterSound
  BY StacksSay, TopSays DEF RouterScene, RouterSound
<1> QED
  BY <1>1, SceneBegins, SceneKeeps, PTL DEF PanelSpec

\* A tab tapped while pages slide waits for the slide and is on screen after it, unless
\* another was tapped meanwhile (pendingTab, done; router.js).
THEOREM TappedTabComes ==
  ASSUME ~MidSlide
  PROVE  PanelSpec => TapNotDropped
<1>1. RouterScene /\ [PanelNext]_all => [scene = "router" => R!TapKept]_all
  BY SceneSteps, WaitSteps DEF RouterScene
<1> QED
  BY <1>1, SceneBegins, SceneKeeps, PTL DEF PanelSpec, TapNotDropped
=============================================================================
