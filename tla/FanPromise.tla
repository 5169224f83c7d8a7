----------------------------- MODULE FanPromise -----------------------------
(***************************************************************************)
(* What the fan driver promises, with nothing of how: at any time it either *)
(* promises a speed for every fan or promises nothing.  While a promise     *)
(* stands no fan moves except to the promised speed, and every fan gets     *)
(* there.  T6Fan implements this.                                           *)
(***************************************************************************)
CONSTANTS Fan, Pct

VARIABLES
  promise,  \* the promised speeds: one function in a set, or the empty set
  speed     \* how fast each fan is driven

vars == <<promise, speed>>
Speeds == [Fan -> Pct]

Init == promise = {} /\ speed \in Speeds

Give == /\ promise' \in {{s} : s \in Speeds}
        /\ UNCHANGED speed

Withdraw == promise' = {} /\ UNCHANGED speed

\* Without a promise the speeds may be anything, as during a hand-over.
Drift == promise = {} /\ speed' \in Speeds /\ UNCHANGED promise

Deliver(f) == /\ \E s \in promise : speed' = [speed EXCEPT ![f] = s[f]]
              /\ UNCHANGED promise

Next == Give \/ Withdraw \/ Drift \/ \E f \in Fan : Deliver(f)

Spec == Init /\ [][Next]_vars
FairSpec == Spec /\ \A f \in Fan : WF_vars(Deliver(f))
=============================================================================
