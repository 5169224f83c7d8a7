----------------------------- MODULE WifiMonitor -----------------------------
(***************************************************************************)
(* The Wi-Fi monitor of t6-ledd (crates/t6-ledd/src/wifi.rs): a thread      *)
(* that samples the card every two seconds and NetworkManager every ten, or *)
(* at once when it is told of a change, and reports what has lasted.        *)
(*                                                                          *)
(* One wireless interface; "limited" stands for a missing address, a sign-in *)
(* page and a network without internet alike, "disconnected" for no network  *)
(* saved, too.  The unit of time is the time between samples; ages are       *)
(* counted up to the bound they are compared with.                           *)
(***************************************************************************)
EXTENDS Naturals, FiniteSets

CONSTANTS
  NM_EVERY, NM_DOWN_AFTER, CONNECTING_MAX, WORSE_AFTER, FAULT_AFTER,
  None,
  MaxChanges   \* how often the machine changes, a query fails or the daemon restarts

\* What the code's constants are.
WifiParameters ==
  /\ {NM_EVERY, NM_DOWN_AFTER, CONNECTING_MAX, WORSE_AFTER, FAULT_AFTER} \subseteq Nat \ {0}
  /\ None \notin Nat /\ MaxChanges \in Nat

VARIABLES
  \* the machine
  card,       \* the card, as sysfs tells at once
  nm,         \* what NetworkManager would answer
  signal,
  told,       \* nmcli monitor, or an operstate, tells of a change
  boot,       \* the first minute after boot
  \* struct Monitor
  view, asked, down, connecting, weak, reported, candidate,
  \* history
  ill,        \* how long every sample has found a fault
  changes     \* changes still to come

machine == <<card, nm, signal, boot>>
monitor == <<view, asked, down, connecting, weak, reported, candidate>>
vars    == <<machine, told, monitor, ill, changes>>

Cards    == {"fine", "no driver", "no card", "hard block", "soft block"}
Networks == {"down", "radio off", "unavailable", "disconnected", "activating",
             "limited", "online", "hotspot"}

Least(m, n) == IF m < n THEN m ELSE n
\* An age d later; one that begins now is 0.
Older(age, d, max) == IF age = None THEN 0 ELSE Least(age + d, max)
Ages(max) == 0..max \cup {None}

-----------------------------------------------------------------------------
\* A report: the state, and why.  Those that depend on nothing else:
Plain ==
  [k \in {"no driver", "no card", "hard block", "soft block", "radio off", "unavailable",
          "disconnected", "limited", "hotspot", "unlisted"} |->
     CASE k \in {"no driver", "hard block", "unavailable"} -> <<"fault", k>>
       [] k \in {"soft block", "radio off"} -> <<"off", "disabled">>
       [] k \in {"no card", "disconnected", "unlisted"} -> <<"off", k>>
       [] k \in {"limited", "hotspot"} -> <<k, k>>]

rank(state) ==
  CASE state \in {"hotspot", "online"} -> 6 [] state = "weak" -> 5
    [] state = "connecting" -> 4 [] state = "limited" -> 3
    [] state = "fault" -> 2 [] state = "off" -> 1

\* What decides: the card, or else NetworkManager's last answer.  A device it does
\* not list counts by its link.
Found(v) == IF card # "fine" THEN card
            ELSE IF v # "unlisted" \/ nm \notin {"limited", "online", "hotspot"} THEN v
            ELSE "online"

\* signal_state()
Weak(found) ==
  IF found # "online" \/ signal = "fair" THEN weak ELSE signal = "poor"

\* classify_nm(): since when it is connecting; the returns before the interfaces are
\* looked at leave it as it was, but the one without any.
Connecting(found, d) ==
  LET since == Older(connecting, d, CONNECTING_MAX) IN
  IF found \in {"hard block", "soft block", "down", "radio off"}
  THEN IF connecting = None THEN None ELSE since
  ELSE IF found = "activating" /\ since < CONNECTING_MAX THEN since ELSE None

\* classify(), after the ages and the signal are brought up to date.
Classified(found) ==
  CASE found \in DOMAIN Plain -> Plain[found]
    [] found = "down" -> IF down' = NM_DOWN_AFTER THEN <<"fault", "nm-down">>
                         ELSE IF reported = None THEN <<"off", "starting">> ELSE reported
    [] found = "activating" -> IF connecting' # None THEN <<"connecting", found>>
                               ELSE <<"off", "disconnected">>
    [] found = "online" -> IF weak' THEN <<"weak", "signal">> ELSE <<"online", found>>

\* Mutant: a state that waits takes over the time of the one before.
DebounceInherits(r, d) ==
  LET since == IF candidate = None THEN 0 ELSE candidate.age + d
      wait  == IF r[1] = "fault" THEN FAULT_AFTER ELSE WORSE_AFTER
  IN
  IF \/ reported = None \/ r = reported
     \/ r[1] \notin {"fault", "limited", "off"} /\ rank(r[1]) > rank(reported[1])
     \/ r = <<"off", "disabled">> \/ since >= wait
  THEN reported' = r /\ candidate' = None
  ELSE reported' = reported /\ candidate' = [report |-> r, age |-> since]

\* debounce(): better at once, worse when it has lasted.
Debounce(r, d) ==
  LET since == IF candidate = None \/ candidate.report # r THEN 0 ELSE candidate.age + d
      wait  == IF r[1] = "fault" THEN FAULT_AFTER ELSE WORSE_AFTER
  IN
  IF \/ reported = None \/ r = reported
     \/ r[1] \notin {"fault", "limited", "off"} /\ rank(r[1]) > rank(reported[1])
     \/ r = <<"off", "disabled">> \/ since >= wait
  THEN reported' = r /\ candidate' = None
  ELSE reported' = reported /\ candidate' = [report |-> r, age |-> since]

-----------------------------------------------------------------------------
\* query_nm(): a query that fails counts as NetworkManager down; one that fails for
\* the device leaves it unlisted.
Query ==
  \/ view' = nm /\ UNCHANGED changes
  \/ /\ changes > 0 /\ changes' = changes - 1
     /\ view' \in {"down", "unlisted"}

\* A fault, however it is called.
IsIll(found) == found \in {"no driver", "hard block", "unavailable", "down"}

\* sample(): the next one in its turn, or as soon as NetworkManager tells.
Sample ==
  \E d \in IF told THEN {0, 1} ELSE {1} :
    LET every == IF view \in {"down", "activating"} THEN 1 ELSE NM_EVERY
        due   == told \/ view = None \/ asked + d >= every
        found == Found(view')
    IN
    /\ told' = FALSE
    /\ \/ due /\ Query /\ asked' = 0
       \/ ~due /\ asked' = asked + d /\ UNCHANGED <<view, changes>>
    /\ down' = IF view' = "down" THEN Older(down, d, NM_DOWN_AFTER) ELSE None
    /\ connecting' = Connecting(found, d)
    /\ weak' = Weak(found)
    /\ LET r == Classified(found) IN
       Debounce(IF boot /\ r[1] = "fault" THEN <<"off", "starting">> ELSE r, d)
    /\ ill' = IF IsIll(found) THEN Older(ill, d, FAULT_AFTER) ELSE None
    /\ UNCHANGED machine

-----------------------------------------------------------------------------
\* The machine.  nmcli monitor may be away when NetworkManager changes.

Change == changes > 0 /\ changes' = changes - 1

CardChanges ==
  /\ Change /\ card' \in Cards \ {card}
  /\ UNCHANGED <<nm, signal, boot, told, monitor, ill>>

NetworkChanges ==
  /\ Change /\ nm' \in Networks \ {nm} /\ told' \in {told, TRUE}
  /\ UNCHANGED <<card, signal, boot, monitor, ill>>

SignalChanges ==
  /\ Change /\ signal' \in {"strong", "fair", "poor"} \ {signal}
  /\ UNCHANGED <<card, nm, boot, told, monitor, ill>>

BootEnds ==
  /\ boot /\ boot' = FALSE
  /\ UNCHANGED <<card, nm, signal, told, monitor, ill, changes>>

\* The daemon starts again, with Monitor::default().
Restart ==
  /\ Change
  /\ view' = None /\ asked' = 0 /\ down' = None /\ connecting' = None
  /\ weak' = FALSE /\ reported' = None /\ candidate' = None
  /\ ill' = None
  /\ UNCHANGED <<machine, told>>

\* The daemon starts when NetworkManager may not be up, or not connected yet.
Init ==
  /\ card = "fine" /\ nm \in {"down", "disconnected", "online"} /\ signal = "strong"
  /\ told = FALSE /\ boot \in BOOLEAN
  /\ view = None /\ asked = 0 /\ down = None /\ connecting = None
  /\ weak = FALSE /\ reported = None /\ candidate = None
  /\ ill = None /\ changes = MaxChanges

Next == Sample \/ CardChanges \/ NetworkChanges \/ SignalChanges \/ BootEnds \/ Restart

Spec == Init /\ [][Next]_vars

\* The thread runs, and the first minute passes.
FairSpec == Spec /\ WF_vars(Sample) /\ WF_vars(BootEnds)

-----------------------------------------------------------------------------
States == {"off", "fault", "limited", "connecting", "weak", "online", "hotspot"}

TypeOK ==
  /\ card \in Cards /\ nm \in Networks /\ signal \in {"strong", "fair", "poor"}
  /\ told \in BOOLEAN /\ boot \in BOOLEAN
  /\ view \in Networks \cup {"unlisted", None}
  /\ asked \in 0..(NM_EVERY - 1)
  /\ down \in Ages(NM_DOWN_AFTER) /\ connecting \in Ages(CONNECTING_MAX)
  /\ weak \in BOOLEAN
  /\ reported # None => reported[1] \in States
  /\ candidate # None => candidate.report[1] \in States /\ candidate.age \in Nat
  /\ ill \in Ages(FAULT_AFTER) /\ changes \in 0..MaxChanges

\* The LED turns red only for a fault that every sample has found for FAULT_AFTER, and
\* for none in the first minute after boot (README: "red 10 s (and never in the first
\* 60 s after boot)"), whatever came in between; after a start, for the first sample.
RedHasLasted ==
  [][/\ reported' # None /\ reported'[1] = "fault"
     /\ reported = None \/ reported[1] # "fault"
     => ~boot /\ (reported = None \/ ill' = FAULT_AFTER)]_vars

\* What the LED should end up showing of a card, a network and a signal that stay.
Verdict(c, n, s) ==
  LET k == IF c = "fine" THEN n ELSE c IN
  CASE k \in {"no driver", "hard block", "unavailable", "down"} -> {"fault"}
    [] k \in {"no card", "soft block", "radio off", "disconnected"} -> {"off"}
    [] k \in {"limited", "hotspot"} -> {k}
    [] k = "online" -> CASE s = "strong" -> {"online"} [] s = "poor" -> {"weak"}
                         [] s = "fair" -> {"online", "weak"}

\* What lasts is shown: once nothing changes any more the LED comes to show what is,
\* and keeps to it, whatever flickered before, whether NetworkManager told of it, a query
\* failed or the daemon restarted (wifi.rs: debounce()).
ShowsWhatLasts ==
  <>[](\/ card = "fine" /\ nm = "activating"
       \/ reported # None /\ reported[1] \in Verdict(card, nm, signal))

-----------------------------------------------------------------------------
\* Statements of the sources that a run refutes.

\* "Longest time "connecting" is shown before it counts as not connected" (wifi.rs),
\* "NetworkManager is connecting (at most 60 s)" (README).
ConnectingEnds ==
  <>[](card = "fine" /\ nm = "activating") => <>(reported # None /\ reported[1] # "connecting")
=============================================================================
