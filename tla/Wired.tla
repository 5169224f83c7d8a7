--------------------------------- MODULE Wired ---------------------------------
(***************************************************************************)
(* The page of the wired ports (pages/network/wired.js): how each port     *)
(* gets its address, and inputs for one set by hand, which are saved as    *)
(* soon as they make a whole address.  The page is painted by the painter  *)
(* of core/dom.js, that waits while a field has the focus; the saves are   *)
(* eth_set of crates/t6-hw-rs/src/network.rs.                              *)
(* An address is its ip and its mask; of gateway and DNS there is no more  *)
(* to say.                                                                 *)
(***************************************************************************)
EXTENDS Integers, FiniteSets

CONSTANTS
  Ports,
  MaxPresses,    \* bound: what is pressed or typed
  MaxVisits,     \* bound: times the page is shown
  MaxTrouble,    \* bound: saves that fail
  Overlap,       \* whether a save begins while another, or what follows it, is under way
  None

\* None is no field.
WiredAssumption ==
  /\ {MaxPresses, MaxVisits, MaxTrouble} \subseteq Nat /\ Overlap \in BOOLEAN
  /\ None \notin [port : Ports, field : {"ip", "mask"}]

VARIABLES
  plugged,        \* the ports with a cable
  profile, live,  \* NetworkManager's profile of each port; the address it has
  visits, shown,  \* the page is shown
  conf, req,      \* the resource of each port and its request: None or [read, says]
  editing,        \* ports whose inputs were opened and are not saved yet
  markup, inputs, \* what was painted last; what the fields of each port hold
  pending,        \* a paint waits for the focus to leave
  focus,          \* None or [port, field]
  saves,          \* under way: [id, port, what, step]
  meant,          \* what was chosen or typed last in each port, or None
  presses, trouble

nm   == <<plugged, profile, live>>
net  == <<conf, req>>
ui   == <<editing, markup, inputs, pending, focus>>
vars == <<nm, visits, shown, net, ui, saves, meant, presses, trouble>>

Auto == [ip |-> 0, mask |-> 0]   \* and no address is 0
Leased == [ip |-> 9, mask |-> 1]
Blank == [ip |-> 0, mask |-> 1]
Whole(a) == a.ip # 0             \* a mask left out is the usual one

\* portBlock: with a profile set by hand, or opened for it, the rows are inputs
View(c, e) ==
  [p \in Ports |->
     [manual |-> p \in e \/ c[p] # Auto,
      addr |-> IF c[p] # Auto THEN c[p] ELSE live[p]]]
Fields(v) == [p \in Ports |-> v[p].addr]

\* a change of the markup is painted, or waits; the same markup is left alone
render(c, e) ==
  IF View(c, e) = markup THEN UNCHANGED <<markup, inputs, pending>>
  ELSE IF focus # None THEN pending' = TRUE /\ UNCHANGED <<markup, inputs>>
  ELSE markup' = View(c, e) /\ inputs' = Fields(View(c, e)) /\ UNCHANGED pending

Init ==
  /\ plugged \in SUBSET Ports
  /\ profile = [p \in Ports |-> Auto] /\ live = [p \in Ports |-> IF p \in plugged THEN Leased ELSE Blank]
  /\ visits = 0 /\ shown = FALSE
  /\ conf = profile /\ req = [p \in Ports |-> None] /\ editing = {}
  /\ markup = View(conf, {}) /\ inputs = Fields(markup) /\ pending = FALSE /\ focus = None
  /\ saves = {} /\ meant = [p \in Ports |-> None] /\ presses = 0 /\ trouble = 0

-----------------------------------------------------------------------------
(* What is known of the ports: asked for as the page shows, and after each  *)
(* save; a request that is out is not made again (core/resource.js).        *)

Asked(r) == IF r = None THEN [read |-> FALSE, says |-> None] ELSE r

show ==
  /\ ~shown /\ visits < MaxVisits /\ visits' = visits + 1 /\ shown' = TRUE
  /\ req' = [p \in Ports |-> Asked(req[p])]
  /\ UNCHANGED <<nm, conf, ui, saves, meant, presses, trouble>>

hide ==
  /\ shown /\ focus = None /\ shown' = FALSE
  /\ UNCHANGED <<nm, visits, net, ui, saves, meant, presses, trouble>>

Read(p) ==
  /\ req[p] # None /\ ~req[p].read /\ req' = [req EXCEPT ![p] = [read |-> TRUE, says |-> profile[p]]]
  /\ UNCHANGED <<nm, visits, shown, conf, ui, saves, meant, presses, trouble>>

Answered(p) ==
  /\ req[p] # None /\ req[p].read /\ req' = [req EXCEPT ![p] = None]
  /\ conf' = [conf EXCEPT ![p] = req[p].says]
  /\ render(conf', editing)
  /\ UNCHANGED <<nm, visits, shown, editing, focus, saves, meant, presses, trouble>>

\* the state of the panel, which comes every few seconds
PanelAnswered ==
  /\ View(conf, editing) # markup /\ (focus = None \/ ~pending) /\ render(conf, editing)
  /\ UNCHANGED <<nm, visits, shown, net, editing, focus, saves, meant, presses, trouble>>

-----------------------------------------------------------------------------
(* What is pressed and typed.                                               *)

Press == shown /\ presses < MaxPresses /\ presses' = presses + 1
Calm == Overlap \/ (saves = {} /\ \A p \in Ports : req[p] = None)

save(p, a) == saves' = saves \cup {[id |-> presses', port |-> p, what |-> a, step |-> "check"]}

\* the segment of a port
method(p) ==
  /\ Press /\ Calm /\ focus = None
  /\ IF markup[p].manual THEN save(p, Auto) /\ meant' = [meant EXCEPT ![p] = Auto] /\ UNCHANGED <<editing, markup, inputs, pending>>
     ELSE /\ editing' = editing \cup {p} /\ render(conf, editing')
          /\ UNCHANGED <<saves, meant>>
  /\ UNCHANGED <<nm, visits, shown, net, focus, trouble>>

\* a field is touched, and typed into
types(p, f, v) ==
  /\ Press /\ focus = None /\ markup[p].manual /\ focus' = [port |-> p, field |-> f]
  /\ inputs' = [inputs EXCEPT ![p][f] = v] /\ meant' = [meant EXCEPT ![p] = inputs'[p]]
  /\ UNCHANGED <<nm, visits, shown, net, editing, markup, pending, saves, trouble>>

\* the field is left: a whole address is saved (commit), and then a paint that waited is done
Leaves ==
  /\ focus # None /\ Calm /\ UNCHANGED presses /\ focus' = None /\ pending' = FALSE
  /\ IF Whole(inputs[focus.port]) THEN save(focus.port, inputs[focus.port]) /\ UNCHANGED meant
     ELSE UNCHANGED saves /\ meant' = [meant EXCEPT ![focus.port] = None]
  /\ IF pending THEN markup' = View(conf, editing) /\ inputs' = Fields(View(conf, editing))
     ELSE UNCHANGED <<markup, inputs>>
  /\ UNCHANGED <<nm, visits, shown, net, editing, trouble>>

-----------------------------------------------------------------------------
(* eth_set.                                                                 *)

Taken(s) == s.what # Auto /\ \E q \in Ports \ {s.port} : live[q].ip = s.what.ip

\* the page is told; what was refused is still to be edited
over(s, done) ==
  /\ saves' = saves \ {s}
  /\ editing' = IF done THEN editing \ {s.port} ELSE editing
  /\ req' = [req EXCEPT ![s.port] = Asked(@)]
  /\ render(conf, editing')
  /\ UNCHANGED <<plugged, visits, shown, conf, focus, presses>>

Checked(s) ==
  /\ s.step = "check" /\ UNCHANGED <<profile, live, trouble>>
  /\ IF Taken(s) THEN over(s, FALSE) /\ meant' = [meant EXCEPT ![s.port] = IF @ = s.what THEN profile[s.port] ELSE @]
     ELSE /\ saves' = (saves \ {s}) \cup {[s EXCEPT !.step = "modify"]}
          /\ UNCHANGED <<plugged, visits, shown, net, ui, meant, presses>>

\* the profile is written, and brought up where a cable is in; when that fails the
\* page hears of a failure, and the profile stays
Modified(s) ==
  /\ s.step = "modify"
  /\ profile' = [profile EXCEPT ![s.port] = s.what]
  /\ \/ /\ live' = IF s.port \in plugged THEN [live EXCEPT ![s.port] = IF s.what = Auto THEN Leased ELSE s.what] ELSE live
        /\ over(s, TRUE) /\ UNCHANGED trouble
     \/ /\ s.port \in plugged /\ trouble < MaxTrouble /\ trouble' = trouble + 1 /\ UNCHANGED live
        /\ over(s, FALSE)
  /\ UNCHANGED meant

Next ==
  \/ show \/ hide \/ PanelAnswered \/ Leaves
  \/ \E p \in Ports : Read(p) \/ Answered(p) \/ method(p)
                      \/ \E f \in {"ip", "mask"}, v \in 0..2 : (f = "mask" => v # 0) /\ types(p, f, v)
  \/ \E s \in saves : Checked(s) \/ Modified(s)

SomeRead == \E p \in Ports : Read(p)
SomeAnswer == \E p \in Ports : Answered(p)
SomeSave == \E s \in saves : Checked(s) \/ Modified(s)

Fairness ==
  /\ WF_vars(SomeRead) /\ WF_vars(SomeAnswer) /\ WF_vars(SomeSave)
  /\ WF_vars(PanelAnswered) /\ WF_vars(Leaves)

Spec == Init /\ [][Next]_vars /\ Fairness

-----------------------------------------------------------------------------
TypeOK ==
  /\ plugged \subseteq Ports /\ editing \subseteq Ports
  /\ presses \in 0..MaxPresses /\ trouble \in 0..MaxTrouble

\* What was typed last is what the port was set to, mask and all, though the page was
\* painted meanwhile: nothing under way, the profile is what was meant.
SavedAsTyped ==
  saves = {} /\ focus = None => \A p \in Ports : meant[p] # None => profile[p] = meant[p]

\* No two ports have one address that was set by hand in each (ipv4_owner); two saves at
\* a time can both find it free.  What a lease brings later nobody here can refuse.
NoClash ==
  \A p \in Ports : \A q \in Ports \ {p} :
    live[p].ip # 0 /\ Leased \notin {live[p], live[q]} => live[p].ip # live[q].ip
WiredSound == TypeOK /\ NoClash /\ SavedAsTyped

\* With nobody at it the page shows what was saved, but where inputs are open or no
\* address was made of them.  The page does not ask twice at a time, nor by itself: with
\* Overlap the second of two saves goes unseen.
WiredShows ==
  shown => \A p \in Ports :
    /\ conf[p] = profile[p]
    /\ p \in editing \/ ~Whole(inputs[p]) \/ inputs[p] = View(conf, editing)[p].addr
WiredSettles == <>[]WiredShows
=============================================================================
