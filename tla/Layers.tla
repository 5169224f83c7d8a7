-------------------------------- MODULE Layers --------------------------------
(***************************************************************************)
(* What lies over the page of the front panel: sheets and dialogs          *)
(* (shell/layers.js), the on-screen keyboard (keyboard.js), the ring the   *)
(* remote moves (remote.js) and the page shown while t6-paneld is away     *)
(* (offline.js).  A layer that was closed still takes taps while it leaves.*)
(***************************************************************************)
EXTENDS Integers, FiniteSets, Sequences, SequencesExt

CONSTANTS
  MaxLayers,     \* bound: layers opened
  MaxActs,       \* bound: taps, keys and outages
  MaxToasts,
  Slips,         \* whether a finger may slide off a toast (pointercancel)
  Hasty,         \* whether a dialog is cancelled or left while its check runs,
                 \* pressed while it leaves, or an arrow key while it does
  None

LayersAssumption ==
  /\ {MaxLayers, MaxActs, MaxToasts} \subseteq Nat /\ {Slips, Hasty} \subseteq BOOLEAN
  /\ None \notin Int

Page == 0
Keyboard == -1
LayerKinds == {"sheet", "confirm", "checked", "panel"}   \* "checked": a confirm with a check and a field

VARIABLES
  stack,         \* the layers up, the top one last: [id, kind]
  leaving,       \* layers in their leaving animation
  answer,        \* of each layer opened: "open", "yes", "no"
  checking,      \* dialogs whose check runs
  acted,         \* dialogs whose check did what they ask for
  watching,      \* panel sheets that follow their data
  focus,         \* the field with the focus: None, the page's or a dialog's
  osk, blurs,    \* the keyboard is up; focusout timers out
  remote, ring,  \* a remote is used; what holds the item in focus: a root, or None
  early, late,   \* settle(): the syncs that are due
  online, outages,
  toasted, toastUp, toastTimer, finger,
  acts

layers == <<stack, leaving, answer, checking, acted, watching>>
keys   == <<focus, osk, blurs>>
nav    == <<remote, ring, early, late>>
toasts == <<toasted, toastUp, toastTimer, finger>>
vars == <<layers, keys, nav, online, outages, toasts, acts>>

Init ==
  /\ stack = <<>> /\ leaving = {} /\ answer = <<>> /\ checking = {} /\ acted = {} /\ watching = {}
  /\ focus = None /\ osk = FALSE /\ blurs = FALSE
  /\ remote = FALSE /\ ring = None /\ early = FALSE /\ late = FALSE
  /\ online = TRUE /\ outages = 0
  /\ toasted = 0 /\ toastUp = FALSE /\ toastTimer = FALSE /\ finger = FALSE
  /\ acts = 0

Act == acts < MaxActs /\ acts' = acts + 1
Top == Last(stack)
Ids(S) == {e.id : e \in S}

\* roots(): what the remote reaches
Root(on, k, s) ==
  IF ~on THEN None
  ELSE IF k THEN Keyboard
  ELSE IF s # <<>> THEN Last(s).id
  ELSE Page
root == Root(online, osk, stack)

settle == early' = TRUE /\ late' = TRUE
\* layersChanged: the ring follows, when there is one
resync == IF remote THEN settle ELSE UNCHANGED <<early, late>>

-----------------------------------------------------------------------------
(* Layers.                                                                  *)

openLayer ==
  /\ Len(answer) < MaxLayers
  /\ \E k \in LayerKinds :
       LET id == Len(answer) + 1
       IN  /\ stack' = Append(stack, [id |-> id, kind |-> k])
           /\ answer' = Append(answer, "open")
           /\ watching' = IF k = "panel" THEN watching \cup {id} ELSE watching
           \* onOpen focuses the field
           /\ IF k = "checked" /\ online
              THEN focus' = id /\ osk' = TRUE /\ blurs' = (blurs \/ focus # None)
              ELSE UNCHANGED keys
  /\ resync
  /\ UNCHANGED <<leaving, checking, acted, remote, ring, online, outages, toasts, acts>>

\* done(): closeLayer, and the promise resolved; a second time neither does anything
done(e, a) ==
  /\ answer' = IF answer[e.id] = "open" THEN [answer EXCEPT ![e.id] = a] ELSE answer
  /\ watching' = watching \ {e.id}
  /\ IF \E i \in 1..Len(stack) : stack[i].id = e.id
     THEN /\ stack' = RemoveAt(stack, CHOOSE i \in 1..Len(stack) : stack[i].id = e.id)
          /\ leaving' = leaving \cup {e}
     ELSE UNCHANGED <<stack, leaving>>

\* a tap: on the top layer, or on one that is leaving
Touch == remote' = FALSE /\ UNCHANGED ring
\* a tap outside the keyboard and the fields takes it down
dropKeyboard == focus' = None /\ osk' = FALSE /\ blurs' = (blurs \/ focus # None)
Tapped == (IF stack = <<>> THEN {} ELSE {Top}) \cup (IF Hasty THEN leaving ELSE {})

tapCancel ==
  /\ Act /\ online
  /\ \E e \in Tapped :
       /\ Hasty \/ e.id \notin checking
       /\ done(e, "no")
  /\ Touch /\ UNCHANGED <<early, late>> /\ dropKeyboard
  /\ UNCHANGED <<checking, acted, online, outages, toasts>>

\* an action of a sheet, or OK of a dialog without a check
tapOk ==
  /\ Act /\ online
  /\ \E e \in Tapped : e.kind \in {"sheet", "confirm"} /\ done(e, "yes")
  /\ Touch /\ UNCHANGED <<early, late>> /\ dropKeyboard
  /\ UNCHANGED <<checking, acted, online, outages, toasts>>

\* OK of one with a check: the button is disabled while it runs
tapChecked ==
  /\ Act /\ online
  /\ \E e \in Tapped : e.kind = "checked" /\ e.id \notin checking /\ checking' = checking \cup {e.id}
  /\ Touch /\ UNCHANGED <<early, late>> /\ dropKeyboard
  /\ UNCHANGED <<stack, leaving, answer, acted, watching, online, outages, toasts>>

\* the check comes back with an error, and the dialog stays; or it did it
Checked ==
  \E id \in checking :
    /\ checking' = checking \ {id}
    /\ \/ UNCHANGED <<stack, leaving, answer, acted, watching, early, late>>
       \/ acted' = acted \cup {id} /\ done([id |-> id, kind |-> "checked"], "yes") /\ resync
    /\ UNCHANGED <<keys, remote, ring, online, outages, toasts, acts>>

\* the animation is over; a field that goes with it loses the focus
Left ==
  \E e \in leaving :
    /\ leaving' = leaving \ {e}
    /\ IF focus = e.id THEN focus' = None /\ blurs' = TRUE /\ UNCHANGED osk ELSE UNCHANGED keys
    /\ UNCHANGED <<stack, answer, checking, acted, watching, nav, online, outages, toasts, acts>>

-----------------------------------------------------------------------------
(* The keyboard.                                                            *)

\* a tap on a field, from another perhaps
focusField ==
  /\ Act /\ online
  /\ focus' = (IF stack = <<>> THEN Page ELSE Top.id)
  /\ stack # <<>> => Top.kind = "checked"
  /\ osk' = TRUE /\ blurs' = (blurs \/ focus # None)
  /\ Touch /\ UNCHANGED <<layers, early, late, online, outages, toasts>>

\* 60 ms after a field lost the focus
Focusout ==
  /\ blurs /\ blurs' = FALSE
  /\ osk' = (osk /\ focus # None) /\ UNCHANGED focus
  /\ UNCHANGED <<layers, nav, online, outages, toasts, acts>>

\* a swipe down on it
hideKeyboard ==
  /\ Act /\ osk /\ dropKeyboard
  /\ Touch /\ UNCHANGED <<layers, early, late, online, outages, toasts>>

-----------------------------------------------------------------------------
(* The remote.                                                              *)

\* the first press only shows where the focus is; every other one sees to it first
sync == ring' = root
Arrow ==
  /\ Hasty \/ (leaving = {} /\ ~blurs)
  /\ Act /\ remote' = TRUE /\ sync
  /\ UNCHANGED <<layers, keys, early, late, online, outages, toasts>>

\* Enter on an item of the top layer; a key of the keyboard types
activate ==
  /\ Act /\ root # None /\ remote' = TRUE /\ sync /\ settle
  /\ IF osk \/ stack = <<>>
     THEN /\ UNCHANGED <<layers, blurs>>
          /\ (UNCHANGED <<focus, osk>> \/ (~osk /\ focus' = Page /\ osk' = TRUE))
     ELSE CASE Top.kind = "checked" ->
                 \/ Top.id \notin checking /\ checking' = checking \cup {Top.id}
                    /\ UNCHANGED <<stack, leaving, answer, acted, watching, keys>>
                 \/ focus' = Top.id /\ osk' = TRUE /\ UNCHANGED <<blurs, layers>>
            [] Top.kind = "panel" -> done(Top, "no") /\ UNCHANGED <<checking, acted, keys>>
            [] OTHER -> done(Top, "yes") /\ UNCHANGED <<checking, acted, keys>>
  /\ UNCHANGED <<online, outages, toasts>>

\* Back: the keyboard, else the top layer, else the page's own
goBack ==
  /\ Act /\ remote' = TRUE /\ settle /\ UNCHANGED ring
  /\ IF osk THEN dropKeyboard /\ UNCHANGED layers
     ELSE /\ UNCHANGED <<keys, checking, acted>>
          /\ IF stack = <<>> THEN UNCHANGED <<stack, leaving, answer, watching>>
             ELSE (Hasty \/ Top.id \notin checking) /\ done(Top, "no")
  /\ UNCHANGED <<online, outages, toasts>>

\* Home: everything on top closes, and the next tab comes
nextTabPressed ==
  /\ Act /\ remote' = TRUE /\ settle /\ UNCHANGED ring
  /\ Hasty \/ checking = {}
  /\ dropKeyboard
  /\ LET up == {stack[i] : i \in 1..Len(stack)}
     IN  /\ stack' = <<>> /\ leaving' = leaving \cup up
         /\ answer' = [i \in 1..Len(answer) |-> IF i \in Ids(up) THEN "no" ELSE answer[i]]
         /\ watching' = watching \ Ids(up)
  /\ UNCHANGED <<checking, acted, online, outages, toasts>>

\* 80 ms and 450 ms later, when what leaves has left
EarlySync ==
  /\ early /\ early' = FALSE /\ ring' = root
  /\ UNCHANGED <<layers, keys, remote, late, online, outages, toasts, acts>>
LateSync ==
  /\ late /\ ~early /\ leaving = {} /\ ~blurs /\ late' = FALSE /\ ring' = root
  /\ UNCHANGED <<layers, keys, remote, early, online, outages, toasts, acts>>

-----------------------------------------------------------------------------
(* t6-paneld goes away and comes back.                                      *)

Offline ==
  /\ Act /\ online /\ online' = FALSE /\ outages' = outages + 1 /\ dropKeyboard
  /\ UNCHANGED <<layers, nav, toasts>>

Online ==
  /\ ~online /\ online' = TRUE
  /\ UNCHANGED <<layers, keys, nav, outages, toasts, acts>>

-----------------------------------------------------------------------------
(* The toast.                                                               *)

toast ==
  /\ toasted < MaxToasts /\ toasted' = toasted + 1
  /\ toastUp' = TRUE /\ toastTimer' = TRUE /\ finger' = FALSE
  /\ UNCHANGED <<layers, keys, nav, online, outages, acts>>

press ==
  /\ toastUp /\ ~finger /\ finger' = TRUE /\ toastTimer' = FALSE
  /\ Act
  /\ UNCHANGED <<layers, keys, nav, online, outages, toasted, toastUp>>

\* a mistake: what paused it does not start it again
releaseIdle ==
  /\ finger /\ finger' = FALSE
  /\ UNCHANGED <<layers, keys, nav, online, outages, toasted, toastUp, toastTimer, acts>>

release ==
  /\ finger /\ finger' = FALSE /\ toastTimer' = TRUE
  /\ UNCHANGED <<layers, keys, nav, online, outages, toasted, toastUp, acts>>

\* its action, once the finger is up; it leaves at once, or when its time is up
leave ==
  /\ toastUp /\ toastTimer /\ toastUp' = FALSE /\ toastTimer' = FALSE
  /\ UNCHANGED <<layers, keys, nav, online, outages, toasted, finger, acts>>

Slip ==
  /\ Slips /\ finger /\ finger' = FALSE
  /\ UNCHANGED <<layers, keys, nav, online, outages, toasted, toastUp, toastTimer, acts>>

Next ==
  \/ openLayer \/ tapCancel \/ tapOk \/ tapChecked \/ Checked \/ Left
  \/ focusField \/ Focusout \/ hideKeyboard
  \/ Arrow \/ activate \/ goBack \/ nextTabPressed \/ EarlySync \/ LateSync
  \/ Offline \/ Online
  \/ toast \/ press \/ release \/ leave \/ Slip

Fairness ==
  /\ WF_vars(Checked) /\ WF_vars(Left) /\ WF_vars(Focusout)
  /\ WF_vars(EarlySync) /\ WF_vars(LateSync) /\ WF_vars(Online)
  /\ WF_vars(release) /\ WF_vars(leave)

Spec == Init /\ [][Next]_vars /\ Fairness

-----------------------------------------------------------------------------
TypeOK ==
  /\ \A i \in 1..Len(stack) : stack[i].id \in 1..Len(answer) /\ stack[i].kind \in LayerKinds
  /\ \A i \in 1..Len(answer) : answer[i] \in {"open", "yes", "no"}
  /\ checking \cup acted \cup watching \subseteq 1..Len(answer)
  /\ acts \in 0..MaxActs /\ toasted \in 0..MaxToasts

\* Whoever opened a layer waits exactly as long as it is up, and a sheet follows its
\* data as long (done); the keyboard is up over every field in focus and outlasts it
\* only until its timer looks (keyboard.js); what a check did is what its question
\* was answered with, as long as nobody leaves meanwhile.
LayersSound ==
  /\ TypeOK
  /\ LET up == {stack[i].id : i \in 1..Len(stack)}
     IN  /\ {i \in 1..Len(answer) : answer[i] = "open"} = up
         /\ watching \subseteq up
         /\ ~Hasty => checking \subseteq up
  /\ (focus # None => osk) /\ (osk => focus # None \/ blurs)
  /\ ~Hasty => \A i \in acted : answer[i] = "yes"

\* Once a remote is used, the ring ends up in what is on top, whatever opened,
\* closed or was cancelled meanwhile, t6-paneld's absence apart; a toast leaves; no keyboard stays up over
\* nothing.
Settled ==
  /\ remote /\ outages = 0 => ring = root
  /\ ~toastUp
  /\ osk => focus # None
SettlesDown == <>[]Settled

\* "Resolves true for the action, false for 取消" (layers.js:97)
FalseForCancel == \A i \in acted : answer[i] # "no"

\* "'Done' message above the tab bar: 4 s, or 6 s with an action" (layers.js:161)
ToastLeaves == <>[]~toastUp

\* "The ring shows from the first key press and hides on the next touch."
\* (remote.js:11): also when that key was pressed while t6-paneld was away
RingShows == <>[](remote /\ online /\ ~early /\ ~late => ring # None)
=============================================================================
