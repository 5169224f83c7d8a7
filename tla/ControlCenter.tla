----------------------------- MODULE ControlCenter -----------------------------
(***************************************************************************)
(* The control center (shell/control-center.js): a plate pulled down over  *)
(* the page and pushed up again, its switches and its brightness slider.   *)
(* It lies on the stack of layers with the questions its switches ask.     *)
(***************************************************************************)
EXTENDS Integers, FiniteSets, Sequences, SequencesExt

CONSTANTS
  MaxOpened,     \* bound: plates made
  MaxTaps,       \* bound: switches tapped and slides
  MaxTrouble,    \* bound: requests that fail
  Both,          \* whether the remote's Menu key is used while a finger is on it
  None

CenterAssumption ==
  {MaxOpened, MaxTaps, MaxTrouble} \subseteq Nat /\ Both \in BOOLEAN /\ None \notin Nat \cup {"down", "pulling", "tap", "drag"}

Devices == [wifi : {"off", "on", "joined"}, hot : BOOLEAN, bt : BOOLEAN, light : 0..2]

VARIABLES
  device,        \* what the NAS has: Wi-Fi, hotspot, Bluetooth, brightness
  trouble, taps,
  opened,        \* plates made so far
  stack,         \* the layers: [id, kind]: a plate or a question, its flow in id
  layer,         \* the control center: its plate, or None
  polling,       \* its pollers run
  pull,          \* how far the plate is down: 0, 1 (on the way), 2
  band,          \* the finger in the status bar: None, "down", "pulling"
  plate,         \* the finger on the plate: None, "tap" or "drag"
  settling,      \* settle() under way: [own, to, shut]
  flows,         \* switches being flipped: [id, todo, asks]; todo: the posts to come
  known, req,    \* panel.data; its request: None or [says, old]
  bt, reqBt,     \* the Bluetooth resource and its request
  slid, timer,   \* where the slider was left; its timer is set
  puts           \* brightness under way, in order

plates   == <<opened, stack, layer, polling, pull>>
fingers  == <<band, plate>>
switches == <<taps, flows>>
answers  == <<known, req, bt, reqBt>>
slider   == <<slid, timer, puts>>
vars == <<device, trouble, plates, fingers, settling, switches, answers, slider>>

Init ==
  /\ device \in {[wifi |-> w, hot |-> h, bt |-> TRUE, light |-> 1] : w \in {"on", "joined"}, h \in BOOLEAN}
  /\ device.hot => device.wifi = "on"
  /\ trouble = 0 /\ taps = 0
  /\ opened = 0 /\ stack = <<>> /\ layer = None /\ polling = FALSE /\ pull = 0
  /\ band = None /\ plate = None /\ settling = {}
  /\ flows = {} /\ known = [device EXCEPT !.bt = TRUE] /\ req = None /\ bt = device.bt /\ reqBt = None
  /\ slid = None /\ timer = FALSE /\ puts = <<>>

Alone == Both \/ (band = None /\ plate = None /\ settling = {})
\* bound: a finger comes, and polls go out, only when that can matter to what is under way
Quiet == flows = {} /\ ~timer /\ puts = <<>> /\ req = None /\ reqBt = None
Plate(id) == [id |-> id, kind |-> "plate"]

-----------------------------------------------------------------------------
(* Up and down.                                                             *)

create(p) ==
  /\ opened < MaxOpened /\ opened' = opened + 1
  /\ stack' = Append(stack, Plate(opened + 1)) /\ layer' = opened + 1
  /\ polling' = TRUE /\ reqBt' = (IF reqBt = None THEN [says |-> None] ELSE reqBt)
  /\ pull' = p

\* a mistake: what the plate watched goes on
closeWatching ==
  IF layer = None THEN UNCHANGED plates
  ELSE /\ stack' = RemoveAt(stack, CHOOSE i \in 1..Len(stack) : stack[i] = Plate(layer))
       /\ layer' = None /\ pull' = 0 /\ UNCHANGED <<opened, polling>>

close ==
  IF layer = None THEN UNCHANGED plates
  ELSE /\ stack' = RemoveAt(stack, CHOOSE i \in 1..Len(stack) : stack[i] = Plate(layer))
       /\ layer' = None /\ polling' = FALSE /\ pull' = 0 /\ UNCHANGED opened

Rest == UNCHANGED <<device, trouble, switches, known, req, bt, slider>>

\* the Menu key opens it over the bare page, and closes it
menuPressed ==
  /\ Alone
  /\ IF layer # None THEN close /\ UNCHANGED reqBt
     ELSE stack = <<>> /\ create(2)
  /\ UNCHANGED <<fingers, settling>> /\ Rest

\* Back; the button that puts the screen to sleep; a long press on a switch, for its page
openPageOf ==
  /\ Alone /\ stack # <<>> /\ Last(stack).kind = "plate"
  /\ close
  /\ UNCHANGED <<reqBt, fingers, settling>> /\ Rest

pullFromBand ==
  /\ Quiet /\ band = None /\ plate = None /\ layer = None /\ stack = <<>>
  /\ band' = "down"
  /\ UNCHANGED <<plates, reqBt, plate, settling>> /\ Rest

\* past the slack the plate is made and follows the finger
bandMove ==
  /\ band # None
  /\ IF band = "down" THEN band' = "pulling" /\ create(1)
     ELSE layer # None /\ pull' = 1 /\ UNCHANGED <<band, opened, stack, layer, polling, reqBt>>
  /\ UNCHANGED <<plate, settling>> /\ Rest

\* released, or cancelled
bandUp ==
  /\ band # None /\ band' = None
  /\ IF band = "down" \/ layer = None THEN UNCHANGED settling
     ELSE \E to \in {0, 2} :
            settling' = settling \cup {[own |-> layer, to |-> to, shut |-> to = 0]}
  /\ UNCHANGED <<plates, reqBt, plate>> /\ Rest

dragUp ==
  /\ Quiet /\ band = None /\ plate = None /\ layer # None
  /\ Last(stack) = Plate(layer) /\ plate' = "tap"
  /\ UNCHANGED <<plates, reqBt, band, settling>> /\ Rest

plateMove ==
  /\ plate # None /\ layer # None /\ plate' = "drag" /\ pull' = 1
  /\ UNCHANGED <<opened, stack, layer, polling, reqBt, band, settling>> /\ Rest

\* a tap on the grab bar or the dimmed page closes it, a cancelled one does not
plateUp ==
  /\ plate # None /\ plate' = None
  /\ IF layer = None THEN UNCHANGED <<plates, settling>>
     ELSE IF plate = "tap" THEN (close \/ UNCHANGED plates) /\ UNCHANGED settling
     ELSE /\ UNCHANGED plates
          /\ \E to \in {0, 2} :
               settling' = settling \cup {[own |-> layer, to |-> to, shut |-> to = 0]}
  /\ UNCHANGED <<reqBt, band>> /\ Rest

\* the plate is where it was going; or it is not the same one any more, and
\* the await goes on all the same
Settled ==
  \E s \in settling :
    /\ settling' = settling \ {s}
    /\ IF s.shut THEN close
       ELSE /\ pull' = (IF layer = s.own THEN s.to ELSE pull)
            /\ UNCHANGED <<opened, stack, layer, polling>>
    /\ UNCHANGED <<reqBt, fingers>> /\ Rest

-----------------------------------------------------------------------------
(* The switches.                                                            *)

Flow(todo, asks) == [id |-> taps + 1, todo |-> todo, asks |-> asks]

\* posts that failed are told, and the next goes out all the same (run)
flip ==
  /\ Alone /\ layer # None /\ stack # <<>> /\ Last(stack) = Plate(layer) /\ taps < MaxTaps /\ taps' = taps + 1
  /\ \E f \in {IF known.wifi = "off" \/ known.hot
                 THEN Flow((IF known.hot THEN <<"hotOff">> ELSE <<>>) \o <<"radioOn">>, known.hot)
                 ELSE Flow(<<"radioOff">>, FALSE),
               IF known.hot THEN Flow(<<"hotOff">>, FALSE) ELSE Flow(<<"hotOn">>, known.wifi = "joined"),
               Flow(IF bt THEN <<"btOff">> ELSE <<"btOn">>, FALSE)} :
       IF f.asks THEN stack' = Append(stack, [id |-> f.id, kind |-> "question"]) /\ flows' = flows \cup {f}
       ELSE flows' = flows \cup {f} /\ UNCHANGED stack
  /\ UNCHANGED <<device, trouble, opened, layer, polling, pull, fingers, settling, answers, slider>>

confirmed ==
  \E f \in flows :
    /\ f.asks /\ stack # <<>> /\ Last(stack) = [id |-> f.id, kind |-> "question"]
    /\ stack' = Front(stack)
    /\ \/ flows' = flows \ {f}
       \/ flows' = (flows \ {f}) \cup {[f EXCEPT !.asks = FALSE]}
    /\ UNCHANGED <<device, trouble, opened, layer, polling, pull, fingers, settling, taps, answers, slider>>

After(op) ==
  CASE op = "hotOn"    -> [device EXCEPT !.hot = TRUE, !.wifi = "on"]
    [] op = "hotOff"   -> [device EXCEPT !.hot = FALSE]
    [] op = "radioOn"  -> [device EXCEPT !.wifi = IF @ = "off" THEN "on" ELSE @]
    [] op = "radioOff" -> [device EXCEPT !.wifi = "off", !.hot = FALSE]
    [] op = "btOn"     -> [device EXCEPT !.bt = TRUE]
    [] op = "btOff"    -> [device EXCEPT !.bt = FALSE]

refreshPanel ==
  req' = IF req = None THEN [says |-> None, old |-> FALSE] ELSE [req EXCEPT !.old = TRUE]
refreshBt == reqBt' = IF reqBt = None THEN [says |-> None] ELSE reqBt

\* a post is done, or fails; the state is asked for, and the next goes out.  A hotspot
\* that was never set up fails as well, and its page opens instead.
run ==
  \E f \in flows :
    LET op == Head(f.todo)
    IN  /\ ~f.asks
        /\ flows' = (flows \ {f}) \cup (IF Len(f.todo) = 1 THEN {} ELSE {[f EXCEPT !.todo = Tail(@)]})
        /\ \/ device' = After(op) /\ UNCHANGED <<trouble, plates>>
           \/ /\ trouble < MaxTrouble /\ trouble' = trouble + 1 /\ UNCHANGED device
              /\ IF op = "hotOn" THEN close ELSE UNCHANGED plates
        /\ refreshPanel
        /\ IF op \in {"btOn", "btOff"} THEN refreshBt ELSE UNCHANGED reqBt
        /\ UNCHANGED <<fingers, settling, taps, known, bt, slider>>

-----------------------------------------------------------------------------
(* What it shows.                                                           *)

Poll ==
  /\ req = None /\ req' = [says |-> None, old |-> FALSE]
  /\ flows # {} \/ timer \/ puts # <<>> \/ known # device
  /\ UNCHANGED <<device, trouble, plates, fingers, settling, switches, known, bt, reqBt, slider>>

ReadPanel ==
  /\ req # None /\ req.says = None /\ req' = [req EXCEPT !.says = device]
  /\ UNCHANGED <<device, trouble, plates, fingers, settling, switches, known, bt, reqBt, slider>>

\* an answer from before a change is dropped, and asked for again
PanelAnswered ==
  /\ req # None /\ req.says # None
  /\ IF req.old THEN req' = [says |-> None, old |-> FALSE] /\ UNCHANGED known
     ELSE req' = None /\ known' = req.says
  /\ UNCHANGED <<device, trouble, plates, fingers, settling, switches, bt, reqBt, slider>>

PollBt ==
  /\ polling /\ reqBt = None /\ refreshBt
  /\ flows # {} \/ bt # device.bt
  /\ UNCHANGED <<device, trouble, plates, fingers, settling, switches, known, req, bt, slider>>

ReadBt ==
  /\ reqBt # None /\ reqBt.says = None /\ reqBt' = [says |-> device.bt]
  /\ UNCHANGED <<device, trouble, plates, fingers, settling, switches, known, req, bt, slider>>

BtAnswered ==
  /\ reqBt # None /\ reqBt.says # None /\ reqBt' = None /\ bt' = reqBt.says
  /\ UNCHANGED <<device, trouble, plates, fingers, settling, switches, known, req, slider>>

-----------------------------------------------------------------------------
(* The brightness slider: shown at once, put 120 ms after it stood still.   *)

slide ==
  /\ Alone /\ layer # None /\ stack # <<>> /\ Last(stack) = Plate(layer) /\ taps < MaxTaps /\ taps' = taps + 1
  /\ \E v \in 0..2 : slid' = v /\ known' = [known EXCEPT !.light = v]
  /\ timer' = TRUE
  /\ UNCHANGED <<device, trouble, plates, fingers, settling, flows, req, bt, reqBt, puts>>

due ==
  /\ timer /\ timer' = FALSE
  /\ puts' = Append(puts, IF slid = 0 THEN 1 ELSE slid)
  /\ UNCHANGED <<device, trouble, plates, fingers, settling, switches, answers, slid>>

Put ==
  /\ puts # <<>> /\ puts' = Tail(puts)
  /\ device' = [device EXCEPT !.light = Head(puts)]
  /\ UNCHANGED <<trouble, plates, fingers, settling, switches, answers, slid, timer>>

Next ==
  \/ menuPressed \/ openPageOf \/ pullFromBand \/ bandMove \/ bandUp
  \/ dragUp \/ plateMove \/ plateUp \/ Settled
  \/ flip \/ confirmed \/ run
  \/ Poll \/ ReadPanel \/ PanelAnswered \/ PollBt \/ ReadBt \/ BtAnswered
  \/ slide \/ due \/ Put

Fairness ==
  /\ WF_vars(bandUp) /\ WF_vars(plateUp) /\ WF_vars(Settled) /\ WF_vars(run)
  /\ WF_vars(Poll) /\ WF_vars(ReadPanel) /\ WF_vars(PanelAnswered)
  /\ WF_vars(PollBt) /\ WF_vars(ReadBt) /\ WF_vars(BtAnswered)
  /\ WF_vars(due) /\ WF_vars(Put)

Spec == Init /\ [][Next]_vars /\ Fairness

-----------------------------------------------------------------------------
TypeOK ==
  /\ device \in Devices /\ known \in Devices /\ bt \in BOOLEAN
  /\ opened \in 0..MaxOpened /\ taps \in 0..MaxTaps /\ pull \in 0..2

Plates == {i \in 1..Len(stack) : stack[i].kind = "plate"}

\* There is one plate at most, and it is the control center: Back, the Menu key and a
\* finger reach it, and its pollers run with it.  Nobody holding it and nothing moving
\* it, it is all the way down.
CenterSound ==
  /\ TypeOK
  /\ {stack[i].id : i \in Plates} = (IF layer = None THEN {} ELSE {layer}) /\ Cardinality(Plates) <= 1
  /\ polling <=> layer # None
  /\ layer # None /\ band = None /\ plate = None /\ settling = {} => pull = 2

\* A switch turned on does not take a Wi-Fi connection the panel knows of, or the
\* hotspot, before its question was answered (flip).
Takes(f) ==
  \/ Head(f.todo) = "hotOn" /\ known.wifi = "joined"
  \/ f.todo = <<"hotOff", "radioOn">>
AskedFirst ==
  \A f \in flows' \ flows :
    ~f.asks /\ Takes(f) => \E g \in flows : g.id = f.id /\ g.asks

\* The switches end up showing what is, also when a post failed half way; and the
\* brightness ends up where the slider was left, 1 at least.
Shows ==
  /\ layer # None => /\ [known EXCEPT !.bt = device.bt] = device
                     /\ bt = device.bt
  /\ slid # None => device.light = IF slid = 0 THEN 1 ELSE slid
CenterShows == <>[](~\E f \in flows : ~f.asks) /\ <>[]Shows
=============================================================================
