-------------------------------- MODULE Wireless --------------------------------
(***************************************************************************)
(* The Wi-Fi page and the hotspot page (pages/network/wifi.js,             *)
(* hotspot.js).  The two share one card: a network that is joined and a    *)
(* hotspot that runs end each other.  What the pages ask for goes through  *)
(* t6-paneld to NetworkManager (crates/t6-hw-rs/src/network.rs).           *)
(***************************************************************************)
EXTENDS Integers, Sequences, FiniteSets, TLC

CONSTANTS
  Aps, Locked,     \* networks in reach; those with a password
  MaxPresses,      \* bound: what the person at the panel does
  MaxTrouble,      \* bound: requests that fail
  Hasty,           \* whether settings are changed before the page shows the last change
  None

WirelessAssumption ==
  Locked \subseteq Aps /\ {MaxPresses, MaxTrouble} \subseteq Nat /\ Hasty \in BOOLEAN

VARIABLES
  radio, hot, joined,   \* the card: it is on; the hotspot runs; the network joined
  saved, settings,      \* networks NetworkManager has; the hotspot's [name, band], or None
  page,                 \* the page that is shown: "wifi" or "hotspot"
  flows,                \* what was begun: [id, asks, todo, typing]
  panel, reqP,          \* panel.data; its request: None or [read, says, old]
  list, reqL,           \* wifiScan.data and its request: None or [read, says]
  spot, reqS,           \* hotspot.data and its request
  meant,                \* the settings the person at the panel chose last
  presses, trouble

card  == <<radio, hot, joined, saved, settings>>
seen  == <<panel, reqP, list, reqL, spot, reqS>>
vars  == <<card, page, flows, seen, meant, presses, trouble>>

OfPanel == [radio |-> radio, hot |-> hot, joined |-> joined]
OfList  == [joined |-> joined, saved |-> saved]
OfSpot  == [active |-> hot, settings |-> settings]

Init ==
  /\ radio = TRUE /\ hot \in BOOLEAN /\ joined \in Aps \cup {None} /\ (hot => joined = None)
  /\ saved = {ap \in Aps : ap = joined} /\ settings \in {None, [name |-> 0, band |-> 0]}
  /\ hot => settings # None
  /\ page \in {"wifi", "hotspot"} /\ flows = {}
  /\ panel = OfPanel /\ reqP = None /\ list = OfList /\ reqL = None /\ spot = OfSpot /\ reqS = None
  /\ meant = settings /\ presses = 0 /\ trouble = 0

-----------------------------------------------------------------------------
(* What the pages know.  A panel answer from before a change is dropped and *)
(* asked for again; the other two are not asked for twice at a time.        *)

Unread == [read |-> FALSE, says |-> None]
Ask(req) == IF req = None THEN Unread ELSE req
refreshPanel == reqP' = IF reqP = None THEN Unread @@ [old |-> FALSE] ELSE [reqP EXCEPT !.old = TRUE]

Kept == UNCHANGED <<card, page, flows, meant, presses>>

Poll ==
  /\ \/ reqP = None /\ panel # OfPanel /\ refreshPanel /\ UNCHANGED <<reqL, reqS>>
     \/ page = "wifi" /\ reqL = None /\ list # OfList /\ reqL' = Unread /\ UNCHANGED <<reqP, reqS>>
     \/ /\ page = "hotspot" /\ reqS = None /\ spot # OfSpot
        /\ ~\E f \in flows : f.asks = <<>> /\ Head(f.todo).op \in {"start", "resume", "stop"}
        /\ reqS' = Unread /\ UNCHANGED <<reqP, reqL>>
  /\ UNCHANGED <<panel, list, spot, trouble>> /\ Kept

ReadPanel ==
  /\ reqP # None /\ ~reqP.read /\ reqP' = [reqP EXCEPT !.read = TRUE, !.says = OfPanel]
  /\ UNCHANGED <<panel, list, reqL, spot, reqS, trouble>> /\ Kept
ReadList ==
  /\ reqL # None /\ ~reqL.read /\ reqL' = [read |-> TRUE, says |-> OfList]
  /\ UNCHANGED <<panel, reqP, list, spot, reqS, trouble>> /\ Kept
ReadSpot ==
  /\ reqS # None /\ ~reqS.read /\ reqS' = [read |-> TRUE, says |-> OfSpot]
  /\ UNCHANGED <<panel, reqP, list, reqL, spot, trouble>> /\ Kept

PanelAnswered ==
  /\ reqP # None /\ reqP.read
  /\ IF reqP.old THEN reqP' = Unread @@ [old |-> FALSE] /\ UNCHANGED panel
     ELSE reqP' = None /\ panel' = reqP.says
  /\ UNCHANGED <<list, reqL, spot, reqS, trouble>> /\ Kept
ListAnswered ==
  /\ reqL # None /\ reqL.read /\ reqL' = None /\ list' = reqL.says
  /\ UNCHANGED <<panel, reqP, spot, reqS, trouble>> /\ Kept
SpotAnswered ==
  /\ reqS # None /\ reqS.read /\ reqS' = None /\ spot' = reqS.says
  /\ UNCHANGED <<panel, reqP, list, reqL, trouble>> /\ Kept

-----------------------------------------------------------------------------
(* What is pressed: the questions it asks, and the posts that follow.       *)

Free == \A f \in flows : f.asks = <<>>
Op(op, arg) == [op |-> op, arg |-> arg]
\* what somebody decided on, once no question is left: the name, the band or both
Chosen(a) ==
  [name |-> IF meant = None \/ "name" \in a.sets THEN a.name ELSE meant.name,
   band |-> IF meant = None \/ "band" \in a.sets THEN a.band ELSE meant.band]
Decide(asks, o) == meant' = IF asks # <<>> \/ o.op # "start" THEN meant ELSE Chosen(o.arg)
Press(asks, todo) ==
  /\ Free /\ presses < MaxPresses /\ presses' = presses + 1
  /\ flows' = flows \cup {[id |-> presses + 1, asks |-> asks, todo |-> todo, typing |-> FALSE]}
  /\ Decide(asks, Head(todo))
  /\ UNCHANGED <<card, page, seen, trouble>>

\* the switch of the Wi-Fi page; over a hotspot it is asked about
setRadio ==
  /\ page = "wifi"
  /\ IF panel.radio /\ ~panel.hot THEN Press(<<>>, <<Op("radio", FALSE)>>)
     ELSE IF panel.hot THEN Press(<<"overHotspot">>, <<Op("stop", None), Op("radio", TRUE)>>)
     ELSE Press(<<>>, <<Op("radio", TRUE)>>)

\* a network: the one in use has its sheet, a saved or open one is joined at once,
\* others are asked for their password (or their name)
choose(ap) ==
  /\ page = "wifi" /\ panel.radio /\ ~panel.hot
  /\ IF ap = list.joined
     THEN \/ Press(<<"sheet">>, <<Op("disconnect", None)>>)
          \/ Press(<<"sheet", "forget">>, <<Op("forget", ap)>>)
     ELSE Press(IF ap \in list.saved \/ ap \notin Locked THEN <<>> ELSE <<"password">>, <<Op("join", ap)>>)

OverWifi == IF panel.joined # None THEN <<"overWifi">> ELSE <<>>
Calm == Hasty \/ (spot = OfSpot /\ reqS = None /\ flows = {})
First == Op("start", [name |-> 0, band |-> 0, start |-> TRUE, sets |-> {"name", "band"}])

\* without a name it is set up first; and the network in use is asked about
turnOn ==
  /\ page = "hotspot" /\ ~spot.active
  /\ \/ spot.settings # None /\ Press(OverWifi, <<Op("resume", None)>>)
     \/ spot.settings = None /\ Calm /\ Press(<<"setUp">> \o OverWifi, <<First>>)

turnOff == page = "hotspot" /\ spot.active /\ Press(<<>>, <<Op("stop", None)>>)

\* name and password in a dialog, the band at once: each is sent with what the page
\* knows of the rest, and started again if the page knows it to run
change(asks, s, sets) ==
  /\ page = "hotspot" /\ Calm
  /\ Press(asks, <<Op("start", [name |-> s.name, band |-> s.band, start |-> spot.active, sets |-> sets])>>)

edit == spot.settings # None /\ change(<<"settings">>, [spot.settings EXCEPT !.name = presses + 1], {"name"})
setBand == spot.settings # None /\ change(<<>>, [spot.settings EXCEPT !.band = 1 - @], {"band"})

\* Back or Cancel; a join that is out goes on and nobody waits for it
Cancels ==
  \E f \in flows :
    /\ f.asks # <<>>
    /\ flows' = IF f.typing THEN (flows \ {f}) \cup {[f EXCEPT !.asks = <<>>]} ELSE flows \ {f}
    /\ UNCHANGED <<card, page, seen, meant, presses, trouble>>

\* a password is sent from its dialog, which stays; other questions make way for the next
Answers ==
  \E f \in flows :
    /\ f.asks # <<>> /\ ~f.typing
    /\ flows' = (flows \ {f}) \cup
         {IF Head(f.asks) = "password" THEN [f EXCEPT !.typing = TRUE] ELSE [f EXCEPT !.asks = Tail(@)]}
    /\ Decide(Tail(f.asks), Head(f.todo))
    /\ UNCHANGED <<card, page, seen, presses, trouble>>

-----------------------------------------------------------------------------
(* The posts.                                                               *)

\* what NetworkManager does, and whether it does it
Done(o) ==
  CASE o.op = "radio"      -> /\ radio' = o.arg /\ hot' = (hot /\ o.arg) /\ joined' \in (IF ~o.arg THEN {None} ELSE IF radio THEN {joined} ELSE saved \cup {None})
                              /\ UNCHANGED <<saved, settings>>
    [] o.op = "join"       -> /\ radio /\ hot' = FALSE /\ joined' = o.arg /\ saved' = saved \cup {o.arg}
                              /\ UNCHANGED <<radio, settings>>
    [] o.op = "disconnect" -> joined' = None /\ UNCHANGED <<radio, hot, saved, settings>>
    [] o.op = "forget"     -> /\ o.arg \in saved /\ saved' = saved \ {o.arg}
                              /\ joined' = (IF joined = o.arg THEN None ELSE joined) /\ UNCHANGED <<radio, hot, settings>>
    [] o.op = "stop"       -> /\ hot /\ hot' = FALSE /\ joined' \in saved \cup {None}
                              /\ UNCHANGED <<radio, saved, settings>>
    [] o.op = "resume"     -> /\ radio /\ settings # None /\ hot' = TRUE /\ joined' = None
                              /\ UNCHANGED <<radio, saved, settings>>
    \* hotspot_start ends the hotspot and makes its profile anew
    [] o.op = "start"      -> /\ settings' = [name |-> o.arg.name, band |-> o.arg.band] /\ (o.arg.start => radio)
                              /\ hot' = o.arg.start /\ joined' = (IF o.arg.start THEN None ELSE joined)
                              /\ UNCHANGED <<radio, saved>>

\* a start that comes to nothing leaves no profile behind
Undone(o) ==
  IF o.op = "start" /\ o.arg.start THEN settings' = None /\ hot' = FALSE /\ UNCHANGED <<radio, joined, saved>>
  ELSE UNCHANGED card

Impossible(o) ==
  \/ o.op \in {"join", "resume"} /\ ~radio
  \/ o.op = "start" /\ o.arg.start /\ ~radio
  \/ o.op = "forget" /\ o.arg \notin saved
  \/ o.op = "stop" /\ ~hot
  \/ o.op = "resume" /\ settings = None

\* the next goes out, done or not; afterwards the pages ask how things stand, but for a
\* join that failed or that nobody waits for, which leaves it to the polls
Posted ==
  \E f \in flows :
    LET o == Head(f.todo)
        rest == IF Len(f.todo) = 1 THEN {} ELSE {[f EXCEPT !.todo = Tail(@)]}
    IN  /\ f.asks = <<>> \/ f.typing
        /\ \/ Done(o) /\ flows' = (flows \ {f}) \cup rest /\ UNCHANGED <<trouble, meant>>
           \/ /\ \/ Impossible(o) /\ UNCHANGED trouble
                 \/ ~Impossible(o) /\ trouble < MaxTrouble /\ trouble' = trouble + 1
              /\ Undone(o)
              /\ meant' = IF o.op = "start" THEN settings' ELSE meant
              /\ flows' = (flows \ {f}) \cup (IF f.asks # <<>> THEN {[f EXCEPT !.typing = FALSE]} ELSE rest)
        /\ IF o.op = "join" /\ (joined' # o.arg \/ (f.typing /\ f.asks = <<>>)) THEN UNCHANGED <<reqP, reqL>>
           ELSE refreshPanel /\ reqL' = IF o.op \in {"start", "resume"} THEN reqL ELSE Ask(reqL)
        /\ reqS' = IF page = "hotspot" /\ o.op \in {"start", "resume", "stop"} THEN Ask(reqS) ELSE reqS
        /\ UNCHANGED <<page, panel, list, spot, presses>>

\* bound: the pages change between things done
Goes ==
  /\ flows = {} /\ presses < MaxPresses
  /\ page' = (IF page = "wifi" THEN "hotspot" ELSE "wifi")
  /\ IF page' = "wifi" THEN reqL' = Ask(reqL) /\ UNCHANGED reqS
     ELSE reqS' = Ask(reqS) /\ UNCHANGED reqL
  /\ UNCHANGED <<card, flows, panel, reqP, list, spot, meant, presses, trouble>>

Next ==
  \/ Poll \/ ReadPanel \/ ReadList \/ ReadSpot \/ PanelAnswered \/ ListAnswered \/ SpotAnswered
  \/ setRadio \/ (\E ap \in Aps : choose(ap)) \/ turnOn \/ turnOff \/ edit \/ setBand
  \/ Cancels \/ Answers \/ Posted \/ Goes

Fairness ==
  /\ WF_vars(Poll) /\ WF_vars(ReadPanel) /\ WF_vars(ReadList) /\ WF_vars(ReadSpot)
  /\ WF_vars(PanelAnswered) /\ WF_vars(ListAnswered) /\ WF_vars(SpotAnswered) /\ WF_vars(Posted)

Spec == Init /\ [][Next]_vars /\ Fairness

-----------------------------------------------------------------------------
TypeOK ==
  /\ {radio, hot} \subseteq BOOLEAN /\ joined \in Aps \cup {None} /\ saved \subseteq Aps
  /\ presses \in 0..MaxPresses /\ trouble \in 0..MaxTrouble

\* The hotspot has the settings that were chosen last, or none when a start failed: the
\* settings that a page sends along are not older ones (hotspot.js, data-band, data-edit).
SettingsAreMeant ==
  flows = {} => settings = meant
WirelessSound == TypeOK /\ SettingsAreMeant

\* The network a page knows to be joined, or the hotspot, is not given up for the other
\* before its question was answered (setRadio, turnOn).
TakenWhenAsked ==
  \A f \in flows' \ flows :
    /\ f.asks = <<>> /\ panel.joined # None
    /\ Head(f.todo).op = "resume" \/ (Head(f.todo).op = "start" /\ Head(f.todo).arg.start /\ ~spot.active)
    => \E g \in flows : g.id = f.id /\ g.asks # <<>>

\* The pages end up showing what is.
WirelessShows ==
  /\ panel = OfPanel
  /\ page = "wifi" => list = OfList
  /\ page = "hotspot" => spot = OfSpot
WirelessSettles == <>[]WirelessShows
=============================================================================
