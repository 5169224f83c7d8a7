-------------------------------- MODULE MCPanel --------------------------------
(***************************************************************************)
(* What every page of the front panel stands on, and its network pages: the *)
(* loop that polls t6-paneld, the router, Bluetooth's pairing and discovery, *)
(* Wi-Fi with the hotspot, and the wired ports.  A behaviour has one of the *)
(* six at work, as `scene` says: the polling loop then stays where it began, *)
(* and the variables of the others are None.                                *)
(***************************************************************************)
EXTENDS Backend, Sequences, TLC

CONSTANTS
  Slips, MaxSlips, PageIds, MaxDepth, MidSlide,
  Devs, MaxQuestions, MaxAnswers, MaxPairs, Parallel,
  Aps, Locked, Hasty,
  Ports, MaxTyped, Overlap,
  MaxVisits, MaxStays, MaxPresses, MaxTrouble

VARIABLES
  scene,
  \* of more than one of them
  pending, page, visits, ask, known, req, presses, trouble, meant,
  \* Router
  nav, pages, slide, drag, closing,
  \* Pairing
  pairs, begun, prompt, questions, waits, pairing, answers, given, lost,
  \* Discovery
  powered, bonds, until, stopping, searching, leases, managed, sure, ops,
  \* Wireless
  radio, hot, joined, saved, settings, flows, panel, reqP, list, reqL, spot, reqS,
  \* Wired
  plugged, profile, live, shown, conf, editing, markup, inputs, focus, saves

R == INSTANCE Router WITH Tabs <- <<"overview", "files", "network">>, Files <- "files", Pages <- PageIds
B == INSTANCE Pairing
D == INSTANCE Discovery
W == INSTANCE Wireless
E == INSTANCE Wired WITH MaxPresses <- MaxTyped, MaxVisits <- MaxStays

ASSUME PanelParameters ==
  /\ R!RouterAssumption
  /\ B!PairingAssumption
  /\ D!DiscoveryAssumption
  /\ W!WirelessAssumption
  /\ E!WiredAssumption

ofR == <<nav, pages, slide, drag, closing>>
ofB == <<pairs, begun, prompt, questions, waits, pairing, ask, answers, given, lost>>
ofD == <<powered, bonds, until, stopping, searching, leases, managed, sure, ops>>
ofW == <<radio, hot, joined, saved, settings, flows, panel, reqP, list, reqL, spot, reqS>>
ofE == <<plugged, profile, live, shown, conf, editing, markup, inputs, focus, saves>>
all == <<scene, vars, pending, page, visits, known, req, presses, trouble, meant,
         ofR, ofB, ofD, ofW, ofE>>

noR ==
  nav = None /\ pages = None /\ slide = None /\ drag = None /\ closing = None
noB ==
  /\ pairs = None /\ begun = None /\ prompt = None /\ questions = None /\ waits = None
  /\ pairing = None /\ ask = None /\ answers = None /\ given = None /\ lost = None
noD ==
  /\ powered = None /\ bonds = None /\ until = None /\ stopping = None /\ searching = None
  /\ leases = None /\ managed = None /\ sure = None /\ ops = None
noW ==
  /\ radio = None /\ hot = None /\ joined = None /\ saved = None /\ settings = None
  /\ flows = None /\ panel = None /\ reqP = None /\ list = None /\ reqL = None
  /\ spot = None /\ reqS = None
noE ==
  /\ plugged = None /\ profile = None /\ live = None /\ shown = None /\ conf = None
  /\ editing = None /\ markup = None /\ inputs = None /\ focus = None /\ saves = None

PanelInit ==
  /\ Init
  /\ \/ scene = "poll" /\ noR /\ noB /\ noD /\ noW /\ noE
        /\ pending = None /\ page = None /\ visits = None /\ known = None /\ req = None
        /\ presses = None /\ trouble = None /\ meant = None
     \/ scene = "router" /\ R!Init /\ noB /\ noD /\ noW /\ noE
        /\ page = None /\ visits = None /\ known = None /\ req = None
        /\ presses = None /\ trouble = None /\ meant = None
     \/ scene = "pairing" /\ B!Init /\ noR /\ noD /\ noW /\ noE
        /\ pending = None /\ presses = None /\ trouble = None /\ meant = None
     \/ scene = "discovery" /\ D!Init /\ noR /\ noB /\ noW /\ noE
        /\ pending = None /\ meant = None
     \/ scene = "wireless" /\ W!Init /\ noR /\ noB /\ noD /\ noE
        /\ pending = None /\ visits = None /\ known = None /\ req = None
     \/ scene = "wired" /\ E!Init /\ noR /\ noB /\ noD /\ noW
        /\ page = None /\ known = None
  /\ scene # "poll" => health = "up"

PanelNext ==
  /\ UNCHANGED scene
  /\ \/ scene = "poll" /\ Next
        /\ UNCHANGED <<pending, page, visits, known, req, presses, trouble, meant, ofR, ofB, ofD, ofW, ofE>>
     \/ UNCHANGED vars
        /\ \/ scene = "router" /\ R!Next
              /\ UNCHANGED <<page, visits, known, req, presses, trouble, meant, ofB, ofD, ofW, ofE>>
           \/ scene = "pairing" /\ B!Next
              /\ UNCHANGED <<pending, presses, trouble, meant, ofR, ofD, ofW, ofE>>
           \/ scene = "discovery" /\ D!Next
              /\ UNCHANGED <<pending, meant, ofR, ofB, ofW, ofE>>
           \/ scene = "wireless" /\ W!Next
              /\ UNCHANGED <<pending, visits, known, req, ofR, ofB, ofD, ofE>>
           \/ scene = "wired" /\ E!Next
              /\ UNCHANGED <<page, known, ofR, ofB, ofD, ofW>>

Pol(A) == scene = "poll" /\ A
Pai(A) == scene = "pairing" /\ A
Dis(A) == scene = "discovery" /\ A
Wir(A) == scene = "wireless" /\ A
Eth(A) == scene = "wired" /\ A
b == B!vars
d == D!vars
w == W!vars
e == E!vars

PanelFairness ==
  /\ WF_vars(Pol(PollDue)) /\ WF_vars(Pol(PollAnswered))
  /\ WF_vars(Pol(PollUnreachable)) /\ WF_vars(Pol(PollFailed))
  /\ WF_vars(Pol(sliderSettles)) /\ WF_vars(Pol(settled)) /\ WF_vars(Pol(ReadState))
  /\ WF_vars(Pol(AnyAnswered)) /\ WF_vars(Pol(AnyFailed)) /\ WF_vars(Pol(AnyApplied))
  /\ WF_b(Pai(B!Poll)) /\ WF_b(Pai(B!Read)) /\ WF_b(Pai(B!Answered))
  /\ WF_b(Pai(B!SomeWait)) /\ WF_b(Pai(B!PairEnds)) /\ WF_b(Pai(B!AnswerPosted))
  /\ WF_d(Dis(D!Poll)) /\ WF_d(Dis(D!Read)) /\ WF_d(Dis(D!Answered)) /\ WF_d(Dis(D!renew))
  /\ WF_d(Dis(D!post_scan)) /\ WF_d(Dis(D!scan_watchdog)) /\ WF_d(Dis(D!StopDiscovery))
  /\ WF_d(Dis(D!OpDone))
  /\ WF_w(Wir(W!Poll)) /\ WF_w(Wir(W!ReadPanel)) /\ WF_w(Wir(W!ReadList)) /\ WF_w(Wir(W!ReadSpot))
  /\ WF_w(Wir(W!PanelAnswered)) /\ WF_w(Wir(W!ListAnswered)) /\ WF_w(Wir(W!SpotAnswered))
  /\ WF_w(Wir(W!Posted))
  /\ WF_e(Eth(E!SomeRead)) /\ WF_e(Eth(E!SomeAnswer)) /\ WF_e(Eth(E!SomeSave))
  /\ WF_e(Eth(E!PanelAnswered)) /\ WF_e(Eth(E!Leaves))

PanelSpec == PanelInit /\ [][PanelNext]_all /\ PanelFairness

-----------------------------------------------------------------------------
\* The router's books, stacks and pages hang together: whatever is tapped, closed or
\* swiped, only the page on top works, and one that is gone stays quiet (Router).
RouterSound ==
  scene = "router" => R!StacksSound /\ R!OnlyTopRuns /\ R!DeadStayQuiet

\* The devices of the network hang together: a question of BlueZ can be answered and a
\* search is held by somebody (Pairing, Discovery), no page sends old settings along, and
\* two ports have no address in common (Wireless, Wired).
NetworkSound ==
  /\ scene = "pairing" => B!PairingSound
  /\ scene = "discovery" => D!TypeOK /\ D!SearchIsHeld
  /\ scene = "wireless" => W!WirelessSound
  /\ scene = "wired" => E!WiredSound

\* A tab tapped while pages slide is not lost (router.js, pendingTab).
TapNotDropped == [][scene = "router" => R!TapKept]_all

\* No device is let in or refused but by the answer to its question (bluetooth.rs,
\* post_prompt), and no connection in use is taken before the question about it was
\* answered (wifi.js, hotspot.js).
NetworkAsks ==
  [][/\ scene = "pairing" => B!AcceptedIsAsked /\ B!RefusedIsDeclined
     /\ scene = "wireless" => W!TakenWhenAsked]_all

\* Whatever was lost, late or undone on the way, the panel follows t6-paneld (Tracks), the
\* pages of the network end up showing what there is, and a search ends with its page.
PanelSettles ==
  /\ Tracks
  /\ <>[](scene = "pairing" => B!PageShows)
  /\ <>[](scene = "discovery" => D!DevicesShow)
  /\ <>[](scene = "wireless" => W!WirelessShows)
  /\ <>[](scene = "wired" => E!WiredShows)
=============================================================================
