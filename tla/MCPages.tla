-------------------------------- MODULE MCPages --------------------------------
(***************************************************************************)
(* The pages of the front panel, what lies over them, and the kiosk around  *)
(* it: the files tab with its copies in the background and whose data it    *)
(* is, a settings page, the layers, the control center, the preview and the *)
(* video player of the kiosk, and keys on a dark screen.  A behaviour has   *)
(* one of the nine at work, as `scene` says; the variables of the others    *)
(* are None.                                                                *)
(***************************************************************************)
EXTENDS Integers, FiniteSets, Sequences, TLC

CONSTANTS
  Here, There, Names, TaskIds, Persons,
  MaxPolls, MaxMissed, MaxCancels, MaxMoves, MaxRestarts, MaxMisses, Late,
  Kinds, MaxChanges, MaxFails, FailedPuts, LateFlush, Blank, Skeleton, Failed,
  MaxLayers, MaxActs, MaxToasts, Slips, Hasty,
  MaxOpened, MaxTaps, Both,
  Items, MaxViewers, MaxSheets,
  MaxPlayers, MaxPauses, MaxLost, MaxCrashes, Strays,
  Keys, Volume, Power, MaxSleeps, MaxAsked,
  MaxTrouble, None

VARIABLES
  scene,
  \* of more than one of them
  tasks, acts, trouble, status, req, flows, timer, missed, puts, finger, stack, opened,
  lost,
  \* Folder
  hasty, disk, bin, list, at, shown, selecting, chosen, query, found, searchTimer,
  searches, clip, sheet, undo, above, instead,
  \* Tasks
  state, chip, seen, said, starting, polls, orphans, cancels,
  \* Session
  who, moves, restarts, account, failed, reqA, kept, own, owner, login, logout, newcomer,
  \* Pages
  kind, fails, srv, made, up, data, hold, view, last, held, tapped,
  \* Layers
  leaving, answer, checking, acted, watching, focus, osk, blurs, remote, ring, early,
  late, online, outages, toasted, toastUp, toastTimer,
  \* ControlCenter
  device, taps, layer, polling, pull, band, plate, settling, known, bt, reqBt, slid,
  \* Viewer
  current, viewers, over, sheets, frame, ipc, visible, page, cookies, served,
  \* Player
  switches, mpv, doomed, pauses, crashes, player, watch, renew, lease, glass, closing,
  \* WakeKeys
  lit, sleeps, down, dark, wakeKeys, recent, asked, got

HeldHere   == (Here :> Names) @@ (There :> {CHOOSE n \in Names : TRUE})
WantedHere == (TRUE :> 3) @@ (FALSE :> 4)

F == INSTANCE Folder WITH Held <- HeldHere, Wanted <- WantedHere
T == INSTANCE Tasks
S == INSTANCE Session WITH MaxTrouble <- MaxMisses
G == INSTANCE Pages
L == INSTANCE Layers
C == INSTANCE ControlCenter
V == INSTANCE Viewer
P == INSTANCE Player
W == INSTANCE WakeKeys

ASSUME PagesParameters ==
  /\ F!FolderAssumption /\ T!TasksAssumption /\ S!SessionAssumption
  /\ G!PagesAssumption /\ L!LayersAssumption /\ C!CenterAssumption
  /\ V!ViewerAssumption /\ P!PlayerAssumption /\ W!WakeKeysAssumption

ofF == <<hasty, disk, bin, list, at, shown, selecting, chosen, query, found,
        searchTimer, searches, clip, sheet, undo, above, instead>>
ofT == <<state, chip, seen, said, starting, polls, orphans, cancels>>
ofS == <<who, moves, restarts, account, failed, reqA, kept, own, owner, login, logout,
        newcomer>>
ofG == <<kind, fails, srv, made, up, data, hold, view, last, held, tapped>>
ofL == <<leaving, answer, checking, acted, watching, focus, osk, blurs, remote, ring,
        early, late, online, outages, toasted, toastUp, toastTimer>>
ofC == <<device, taps, layer, polling, pull, band, plate, settling, known, bt, reqBt,
        slid>>
ofV == <<current, viewers, over, sheets, frame, ipc, visible, page, cookies, served>>
ofP == <<switches, mpv, doomed, pauses, crashes, player, watch, renew, lease, glass,
        closing>>
ofW == <<lit, sleeps, down, dark, wakeKeys, recent, asked, got>>
all == <<scene, tasks, acts, trouble, status, req, flows, timer, missed, puts, finger,
        stack, opened, lost, ofF, ofT, ofS, ofG, ofL, ofC, ofV, ofP, ofW>>

noF ==
  /\ hasty = None /\ disk = None /\ bin = None /\ list = None /\ at = None
  /\ shown = None /\ selecting = None /\ chosen = None /\ query = None
  /\ found = None /\ searchTimer = None /\ searches = None /\ clip = None
  /\ sheet = None /\ undo = None /\ above = None /\ instead = None
noT ==
  /\ state = None /\ chip = None /\ seen = None /\ said = None /\ starting = None
  /\ polls = None /\ orphans = None /\ cancels = None
noS ==
  /\ who = None /\ moves = None /\ restarts = None /\ account = None
  /\ failed = None /\ reqA = None /\ kept = None /\ own = None /\ owner = None
  /\ login = None /\ logout = None /\ newcomer = None
noG ==
  /\ kind = None /\ fails = None /\ srv = None /\ made = None /\ up = None /\ data = None
  /\ hold = None /\ view = None /\ last = None /\ held = None /\ tapped = None
noL ==
  /\ leaving = None /\ answer = None /\ checking = None /\ acted = None
  /\ watching = None /\ focus = None /\ osk = None /\ blurs = None /\ remote = None
  /\ ring = None /\ early = None /\ late = None /\ online = None /\ outages = None
  /\ toasted = None /\ toastUp = None /\ toastTimer = None
noC ==
  /\ device = None /\ taps = None /\ layer = None /\ polling = None /\ pull = None
  /\ band = None /\ plate = None /\ settling = None /\ known = None /\ bt = None
  /\ reqBt = None /\ slid = None
noV ==
  /\ current = None /\ viewers = None /\ over = None /\ sheets = None
  /\ frame = None /\ ipc = None /\ visible = None /\ page = None /\ cookies = None
  /\ served = None
noP ==
  /\ switches = None /\ mpv = None /\ doomed = None /\ pauses = None
  /\ crashes = None /\ player = None /\ watch = None /\ renew = None /\ lease = None
  /\ glass = None /\ closing = None
noW ==
  /\ lit = None /\ sleeps = None /\ down = None /\ dark = None /\ wakeKeys = None
  /\ recent = None /\ asked = None /\ got = None

Init ==
  \/ scene = "folder" /\ F!Init
     /\ noT /\ noS /\ noG /\ noL /\ noC /\ noV /\ noP /\ noW
     /\ timer = None /\ missed = None /\ puts = None /\ finger = None
     /\ stack = None /\ opened = None /\ lost = None
  \/ scene = "tasks" /\ T!Init
     /\ noF /\ noS /\ noG /\ noL /\ noC /\ noV /\ noP /\ noW
     /\ acts = None /\ trouble = None /\ status = None /\ req = None /\ flows = None
     /\ puts = None /\ finger = None /\ stack = None /\ opened = None /\ lost = None
  \/ scene = "session" /\ S!Init
     /\ noF /\ noT /\ noG /\ noL /\ noC /\ noV /\ noP /\ noW
     /\ tasks = None /\ acts = None /\ status = None /\ flows = None /\ timer = None
     /\ missed = None /\ puts = None /\ finger = None /\ stack = None
     /\ opened = None /\ lost = None
  \/ scene = "page" /\ G!Init
     /\ noF /\ noT /\ noS /\ noL /\ noC /\ noV /\ noP /\ noW
     /\ tasks = None /\ acts = None /\ trouble = None /\ flows = None
     /\ timer = None /\ missed = None /\ stack = None /\ opened = None
     /\ lost = None
  \/ scene = "layers" /\ L!Init
     /\ noF /\ noT /\ noS /\ noG /\ noC /\ noV /\ noP /\ noW
     /\ tasks = None /\ trouble = None /\ status = None /\ req = None
     /\ flows = None /\ timer = None /\ missed = None /\ puts = None
     /\ opened = None /\ lost = None
  \/ scene = "center" /\ C!Init
     /\ noF /\ noT /\ noS /\ noG /\ noL /\ noV /\ noP /\ noW
     /\ tasks = None /\ acts = None /\ status = None /\ missed = None
     /\ finger = None /\ lost = None
  \/ scene = "viewer" /\ V!Init
     /\ noF /\ noT /\ noS /\ noG /\ noL /\ noC /\ noP /\ noW
     /\ tasks = None /\ acts = None /\ trouble = None /\ status = None /\ req = None
     /\ timer = None /\ puts = None /\ finger = None /\ stack = None
     /\ opened = None /\ lost = None
  \/ scene = "player" /\ P!Init
     /\ noF /\ noT /\ noS /\ noG /\ noL /\ noC /\ noV /\ noW
     /\ tasks = None /\ acts = None /\ trouble = None /\ status = None /\ req = None
     /\ flows = None /\ timer = None /\ missed = None /\ finger = None
     /\ stack = None
  \/ scene = "keys" /\ W!Init
     /\ noF /\ noT /\ noS /\ noG /\ noL /\ noC /\ noV /\ noP
     /\ tasks = None /\ acts = None /\ trouble = None /\ status = None /\ req = None
     /\ flows = None /\ timer = None /\ missed = None /\ puts = None
     /\ finger = None /\ stack = None /\ opened = None

Next ==
  /\ UNCHANGED scene
  /\ \/ scene = "folder" /\ F!Next
        /\ UNCHANGED <<ofT, ofS, ofG, ofL, ofC, ofV, ofP, ofW, timer, missed, puts,
                         finger, stack, opened, lost>>
     \/ scene = "tasks" /\ T!Next
        /\ UNCHANGED <<ofF, ofS, ofG, ofL, ofC, ofV, ofP, ofW, acts, trouble, status,
                         req, flows, puts, finger, stack, opened, lost>>
     \/ scene = "session" /\ S!Next
        /\ UNCHANGED <<ofF, ofT, ofG, ofL, ofC, ofV, ofP, ofW, tasks, acts, status,
                         flows, timer, missed, puts, finger, stack, opened, lost>>
     \/ scene = "page" /\ G!Next
        /\ UNCHANGED <<ofF, ofT, ofS, ofL, ofC, ofV, ofP, ofW, tasks, acts, trouble,
                         flows, timer, missed, stack, opened, lost>>
     \/ scene = "layers" /\ L!Next
        /\ UNCHANGED <<ofF, ofT, ofS, ofG, ofC, ofV, ofP, ofW, tasks, trouble, status,
                         req, flows, timer, missed, puts, opened, lost>>
     \/ scene = "center" /\ C!Next
        /\ UNCHANGED <<ofF, ofT, ofS, ofG, ofL, ofV, ofP, ofW, tasks, acts, status,
                         missed, finger, lost>>
     \/ scene = "viewer" /\ V!Next
        /\ UNCHANGED <<ofF, ofT, ofS, ofG, ofL, ofC, ofP, ofW, tasks, acts, trouble,
                         status, req, timer, puts, finger, stack, opened, lost>>
     \/ scene = "player" /\ P!Next
        /\ UNCHANGED <<ofF, ofT, ofS, ofG, ofL, ofC, ofV, ofW, tasks, acts, trouble,
                         status, req, flows, timer, missed, finger, stack>>
     \/ scene = "keys" /\ W!Next
        /\ UNCHANGED <<ofF, ofT, ofS, ofG, ofL, ofC, ofV, ofP, tasks, acts, trouble,
                         status, req, flows, timer, missed, puts, finger, stack, opened>>

Fol(A) == scene = "folder" /\ A
Tas(A) == scene = "tasks" /\ A
Pag(A) == scene = "page" /\ A
Lay(A) == scene = "layers" /\ A
Cen(A) == scene = "center" /\ A
Pla(A) == scene = "player" /\ A
Wak(A) == scene = "keys" /\ A
fol == F!state
tas == T!vars
pag == G!vars
lay == L!vars
cen == C!vars
pla == P!state
wak == W!vars

Fairness ==
  /\ \A d \in {Here, There} : WF_fol(Fol(F!Read(d))) /\ WF_fol(Fol(F!Listed(d)))
  /\ WF_fol(Fol(F!show)) /\ WF_fol(Fol(F!searchDue)) /\ WF_fol(Fol(F!Found))
  /\ WF_fol(Fol(F!SomeFlow)) /\ WF_fol(Fol(F!SomeTask))
  /\ WF_tas(Tas(T!TimerDue)) /\ WF_tas(Tas(T!OrphanDue)) /\ WF_tas(Tas(T!Read))
  /\ WF_tas(Tas(T!Answered)) /\ WF_tas(Tas(T!SomeBegins)) /\ SF_tas(Tas(T!SomeStarted))
  /\ WF_tas(Tas(T!SomeEnds))
  /\ WF_pag(Pag(G!Read)) /\ WF_pag(Pag(G!Answered)) /\ WF_pag(Pag(G!SkeletonDue))
  /\ WF_pag(Pag(G!Tick)) /\ WF_pag(Pag(G!HoldEnds)) /\ WF_pag(Pag(G!FingerUp))
  /\ WF_pag(Pag(G!Flush)) /\ WF_pag(Pag(G!StepSend)) /\ WF_pag(Pag(G!SomePut))
  /\ WF_lay(Lay(L!Checked)) /\ WF_lay(Lay(L!Left)) /\ WF_lay(Lay(L!Focusout)) /\ WF_lay(Lay(L!EarlySync))
  /\ WF_lay(Lay(L!LateSync)) /\ WF_lay(Lay(L!Online)) /\ WF_lay(Lay(L!release)) /\ WF_lay(Lay(L!leave))
  /\ WF_cen(Cen(C!bandUp)) /\ WF_cen(Cen(C!plateUp)) /\ WF_cen(Cen(C!Settled)) /\ WF_cen(Cen(C!run))
  /\ WF_cen(Cen(C!Poll)) /\ WF_cen(Cen(C!ReadPanel)) /\ WF_cen(Cen(C!PanelAnswered))
  /\ WF_cen(Cen(C!PollBt)) /\ WF_cen(Cen(C!ReadBt)) /\ WF_cen(Cen(C!BtAnswered))
  /\ WF_cen(Cen(C!due)) /\ WF_cen(Cen(C!Put))
  /\ WF_pla(Pla(P!Listens)) /\ WF_pla(Pla(P!watchPlayer)) /\ WF_pla(Pla(P!EndsDoomed))
  /\ WF_pla(Pla(P!playerClosed)) /\ WF_pla(Pla(P!Put)) /\ WF_pla(Pla(P!Tick))
  /\ WF_wak(Wak(W!Presses)) /\ WF_wak(Wak(W!Wakes)) /\ WF_wak(Wak(W!TimeGoesBy))
  /\ \A k \in W!All : WF_wak(Wak(W!Release(k)))

Spec == Init /\ [][Next]_all /\ Fairness

-----------------------------------------------------------------------------
\* What the pages say is what there is: the dock follows the folder page and the
\* clipboard (Folder), the chip the tasks that run, and it never stands still (Tasks); a
\* page's status tells whether there is something to show (Pages).
BarsTell ==
  /\ scene = "folder" => F!DockTells
  /\ scene = "tasks" => T!ChipSound
  /\ scene = "page" => G!StatusTells

\* Whoever is seen to be signed in finds nothing of anybody else's (session.js).
NextSeesNone == scene = "session" => S!NextSeesNone

\* What lies over the page is what somebody waits for (Layers), the control center
\* is one plate at most and never left half way (ControlCenter), the native preview
\* lies over the page just while its viewer is on top (Viewer), the screen is held
\* under a video that plays (Player), and what wakes it reaches nobody else (WakeKeys).
ShellSound ==
  /\ scene = "layers" => L!LayersSound
  /\ scene = "center" => C!CenterSound
  /\ scene = "viewer" => V!PreviewTruthful
  /\ scene = "player" => P!PlayerSound
  /\ scene = "keys" => W!OnlyWakes

\* A replaced name is free before the task that brings the new one starts (actions.js);
\* no switch takes the connection in use before its question was answered
\* (control-center.js, flip).
FirstThingsFirst ==
  [][/\ scene = "folder" => F!ReplaceMakesRoom
     /\ scene = "center" => C!AskedFirst]_all

\* A page with data is never blank again, and nothing is painted under a finger (dom.js).
PaintsWithCare == [][scene = "page" => G!PaintedWithCare]_all

\* What was done in a folder shows in its listing, the end of every task is reported, and
\* a settings page that is polled shows what the device does while it is up.
ShowsWhatWasDone ==
  /\ <>[](scene = "folder" => F!Lists)
  /\ <>[](scene = "tasks" => T!Told)
  /\ <>[](scene = "page" => G!ShowsWhatIs)

\* The ring, the toast and the keyboard end up right (Layers), what the control center
\* shows is what is (ControlCenter), the screen is held just while a video plays (Player),
\* and keys light it (WakeKeys).
ShellSettles ==
  /\ <>[](scene = "layers" => L!Settled)
  /\ <>[](scene = "center" => (~\E fl \in flows : ~fl.asks) /\ C!Shows)
  /\ <>[](scene = "player" => ((lease > 0) <=> P!Plays))
  /\ <>[](scene = "keys" => lit)
=============================================================================
