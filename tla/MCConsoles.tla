----------------------------- MODULE MCConsoles -----------------------------
(***************************************************************************)
(* The two admin pages.  Their parts share nothing but the backend's       *)
(* answers, so one behaviour has one of them at work: `scene` picks it,    *)
(* and the variables of the others are None throughout.                    *)
(***************************************************************************)
EXTENDS Integers, FiniteSets, Sequences

CONSTANTS
  Cards, Shared, Values, Presets, MaxOthers,
  Zones, MaxTemp,
  MaxRuns, MaxAsked,
  Settings, First, Plans,
  MaxEdits, MaxActs, MaxTrouble, MaxMisses, MaxLoads,
  None

VARIABLES
  scene,
  \* Dashboard
  card, srv, fand, edits, others, trouble, req, pollTimer, last, pollFails, banner,
  connErrorActive, worded, renamed, puts, base, draft, mode, dirty, pending, blTimer, abandoned,
  \* CurveEditor
  stored, config, fanEdited, custom, drag, applying, put, loads, loaded, unsure,
  \* Health
  unit, ended, run, asked, healthTimer, kick, post, repairRequested, problems, button, told, toldOf,
  \* WebUi
  plan, on, set, status, audio, sw, swDisabled, sel, focus, modal, repairing, repairs, repairDisabled

PlansHere ==
  {[panel |-> 1, restart |-> 1, repair |-> 0, list |-> 0],
   [panel |-> 0, restart |-> 0, repair |-> 1, list |-> 0],
   [panel |-> 1, restart |-> 0, repair |-> 0, list |-> 1]}

D == INSTANCE Dashboard WITH MaxTrouble <- MaxMisses
C == INSTANCE CurveEditor
H == INSTANCE Health
W == INSTANCE WebUi

ASSUME ConsolesParameters ==
  D!DashboardAssumption /\ C!CurveAssumption /\ H!HealthAssumption /\ W!WebUiAssumption

ofD == <<card, srv, fand, others, req, pollTimer, last, pollFails, banner, connErrorActive,
         worded, renamed, base, draft, mode, dirty, pending, blTimer, abandoned>>
ofC == <<stored, config, fanEdited, custom, drag, applying, put, loaded, unsure>>
ofH == <<ended, run, asked, healthTimer, kick, post, repairRequested, problems, button, toldOf>>
ofW == <<plan, on, set, status, audio, sw, swDisabled, sel, focus, modal, repairing, repairs,
         repairDisabled>>
shared == <<edits, trouble, puts, loads, unit, told>>
all == <<scene, ofD, ofC, ofH, ofW, shared>>

noD ==
  /\ card = None /\ srv = None /\ fand = None /\ others = None /\ req = None
  /\ pollTimer = None /\ last = None /\ pollFails = None /\ banner = None /\ connErrorActive = None
  /\ base = None /\ draft = None /\ mode = None /\ dirty = None /\ pending = None
  /\ blTimer = None /\ worded = None /\ renamed = None /\ abandoned = None
noC ==
  /\ stored = None /\ config = None /\ fanEdited = None /\ custom = None /\ drag = None
  /\ applying = None /\ put = None /\ loaded = None /\ unsure = None
noH ==
  /\ ended = None /\ run = None /\ asked = None /\ healthTimer = None /\ kick = None
  /\ post = None /\ repairRequested = None /\ problems = None /\ button = None /\ toldOf = None
noW ==
  /\ plan = None /\ on = None /\ set = None /\ status = None /\ audio = None
  /\ sw = None /\ swDisabled = None /\ sel = None /\ focus = None /\ modal = None
  /\ repairing = None /\ repairs = None /\ repairDisabled = None

Init ==
  \/ scene = "dashboard" /\ D!Init /\ noC /\ noH /\ noW
     /\ loads = None /\ unit = None /\ told = None
  \/ scene = "curves" /\ C!Init /\ noD /\ noH /\ noW
     /\ puts = None /\ unit = None /\ told = None
  \/ scene = "health" /\ H!Init /\ noD /\ noC /\ noW
     /\ edits = None /\ puts = None /\ loads = None
  \/ scene = "web" /\ W!Init /\ noD /\ noC /\ noH
     /\ edits = None

Next ==
  /\ UNCHANGED scene
  /\ \/ scene = "dashboard" /\ D!Next /\ UNCHANGED <<ofC, ofH, ofW, loads, unit, told>>
     \/ scene = "curves" /\ C!Next /\ UNCHANGED <<ofD, ofH, ofW, puts, unit, told>>
     \/ scene = "health" /\ H!Next /\ UNCHANGED <<ofD, ofC, ofW, edits, puts, loads>>
     \/ scene = "web" /\ W!Next /\ UNCHANGED <<ofD, ofC, ofH, edits>>

\* the fairness of the page that is at work
dash == D!vars
heal == H!vars
web == W!vars
Dash(A) == scene = "dashboard" /\ A
Heal(A) == scene = "health" /\ A
Web(A)  == scene = "web" /\ A

Fairness ==
  /\ WF_dash(Dash(pollTimer /\ D!pollLoop)) /\ WF_dash(Dash(D!Read)) /\ SF_dash(Dash(D!Answered))
  /\ WF_dash(Dash(D!store)) /\ WF_dash(Dash(D!putAnswered))
  /\ WF_dash(Dash(D!release)) /\ WF_dash(Dash(D!sendLive))
  /\ WF_heal(Heal(H!maybeLoadSystem)) /\ WF_heal(Heal(H!TimerDue))
  /\ WF_heal(Heal(H!Read)) /\ WF_heal(Heal(H!loadHealth))
  /\ WF_heal(Heal(H!Begin)) /\ WF_heal(Heal(H!End))
  /\ WF_web(Web(W!Read)) /\ WF_web(Web(W!StatusAnswered)) /\ WF_web(Web(W!AudioAnswered))
  /\ WF_web(Web(W!Interval)) /\ WF_web(Web(W!SomePut))
  /\ WF_web(Web(W!RepairStarts)) /\ WF_web(Web(W!AskAfter)) /\ WF_web(Web(W!RepairRead))
  /\ WF_web(Web(W!RepairAnswered)) /\ WF_web(Web(W!RepairOver))

Spec == Init /\ [][Next]_all /\ Fairness

-----------------------------------------------------------------------------
\* What a page shows hangs together: the banner of the Control Center page says
\* only what the polls found (Dashboard), every curve stays one t6-webd accepts,
\* the working copy under a finger too (CurveEditor), the panel's page keeps to
\* its types (WebUi).
PagesSound ==
  /\ scene = "dashboard" => D!FormSound
  /\ scene = "curves" => C!CurvesSound
  /\ scene = "web" => W!TypeOK

\* A curve edit t6-fand does not hold can still be sent, whatever failed
\* (app.js: zoneDirty, updateCurveBar, applyAll).
UnsavedStaysDirty == scene = "curves" => C!UnsavedStaysDirty

\* What was staged survives every answer until the person changes it (Dashboard);
\* the end of a repair is said as it was (Health, WebUi), and the panel is turned
\* off only by OK on the question that asks just that (WebUi).
OnlyWhatWasAsked ==
  [][/\ scene = "dashboard" => D!EditsSurvive
     /\ scene = "health" => H!SaidAsItEnded
     /\ scene = "web" => W!OffIsConfirmed /\ W!RepairedIsTrue]_all

\* Each page catches up with its backend, whatever was lost or came late on the
\* way, and the end of a repair is told.
CatchesUp ==
  /\ <>[](scene = "dashboard" => D!CaughtUp)
  /\ <>[](scene = "web" => W!Shows)
  /\ []<>(scene = "health" => ~repairRequested)
=============================================================================
