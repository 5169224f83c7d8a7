------------------------------- MODULE MCScreen -------------------------------
(***************************************************************************)
(* The front of the machine: the screen with three levels (dark, the default, *)
(* and a brighter one), the timer that dims it, the touch controller, and the *)
(* monitor behind the Wi-Fi LED.  A behaviour has one of the four at work, as *)
(* `scene` says: the screen then stays as it begins, the variables of the     *)
(* others are None.                                                           *)
(***************************************************************************)
EXTENDS Screen

CONSTANTS
  Top, Mishaps, RunLen, MaxGhosts, MaxPauses, MaxNaps, None,
  NM_EVERY, NM_DOWN_AFTER, CONNECTING_MAX, WORSE_AFTER, FAULT_AFTER, MaxChanges

VARIABLES
  scene, held,
  \* Dimming
  lit, shown, dimmed_from, timer, dim, at, then, was_on, resting, idle, touched, dims,
  chosen, spoiled, left,
  \* Touch
  depth, queued, work, recent, state, fingers, pen, phantom, run, ghost, near,
  ghosts, pauses, naps,
  \* WifiMonitor
  card, nm, signal, told, boot, view, asked, down, connecting, weak, reported, candidate,
  ill, changes

D == INSTANCE Dimming
T == INSTANCE Touch
W == INSTANCE WifiMonitor

ASSUME FrontParameters == D!DimmingAssumption /\ T!TouchAssumption /\ W!WifiParameters

ofD == <<lit, shown, dimmed_from, timer, dim, at, then, was_on, resting, idle, touched, dims,
         chosen, spoiled, left>>
ofT == <<depth, queued, work, recent, state, fingers, pen, phantom, run, ghost, near,
         ghosts, pauses, naps>>
ofW == <<card, nm, signal, told, boot, view, asked, down, connecting, weak, reported,
         candidate, ill, changes>>
front == <<scene, vars, held, ofD, ofT, ofW>>

noD ==
  /\ lit = None /\ shown = None /\ dimmed_from = None /\ timer = None /\ dim = None
  /\ at = None /\ then = None /\ was_on = None /\ resting = None /\ idle = None
  /\ touched = None /\ dims = None /\ chosen = None /\ spoiled = None /\ left = None
noT ==
  /\ depth = None /\ queued = None /\ work = None /\ recent = None /\ state = None
  /\ fingers = None /\ pen = None /\ phantom = None /\ run = None /\ ghost = None
  /\ near = None /\ ghosts = None /\ pauses = None /\ naps = None
noW ==
  /\ card = None /\ nm = None /\ signal = None /\ told = None /\ boot = None
  /\ view = None /\ asked = None /\ down = None /\ connecting = None /\ weak = None
  /\ reported = None /\ candidate = None /\ ill = None /\ changes = None

FrontInit ==
  /\ Init
  /\ \/ scene = "switch" /\ held = None /\ noD /\ noT /\ noW
     \/ scene = "dim" /\ D!Init /\ noT /\ noW
     \/ scene = "touch" /\ T!Init /\ noD /\ noW
     \/ scene = "wifi" /\ W!Init /\ held = None /\ noD /\ noT
  /\ scene # "switch" => bound /\ level = Max

FrontNext ==
  /\ UNCHANGED scene
  /\ \/ scene = "switch" /\ Next /\ UNCHANGED <<held, ofD, ofT, ofW>>
     \/ scene = "dim" /\ D!Next /\ UNCHANGED <<vars, ofT, ofW>>
     \/ scene = "touch" /\ T!Next /\ UNCHANGED <<vars, ofD, ofW>>
     \/ scene = "wifi" /\ W!Next /\ UNCHANGED <<vars, held, ofD, ofT>>

Tou(A) == scene = "touch" /\ A
d == D!vars
t == T!touch

FrontSpec ==
  /\ FrontInit /\ [][FrontNext]_front
  /\ WF_vars(scene = "switch" /\ Step)
  /\ WF_d(scene = "dim" /\ D!Goes)
  /\ WF_t(Tou(T!Works)) /\ SF_t(Tou(T!Recovered(TRUE))) /\ WF_t(Tou(T!IntervalPasses))
  /\ WF_t(Tou(T!Waited)) /\ WF_t(Tou(T!PhantomFrame)) /\ WF_t(Tou(T!PenSeen))
  /\ WF_ofW(scene = "wifi" /\ W!Sample) /\ WF_ofW(scene = "wifi" /\ W!BootEnds)

-----------------------------------------------------------------------------
\* A level nobody chose is always on its way back, whatever interrupts the dimming
\* (idle.rs); suspend, unbinding and recovery give the interrupt back and leave nothing
\* down (ft8722_core.c); the Wi-Fi LED turns red only for a fault that lasted (wifi.rs).
FrontSound ==
  /\ [](/\ scene = "dim" => D!DimmingSound
        /\ scene = "touch" => T!TouchSound
        /\ scene = "wifi" => W!TypeOK)
  /\ W!RedHasLasted

\* Use brings the level back (idle.rs); phantom touches end, and a pen that has left is
\* reported so (ft8722_input.c); what lasts of Wi-Fi is shown (wifi.rs).
FrontSettles ==
  /\ (scene = "dim" /\ D!InUse) \/ (scene = "touch" /\ T!Stuck)
       ~> (scene = "dim" => D!IsBack) /\ (scene = "touch" => T!Settled)
  /\ scene = "wifi" => W!ShowsWhatLasts
=============================================================================
