------------------------------- MODULE MCFand -------------------------------
(***************************************************************************)
(* t6-fand's three parts, one at work in a behaviour, as `scene` says: the   *)
(* reading of a curve, the controller of a zone, and the loop around the     *)
(* zones.  The controller then stays as it begins, the variables of the      *)
(* others are None.                                                          *)
(***************************************************************************)
EXTENDS FandZone, FandCurve, FiniteSets

CONSTANTS Fans, Duties, Profiles, Configs, MaxTrouble, NoProfile

VARIABLES
  scene,
  \* FandCurve: the points of a curve, and the temperature it is read at
  points, read,
  \* Fand
  duty, readable, file, override, hup, term, cfg, last_pwm, at, todo, profile,
  faulty, driven, trouble

-----------------------------------------------------------------------------
\* A zone with six temperatures, a silent and a lively curve; the silent one stops the
\* fan, and at 2 degrees asks for less than the floor.
MCTemps == 0..5
MCCurves == {[t \in MCTemps |-> duties[t + 1]] :
               duties \in {<<0, 0, 5, 10, 40, 100>>, <<20, 20, 20, 40, 60, 80>>}}

\* Two fans; a configuration with two profiles, one that lacks a profile for a zone, and
\* one without the second zone.
Config(zones, failsafe, default, curves) ==
  [zones |-> zones, failsafe_pwm |-> failsafe, profile |-> default, curves |-> curves]
MCConfigs == {
  Config({1, 2}, 70, "balance", <<{"silent", "balance"}, {"silent", "balance"}>>),
  Config({1, 2}, 40, "balance", <<{"silent", "balance"}, {"balance"}>>),
  Config({1}, 70, "silent", <<{"silent"}, {}>>)}

\* Every curve of up to three points, every temperature around them.
MaxTemp == 6
Points == (1..(MaxTemp - 1)) \X {0, 8, 25, 100}
CurvesOfThree == {c \in UNION {[1..n -> Points] : n \in 1..3} : ValidCurve(c)}

-----------------------------------------------------------------------------
F == INSTANCE Fand

ASSUME LoopParameters == F!FandParameters

ofF == <<duty, readable, file, override, hup, term, cfg, last_pwm, at, todo, profile,
         faulty, driven, trouble>>
noF ==
  /\ duty = None /\ readable = None /\ file = None /\ override = None /\ hup = None
  /\ term = None /\ cfg = None /\ last_pwm = None /\ at = None /\ todo = None
  /\ profile = None /\ faulty = None /\ driven = None /\ trouble = None

Heats == read < MaxTemp /\ read' = read + 1 /\ UNCHANGED points

FandInit ==
  /\ Init
  /\ \/ scene = "curve" /\ points \in CurvesOfThree /\ read = 0 /\ noF
     \/ scene = "zone" /\ points = None /\ read = None /\ noF
     \/ scene = "loop" /\ points = None /\ read = None /\ F!Init
  /\ scene # "zone" => curve = CHOOSE c \in Curves : TRUE

FandNext ==
  /\ UNCHANGED scene
  /\ \/ scene = "curve" /\ Heats /\ UNCHANGED <<vars, ofF>>
     \/ scene = "zone" /\ Next /\ UNCHANGED <<points, read, ofF>>
     \/ scene = "loop" /\ F!Next /\ UNCHANGED <<points, read, vars>>

FandSpec ==
  /\ FandInit /\ [][FandNext]_<<scene, points, read, vars, ofF>>
  /\ WF_vars(scene = "zone" /\ Tick) /\ WF_ofF(scene = "loop" /\ F!Daemon)

-----------------------------------------------------------------------------
\* A curve goes through its points and stays between the duties of the points around a
\* temperature, and one whose duties ascend never asks for less when it gets hotter
\* (curve.rs: interpolate()).
CurveSound ==
  scene = "curve" =>
    LET Duty(t) == Interpolate(points, t)
        \* no other point lies between this one and the temperature
        Beside(i) == \A k \in DOMAIN points :
          /\ points[i][1] < read /\ points[k][1] < read => points[k][1] <= points[i][1]
          /\ points[i][1] > read /\ points[k][1] > read => points[k][1] >= points[i][1]
    IN
    /\ \A i \in DOMAIN points : points[i][1] = read => Duty(read) = points[i][2]
    /\ \E i, j \in DOMAIN points :
         /\ Beside(i) /\ Beside(j)
         /\ points[i][2] <= Duty(read) /\ Duty(read) <= points[j][2]
    /\ (\A i \in 1..(Len(points) - 1) : points[i][2] <= points[i + 1][2])
         => Duty(read) <= Duty(read + 1)

\* The daemon believes of its fans what is so, has a curve for every zone whatever
\* profile is written, and leaves them parked (main.rs).
LoopSound == scene = "loop" => F!LoopSound

\* A zone settles (control.rs: ZoneSettles), and SIGTERM ends the daemon (main.rs).
FandSettles ==
  /\ ZoneSettles
  /\ (scene = "loop" /\ term) ~> (scene = "loop" /\ at = "stopped")
=============================================================================
