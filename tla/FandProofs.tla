------------------------------ MODULE FandProofs ------------------------------
(***************************************************************************)
(* What t6-fand's three parts keep: the controller of a zone for every      *)
(* curve, every range of temperatures and all tuning knobs, and the loop    *)
(* for any fans, duties, configurations and faults.                         *)
(***************************************************************************)
EXTENDS MCFand, WellFoundedInduction, TLAPS

-----------------------------------------------------------------------------
\* The loop over the zones (Fand).

\* The name of a phase is told apart from the others.
LEMMA Phases ==
  /\ "parking" \in F!At /\ "idle" \in F!At /\ "stepping" \in F!At /\ "leaving" \in F!At
  /\ "stopped" \in F!At
  BY DEF F!At

\* Some numbers have a least one.
LEMMA LeastIsIn ==
  ASSUME NEW some, some \subseteq Nat, some # {}
  PROVE  \E z \in some : \A y \in some : z <= y
<1> DEFINE Less == {ss \in Nat \X Nat : ss[1] < ss[2]}
<1>1. IsWellFoundedOn(Less, Nat)
  BY NatLessThanWellFounded DEF OpToRel
<1>2. PICK z \in some : \A y \in some : ~(<<y, z>> \in Less)
  <2> HIDE DEF Less
  <2> QED
    BY <1>1, WFMin
<1>3. ASSUME NEW y \in some PROVE z <= y
  <2>1. y \in Nat /\ z \in Nat
    OBVIOUS
  <2>2. ~(y < z)
    <3> SUFFICES ASSUME y < z PROVE <<y, z>> \in Less
      BY <1>2
    <3> QED
      BY <2>1
  <2> QED
    BY <2>1, <2>2
<1> QED
  BY <1>3

\* Zones that are left have a first one.
LEMMA HeadIsIn ==
  ASSUME NEW zones, zones \subseteq Nat, zones # {}
  PROVE  F!Head(zones) \in zones
  BY LeastIsIn DEF F!Head

\* While the zones are parked, and once the daemon has left, a zone that is done counts as
\* set to the fail-safe duty.
ParkedInv ==
  /\ at \in {"parking", "leaving", "stopped"} =>
       \A z \in cfg.zones : z \in todo \/ last_pwm[z] = cfg.failsafe_pwm
  /\ at = "stopped" => todo = {}

LoopInv == F!TypeOK /\ F!BelievedIsReal /\ F!ProfileHasCurves /\ ParkedInv

\* A configuration names fans, a duty, and a profile that each of its zones has a curve for.
LEMMA ConfigFacts ==
  ASSUME F!FandParameters, NEW c \in Configs
  PROVE  /\ c.zones \subseteq Fans /\ c.zones \subseteq Nat
         /\ c.failsafe_pwm \in Duties /\ c.profile \in Profiles
         /\ \A z \in c.zones : c.profile \in c.curves[z]
  BY DEF F!FandParameters

\* A write changes one fan, which has its duty or is known to be faulty.
LEMMA WriteFacts ==
  ASSUME F!TypeOK, NEW z \in Fans, NEW pwm \in Duties, NEW ok \in BOOLEAN, F!Write(z, pwm, ok)
  PROVE  /\ duty' \in [Fans -> Duties] /\ trouble' \in Nat
         /\ faulty' \subseteq driven' /\ driven' \subseteq Fans
         /\ z \in faulty' \/ (ok /\ duty'[z] = pwm)
         /\ \A y \in Fans : y # z => duty'[y] = duty[y] /\ (y \in faulty' <=> y \in faulty)
<1>1. CASE ok
  <2>1. /\ duty' = [duty EXCEPT ![z] = pwm] /\ faulty' = faulty \ {z}
        /\ driven' = driven \cup {z} /\ trouble' = trouble - 0
    BY <1>1 DEF F!Write
  <2> QED
    BY <1>1, <2>1 DEF F!TypeOK
<1>2. CASE ~ok
  <2>1. /\ duty' = [duty EXCEPT ![z] = pwm] \/ duty' = duty
        /\ faulty' = faulty \cup {z} /\ driven' = driven \cup {z}
        /\ trouble' = trouble - 1 /\ trouble > 0
    BY <1>2 DEF F!Write
  <2> QED
    BY <2>1 DEF F!TypeOK
<1> QED
  BY <1>1, <1>2

\* The type, a step of the daemon or of its machine at a time.
LEMMA TypeInit == F!FandParameters /\ F!Init => F!TypeOK
  BY Phases, ConfigFacts DEF F!FandParameters, F!Init, F!TypeOK

LEMMA ParkZoneKeeps == ASSUME F!FandParameters, LoopInv, F!ParkZone PROVE LoopInv'
<1> DEFINE z == F!Head(todo)
<1>1. cfg \in Configs /\ cfg' = cfg /\ at' = at /\ profile' = profile /\ todo \subseteq cfg.zones
  BY DEF F!ParkZone, LoopInv, F!TypeOK
<1>2. cfg.zones \subseteq Fans /\ cfg.zones \subseteq Nat /\ cfg.failsafe_pwm \in Duties
  BY <1>1, ConfigFacts
<1>3. z \in todo /\ z \in Fans
  BY <1>1, <1>2, HeadIsIn DEF F!ParkZone
<1> HIDE DEF z
<1>4. PICK ok \in BOOLEAN : F!Write(z, cfg.failsafe_pwm, ok)
  BY DEF F!ParkZone, z
<1>5. /\ duty' \in [Fans -> Duties] /\ trouble' \in Nat
      /\ faulty' \subseteq driven' /\ driven' \subseteq Fans
      /\ z \in faulty' \/ duty'[z] = cfg.failsafe_pwm
      /\ \A y \in Fans : y # z => duty'[y] = duty[y] /\ (y \in faulty' <=> y \in faulty)
  BY <1>2, <1>3, <1>4, WriteFacts DEF LoopInv
<1>6. /\ last_pwm' = [last_pwm EXCEPT ![z] = cfg.failsafe_pwm]
      /\ todo' = todo \ {z} /\ at \in {"parking", "leaving"}
  BY DEF F!ParkZone, z
<1>7. F!TypeOK'
  BY <1>1, <1>2, <1>3, <1>5, <1>6 DEF F!ParkZone, F!machine, LoopInv, F!TypeOK
<1>8. last_pwm'[z] = cfg.failsafe_pwm /\ \A y \in Fans : y # z => last_pwm'[y] = last_pwm[y]
  BY <1>3, <1>6 DEF LoopInv, F!TypeOK
<1>9. F!BelievedIsReal'
  BY <1>1, <1>2, <1>5, <1>6, <1>8 DEF LoopInv, F!BelievedIsReal
<1>10. F!ProfileHasCurves' /\ ParkedInv'
  BY <1>1, <1>2, <1>6, <1>8 DEF LoopInv, F!ProfileHasCurves, ParkedInv
<1> QED
  BY <1>7, <1>9, <1>10 DEF LoopInv

LEMMA StepZoneKeeps == ASSUME F!FandParameters, LoopInv, F!StepZone PROVE LoopInv'
<1> DEFINE z == F!Head(todo)
<1>1. /\ cfg \in Configs /\ cfg' = cfg /\ profile' = profile /\ todo \subseteq cfg.zones
      /\ at = "stepping" /\ todo # {}
  BY DEF F!StepZone, LoopInv, F!TypeOK
<1>2. cfg.zones \subseteq Fans /\ cfg.zones \subseteq Nat /\ cfg.failsafe_pwm \in Duties
  BY <1>1, ConfigFacts
<1>3. z \in todo /\ z \in Fans
  BY <1>1, <1>2, HeadIsIn
<1> HIDE DEF z
<1>4. PICK pwm \in Duties :
        \/ /\ pwm = last_pwm[z]
           /\ todo' = todo \ {z}
           /\ UNCHANGED <<duty, last_pwm, at, F!history>>
        \/ \E ok \in BOOLEAN :
             /\ F!Write(z, pwm, ok)
             /\ last_pwm' = IF ok THEN [last_pwm EXCEPT ![z] = pwm] ELSE last_pwm
             /\ todo' = IF ok THEN todo \ {z} ELSE {}
             /\ at' = IF ok THEN at ELSE "idle"
  BY <1>2 DEF F!StepZone, z
<1>5. CASE /\ todo' = todo \ {z}
           /\ UNCHANGED <<duty, last_pwm, at, F!history>>
  <2>1. F!TypeOK'
    BY <1>1, <1>5 DEF F!StepZone, F!machine, F!history, LoopInv, F!TypeOK
  <2> QED
    BY <1>1, <1>5, <2>1
    DEF LoopInv, F!BelievedIsReal, F!ProfileHasCurves, ParkedInv, F!history
<1>6. ASSUME NEW ok \in BOOLEAN,
             F!Write(z, pwm, ok),
             last_pwm' = IF ok THEN [last_pwm EXCEPT ![z] = pwm] ELSE last_pwm,
             todo' = IF ok THEN todo \ {z} ELSE {},
             at' = IF ok THEN at ELSE "idle"
      PROVE  LoopInv'
  <2>1. /\ duty' \in [Fans -> Duties] /\ trouble' \in Nat
        /\ faulty' \subseteq driven' /\ driven' \subseteq Fans
        /\ z \in faulty' \/ (ok /\ duty'[z] = pwm)
        /\ \A y \in Fans : y # z => duty'[y] = duty[y] /\ (y \in faulty' <=> y \in faulty)
    BY <1>3, <1>6, WriteFacts DEF LoopInv
  <2>2. CASE ok
    <3>1. last_pwm' = [last_pwm EXCEPT ![z] = pwm] /\ todo' = todo \ {z} /\ at' = at
      BY <1>6, <2>2
    <3>2. F!TypeOK'
      BY <1>1, <1>3, <2>1, <3>1 DEF F!StepZone, F!machine, LoopInv, F!TypeOK
    <3>3. last_pwm'[z] = pwm /\ \A y \in Fans : y # z => last_pwm'[y] = last_pwm[y]
      BY <1>3, <3>1 DEF LoopInv, F!TypeOK
    <3>4. F!BelievedIsReal'
      BY <1>1, <1>2, <2>1, <3>1, <3>3 DEF LoopInv, F!BelievedIsReal
    <3>5. F!ProfileHasCurves' /\ ParkedInv'
      BY <1>1, <3>1 DEF LoopInv, F!ProfileHasCurves, ParkedInv
    <3> QED
      BY <3>2, <3>4, <3>5 DEF LoopInv
  <2>3. CASE ~ok
    <3>1. last_pwm' = last_pwm /\ todo' = {} /\ at' = "idle" /\ z \in faulty'
      BY <1>6, <2>1, <2>3
    <3>2. F!TypeOK'
      BY <1>1, <1>3, <2>1, <3>1, Phases DEF F!StepZone, F!machine, LoopInv, F!TypeOK
    <3>3. F!BelievedIsReal'
      BY <1>1, <1>2, <2>1, <3>1 DEF LoopInv, F!BelievedIsReal
    <3>4. F!ProfileHasCurves' /\ ParkedInv'
      BY <3>1 DEF F!ProfileHasCurves, ParkedInv
    <3> QED
      BY <3>2, <3>3, <3>4 DEF LoopInv
  <2> QED
    BY <2>2, <2>3
<1> QED
  BY <1>4, <1>5, <1>6

LEMMA ReloadKeeps == ASSUME F!FandParameters, LoopInv, F!Reload PROVE LoopInv'
<1>1. CASE /\ cfg' = file
           /\ last_pwm' = [z \in Fans |-> IF z \in file.zones THEN file.failsafe_pwm ELSE 0]
           /\ at' = "parking"
           /\ todo' = file.zones
  <2>1. file \in Configs /\ file.zones \subseteq Fans /\ file.failsafe_pwm \in Duties
    BY ConfigFacts DEF LoopInv, F!TypeOK
  <2>2. last_pwm' \in [Fans -> Duties \cup {0}]
    BY <1>1, <2>1
  <2>3. F!TypeOK'
    BY <1>1, <2>1, <2>2, Phases DEF F!Reload, F!history, LoopInv, F!TypeOK
  <2> QED
    BY <1>1, <2>3 DEF LoopInv, F!BelievedIsReal, F!ProfileHasCurves, ParkedInv
<1>2. CASE UNCHANGED <<F!daemon, at, todo>>
  <2>1. F!TypeOK'
    BY <1>2 DEF F!Reload, F!daemon, F!history, LoopInv, F!TypeOK
  <2> QED
    BY <1>2, <2>1
    DEF F!Reload, F!daemon, F!history, LoopInv, F!BelievedIsReal, F!ProfileHasCurves, ParkedInv
<1> QED
  BY <1>1, <1>2 DEF F!Reload

\* The profile of a step is one that every zone has a curve for.
LEMMA BeginStepKeeps == ASSUME F!FandParameters, LoopInv, F!BeginStep PROVE LoopInv'
<1>1. /\ at = "idle" /\ at' = "stepping" /\ todo' = cfg.zones /\ profile' = F!ActiveProfile
      /\ duty' = duty /\ cfg' = cfg /\ last_pwm' = last_pwm /\ faulty' = faulty
  BY DEF F!BeginStep, F!daemon, F!history
<1>2. cfg \in Configs /\ cfg.profile \in Profiles /\ \A z \in cfg.zones : cfg.profile \in cfg.curves[z]
  BY ConfigFacts DEF LoopInv, F!TypeOK
<1>3. F!ActiveProfile \in Profiles /\ \A z \in cfg.zones : F!ActiveProfile \in cfg.curves[z]
  BY <1>2 DEF F!ActiveProfile, LoopInv, F!TypeOK
<1>4. F!TypeOK'
  BY <1>1, <1>3, Phases DEF F!BeginStep, F!machine, F!daemon, F!history, LoopInv, F!TypeOK
<1>5. F!BelievedIsReal'
  BY <1>1 DEF LoopInv, F!BelievedIsReal
<1>6. F!ProfileHasCurves' /\ ParkedInv'
  BY <1>1, <1>3 DEF F!ProfileHasCurves, ParkedInv
<1> QED
  BY <1>4, <1>5, <1>6 DEF LoopInv

LEMMA PhaseKeeps == ASSUME F!FandParameters, LoopInv, F!Parked \/ F!Leave \/ F!EndStep PROVE LoopInv'
<1>1. /\ duty' = duty /\ cfg' = cfg /\ last_pwm' = last_pwm /\ faulty' = faulty
      /\ profile' = profile
  BY DEF F!Parked, F!Leave, F!EndStep, F!machine, F!daemon, F!history
<1>2. F!TypeOK'
  BY Phases DEF F!Parked, F!Leave, F!EndStep, F!machine, F!daemon, F!history, LoopInv, F!TypeOK
<1>3. F!BelievedIsReal' /\ F!ProfileHasCurves' /\ ParkedInv'
  <2>1. CASE F!Parked
    BY <1>1, <2>1 DEF F!Parked, LoopInv, F!BelievedIsReal, F!ProfileHasCurves, ParkedInv
  <2>2. CASE F!Leave
    BY <1>1, <2>2 DEF F!Leave, LoopInv, F!BelievedIsReal, F!ProfileHasCurves, ParkedInv
  <2>3. CASE F!EndStep
    BY <1>1, <2>3 DEF F!EndStep, LoopInv, F!BelievedIsReal, F!ProfileHasCurves, ParkedInv
  <2> QED
    BY <2>1, <2>2, <2>3
<1> QED
  BY <1>2, <1>3 DEF LoopInv

LEMMA MachineKeeps ==
  ASSUME F!FandParameters, LoopInv, F!Sensors \/ F!Edit \/ F!Override \/ F!Hup \/ F!Term \/ UNCHANGED F!vars
  PROVE  LoopInv'
<1>1. UNCHANGED <<duty, cfg, last_pwm, at, todo, profile, faulty, driven, trouble>>
  BY DEF F!Sensors, F!Edit, F!Override, F!Hup, F!Term, F!vars, F!daemon, F!loop, F!history
<1>2. F!TypeOK'
  BY <1>1 DEF F!Sensors, F!Edit, F!Override, F!Hup, F!Term, F!vars, F!machine, LoopInv, F!TypeOK
<1> QED
  BY <1>1, <1>2 DEF LoopInv, F!BelievedIsReal, F!ProfileHasCurves, ParkedInv

LEMMA LoopBegins == F!FandParameters /\ F!Init => LoopInv
  BY TypeInit DEF F!Init, LoopInv, F!BelievedIsReal, F!ProfileHasCurves, ParkedInv

LEMMA LoopKeeps == F!FandParameters /\ LoopInv /\ [F!Next]_F!vars => LoopInv'
  BY ParkZoneKeeps, StepZoneKeeps, ReloadKeeps, BeginStepKeeps, PhaseKeeps, MachineKeeps
  DEF F!Next, F!Daemon

LEMMA LoopIsKept == LoopInv => F!LoopSound
  BY DEF LoopInv, F!BelievedIsReal, ParkedInv, F!LeavesParked, F!LoopSound

\* Over faults, edits, reloads and overrides in any order, what the daemon believes of a
\* fan is so unless its last access failed, every zone has a curve for the profile of a
\* step, and a daemon that has left parked its fans (main.rs).
THEOREM LoopIsSound == F!Spec => []F!LoopSound
  BY LoopParameters, LoopBegins, LoopKeeps, LoopIsKept, PTL DEF F!Spec

-----------------------------------------------------------------------------
\* The reading of a curve (FandCurve).

\* What does not fall from one to the next falls nowhere.
LEMMA Ascends ==
  ASSUME NEW n \in Nat, NEW f, \A i \in 1..n : f[i] \in Int,
         \A i \in 1..(n - 1) : f[i] <= f[i + 1]
  PROVE  \A i, j \in 1..n : i <= j => f[i] <= f[j]
<1> DEFINE Bad == {j \in 1..n : \E i \in 1..j : ~(f[i] <= f[j])}
<1> SUFFICES ASSUME Bad # {} PROVE FALSE
  OBVIOUS
<1>1. PICK j \in Bad : \A y \in Bad : j <= y
  <2>1. Bad \subseteq Nat
    OBVIOUS
  <2> HIDE DEF Bad
  <2> QED
    BY <2>1, LeastIsIn
<1>2. PICK i \in 1..j : ~(f[i] <= f[j])
  OBVIOUS
<1>3. i < j /\ j - 1 \in 1..n /\ i \in 1..(j - 1) /\ j \in 1..n /\ i \in 1..n
  BY <1>2
<1>4. ~(j - 1 \in Bad)
  BY <1>1, <1>3
<1>5. f[i] <= f[j - 1]
  BY <1>3, <1>4
<1>6. f[j - 1] <= f[j]
  <2>1. j - 1 \in 1..(n - 1) /\ (j - 1) + 1 = j
    BY <1>3
  <2> QED
    BY <2>1
<1> QED
  BY <1>2, <1>3, <1>5, <1>6

\* A curve as the loader lets it through, with whole degrees.
Curve(ps) == ps \in Seq(Int \X Int) /\ ValidCurve(ps)

LEMMA CurveFacts ==
  ASSUME NEW ps, Curve(ps)
  PROVE  /\ Len(ps) \in Nat \ {0} /\ DOMAIN ps = 1..Len(ps)
         /\ \A i \in 1..Len(ps) : ps[i][1] \in Int /\ ps[i][2] \in Int
         /\ \A i, j \in 1..Len(ps) : i < j => ps[i][1] < ps[j][1]
<1>1. Len(ps) \in Nat \ {0} /\ DOMAIN ps = 1..Len(ps)
  BY DEF Curve, ValidCurve
<1>2. \A i \in 1..Len(ps) : ps[i] \in Int \X Int
  BY <1>1 DEF Curve
<1>3. \A i \in 1..Len(ps) : ps[i][1] \in Int /\ ps[i][2] \in Int
  BY <1>2
<1> DEFINE n == Len(ps)
           f == [i \in 1..n |-> ps[i][1] - i]
<1>4. \A i \in 1..n : f[i] = ps[i][1] - i /\ f[i] \in Int
  BY <1>3
<1>5. ASSUME NEW i \in 1..(n - 1) PROVE f[i] <= f[i + 1]
  <2>1. i \in 1..n /\ i + 1 \in 1..n /\ ps[i][1] < ps[i + 1][1]
    BY <1>1 DEF Curve, ValidCurve
  <2> HIDE DEF f
  <2> QED
    BY <2>1, <1>3, <1>4
<1>6. n \in Nat
  BY <1>1
<1> HIDE DEF f, n
<1>7. \A i, j \in 1..n : i <= j => f[i] <= f[j]
  BY <1>4, <1>5, <1>6, Ascends
<1>8. ASSUME NEW i \in 1..n, NEW j \in 1..n, i < j PROVE ps[i][1] < ps[j][1]
  <2>1. f[i] <= f[j] /\ f[i] = ps[i][1] - i /\ f[j] = ps[j][1] - j
    BY <1>4, <1>7, <1>8, <1>6
  <2> QED
    BY <2>1, <1>3, <1>6, <1>8 DEF n
<1> QED
  BY <1>1, <1>3, <1>8 DEF n

\* A temperature between the first and the last point lies in a segment.
LEMMA SegmentIs ==
  ASSUME NEW ps, Curve(ps), NEW t \in Int, ps[1][1] < t, t < ps[Len(ps)][1]
  PROVE  LET s == Segment(ps, t) IN
         /\ s \in 1..(Len(ps) - 1) /\ s \in 1..Len(ps) /\ s + 1 \in 1..Len(ps)
         /\ ps[s][1] < t /\ t <= ps[s + 1][1]
<1> DEFINE n == Len(ps)
           Upto == {i \in 1..(n - 1) : t <= ps[i + 1][1]}
           Is(i) == /\ ps[i][1] <= t /\ t <= ps[i + 1][1]
                    /\ \A j \in 1..(i - 1) : t > ps[j + 1][1]
<1>1. /\ n \in Nat \ {0}
      /\ \A i \in 1..n : ps[i][1] \in Int
  BY CurveFacts
<1> HIDE DEF n
<1>2. n # 1
  BY <1>1 DEF n
<1>3. n - 1 \in Upto
  BY <1>1, <1>2 DEF n
<1>4. PICK i \in Upto : \A y \in Upto : i <= y
  <2>1. Upto \subseteq Nat /\ Upto # {}
    BY <1>3
  <2> QED
    BY <2>1, LeastIsIn
<1>5. ASSUME NEW j \in 1..(i - 1) PROVE t > ps[j + 1][1]
  <2>1. j \in 1..(n - 1) /\ j + 1 \in 1..n /\ ~(j \in Upto)
    BY <1>1, <1>4
  <2> QED
    BY <2>1, <1>1
<1>6. ps[i][1] < t
  <2>1. CASE i = 1
    BY <2>1
  <2>2. CASE i # 1
    <3>1. i - 1 \in 1..(i - 1) /\ (i - 1) + 1 = i
      BY <1>1, <1>4, <2>2
    <3> QED
      BY <3>1, <1>5
  <2> QED
    BY <2>1, <2>2
<1>7. i \in 1..(n - 1) /\ Is(i)
  BY <1>1, <1>4, <1>5, <1>6
<1>8. Segment(ps, t) \in 1..(n - 1) /\ Is(Segment(ps, t))
  BY <1>7 DEF Segment, n
<1> DEFINE s == Segment(ps, t)
<1> HIDE DEF s
<1>9. ps[s][1] < t
  <2>1. s \in 1..(n - 1) /\ \A j \in 1..(s - 1) : t > ps[j + 1][1]
    BY <1>8 DEF s
  <2>2. CASE s = 1
    BY <2>2
  <2>3. CASE s # 1
    <3>1. s - 1 \in 1..(s - 1) /\ (s - 1) + 1 = s
      BY <1>1, <2>1, <2>3
    <3>2. t > ps[s][1]
      BY <2>1, <3>1
    <3> QED
      BY <1>1, <2>1, <3>2
  <2> QED
    BY <2>2, <2>3
<1> QED
  BY <1>1, <1>8, <1>9 DEF s, n

\* What rounding down does.
LEMMA Quotient ==
  ASSUME NEW k \in Nat \ {0}, NEW x \in Int
  PROVE  /\ x \div k \in Int
         /\ \A y \in Int : x <= y => x \div k <= y \div k
         /\ \A z \in Int : z * k <= x => z <= x \div k
         /\ \A z \in Int : x <= z * k => x \div k <= z
<1>1. x \div k \in Int
  OBVIOUS
<1>2. ASSUME NEW y \in Int, x <= y PROVE x \div k <= y \div k
  BY <1>2
<1>3. ASSUME NEW z \in Int, z * k <= x PROVE z <= x \div k
  BY <1>3
<1>4. ASSUME NEW z \in Int, x <= z * k PROVE x \div k <= z
  BY <1>4
<1> QED
  BY <1>1, <1>2, <1>3, <1>4

\* The way from one duty to another, at a part of it.
Way(a, b, into, length) == a + ((b - a) * into) \div length

\* It ends where it should, and stays between.
LEMMA WayBetween ==
  ASSUME NEW a \in Int, NEW b \in Int, NEW length \in Nat \ {0}, NEW into \in 1..length
  PROVE  /\ Way(a, b, into, length) \in Int
         /\ into = length => Way(a, b, into, length) = b
         /\ a <= b => a <= Way(a, b, into, length) /\ Way(a, b, into, length) <= b
         /\ b <= a => b <= Way(a, b, into, length) /\ Way(a, b, into, length) <= a
<1> DEFINE e == b - a
           x == e * into
<1>1. e \in Int /\ x \in Int /\ into \in Nat /\ length \in Nat \ {0} /\ into <= length
  OBVIOUS
<1>2. Way(a, b, into, length) = a + x \div length
  BY DEF Way
<1>3. e = b - a
  OBVIOUS
<1>4. e >= 0 => 0 * length <= x /\ x <= e * length
  BY <1>1
<1>5. e <= 0 => e * length <= x /\ x <= 0 * length
  BY <1>1
<1>6. into = length => e * length <= x /\ x <= e * length
  BY <1>1
<1> HIDE DEF e, x
<1>7. x \div length \in Int
  BY <1>1, Quotient
<1>8. e >= 0 => 0 <= x \div length /\ x \div length <= e
  BY <1>1, <1>4, Quotient
<1>9. e <= 0 => e <= x \div length /\ x \div length <= 0
  BY <1>1, <1>5, Quotient
<1>10. into = length => x \div length = e
  BY <1>1, <1>6, <1>7, Quotient
<1> QED
  BY <1>1, <1>2, <1>3, <1>7, <1>8, <1>9, <1>10

\* A way up goes up.
LEMMA WayRises ==
  ASSUME NEW a \in Int, NEW b \in Int, a <= b, NEW length \in Nat \ {0},
         NEW into \in 1..length, NEW more \in into..length
  PROVE  Way(a, b, into, length) <= Way(a, b, more, length)
<1> DEFINE x == (b - a) * into
           y == (b - a) * more
<1>1. x \in Int /\ y \in Int /\ x <= y
  OBVIOUS
<1>2. Way(a, b, into, length) = a + x \div length /\ Way(a, b, more, length) = a + y \div length
  BY DEF Way
<1> HIDE DEF x, y
<1>3. x \div length <= y \div length /\ x \div length \in Int /\ y \div length \in Int
  BY <1>1, Quotient
<1> QED
  BY <1>2, <1>3

\* What interpolate() returns before, behind and between the points.
LEMMA Interpolates ==
  ASSUME NEW ps, Curve(ps), NEW t \in Int
  PROVE  /\ t <= ps[1][1] => Interpolate(ps, t) = ps[1][2]
         /\ t > ps[1][1] /\ t >= ps[Len(ps)][1] => Interpolate(ps, t) = ps[Len(ps)][2]
         /\ t > ps[1][1] /\ t < ps[Len(ps)][1] =>
              LET s == Segment(ps, t) IN
              /\ Interpolate(ps, t) = Way(ps[s][2], ps[s + 1][2], t - ps[s][1], ps[s + 1][1] - ps[s][1])
              /\ t - ps[s][1] \in 1..(ps[s + 1][1] - ps[s][1])
              /\ ps[s + 1][1] - ps[s][1] \in Nat \ {0}
<1>1. /\ Len(ps) \in Nat \ {0} /\ 1 \in 1..Len(ps) /\ Len(ps) \in 1..Len(ps)
      /\ \A i \in 1..Len(ps) : ps[i][1] \in Int /\ ps[i][2] \in Int
  BY CurveFacts
<1>2. t <= ps[1][1] => Interpolate(ps, t) = ps[1][2]
  BY DEF Interpolate
<1>3. t > ps[1][1] => ~(t <= ps[1][1])
  BY <1>1
<1>4. t > ps[1][1] /\ t >= ps[Len(ps)][1] => Interpolate(ps, t) = ps[Len(ps)][2]
  BY <1>3 DEF Interpolate
<1>5. ASSUME t > ps[1][1], t < ps[Len(ps)][1]
      PROVE  LET s == Segment(ps, t) IN
             /\ Interpolate(ps, t) = Way(ps[s][2], ps[s + 1][2], t - ps[s][1], ps[s + 1][1] - ps[s][1])
             /\ t - ps[s][1] \in 1..(ps[s + 1][1] - ps[s][1])
             /\ ps[s + 1][1] - ps[s][1] \in Nat \ {0}
  <2> DEFINE s == Segment(ps, t)
  <2>1. ps[1][1] < t /\ ~(t <= ps[1][1]) /\ ~(t >= ps[Len(ps)][1])
    BY <1>1, <1>5
  <2>2. /\ s \in 1..Len(ps) /\ s + 1 \in 1..Len(ps)
        /\ ps[s][1] < t /\ t <= ps[s + 1][1]
    BY <1>5, <2>1, SegmentIs
  <2>3. Interpolate(ps, t) = Way(ps[s][2], ps[s + 1][2], t - ps[s][1], ps[s + 1][1] - ps[s][1])
    BY <2>1 DEF Interpolate, Way
  <2> HIDE DEF s
  <2>4. ps[s][1] \in Int /\ ps[s + 1][1] \in Int
    BY <1>1, <2>2
  <2>5. /\ t - ps[s][1] \in 1..(ps[s + 1][1] - ps[s][1])
        /\ ps[s + 1][1] - ps[s][1] \in Nat \ {0}
    BY <2>2, <2>4
  <2> QED
    BY <2>3, <2>5 DEF s
<1> QED
  BY <1>2, <1>4, <1>5

\* No point lies between this one and a temperature.
Beside(ps, t, i) ==
  \A k \in DOMAIN ps : /\ ps[i][1] < t /\ ps[k][1] < t => ps[k][1] <= ps[i][1]
                       /\ ps[i][1] > t /\ ps[k][1] > t => ps[k][1] >= ps[i][1]

\* A curve goes through its points, and between those beside a temperature.
THEOREM CurvePasses ==
  ASSUME NEW ps, Curve(ps), NEW t \in Int
  PROVE  /\ Interpolate(ps, t) \in Int
         /\ \A i \in DOMAIN ps : ps[i][1] = t => Interpolate(ps, t) = ps[i][2]
         /\ \E i, j \in DOMAIN ps : /\ Beside(ps, t, i) /\ Beside(ps, t, j)
                                    /\ ps[i][2] <= Interpolate(ps, t)
                                    /\ Interpolate(ps, t) <= ps[j][2]
<1> DEFINE n == Len(ps)
<1>1. /\ n \in Nat \ {0} /\ 1 \in 1..n /\ n \in 1..n /\ DOMAIN ps = 1..n
      /\ \A i \in 1..n : ps[i][1] \in Int /\ ps[i][2] \in Int
      /\ \A i, j \in 1..n : i < j => ps[i][1] < ps[j][1]
  BY CurveFacts
<1>2. \A i, j \in 1..n : i <= j => ps[i][1] <= ps[j][1]
  BY <1>1
<1>3. CASE t <= ps[1][1]
  <2>1. Interpolate(ps, t) = ps[1][2]
    BY <1>3, Interpolates
  <2>2. \A i \in 1..n : ps[i][1] = t => i = 1
    BY <1>1, <1>3
  <2>3. Beside(ps, t, 1)
    BY <1>1, <1>2, <1>3 DEF Beside
  <2> QED
    BY <1>1, <2>1, <2>2, <2>3
<1>4. CASE t > ps[1][1] /\ t >= ps[n][1]
  <2>1. Interpolate(ps, t) = ps[n][2]
    BY <1>4, Interpolates
  <2>2. ASSUME NEW i \in 1..n, ps[i][1] = t PROVE i = n
    <3>1. ~(ps[i][1] < ps[n][1])
      <4>1. ps[i][1] \in Int /\ ps[n][1] \in Int /\ t >= ps[n][1]
        BY <1>1, <1>4
      <4> QED
        BY <2>2, <4>1
    <3>2. ~(i < n)
      BY <1>1, <3>1
    <3>3. n \in Nat
      BY <1>1
    <3> HIDE DEF n
    <3> QED
      BY <3>2, <3>3
  <2>3. Beside(ps, t, n)
    BY <1>1, <1>2, <1>4 DEF Beside
  <2>4. n \in DOMAIN ps /\ ps[n][2] \in Int
    BY <1>1
  <2>5. \A i \in DOMAIN ps : ps[i][1] = t => Interpolate(ps, t) = ps[i][2]
    BY <1>1, <2>1, <2>2
  <2> HIDE DEF n
  <2> QED
    BY <2>1, <2>3, <2>4, <2>5
<1>5. CASE t > ps[1][1] /\ t < ps[n][1]
  <2> DEFINE s == Segment(ps, t)
             into == t - ps[s][1]
             length == ps[s + 1][1] - ps[s][1]
             duty1 == Interpolate(ps, t)
  <2>1. /\ s \in Int /\ s \in 1..n /\ s + 1 \in 1..n /\ ps[s][1] < t /\ t <= ps[s + 1][1]
    BY <1>1, <1>5, SegmentIs
  <2>2. /\ duty1 = Way(ps[s][2], ps[s + 1][2], into, length)
        /\ into \in 1..length /\ length \in Nat \ {0}
    BY <1>5, Interpolates
  <2>3. into = length <=> t = ps[s + 1][1]
    BY <1>1, <2>1
  <2> DEFINE a == ps[s][2]
             b == ps[s + 1][2]
  <2> HIDE DEF s, into, length, duty1
  <2>4. a \in Int /\ b \in Int
    BY <1>1, <2>1
  <2> HIDE DEF a, b
  <2>5. /\ duty1 \in Int
        /\ t = ps[s + 1][1] => duty1 = b
        /\ \/ a <= duty1 /\ duty1 <= b
           \/ b <= duty1 /\ duty1 <= a
    <3>1. duty1 = Way(a, b, into, length)
      BY <2>2 DEF a, b
    <3>2. /\ Way(a, b, into, length) \in Int
          /\ into = length => Way(a, b, into, length) = b
          /\ a <= b => a <= Way(a, b, into, length) /\ Way(a, b, into, length) <= b
          /\ b <= a => b <= Way(a, b, into, length) /\ Way(a, b, into, length) <= a
      BY <2>2, <2>4, WayBetween
    <3> QED
      BY <2>3, <2>4, <3>1, <3>2
  <2>6. ASSUME NEW i \in 1..n PROVE (ps[i][1] < t /\ i <= s) \/ (ps[i][1] >= t /\ i >= s + 1)
    <3>1. i <= s \/ i >= s + 1
      BY <2>1
    <3>2. i <= s => ps[i][1] <= ps[s][1]
      BY <1>2, <2>1
    <3>3. i >= s + 1 => ps[i][1] >= ps[s + 1][1]
      BY <1>2, <2>1
    <3>4. ps[i][1] \in Int /\ ps[s][1] \in Int /\ ps[s + 1][1] \in Int
      BY <1>1, <2>1
    <3> QED
      BY <2>1, <3>1, <3>2, <3>3, <3>4
  <2>7. ASSUME NEW i \in 1..n, ps[i][1] = t PROVE duty1 = ps[i][2]
    <3>1. i >= s + 1 /\ ps[s + 1][1] <= ps[i][1]
      BY <1>1, <1>2, <2>1, <2>6, <2>7
    <3>2. ps[s + 1][1] = t /\ ~(s + 1 < i)
      BY <1>1, <2>1, <2>7, <3>1
    <3>3. i = s + 1
      BY <2>1, <3>1, <3>2
    <3> QED
      BY <2>5, <3>2, <3>3 DEF b
  <2>8. Beside(ps, t, s) /\ Beside(ps, t, s + 1)
    BY <1>1, <1>2, <2>1, <2>6 DEF Beside
  <2> QED
    BY <1>1, <2>1, <2>5, <2>7, <2>8 DEF duty1, a, b
<1> QED
  BY <1>1, <1>3, <1>4, <1>5

\* A curve whose duties ascend never asks for less when it gets hotter.
THEOREM CurveAscends ==
  ASSUME NEW ps, Curve(ps), NEW t \in Int, NEW u \in Int, t <= u,
         \A i \in 1..(Len(ps) - 1) : ps[i][2] <= ps[i + 1][2]
  PROVE  Interpolate(ps, t) <= Interpolate(ps, u)
<1> DEFINE n == Len(ps)
           f == [i \in 1..n |-> ps[i][2]]
<1>1. /\ n \in Nat \ {0} /\ 1 \in 1..n /\ n \in 1..n /\ DOMAIN ps = 1..n
      /\ \A i \in 1..n : ps[i][1] \in Int /\ ps[i][2] \in Int
      /\ \A i, j \in 1..n : i < j => ps[i][1] < ps[j][1]
  BY CurveFacts
<1>2. \A i, j \in 1..n : i <= j => ps[i][2] <= ps[j][2]
  <2>1. \A i \in 1..n : f[i] = ps[i][2] /\ f[i] \in Int
    BY <1>1
  <2>2. ASSUME NEW i \in 1..(n - 1) PROVE f[i] <= f[i + 1]
    <3>1. i \in 1..n /\ i + 1 \in 1..n
      BY <1>1
    <3> QED
      BY <3>1
  <2> HIDE DEF f
  <2>3. \A i, j \in 1..n : i <= j => f[i] <= f[j]
    BY <1>1, <2>1, <2>2, Ascends
  <2> QED
    BY <2>1, <2>3
<1> HIDE DEF f
<1>3. \A i \in 1..n : ps[1][2] <= ps[i][2] /\ ps[i][2] <= ps[n][2]
  BY <1>1, <1>2
<1>4. ASSUME NEW v \in Int
      PROVE  /\ Interpolate(ps, v) \in Int
             /\ ps[1][2] <= Interpolate(ps, v) /\ Interpolate(ps, v) <= ps[n][2]
  <2>1. PICK i \in 1..n, j \in 1..n : ps[i][2] <= Interpolate(ps, v) /\ Interpolate(ps, v) <= ps[j][2]
    BY <1>1, CurvePasses
  <2>2. Interpolate(ps, v) \in Int
    BY CurvePasses
  <2> QED
    BY <1>1, <1>3, <2>1, <2>2
<1>5. CASE t <= ps[1][1]
  BY <1>4, <1>5, Interpolates
<1>6. CASE u > ps[1][1] /\ u >= ps[n][1]
  BY <1>4, <1>6, Interpolates
<1>7. CASE t > ps[1][1] /\ u < ps[n][1]
  <2> DEFINE s == Segment(ps, t)
             r == Segment(ps, u)
  <2>1. u > ps[1][1] /\ t < ps[n][1]
    BY <1>1, <1>7
  <2>2. /\ s \in 1..n /\ s + 1 \in 1..n /\ ps[s][1] < t /\ t <= ps[s + 1][1]
        /\ r \in 1..n /\ r + 1 \in 1..n /\ ps[r][1] < u /\ u <= ps[r + 1][1]
    BY <1>1, <1>7, <2>1, SegmentIs
  <2>3. /\ Interpolate(ps, t) = Way(ps[s][2], ps[s + 1][2], t - ps[s][1], ps[s + 1][1] - ps[s][1])
        /\ t - ps[s][1] \in 1..(ps[s + 1][1] - ps[s][1])
        /\ ps[s + 1][1] - ps[s][1] \in Nat \ {0}
    BY <1>7, <2>1, Interpolates
  <2>4. /\ Interpolate(ps, u) = Way(ps[r][2], ps[r + 1][2], u - ps[r][1], ps[r + 1][1] - ps[r][1])
        /\ u - ps[r][1] \in 1..(ps[r + 1][1] - ps[r][1])
        /\ ps[r + 1][1] - ps[r][1] \in Nat \ {0}
    BY <1>7, <2>1, Interpolates
  <2> HIDE DEF s, r
  <2>5. /\ ps[s][2] \in Int /\ ps[s + 1][2] \in Int /\ ps[r][2] \in Int /\ ps[r + 1][2] \in Int
        /\ ps[s][1] \in Int /\ ps[s + 1][1] \in Int /\ ps[r][1] \in Int /\ ps[r + 1][1] \in Int
        /\ ps[s][2] <= ps[s + 1][2] /\ ps[r][2] <= ps[r + 1][2]
    BY <1>1, <1>2, <2>2
  <2>6. CASE s = r
    <3> DEFINE a == ps[s][2]
               b == ps[s + 1][2]
               into == t - ps[s][1]
               more == u - ps[s][1]
               length == ps[s + 1][1] - ps[s][1]
    <3>1. more \in into..length /\ a \in Int /\ b \in Int /\ a <= b
      BY <2>2, <2>5, <2>6
    <3>2. /\ Interpolate(ps, t) = Way(a, b, into, length) /\ into \in 1..length
          /\ Interpolate(ps, u) = Way(a, b, more, length) /\ length \in Nat \ {0}
      BY <2>3, <2>4, <2>6
    <3> HIDE DEF a, b, into, more, length
    <3> QED
      BY <3>1, <3>2, WayRises
  <2>7. CASE s < r
    <3>1. Interpolate(ps, t) <= ps[s + 1][2]
      <4> DEFINE a == ps[s][2]
                 b == ps[s + 1][2]
                 into == t - ps[s][1]
                 length == ps[s + 1][1] - ps[s][1]
      <4>1. a \in Int /\ b \in Int /\ a <= b
        BY <2>5
      <4>2. Interpolate(ps, t) = Way(a, b, into, length) /\ into \in 1..length /\ length \in Nat \ {0}
        BY <2>3
      <4> HIDE DEF a, b, into, length
      <4>3. Interpolate(ps, t) <= b
        <5>1. Way(a, b, into, length) <= b
          BY <4>1, <4>2, WayBetween
        <5> QED
          BY <4>2, <5>1
      <4> QED
        BY <4>3 DEF b
    <3>2. ps[r][2] <= Interpolate(ps, u)
      <4> DEFINE a == ps[r][2]
                 b == ps[r + 1][2]
                 into == u - ps[r][1]
                 length == ps[r + 1][1] - ps[r][1]
      <4>1. a \in Int /\ b \in Int /\ a <= b
        BY <2>5
      <4>2. Interpolate(ps, u) = Way(a, b, into, length) /\ into \in 1..length /\ length \in Nat \ {0}
        BY <2>4
      <4> HIDE DEF a, b, into, length
      <4>3. a <= Interpolate(ps, u)
        <5>1. a <= Way(a, b, into, length)
          BY <4>1, <4>2, WayBetween
        <5> QED
          BY <4>2, <5>1
      <4> QED
        BY <4>3 DEF a
    <3>3. ps[s + 1][2] <= ps[r][2]
      BY <1>1, <1>2, <2>2, <2>7
    <3> QED
      <4>1. Interpolate(ps, t) \in Int /\ Interpolate(ps, u) \in Int
        BY <1>4
      <4> QED
        BY <2>5, <3>1, <3>2, <3>3, <4>1
  <2>8. CASE r < s
    <3>1. ps[r + 1][1] <= ps[s][1]
      <4>1. r + 1 = s \/ r + 1 < s
        BY <1>1, <2>2, <2>8
      <4> QED
        BY <1>1, <2>2, <2>5, <4>1
    <3> QED
      BY <2>2, <2>5, <3>1
  <2> QED
    BY <1>1, <2>2, <2>6, <2>7, <2>8
<1> QED
  BY <1>1, <1>5, <1>6, <1>7

-----------------------------------------------------------------------------
\* The controller of a zone (FandZone).

USE ZoneParameters DEF Percent

\* The curve's duty is no duty below the floor.
LEMMA TargetPercent ==
  ASSUME curve \in Curves, NEW t \in Temps
  PROVE  /\ Target(curve, t) \in Percent
         /\ Target(curve, t) = 0 \/ Target(curve, t) >= min_pwm
<1>1. curve[t] \in Percent
  OBVIOUS
<1> QED
  BY <1>1 DEF Target, Max2

\* What is common to the ways of a step: the filtered temperature t, the duty
\* wanted and the one held, and the anchor.
Chosen(t, wanted, target, a) ==
  /\ t \in Temps /\ filtered' = t
  /\ wanted = Target(curve, t)
  /\ target = IF Held(wanted, t) THEN output ELSE wanted
  /\ a = Anchor(wanted, t)

LEMMA StepChooses ==
  ASSUME TypeOK, NEW reading \in Temps, NEW r \in Rpms, NEW dt \in Dts,
         ControlStep(reading, r, dt)
  PROVE  \E t, wanted, target, a :
           /\ Chosen(t, wanted, target, a)
           /\ Emergency(reading, dt) => t = reading
           /\ hot_secs' = Hot(reading, dt)
           /\ \/ Start(target, a) \/ Kick(target, a, dt) \/ Recover(target, a, r)
              \/ Ramp(target, a, t, r, reading, dt)
<1>1. Filter(reading) \subseteq Temps
  BY DEF Filter
<1> QED
  BY <1>1 DEF ControlStep, Chosen

LEMMA ChosenFacts ==
  ASSUME TypeOK, FloorKept, NEW t, NEW wanted, NEW target, NEW a, Chosen(t, wanted, target, a)
  PROVE  /\ target \in Percent
         /\ target = 0 \/ target >= min_pwm
         /\ a \in Temps \cup {None}
         /\ target > output => a = t
         /\ target < output => a = None /\ (anchor = None \/ t <= anchor - hysteresis)
         /\ target = output => a = anchor
<1>1. wanted \in Percent /\ (wanted = 0 \/ wanted >= min_pwm)
  BY TargetPercent DEF Chosen, TypeOK
<1>2. target \in Percent /\ (target = 0 \/ target >= min_pwm)
  BY <1>1 DEF Chosen, TypeOK, FloorKept
<1>3. a \in Temps \cup {None}
  BY DEF Chosen, Anchor, TypeOK
<1>4. CASE Held(wanted, t)
  BY <1>1, <1>2, <1>3, <1>4 DEF Chosen, Anchor, Held, TypeOK
<1>5. CASE ~Held(wanted, t)
  BY <1>1, <1>2, <1>3, <1>5 DEF Chosen, Anchor, Held, TypeOK
<1> QED
  BY <1>4, <1>5

\* What every step of the controller preserves and promises, whichever way it
\* takes.
Good ==
  /\ output' \in Percent /\ (output' = 0 \/ output' >= min_pwm)
  /\ kick_left' \in 0..kick_secs /\ zero_rpm_cycles' \in 0..2
  /\ anchor' \in Temps \cup {None}
  /\ rise' \in Temps \cup {None} /\ low' \in Temps \cup {None}
  /\ rise' # None => low' # None /\ (anchor' = rise' \/ low' <= rise' - hysteresis)
  /\ output' < output => rise' = None \/ (low' # None /\ low' <= rise' - hysteresis)

LEMMA StartGood ==
  ASSUME IInv, NEW t, NEW wanted, NEW target, NEW a, Chosen(t, wanted, target, a),
         Start(target, a)
  PROVE  Good
BY ChosenFacts DEF IInv, Start, Good, Max2, TypeOK

LEMMA KickGood ==
  ASSUME IInv, NEW t, NEW wanted, NEW target, NEW a, Chosen(t, wanted, target, a),
         NEW dt \in Dts, Kick(target, a, dt)
  PROVE  Good
<1>1. kick_left' \in 0..kick_secs
  BY DEF IInv, Kick, Max2, TypeOK
<1> QED
  BY <1>1, ChosenFacts DEF IInv, Kick, Good, Max2, TypeOK, FloorKept

LEMMA RecoverGood ==
  ASSUME IInv, NEW t, NEW wanted, NEW target, NEW a, Chosen(t, wanted, target, a),
         NEW r \in Rpms, Recover(target, a, r)
  PROVE  Good
<1>1. output > 0 /\ output >= min_pwm
  BY DEF Recover, Stalled, Counted
<1> QED
  BY <1>1, ChosenFacts DEF IInv, Recover, Good, Max2, TypeOK, FloorKept

LEMMA RampGood ==
  ASSUME IInv, NEW t, NEW wanted, NEW target, NEW a, Chosen(t, wanted, target, a),
         NEW r \in Rpms, NEW reading \in Temps, NEW dt \in Dts, Ramp(target, a, t, r, reading, dt)
  PROVE  Good
<1>1. zero_rpm_cycles' \in 0..2
  BY DEF IInv, Ramp, Stalled, Zeros, TypeOK
<1>2. /\ target \in Percent /\ (target = 0 \/ target >= min_pwm)
      /\ a \in Temps \cup {None} /\ t \in Temps /\ output \in Percent
  BY ChosenFacts DEF IInv, Chosen, TypeOK
<1>3. CASE target > output
  <2>1. PICK rate \in Nat \ {0} : Next0(target, reading, dt) = Min2(output + rate * dt, target)
    BY <1>3 DEF Next0
  <2>2. rate * dt \in Nat \ {0}
    OBVIOUS
  <2>3. Next0(target, reading, dt) \in Percent /\ Next0(target, reading, dt) > output
    BY <1>2, <1>3, <2>1, <2>2 DEF Min2
  <2>4. output > 0
    BY <1>2, <1>3 DEF Ramp
  <2>5. output' = Next0(target, reading, dt)
    BY <1>2, <1>3 DEF Ramp, Snap
  <2>6. output' >= min_pwm
    BY <1>2, <2>3, <2>4, <2>5 DEF IInv, FloorKept
  <2>7. rise' = t /\ low' = t /\ anchor' = t
    BY <1>2, <1>3, <2>3, <2>5, ChosenFacts DEF Ramp, IInv
  <2> QED
    BY <1>1, <1>2, <2>3, <2>5, <2>6, <2>7 DEF IInv, Good, Ramp, TypeOK
<1>4. CASE target <= output
  <2>1. ramp_down * dt \in Nat
    OBVIOUS
  <2>2. Next0(target, reading, dt) = Max2(output - ramp_down * dt, target)
    BY <1>2, <1>4 DEF Next0
  <2>3. /\ Next0(target, reading, dt) \in Percent
        /\ target <= Next0(target, reading, dt)
        /\ Next0(target, reading, dt) <= output
    BY <1>2, <1>4, <2>1, <2>2 DEF Max2
  <2>4. output' \in Percent /\ (output' = 0 \/ output' >= min_pwm) /\ output' <= output
    BY <1>2, <2>3 DEF Ramp, Snap
  <2>5. /\ rise' = rise
        /\ low' = IF low = None THEN None ELSE Min2(low, t)
        /\ anchor' = a
    BY <1>2, <2>4 DEF Ramp
  <2>6. low' \in Temps \cup {None} /\ (low # None => low' # None /\ low' <= low /\ low' <= t)
    BY <1>2, <2>5 DEF IInv, TypeOK, Min2
  <2>7. CASE target = output
    <3>1. anchor' = anchor
      BY <2>5, <2>7, ChosenFacts DEF IInv
    <3>2. output' = output
      BY <1>2, <2>3, <2>7 DEF Ramp, Snap, IInv, FloorKept
    <3> QED
      BY <1>1, <1>2, <2>4, <2>5, <2>6, <3>1, <3>2 DEF IInv, Good, Ramp, TypeOK, AnchorInv
  <2>8. CASE target < output
    <3>1. a = None /\ (anchor = None \/ t <= anchor - hysteresis)
      BY <2>8, ChosenFacts DEF IInv
    <3>2. rise # None => low' # None /\ low' <= rise - hysteresis
      BY <1>2, <2>6, <3>1 DEF IInv, TypeOK, AnchorInv
    <3> QED
      BY <1>1, <1>2, <2>4, <2>5, <2>6, <3>1, <3>2 DEF IInv, Good, Ramp, TypeOK
  <2> QED
    BY <1>2, <1>4, <2>7, <2>8
<1> QED
  BY <1>2, <1>3, <1>4

LEMMA StepGood ==
  ASSUME IInv, NEW reading \in Temps, NEW r \in Rpms, NEW dt \in Dts,
         ControlStep(reading, r, dt)
  PROVE  Good /\ filtered' \in Temps /\ hot_secs' \in 0..emergency_secs
<1>1. PICK t, wanted, target, a :
        /\ Chosen(t, wanted, target, a)
        /\ hot_secs' = Hot(reading, dt)
        /\ \/ Start(target, a) \/ Kick(target, a, dt) \/ Recover(target, a, r)
           \/ Ramp(target, a, t, r, reading, dt)
  BY StepChooses DEF IInv
<1>2. Good
  BY <1>1, StartGood, KickGood, RecoverGood, RampGood
<1>3. hot_secs' \in 0..emergency_secs
  BY <1>1 DEF Hot, Min2, IInv, TypeOK
<1> QED
  BY <1>1, <1>2, <1>3 DEF Chosen

\* The fail-safe duty is one the fan runs at.
LEMMA ForceGood == IInv /\ ForceDuty => Good /\ filtered' = filtered /\ hot_secs' \in 0..emergency_secs
<1> SUFFICES ASSUME IInv, ForceDuty
             PROVE  Good /\ filtered' = filtered /\ hot_secs' \in 0..emergency_secs
  OBVIOUS
<1>1. kick_left' \in 0..kick_secs /\ hot_secs' \in 0..emergency_secs
  BY DEF ForceDuty
<1> QED
  BY <1>1 DEF ForceDuty, Good

LEMMA InductiveStep == IInv /\ [Next]_vars => IInv'
<1> SUFFICES ASSUME IInv, [Next]_vars PROVE IInv'
  OBVIOUS
<1>1. ASSUME NEW reading \in Temps \cup {None}, NEW r \in Rpms, NEW dt \in Dts,
             Control(reading, r, dt)
      PROVE  IInv'
  <2>1. Good /\ filtered' \in Temps \cup {None} /\ hot_secs' \in 0..emergency_secs
    <3>1. CASE reading = None
      BY <1>1, <3>1, ForceGood DEF Control, IInv, TypeOK
    <3>2. CASE reading # None
      BY <1>1, <3>2, StepGood DEF Control
    <3> QED
      BY <3>1, <3>2
  <2>2. temp' \in Temps \cup {None} /\ rpm' \in Rpms /\ curve' \in Curves
    BY <1>1 DEF Control, IInv, TypeOK
  <2> QED
    BY <2>1, <2>2 DEF Good, IInv, TypeOK, FloorKept, AnchorInv
<1>2. CASE SetProfile
  BY <1>2 DEF SetProfile, ctl, IInv, TypeOK, FloorKept, AnchorInv
<1>3. CASE UNCHANGED vars
  BY <1>3 DEF vars, ctl, IInv, TypeOK, FloorKept, AnchorInv
<1> QED
  BY <1>1, <1>2, <1>3 DEF Next, Tick

LEMMA ZoneBegins == Init => IInv
  BY DEF Init, IInv, TypeOK, FloorKept, AnchorInv, Rpms

LEMMA Inductive == Spec => []IInv
  BY ZoneBegins, InductiveStep, PTL DEF Spec

\* Every variable keeps its type, for all parameters.
THEOREM TypeCorrect == Spec => []TypeOK
BY Inductive, PTL DEF IInv

\* The fan stands still or runs at its floor at least, whatever the curves, the
\* ramps and the kick.
THEOREM KeepsFloor == Spec => []FloorKept
BY Inductive, PTL DEF IInv

\* While the temperature has raised the duty, the reference of the hysteresis and
\* the lowest reading since are known.
THEOREM KeepsAnchor == Spec => []AnchorInv
BY Inductive, PTL DEF IInv

\* A step of the controller does not flap.
LEMMA FlapStep == IInv /\ [Next]_vars => [NotFlapping]_vars
<1> SUFFICES ASSUME IInv, [Next]_vars, temp' # None, output' < output
             PROVE  rise' = None \/ (low' # None /\ low' <= rise' - hysteresis)
  BY DEF NotFlapping
<1>1. output \in Int
  BY DEF IInv, TypeOK
<1>2. PICK reading \in Temps \cup {None}, r \in Rpms, dt \in Dts : Control(reading, r, dt)
  BY <1>1 DEF Next, Tick, SetProfile, ctl, vars
<1>3. reading # None /\ ControlStep(reading, r, dt)
  BY <1>2 DEF Control
<1> QED
  BY <1>2, <1>3, StepGood DEF Good

\* A duty the temperature raised comes down only after the temperature has
\* fallen by the hysteresis.
THEOREM DoesNotFlap == Spec => NoFlapping
BY FlapStep, Inductive, PTL DEF Spec, NoFlapping

\* Nor does it slow the fan down in sustained heat.
LEMMA RiseStep == IInv /\ [Next]_vars => [Rising]_vars
<1> SUFFICES ASSUME IInv, [Next]_vars, temp' # None, temp' >= emergency_temp,
                    hot_secs' = emergency_secs, rpm' # "zero", UNCHANGED curve, ~UNCHANGED vars
             PROVE  output' >= Min2(Target(curve, temp'), output + emergency_ramp)
  BY DEF Rising
<1>1. PICK reading \in Temps \cup {None}, r \in Rpms, dt \in Dts : Control(reading, r, dt)
  BY DEF Next, Tick, SetProfile, vars
<1>2. /\ reading = temp' /\ reading \in Temps /\ r = rpm'
      /\ ControlStep(reading, r, dt)
  BY <1>1 DEF Control
<1>3. PICK t, wanted, target, a :
        /\ Chosen(t, wanted, target, a)
        /\ Emergency(reading, dt) => t = reading
        /\ hot_secs' = Hot(reading, dt)
        /\ \/ Start(target, a) \/ Kick(target, a, dt) \/ Recover(target, a, r)
           \/ Ramp(target, a, t, r, reading, dt)
  BY <1>2, StepChooses DEF IInv
<1>4. Emergency(reading, dt) /\ t = reading
  BY <1>2, <1>3 DEF Emergency
<1>5. /\ wanted = Target(curve, reading) /\ wanted \in Percent
      /\ target \in Percent /\ target >= wanted /\ output \in Percent
      /\ wanted = 0 \/ wanted >= min_pwm
  BY <1>2, <1>3, <1>4, TargetPercent DEF Chosen, Held, IInv, TypeOK
<1>6. CASE Start(target, a) \/ Kick(target, a, dt)
  BY <1>2, <1>5, <1>6 DEF Start, Kick, Max2, Min2
<1>7. ~Recover(target, a, r)
  BY <1>2 DEF Recover, Stalled, Zeros, IInv, TypeOK
<1>8. CASE Ramp(target, a, t, r, reading, dt)
  <2>1. output' = Snap(target, Next0(target, reading, dt))
    BY <1>8 DEF Ramp
  <2>2. CASE target > output
    <3>1. Next0(target, reading, dt) = Min2(output + emergency_ramp * dt, target)
      BY <1>4, <2>2 DEF Next0
    <3>2. emergency_ramp * dt >= emergency_ramp /\ emergency_ramp * dt \in Nat
      OBVIOUS
    <3>3. target # 0
      BY <1>5, <2>2
    <3> QED
      BY <1>2, <1>5, <2>1, <2>2, <3>1, <3>2, <3>3 DEF Snap, Min2
  <2>3. CASE target <= output
    <3>1. ramp_down * dt \in Nat
      OBVIOUS
    <3>2. Next0(target, reading, dt) = Max2(output - ramp_down * dt, target)
      BY <1>5, <2>3 DEF Next0
    <3> QED
      BY <1>2, <1>5, <2>1, <2>3, <3>1, <3>2 DEF Snap, Max2, Min2
  <2> QED
    BY <1>5, <2>2, <2>3
<1> QED
  BY <1>3, <1>6, <1>7, <1>8

\* In an emergency every step raises the duty by the ramp of emergencies, or to
\* what the curve asks for.
THEOREM RisesInEmergency == Spec => EmergencyRises
BY RiseStep, Inductive, PTL DEF Spec, EmergencyRises

\* What no step of the controller does: slow the fan down before the temperature fell
\* by the hysteresis, or in sustained heat.
THEOREM StepsSoundly == Spec => ZoneSteps
<1>1. [NotFlapping]_vars /\ [Rising]_vars => [NotFlapping /\ Rising]_vars
  OBVIOUS
<1> QED
  BY <1>1, DoesNotFlap, RisesInEmergency, PTL DEF NoFlapping, EmergencyRises, ZoneSteps

-----------------------------------------------------------------------------
\* All of it: what each of the three keeps, it keeps beside the others.
FandInv ==
  /\ IInv
  /\ scene = "curve" => Curve(points) /\ read \in Int
  /\ scene = "loop" => LoopInv

LEMMA SomeCurves == \A c \in CurvesOfThree : Curve(c)
<1> SUFFICES ASSUME NEW c \in CurvesOfThree PROVE Curve(c)
  OBVIOUS
<1>1. ValidCurve(c) /\ \E n \in 1..3 : c \in [1..n -> Points]
  BY DEF CurvesOfThree
<1>2. PICK n \in 1..3 : c \in [1..n -> Points]
  BY <1>1
<1>3. Points \subseteq Int \X Int
  BY DEF Points, MaxTemp
<1>4. c \in [1..n -> Int \X Int] /\ n \in Nat
  BY <1>2, <1>3
<1>5. c \in Seq(Int \X Int)
  BY <1>4
<1> QED
  BY <1>1, <1>5 DEF Curve

LEMMA FandBegins == FandInit => FandInv
<1> SUFFICES ASSUME FandInit PROVE FandInv
  OBVIOUS
<1>1. IInv
  BY ZoneBegins DEF FandInit
<1>2. scene = "curve" => Curve(points) /\ read \in Int
  BY SomeCurves DEF FandInit
<1>3. scene = "loop" => LoopInv
  BY LoopParameters, LoopBegins DEF FandInit
<1> QED
  BY <1>1, <1>2, <1>3 DEF FandInv

\* A step of one leaves the scene and the variables of the others alone.
LEMMA FandSteps ==
  ASSUME [FandNext]_<<scene, points, read, vars, ofF>>
  PROVE  /\ scene' = scene /\ [Next]_vars
         /\ scene = "curve" => points' = points /\ (read' = read \/ read' = read + 1)
         /\ scene = "loop" => [F!Next]_F!vars
<1>1. CASE UNCHANGED <<scene, points, read, vars, ofF>>
  <2>1. UNCHANGED F!vars
    BY <1>1 DEF ofF, F!vars, F!machine, F!daemon, F!loop, F!history
  <2> QED
    BY <1>1, <2>1
<1>2. CASE FandNext
  BY <1>2 DEF FandNext, Heats
<1> QED
  BY <1>1, <1>2

LEMMA FandKeeps ==
  ASSUME FandInv, [FandNext]_<<scene, points, read, vars, ofF>>
  PROVE  FandInv' /\ [NotFlapping /\ Rising]_vars
<1>1. IInv' /\ [NotFlapping /\ Rising]_vars
  BY FandSteps, InductiveStep, FlapStep, RiseStep DEF FandInv
<1>2. scene' = "curve" => Curve(points)' /\ read' \in Int
  BY FandSteps DEF FandInv, Curve
<1>3. scene' = "loop" => LoopInv'
  BY FandSteps, LoopParameters, LoopKeeps DEF FandInv
<1> QED
  BY <1>1, <1>2, <1>3 DEF FandInv

LEMMA ReadsSoundly == FandInv => CurveSound
<1> SUFFICES ASSUME FandInv, scene = "curve" PROVE CurveSound
  BY DEF CurveSound
<1>1. Curve(points) /\ read \in Int /\ read + 1 \in Int /\ read <= read + 1
  BY DEF FandInv
<1>2. /\ \A i \in DOMAIN points : points[i][1] = read => Interpolate(points, read) = points[i][2]
      /\ \E i, j \in DOMAIN points :
           /\ Beside(points, read, i) /\ Beside(points, read, j)
           /\ points[i][2] <= Interpolate(points, read)
           /\ Interpolate(points, read) <= points[j][2]
  BY <1>1, CurvePasses
<1>3. (\A i \in 1..(Len(points) - 1) : points[i][2] <= points[i + 1][2])
        => Interpolate(points, read) <= Interpolate(points, read + 1)
  BY <1>1, CurveAscends
<1> QED
  BY <1>2, <1>3 DEF CurveSound, Beside

\* A fan stands still or runs at its floor at least, however its zone is controlled, and
\* no step slows it down too early or in sustained heat (curve.rs, step()); a curve goes
\* through its points, stays between its neighbours' duties and never falls while its
\* duties ascend (curve.rs, interpolate()); the daemon believes of its fans what is so, has
\* a curve for every zone and leaves them parked (main.rs).
THEOREM FandIsSound ==
  FandSpec => [](FloorKept /\ CurveSound /\ LoopSound) /\ ZoneSteps
<1>1. FandInit => FandInv
  BY FandBegins
<1>2. FandInv /\ [FandNext]_<<scene, points, read, vars, ofF>>
        => FandInv' /\ [NotFlapping /\ Rising]_vars
  BY FandKeeps
<1>3. FandInv => FloorKept /\ CurveSound /\ LoopSound
  BY ReadsSoundly, LoopIsKept DEF FandInv, IInv, LoopSound
<1> QED
  BY <1>1, <1>2, <1>3, PTL DEF FandSpec, ZoneSteps

\* What a curve makes of a temperature (curve.rs, interpolate()), for every curve that a
\* configuration may hold.
COROLLARY CurveIsSound == FandSpec => []CurveSound
BY FandIsSound, PTL
=============================================================================
