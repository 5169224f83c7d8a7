----------------------------- MODULE LeddProofs -----------------------------
(***************************************************************************)
(* Proofs about Ledd: the bank is honest and the configuration in force is  *)
(* the file's, for every set of configurations and any number of failures.  *)
(***************************************************************************)
EXTENDS Ledd, TLAPS

\* What the bank's memory b says of the lit LEDs h is so.
Honest(b, h) == \A l \in Leds : b[l] # "unknown" => (l \in h <=> b[l] = "on")

Memory == [Leds -> {"on", "off", "unknown"}]

IInv == TypeOK /\ BankHonest /\ InForce

-----------------------------------------------------------------------------
\* The writes W done before the first failure keep the memory honest: of two LEDs
\* of which one can be lit, the old one is switched off before the new one.
LEMMA WritesKeepHonest ==
  ASSUME dev \in Kinds, NEW b \in Memory, NEW on \in Colours, Honest(b, hw),
         NEW W \in SUBSET Due(b, on),
         W = Due(b, on) \/ \E l \in Due(b, on) : W = Before(b, on, l)
  PROVE  /\ Recorded(b, on, W) \in Memory
         /\ Lit(on, W) \subseteq hw \cup Leds
         /\ Honest(Recorded(b, on, W), Lit(on, W))
<1>1. on \subseteq Leds /\ Leds \subseteq 1..3
  BY DEF Colours, Leds, Kinds
<1>2. W \subseteq Leds
  BY DEF Due
<1>3. Recorded(b, on, W) \in Memory
  BY DEF Recorded, Memory, Want
<1>4. Lit(on, W) \subseteq hw \cup Leds
  BY <1>1 DEF Lit
<1>5. SUFFICES ASSUME NEW l \in Leds, Recorded(b, on, W)[l] # "unknown"
               PROVE  l \in Lit(on, W) <=> Recorded(b, on, W)[l] = "on"
  BY <1>3, <1>4 DEF Honest
<1>6. Recorded(b, on, W)[l] = IF l \in W THEN Want(on, l) ELSE b[l]
  BY DEF Recorded
<1>7. CASE dev \in {"bay", "power"} /\ W \cap on # {}
  <2>1. PICK x \in 1..2 : on = {x}
    BY <1>7 DEF Colours
  <2>2. Lit(on, W) = {x} /\ x \in W
    BY <1>7, <2>1 DEF Lit
  <2>3. CASE l \in W
    BY <1>6, <2>1, <2>2, <2>3 DEF Want
  <2>4. CASE l \notin W
    <3>1. l # x /\ l \notin on
      BY <2>1, <2>2, <2>4
    <3>2. W = Due(b, on)
      <4>1. SUFFICES ASSUME NEW k \in Due(b, on), W = Before(b, on, k) PROVE FALSE
        OBVIOUS
      <4>2. Rank(on, x) < Rank(on, k) /\ Rank(on, x) = x + 3
        BY <4>1, <2>1, <2>2 DEF Before, Rank
      <4>3. k \in 1..2 /\ k # x
        BY <1>7, <4>2 DEF Due, Leds
      <4> QED
        BY <4>2, <4>3, <2>1 DEF Rank
    <3>3. b[l] = Want(on, l)
      BY <3>2, <2>4 DEF Due
    <3> QED
      BY <1>6, <2>2, <2>4, <3>1, <3>3 DEF Want
  <2> QED
    BY <2>3, <2>4
<1>8. CASE ~(dev \in {"bay", "power"} /\ W \cap on # {})
  <2>1. Lit(on, W) = (hw \ (W \ on)) \cup (W \cap on)
    BY <1>8 DEF Lit
  <2>2. CASE l \in W
    BY <1>6, <2>1, <2>2 DEF Want
  <2>3. CASE l \notin W
    BY <1>5, <1>6, <2>1, <2>3 DEF Honest
  <2> QED
    BY <2>2, <2>3
<1> QED
  BY <1>7, <1>8

\* set() leaves an honest bank, or says that a failed write reached an LED.
LEMMA SetKeepsHonest ==
  ASSUME dev \in Kinds, hw \subseteq Leds, NEW b \in Memory, NEW on \in Colours,
         NEW seen \in BOOLEAN, trouble \in Nat,
         ~seen => Honest(b, hw), Set(b, on, seen)
  PROVE  /\ believed' \in Memory /\ hw' \subseteq Leds
         /\ missed' \in BOOLEAN /\ trouble' \in Nat
         /\ ~missed' => Honest(believed', hw')
<1>1. on \subseteq Leds
  BY DEF Colours, Leds, Kinds
<1>2. \A W \in SUBSET Leds : Lit(on, W) \subseteq Leds /\ Recorded(b, on, W) \in Memory
  BY <1>1 DEF Lit, Recorded, Memory, Want
<1>3. Due(b, on) \subseteq Leds /\ \A l : Before(b, on, l) \subseteq Due(b, on)
  BY DEF Due, Before
<1>4. CASE /\ hw' = Lit(on, Due(b, on))
           /\ believed' = Recorded(b, on, Due(b, on))
           /\ missed' = seen /\ trouble' = trouble
  BY <1>2, <1>3, <1>4, WritesKeepHonest
<1>5. ASSUME NEW l \in Due(b, on), NEW landed \in BOOLEAN,
             trouble > 0, trouble' = trouble - 1,
             hw' = Lit(on, Before(b, on, l) \cup (IF landed THEN {l} ELSE {})),
             believed' = Recorded(b, on, Before(b, on, l)),
             missed' = (seen \/ landed)
      PROVE  /\ believed' \in Memory /\ hw' \subseteq Leds
             /\ missed' \in BOOLEAN /\ trouble' \in Nat
             /\ ~missed' => Honest(believed', hw')
  <2>1. believed' \in Memory /\ hw' \subseteq Leds
    BY <1>2, <1>3, <1>5
  <2>2. missed' \in BOOLEAN /\ trouble' \in Nat
    BY <1>5
  <2>3. ASSUME ~missed' PROVE Honest(believed', hw')
    <3>1. ~seen /\ ~landed
      BY <1>5, <2>3
    <3>2. hw' = Lit(on, Before(b, on, l))
      BY <1>5, <3>1
    <3> QED
      BY <1>3, <1>5, <3>1, <3>2, WritesKeepHonest
  <2> QED
    BY <2>1, <2>2, <2>3
<1> QED
  BY <1>4, <1>5 DEF Set

-----------------------------------------------------------------------------
\* A plan shows colours of the device, and every configuration has settings.
LEMMA EvaluateType ==
  ASSUME dev \in Kinds, NEW c
  PROVE  Evaluate(c) \in [leds : Colours, blinks : BOOLEAN]
<1>1. /\ White \in Colours /\ Red \in Colours /\ {} \in Colours
      /\ dev = "status" => Blue \in Colours /\ Yellow \in Colours
  BY DEF White, Red, Blue, Yellow, Colours, Leds, Kinds
<1>2. \A x \in Colours : /\ Solid(x) \in [leds : Colours, blinks : BOOLEAN]
                         /\ Blink(x) \in [leds : Colours, blinks : BOOLEAN]
  BY DEF Solid, Blink
<1>3. Off \in [leds : Colours, blinks : BOOLEAN]
  BY <1>1, <1>2 DEF Off
<1>4. dev = "bay" => BayEffect(c) \in [leds : Colours, blinks : BOOLEAN]
  BY <1>1, <1>2, <1>3 DEF BayEffect
<1>5. dev = "power" => PowerEffect(c) \in [leds : Colours, blinks : BOOLEAN]
  BY <1>1, <1>2, <1>3 DEF PowerEffect
<1>6. dev = "status" => StatusEffect(c) \in [leds : Colours, blinks : BOOLEAN]
  BY <1>1, <1>2, <1>3 DEF StatusEffect
<1> QED
  BY <1>1, <1>2, <1>3, <1>4, <1>5, <1>6 DEF Evaluate, Kinds

LEMMA DefaultsType ==
  ASSUME dev \in Kinds
  PROVE  /\ Default \in Settings /\ Default.mode \in Modes
         /\ Empty \in Settings /\ Empty.mode \in Modes
         /\ Off \in [leds : Colours, blinks : BOOLEAN]
         /\ Unknown \in Memory /\ \A h : Honest(Unknown, h)
         /\ Red \subseteq Leds
<1>1. Empty \in Settings /\ Empty.mode \in Modes
  BY DEF Empty, Settings, Modes, Kinds
<1>2. Default \in Settings /\ Default.mode \in Modes
  BY <1>1 DEF Default, Empty, Settings, Modes, Kinds
<1>3. Off \in [leds : Colours, blinks : BOOLEAN]
  BY DEF Off, Solid, Colours
<1>4. Unknown \in Memory /\ \A h : Honest(Unknown, h)
  BY DEF Unknown, Memory, Honest
<1>5. Red \subseteq Leds
  BY DEF Red, Leds, Kinds
<1> QED
  BY <1>1, <1>2, <1>3, <1>4, <1>5

LEMMA ValidType ==
  ASSUME NEW c \in Valid
  PROVE  c \in Settings /\ c.mode \in Modes /\ c # Broken
BY LeddParameters DEF Valid

-----------------------------------------------------------------------------
\* The part of the invariant that is about the LEDs and the bank.
LedsOK == /\ hw \subseteq Leds /\ believed \in Memory
          /\ missed \in BOOLEAN /\ trouble \in Nat

\* The part that is about the rest.
WorldOK ==
  /\ dev \in Kinds
  /\ situation \in {"alarm", "news", "normal"} /\ window \in BOOLEAN
  /\ file # Broken => file \in Settings /\ file.mode \in Modes
  /\ drift \in BOOLEAN
DaemonOK ==
  /\ cfg \in Settings /\ cfg.mode \in Modes /\ config_error \in BOOLEAN
  /\ plan \in [leds : Colours, blinks : BOOLEAN]
  /\ at \in {"down", "loop"}

LEMMA TypeParts == TypeOK <=> WorldOK /\ DaemonOK /\ LedsOK
BY DEF TypeOK, WorldOK, DaemonOK, LedsOK, Memory

LEMMA SetStep ==
  ASSUME dev \in Kinds, dev' = dev, hw \subseteq Leds, NEW b \in Memory, NEW on \in Colours,
         NEW seen \in BOOLEAN, trouble \in Nat,
         ~seen => Honest(b, hw), Set(b, on, seen)
  PROVE  LedsOK' /\ BankHonest'
<1>1. Leds' = Leds /\ Memory' = Memory
  BY DEF Leds, Memory
<1>2. /\ believed' \in Memory /\ hw' \subseteq Leds
      /\ missed' \in BOOLEAN /\ trouble' \in Nat
      /\ ~missed' => Honest(believed', hw')
  BY SetKeepsHonest
<1>3. LedsOK'
  BY <1>1, <1>2 DEF LedsOK
<1>4. BankHonest'
  BY <1>1, <1>2 DEF BankHonest, Honest
<1> QED
  BY <1>3, <1>4

LEMMA RenderStep ==
  ASSUME dev \in Kinds, dev' = dev, hw \subseteq Leds, NEW b \in Memory,
         NEW effect \in [leds : Colours, blinks : BOOLEAN], NEW lit \in BOOLEAN,
         NEW seen \in BOOLEAN, trouble \in Nat,
         ~seen => Honest(b, hw), Render(effect, lit, b, seen)
  PROVE  LedsOK' /\ BankHonest'
<1> DEFINE on == IF effect.blinks /\ ~lit THEN {} ELSE effect.leds
<1>1. on \in Colours
  BY DEF Colours
<1>2. Set(b, on, seen)
  BY DEF Render
<1> QED
  BY <1>1, <1>2, SetStep

LEMMA RefreshStep ==
  ASSUME dev \in Kinds, dev' = dev, hw \subseteq Leds, NEW b \in Memory, NEW c,
         NEW seen \in BOOLEAN, trouble \in Nat,
         ~seen => Honest(b, hw), Refresh(c, b, seen)
  PROVE  /\ LedsOK' /\ BankHonest'
         /\ plan' \in [leds : Colours', blinks : BOOLEAN]
<1>1. Evaluate(c) \in [leds : Colours, blinks : BOOLEAN]
  BY EvaluateType
<1>2. PICK lit \in BOOLEAN : Render(Evaluate(c), lit, b, seen)
  BY DEF Refresh
<1>3. LedsOK' /\ BankHonest'
  BY <1>1, <1>2, RenderStep
<1>4. Colours' = Colours
  BY DEF Colours, Leds
<1> QED
  BY <1>1, <1>3, <1>4 DEF Refresh

-----------------------------------------------------------------------------
\* The world's part of the type: only the file is written by the daemon.
LEMMA WorldSame ==
  ASSUME WorldOK, UNCHANGED world, drift' \in BOOLEAN,
         file' # Broken => file' \in Settings /\ file'.mode \in Modes
  PROVE  WorldOK' /\ Modes' = Modes /\ Colours' = Colours /\ Leds' = Leds
BY DEF WorldOK, world, Modes, Colours, Leds

LEMMA InitIInv == Init => IInv
<1> SUFFICES ASSUME Init PROVE IInv
  OBVIOUS
<1>1. dev \in Kinds
  BY DEF Init
<1>2. WorldOK
  BY <1>1, ValidType DEF Init, WorldOK
<1>3. DaemonOK
  BY <1>1, DefaultsType DEF Init, DaemonOK
<1>4. LedsOK
  BY <1>1, DefaultsType, LeddParameters DEF Init, LedsOK
<1> QED
  BY <1>2, <1>3, <1>4, TypeParts DEF Init, IInv, BankHonest, InForce

LEMMA NextIInv == IInv /\ [Next]_vars => IInv'
<1> SUFFICES ASSUME IInv, [Next]_vars PROVE IInv'
  OBVIOUS
<1> USE DEF IInv
<1>0. WorldOK /\ DaemonOK /\ LedsOK
  BY TypeParts
<1>1. dev \in Kinds /\ hw \subseteq Leds /\ trouble \in Nat /\ missed \in BOOLEAN
  BY <1>0 DEF WorldOK, LedsOK
<1>2. believed \in Memory /\ plan \in [leds : Colours, blinks : BOOLEAN]
  BY <1>0 DEF LedsOK, DaemonOK
<1>3. at = "loop" => (~missed => Honest(believed, hw))
  BY DEF BankHonest, Honest
<1>4. Unknown \in Memory /\ \A h : Honest(Unknown, h)
  BY <1>1, DefaultsType
<1>5. file # Broken => file \in Settings /\ file.mode \in Modes
  BY <1>0 DEF WorldOK
<1>6. cfg \in Settings /\ cfg.mode \in Modes /\ config_error \in BOOLEAN /\ drift \in BOOLEAN
  BY <1>0 DEF WorldOK, DaemonOK
<1>7. SUFFICES WorldOK' /\ DaemonOK' /\ LedsOK' /\ BankHonest' /\ InForce'
  <2>1. TypeOK' <=> WorldOK' /\ DaemonOK' /\ LedsOK'
    BY TypeParts, PTL
  <2> QED
    BY <2>1
<1>8. CASE Start
  <2>1. dev' = dev /\ Refresh(cfg', Unknown, FALSE) /\ at' = "loop"
    BY <1>8 DEF Start, world
  <2>2. LedsOK' /\ BankHonest' /\ plan' \in [leds : Colours', blinks : BOOLEAN]
    BY <1>1, <1>4, <2>1, RefreshStep
  <2>3. WorldOK' /\ Modes' = Modes
    BY <1>0, <1>5, <1>8, WorldSame DEF Start
  <2>4. cfg' \in Settings /\ cfg'.mode \in Modes
    BY <1>1, <1>5, <1>8, DefaultsType DEF Start
  <2>5. DaemonOK'
    BY <1>8, <2>2, <2>3, <2>4 DEF DaemonOK, Start
  <2>6. InForce'
    BY <1>8 DEF Start, InForce
  <2> QED
    BY <2>2, <2>3, <2>5, <2>6
<1>9. ASSUME NEW lit \in BOOLEAN, NEW due \in BOOLEAN, Frame(lit, due)
      PROVE  WorldOK' /\ DaemonOK' /\ LedsOK' /\ BankHonest' /\ InForce'
  <2>1. dev' = dev /\ at = "loop" /\ Render(plan, lit, believed, missed)
    BY <1>9 DEF Frame, world
  <2>2. LedsOK' /\ BankHonest'
    BY <1>1, <1>2, <1>3, <2>1, RenderStep
  <2>3. WorldOK' /\ Modes' = Modes /\ Colours' = Colours
    BY <1>0, <1>5, <1>6, <1>9, WorldSame DEF Frame
  <2>4. plan' \in [leds : Colours, blinks : BOOLEAN]
    BY <1>1, <1>2, <1>9, EvaluateType DEF Frame
  <2>5. DaemonOK'
    BY <1>0, <1>9, <2>3, <2>4 DEF DaemonOK, Frame
  <2>6. InForce'
    BY <1>9 DEF Frame, InForce
  <2> QED
    BY <2>2, <2>3, <2>5, <2>6
<1>10. CASE ScreenChanged
  <2>1. dev' = dev /\ at = "loop" /\ Refresh(cfg, believed, missed)
    BY <1>10 DEF ScreenChanged, world
  <2>2. LedsOK' /\ BankHonest' /\ plan' \in [leds : Colours', blinks : BOOLEAN]
    BY <1>1, <1>2, <1>3, <2>1, RefreshStep
  <2>3. WorldOK' /\ Modes' = Modes
    BY <1>0, <1>5, <1>6, <1>10, WorldSame DEF ScreenChanged
  <2>4. DaemonOK'
    BY <1>0, <1>10, <2>2, <2>3 DEF DaemonOK, ScreenChanged
  <2>5. InForce'
    BY <1>10 DEF ScreenChanged, InForce
  <2> QED
    BY <2>2, <2>3, <2>4, <2>5
<1>11. CASE Command
  <2>1. dev' = dev /\ at = "loop" /\ Refresh(cfg', believed, missed)
    BY <1>11 DEF Command, world
  <2>2. LedsOK' /\ BankHonest' /\ plan' \in [leds : Colours', blinks : BOOLEAN]
    BY <1>1, <1>2, <1>3, <2>1, RefreshStep
  <2>3. cfg' \in Settings /\ cfg'.mode \in Modes /\ file' = cfg' /\ drift' = FALSE
    BY <1>11, ValidType DEF Command
  <2>4. WorldOK' /\ Modes' = Modes
    BY <1>0, <1>11, <2>3, WorldSame DEF Command
  <2>5. DaemonOK'
    BY <1>0, <1>11, <2>2, <2>3, <2>4 DEF DaemonOK, Command
  <2>6. InForce'
    BY <2>3 DEF InForce
  <2> QED
    BY <2>2, <2>4, <2>5, <2>6
<1>12. CASE CommandUnsaved
  <2>1. cfg' \in Settings /\ cfg'.mode \in Modes /\ drift' = TRUE
    BY <1>12, ValidType DEF CommandUnsaved
  <2>2. file' # Broken => file' \in Settings /\ file'.mode \in Modes
    BY <1>1, <1>5, <1>12, DefaultsType DEF CommandUnsaved
  <2>3. WorldOK' /\ Modes' = Modes /\ Colours' = Colours /\ Leds' = Leds
    BY <1>0, <1>12, <2>1, <2>2, WorldSame DEF CommandUnsaved
  <2>4. DaemonOK'
    BY <1>0, <1>12, <2>1, <2>3 DEF DaemonOK, CommandUnsaved
  <2>5. LedsOK' /\ BankHonest'
    BY <1>0, <1>12, <2>3 DEF LedsOK, Memory, BankHonest, CommandUnsaved
  <2> QED
    BY <2>1, <2>3, <2>4, <2>5 DEF InForce
<1>13. CASE Reload
  <2>1. WorldOK' /\ Modes' = Modes /\ Colours' = Colours /\ Leds' = Leds
    BY <1>0, <1>5, <1>13, WorldSame DEF Reload
  <2>2. CASE file = Broken
    <3>1. DaemonOK' /\ InForce'
      BY <1>0, <1>13, <2>1, <2>2 DEF DaemonOK, InForce, Reload
    <3>2. LedsOK' /\ BankHonest'
      BY <1>0, <1>13, <2>1, <2>2 DEF LedsOK, Memory, BankHonest, Reload, leds
    <3> QED
      BY <2>1, <3>1, <3>2
  <2>3. CASE file # Broken
    <3>1. dev' = dev /\ cfg' = file /\ Refresh(file, Unknown, FALSE)
      BY <1>13, <2>3 DEF Reload, world
    <3>2. LedsOK' /\ BankHonest' /\ plan' \in [leds : Colours', blinks : BOOLEAN]
      BY <1>1, <1>4, <3>1, RefreshStep
    <3>3. DaemonOK' /\ InForce'
      BY <1>0, <1>5, <1>13, <2>1, <2>3, <3>1, <3>2 DEF DaemonOK, InForce, Reload
    <3> QED
      BY <2>1, <3>2, <3>3
  <2> QED
    BY <2>2, <2>3
<1>14. CASE Term
  <2>1. dev' = dev /\ at = "loop" /\ at' = "down"
    BY <1>14 DEF Term, world
  <2>2. PICK colour \in Colours : Set(believed, colour, missed)
    <3>1. {} \in Colours /\ White \in Colours /\ plan.leds \in Colours
      BY <1>1, <1>2 DEF White, Colours, Leds, Kinds
    <3> QED
      BY <1>1, <1>14, <3>1 DEF Term, Kinds
  <2>3. LedsOK' /\ BankHonest'
    BY <1>1, <1>2, <1>3, <2>1, <2>2, SetStep
  <2>4. WorldOK' /\ Modes' = Modes /\ Colours' = Colours
    BY <1>0, <1>5, <1>6, <1>14, WorldSame DEF Term
  <2>5. DaemonOK' /\ InForce'
    BY <1>1, <1>14, <2>4, DefaultsType DEF Term, Forgotten, DaemonOK, InForce
  <2> QED
    BY <2>3, <2>4, <2>5
<1>15. CASE Kill
  <2>1. file' # Broken => file' \in Settings /\ file'.mode \in Modes
    BY <1>1, <1>5, <1>15, DefaultsType DEF Kill
  <2>2. WorldOK' /\ Modes' = Modes /\ Colours' = Colours /\ Leds' = Leds
    BY <1>0, <1>6, <1>15, <2>1, WorldSame DEF Kill
  <2>3. DaemonOK' /\ InForce' /\ BankHonest'
    BY <1>1, <1>15, <2>2, DefaultsType DEF Kill, Forgotten, DaemonOK, InForce, BankHonest
  <2>4. LedsOK'
    <3>1. trouble' \in Nat
      BY <1>1, <1>15 DEF Kill
    <3>2. believed' = Unknown /\ hw' = hw /\ missed' = FALSE
      BY <1>15 DEF Kill
    <3>3. Memory' = Memory
      BY <2>2 DEF Memory
    <3> QED
      BY <1>1, <1>4, <2>2, <3>1, <3>2, <3>3 DEF LedsOK
  <2> QED
    BY <2>2, <2>3, <2>4
<1>16. CASE Happens \/ Clock
  <2>1. UNCHANGED <<dev, file, drift, daemon, leds>>
    BY <1>16 DEF Happens, Clock
  <2>2. WorldOK'
    BY <1>0, <1>16, <2>1 DEF WorldOK, Happens, Clock, Modes
  <2> QED
    BY <1>0, <2>1, <2>2
    DEF DaemonOK, LedsOK, BankHonest, InForce, daemon, leds, Modes, Colours, Leds, Memory
<1>17. CASE HandEdit
  <2>1. file' # Broken => file' \in Settings /\ file'.mode \in Modes
    BY <1>17, ValidType DEF HandEdit
  <2>2. WorldOK' /\ Modes' = Modes /\ Colours' = Colours /\ Leds' = Leds
    BY <1>0, <1>17, <2>1, WorldSame DEF HandEdit
  <2> QED
    BY <1>0, <1>17, <2>2
    DEF HandEdit, DaemonOK, LedsOK, BankHonest, InForce, daemon, leds, Memory
<1>18. CASE UNCHANGED vars
  BY <1>0, <1>18
  DEF vars, world, daemon, leds, WorldOK, DaemonOK, LedsOK, BankHonest, InForce,
      Modes, Colours, Leds, Memory
<1> QED
  BY <1>8, <1>9, <1>10, <1>11, <1>12, <1>13, <1>14, <1>15, <1>16, <1>17, <1>18 DEF Next

-----------------------------------------------------------------------------
\* The invariant of t6-ledd, for every set of configurations told apart and every
\* number of failing writes.
THEOREM Invariant == Spec => []IInv
BY InitIInv, NextIInv, PTL DEF Spec

\* Every variable keeps its type: main.rs never holds a configuration, or plans a
\* colour, that the device does not offer.
THEOREM TypeCorrect == Spec => []TypeOK
<1>1. IInv => TypeOK
  BY DEF IInv
<1> QED
  BY <1>1, Invariant, PTL

\* The bank of leds.rs is honest: only a failed write that reached an LED makes it
\* believe what is not so.
THEOREM KeepsBankHonest == Spec => []BankHonest
<1>1. IInv => BankHonest
  BY DEF IInv
<1> QED
  BY <1>1, Invariant, PTL

\* What is in force without an error, an edit or a failed save is the file's
\* configuration, over commands, reloads, crashes and restarts of main.rs.
THEOREM KeepsInForce == Spec => []InForce
<1>1. IInv => InForce
  BY DEF IInv
<1> QED
  BY <1>1, Invariant, PTL

\* What the daemon remembers of its LEDs and of its file is so.
THEOREM KeepsMemory == Spec => []RemembersRight
BY KeepsBankHonest, KeepsInForce, PTL DEF RemembersRight

-----------------------------------------------------------------------------
\* After a reload the bank knows nothing, so every LED is written: if no write fails, what
\* is lit is the plan, or nothing of it in the dark half of a blink (daemon reload()).
LEMMA FreshSetShows ==
  ASSUME dev \in Kinds, hw \subseteq Leds, NEW on \in Colours, trouble \in Nat,
         Set(Unknown, on, FALSE), trouble' = trouble
  PROVE  hw' = on
<1>1. on \subseteq Leds
  BY DEF Colours, Leds, Kinds
<1>2. Due(Unknown, on) = Leds
  BY DEF Due, Unknown, Want
<1>3. hw' = Lit(on, Leds)
  <2>1. trouble' # trouble - 1
    OBVIOUS
  <2>2. hw' = Lit(on, Due(Unknown, on))
    BY <2>1 DEF Set
  <2> QED
    BY <1>2, <2>2
<1>4. Leds \cap on = on
  BY <1>1
<1>5. CASE dev \in {"bay", "power"} /\ Leds \cap on # {}
  BY <1>3, <1>4, <1>5 DEF Lit
<1>6. CASE ~(dev \in {"bay", "power"} /\ Leds \cap on # {})
  <2>1. hw' = (hw \ (Leds \ on)) \cup (Leds \cap on)
    BY <1>3, <1>6 DEF Lit
  <2> QED
    BY <1>4, <2>1
<1> QED
  BY <1>5, <1>6

\* A reload repairs what the bank had wrong, whatever failed before it.
THEOREM ReloadShowsPlan == Spec => ReloadRepaints
<1> DEFINE A == Reload /\ file # Broken /\ trouble' = trouble
                => hw' = plan'.leds \/ (plan'.blinks /\ hw' = {})
<1>1. IInv /\ [Next]_vars => A
  <2> SUFFICES ASSUME IInv, Reload, file # Broken, trouble' = trouble
               PROVE  hw' = plan'.leds \/ (plan'.blinks /\ hw' = {})
    OBVIOUS
  <2> DEFINE e == Evaluate(file)
  <2>1. plan' = e /\ dev \in Kinds /\ hw \subseteq Leds /\ trouble \in Nat
    BY DEF Reload, Refresh, IInv, TypeOK
  <2>2. PICK lit \in BOOLEAN : Set(Unknown, IF e.blinks /\ ~lit THEN {} ELSE e.leds, FALSE)
    BY DEF Reload, Refresh, Render
  <2>3. e \in [leds : Colours, blinks : BOOLEAN]
    BY <2>1, EvaluateType
  <2>4. {} \in Colours /\ e.leds \in Colours
    BY <2>3 DEF Colours
  <2> HIDE DEF e
  <2>5. hw' = IF e.blinks /\ ~lit THEN {} ELSE e.leds
    BY <2>1, <2>2, <2>4, FreshSetShows
  <2> QED
    BY <2>1, <2>5
<1>2. IInv /\ [Next]_vars => [A]_vars
  BY <1>1
<1> QED
  BY <1>2, Invariant, PTL DEF Spec, ReloadRepaints

=============================================================================
