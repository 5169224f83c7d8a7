---------------------------- MODULE T6FanProofs ----------------------------
(***************************************************************************)
(* IInv is inductive: T6Fan's types, the position of the running handler,   *)
(* what its EC writes have achieved so far, and what hangs on that for a    *)
(* hand-back and for a user of hwmon.  The safety properties of T6Fan       *)
(* follow for any number of fans and any percentages.                       *)
(***************************************************************************)
EXTENDS T6Fan, TLAPS

-----------------------------------------------------------------------------
\* The strengthening that makes both invariants inductive.  The heart of it:
\* the alternate value sleeps long enough to be the one the EC saw last, so the
\* target that follows is a change the EC must act on.

Taken(f, p) == \/ observed[f] = Alternate(p)
               \/ observed[f] = p /\ applied[f] = p

\* The target of a forced transition is in the first i - 1 registers, in all.
ForcedUpToI ==
  \A f \in Fan :
    /\ f < i => reg[f] = Target[f] /\ Taken(f, Target[f])
    /\ f >= i => /\ reg[f] = Alternate(Target[f])
                /\ observed[f] = Alternate(Target[f])
ForcedAll == \A f \in Fan : reg[f] = Target[f] /\ Taken(f, Target[f])

Trusted == Paced /\ online /\ ~faulty
InStep == gate /\ applied = observed

\* A command that forces nothing relies on the EC having been in step.
PlainUpToI ==
  /\ op \notin Forcing
  /\ \A f \in Fan : f < i => reg[f] = Target[f]
  /\ Paced /\ ~faulty => InStep
PlainAll == op \notin Forcing /\ reg = Target /\ (Paced /\ ~faulty => InStep)

ControlInv ==
  /\ op = "idle" <=> pc = "idle"
  /\ pc = "write" => op = "setpwm"
  /\ pc \in {"park", "clear", "released"} => op \in Releases
  /\ pc = "compare" => op \notin Forcing
  /\ pc \notin {"preload", "alternate", "commit"} => i = 1
  /\ pc \notin {"settle", "park"} => sampled = {}
  /\ err => pc \in {"return", "clear", "released"}
  /\ op \in UserOps => online
  /\ op \notin UserOps \cup {"idle"} => ~online
  /\ phase \in {"unbound", "asleep", "halted"} => ~online
  /\ op \in {"probe_take", "probe_full"} /\ pc \in {"gate", "compare"} => faulty

ProgramInv ==
  /\ pc = "compare" => gate
  /\ pc = "alternate" =>
       gate /\ \A f \in Fan : f < i => reg[f] = Alternate(Target[f])
  /\ pc = "settle" =>
       /\ gate
       /\ \A f \in Fan :
            /\ reg[f] = Alternate(Target[f])
            /\ f \in sampled => observed[f] = Alternate(Target[f])
  /\ pc = "commit" => gate /\ (ForcedUpToI \/ PlainUpToI)
  /\ pc = "return" /\ ~err => gate /\ (ForcedAll \/ PlainAll)

ReleaseInv ==
  /\ pc = "park" =>
       /\ gate
       /\ ~err
       /\ ForcedAll
       /\ \A f \in sampled : applied[f] = Parked /\ observed[f] = Parked
  /\ pc = "clear" /\ ~err =>
       \A f \in Fan : applied[f] = Parked /\ observed[f] = Parked /\ reg[f] = Parked
  /\ pc = "released" /\ ~err => ~gate /\ applied = All(Parked)
  /\ op = "idle" /\ last = "parked" /\ ~online => ~gate /\ applied = All(Parked)

UserInv ==
  /\ Trusted /\ op = "idle" =>
       /\ gate
       /\ reg = Commanded
       /\ \A f \in Fan : observed[f] = reg[f] => applied[f] = reg[f]
  /\ Trusted /\ op \in {"enable", "full"} /\
     (pc \in {"gate", "compare"} \/ (pc = "return" /\ err)) =>
       InStep /\ reg = Commanded
  /\ Trusted /\ op \in UserOps => pc \notin {"preload", "setgate", "alternate", "settle"}
  /\ Trusted /\ op = "setpwm" =>
       pc = "write" /\ InStep /\ fan_manual /\ reg = Commanded

IInv == TypeOK /\ ControlInv /\ ProgramInv /\ ReleaseInv /\ UserInv

USE FanParameters DEF Fan, Pct

\* Facts about the operators of T6Fan.

\* The names the actions assign, so that the sets can stay folded.
LEMMA Names ==
  /\ \A h \in UserOps \cup Releases : h \in Handlers
  /\ "idle" \in Handlers /\ "probe_take" \in Handlers /\ "probe_full" \in Handlers
  /\ "resume" \in Handlers /\ "abort" \in Handlers /\ "unprobe" \in Handlers
  /\ "unresume" \in Handlers /\ "suspend" \in Handlers /\ "reboot" \in Handlers
  /\ "remove" \in Handlers /\ "enable" \in Handlers /\ "full" \in Handlers
  /\ "setpwm" \in Handlers
  /\ \A p \in {"idle", "gate", "write", "released"} : p \in Labels
  /\ "unbound" \in Phases /\ "binding" \in Phases /\ "bound" \in Phases
  /\ "asleep" \in Phases /\ "halted" \in Phases
  /\ "none" \in Outcomes /\ "ok" \in Outcomes /\ "error" \in Outcomes
  /\ "parked" \in Outcomes
BY DEF Handlers, Releases, UserOps, Labels, Phases, Outcomes

\* The types of the values that Init, Probe and Crash assign.
LEMMA Initials ==
  /\ All(Parked) \in [Fan -> Pct] /\ All(Full) \in [Fan -> Pct]
  /\ NoRequest \in [fan : Fan, pct : Pct]
  /\ 1 \in Fan
BY DEF All, NoRequest

\* The neighbour written before a target is a percentage and not the target:
\* this is what makes the second write a change the EC must see.
LEMMA AlternateDiffers ==
  \A p \in Pct : Alternate(p) \in Pct /\ Alternate(p) # p
BY DEF Alternate

\* What a handler programs is a percentage for every fan.
LEMMA TargetType == TypeOK => Target \in [Fan -> Pct]
BY DEF TypeOK, Target, All

\* A handler's target does not move under it.
LEMMA TargetStable ==
  UNCHANGED <<op, fan_manual, fan_pwm>> => Target' = Target
BY DEF Target

\* What each family of handlers programs.
LEMMA TargetOf ==
  /\ op \in Releases => Target = All(Parked)
  /\ op = "full" \/ op = "probe_full" => Target = All(Full)
  /\ op \in {"enable", "setpwm", "probe_take"} => Target = fan_pwm
  /\ op \in {"resume", "abort"} => Target = Commanded
BY DEF Target, Commanded, Releases

\* However it got there, a completed programming leaves every register at its
\* target and no fan that the EC has seen at a speed it is not driven at.
LEMMA LatchedReturn ==
  ASSUME ForcedAll \/ PlainAll, Paced, ~faulty, TypeOK
  PROVE  reg = Target /\ \A f \in Fan : observed[f] = reg[f] => applied[f] = reg[f]
<1>1. CASE ForcedAll
  <2>1. Target \in [Fan -> Pct]
    BY TargetType
  <2>2. reg = Target
    BY <1>1, <2>1 DEF ForcedAll, TypeOK
  <2> QED
    BY <1>1, <2>1, <2>2, AlternateDiffers DEF ForcedAll, Taken
<1>2. CASE PlainAll
  BY <1>2 DEF PlainAll, InStep
<1> QED
  BY <1>1, <1>2

-----------------------------------------------------------------------------
\* Every step keeps every variable's type.
LEMMA NextTypeOK ==
  TypeOK /\ [Next]_vars => TypeOK'
<1> SUFFICES ASSUME TypeOK, [Next]_vars PROVE TypeOK'
  OBVIOUS
<1>1. CASE GetGate
  BY <1>1 DEF GetGate, Goto, Return, Unmoved, ec, priv, Labels, TypeOK
<1>2. CASE Compare
  BY <1>2 DEF Compare, Goto, Return, Unmoved, ec, priv, Labels, TypeOK
<1>3. CASE WriteFan
  <2>1. Target[i] \in Pct /\ Alternate(Target[i]) \in Pct
    BY TargetType, AlternateDiffers DEF TypeOK
  <2>2. reg' \in [Fan -> Pct]
    BY <1>3, <2>1 DEF WriteFan, TypeOK
  <2>3. i' = 1 \/ (i < N /\ i' = i + 1)
    BY <1>3 DEF WriteFan
  <2>4. i' \in Fan
    <3>1. i \in 1..N
      BY DEF TypeOK
    <3> QED
      BY <2>3, <3>1
  <2>5. pc' \in Labels /\ err' \in BOOLEAN
    BY <1>3 DEF WriteFan, Goto, Return, Labels, TypeOK
  <2>6. faulty' \in BOOLEAN
    BY <1>3 DEF WriteFan, TypeOK
  <2> QED
    BY <1>3, <2>2, <2>4, <2>5, <2>6 DEF WriteFan, Unmoved, priv, TypeOK
<1>4. CASE SetGate
  BY <1>4 DEF SetGate, Goto, Return, Unmoved, priv, Labels, TypeOK
<1>5. CASE Settle
  BY <1>5 DEF Settle, Goto, Unmoved, ec, priv, Labels, TypeOK
<1>6. CASE ReturnToUser
  BY <1>6, Names, Initials DEF ReturnToUser, End, ec, TypeOK
<1>7. CASE ReturnToSetPwm
  BY <1>7, Names, Initials DEF ReturnToSetPwm, End, ec, TypeOK
<1>8. CASE WritePwm
  BY <1>8, Names, Initials DEF WritePwm, End, TypeOK
<1>9. CASE ReturnToProbe
  BY <1>9, Names, Initials DEF ReturnToProbe, Call, End, ec, TypeOK
<1>10. CASE ReturnToResume
  BY <1>10, Names, Initials DEF ReturnToResume, Call, End, ec, TypeOK
<1>11. CASE ReturnToRelease
  BY <1>11 DEF ReturnToRelease, Goto, Unmoved, ec, priv, Labels, TypeOK
<1>12. CASE Park
  BY <1>12 DEF Park, Goto, Unmoved, ec, priv, Labels, TypeOK
<1>13. CASE ClearGate
  BY <1>13, Names, Initials DEF ClearGate, Unmoved, priv, TypeOK
<1>14. CASE Released
  BY <1>14, Names, Initials DEF Released, Call, End, ec, priv, TypeOK
<1>15. CASE SetEnable
  BY <1>15, Names, Initials
     DEF SetEnable, Call, UserMayEnter, Quiet, ec, priv, TypeOK
<1>16. CASE ProbeEnd
  BY <1>16, Names, Initials DEF ProbeEnd, Call, Quiet, ec, TypeOK
<1>17. CASE Suspend
  BY <1>17, Names, Initials DEF Suspend, GoDown, Call, Quiet, ec, TypeOK
<1>18. CASE Reboot
  BY <1>18, Names, Initials DEF Reboot, GoDown, Call, Quiet, ec, TypeOK
<1>19. CASE Remove
  BY <1>19, Names, Initials DEF Remove, Call, Quiet, ec, TypeOK
<1>20. CASE Resume
  BY <1>20, Names, Initials DEF Resume, Call, Quiet, ec, priv, TypeOK
<1>21. ASSUME NEW f \in Fan, NEW p \in Min..Full, SetPwm(f, p) PROVE TypeOK'
  <2>1. p \in Pct
    OBVIOUS
  <2>2. request' \in [fan : Fan, pct : Pct]
    BY <1>21, <2>1 DEF SetPwm
  <2>3. op' \in Handlers /\ pc' \in Labels
    BY <1>21, Names DEF SetPwm, Call
  <2>4. err' \in BOOLEAN
    BY <1>21 DEF SetPwm, Call, TypeOK
  <2> QED
    BY <1>21, <2>2, <2>3, <2>4 DEF SetPwm, ec, priv, TypeOK
<1>22. ASSUME NEW h \in BOOLEAN, Probe(h) PROVE TypeOK'
  BY <1>22, Names, Initials DEF Probe, Call, Quiet, ec, TypeOK
<1>23. CASE Crash
  BY <1>23, Names, Initials DEF Crash, ec, TypeOK
<1>24. ASSUME NEW g \in Fan, Sample(g) PROVE TypeOK'
  BY <1>24, Names, Initials DEF Sample, priv, TypeOK
<1>25. CASE UNCHANGED vars
  BY <1>25 DEF vars, ec, priv, TypeOK
<1> QED
  BY <1>1, <1>2, <1>3, <1>4, <1>5, <1>6, <1>7, <1>8, <1>9, <1>10, <1>11, <1>12,
     <1>13,
      <1>14, <1>15, <1>16, <1>17, <1>18, <1>19, <1>20, <1>21, <1>22, <1>23, <1>24, <1>25
     DEF Next, Driver, Program, Finish, Enter
-----------------------------------------------------------------------------
\* Which handler can be at which point of its way.
LEMMA NextControlInv ==
  TypeOK /\ ControlInv /\ [Next]_vars => ControlInv'
<1> SUFFICES ASSUME TypeOK, ControlInv, [Next]_vars PROVE ControlInv'
  OBVIOUS
<1>1. CASE GetGate
  BY <1>1
     DEF GetGate, Goto, Return, Unmoved, ec, priv, force, TypeOK, ControlInv
<1>2. CASE Compare
  BY <1>2 DEF Compare, Goto, Return, Unmoved, ec, priv, TypeOK, ControlInv
<1>3. CASE WriteFan
  BY <1>3 DEF WriteFan, Goto, Return, Unmoved, priv, TypeOK, ControlInv
<1>4. CASE SetGate
  <2>1. /\ pc = "setgate"
        /\ pc' = "alternate" \/ pc' = "return"
        /\ pc' = "alternate" => err' = err
        /\ UNCHANGED <<op, i, sampled, online, phase>>
    BY <1>4 DEF SetGate, Goto, Return, Unmoved, priv
  <2> QED
    BY <2>1 DEF ControlInv
<1>5. CASE Settle
  BY <1>5 DEF Settle, Goto, Unmoved, ec, priv, TypeOK, ControlInv
<1>6. CASE ReturnToUser
  BY <1>6 DEF ReturnToUser, End, ec, Releases, UserOps, TypeOK, ControlInv
<1>7. CASE ReturnToSetPwm
  BY <1>7
     DEF ReturnToSetPwm, End, NoRequest, ec, Releases, UserOps, TypeOK,
         ControlInv
<1>8. CASE WritePwm
  BY <1>8 DEF WritePwm, End, NoRequest, Releases, UserOps, TypeOK, ControlInv
<1>9. CASE ReturnToProbe
  <2>1. /\ pc = "return" /\ op \in {"probe_take", "probe_full"}
        /\ UNCHANGED <<i, sampled>> /\ ~err'
        /\ \/ op' = "unprobe" /\ pc' = "gate" /\ UNCHANGED online
           \/ op' = "idle" /\ pc' = "idle" /\ phase' = "binding"
    BY <1>9 DEF ReturnToProbe, Call, End
  <2>2. CASE op' = "unprobe" /\ pc' = "gate" /\ UNCHANGED online
    <3>1. ~online
      BY <2>1 DEF ControlInv, UserOps
    <3> QED
      BY <2>1, <2>2, <3>1 DEF ControlInv, UserOps
  <2>3. CASE op' = "idle" /\ pc' = "idle" /\ phase' = "binding"
    BY <2>1, <2>3 DEF ControlInv, UserOps, Releases
  <2> QED
    BY <2>1, <2>2, <2>3
<1>10. CASE ReturnToResume
  <2>1. /\ pc = "return" /\ op \in {"resume", "abort"}
        /\ UNCHANGED <<i, sampled>> /\ ~err'
        /\ \/ op' = "unresume" /\ pc' = "gate" /\ UNCHANGED online
           \/ op' = "idle" /\ pc' = "idle" /\ phase' = "bound"
    BY <1>10 DEF ReturnToResume, Call, End
  <2>2. CASE op' = "unresume" /\ pc' = "gate" /\ UNCHANGED online
    <3>1. ~online
      BY <2>1 DEF ControlInv, UserOps
    <3> QED
      BY <2>1, <2>2, <3>1 DEF ControlInv, UserOps
  <2>3. CASE op' = "idle" /\ pc' = "idle" /\ phase' = "bound"
    BY <2>1, <2>3 DEF ControlInv, UserOps, Releases
  <2> QED
    BY <2>1, <2>2, <2>3
<1>11. CASE ReturnToRelease
  BY <1>11 DEF ReturnToRelease, Goto, Unmoved, ec, priv, TypeOK, ControlInv
<1>12. CASE Park
  BY <1>12 DEF Park, Goto, Unmoved, ec, priv, TypeOK, ControlInv
<1>13. CASE ClearGate
  BY <1>13 DEF ClearGate, Unmoved, priv, TypeOK, ControlInv
<1>14. CASE Released
  BY <1>14
     DEF Released, Call, End, ec, priv, Releases, UserOps, TypeOK, ControlInv
<1>15. CASE SetEnable
  BY <1>15
     DEF SetEnable, Call, UserMayEnter, Quiet, ec, priv, Releases, UserOps,
         TypeOK, ControlInv
<1>16. CASE ProbeEnd
  BY <1>16 DEF ProbeEnd, Call, Quiet, ec, Releases, UserOps, TypeOK, ControlInv
<1>17. CASE Suspend
  BY <1>17
     DEF Suspend, GoDown, Call, Quiet, ec, Releases, UserOps, TypeOK, ControlInv
<1>18. CASE Reboot
  BY <1>18
     DEF Reboot, GoDown, Call, Quiet, ec, Releases, UserOps, TypeOK, ControlInv
<1>19. CASE Remove
  BY <1>19 DEF Remove, Call, Quiet, ec, Releases, UserOps, TypeOK, ControlInv
<1>20. CASE Resume
  BY <1>20
     DEF Resume, Call, Quiet, ec, priv, Releases, UserOps, TypeOK, ControlInv
<1>21. ASSUME NEW f \in Fan, NEW p \in Min..Full, SetPwm(f, p) PROVE ControlInv'
  <2>1. /\ op = "idle" /\ pc = "idle" /\ op' = "setpwm"
        /\ pc' = "write" \/ pc' = "gate"
        /\ ~err' /\ online
        /\ UNCHANGED <<i, sampled, online, phase>>
    BY <1>21 DEF SetPwm, UserMayEnter, Quiet, Call, ec, priv, ControlInv
  <2> QED
    BY <2>1 DEF ControlInv, UserOps
<1>22. ASSUME NEW h \in BOOLEAN, Probe(h) PROVE ControlInv'
  BY <1>22
     DEF Probe, Call, Quiet, All, ec, Releases, UserOps, TypeOK, ControlInv
<1>23. CASE Crash
  BY <1>23 DEF Crash, All, NoRequest, ec, Releases, UserOps, TypeOK, ControlInv
<1>24. ASSUME NEW g \in Fan, Sample(g) PROVE ControlInv'
  BY <1>24 DEF Sample, priv, TypeOK, ControlInv
<1>25. CASE UNCHANGED vars
  BY <1>25 DEF vars, ec, priv, TypeOK, ControlInv
<1> QED
  BY <1>1, <1>2, <1>3, <1>4, <1>5, <1>6, <1>7, <1>8, <1>9, <1>10, <1>11, <1>12,
     <1>13,
      <1>14, <1>15, <1>16, <1>17, <1>18, <1>19, <1>20, <1>21, <1>22, <1>23, <1>24, <1>25
     DEF Next, Driver, Program, Finish, Enter
-----------------------------------------------------------------------------
\* The write sequence of t6_program_fans_locked(): what each write, and the EC
\* in between, leaves true of the registers already written.
LEMMA NextProgramInv ==
  TypeOK /\ ControlInv /\ ProgramInv /\ UserInv /\ [Next]_vars => ProgramInv'
<1> SUFFICES ASSUME TypeOK, ControlInv, ProgramInv, UserInv, [Next]_vars PROVE ProgramInv'
  OBVIOUS
<1>1. CASE GetGate
  <2>1. UNCHANGED <<gate, i>> /\ i = 1
    BY <1>1 DEF GetGate, ec, ControlInv
  <2>2. pc' \in {"preload", "compare", "alternate"} \/ (pc' = "return" /\ err')
    BY <1>1 DEF GetGate, Goto, Return
  <2>3. pc' \in {"alternate", "compare"} => gate
    BY <1>1 DEF GetGate, Goto, Return
  <2> QED
    BY <2>1, <2>2, <2>3 DEF ProgramInv
<1>2. CASE Compare
  <2>1. /\ UNCHANGED <<ec, online, faulty, op, fan_manual, fan_pwm>>
        /\ i' = 1 /\ i = 1
    BY <1>2 DEF Compare, Unmoved, priv, ControlInv
  <2>2. Target' = Target
    BY <2>1, TargetStable
  <2>3. gate /\ op \notin Forcing /\ (Paced /\ ~faulty => InStep)
    <3>1. pc = "compare" /\ op \notin Forcing /\ op # "idle" /\ op \in Handlers
      BY <1>2 DEF Compare, ControlInv, TypeOK
    <3>2. op \in {"enable", "full", "setpwm", "probe_take", "probe_full"}
      BY <3>1 DEF Handlers, Forcing, UserOps
    <3>3. CASE op \in UserOps
      BY <3>1, <3>3 DEF ProgramInv, UserInv, ControlInv, Trusted, UserOps
    <3>4. CASE op \in {"probe_take", "probe_full"}
      BY <3>1, <3>4 DEF ProgramInv, ControlInv
    <3> QED
      BY <3>2, <3>3, <3>4 DEF UserOps
  <2>4. pc' = "commit" \/ (pc' = "return" /\ err') \/ (pc' = "return" /\ reg = Target)
    BY <1>2 DEF Compare, Goto, Return
  <2>5. PlainUpToI'
    BY <2>1, <2>2, <2>3 DEF PlainUpToI, InStep, ec
  <2>6. reg = Target => PlainAll'
    BY <2>1, <2>2, <2>3 DEF PlainAll, InStep, ec
  <2> QED
    BY <2>1, <2>3, <2>4, <2>5, <2>6 DEF ProgramInv, ec
<1>3. CASE WriteFan
  <2>1. /\ UNCHANGED <<gate, observed, applied, op, fan_manual, fan_pwm, online>>
        /\ i \in 1..N /\ Target \in [Fan -> Pct] /\ reg \in [Fan -> Pct]
    BY <1>3, TargetType DEF WriteFan, Unmoved, priv, TypeOK
  <2>2. Target' = Target
    BY <2>1, TargetStable
  <2>3. CASE err'
    <3>1. pc' = "return"
      BY <1>3, <2>3 DEF WriteFan, Goto, Return, ControlInv
    <3> QED
      BY <2>3, <3>1 DEF ProgramInv
  <2>4. CASE ~err'
    <3> DEFINE value == IF pc = "alternate" THEN Alternate(Target[i]) ELSE Target[i]
    <3>1. /\ pc \in {"preload", "alternate", "commit"}
          /\ reg' = [reg EXCEPT ![i] = value]
          /\ i' = IF i < N THEN i + 1 ELSE 1
          /\ i < N => pc' = pc
          /\ ~(i < N) => \/ pc = "preload" /\ pc' = "setgate"
                         \/ pc = "alternate" /\ pc' = "settle"
                         \/ pc = "commit" /\ pc' = "return"
          /\ UNCHANGED faulty
      BY <1>3, <2>4 DEF WriteFan, Goto, Return
    <3>2. \A f \in Fan : reg'[f] = IF f = i THEN value ELSE reg[f]
      BY <2>1, <3>1
    <3>3. \A f \in Fan : f < i' => f < i \/ f = i
      BY <2>1, <3>1
    <3>4. ~(i < N) => \A f \in Fan : f < i \/ f = i
      BY <2>1
    <3>5. CASE pc = "preload"
      BY <3>1, <3>5 DEF ProgramInv
    <3>6. CASE pc = "alternate"
      <4>1. gate /\ \A f \in Fan : f < i => reg[f] = Alternate(Target[f])
        BY <3>6 DEF ProgramInv
      <4>2. \A f \in Fan : f < i \/ f = i => reg'[f] = Alternate(Target[f])
        BY <2>1, <3>2, <3>6, <4>1
      <4>3. sampled' = {}
        BY <1>3, <3>6 DEF WriteFan, ControlInv
      <4> QED
        BY <2>1, <2>2, <3>1, <3>3, <3>4, <3>6, <4>1, <4>2, <4>3 DEF ProgramInv
    <3>7. CASE pc = "commit"
      <4>1. gate /\ (ForcedUpToI \/ PlainUpToI)
        BY <3>7 DEF ProgramInv
      <4>2. CASE ForcedUpToI
        <5>1. \A f \in Fan : f < i \/ f = i => reg'[f] = Target[f] /\ Taken(f, Target[f])
          BY <2>1, <3>2, <3>7, <4>2 DEF ForcedUpToI, Taken
        <5>2. i < N => ForcedUpToI'
          BY <2>1, <2>2, <3>1, <3>2, <4>2, <5>1 DEF ForcedUpToI, Taken
        <5>3. ~(i < N) => ForcedAll'
          BY <2>1, <2>2, <3>4, <5>1 DEF ForcedAll, Taken
        <5> QED
          BY <2>1, <3>1, <3>7, <4>1, <5>2, <5>3 DEF ProgramInv
      <4>3. CASE PlainUpToI
        <5>1. \A f \in Fan : f < i \/ f = i => reg'[f] = Target[f]
          BY <2>1, <3>2, <3>7, <4>3 DEF PlainUpToI
        <5>2. i < N => PlainUpToI'
          BY <2>1, <2>2, <3>1, <3>3, <4>3, <5>1 DEF PlainUpToI, InStep
        <5>3. ~(i < N) => PlainAll'
          <6>1. ~(i < N) => reg' = Target
            BY <2>1, <3>1, <3>4, <5>1
          <6> QED
            BY <2>1, <2>2, <3>1, <4>3, <6>1 DEF PlainAll, PlainUpToI, InStep
        <5> QED
          BY <2>1, <3>1, <3>7, <4>1, <5>2, <5>3 DEF ProgramInv
      <4> QED
        BY <4>1, <4>2, <4>3
    <3> QED
      BY <3>1, <3>5, <3>6, <3>7
  <2> QED
    BY <2>3, <2>4
<1>4. CASE SetGate
  <2>1. (pc' = "alternate" /\ gate') \/ (pc' = "return" /\ err')
    BY <1>4 DEF SetGate, Goto, Return
  <2>2. i' = 1
    BY <1>4 DEF SetGate, ControlInv
  <2> QED
    BY <2>1, <2>2 DEF ProgramInv
<1>5. CASE Settle
  <2>1. /\ UNCHANGED <<ec, i, op, fan_manual, fan_pwm>>
        /\ pc' = "commit" /\ pc = "settle" /\ sampled = Fan /\ i = 1
    BY <1>5 DEF Settle, Goto, Unmoved, priv, ControlInv
  <2>2. Target' = Target
    BY <2>1, TargetStable
  <2>3. gate /\ \A f \in Fan : /\ reg[f] = Alternate(Target[f])
                               /\ observed[f] = Alternate(Target[f])
    BY <2>1 DEF ProgramInv
  <2>4. ForcedUpToI'
    BY <2>1, <2>2, <2>3 DEF ForcedUpToI, ec
  <2> QED
    BY <2>1, <2>3, <2>4 DEF ProgramInv, ec
<1>6. CASE ReturnToUser
  BY <1>6, TargetStable DEF ReturnToUser, End, ec, ControlInv, ProgramInv
<1>7. CASE ReturnToSetPwm
  BY <1>7, TargetStable
     DEF ReturnToSetPwm, End, NoRequest, ec, ControlInv, ProgramInv
<1>8. CASE WritePwm
  BY <1>8, TargetStable DEF WritePwm, End, NoRequest, ControlInv, ProgramInv
<1>9. CASE ReturnToProbe
  BY <1>9, TargetStable DEF ReturnToProbe, Call, End, ec, ControlInv, ProgramInv
<1>10. CASE ReturnToResume
  BY <1>10, TargetStable
     DEF ReturnToResume, Call, End, ec, ControlInv, ProgramInv
<1>11. CASE ReturnToRelease
  BY <1>11, TargetStable
     DEF ReturnToRelease, Goto, Unmoved, ec, priv, ProgramInv, ForcedUpToI,
         ForcedAll,
       PlainUpToI, PlainAll, Taken, InStep
<1>12. CASE Park
  BY <1>12, TargetStable
     DEF Park, Goto, Unmoved, ec, priv, ProgramInv, ForcedUpToI, ForcedAll,
       PlainUpToI, PlainAll, Taken, InStep
<1>13. CASE ClearGate
  BY <1>13, TargetStable DEF ClearGate, Unmoved, priv, ControlInv, ProgramInv
<1>14. CASE Released
  BY <1>14, TargetStable
     DEF Released, Call, End, ec, priv, ProgramInv, ForcedUpToI, ForcedAll,
       PlainUpToI, PlainAll, Taken, InStep
<1>15. CASE SetEnable
  BY <1>15, TargetStable
     DEF SetEnable, Call, UserMayEnter, Quiet, ec, priv, ProgramInv,
         ForcedUpToI, ForcedAll,
       PlainUpToI, PlainAll, Taken, InStep
<1>16. CASE ProbeEnd
  BY <1>16, TargetStable DEF ProbeEnd, Call, Quiet, ec, ControlInv, ProgramInv
<1>17. CASE Suspend
  BY <1>17, TargetStable
     DEF Suspend, GoDown, Call, Quiet, ec, ControlInv, ProgramInv
<1>18. CASE Reboot
  BY <1>18, TargetStable
     DEF Reboot, GoDown, Call, Quiet, ec, ControlInv, ProgramInv
<1>19. CASE Remove
  BY <1>19, TargetStable DEF Remove, Call, Quiet, ec, ControlInv, ProgramInv
<1>20. CASE Resume
  BY <1>20, TargetStable
     DEF Resume, Call, Quiet, ec, priv, ProgramInv, ForcedUpToI, ForcedAll,
       PlainUpToI, PlainAll, Taken, InStep
<1>21. ASSUME NEW f \in Fan, NEW p \in Min..Full, SetPwm(f, p) PROVE ProgramInv'
  BY <1>21, TargetStable
     DEF SetPwm, Call, UserMayEnter, Quiet, ec, priv, ProgramInv, ForcedUpToI,
         ForcedAll,
       PlainUpToI, PlainAll, Taken, InStep
<1>22. ASSUME NEW h \in BOOLEAN, Probe(h) PROVE ProgramInv'
  BY <1>22, TargetStable DEF Probe, Call, Quiet, All, ec, ControlInv, ProgramInv
<1>23. CASE Crash
  BY <1>23, TargetStable DEF Crash, All, NoRequest, ec, ControlInv, ProgramInv
<1>24. ASSUME NEW g \in Fan, Sample(g) PROVE ProgramInv'
  <2>1. UNCHANGED <<gate, reg, op, fan_manual, fan_pwm, online, faulty, pc, i, err>>
    BY <1>24 DEF Sample, priv
  <2>2. Target' = Target
    BY <2>1, TargetStable
  <2>3. \A f \in Fan :
          /\ f # g => observed'[f] = observed[f] /\ applied'[f] = applied[f]
          /\ f = g =>
             /\ observed'[f] = reg[f]
             /\ gate /\ reg[f] # observed[f] => applied'[f] = reg[f]
             /\ ~(gate /\ reg[f] # observed[f]) => applied'[f] = applied[f]
    BY <1>24 DEF Sample, TypeOK
  <2>4. pc = "settle" => sampled' = sampled \cup {g}
    BY <1>24 DEF Sample
  <2>5. gate /\ applied = observed => applied' = observed'
    BY <1>24, <2>1 DEF Sample, TypeOK
  <2>6. ASSUME NEW f \in Fan, gate, reg[f] = Target[f], Taken(f, Target[f])
        PROVE  Taken(f, Target[f])'
    BY <2>2, <2>3, <2>6, TargetType, AlternateDiffers DEF Taken, TypeOK
  <2>7. gate /\ ForcedAll => ForcedAll'
    BY <2>1, <2>2, <2>6 DEF ForcedAll
  <2>8. gate /\ ForcedUpToI => ForcedUpToI'
    BY <2>1, <2>2, <2>3, <2>6, TypeOK DEF ForcedUpToI
  <2>9. (gate /\ PlainAll => PlainAll') /\ (gate /\ PlainUpToI => PlainUpToI')
    BY <2>1, <2>2, <2>5 DEF PlainAll, PlainUpToI, InStep
  <2>10. pc = "settle" =>
           \A f \in Fan : /\ reg'[f] = Alternate(Target'[f])
                          /\ f \in sampled' => observed'[f] = Alternate(Target'[f])
    <3> SUFFICES ASSUME pc = "settle", NEW f \in Fan
                 PROVE  /\ reg[f] = Alternate(Target[f])
                        /\ f \in sampled \cup {g} => observed'[f] = reg[f]
      BY <2>1, <2>2, <2>4
    <3> QED
      BY <2>3 DEF ProgramInv
  <2> QED
    BY <2>1, <2>2, <2>7, <2>8, <2>9, <2>10 DEF ProgramInv
<1>25. CASE UNCHANGED vars
  BY <1>25, TargetStable DEF vars, ec, priv, ProgramInv, ForcedUpToI, ForcedAll,
       PlainUpToI, PlainAll, Taken, InStep
<1> QED
  BY <1>1, <1>2, <1>3, <1>4, <1>5, <1>6, <1>7, <1>8, <1>9, <1>10, <1>11, <1>12,
     <1>13,
      <1>14, <1>15, <1>16, <1>17, <1>18, <1>19, <1>20, <1>21, <1>22, <1>23, <1>24, <1>25
     DEF Next, Driver, Program, Finish, Enter
-----------------------------------------------------------------------------
\* The release: the fans reach the parking speed before the gate is given back.
LEMMA NextReleaseInv ==
  TypeOK /\ ControlInv /\ ProgramInv /\ ReleaseInv /\ [Next]_vars => ReleaseInv'
<1> SUFFICES ASSUME TypeOK, ControlInv, ProgramInv, ReleaseInv, [Next]_vars PROVE ReleaseInv'
  OBVIOUS
<1>1. CASE GetGate
  BY <1>1
     DEF GetGate, Goto, Return, Unmoved, ec, priv, TypeOK, ControlInv,
         ReleaseInv
<1>2. CASE Compare
  BY <1>2
     DEF Compare, Goto, Return, Unmoved, ec, priv, TypeOK, ControlInv,
         ReleaseInv
<1>3. CASE WriteFan
  BY <1>3
     DEF WriteFan, Goto, Return, Unmoved, priv, TypeOK, ControlInv, ReleaseInv
<1>4. CASE SetGate
  BY <1>4
     DEF SetGate, Goto, Return, Unmoved, priv, TypeOK, ControlInv, ReleaseInv
<1>5. CASE Settle
  BY <1>5 DEF Settle, Goto, Unmoved, ec, priv, TypeOK, ControlInv, ReleaseInv
<1>6. CASE ReturnToUser
  BY <1>6 DEF ReturnToUser, End, ec, TypeOK, ControlInv, ReleaseInv
<1>7. CASE ReturnToSetPwm
  BY <1>7 DEF ReturnToSetPwm, End, NoRequest, ec, TypeOK, ControlInv, ReleaseInv
<1>8. CASE WritePwm
  BY <1>8 DEF WritePwm, End, NoRequest, TypeOK, ControlInv, ReleaseInv
<1>9. CASE ReturnToProbe
  BY <1>9 DEF ReturnToProbe, Call, End, ec, TypeOK, ControlInv, ReleaseInv
<1>10. CASE ReturnToResume
  BY <1>10 DEF ReturnToResume, Call, End, ec, TypeOK, ControlInv, ReleaseInv
<1>11. CASE ReturnToRelease
  <2>1. /\ pc = "return" /\ op \in Releases
        /\ (err /\ pc' = "clear" /\ err') \/ (~err /\ pc' = "park" /\ ~err')
        /\ UNCHANGED <<ec, op, fan_manual, fan_pwm>> /\ sampled' = {} /\ op # "idle"
    BY <1>11 DEF ReturnToRelease, Goto, Unmoved, priv, ControlInv
  <2>2. ~err => gate /\ ForcedAll
    BY <2>1 DEF ProgramInv, PlainAll, Forcing
  <2>3. Target' = Target
    BY <2>1, TargetStable
  <2>4. ForcedAll => ForcedAll'
    BY <2>1, <2>3 DEF ForcedAll, Taken, ec
  <2> QED
    BY <2>1, <2>2, <2>4 DEF ReleaseInv, ec
<1>12. CASE Park
  <2>1. /\ pc = "park" /\ pc' = "clear" /\ sampled = Fan /\ op \in Releases
        /\ UNCHANGED <<ec, op>> /\ op # "idle"
    BY <1>12 DEF Park, Goto, Unmoved, ControlInv
  <2>2. \A f \in Fan : Target[f] = Parked
    BY <2>1, TargetOf DEF All
  <2>3. \A f \in Fan : applied[f] = Parked /\ observed[f] = Parked /\ reg[f] = Parked
    BY <2>1, <2>2 DEF ReleaseInv, ForcedAll
  <2> QED
    BY <2>1, <2>3 DEF ReleaseInv, ec
<1>13. CASE ClearGate
  <2>1. /\ pc = "clear" /\ pc' = "released" /\ op' # "idle"
        /\ ~err' => ~err /\ ~gate'
        /\ UNCHANGED applied
    BY <1>13 DEF ClearGate, Unmoved, ControlInv, TypeOK
  <2>2. ~err => applied = All(Parked)
    BY <2>1 DEF ReleaseInv, TypeOK, All
  <2> QED
    BY <2>1, <2>2 DEF ReleaseInv, All
<1>14. CASE Released
  BY <1>14 DEF Released, Call, End, ec, priv, TypeOK, ControlInv, ReleaseInv
<1>15. CASE SetEnable
  BY <1>15
     DEF SetEnable, Call, UserMayEnter, Quiet, ec, priv, TypeOK, ControlInv,
         ReleaseInv
<1>16. CASE ProbeEnd
  BY <1>16 DEF ProbeEnd, Call, Quiet, ec, TypeOK, ControlInv, ReleaseInv
<1>17. CASE Suspend
  BY <1>17 DEF Suspend, GoDown, Call, Quiet, ec, TypeOK, ControlInv, ReleaseInv
<1>18. CASE Reboot
  BY <1>18 DEF Reboot, GoDown, Call, Quiet, ec, TypeOK, ControlInv, ReleaseInv
<1>19. CASE Remove
  BY <1>19 DEF Remove, Call, Quiet, ec, TypeOK, ControlInv, ReleaseInv
<1>20. CASE Resume
  BY <1>20 DEF Resume, Call, Quiet, ec, priv, TypeOK, ControlInv, ReleaseInv
<1>21. ASSUME NEW f \in Fan, NEW p \in Min..Full, SetPwm(f, p) PROVE ReleaseInv'
  BY <1>21
     DEF SetPwm, Call, UserMayEnter, Quiet, ec, priv, TypeOK, ControlInv,
         ReleaseInv
<1>22. ASSUME NEW h \in BOOLEAN, Probe(h) PROVE ReleaseInv'
  BY <1>22 DEF Probe, Call, Quiet, All, ec, TypeOK, ControlInv, ReleaseInv
<1>23. CASE Crash
  BY <1>23 DEF Crash, All, NoRequest, ec, TypeOK, ControlInv, ReleaseInv
<1>24. ASSUME NEW g \in Fan, Sample(g) PROVE ReleaseInv'
  <2>1. /\ UNCHANGED <<gate, reg, online, fan_manual, fan_pwm, op, pc, err, last>>
        /\ ~gate => applied' = applied
        /\ pc = "park" => sampled' = sampled \cup {g}
    BY <1>24 DEF Sample, priv
  <2>2. \A f \in Fan :
          /\ f # g => observed'[f] = observed[f] /\ applied'[f] = applied[f]
          /\ f = g =>
               /\ observed'[f] = reg[f]
               /\ gate /\ reg[f] # observed[f] => applied'[f] = reg[f]
               /\ ~(gate /\ reg[f] # observed[f]) => applied'[f] = applied[f]
    BY <1>24 DEF Sample, TypeOK
  <2>3. Target' = Target
    BY <2>1, TargetStable
  <2>4. CASE pc = "park"
    <3>1. \A f \in Fan : Target[f] = Parked
      BY <2>4, TargetOf DEF All, ControlInv
    <3>2. gate /\ ~err /\ ForcedAll
          /\ \A f \in sampled : applied[f] = Parked /\ observed[f] = Parked
      BY <2>4 DEF ReleaseInv
    <3>3. ASSUME NEW f \in Fan PROVE reg'[f] = Parked /\ Taken(f, Parked)'
      BY <2>1, <2>2, <3>1, <3>2, AlternateDiffers DEF ForcedAll, Taken
    <3>4. ASSUME NEW f \in sampled' PROVE applied'[f] = Parked /\ observed'[f] = Parked
      <4>1. f \in Fan /\ (f = g \/ f \in sampled)
        <5>1. f \in sampled \cup {g} /\ sampled \subseteq Fan
          BY <2>1, <2>4 DEF TypeOK
        <5> QED
          BY <5>1
      <4>2. reg[f] = Parked /\ Taken(f, Parked)
        BY <3>1, <3>2, <4>1 DEF ForcedAll
      <4> QED
        BY <2>2, <3>2, <4>1, <4>2, AlternateDiffers DEF Taken
    <3>5. ForcedAll'
      BY <2>3, <3>1, <3>3 DEF ForcedAll
    <3> QED
      BY <2>1, <2>4, <3>2, <3>4, <3>5 DEF ReleaseInv, ControlInv
  <2>5. CASE pc = "clear"
    <3>1. ~err => \A f \in Fan :
            applied'[f] = Parked /\ observed'[f] = Parked /\ reg'[f] = Parked
      BY <2>1, <2>2, <2>5 DEF ReleaseInv
    <3> QED
      BY <2>1, <2>5, <3>1 DEF ReleaseInv, ControlInv
  <2> QED
    BY <2>1, <2>4, <2>5 DEF ReleaseInv, All
<1>25. CASE UNCHANGED vars
  BY <1>25, TargetStable DEF vars, ec, priv, ReleaseInv, ForcedAll, Taken
<1> QED
  BY <1>1, <1>2, <1>3, <1>4, <1>5, <1>6, <1>7, <1>8, <1>9, <1>10, <1>11, <1>12,
     <1>13,
      <1>14, <1>15, <1>16, <1>17, <1>18, <1>19, <1>20, <1>21, <1>22, <1>23, <1>24, <1>25
     DEF Next, Driver, Program, Finish, Enter
-----------------------------------------------------------------------------
\* Between a user's operations the registers hold what was commanded, and one
\* that starts from there needs no forced transition.
LEMMA NextUserInv ==
  TypeOK /\ ControlInv /\ ProgramInv /\ UserInv /\ [Next]_vars => UserInv'
<1> SUFFICES ASSUME TypeOK, ControlInv, ProgramInv, UserInv, [Next]_vars PROVE UserInv'
  OBVIOUS
<1>1. CASE GetGate
  <2>1. /\ pc = "gate" /\ pc' \in {"preload", "compare", "alternate", "return"}
        /\ pc' = "return" => err'
        /\ pc' \in {"preload", "alternate"} => ~gate \/ op \in Forcing
        /\ UNCHANGED <<ec, priv, op, faulty>>
    BY <1>1 DEF GetGate, Goto, Return, Unmoved, force
  <2>2. op # "idle" /\ (op \in UserOps => op \notin Forcing)
    BY <2>1 DEF ControlInv, UserOps, Forcing, Releases
  <2>3. Trusted /\ op \in UserOps => op \in {"enable", "full"} /\ InStep /\ reg = Commanded
    BY <2>1 DEF UserInv, UserOps
  <2> QED
    BY <2>1, <2>2, <2>3
       DEF UserInv, Trusted, InStep, Commanded, ec, priv, UserOps
<1>2. CASE Compare
  BY <1>2, TargetStable, AlternateDiffers
     DEF Compare, Goto, Return, Unmoved, ec, priv, UserOps, TypeOK, ControlInv,
         UserInv, Trusted, InStep, Commanded
<1>3. CASE WriteFan
  <2>1. UNCHANGED <<priv, op>> /\ pc \in {"preload", "alternate", "commit"}
    BY <1>3 DEF WriteFan, Unmoved
  <2>2. op # "idle" /\ (op = "setpwm" => ~Trusted)
    BY <2>1 DEF UserInv, ControlInv
  <2>4. CASE faulty'
    BY <2>4 DEF UserInv, Trusted
  <2>5. CASE ~faulty'
    <3>1. /\ UNCHANGED faulty /\ ~err'
          /\ \/ pc' = pc
             \/ pc = "preload" /\ pc' = "setgate"
             \/ pc = "alternate" /\ pc' = "settle"
             \/ pc = "commit" /\ pc' = "return"
      <4>1. UNCHANGED faulty /\ ~err
        BY <1>3, <2>5 DEF WriteFan, ControlInv
      <4> QED
        BY <1>3, <2>5, <4>1 DEF WriteFan, Goto, Return
    <3>2. Trusted' <=> Trusted
      BY <2>1, <3>1 DEF Trusted, priv
    <3> QED
      BY <2>1, <2>2, <3>1, <3>2 DEF UserInv, ControlInv, UserOps
  <2> QED
    BY <2>4, <2>5 DEF TypeOK
<1>4. CASE SetGate
  BY <1>4, TargetStable, AlternateDiffers
     DEF SetGate, Goto, Return, Unmoved, priv, UserOps, TypeOK, ControlInv,
         UserInv, Trusted, InStep, Commanded
<1>5. CASE Settle
  BY <1>5, TargetStable, AlternateDiffers
     DEF Settle, Goto, Unmoved, ec, priv, UserOps, TypeOK, ControlInv, UserInv,
         Trusted, InStep, Commanded
<1>6. CASE ReturnToUser
  <2>1. /\ pc = "return" /\ op \in {"enable", "full"} /\ op' = "idle"
        /\ UNCHANGED <<ec, online, fan_pwm, faulty>>
        /\ fan_manual' = IF err THEN fan_manual ELSE op = "enable"
    BY <1>6 DEF ReturnToUser, End
  <2>2. CASE err
    <3>1. Trusted => InStep /\ reg = Commanded
      BY <2>1, <2>2 DEF UserInv
    <3>2. Commanded' = Commanded
      BY <2>1, <2>2 DEF Commanded
    <3> QED
      BY <2>1, <3>1, <3>2 DEF UserInv, Trusted, InStep, ec, UserOps
  <2>3. CASE ~err
    <3>1. gate /\ (ForcedAll \/ PlainAll)
      BY <2>1, <2>3 DEF ProgramInv
    <3>2. Commanded' = Target
      BY <2>1, <2>3, TargetOf DEF Commanded
    <3>3. Trusted =>
            reg = Target /\ \A f \in Fan : observed[f] = reg[f] => applied[f] = reg[f]
      BY <3>1, LatchedReturn DEF Trusted
    <3> QED
      BY <2>1, <3>1, <3>2, <3>3 DEF UserInv, Trusted, ec, UserOps
  <2> QED
    BY <2>2, <2>3
<1>7. CASE ReturnToSetPwm
  BY <1>7, TargetStable, AlternateDiffers
     DEF ReturnToSetPwm, End, NoRequest, ec, UserOps, TypeOK, ControlInv,
         UserInv, Trusted, InStep, Commanded
<1>8. CASE WritePwm
  BY <1>8, TargetStable, AlternateDiffers
     DEF WritePwm, End, NoRequest, UserOps, TypeOK, ControlInv, UserInv,
         Trusted, InStep, Commanded
<1>9. CASE ReturnToProbe
  <2>1. /\ pc = "return" /\ op \in {"probe_take", "probe_full"}
        /\ UNCHANGED <<ec, fan_pwm, faulty>>
        /\ \/ op' = "unprobe"
           \/ ~err /\ op' = "idle" /\ fan_manual' = (op = "probe_take")
    BY <1>9 DEF ReturnToProbe, End, Call
  <2>2. CASE op' = "unprobe"
    BY <2>2 DEF UserInv, UserOps
  <2>3. CASE ~err /\ op' = "idle" /\ fan_manual' = (op = "probe_take")
    <3>1. gate /\ (ForcedAll \/ PlainAll)
      BY <2>1, <2>3 DEF ProgramInv
    <3>2. Commanded' = Target
      BY <2>1, <2>3, TargetOf DEF Commanded
    <3>3. Paced /\ ~faulty =>
            reg = Target /\ \A f \in Fan : observed[f] = reg[f] => applied[f] = reg[f]
      BY <3>1, LatchedReturn DEF Trusted
    <3> QED
      BY <2>1, <2>3, <3>1, <3>2, <3>3 DEF UserInv, Trusted, ec, UserOps
  <2> QED
    BY <2>1, <2>2, <2>3
<1>10. CASE ReturnToResume
  <2>1. /\ pc = "return" /\ op \in {"resume", "abort"}
        /\ UNCHANGED <<ec, fan_pwm, fan_manual>>
        /\ op' = "unresume" \/ (op' = "idle" /\ (err => faulty') /\ (~faulty' => ~faulty))
    BY <1>10 DEF ReturnToResume, End, Call
  <2>2. CASE op' = "unresume"
    BY <2>2 DEF UserInv, UserOps
  <2>3. CASE op' = "idle" /\ (err => faulty') /\ (~faulty' => ~faulty)
    <3>1. ~err => gate /\ (ForcedAll \/ PlainAll)
      BY <2>1, <2>3 DEF ProgramInv
    <3>2. Commanded' = Target
      BY <2>1, TargetOf DEF Commanded
    <3>3. ~err /\ Paced /\ ~faulty =>
            reg = Target /\ \A f \in Fan : observed[f] = reg[f] => applied[f] = reg[f]
      BY <3>1, LatchedReturn DEF Trusted
    <3> QED
      BY <2>1, <2>3, <3>1, <3>2, <3>3 DEF UserInv, Trusted, ec, UserOps
  <2> QED
    BY <2>1, <2>2, <2>3
<1>11. CASE ReturnToRelease
  BY <1>11, TargetStable, AlternateDiffers
     DEF ReturnToRelease, Goto, Unmoved, ec, priv, UserOps, TypeOK, ControlInv,
         UserInv, Trusted, InStep, Commanded
<1>12. CASE Park
  BY <1>12, TargetStable, AlternateDiffers
     DEF Park, Goto, Unmoved, ec, priv, UserOps, TypeOK, ControlInv, UserInv,
         Trusted, InStep, Commanded
<1>13. CASE ClearGate
  BY <1>13, TargetStable, AlternateDiffers
     DEF ClearGate, Unmoved, priv, UserOps, TypeOK, ControlInv, UserInv,
         Trusted, InStep, Commanded
<1>14. CASE Released
  <2>1. (op' = "abort") \/ (op' = "idle" /\ online' = online /\ op \in Releases)
    BY <1>14 DEF Released, End, Call, priv, ControlInv
  <2> QED
    BY <2>1 DEF UserInv, Trusted, UserOps, Releases, ControlInv
<1>15. CASE SetEnable
  <2>1. /\ op = "idle" /\ online /\ (Paced => observed = reg)
        /\ op' \in {"enable", "full"} /\ pc' = "gate"
        /\ UNCHANGED <<ec, priv, faulty>>
    BY <1>15 DEF SetEnable, UserMayEnter, Quiet, Call
  <2>2. Trusted => gate /\ reg = Commanded /\ applied = observed
    BY <2>1 DEF UserInv, Trusted, TypeOK
  <2> QED
    BY <2>1, <2>2 DEF UserInv, Trusted, InStep, Commanded, ec, priv
<1>16. CASE ProbeEnd
  <2>1. /\ UNCHANGED <<ec, fan_manual, fan_pwm, faulty>>
        /\ (UNCHANGED <<online, op, pc, err>>) \/ (op' = "unprobe" /\ ~online')
    BY <1>16 DEF ProbeEnd, Call
  <2> QED
    BY <2>1 DEF UserInv, Trusted, InStep, Commanded, ec
<1>17. CASE Suspend
  BY <1>17, TargetStable, AlternateDiffers
     DEF Suspend, GoDown, Call, Quiet, ec, UserOps, TypeOK, ControlInv, UserInv,
         Trusted, InStep, Commanded
<1>18. CASE Reboot
  BY <1>18, TargetStable, AlternateDiffers
     DEF Reboot, GoDown, Call, Quiet, ec, UserOps, TypeOK, ControlInv, UserInv,
         Trusted, InStep, Commanded
<1>19. CASE Remove
  BY <1>19, TargetStable, AlternateDiffers
     DEF Remove, Call, Quiet, ec, UserOps, TypeOK, ControlInv, UserInv, Trusted,
         InStep, Commanded
<1>20. CASE Resume
  BY <1>20, TargetStable, AlternateDiffers
     DEF Resume, Call, Quiet, ec, priv, UserOps, TypeOK, ControlInv, UserInv,
         Trusted, InStep, Commanded
<1>21. ASSUME NEW f \in Fan, NEW p \in Min..Full, SetPwm(f, p) PROVE UserInv'
  <2>1. /\ op = "idle" /\ online /\ (Paced => observed = reg) /\ fan_manual
        /\ op' = "setpwm" /\ (pc' = "write" \/ (~gate /\ pc' = "gate"))
        /\ UNCHANGED <<ec, priv, faulty>>
    BY <1>21 DEF SetPwm, UserMayEnter, Quiet, Call
  <2>2. Trusted => gate /\ reg = Commanded /\ applied = observed
    BY <2>1 DEF UserInv, Trusted, TypeOK
  <2> QED
    BY <2>1, <2>2 DEF UserInv, Trusted, InStep, Commanded, ec, priv
<1>22. ASSUME NEW h \in BOOLEAN, Probe(h) PROVE UserInv'
  BY <1>22, TargetStable, AlternateDiffers
     DEF Probe, Call, Quiet, All, ec, UserOps, TypeOK, ControlInv, UserInv,
         Trusted, InStep, Commanded
<1>23. CASE Crash
  BY <1>23, TargetStable, AlternateDiffers
     DEF Crash, All, NoRequest, ec, UserOps, TypeOK, ControlInv, UserInv,
         Trusted, InStep, Commanded
<1>24. ASSUME NEW g \in Fan, Sample(g) PROVE UserInv'
  BY <1>24, TargetStable, AlternateDiffers
     DEF Sample, priv, UserOps, TypeOK, ControlInv, UserInv, Trusted, InStep,
         Commanded
<1>25. CASE UNCHANGED vars
  BY <1>25, TargetStable
     DEF vars, ec, priv, TypeOK, ControlInv, UserInv, Trusted, InStep, Commanded
<1> QED
  BY <1>1, <1>2, <1>3, <1>4, <1>5, <1>6, <1>7, <1>8, <1>9, <1>10, <1>11, <1>12,
     <1>13,
      <1>14, <1>15, <1>16, <1>17, <1>18, <1>19, <1>20, <1>21, <1>22, <1>23, <1>24, <1>25
     DEF Next, Driver, Program, Finish, Enter
-----------------------------------------------------------------------------
\* The initial states: nothing runs and nothing has been promised.
LEMMA InitIInv == Init => IInv
<1> SUFFICES ASSUME Init PROVE IInv
  OBVIOUS
<1>1. TypeOK
  BY Names, Initials DEF Init, TypeOK
<1>2. ControlInv
  BY DEF Init, ControlInv, UserOps, Releases
<1>3. ProgramInv /\ ReleaseInv
  BY DEF Init, ProgramInv, ReleaseInv
<1>4. UserInv
  BY DEF Init, UserInv, Trusted, UserOps
<1> QED
  BY <1>1, <1>2, <1>3, <1>4 DEF IInv

\* Every step of the driver, the EC or a crash preserves the invariant.
LEMMA NextIInv == IInv /\ [Next]_vars => IInv'
BY NextTypeOK, NextControlInv, NextProgramInv, NextReleaseInv, NextUserInv
   DEF IInv

\* The invariant holds in every reachable state, whatever the number of fans
\* and the percentages, with and without a paced userspace.
THEOREM Inductive == Spec => []IInv
BY InitIInv, NextIInv, PTL DEF Spec

\* Every variable keeps its type.
THEOREM TypeCorrect == Spec => []TypeOK
<1>1. IInv => TypeOK
  BY DEF IInv
<1> QED
  BY Inductive, <1>1, PTL

\* A hand-back that reported success left every fan at the parking speed under
\* the EC's own control (t6_fan_release_control()).
THEOREM ReleaseParks == Spec => []HandedBackParked
<1>1. IInv => HandedBackParked
  BY DEF IInv, ReleaseInv, HandedBackParked, Quiet
<1> QED
  BY Inductive, <1>1, PTL

\* Without faults, an online device has every command in the registers and in
\* the EC's latch (t6_program_fans_locked(), t6_write_pwm()).
THEOREM CommandsLatch == Spec => []CommandedIsLatched
<1>1. IInv => CommandedIsLatched
  BY DEF IInv, UserInv, Trusted, CommandedIsLatched, Quiet
<1> QED
  BY Inductive, <1>1, PTL

\* t6_platform_suspend() lets the machine sleep only after a complete hand-back.
THEOREM SuspendParks == Spec => SleepsOnlyParked
<1>1. IInv /\ [Next]_vars =>
        [phase' = "asleep" /\ phase # "asleep" /\ op = "suspend" =>
           ~gate' /\ applied' = All(Parked)]_vars
  <2> SUFFICES ASSUME IInv, [Next]_vars, phase' = "asleep", phase # "asleep",
                      op = "suspend"
               PROVE  ~gate' /\ applied' = All(Parked)
    OBVIOUS
  <2>1. Released
    <3>1. op # "idle"
      OBVIOUS
    <3>2. ~Enter /\ ~Crash /\ ~(\E f \in Fan : Sample(f)) /\ ~UNCHANGED vars
      BY <3>1
         DEF Enter, SetEnable, ProbeEnd, Suspend, Reboot, GoDown, Remove,
             Resume,
           SetPwm, Probe, UserMayEnter, Quiet, Crash, Sample, vars
    <3>3. ~Program
      BY DEF Program, GetGate, Compare, WriteFan, SetGate, Settle, Unmoved
    <3> QED
      BY <3>2, <3>3
         DEF Next, Driver, Finish, ReturnToUser, ReturnToSetPwm, WritePwm,
           ReturnToProbe, ReturnToResume, ReturnToRelease, Park, ClearGate, Unmoved, End
  <2>2. ~err /\ pc = "released" /\ UNCHANGED <<gate, applied>>
    BY <2>1 DEF Released, Call, ec
  <2> QED
    BY <2>2 DEF IInv, ReleaseInv
<1> QED
  BY Inductive, <1>1, PTL DEF Spec, SleepsOnlyParked

-----------------------------------------------------------------------------
\* The driver implements FanPromise.

\* A promise is one speed for every fan, or none.
LEMMA PromisedType == TypeOK => Promised = {} \/ Promised \in {{s} : s \in [Fan -> Pct]}
<1> SUFFICES ASSUME TypeOK PROVE Promised = {} \/ Promised \in {{s} : s \in [Fan -> Pct]}
  OBVIOUS
<1>1. Commanded \in [Fan -> Pct] /\ All(Parked) \in [Fan -> Pct]
  BY Initials DEF Commanded, TypeOK
<1>2. Promised \in {{}, {Commanded}, {All(Parked)}}
  BY DEF Promised
<1> QED
  BY <1>1, <1>2

\* Only the EC's sampling moves a fan.
LEMMA OnlyTheECMovesFans ==
  ASSUME [Next]_vars, \A f \in Fan : ~Sample(f)
  PROVE  UNCHANGED applied
BY
   DEF Next, Driver, Program, Finish, Enter, GetGate, Compare, WriteFan,
       SetGate,
       Settle, ReturnToUser, ReturnToSetPwm, WritePwm, ReturnToProbe, ReturnToResume,
       ReturnToRelease, Park, ClearGate, Released, SetEnable, ProbeEnd, Suspend, Reboot,
       GoDown, Remove, Resume, SetPwm, Probe, Crash, vars, ec

\* While a promise stands, a sample leaves a fan alone or brings it to the
\* promised speed.
LEMMA SampleDelivers ==
  ASSUME IInv, Paced, NEW f \in Fan, Sample(f), Promised # {}
  PROVE  UNCHANGED applied \/ \E s \in Promised : applied' = [applied EXCEPT ![f] = s[f]]
<1>1. CASE online
  <2>1. Promised = {Commanded} /\ Quiet /\ ~faulty
    BY <1>1 DEF Promised
  <2>2. reg = Commanded
    BY <1>1, <2>1 DEF IInv, UserInv, Trusted, Quiet
  <2> QED
    BY <2>1, <2>2 DEF Sample
<1>2. CASE ~online
  <2>1. Quiet /\ last = "parked"
    BY <1>2 DEF Promised
  <2>2. ~gate
    BY <1>2, <2>1 DEF IInv, ReleaseInv, Quiet
  <2> QED
    BY <2>2 DEF Sample
<1> QED
  BY <1>1, <1>2

\* With a paced userspace every behaviour of the driver is one of FanPromise.
THEOREM ImplementsPromise == ASSUME Paced PROVE Spec => KeepsPromise
<1>1. Init => Promise!Init
  BY DEF Init, Promise!Init, Promise!Speeds, Promised, Quiet
<1>2. TypeOK' => (Promised = {} \/ Promised \in {{s} : s \in [Fan -> Pct]})'
  BY PromisedType, PTL
<1>3. IInv /\ [Next]_vars => [Promise!Next]_(Promise!vars)
  <2> SUFFICES ASSUME IInv, [Next]_vars PROVE [Promise!Next]_(Promise!vars)
    OBVIOUS
  <2>1. TypeOK /\ TypeOK'
    BY NextIInv DEF IInv
  <2>2. CASE \A f \in Fan : ~Sample(f)
    <3>1. UNCHANGED applied
      BY <2>2, OnlyTheECMovesFans
    <3>2. (Promised = {} \/ Promised \in {{s} : s \in [Fan -> Pct]})'
      BY <1>2, <2>1
    <3>3. Promised' = {} \/ Promised' \in {{s} : s \in Promise!Speeds}
      BY <3>2 DEF Promise!Speeds
    <3>4. Promise!Give \/ Promise!Withdraw
      BY <3>1, <3>3, Zenon DEF Promise!Give, Promise!Withdraw
    <3> QED
      BY <3>4 DEF Promise!Next
  <2>3. ASSUME NEW f \in Fan, Sample(f)
        PROVE  [Promise!Next]_(Promise!vars)
    <3>1. UNCHANGED Promised
      BY <2>3 DEF Sample, Promised, Commanded, Quiet, priv
    <3>2. CASE Promised = {}
      BY <2>1, <3>1, <3>2
         DEF Promise!Next, Promise!Drift, Promise!Speeds, TypeOK
    <3>3. CASE Promised # {}
      <4>1. \/ UNCHANGED applied
            \/ \E s \in Promised : applied' = [applied EXCEPT ![f] = s[f]]
        BY <2>3, <3>3, SampleDelivers
      <4> QED
        BY <3>1, <4>1 DEF Promise!Next, Promise!Deliver, Promise!vars
    <3> QED
      BY <3>2, <3>3
  <2> QED
    BY <2>2, <2>3
<1> QED
  BY Inductive, <1>1, <1>3, PTL DEF Spec, KeepsPromise, Promise!Spec

\* The fans do what they were handed over with, by a hand-back as by a command.
THEOREM HandsOverSafely == Spec => []FanSafe
BY ReleaseParks, CommandsLatch, PTL DEF FanSafe

=============================================================================
