------------------------------- MODULE T6Fan -------------------------------
(***************************************************************************)
(* Fan ownership in the t6_platform kernel driver: the EC's apply-on-change *)
(* latch, the EC-write sequences of t6_core.c that hand the fans over and   *)
(* back, the hwmon writes, and the driver's life cycle as the fans see it   *)
(* (probe, suspend, resume, reboot, remove).  op_lock lets one operation    *)
(* run at a time, so a single program counter stands for "whoever holds     *)
(* op_lock"; the EC samples its registers between any two accesses, and     *)
(* every access may fail, with or without having reached the EC.            *)
(***************************************************************************)
EXTENDS Integers

CONSTANTS
  N,        \* T6_FAN_COUNT
  Full,     \* 100 percent
  Parked,   \* module parameter init_pwm_percent
  Min,      \* module parameter min_pwm_percent
  Paced     \* does userspace leave the EC one sampling period between commands?

\* What t6_platform_init() checks of the module parameters.
ASSUME FanParameters ==
  /\ N \in Nat \ {0}
  /\ Full \in Nat \ {0}
  /\ Min \in 0..(Full - 1)
  /\ Parked \in Min..Full
  /\ Paced \in BOOLEAN

Fan == 1..N
Pct == 0..Full

VARIABLES
  \* the EC
  gate,       \* register 0x59 bit 3: the host's fan writes are honoured
  reg,        \* PWM registers 0x0a, 0x0d, 0x5c
  observed,   \* what the EC's sampler saw last in each register
  applied,    \* what each fan is driven with
  \* struct t6_platform
  online, fan_manual, fan_pwm,
  \* whoever holds op_lock
  op,         \* the handler that runs
  pc,         \* its position in t6_program_fans_locked() and after it
  i,          \* the fan the write loop is at
  err,        \* an error is being returned
  sampled,    \* fans the EC has sampled since the current msleep() began
  request,    \* channel and percentage of the pwm write being served
  \* life cycle and history
  phase,      \* of the device: unbound, binding, bound, asleep, halted
  last,       \* how the last operation ended
  faulty      \* no access has forced the EC to take over since probe or since
              \* an access failed

ec   == <<gate, reg, observed, applied>>
priv == <<online, fan_manual, fan_pwm>>
vars == <<ec, priv, op, pc, i, err, sampled, request, phase, last, faulty>>

All(p) == [f \in Fan |-> p]
NoRequest == [fan |-> 1, pct |-> Parked]

\* Handlers that end in t6_fan_release_control().
Releases == {"suspend", "reboot", "remove", "unprobe", "unresume"}
\* Handlers a user of hwmon starts.
UserOps  == {"enable", "full", "setpwm"}

Handlers == Releases \cup UserOps \cup
            {"idle", "probe_take", "probe_full", "resume", "abort"}
Labels   == {"idle", "gate", "compare", "preload", "setgate", "alternate",
             "settle", "commit", "return", "write", "park", "clear", "released"}
Phases   == {"unbound", "binding", "bound", "asleep", "halted"}
Outcomes == {"none", "ok", "error", "parked"}

\* Handlers that call t6_program_fans_locked() with force = true.
Forcing  == Releases \cup {"resume", "abort"}

\* What the running handler programs, and whether it insists on a transition.
Target == IF op \in Releases THEN All(Parked)
          ELSE IF op \in {"full", "probe_full"} THEN All(Full)
          ELSE IF op \in {"resume", "abort"} /\ ~fan_manual THEN All(Full)
          ELSE fan_pwm
force == op \in Forcing

\* A value next to the target: the observable transition.
Alternate(p) == IF p < Full THEN p + 1 ELSE p - 1

Commanded == IF fan_manual THEN fan_pwm ELSE All(Full)

-----------------------------------------------------------------------------
\* The EC's fan task: a register whose value changed is applied if the gate is
\* open; the value counts as seen either way.
Sample(f) ==
  /\ observed' = [observed EXCEPT ![f] = reg[f]]
  /\ applied' = IF gate /\ reg[f] # observed[f]
                THEN [applied EXCEPT ![f] = reg[f]] ELSE applied
  /\ sampled' = IF pc \in {"settle", "park"} THEN sampled \cup {f} ELSE sampled
  /\ UNCHANGED <<gate, reg, priv, op, pc, i, err, request, phase, last, faulty>>

Call(handler) ==
  /\ op' = handler
  /\ pc' = "gate"
  /\ err' = FALSE

Goto(label) ==
  /\ pc' = label
  /\ UNCHANGED err

Return(ok) ==
  /\ pc' = "return"
  /\ err' = ~ok

Unmoved == UNCHANGED <<priv, op, request, phase, last>>

-----------------------------------------------------------------------------
\* t6_program_fans_locked(), one action per EC access or sleep.

GetGate ==
  /\ pc = "gate"
  /\ \/ Return(FALSE)
     \/ ~gate /\ Goto("preload")
     \/ gate /\ force /\ Goto("alternate")
     \/ gate /\ ~force /\ Goto("compare")
  /\ UNCHANGED <<ec, i, sampled, faulty>>
  /\ Unmoved

Compare ==
  /\ pc = "compare"
  /\ \/ Return(FALSE)
     \/ reg = Target /\ Return(TRUE)
     \/ reg # Target /\ Goto("commit")
  /\ UNCHANGED <<ec, i, sampled, faulty>>
  /\ Unmoved

\* One iteration of t6_write_all_pwm(); a failed write may have landed.
WriteFan ==
  /\ pc \in {"preload", "alternate", "commit"}
  /\ LET value == IF pc = "alternate" THEN Alternate(Target[i]) ELSE Target[i]
         written == [reg EXCEPT ![i] = value]
     IN  \/ /\ reg' = written
            /\ i' = IF i < N THEN i + 1 ELSE 1
            /\ IF i < N THEN Goto(pc)
               ELSE \/ pc = "preload" /\ Goto("setgate")
                    \/ pc = "alternate" /\ Goto("settle")
                    \/ pc = "commit" /\ Return(TRUE)
            /\ UNCHANGED faulty
         \/ /\ reg' \in {reg, written}
            /\ i' = 1
            /\ Return(FALSE)
            /\ faulty' = TRUE
  /\ UNCHANGED <<gate, observed, applied, sampled>>
  /\ Unmoved

SetGate ==
  /\ pc = "setgate"
  /\ \/ gate' = TRUE /\ Goto("alternate") /\ UNCHANGED faulty
     \/ gate' \in {gate, TRUE} /\ Return(FALSE) /\ faulty' = TRUE
  /\ UNCHANGED <<reg, observed, applied, i, sampled>>
  /\ Unmoved

\* msleep(T6_EC_SETTLE_MS) outlasts a sampling period.  In t6_write_pwm() one
\* more write follows the target before the EC need have seen it.
Settle ==
  /\ pc = "settle"
  /\ sampled = Fan
  /\ Goto("commit")
  /\ sampled' = {}
  /\ faulty' = (faulty /\ op = "setpwm")
  /\ UNCHANGED <<ec, i>>
  /\ Unmoved

-----------------------------------------------------------------------------
\* What the handlers do with the result.

End(outcome) ==
  /\ op' = "idle"
  /\ pc' = "idle"
  /\ err' = FALSE
  /\ last' = outcome

\* t6_fan_take_control() and t6_fan_full_speed() called from pwmN_enable.
ReturnToUser ==
  /\ pc = "return"
  /\ op \in {"enable", "full"}
  /\ fan_manual' = IF err THEN fan_manual ELSE op = "enable"
  /\ End(IF err THEN "error" ELSE "ok")
  /\ UNCHANGED <<ec, online, fan_pwm, i, sampled, request, phase, faulty>>

\* t6_write_pwm() after it had to take the gate back.
ReturnToSetPwm ==
  /\ pc = "return"
  /\ op = "setpwm"
  /\ IF err
     THEN End("error") /\ request' = NoRequest /\ UNCHANGED fan_manual
     ELSE /\ fan_manual' = TRUE
          /\ pc' = "write"
          /\ UNCHANGED <<op, err, last, request>>
  /\ UNCHANGED <<ec, online, fan_pwm, i, sampled, phase, faulty>>

\* Mutant: fan_pwm does not follow a successful write.
WritePwmForgets ==
  /\ pc = "write"
  /\ LET written == [reg EXCEPT ![request.fan] = request.pct]
     IN  \/ reg' = written /\ End("ok") /\ UNCHANGED faulty
         \/ reg' \in {reg, written} /\ faulty' = TRUE /\ End("error")
  /\ request' = NoRequest
  /\ UNCHANGED <<gate, observed, applied, online, fan_manual, fan_pwm, i, sampled, phase>>

\* The register write of t6_write_pwm(); fan_pwm follows only on success.
WritePwm ==
  /\ pc = "write"
  /\ LET written == [reg EXCEPT ![request.fan] = request.pct]
     IN  \/ /\ reg' = written
            /\ fan_pwm' = [fan_pwm EXCEPT ![request.fan] = request.pct]
            /\ End("ok")
            /\ UNCHANGED faulty
         \/ /\ reg' \in {reg, written}
            /\ faulty' = TRUE
            /\ End("error")
            /\ UNCHANGED fan_pwm
  /\ request' = NoRequest
  /\ UNCHANGED <<gate, observed, applied, online, fan_manual, i, sampled, phase>>

\* The fan step of probe: on success the device goes online.
ReturnToProbe ==
  /\ pc = "return"
  /\ op \in {"probe_take", "probe_full"}
  /\ IF err
     THEN Call("unprobe") /\ UNCHANGED <<online, fan_manual, phase, last>>
     ELSE /\ fan_manual' = (op = "probe_take")
          /\ online' = TRUE
          /\ phase' = "binding"
          /\ End("ok")
  /\ UNCHANGED <<ec, fan_pwm, i, sampled, request, faulty>>

\* t6_fan_resume() on resume and on an aborted suspend.  The aborted suspend
\* goes online whatever t6_fan_resume() returned.
ReturnToResume ==
  /\ pc = "return"
  /\ op \in {"resume", "abort"}
  /\ faulty' = (faulty \/ err)
  /\ IF op = "resume" /\ err
     THEN Call("unresume") /\ UNCHANGED <<online, phase, last>>
     ELSE /\ online' = TRUE
          /\ phase' = "bound"
          /\ End(IF err THEN "error" ELSE "ok")
  /\ UNCHANGED <<ec, fan_manual, fan_pwm, i, sampled, request>>

\* t6_fan_release_control(): sleep only if the parking went through, but give
\* the gate back in any case.
ReturnToRelease ==
  /\ pc = "return"
  /\ op \in Releases
  /\ Goto(IF err THEN "clear" ELSE "park")
  /\ UNCHANGED <<ec, i, sampled, faulty>>
  /\ Unmoved

\* Mutant: the gate is given back without waiting for the EC.
ParkAtOnce ==
  /\ pc = "park"
  /\ Goto("clear")
  /\ sampled' = {}
  /\ UNCHANGED <<ec, i, faulty>>
  /\ Unmoved

Park ==
  /\ pc = "park"
  /\ sampled = Fan
  /\ Goto("clear")
  /\ sampled' = {}
  /\ UNCHANGED <<ec, i, faulty>>
  /\ Unmoved

ClearGate ==
  /\ pc = "clear"
  /\ pc' = "released"
  /\ \/ gate' = FALSE /\ UNCHANGED <<err, faulty>>
     \/ gate' \in {gate, FALSE} /\ err' = TRUE /\ faulty' = TRUE
  /\ UNCHANGED <<reg, observed, applied, i, sampled>>
  /\ Unmoved

\* Mutants: suspend goes through although the release failed; a failed suspend
\* is tried again instead of undone.
ReleasedAnyway ==
  /\ pc = "released"
  /\ End(IF err THEN "error" ELSE "parked")
  /\ phase' = CASE op = "suspend"  -> "asleep"
                [] op = "reboot"   -> "halted"
                [] op = "unresume" -> "bound"
                [] OTHER           -> "unbound"
  /\ UNCHANGED <<ec, priv, i, sampled, request, faulty>>
ReleasedRetries ==
  /\ pc = "released"
  /\ IF op = "suspend"
     THEN Call("suspend") /\ UNCHANGED <<phase, last>>
     ELSE End("error") /\ phase' = "unbound"
  /\ UNCHANGED <<ec, priv, i, sampled, request, faulty>>

\* The end of the releasing handlers.  Suspend goes through only if both the
\* fans and the charge policy (chargeOk) were handed back; otherwise it undoes
\* itself.
Released ==
  /\ pc = "released"
  /\ \E chargeOk \in BOOLEAN :
       IF op = "suspend" /\ (err \/ ~chargeOk)
       THEN Call("abort") /\ UNCHANGED <<phase, last>>
       ELSE /\ End(IF err THEN "error" ELSE "parked")
            /\ phase' = CASE op = "suspend"  -> "asleep"
                          [] op = "reboot"   -> "halted"
                          [] op = "unresume" -> "bound"
                          [] OTHER           -> "unbound"
  /\ UNCHANGED <<ec, priv, i, sampled, request, faulty>>

-----------------------------------------------------------------------------
\* Entry points.  t6_platform_op_begin() admits a user only when online.

Quiet == op = "idle"
UserMayEnter == Quiet /\ online /\ (Paced => observed = reg)

\* pwmN_enable = 1 and = 0.
SetEnable ==
  /\ UserMayEnter
  /\ \E handler \in {"enable", "full"} : Call(handler)
  /\ UNCHANGED <<ec, priv, i, sampled, request, phase, last, faulty>>

\* pwmN = value: refused outside manual mode; a closed gate is taken back
\* first.  (A failed read of the gate leaves everything as it was.)
SetPwm(f, p) ==
  /\ UserMayEnter
  /\ fan_manual
  /\ request' = [fan |-> f, pct |-> p]
  /\ \/ gate /\ op' = "setpwm" /\ pc' = "write" /\ UNCHANGED err
     \/ ~gate /\ Call("setpwm")
  /\ UNCHANGED <<ec, priv, i, sampled, phase, last, faulty>>

Probe(hostControl) ==
  /\ Quiet
  /\ phase = "unbound"
  /\ fan_manual' = hostControl
  /\ fan_pwm' = All(Parked)
  /\ Call(IF hostControl THEN "probe_take" ELSE "probe_full")
  /\ faulty' = TRUE
  /\ UNCHANGED <<ec, online, i, sampled, request, phase, last>>

\* Backlight and reboot notifier are registered after going online; if either
\* fails, probe undoes itself while users may already be at work.
ProbeEnd ==
  /\ Quiet
  /\ phase = "binding"
  /\ \/ phase' = "bound" /\ UNCHANGED <<online, op, pc, err>>
     \/ online' = FALSE /\ Call("unprobe") /\ UNCHANGED phase
  /\ UNCHANGED <<ec, fan_manual, fan_pwm, i, sampled, request, last, faulty>>

\* Suspend and the reboot notifier have nothing to do when already offline.
GoDown(handler, there) ==
  /\ Quiet
  /\ phase = "bound"
  /\ online' = FALSE
  /\ \/ online /\ Call(handler) /\ UNCHANGED phase
     \/ ~online /\ phase' = there /\ UNCHANGED <<op, pc, err>>
  /\ UNCHANGED <<ec, fan_manual, fan_pwm, i, sampled, request, last, faulty>>

Suspend == GoDown("suspend", "asleep")
Reboot == GoDown("reboot", "halted")

Remove ==
  /\ Quiet
  /\ phase = "bound"
  /\ online' = FALSE
  /\ Call("remove")
  /\ UNCHANGED <<ec, fan_manual, fan_pwm, i, sampled, request, phase, last, faulty>>

Resume ==
  /\ Quiet
  /\ phase = "asleep"
  /\ Call("resume")
  /\ UNCHANGED <<ec, priv, i, sampled, request, phase, last, faulty>>

-----------------------------------------------------------------------------
\* The host dies (panic, power loss without the reboot notifier): the driver's
\* memory is gone, the EC keeps its registers, and the module is loaded again.
Crash ==
  /\ phase # "unbound"
  /\ online' = FALSE /\ fan_manual' = TRUE /\ fan_pwm' = All(Parked)
  /\ op' = "idle" /\ pc' = "idle" /\ i' = 1 /\ err' = FALSE
  /\ sampled' = {} /\ request' = NoRequest
  /\ phase' = "unbound" /\ last' = "none" /\ faulty' = TRUE
  /\ UNCHANGED ec

\* The EC's registers may hold anything when the module is first loaded; the
\* gate is closed until a host opens it.
Init ==
  /\ gate = FALSE
  /\ reg \in [Fan -> Pct]
  /\ observed \in [Fan -> Pct]
  /\ applied \in [Fan -> Pct]
  /\ online = FALSE
  /\ fan_manual = TRUE
  /\ fan_pwm = All(Parked)
  /\ op = "idle"
  /\ pc = "idle"
  /\ i = 1
  /\ err = FALSE
  /\ sampled = {}
  /\ request = NoRequest
  /\ phase = "unbound"
  /\ last = "none"
  /\ faulty = TRUE

Program == GetGate \/ Compare \/ WriteFan \/ SetGate \/ Settle
Finish == \/ ReturnToUser \/ ReturnToSetPwm \/ WritePwm \/ ReturnToProbe
          \/ ReturnToResume \/ ReturnToRelease \/ Park \/ ClearGate \/ Released
Driver == Program \/ Finish
Enter == \/ SetEnable \/ ProbeEnd \/ Suspend \/ Reboot \/ Remove \/ Resume
         \/ \E f \in Fan, p \in Min..Full : SetPwm(f, p)
         \/ \E hostControl \in BOOLEAN : Probe(hostControl)

Next == Driver \/ Enter \/ Crash \/ \E f \in Fan : Sample(f)

Spec == Init /\ [][Next]_vars

\* A handler that entered runs to its end, and the EC keeps sampling.
FairSpec == Spec /\ WF_vars(Driver) /\ \A f \in Fan : WF_vars(Sample(f))

-----------------------------------------------------------------------------
\* Type invariant.
TypeOK ==
  /\ gate \in BOOLEAN
  /\ reg \in [Fan -> Pct]
  /\ observed \in [Fan -> Pct]
  /\ applied \in [Fan -> Pct]
  /\ online \in BOOLEAN
  /\ fan_manual \in BOOLEAN
  /\ fan_pwm \in [Fan -> Pct]
  /\ op \in Handlers
  /\ pc \in Labels
  /\ i \in Fan
  /\ err \in BOOLEAN
  /\ sampled \in SUBSET Fan
  /\ request \in [fan : Fan, pct : Pct]
  /\ phase \in Phases
  /\ last \in Outcomes
  /\ faulty \in BOOLEAN

\* Once a hand-back (suspend, reboot, removal, failed probe or resume) reports
\* success, the EC owns the gate and every fan really runs at init_pwm_percent:
\* not merely a register that holds it, and whatever the EC had seen before.
HandedBackParked ==
  Quiet /\ last = "parked" /\ ~online => ~gate /\ applied = All(Parked)

\* While the device is online and no access has failed since the EC was last
\* forced to take over, the registers hold what the driver believes it
\* commanded (manual speeds, or full speed outside manual mode), the gate is
\* open, and no fan is stuck: a register the EC has already seen is applied.
CommandedIsLatched ==
  Paced /\ Quiet /\ online /\ ~faulty =>
    /\ gate
    /\ reg = Commanded
    /\ \A f \in Fan : observed[f] = reg[f] => applied[f] = reg[f]

\* The machine never sleeps on a suspend that failed: unless the device had
\* already been offline, it is asleep only after a complete hand-back.
SleepsOnlyParked ==
  [][phase' = "asleep" /\ phase # "asleep" /\ op = "suspend" =>
       ~gate' /\ applied' = All(Parked)]_vars

\* Every handler that takes op_lock ends, so that nothing else waits for ever.
EveryOperationEnds == []<>(op = "idle")

\* Handed over either way, the fans do what they were handed over with.
FanSafe == HandedBackParked /\ CommandedIsLatched

\* What the driver promises in a state: the commanded speeds, the parked ones,
\* or, while an operation runs and after a fault, nothing.
Promised ==
  IF ~Quiet THEN {}
  ELSE IF online THEN IF faulty THEN {} ELSE {Commanded}
  ELSE IF last = "parked" THEN {All(Parked)} ELSE {}
Promise == INSTANCE FanPromise WITH promise <- Promised, speed <- applied

\* With a paced userspace the driver implements FanPromise: between two
\* operations no fan moves but to the speed promised, whatever the EC had
\* latched before ...
KeepsPromise == Promise!Spec
\* ... and, the EC sampling, it gets there.
DeliversPromise == Promise!FairSpec

\* No handler hangs, and what was promised comes.
LivesUp == EveryOperationEnds /\ DeliversPromise

-----------------------------------------------------------------------------
\* Statements of the sources that a run refutes.

\* README: pwmN_enable = 0 "forces all channels to full speed".
ZeroForcesFullSpeed ==
  Quiet /\ online /\ ~fan_manual /\ last = "ok" =>
    gate /\ \A f \in Fan : applied[f] = Full \/ observed[f] # Full

=============================================================================
