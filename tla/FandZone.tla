------------------------------ MODULE FandZone ------------------------------
(***************************************************************************)
(* One zone of t6-fand (crates/t6-fand/src/curve.rs): the controller that   *)
(* turns the hottest reading of a zone into the duty of its fan.  Low-pass  *)
(* filter, emergency bypass, curve, hysteresis, start kick, stall recovery  *)
(* and ramp limits are one step, as in Controller::step().                  *)
(*                                                                          *)
(* Temperatures, duties and seconds are whole numbers; the exponential      *)
(* filter moves the filtered temperature by any amount towards the reading. *)
(***************************************************************************)
EXTENDS Integers

CONSTANTS
  Temps,          \* readings, a range of numbers
  Curves,         \* curves as functions from Temps to percent
  Dts,            \* seconds that may pass between two steps
  Filtering,      \* tau > 0
  emergency_temp, emergency_secs, emergency_ramp,
  hysteresis, ramp_up, ramp_down, min_pwm, start_pwm, kick_secs,
  failsafe_pwm,
  None            \* Option::None

Percent == 0..100

\* What Config::validate() checks, and two things it leaves to the user: the
\* duty can move, and the fail-safe is no duty below the running floor.
ASSUME ZoneParameters ==
  /\ Temps \subseteq Int /\ None \notin Int
  /\ Curves \subseteq [Temps -> Percent]
  /\ Dts \subseteq Nat \ {0}
  /\ Filtering \in BOOLEAN
  /\ emergency_temp \in Temps /\ emergency_secs \in Nat /\ emergency_ramp \in Nat \ {0}
  /\ hysteresis \in Nat
  /\ ramp_up \in Nat \ {0} /\ ramp_down \in Nat \ {0}
  /\ min_pwm \in Percent \ {0} /\ start_pwm \in Percent
  /\ kick_secs \in Nat
  /\ failsafe_pwm \in Percent
  /\ failsafe_pwm >= min_pwm

\* The tachometer: no pulses, some, or not readable.
Rpms == {"zero", "some", "none"}

VARIABLES
  temp,        \* the hottest reading, or None: no sensor could be read
  rpm,         \* the tachometer at the last step
  curve,       \* the curve of the active profile
  \* struct Controller
  output, filtered, anchor, kick_left, zero_rpm_cycles, hot_secs,
  \* history: the filtered temperature at the last rise that the temperature
  \* caused, and the lowest one since; None after a kick or a fail-safe
  rise, low

ctl == <<output, filtered, anchor, kick_left, zero_rpm_cycles, hot_secs>>
vars == <<temp, rpm, curve, ctl, rise, low>>

Max2(a, b) == IF a >= b THEN a ELSE b
Min2(a, b) == IF a <= b THEN a ELSE b

\* Where the filter may leave the temperature.
Filter(t) ==
  IF filtered = None \/ ~Filtering THEN {t}
  ELSE {f \in Temps : \/ filtered < f /\ f <= t
                      \/ t <= f /\ f < filtered
                      \/ t = f /\ f = filtered}

\* The duty the curve asks for at a filtered temperature.
Target(c, t) == IF c[t] = 0 THEN 0 ELSE Max2(c[t], min_pwm)

\* hot_secs is only compared with emergency_secs, where it saturates here.
Hot(t, dt) == IF t >= emergency_temp THEN Min2(hot_secs + dt, emergency_secs) ELSE 0

Emergency(t, dt) == t >= emergency_temp /\ Hot(t, dt) >= emergency_secs

\* After a rise the duty is held until the temperature has come back down.
Held(target, t) == target < output /\ anchor # None /\ t > anchor - hysteresis

Anchor(target, t) ==
  IF target > output THEN t
  ELSE IF target < output /\ ~Held(target, t) THEN None ELSE anchor

-----------------------------------------------------------------------------
\* The three ways of a step, for a target, and the anchor it leaves.

\* From standstill.
Start(target, a) ==
  /\ output = 0 /\ target > 0
  /\ output' = Max2(target, start_pwm)
  /\ kick_left' = kick_secs
  /\ zero_rpm_cycles' = 0
  /\ anchor' = a
  /\ rise' = None /\ low' = None

\* Mutant: the end of a kick leaves the anchor, as if the kick were a rise.
KickAnchored(target, a, dt) ==
  /\ ~(output = 0 /\ target > 0)
  /\ kick_left > 0
  /\ kick_left' = Max2(kick_left - dt, 0)
  /\ anchor' = a
  /\ output' = Max2(output, target)
  /\ rise' = None /\ low' = None
  /\ UNCHANGED zero_rpm_cycles

\* While the kick lasts.  Its end is no rise of the temperature's.
Kick(target, a, dt) ==
  /\ ~(output = 0 /\ target > 0)
  /\ kick_left > 0
  /\ kick_left' = Max2(kick_left - dt, 0)
  /\ anchor' = IF kick_left' = 0 THEN None ELSE a
  /\ output' = Max2(output, target)
  /\ rise' = None /\ low' = None
  /\ UNCHANGED zero_rpm_cycles

\* The tachometer is looked at only while the fan is to run at its floor or more.
Counted == output > 0 /\ output >= min_pwm
Zeros(r) == IF ~Counted THEN zero_rpm_cycles
            ELSE IF r = "zero" THEN zero_rpm_cycles + 1 ELSE 0

Stalled(r) == Counted /\ Zeros(r) >= 3

Recover(target, a, r) ==
  /\ ~(output = 0 /\ target > 0) /\ kick_left = 0
  /\ Stalled(r)
  /\ zero_rpm_cycles' = 0
  /\ kick_left' = kick_secs
  /\ output' = Max2(output, start_pwm)
  /\ anchor' = a
  /\ rise' = None /\ low' = None

\* The next duty on the way to the target; below the floor a stop is at once.
Next0(target, t, dt) ==
  IF target > output
  THEN Min2(output + (IF Emergency(t, dt) THEN emergency_ramp ELSE ramp_up) * dt, target)
  ELSE Max2(output - ramp_down * dt, target)

\* Mutant: a stop lingers on the way.
Linger(target, next) == next

Snap(target, next) == IF target = 0 /\ next < min_pwm THEN 0 ELSE next

Ramp(target, a, t, r, reading, dt) ==
  /\ ~(output = 0 /\ target > 0) /\ kick_left = 0
  /\ ~Stalled(r)
  /\ zero_rpm_cycles' = Zeros(r)
  /\ output' = Snap(target, Next0(target, reading, dt))
  /\ anchor' = a
  /\ UNCHANGED kick_left
  /\ IF output' > output THEN rise' = t /\ low' = t
     ELSE /\ rise' = rise
          /\ low' = IF low = None THEN None ELSE Min2(low, t)

-----------------------------------------------------------------------------
\* Mutant: no hysteresis.
ControlStepFlapping(reading, r, dt) ==
  \E t \in IF Emergency(reading, dt) THEN {reading} ELSE Filter(reading) :
    LET target == Target(curve, t)
        a == Anchor(target, t)
    IN  /\ filtered' = t
        /\ hot_secs' = Hot(reading, dt)
        /\ Start(target, a) \/ Kick(target, a, dt) \/ Recover(target, a, r)
           \/ Ramp(target, a, t, r, reading, dt)

\* Controller::step()
ControlStep(reading, r, dt) ==
  \E t \in IF Emergency(reading, dt) THEN {reading} ELSE Filter(reading) :
    LET wanted == Target(curve, t)
        target == IF Held(wanted, t) THEN output ELSE wanted
        a == Anchor(wanted, t)
    IN  /\ filtered' = t
        /\ hot_secs' = Hot(reading, dt)
        /\ Start(target, a) \/ Kick(target, a, dt) \/ Recover(target, a, r)
           \/ Ramp(target, a, t, r, reading, dt)

\* Controller::force(): everything but the filter starts over.
ForceDuty ==
  /\ output' = failsafe_pwm
  /\ anchor' = None /\ kick_left' = 0 /\ zero_rpm_cycles' = 0 /\ hot_secs' = 0
  /\ rise' = None /\ low' = None
  /\ UNCHANGED filtered

\* The zone's part of Daemon::step().
Control(reading, r, dt) ==
  /\ temp' = reading /\ rpm' = r
  /\ IF reading = None THEN ForceDuty ELSE ControlStep(reading, r, dt)
  /\ UNCHANGED curve

Tick == \E reading \in Temps \cup {None}, r \in Rpms, dt \in Dts : Control(reading, r, dt)

\* The profile is read anew at every step.
SetProfile ==
  /\ curve' \in Curves
  /\ UNCHANGED <<temp, rpm, ctl, rise, low>>

\* The daemon starts, or reads its configuration again, and parks the fan.
Init ==
  /\ temp = None /\ rpm = "none"
  /\ curve \in Curves
  /\ output = failsafe_pwm
  /\ filtered = None /\ anchor = None
  /\ kick_left = 0 /\ zero_rpm_cycles = 0 /\ hot_secs = 0
  /\ rise = None /\ low = None

Next == Tick \/ SetProfile

Spec == Init /\ [][Next]_vars

\* The daemon's loop goes on.
FairSpec == Spec /\ WF_vars(Tick)

-----------------------------------------------------------------------------
TypeOK ==
  /\ temp \in Temps \cup {None} /\ rpm \in Rpms
  /\ curve \in Curves
  /\ output \in Percent
  /\ filtered \in Temps \cup {None} /\ anchor \in Temps \cup {None}
  /\ kick_left \in 0..kick_secs /\ zero_rpm_cycles \in 0..2
  /\ hot_secs \in 0..emergency_secs
  /\ rise \in Temps \cup {None} /\ low \in Temps \cup {None}

\* A fan stands still or runs at its floor at least: no ramp, kick or hold
\* leaves it at a duty it stalls at.
FloorKept == output = 0 \/ output >= min_pwm

\* A duty that the temperature raised comes down only once the temperature has
\* been hysteresis degrees below that rise; a kick or a fail-safe is no rise.
NotFlapping ==
  temp' # None /\ output' < output =>
    rise' = None \/ (low' # None /\ low' <= rise' - hysteresis)
NoFlapping == [][NotFlapping]_vars

\* Between a rise and the fall that ends it, the anchor is where it happened.
AnchorInv ==
  rise # None =>
    /\ low # None
    /\ anchor = rise \/ low <= rise - hysteresis

IInv == TypeOK /\ FloorKept /\ AnchorInv

\* In sustained heat nothing slows the fan down: not the filter, not a held
\* duty, not a kick (only the step that notices a stall spends itself on it).
Rising ==
  /\ temp' # None /\ temp' >= emergency_temp /\ hot_secs' = emergency_secs
  /\ rpm' # "zero" /\ UNCHANGED curve
  => output' >= Min2(Target(curve, temp'), output + emergency_ramp)
EmergencyRises == [][Rising]_vars

\* At a steady temperature the fan ends up at the duty of the curve, or above
\* it within the hysteresis of a rise: the filter converges, no ramp stops
\* short, and what a kick or a fail-safe added decays.
SettlesOnCurve ==
  \A t \in Temps, c \in Curves :
    <>[](temp = t /\ curve = c /\ rpm # "zero") =>
      <>[](\/ output = Target(c, t)
           \/ output > Target(c, t) /\ rise # None /\ t > rise - hysteresis)

\* A fan that is to run but does not turn is kicked again and again.
StalledIsKicked ==
  <>[](rpm = "zero" /\ temp # None /\ output > 0) =>
    []<>(kick_left > 0 /\ output >= start_pwm)

\* Both, as one thing a step of the controller may never do: slow a fan down too early,
\* or in sustained heat (curve.rs: step()).
ZoneSteps == [][NotFlapping /\ Rising]_vars

\* And both of what must come in the end (curve.rs: step()).
ZoneSettles == SettlesOnCurve /\ StalledIsKicked

=============================================================================
