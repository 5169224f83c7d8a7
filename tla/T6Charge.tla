------------------------------ MODULE T6Charge ------------------------------
(***************************************************************************)
(* The charge thresholds and the battery LED of the t6_platform driver      *)
(* (t6_charge.c): who owns charging (EC register 0x57), the hysteresis      *)
(* between the thresholds, the retry of a hand-back that failed, the        *)
(* delayed work that polls, the AC notifier that starts it, the LED byte    *)
(* 0xa1 that the policy shares with t6_leds.c, and all of it through probe, *)
(* suspend, resume, reboot and removal.  Every handler runs under op_lock   *)
(* and charge_lock and is one step; each of its EC accesses may fail, a     *)
(* write with or without having reached the EC.                             *)
(***************************************************************************)
EXTENDS Integers

CONSTANTS
  Full,       \* 100 percent
  LowSoc,     \* T6_BATLED_LOW_SOC
  DefStart,   \* module parameter charge_start_threshold
  DefEnd      \* module parameter charge_end_threshold

ASSUME ChargeParameters ==
  /\ Full \in Nat \ {0}
  /\ LowSoc \in 0..Full
  /\ DefStart \in Nat
  /\ DefEnd \in Nat

VARIABLES
  \* the EC and the pack
  owner, enable,    \* register 0x57, bits 5 and 6: the host decides, and charges
  led,              \* register 0xa1
  ac, soc,          \* AC present (0x57 bits 3:2), register 0x7c
  \* struct t6_platform
  charge_start, charge_end, charge_enabled, charge_recovery_pending,
  batled_low, online,
  work,             \* charge_work is queued
  \* the power-supply notifier
  event,            \* an AC change is still to be notified
  notifying,        \* the notifier has seen the device online and will queue
  \* life cycle and history
  phase,
  bad,              \* the last handler to apply a policy met an error
  moved             \* the charge moved since a policy was last applied

reg0x57 == <<owner, enable>>
pack    == <<ac, soc>>
band    == <<charge_start, charge_end>>
policy  == <<charge_enabled, charge_recovery_pending, batled_low>>
async   == <<event, notifying>>
vars    == <<reg0x57, led, pack, band, policy, online, work, async, phase, bad, moved>>

Soc == 0..Full
\* What the byte 0xa1 may say: the policy's values, and a user's green.
PolicyLeds == {"dark", "orange", "red"}
UserLeds   == {"orange", "red", "green"}
Leds       == {"ec"} \cup PolicyLeds \cup UserLeds

Phases == {"unbound", "start_default", "end_default", "fans", "binding", "bound",
           "suspending", "aborting", "asleep", "rebooting", "halted",
           "undoing", "removing", "releasing"}

\* t6_charge_host_active() for a given band.
Active(s, e) == s # 0 \/ e # Full
HostActive == Active(charge_start, charge_end)
Recovering == HostActive \/ charge_recovery_pending

Low == ~ac /\ soc < LowSoc

-----------------------------------------------------------------------------
\* EC accesses: ok says whether the call returned 0.

\* t6_ec_update_bits() on OWNER and ENABLE.
UpdateBits(o, e, ok) ==
  \/ owner' = o /\ enable' = e
  \/ ~ok /\ UNCHANGED reg0x57

UpdateLed(want, ok) == led' = want \/ (~ok /\ UNCHANGED led)

\* t6_charge_set_led() with a band or not.
Wanted(active, handback) ==
  IF Low THEN "red"
  ELSE IF active THEN IF ac THEN "dark" ELSE "orange"
  ELSE IF handback \/ batled_low THEN "ec" ELSE "as is"

SetLed(active, handback, ok) ==
  LET want == Wanted(active, handback)
  IN  IF want = "as is" THEN ok /\ UNCHANGED <<led, batled_low>>
      ELSE /\ UpdateLed(want, ok)
           /\ batled_low' = IF ok THEN Low ELSE batled_low

\* Mutants of the hysteresis: charging stops only above the end threshold; it
\* has no memory.
EnabledPast(s, e) == soc <= e /\ (soc <= s \/ charge_enabled)
EnabledBelow(s, e) == soc < e

\* The hysteresis.
Enabled(s, e) == soc < e /\ (soc <= s \/ charge_enabled)

\* Mutant: a hand-back that could not even read 0x57 is forgotten.
ApplyBlindForgets(s, e) ==
  UNCHANGED <<reg0x57, led, charge_enabled, batled_low, charge_recovery_pending>>

\* 0x57, or with a band 0x7c, cannot even be read.
ApplyBlind(s, e) ==
  /\ charge_recovery_pending' = (charge_recovery_pending \/ ~Active(s, e))
  /\ UNCHANGED <<reg0x57, led, charge_enabled, batled_low>>

\* t6_charge_apply() without a band: charging and LED back to the EC.  Any of
\* the accesses to 0x57, 0x7c and 0xa1 may be the one that fails.
ApplyNone(ok) ==
  /\ charge_enabled' = FALSE
  /\ charge_recovery_pending' = ~ok
  /\ \/ ~ok /\ UpdateBits(FALSE, FALSE, FALSE) /\ UNCHANGED <<led, batled_low>>
     \/ UpdateBits(FALSE, FALSE, TRUE) /\ SetLed(FALSE, TRUE, ok)

\* ... and with the band s..e.
ApplyBand(s, e, ok) ==
  /\ charge_enabled' = Enabled(s, e)
  /\ \/ /\ ~ok
        /\ UpdateBits(TRUE, Enabled(s, e), FALSE)
        /\ UNCHANGED <<led, batled_low, charge_recovery_pending>>
     \/ /\ UpdateBits(TRUE, Enabled(s, e), TRUE)
        /\ SetLed(TRUE, TRUE, ok)
        /\ charge_recovery_pending' = FALSE

Apply(s, e, ok) ==
  /\ \/ ~ok /\ ApplyBlind(s, e)
     \/ ~Active(s, e) /\ ApplyNone(ok)
     \/ Active(s, e) /\ ApplyBand(s, e, ok)
  /\ bad' = ~ok
  /\ moved' = (moved /\ ~ok)

\* t6_charge_return_to_ec(), as called by release and suspend.
ReturnToEc(ok) ==
  /\ \/ ~ok /\ UpdateBits(FALSE, FALSE, FALSE) /\ UNCHANGED <<led, batled_low>>
     \/ /\ UpdateBits(FALSE, FALSE, TRUE)
        /\ UpdateLed("ec", ok)
        /\ batled_low' = (batled_low /\ ~ok)
  /\ charge_recovery_pending' = ~ok
  /\ bad' = ~ok
  /\ moved' = (moved /\ ~ok)

\* t6_charge_release().
Release(ok) ==
  /\ charge_start' = 0 /\ charge_end' = Full
  /\ charge_enabled' = FALSE
  /\ ReturnToEc(ok)

-----------------------------------------------------------------------------
\* charge_control_{start,end}_threshold: the new band is kept even if the EC
\* cannot be told, and the work is armed again only if there is a band or a
\* hand-back to retry.
SetThreshold(s, e, ok) ==
  IF e > Full \/ s >= e
  THEN ~ok /\ UNCHANGED <<reg0x57, led, band, policy, work, bad, moved>>
  ELSE /\ charge_start' = s /\ charge_end' = e
       /\ Apply(s, e, ok)
       /\ work' = (Active(s, e) \/ charge_recovery_pending')

StoreThreshold(set_start, value) ==
  /\ online
  /\ \E ok \in BOOLEAN :
       IF set_start THEN SetThreshold(value, charge_end, ok)
       ELSE SetThreshold(charge_start, value, ok)
  /\ UNCHANGED <<pack, online, async, phase>>

\* charge_work.  The queue is freezable: nothing runs while the system sleeps,
\* and op_lock holds the work off during an aborted suspend.
Frozen == phase \in {"suspending", "aborting", "asleep"}

WorkOffline ==
  /\ ~online
  /\ work' = FALSE
  /\ UNCHANGED <<reg0x57, led, policy, bad, moved>>

WorkPolicy(ok) ==
  /\ online /\ Recovering
  /\ Apply(charge_start, charge_end, ok)
  /\ work' = (HostActive \/ charge_recovery_pending')

\* t6_charge_led_update()
WorkLed(ok) ==
  /\ online /\ ~Recovering
  /\ \/ ~ok /\ UNCHANGED <<led, batled_low>>
     \/ SetLed(FALSE, FALSE, ok)
  /\ work' = (~ok \/ batled_low' \/ ~ac)
  /\ bad' = ~ok
  /\ UNCHANGED <<reg0x57, charge_enabled, charge_recovery_pending, moved>>

\* Mutant: an error ends the polling.
WorkGivesUp(ok) ==
  /\ work /\ ~Frozen
  /\ WorkOffline \/ WorkLed(ok) \/ (WorkPolicy(TRUE) /\ ok)
     \/ /\ ~ok /\ online /\ Recovering
        /\ Apply(charge_start, charge_end, FALSE)
        /\ work' = FALSE
  /\ UNCHANGED <<pack, band, online, async, phase>>

Work(ok) ==
  /\ work /\ ~Frozen
  /\ WorkOffline \/ WorkPolicy(ok) \/ WorkLed(ok)
  /\ UNCHANGED <<pack, band, online, async, phase>>

\* t6_charge_psy_notify(): online is read without a lock, the work is queued
\* later.  The notifier is registered from probe to unregistration.
Registered == phase \notin {"unbound", "releasing"}

NotifyRead ==
  /\ event /\ ~notifying /\ Registered
  /\ event' = FALSE
  /\ notifying' = online
  /\ UNCHANGED <<reg0x57, led, pack, band, policy, online, work, phase, bad, moved>>

NotifyQueue ==
  /\ notifying
  /\ notifying' = FALSE
  /\ work' = TRUE
  /\ UNCHANGED <<reg0x57, led, pack, band, policy, online, event, phase, bad, moved>>

\* t6_led_set_blocking() on a battery LED.  The policy's byte is refused; off
\* clears the byte only if it shows this very colour.
OwnsBatteryLed == HostActive \/ batled_low

SetBatteryLed(colour, on) ==
  /\ online /\ ~OwnsBatteryLed
  /\ led' = IF on THEN colour ELSE IF led = colour THEN "ec" ELSE led
  /\ UNCHANGED <<reg0x57, pack, band, policy, online, work, async, phase, bad, moved>>

-----------------------------------------------------------------------------
\* Probe.

HasDefaults == DefStart # 0 \/ DefEnd # Full

\* t6_charge_register(): the EC's policy first, whoever was there before.
Register ==
  /\ phase = "unbound"
  /\ \E ok \in BOOLEAN :
       /\ Release(ok)
       \* the notifier may fail to register, too
       /\ \/ phase' = "unbound"
          \/ ok /\ phase' = IF HasDefaults THEN "start_default" ELSE "fans"
  /\ work' = FALSE
  /\ event' = FALSE
  /\ UNCHANGED <<pack, online, notifying>>

\* The module parameters, one threshold after the other.
DefaultStart ==
  /\ phase = "start_default"
  /\ \E ok \in BOOLEAN :
       /\ SetThreshold(DefStart, charge_end, ok)
       /\ phase' = IF ok THEN "end_default" ELSE "fans"
  /\ UNCHANGED <<pack, online, async>>

DefaultEnd ==
  /\ phase = "end_default"
  /\ \E ok \in BOOLEAN : SetThreshold(charge_start, DefEnd, ok)
  /\ phase' = "fans"
  /\ UNCHANGED <<pack, online, async>>

GoOnline ==
  /\ phase = "fans"
  /\ phase' = "binding"
  /\ online' = TRUE
  /\ UNCHANGED <<reg0x57, led, pack, band, policy, work, async, bad, moved>>

\* t6_charge_resume(), also at the end of probe.
ChargeResume ==
  IF Recovering
  THEN \E ok \in BOOLEAN :
         /\ Apply(charge_start, charge_end, ok)
         /\ work' = (HostActive \/ charge_recovery_pending' \/ work)
  ELSE work' = TRUE /\ UNCHANGED <<reg0x57, led, policy, bad, moved>>

ProbeDone ==
  /\ phase = "binding"
  /\ phase' = "bound"
  /\ ChargeResume
  /\ UNCHANGED <<pack, band, online, async>>

\* A later step of probe fails: release, then unregister.
ProbeUndo ==
  /\ phase \in {"fans", "binding"}
  /\ phase' = "undoing"
  /\ online' = FALSE
  /\ work' = FALSE
  /\ \E ok \in BOOLEAN : Release(ok)
  /\ UNCHANGED <<pack, async>>

\* power_supply_unreg_notifier() waits for a running notifier, and only then
\* is the work cancelled for good.
Unregister(from, to) ==
  /\ phase = from
  /\ ~notifying
  /\ event' = FALSE
  /\ work' = FALSE
  /\ phase' = to
  /\ UNCHANGED <<reg0x57, led, pack, band, policy, online, notifying, bad, moved>>

-----------------------------------------------------------------------------
\* Suspend, resume, reboot, removal.

\* online is withdrawn, then charge_work is cancelled.
GoOffline(from, to) ==
  /\ phase = from /\ online
  /\ online' = FALSE
  /\ work' = FALSE
  /\ phase' = to
  /\ UNCHANGED <<reg0x57, led, pack, band, policy, async, bad, moved>>

\* Suspend and reboot of a device that is offline already.
StayOffline(to) ==
  /\ phase = "bound" /\ ~online
  /\ phase' = to
  /\ UNCHANGED <<reg0x57, led, pack, band, policy, online, work, async, bad, moved>>

Suspend == GoOffline("bound", "suspending") \/ StayOffline("asleep")

\* t6_charge_suspend(): the LED alone is left as it is.
ChargeSuspend(ok) ==
  IF Recovering THEN ReturnToEc(ok) /\ UNCHANGED charge_enabled
  ELSE ok /\ UNCHANGED <<reg0x57, led, policy, bad, moved>>

SuspendLocked ==
  /\ phase = "suspending"
  /\ work' = FALSE
  /\ \E ok, fanOk \in BOOLEAN :
       /\ ChargeSuspend(ok)
       /\ phase' = IF ok /\ fanOk THEN "asleep" ELSE "aborting"
  /\ UNCHANGED <<pack, band, online, async>>

SuspendAborted ==
  /\ phase = "aborting"
  /\ phase' = "bound"
  /\ online' = TRUE
  /\ ChargeResume
  /\ UNCHANGED <<pack, band, async>>

Resume ==
  /\ phase = "asleep"
  /\ phase' = "bound"
  /\ \/ online' = TRUE /\ ChargeResume
     \* the fans could not be taken back
     \/ UNCHANGED <<online, reg0x57, led, policy, work, bad, moved>>
  /\ UNCHANGED <<pack, band, async>>

Reboot == GoOffline("bound", "rebooting") \/ StayOffline("halted")

RebootLocked ==
  /\ phase = "rebooting"
  /\ phase' = "halted"
  /\ work' = FALSE
  /\ \E ok \in BOOLEAN : Release(ok)
  /\ UNCHANGED <<pack, online, async>>

Remove ==
  /\ phase = "bound"
  /\ phase' = "removing"
  /\ online' = FALSE
  /\ work' = FALSE
  /\ UNCHANGED <<reg0x57, led, pack, band, policy, async, bad, moved>>

RemoveRelease ==
  /\ phase = "releasing"
  /\ phase' = "unbound"
  /\ \E ok \in BOOLEAN : Release(ok)
  /\ UNCHANGED <<pack, online, work, async>>

\* The host dies; the EC keeps its registers.
Crash ==
  /\ phase # "unbound"
  /\ phase' = "unbound"
  /\ charge_start' = 0 /\ charge_end' = Full /\ charge_enabled' = FALSE
  /\ charge_recovery_pending' = FALSE /\ batled_low' = FALSE
  /\ online' = FALSE /\ work' = FALSE /\ event' = FALSE /\ notifying' = FALSE
  /\ bad' = FALSE /\ moved' = FALSE
  /\ UNCHANGED <<reg0x57, led, pack>>

-----------------------------------------------------------------------------
\* The pack.  Its charge moves by at most a percent within one polling period
\* (T6_CHG_POLL_MS).

Plug ==
  /\ ac' = ~ac
  /\ event' = TRUE
  /\ UNCHANGED <<reg0x57, led, soc, band, policy, online, work, notifying, phase, bad, moved>>

\* With OWNER clear the EC's own policy charges or not.
MayCharge == ac /\ (owner => enable)

Drift ==
  /\ work /\ ~bad => ~moved
  /\ \/ MayCharge /\ soc' = soc + 1
     \/ ~ac /\ soc' = soc - 1
  /\ soc' \in Soc
  /\ moved' = TRUE
  /\ UNCHANGED <<reg0x57, led, ac, band, policy, online, work, async, phase, bad>>

Init ==
  /\ owner \in BOOLEAN /\ enable \in BOOLEAN
  /\ led = "ec"
  /\ ac \in BOOLEAN /\ soc \in Soc
  /\ charge_start = 0 /\ charge_end = Full
  /\ charge_enabled = FALSE
  /\ charge_recovery_pending = FALSE
  /\ batled_low = FALSE
  /\ online = FALSE /\ work = FALSE
  /\ event = FALSE /\ notifying = FALSE
  /\ phase = "unbound"
  /\ bad = FALSE /\ moved = FALSE

Driver == \/ \E ok \in BOOLEAN : Work(ok)
          \/ NotifyRead \/ NotifyQueue
          \/ Register \/ DefaultStart \/ DefaultEnd \/ GoOnline
          \/ ProbeDone \/ SuspendLocked \/ SuspendAborted \/ RebootLocked
          \/ Unregister("undoing", "unbound")
          \/ Unregister("removing", "releasing") \/ RemoveRelease
User == \/ \E set_start \in BOOLEAN, value \in Soc : StoreThreshold(set_start, value)
        \/ \E colour \in UserLeds, on \in BOOLEAN : SetBatteryLed(colour, on)
        \/ ProbeUndo \/ Suspend \/ Resume \/ Reboot \/ Remove

Next == Driver \/ User \/ Crash \/ Plug \/ Drift

Spec == Init /\ [][Next]_vars

\* The workqueue runs what is queued, the notifier chain calls, and the EC does
\* not fail for ever.
FairSpec ==
  /\ Spec
  /\ WF_vars(\E ok \in BOOLEAN : Work(ok)) /\ SF_vars(Work(TRUE))
  /\ WF_vars(NotifyRead) /\ WF_vars(NotifyQueue)

-----------------------------------------------------------------------------
TypeOK ==
  /\ owner \in BOOLEAN /\ enable \in BOOLEAN
  /\ led \in Leds
  /\ ac \in BOOLEAN /\ soc \in Soc
  /\ charge_start \in Soc /\ charge_end \in Soc /\ charge_start < charge_end
  /\ charge_enabled \in BOOLEAN
  /\ charge_recovery_pending \in BOOLEAN
  /\ batled_low \in BOOLEAN
  /\ online \in BOOLEAN /\ work \in BOOLEAN
  /\ event \in BOOLEAN /\ notifying \in BOOLEAN
  /\ phase \in Phases
  /\ bad \in BOOLEAN /\ moved \in BOOLEAN

\* Without a band, the EC owns charging unless the driver knows that it still
\* has to give it back (charge_recovery_pending).
HandedBackOrKnown ==
  Registered /\ ~HostActive /\ ~charge_recovery_pending => ~owner /\ ~enable

\* A band, or a hand-back to retry, is never left without the poll that watches
\* it: on a bound device the work stays queued through every set_threshold,
\* work, suspend and resume, whatever failed.
Watched == phase = "bound" /\ online /\ Recovering => work

\* While a band is applied, the EC never charges past the end threshold nor
\* lets the pack sink below the start threshold uncharged, but for what moves
\* within one polling period.
WithinBand ==
  phase = "bound" /\ online /\ HostActive /\ ~bad =>
    /\ owner
    /\ enable => soc <= charge_end
    /\ ~enable => soc >= charge_start

\* The LED shows what the policy last wrote as long as the policy owns it:
\* no write of a user slips in between.
LedIsThePolicys ==
  online /\ ~bad =>
    /\ phase = "bound" /\ HostActive => led \in PolicyLeds
    /\ batled_low => led = "red"

\* Within a band charging starts only at the start threshold and stops only at
\* the end threshold, however often the policy is applied in between.
NoFlapping ==
  [][phase = "bound" /\ online /\ HostActive /\ UNCHANGED <<phase, online, band>> /\ ~bad
     /\ enable' # enable
     => IF enable' THEN soc <= charge_start ELSE soc >= charge_end]_vars

\* The machine never sleeps with the host deciding over charging.
AsleepUnderEc == phase = "asleep" => ~owner /\ ~enable

\* The EC has charging back or is known not to have it, asleep it always has it, and
\* the LED is the policy's while the policy is at work.
ChargeSafe == HandedBackOrKnown /\ AsleepUnderEc /\ LedIsThePolicys

\* Once the driver is unregistered nothing queues its work: the notifier that
\* read online too early has been waited for.
NoWorkAfterFree == phase \in {"releasing", "unbound"} => ~work /\ ~notifying

\* A hand-back that failed is retried until the EC has charging again, unless a
\* new band is set or the device goes away.
HandBackHappens ==
  (phase = "bound" /\ ~HostActive /\ owner) ~>
    (~owner \/ HostActive \/ phase # "bound" \/ ~online)

-----------------------------------------------------------------------------
\* The inductive invariant of T6ChargeProofs: what the safety properties above
\* need besides themselves.

OnlinePhases ==
  /\ online => phase \in {"binding", "bound"}
  /\ phase = "binding" => online

\* A device that is offline after a sleep has left charging with the EC.
OfflineUnderEc ==
  phase = "asleep" \/ (phase = "bound" /\ ~online) => ~owner /\ ~enable

\* How far the charge may be from a threshold, depending on whether it moved.
Margin ==
  phase = "bound" /\ online /\ HostActive /\ ~bad =>
    /\ owner
    /\ enable => soc <= charge_end /\ (~moved => soc < charge_end)
    /\ ~enable => soc >= charge_start /\ (~moved => soc > charge_start)

LedInv ==
  ~bad => /\ phase = "bound" /\ online /\ HostActive => led \in PolicyLeds
          /\ batled_low => led = "red"

IInv ==
  /\ TypeOK
  /\ OnlinePhases
  /\ HandedBackOrKnown
  /\ Watched
  /\ OfflineUnderEc
  /\ NoWorkAfterFree
  /\ Margin
  /\ LedInv

-----------------------------------------------------------------------------
\* Statements of the sources that a run refutes.

\* README: "The battery LED turns red on battery below 10 % (EC state of
\* charge), with or without a band".
RedWhenLow ==
  <>[](phase = "bound" /\ online /\ Low /\ ~bad) => []<>(led = "red")

=============================================================================
