--------------------------- MODULE T6ChargeProofs ---------------------------
(***************************************************************************)
(* IInv of T6Charge is inductive: whatever access fails and whenever the    *)
(* notifier runs, the driver knows what it still has to give back, watches  *)
(* it, and keeps the pack within the band.                                  *)
(***************************************************************************)
EXTENDS T6Charge, TLAPS

USE ChargeParameters DEF Soc

-----------------------------------------------------------------------------
\* The names the actions assign.
LEMMA Names ==
  /\ "unbound" \in Phases /\ "start_default" \in Phases /\ "end_default" \in Phases
  /\ "fans" \in Phases /\ "binding" \in Phases /\ "bound" \in Phases
  /\ "suspending" \in Phases /\ "aborting" \in Phases /\ "asleep" \in Phases
  /\ "rebooting" \in Phases /\ "halted" \in Phases /\ "undoing" \in Phases
  /\ "removing" \in Phases /\ "releasing" \in Phases
  /\ "ec" \in Leds /\ "red" \in Leds /\ "dark" \in Leds /\ "orange" \in Leds
  /\ \A colour \in UserLeds : colour \in Leds
BY DEF Phases, Leds, PolicyLeds, UserLeds

\* What a handler that applies a band or gives charging back may leave.
Effects ==
  /\ owner' \in BOOLEAN /\ enable' \in BOOLEAN /\ led' \in Leds
  /\ charge_enabled' \in BOOLEAN /\ charge_recovery_pending' \in BOOLEAN
  /\ batled_low' \in BOOLEAN /\ bad' \in BOOLEAN /\ moved' \in BOOLEAN
  /\ ~bad' /\ batled_low' => led' = "red"

\* t6_charge_set_led().
LEMMA SetLedEffects ==
  ASSUME TypeOK, NEW active \in BOOLEAN, NEW handback \in BOOLEAN, NEW ok \in BOOLEAN,
         SetLed(active, handback, ok)
  PROVE  /\ led' \in Leds /\ batled_low' \in BOOLEAN
         /\ ok /\ active => led' \in PolicyLeds
         /\ ok /\ batled_low' => led' = "red"
<1>1. Wanted(active, handback) \in Leds \cup {"as is"}
  BY Names DEF Wanted
<1>2. active => Wanted(active, handback) \in PolicyLeds
  BY DEF Wanted, PolicyLeds
<1>3. Low <=> Wanted(active, handback) = "red"
  BY DEF Wanted
<1>4. Wanted(active, handback) = "as is" => ~batled_low
  BY DEF Wanted
<1>5. "as is" \notin PolicyLeds
  BY DEF PolicyLeds
<1>6. Low \in BOOLEAN
  BY DEF Low, TypeOK
<1>7. CASE Wanted(active, handback) = "as is"
  BY <1>2, <1>4, <1>5, <1>7 DEF SetLed, TypeOK
<1>8. CASE Wanted(active, handback) # "as is"
  BY <1>1, <1>2, <1>3, <1>6, <1>8 DEF SetLed, UpdateLed, TypeOK
<1> QED
  BY <1>7, <1>8

\* t6_charge_apply(): with a band the EC charges as the hysteresis says, without
\* one it has charging back or the driver knows that it has not.
LEMMA ApplyEffects ==
  ASSUME TypeOK, NEW s \in Nat, NEW e \in Nat, s < e, NEW ok \in BOOLEAN, Apply(s, e, ok)
  PROVE  /\ Effects
         /\ bad' = ~ok
         /\ ~Active(s, e) /\ ~charge_recovery_pending' => ~owner' /\ ~enable'
         /\ Active(s, e) /\ ok =>
              /\ owner' /\ ~moved' /\ led' \in PolicyLeds
              /\ enable' => soc < e
              /\ ~enable' => soc > s
<1>1. bad' = ~ok /\ moved' = (moved /\ ~ok)
  BY DEF Apply
<1>2. CASE ~ok /\ ApplyBlind(s, e)
  BY <1>1, <1>2 DEF ApplyBlind, Effects, reg0x57, TypeOK, Active
<1>3. CASE ~Active(s, e) /\ ApplyNone(ok)
  <2>1. CASE ~ok /\ UpdateBits(FALSE, FALSE, FALSE) /\ UNCHANGED <<led, batled_low>>
    BY <1>1, <1>3, <2>1 DEF ApplyNone, UpdateBits, Effects, reg0x57, TypeOK
  <2>2. CASE UpdateBits(FALSE, FALSE, TRUE) /\ SetLed(FALSE, TRUE, ok)
    <3>1. ~owner' /\ ~enable' /\ owner' \in BOOLEAN /\ enable' \in BOOLEAN
      BY <2>2 DEF UpdateBits
    <3>2. /\ led' \in Leds /\ batled_low' \in BOOLEAN
          /\ ok /\ batled_low' => led' = "red"
      BY <2>2, SetLedEffects
    <3> QED
      BY <1>1, <1>3, <3>1, <3>2 DEF ApplyNone, Effects, TypeOK
  <2> QED
    BY <1>3, <2>1, <2>2 DEF ApplyNone
<1>4. CASE Active(s, e) /\ ApplyBand(s, e, ok)
  <2>1. Enabled(s, e) \in BOOLEAN /\ charge_enabled' \in BOOLEAN
    BY <1>4 DEF Enabled, ApplyBand, TypeOK
  <2>2. (Enabled(s, e) => soc < e) /\ (~Enabled(s, e) => soc > s)
    BY DEF Enabled, TypeOK
  <2>3. CASE /\ ~ok
             /\ UpdateBits(TRUE, Enabled(s, e), FALSE)
             /\ UNCHANGED <<led, batled_low, charge_recovery_pending>>
    BY <1>1, <1>4, <2>1, <2>3 DEF UpdateBits, Effects, reg0x57, TypeOK
  <2>4. CASE /\ UpdateBits(TRUE, Enabled(s, e), TRUE)
             /\ SetLed(TRUE, TRUE, ok)
             /\ charge_recovery_pending' = FALSE
    <3>1. owner' = TRUE /\ enable' = Enabled(s, e)
      BY <2>4 DEF UpdateBits
    <3>2. /\ led' \in Leds /\ batled_low' \in BOOLEAN
          /\ ok /\ batled_low' => led' = "red"
          /\ ok => led' \in PolicyLeds
      BY <2>4, SetLedEffects
    <3> QED
      BY <1>1, <1>4, <2>1, <2>2, <2>4, <3>1, <3>2 DEF Effects, TypeOK
  <2> QED
    BY <1>4, <2>3, <2>4 DEF ApplyBand
<1> QED
  BY <1>2, <1>3, <1>4 DEF Apply

\* t6_charge_return_to_ec().
LEMMA ReturnEffects ==
  ASSUME TypeOK, NEW ok \in BOOLEAN, ReturnToEc(ok), charge_enabled' \in BOOLEAN
  PROVE  /\ Effects
         /\ charge_recovery_pending' = ~ok
         /\ ok => ~owner' /\ ~enable'
<1>1. CASE ~ok /\ UpdateBits(FALSE, FALSE, FALSE) /\ UNCHANGED <<led, batled_low>>
  BY <1>1 DEF ReturnToEc, UpdateBits, Effects, reg0x57, TypeOK
<1>2. CASE /\ UpdateBits(FALSE, FALSE, TRUE)
           /\ UpdateLed("ec", ok)
           /\ batled_low' = (batled_low /\ ~ok)
  BY <1>2, Names DEF ReturnToEc, UpdateBits, UpdateLed, Effects, TypeOK
<1> QED
  BY <1>1, <1>2 DEF ReturnToEc

-----------------------------------------------------------------------------
\* A policy has been applied to the band as it is after the step.
Applied ==
  /\ Effects
  /\ ~HostActive' /\ ~charge_recovery_pending' => ~owner' /\ ~enable'
  /\ HostActive' /\ ~bad' =>
       /\ owner' /\ ~moved' /\ led' \in PolicyLeds
       /\ enable' => soc < charge_end'
       /\ ~enable' => soc > charge_start'

LEMMA ApplyApplies ==
  ASSUME TypeOK, NEW s \in Nat, NEW e \in Nat, s < e, NEW ok \in BOOLEAN,
         Apply(s, e, ok), charge_start' = s, charge_end' = e
  PROVE  Applied
<1>1. HostActive' <=> Active(s, e)
  BY DEF HostActive, Active
<1> QED
  BY <1>1, ApplyEffects DEF Applied

\* Nothing of the policy moves.
Unapplied == UNCHANGED <<reg0x57, led, policy, bad, moved>>

\* t6_charge_resume() applies what is active or to be given back, and queues the
\* work for it.
LEMMA ResumeApplies ==
  ASSUME TypeOK, ChargeResume, UNCHANGED band
  PROVE  /\ Applied \/ (~Recovering /\ Unapplied)
         /\ work' \in BOOLEAN
         /\ Recovering' => work'
<1>1. CASE Recovering
  <2>1. PICK ok \in BOOLEAN : Apply(charge_start, charge_end, ok)
    BY <1>1 DEF ChargeResume
  <2>2. Applied
    BY <2>1, ApplyApplies DEF TypeOK, band
  <2>3. work' = (HostActive \/ charge_recovery_pending' \/ work)
    BY <1>1 DEF ChargeResume
  <2>4. HostActive' <=> HostActive
    BY DEF HostActive, Active, band
  <2>5. work' \in BOOLEAN
    BY <2>3
  <2> QED
    BY <2>2, <2>3, <2>4, <2>5 DEF Recovering
<1>2. CASE ~Recovering
  BY <1>2 DEF ChargeResume, Unapplied, Recovering, HostActive, Active, band, policy
<1> QED
  BY <1>1, <1>2

\* A threshold that is refused changes nothing; one that is taken is applied, and
\* watched if there is anything to watch.
LEMMA ThresholdApplies ==
  ASSUME TypeOK, NEW s \in Nat, NEW e \in Nat, NEW ok \in BOOLEAN, SetThreshold(s, e, ok)
  PROVE  \/ Unapplied /\ UNCHANGED <<band, work>>
         \/ /\ Applied
            /\ charge_start' \in Soc /\ charge_end' \in Soc /\ charge_start' < charge_end'
            /\ work' = Recovering'
<1>1. CASE e > Full \/ s >= e
  BY <1>1 DEF SetThreshold, Unapplied
<1>2. CASE ~(e > Full \/ s >= e)
  <2>1. /\ charge_start' = s /\ charge_end' = e /\ s < e /\ e <= Full
        /\ Apply(s, e, ok)
        /\ work' = (Active(s, e) \/ charge_recovery_pending')
    BY <1>2 DEF SetThreshold
  <2>2. Applied
    BY <2>1, ApplyApplies
  <2> QED
    BY <2>1, <2>2 DEF Recovering, HostActive, Active
<1> QED
  BY <1>1, <1>2

\* t6_charge_release() gives up the band.
LEMMA ReleaseApplies ==
  ASSUME TypeOK, NEW ok \in BOOLEAN, Release(ok)
  PROVE  /\ Applied
         /\ charge_start' \in Soc /\ charge_end' \in Soc /\ charge_start' < charge_end'
         /\ ~HostActive'
<1>1. charge_start' = 0 /\ charge_end' = Full /\ charge_enabled' = FALSE /\ ReturnToEc(ok)
  BY DEF Release
<1>2. Effects /\ charge_recovery_pending' = ~ok /\ (ok => ~owner' /\ ~enable')
  BY <1>1, ReturnEffects
<1>3. ~HostActive'
  BY <1>1 DEF HostActive, Active
<1>4. charge_start' \in Soc /\ charge_end' \in Soc /\ charge_start' < charge_end'
  BY <1>1
<1>5. ~charge_recovery_pending' => ~owner' /\ ~enable'
  BY <1>2
<1> QED
  BY <1>2, <1>3, <1>4, <1>5 DEF Applied

-----------------------------------------------------------------------------
\* Every step keeps every variable's type.
LEMMA NextTypeOK == TypeOK /\ [Next]_vars => TypeOK'
<1> SUFFICES ASSUME TypeOK, [Next]_vars PROVE TypeOK'
  OBVIOUS
<1>1. ASSUME NEW ok \in BOOLEAN, Work(ok) PROVE TypeOK'
  <2>1. CASE WorkOffline
    BY <1>1, <2>1 DEF Work, WorkOffline, reg0x57, policy, pack, band, async, TypeOK
  <2>2. CASE WorkPolicy(ok)
    <3>1. Applied
      BY <1>1, <2>2, ApplyApplies DEF Work, WorkPolicy, band, TypeOK
    <3>2. work' \in BOOLEAN
      BY <2>2, <3>1 DEF WorkPolicy, Applied, Effects
    <3> QED
      BY <1>1, <3>1, <3>2 DEF Work, pack, band, async, Applied, Effects, TypeOK
  <2>3. CASE WorkLed(ok)
    <3>1. led' \in Leds /\ batled_low' \in BOOLEAN
      BY <2>3, SetLedEffects DEF WorkLed, TypeOK
    <3>2. work' \in BOOLEAN /\ bad' \in BOOLEAN
      BY <2>3, <3>1 DEF WorkLed, TypeOK
    <3> QED
      BY <1>1, <2>3, <3>1, <3>2 DEF Work, WorkLed, reg0x57, pack, band, async, TypeOK
  <2> QED
    BY <1>1, <2>1, <2>2, <2>3 DEF Work
<1>2. CASE NotifyRead
  BY <1>2, Names DEF NotifyRead, reg0x57, pack, band, policy, TypeOK
<1>3. CASE NotifyQueue
  BY <1>3, Names DEF NotifyQueue, reg0x57, pack, band, policy, TypeOK
<1>4. CASE Register
  <2>1. PICK ok \in BOOLEAN : Release(ok)
    BY <1>4 DEF Register
  <2>2. /\ Applied
        /\ charge_start' \in Soc /\ charge_end' \in Soc /\ charge_start' < charge_end'
    BY <2>1, ReleaseApplies
  <2>3. phase' \in Phases
    BY <1>4, Names DEF Register
  <2> QED
    BY <1>4, <2>2, <2>3 DEF Register, pack, async, Applied, Effects, TypeOK
<1>5. CASE DefaultStart
  <2>1. PICK ok \in BOOLEAN : SetThreshold(DefStart, charge_end, ok)
    BY <1>5 DEF DefaultStart
  <2>2. \/ Unapplied /\ UNCHANGED <<band, work>>
        \/ /\ Applied
           /\ charge_start' \in Soc /\ charge_end' \in Soc /\ charge_start' < charge_end'
           /\ work' = Recovering'
    BY <2>1, ThresholdApplies DEF TypeOK
  <2>3. Applied => Recovering' \in BOOLEAN
    BY DEF Recovering, HostActive, Active, Applied, Effects
  <2>4. UNCHANGED <<pack, online, async>> /\ phase' \in Phases
    BY <1>5, Names DEF DefaultStart, TypeOK
  <2> QED
    BY <2>2, <2>3, <2>4 DEF Unapplied, reg0x57, policy, band, pack, async, Applied, Effects,
         TypeOK
<1>6. CASE DefaultEnd
  <2>1. PICK ok \in BOOLEAN : SetThreshold(charge_start, DefEnd, ok)
    BY <1>6 DEF DefaultEnd
  <2>2. \/ Unapplied /\ UNCHANGED <<band, work>>
        \/ /\ Applied
           /\ charge_start' \in Soc /\ charge_end' \in Soc /\ charge_start' < charge_end'
           /\ work' = Recovering'
    BY <2>1, ThresholdApplies DEF TypeOK
  <2>3. Applied => Recovering' \in BOOLEAN
    BY DEF Recovering, HostActive, Active, Applied, Effects
  <2>4. UNCHANGED <<pack, online, async>> /\ phase' \in Phases
    BY <1>6, Names DEF DefaultEnd, TypeOK
  <2> QED
    BY <2>2, <2>3, <2>4 DEF Unapplied, reg0x57, policy, band, pack, async, Applied, Effects,
         TypeOK
<1>7. CASE GoOnline
  BY <1>7, Names DEF GoOnline, reg0x57, pack, band, policy, async, TypeOK
<1>8. CASE ProbeDone
  <2>1. /\ Applied \/ (~Recovering /\ Unapplied)
        /\ work' \in BOOLEAN
    BY <1>8, ResumeApplies DEF ProbeDone
  <2> QED
    BY <1>8, <2>1, Names DEF ProbeDone, Unapplied, reg0x57, policy, band, pack, async, Applied,
         Effects, TypeOK
<1>9. CASE SuspendLocked
  <2>1. PICK ok \in BOOLEAN : ChargeSuspend(ok)
    BY <1>9 DEF SuspendLocked
  <2>2. CASE Recovering
    <3>1. Effects
      BY <2>1, <2>2, ReturnEffects DEF ChargeSuspend, TypeOK
    <3> QED
      BY <1>9, <3>1, Names DEF SuspendLocked, pack, band, async, Effects, TypeOK
  <2>3. CASE ~Recovering
    <3>1. Unapplied
      BY <2>1, <2>3 DEF ChargeSuspend, Unapplied
    <3>2. /\ UNCHANGED <<pack, band, online, async>>
          /\ work' = FALSE /\ phase' \in Phases
      BY <1>9, Names DEF SuspendLocked
    <3> QED
      BY <3>1, <3>2 DEF Unapplied, reg0x57, policy, pack, band, async, TypeOK
  <2> QED
    BY <2>2, <2>3
<1>10. CASE SuspendAborted
  <2>1. /\ Applied \/ (~Recovering /\ Unapplied)
        /\ work' \in BOOLEAN
    BY <1>10, ResumeApplies DEF SuspendAborted
  <2> QED
    BY <1>10, <2>1, Names DEF SuspendAborted, Unapplied, reg0x57, policy, band, pack, async, Applied,
         Effects, TypeOK
<1>11. CASE RebootLocked
  <2>1. PICK ok \in BOOLEAN : Release(ok)
    BY <1>11 DEF RebootLocked
  <2>2. /\ Applied
        /\ charge_start' \in Soc /\ charge_end' \in Soc /\ charge_start' < charge_end'
    BY <2>1, ReleaseApplies
  <2>3. phase' \in Phases
    BY <1>11, Names DEF RebootLocked
  <2> QED
    BY <1>11, <2>2, <2>3 DEF RebootLocked, pack, async, Applied, Effects, TypeOK
<1>12. CASE Unregister("undoing", "unbound")
  BY <1>12, Names DEF Unregister, reg0x57, pack, band, policy, TypeOK
<1>13. CASE Unregister("removing", "releasing")
  BY <1>13, Names DEF Unregister, reg0x57, pack, band, policy, TypeOK
<1>14. CASE RemoveRelease
  <2>1. PICK ok \in BOOLEAN : Release(ok)
    BY <1>14 DEF RemoveRelease
  <2>2. /\ Applied
        /\ charge_start' \in Soc /\ charge_end' \in Soc /\ charge_start' < charge_end'
    BY <2>1, ReleaseApplies
  <2>3. phase' \in Phases
    BY <1>14, Names DEF RemoveRelease
  <2> QED
    BY <1>14, <2>2, <2>3 DEF RemoveRelease, pack, async, Applied, Effects, TypeOK
<1>15. ASSUME NEW set_start \in BOOLEAN, NEW value \in Soc, StoreThreshold(set_start, value) PROVE TypeOK'
  <2>1. PICK ok \in BOOLEAN, s \in Soc, e \in Soc : SetThreshold(s, e, ok)
    BY <1>15 DEF StoreThreshold, TypeOK
  <2>2. \/ Unapplied /\ UNCHANGED <<band, work>>
        \/ /\ Applied
           /\ charge_start' \in Soc /\ charge_end' \in Soc /\ charge_start' < charge_end'
           /\ work' = Recovering'
    BY <2>1, ThresholdApplies DEF TypeOK
  <2>3. Applied => Recovering' \in BOOLEAN
    BY DEF Recovering, HostActive, Active, Applied, Effects
  <2>4. UNCHANGED <<pack, online, async>> /\ phase' \in Phases
    BY <1>15, Names DEF StoreThreshold, TypeOK
  <2> QED
    BY <2>2, <2>3, <2>4 DEF Unapplied, reg0x57, policy, band, pack, async, Applied, Effects,
         TypeOK
<1>16. ASSUME NEW colour \in UserLeds, NEW on \in BOOLEAN, SetBatteryLed(colour, on) PROVE TypeOK'
  BY <1>16, Names
     DEF SetBatteryLed, OwnsBatteryLed, reg0x57, pack, band, policy, async,
         TypeOK
<1>17. CASE ProbeUndo
  <2>1. PICK ok \in BOOLEAN : Release(ok)
    BY <1>17 DEF ProbeUndo
  <2>2. /\ Applied
        /\ charge_start' \in Soc /\ charge_end' \in Soc /\ charge_start' < charge_end'
    BY <2>1, ReleaseApplies
  <2>3. phase' \in Phases
    BY <1>17, Names DEF ProbeUndo
  <2> QED
    BY <1>17, <2>2, <2>3 DEF ProbeUndo, pack, async, Applied, Effects, TypeOK
<1>18. CASE Suspend
  <2>1. ASSUME NEW from \in Phases, NEW to \in Phases, GoOffline(from, to) PROVE TypeOK'
    BY <2>1 DEF GoOffline, reg0x57, pack, band, policy, async, TypeOK
  <2>2. ASSUME NEW to \in Phases, StayOffline(to) PROVE TypeOK'
    BY <2>2 DEF StayOffline, reg0x57, pack, band, policy, async, TypeOK
  <2> QED
    BY <1>18, <2>1, <2>2, Names DEF Suspend
<1>19. CASE Resume
  <2>1. CASE ChargeResume
    <3>1. /\ Applied \/ (~Recovering /\ Unapplied)
          /\ work' \in BOOLEAN
      BY <1>19, <2>1, ResumeApplies DEF Resume
    <3>2. UNCHANGED <<pack, band, event, notifying>> /\ online' \in BOOLEAN /\ phase' \in Phases
      BY <1>19, Names DEF Resume, async, TypeOK
    <3>3. CASE Applied
      BY <3>1, <3>2, <3>3 DEF pack, band, Applied, Effects, TypeOK
    <3>4. CASE Unapplied
      BY <3>1, <3>2, <3>4 DEF Unapplied, reg0x57, policy, pack, band, TypeOK
    <3> QED
      BY <3>1, <3>3, <3>4
  <2>2. CASE UNCHANGED <<online, reg0x57, led, policy, work, bad, moved>>
    BY <1>19, <2>2, Names DEF Resume, reg0x57, policy, band, pack, async, TypeOK
  <2> QED
    BY <1>19, <2>1, <2>2 DEF Resume
<1>20. CASE Reboot
  <2>1. ASSUME NEW from \in Phases, NEW to \in Phases, GoOffline(from, to) PROVE TypeOK'
    BY <2>1 DEF GoOffline, reg0x57, pack, band, policy, async, TypeOK
  <2>2. ASSUME NEW to \in Phases, StayOffline(to) PROVE TypeOK'
    BY <2>2 DEF StayOffline, reg0x57, pack, band, policy, async, TypeOK
  <2> QED
    BY <1>20, <2>1, <2>2, Names DEF Reboot
<1>21. CASE Remove
  BY <1>21, Names DEF Remove, reg0x57, pack, band, policy, async, TypeOK
<1>22. CASE Crash
  <2>1. 0 \in Soc /\ Full \in Soc /\ 0 < Full
    OBVIOUS
  <2>2. /\ charge_start' \in Soc /\ charge_end' \in Soc /\ charge_start' < charge_end'
    BY <1>22, <2>1 DEF Crash
  <2> QED
    BY <1>22, <2>2, Names DEF Crash, reg0x57, pack, TypeOK
<1>23. CASE Plug
  BY <1>23, Names DEF Plug, reg0x57, band, policy, TypeOK
<1>24. CASE Drift
  BY <1>24, Names DEF Drift, MayCharge, reg0x57, band, policy, async, TypeOK
<1>25. CASE UNCHANGED vars
  BY <1>25 DEF vars, reg0x57, pack, band, policy, async, TypeOK
<1> QED
  BY <1>1, <1>2, <1>3, <1>4, <1>5, <1>6, <1>7, <1>8, <1>9, <1>10, <1>11, <1>12,
     <1>13, <1>14, <1>15, <1>16, <1>17, <1>18, <1>19, <1>20, <1>21, <1>22,
     <1>23, <1>24, <1>25
     DEF Next, Driver, User
\* The device is online only while it is bound.
LEMMA NextOnlinePhases == IInv /\ [Next]_vars => OnlinePhases'
<1> SUFFICES ASSUME IInv, [Next]_vars PROVE OnlinePhases'
  OBVIOUS
<1>1. ASSUME NEW ok \in BOOLEAN, Work(ok) PROVE OnlinePhases'
  BY <1>1
     DEF Work, WorkOffline, WorkPolicy, WorkLed, Frozen, reg0x57, pack, band,
         policy, async, IInv, OnlinePhases
<1>2. CASE NotifyRead
  BY <1>2 DEF NotifyRead, reg0x57, pack, band, policy, IInv, OnlinePhases
<1>3. CASE NotifyQueue
  BY <1>3 DEF NotifyQueue, reg0x57, pack, band, policy, IInv, OnlinePhases
<1>4. CASE Register
  BY <1>4 DEF Register, pack, IInv, OnlinePhases
<1>5. CASE DefaultStart
  BY <1>5
     DEF DefaultStart, SetThreshold, reg0x57, pack, band, policy, async, IInv,
         OnlinePhases
<1>6. CASE DefaultEnd
  BY <1>6
     DEF DefaultEnd, SetThreshold, reg0x57, pack, band, policy, async, IInv,
         OnlinePhases
<1>7. CASE GoOnline
  BY <1>7 DEF GoOnline, reg0x57, pack, band, policy, async, IInv, OnlinePhases
<1>8. CASE ProbeDone
  BY <1>8
     DEF ProbeDone, ChargeResume, reg0x57, pack, band, policy, async, IInv,
         OnlinePhases
<1>9. CASE SuspendLocked
  BY <1>9
     DEF SuspendLocked, ChargeSuspend, reg0x57, pack, band, policy, async, IInv,
         OnlinePhases
<1>10. CASE SuspendAborted
  BY <1>10
     DEF SuspendAborted, ChargeResume, reg0x57, pack, band, policy, async, IInv,
         OnlinePhases
<1>11. CASE RebootLocked
  BY <1>11 DEF RebootLocked, pack, async, IInv, OnlinePhases
<1>12. CASE Unregister("undoing", "unbound")
  BY <1>12 DEF Unregister, reg0x57, pack, band, policy, IInv, OnlinePhases
<1>13. CASE Unregister("removing", "releasing")
  BY <1>13 DEF Unregister, reg0x57, pack, band, policy, IInv, OnlinePhases
<1>14. CASE RemoveRelease
  BY <1>14 DEF RemoveRelease, pack, async, IInv, OnlinePhases
<1>15. ASSUME NEW set_start \in BOOLEAN, NEW value \in Soc, StoreThreshold(set_start, value) PROVE OnlinePhases'
  BY <1>15
     DEF StoreThreshold, SetThreshold, reg0x57, pack, band, policy, async, IInv,
         OnlinePhases
<1>16. ASSUME NEW colour \in UserLeds, NEW on \in BOOLEAN, SetBatteryLed(colour, on) PROVE OnlinePhases'
  BY <1>16
     DEF SetBatteryLed, OwnsBatteryLed, reg0x57, pack, band, policy, async,
         IInv, OnlinePhases
<1>17. CASE ProbeUndo
  BY <1>17 DEF ProbeUndo, pack, async, IInv, OnlinePhases
<1>18. CASE Suspend
  BY <1>18
     DEF Suspend, GoOffline, StayOffline, reg0x57, pack, band, policy, async,
         IInv, OnlinePhases
<1>19. CASE Resume
  BY <1>19
     DEF Resume, ChargeResume, reg0x57, pack, band, policy, async, IInv,
         OnlinePhases
<1>20. CASE Reboot
  BY <1>20
     DEF Reboot, GoOffline, StayOffline, reg0x57, pack, band, policy, async,
         IInv, OnlinePhases
<1>21. CASE Remove
  BY <1>21 DEF Remove, reg0x57, pack, band, policy, async, IInv, OnlinePhases
<1>22. CASE Crash
  BY <1>22 DEF Crash, reg0x57, pack, IInv, OnlinePhases
<1>23. CASE Plug
  BY <1>23 DEF Plug, reg0x57, band, policy, IInv, OnlinePhases
<1>24. CASE Drift
  BY <1>24 DEF Drift, MayCharge, reg0x57, band, policy, async, IInv, OnlinePhases
<1>25. CASE UNCHANGED vars
  BY <1>25 DEF vars, reg0x57, pack, band, policy, async, IInv, OnlinePhases
<1> QED
  BY <1>1, <1>2, <1>3, <1>4, <1>5, <1>6, <1>7, <1>8, <1>9, <1>10, <1>11, <1>12,
     <1>13, <1>14, <1>15, <1>16, <1>17, <1>18, <1>19, <1>20, <1>21, <1>22,
     <1>23, <1>24, <1>25
     DEF Next, Driver, User
\* Unregistration waits for the notifier before it cancels the work.
LEMMA NextNoWorkAfterFree == IInv /\ [Next]_vars => NoWorkAfterFree'
<1> SUFFICES ASSUME IInv, [Next]_vars PROVE NoWorkAfterFree'
  OBVIOUS
<1>1. ASSUME NEW ok \in BOOLEAN, Work(ok) PROVE NoWorkAfterFree'
  BY <1>1
     DEF Work, WorkOffline, WorkPolicy, WorkLed, Frozen, reg0x57, pack, band,
         policy, async, IInv, NoWorkAfterFree, Registered
<1>2. CASE NotifyRead
  BY <1>2
     DEF NotifyRead, reg0x57, pack, band, policy, IInv, NoWorkAfterFree,
         Registered
<1>3. CASE NotifyQueue
  BY <1>3
     DEF NotifyQueue, reg0x57, pack, band, policy, IInv, NoWorkAfterFree,
         Registered
<1>4. CASE Register
  BY <1>4 DEF Register, pack, IInv, NoWorkAfterFree, Registered
<1>5. CASE DefaultStart
  BY <1>5
     DEF DefaultStart, SetThreshold, reg0x57, pack, band, policy, async, IInv,
         NoWorkAfterFree, Registered
<1>6. CASE DefaultEnd
  BY <1>6
     DEF DefaultEnd, SetThreshold, reg0x57, pack, band, policy, async, IInv,
         NoWorkAfterFree, Registered
<1>7. CASE GoOnline
  BY <1>7
     DEF GoOnline, reg0x57, pack, band, policy, async, IInv, NoWorkAfterFree,
         Registered
<1>8. CASE ProbeDone
  BY <1>8
     DEF ProbeDone, ChargeResume, reg0x57, pack, band, policy, async, IInv,
         NoWorkAfterFree, Registered
<1>9. CASE SuspendLocked
  BY <1>9
     DEF SuspendLocked, ChargeSuspend, reg0x57, pack, band, policy, async, IInv,
         NoWorkAfterFree, Registered
<1>10. CASE SuspendAborted
  BY <1>10
     DEF SuspendAborted, ChargeResume, reg0x57, pack, band, policy, async, IInv,
         NoWorkAfterFree, Registered
<1>11. CASE RebootLocked
  BY <1>11 DEF RebootLocked, pack, async, IInv, NoWorkAfterFree, Registered
<1>12. CASE Unregister("undoing", "unbound")
  BY <1>12
     DEF Unregister, reg0x57, pack, band, policy, IInv, NoWorkAfterFree,
         Registered
<1>13. CASE Unregister("removing", "releasing")
  BY <1>13
     DEF Unregister, reg0x57, pack, band, policy, IInv, NoWorkAfterFree,
         Registered
<1>14. CASE RemoveRelease
  BY <1>14 DEF RemoveRelease, pack, async, IInv, NoWorkAfterFree, Registered
<1>15. ASSUME NEW set_start \in BOOLEAN, NEW value \in Soc, StoreThreshold(set_start, value) PROVE NoWorkAfterFree'
  <2>1. online /\ UNCHANGED phase
    BY <1>15 DEF StoreThreshold
  <2> QED
    BY <2>1 DEF NoWorkAfterFree, OnlinePhases, IInv
<1>16. ASSUME NEW colour \in UserLeds, NEW on \in BOOLEAN, SetBatteryLed(colour, on) PROVE NoWorkAfterFree'
  BY <1>16
     DEF SetBatteryLed, OwnsBatteryLed, reg0x57, pack, band, policy, async,
         IInv, NoWorkAfterFree, Registered
<1>17. CASE ProbeUndo
  BY <1>17 DEF ProbeUndo, pack, async, IInv, NoWorkAfterFree, Registered
<1>18. CASE Suspend
  BY <1>18
     DEF Suspend, GoOffline, StayOffline, reg0x57, pack, band, policy, async,
         IInv, NoWorkAfterFree, Registered
<1>19. CASE Resume
  BY <1>19
     DEF Resume, ChargeResume, reg0x57, pack, band, policy, async, IInv,
         NoWorkAfterFree, Registered
<1>20. CASE Reboot
  BY <1>20
     DEF Reboot, GoOffline, StayOffline, reg0x57, pack, band, policy, async,
         IInv, NoWorkAfterFree, Registered
<1>21. CASE Remove
  BY <1>21
     DEF Remove, reg0x57, pack, band, policy, async, IInv, NoWorkAfterFree,
         Registered
<1>22. CASE Crash
  BY <1>22 DEF Crash, reg0x57, pack, IInv, NoWorkAfterFree, Registered
<1>23. CASE Plug
  BY <1>23 DEF Plug, reg0x57, band, policy, IInv, NoWorkAfterFree, Registered
<1>24. CASE Drift
  BY <1>24
     DEF Drift, MayCharge, reg0x57, band, policy, async, IInv, NoWorkAfterFree,
         Registered
<1>25. CASE UNCHANGED vars
  BY <1>25 DEF vars, reg0x57, pack, band, policy, async, IInv, NoWorkAfterFree
<1> QED
  BY <1>1, <1>2, <1>3, <1>4, <1>5, <1>6, <1>7, <1>8, <1>9, <1>10, <1>11, <1>12,
     <1>13, <1>14, <1>15, <1>16, <1>17, <1>18, <1>19, <1>20, <1>21, <1>22,
     <1>23, <1>24, <1>25
     DEF Next, Driver, User
\* A hand-back that failed is remembered.
LEMMA NextHandedBack == IInv /\ [Next]_vars => HandedBackOrKnown'
<1> SUFFICES ASSUME IInv, [Next]_vars PROVE HandedBackOrKnown'
  OBVIOUS
<1>1. ASSUME NEW ok \in BOOLEAN, Work(ok) PROVE HandedBackOrKnown'
  <2> UNCHANGED <<soc, band, online, phase>>
    BY <1>1 DEF Work, pack
  <2>1. CASE WorkOffline
    BY <2>1 DEF WorkOffline, reg0x57, policy, band, HostActive, Active, Registered,
       Recovering, IInv, HandedBackOrKnown
  <2>2. CASE WorkPolicy(ok)
    <3>1. Apply(charge_start, charge_end, ok) /\ work' = (HostActive \/ charge_recovery_pending')
      BY <2>2 DEF WorkPolicy
    <3>2. Applied
      BY <3>1, ApplyApplies DEF band, IInv, TypeOK
    <3> QED
      BY <3>1, <3>2 DEF Applied, Effects, Recovering, HostActive, Active, band, HandedBackOrKnown
  <2>3. CASE WorkLed(ok)
    <3>1. ok /\ batled_low' => led' = "red"
      BY <2>3, SetLedEffects DEF WorkLed, IInv
    <3>2. ~HostActive' /\ ~Recovering'
      BY <2>3 DEF WorkLed, Recovering, HostActive, Active, band
    <3> QED
      BY <2>3, <3>1, <3>2 DEF WorkLed, reg0x57, band, HostActive, Active, Registered, IInv, HandedBackOrKnown
  <2> QED
    BY <1>1, <2>1, <2>2, <2>3 DEF Work
<1>2. CASE NotifyRead
  BY <1>2
     DEF NotifyRead, reg0x57, pack, band, policy, HandedBackOrKnown, HostActive,
         Active, Recovering, Registered, IInv, OnlinePhases
<1>3. CASE NotifyQueue
  BY <1>3
     DEF NotifyQueue, reg0x57, pack, band, policy, HandedBackOrKnown,
         HostActive, Active, Recovering, Registered, IInv, OnlinePhases
<1>4. CASE Register
  <2>1. PICK ok \in BOOLEAN : Release(ok)
    BY <1>4 DEF Register
  <2>2. Applied /\ ~HostActive'
    BY <2>1, ReleaseApplies DEF IInv
  <2>3. phase' # "bound"
    BY <1>4 DEF Register
  <2> QED
    BY <2>2, <2>3 DEF Applied, Effects, HandedBackOrKnown
<1>5. CASE DefaultStart
  <2>1. PICK ok \in BOOLEAN : SetThreshold(DefStart, charge_end, ok)
    BY <1>5 DEF DefaultStart
  <2>2. \/ Unapplied /\ UNCHANGED <<band, work>>
        \/ Applied /\ work' = Recovering'
    BY <2>1, ThresholdApplies DEF IInv, TypeOK
  <2>3. UNCHANGED <<soc, online>>
    BY <1>5 DEF DefaultStart, pack
  <2>4. phase' = phase \/ phase' \in {"end_default", "fans"}
    BY <1>5 DEF DefaultStart
  <2>5. Registered
    BY <1>5 DEF DefaultStart, Registered, IInv, OnlinePhases
  <2>6. CASE Unapplied /\ UNCHANGED <<band, work>>
    BY <2>3, <2>4, <2>5, <2>6 DEF Unapplied, reg0x57, policy, band, HostActive, Active,
       Recovering, Registered, IInv, HandedBackOrKnown
  <2>7. CASE Applied /\ work' = Recovering'
    BY <2>3, <2>4, <2>7 DEF Applied, Effects, HandedBackOrKnown
  <2> QED
    BY <2>2, <2>6, <2>7
<1>6. CASE DefaultEnd
  <2>1. PICK ok \in BOOLEAN : SetThreshold(charge_start, DefEnd, ok)
    BY <1>6 DEF DefaultEnd
  <2>2. \/ Unapplied /\ UNCHANGED <<band, work>>
        \/ Applied /\ work' = Recovering'
    BY <2>1, ThresholdApplies DEF IInv, TypeOK
  <2>3. UNCHANGED <<soc, online>>
    BY <1>6 DEF DefaultEnd, pack
  <2>4. phase' = phase \/ phase' \in {"end_default", "fans"}
    BY <1>6 DEF DefaultEnd
  <2>5. Registered
    BY <1>6 DEF DefaultEnd, Registered, IInv, OnlinePhases
  <2>6. CASE Unapplied /\ UNCHANGED <<band, work>>
    BY <2>3, <2>4, <2>5, <2>6 DEF Unapplied, reg0x57, policy, band, HostActive, Active,
       Recovering, Registered, IInv, HandedBackOrKnown
  <2>7. CASE Applied /\ work' = Recovering'
    BY <2>3, <2>4, <2>7 DEF Applied, Effects, HandedBackOrKnown
  <2> QED
    BY <2>2, <2>6, <2>7
<1>7. CASE GoOnline
  BY <1>7
     DEF GoOnline, reg0x57, pack, band, policy, async, HandedBackOrKnown,
         HostActive, Active, Recovering, Registered, IInv, OnlinePhases
<1>8. CASE ProbeDone
  <2>1. /\ Applied \/ (~Recovering /\ Unapplied)
        /\ Recovering' => work'
    BY <1>8, ResumeApplies DEF ProbeDone, IInv
  <2>2. UNCHANGED <<soc, band>> /\ Registered
    BY <1>8 DEF ProbeDone, pack, Registered
  <2>3. CASE Applied
    BY <2>1, <2>2, <2>3 DEF Applied, Effects, HandedBackOrKnown
  <2>4. CASE ~Recovering /\ Unapplied
    BY <2>1, <2>2, <2>4 DEF Unapplied, reg0x57, policy, band, HostActive, Active,
       Recovering, Registered, IInv, HandedBackOrKnown
  <2> QED
    BY <2>1, <2>3, <2>4
<1>9. CASE SuspendLocked
  <2>1. PICK ok \in BOOLEAN : ChargeSuspend(ok)
    BY <1>9 DEF SuspendLocked
  <2>2. phase' # "bound" /\ UNCHANGED band
    BY <1>9 DEF SuspendLocked
  <2>3. CASE Recovering
    <3>1. Effects /\ charge_recovery_pending' = ~ok /\ (ok => ~owner' /\ ~enable')
      BY <2>1, <2>3, ReturnEffects DEF ChargeSuspend, IInv, TypeOK
    <3> QED
      BY <2>2, <3>1 DEF Effects, HandedBackOrKnown
  <2>4. CASE ~Recovering
    <3>1. Unapplied /\ Registered
      BY <1>9, <2>1, <2>4 DEF SuspendLocked, ChargeSuspend, Unapplied, Registered
    <3> QED
      BY <2>2, <3>1 DEF Unapplied, reg0x57, policy, band, HostActive, Active, Registered,
         IInv, HandedBackOrKnown
  <2> QED
    BY <2>3, <2>4
<1>10. CASE SuspendAborted
  <2>1. /\ Applied \/ (~Recovering /\ Unapplied)
        /\ Recovering' => work'
    BY <1>10, ResumeApplies DEF SuspendAborted, IInv
  <2>2. UNCHANGED <<soc, band>> /\ Registered
    BY <1>10 DEF SuspendAborted, pack, Registered
  <2>3. CASE Applied
    BY <2>1, <2>2, <2>3 DEF Applied, Effects, HandedBackOrKnown
  <2>4. CASE ~Recovering /\ Unapplied
    BY <2>1, <2>2, <2>4 DEF Unapplied, reg0x57, policy, band, HostActive, Active,
       Recovering, Registered, IInv, HandedBackOrKnown
  <2> QED
    BY <2>1, <2>3, <2>4
<1>11. CASE RebootLocked
  <2>1. PICK ok \in BOOLEAN : Release(ok)
    BY <1>11 DEF RebootLocked
  <2>2. Applied /\ ~HostActive'
    BY <2>1, ReleaseApplies DEF IInv
  <2>3. phase' # "bound"
    BY <1>11 DEF RebootLocked
  <2> QED
    BY <2>2, <2>3 DEF Applied, Effects, HandedBackOrKnown
<1>12. CASE Unregister("undoing", "unbound")
  BY <1>12
     DEF Unregister, reg0x57, pack, band, policy, HandedBackOrKnown, HostActive,
         Active, Recovering, Registered, IInv, OnlinePhases
<1>13. CASE Unregister("removing", "releasing")
  BY <1>13
     DEF Unregister, reg0x57, pack, band, policy, HandedBackOrKnown, HostActive,
         Active, Recovering, Registered, IInv, OnlinePhases
<1>14. CASE RemoveRelease
  <2>1. PICK ok \in BOOLEAN : Release(ok)
    BY <1>14 DEF RemoveRelease
  <2>2. Applied /\ ~HostActive'
    BY <2>1, ReleaseApplies DEF IInv
  <2>3. phase' # "bound"
    BY <1>14 DEF RemoveRelease
  <2> QED
    BY <2>2, <2>3 DEF Applied, Effects, HandedBackOrKnown
<1>15. ASSUME NEW set_start \in BOOLEAN, NEW value \in Soc, StoreThreshold(set_start, value) PROVE HandedBackOrKnown'
  <2>1. PICK ok \in BOOLEAN, s \in Soc, e \in Soc : SetThreshold(s, e, ok)
    BY <1>15 DEF StoreThreshold, IInv, TypeOK
  <2>2. \/ Unapplied /\ UNCHANGED <<band, work>>
        \/ Applied /\ work' = Recovering'
    BY <2>1, ThresholdApplies DEF IInv, TypeOK
  <2>3. UNCHANGED <<soc, online>>
    BY <1>15 DEF StoreThreshold, pack
  <2>4. phase' = phase \/ phase' \in {"end_default", "fans"}
    BY <1>15 DEF StoreThreshold
  <2>5. Registered
    BY <1>15 DEF StoreThreshold, Registered, IInv, OnlinePhases
  <2>6. CASE Unapplied /\ UNCHANGED <<band, work>>
    BY <2>3, <2>4, <2>5, <2>6 DEF Unapplied, reg0x57, policy, band, HostActive, Active,
       Recovering, Registered, IInv, HandedBackOrKnown
  <2>7. CASE Applied /\ work' = Recovering'
    BY <2>3, <2>4, <2>7 DEF Applied, Effects, HandedBackOrKnown
  <2> QED
    BY <2>2, <2>6, <2>7
<1>16. ASSUME NEW colour \in UserLeds, NEW on \in BOOLEAN, SetBatteryLed(colour, on) PROVE HandedBackOrKnown'
  BY <1>16
     DEF SetBatteryLed, OwnsBatteryLed, reg0x57, pack, band, policy, async,
         HandedBackOrKnown, HostActive, Active, Recovering, Registered, IInv,
         OnlinePhases
<1>17. CASE ProbeUndo
  <2>1. PICK ok \in BOOLEAN : Release(ok)
    BY <1>17 DEF ProbeUndo
  <2>2. Applied /\ ~HostActive'
    BY <2>1, ReleaseApplies DEF IInv
  <2>3. phase' # "bound"
    BY <1>17 DEF ProbeUndo
  <2> QED
    BY <2>2, <2>3 DEF Applied, Effects, HandedBackOrKnown
<1>18. CASE Suspend
  BY <1>18
     DEF Suspend, GoOffline, StayOffline, reg0x57, pack, band, policy, async,
         HandedBackOrKnown, HostActive, Active, Recovering, Registered, IInv,
         OnlinePhases
<1>19. CASE Resume
  <2>1. CASE ChargeResume
    <3>1. /\ Applied \/ (~Recovering /\ Unapplied)
          /\ Recovering' => work'
      BY <1>19, <2>1, ResumeApplies DEF Resume, IInv
    <3>2. UNCHANGED <<soc, band>> /\ Registered
      BY <1>19 DEF Resume, pack, Registered
    <3>3. CASE Applied
      BY <3>1, <3>2, <3>3 DEF Applied, Effects, HandedBackOrKnown
    <3>4. CASE ~Recovering /\ Unapplied
      BY <3>1, <3>2, <3>4 DEF Unapplied, reg0x57, policy, band, HostActive, Active,
         Recovering, Registered, IInv, HandedBackOrKnown
    <3> QED
      BY <3>1, <3>3, <3>4
  <2>2. CASE UNCHANGED <<online, reg0x57, led, policy, work, bad, moved>>
    BY <1>19, <2>2 DEF Resume, reg0x57, policy, band, pack, HostActive, Active, Recovering,
       Registered, OfflineUnderEc, OnlinePhases, IInv, HandedBackOrKnown
  <2> QED
    BY <1>19, <2>1, <2>2 DEF Resume
<1>20. CASE Reboot
  BY <1>20
     DEF Reboot, GoOffline, StayOffline, reg0x57, pack, band, policy, async,
         HandedBackOrKnown, HostActive, Active, Recovering, Registered, IInv,
         OnlinePhases
<1>21. CASE Remove
  BY <1>21
     DEF Remove, reg0x57, pack, band, policy, async, HandedBackOrKnown,
         HostActive, Active, Recovering, Registered, IInv, OnlinePhases
<1>22. CASE Crash
  BY <1>22
     DEF Crash, reg0x57, pack, HandedBackOrKnown, HostActive, Active,
         Recovering, Registered, IInv, OnlinePhases
<1>23. CASE Plug
  BY <1>23
     DEF Plug, reg0x57, band, policy, HandedBackOrKnown, HostActive, Active,
         Recovering, Registered, IInv, OnlinePhases
<1>24. CASE Drift
  BY <1>24
     DEF Drift, MayCharge, reg0x57, band, policy, async, HandedBackOrKnown,
         HostActive, Active, Recovering, Registered, IInv, OnlinePhases
<1>25. CASE UNCHANGED vars
  BY <1>25
     DEF vars, reg0x57, pack, band, policy, async, HandedBackOrKnown,
         HostActive, Active, Recovering, Registered, IInv, OnlinePhases
<1> QED
  BY <1>1, <1>2, <1>3, <1>4, <1>5, <1>6, <1>7, <1>8, <1>9, <1>10, <1>11, <1>12,
     <1>13, <1>14, <1>15, <1>16, <1>17, <1>18, <1>19, <1>20, <1>21, <1>22,
     <1>23, <1>24, <1>25
     DEF Next, Driver, User
\* What is to be watched stays queued.
LEMMA NextWatched == IInv /\ [Next]_vars => Watched'
<1> SUFFICES ASSUME IInv, [Next]_vars PROVE Watched'
  OBVIOUS
<1>1. ASSUME NEW ok \in BOOLEAN, Work(ok) PROVE Watched'
  <2> UNCHANGED <<soc, band, online, phase>>
    BY <1>1 DEF Work, pack
  <2>1. CASE WorkOffline
    BY <2>1 DEF WorkOffline, reg0x57, policy, band, HostActive, Active, Registered,
       Recovering, IInv, Watched
  <2>2. CASE WorkPolicy(ok)
    <3>1. Apply(charge_start, charge_end, ok) /\ work' = (HostActive \/ charge_recovery_pending')
      BY <2>2 DEF WorkPolicy
    <3>2. Applied
      BY <3>1, ApplyApplies DEF band, IInv, TypeOK
    <3> QED
      BY <3>1, <3>2 DEF Applied, Effects, Recovering, HostActive, Active, band, Watched
  <2>3. CASE WorkLed(ok)
    <3>1. ok /\ batled_low' => led' = "red"
      BY <2>3, SetLedEffects DEF WorkLed, IInv
    <3>2. ~HostActive' /\ ~Recovering'
      BY <2>3 DEF WorkLed, Recovering, HostActive, Active, band
    <3> QED
      BY <2>3, <3>1, <3>2 DEF WorkLed, reg0x57, band, HostActive, Active, Registered, IInv, Watched
  <2> QED
    BY <1>1, <2>1, <2>2, <2>3 DEF Work
<1>2. CASE NotifyRead
  BY <1>2
     DEF NotifyRead, reg0x57, pack, band, policy, Watched, HostActive, Active,
         Recovering, Registered, IInv, OnlinePhases
<1>3. CASE NotifyQueue
  BY <1>3
     DEF NotifyQueue, reg0x57, pack, band, policy, Watched, HostActive, Active,
         Recovering, Registered, IInv, OnlinePhases
<1>4. CASE Register
  <2>1. PICK ok \in BOOLEAN : Release(ok)
    BY <1>4 DEF Register
  <2>2. Applied /\ ~HostActive'
    BY <2>1, ReleaseApplies DEF IInv
  <2>3. phase' # "bound"
    BY <1>4 DEF Register
  <2> QED
    BY <2>2, <2>3 DEF Applied, Effects, Watched
<1>5. CASE DefaultStart
  <2>1. PICK ok \in BOOLEAN : SetThreshold(DefStart, charge_end, ok)
    BY <1>5 DEF DefaultStart
  <2>2. \/ Unapplied /\ UNCHANGED <<band, work>>
        \/ Applied /\ work' = Recovering'
    BY <2>1, ThresholdApplies DEF IInv, TypeOK
  <2>3. UNCHANGED <<soc, online>>
    BY <1>5 DEF DefaultStart, pack
  <2>4. phase' = phase \/ phase' \in {"end_default", "fans"}
    BY <1>5 DEF DefaultStart
  <2>5. Registered
    BY <1>5 DEF DefaultStart, Registered, IInv, OnlinePhases
  <2>6. CASE Unapplied /\ UNCHANGED <<band, work>>
    BY <2>3, <2>4, <2>5, <2>6 DEF Unapplied, reg0x57, policy, band, HostActive, Active,
       Recovering, Registered, IInv, Watched
  <2>7. CASE Applied /\ work' = Recovering'
    BY <2>3, <2>4, <2>7 DEF Applied, Effects, Watched
  <2> QED
    BY <2>2, <2>6, <2>7
<1>6. CASE DefaultEnd
  <2>1. PICK ok \in BOOLEAN : SetThreshold(charge_start, DefEnd, ok)
    BY <1>6 DEF DefaultEnd
  <2>2. \/ Unapplied /\ UNCHANGED <<band, work>>
        \/ Applied /\ work' = Recovering'
    BY <2>1, ThresholdApplies DEF IInv, TypeOK
  <2>3. UNCHANGED <<soc, online>>
    BY <1>6 DEF DefaultEnd, pack
  <2>4. phase' = phase \/ phase' \in {"end_default", "fans"}
    BY <1>6 DEF DefaultEnd
  <2>5. Registered
    BY <1>6 DEF DefaultEnd, Registered, IInv, OnlinePhases
  <2>6. CASE Unapplied /\ UNCHANGED <<band, work>>
    BY <2>3, <2>4, <2>5, <2>6 DEF Unapplied, reg0x57, policy, band, HostActive, Active,
       Recovering, Registered, IInv, Watched
  <2>7. CASE Applied /\ work' = Recovering'
    BY <2>3, <2>4, <2>7 DEF Applied, Effects, Watched
  <2> QED
    BY <2>2, <2>6, <2>7
<1>7. CASE GoOnline
  BY <1>7
     DEF GoOnline, reg0x57, pack, band, policy, async, Watched, HostActive,
         Active, Recovering, Registered, IInv, OnlinePhases
<1>8. CASE ProbeDone
  <2>1. /\ Applied \/ (~Recovering /\ Unapplied)
        /\ Recovering' => work'
    BY <1>8, ResumeApplies DEF ProbeDone, IInv
  <2>2. UNCHANGED <<soc, band>> /\ Registered
    BY <1>8 DEF ProbeDone, pack, Registered
  <2>3. CASE Applied
    BY <2>1, <2>2, <2>3 DEF Applied, Effects, Watched
  <2>4. CASE ~Recovering /\ Unapplied
    BY <2>1, <2>2, <2>4 DEF Unapplied, reg0x57, policy, band, HostActive, Active,
       Recovering, Registered, IInv, Watched
  <2> QED
    BY <2>1, <2>3, <2>4
<1>9. CASE SuspendLocked
  <2>1. PICK ok \in BOOLEAN : ChargeSuspend(ok)
    BY <1>9 DEF SuspendLocked
  <2>2. phase' # "bound" /\ UNCHANGED band
    BY <1>9 DEF SuspendLocked
  <2>3. CASE Recovering
    <3>1. Effects /\ charge_recovery_pending' = ~ok /\ (ok => ~owner' /\ ~enable')
      BY <2>1, <2>3, ReturnEffects DEF ChargeSuspend, IInv, TypeOK
    <3> QED
      BY <2>2, <3>1 DEF Effects, Watched
  <2>4. CASE ~Recovering
    <3>1. Unapplied /\ Registered
      BY <1>9, <2>1, <2>4 DEF SuspendLocked, ChargeSuspend, Unapplied, Registered
    <3> QED
      BY <2>2, <3>1 DEF Unapplied, reg0x57, policy, band, HostActive, Active, Registered,
         IInv, Watched
  <2> QED
    BY <2>3, <2>4
<1>10. CASE SuspendAborted
  <2>1. /\ Applied \/ (~Recovering /\ Unapplied)
        /\ Recovering' => work'
    BY <1>10, ResumeApplies DEF SuspendAborted, IInv
  <2>2. UNCHANGED <<soc, band>> /\ Registered
    BY <1>10 DEF SuspendAborted, pack, Registered
  <2>3. CASE Applied
    BY <2>1, <2>2, <2>3 DEF Applied, Effects, Watched
  <2>4. CASE ~Recovering /\ Unapplied
    BY <2>1, <2>2, <2>4 DEF Unapplied, reg0x57, policy, band, HostActive, Active,
       Recovering, Registered, IInv, Watched
  <2> QED
    BY <2>1, <2>3, <2>4
<1>11. CASE RebootLocked
  <2>1. PICK ok \in BOOLEAN : Release(ok)
    BY <1>11 DEF RebootLocked
  <2>2. Applied /\ ~HostActive'
    BY <2>1, ReleaseApplies DEF IInv
  <2>3. phase' # "bound"
    BY <1>11 DEF RebootLocked
  <2> QED
    BY <2>2, <2>3 DEF Applied, Effects, Watched
<1>12. CASE Unregister("undoing", "unbound")
  BY <1>12
     DEF Unregister, reg0x57, pack, band, policy, Watched, HostActive, Active,
         Recovering, Registered, IInv, OnlinePhases
<1>13. CASE Unregister("removing", "releasing")
  BY <1>13
     DEF Unregister, reg0x57, pack, band, policy, Watched, HostActive, Active,
         Recovering, Registered, IInv, OnlinePhases
<1>14. CASE RemoveRelease
  <2>1. PICK ok \in BOOLEAN : Release(ok)
    BY <1>14 DEF RemoveRelease
  <2>2. Applied /\ ~HostActive'
    BY <2>1, ReleaseApplies DEF IInv
  <2>3. phase' # "bound"
    BY <1>14 DEF RemoveRelease
  <2> QED
    BY <2>2, <2>3 DEF Applied, Effects, Watched
<1>15. ASSUME NEW set_start \in BOOLEAN, NEW value \in Soc, StoreThreshold(set_start, value) PROVE Watched'
  <2>1. PICK ok \in BOOLEAN, s \in Soc, e \in Soc : SetThreshold(s, e, ok)
    BY <1>15 DEF StoreThreshold, IInv, TypeOK
  <2>2. \/ Unapplied /\ UNCHANGED <<band, work>>
        \/ Applied /\ work' = Recovering'
    BY <2>1, ThresholdApplies DEF IInv, TypeOK
  <2>3. UNCHANGED <<soc, online>>
    BY <1>15 DEF StoreThreshold, pack
  <2>4. phase' = phase \/ phase' \in {"end_default", "fans"}
    BY <1>15 DEF StoreThreshold
  <2>5. Registered
    BY <1>15 DEF StoreThreshold, Registered, IInv, OnlinePhases
  <2>6. CASE Unapplied /\ UNCHANGED <<band, work>>
    BY <2>3, <2>4, <2>5, <2>6 DEF Unapplied, reg0x57, policy, band, HostActive, Active,
       Recovering, Registered, IInv, Watched
  <2>7. CASE Applied /\ work' = Recovering'
    BY <2>3, <2>4, <2>7 DEF Applied, Effects, Watched
  <2> QED
    BY <2>2, <2>6, <2>7
<1>16. ASSUME NEW colour \in UserLeds, NEW on \in BOOLEAN, SetBatteryLed(colour, on) PROVE Watched'
  BY <1>16
     DEF SetBatteryLed, OwnsBatteryLed, reg0x57, pack, band, policy, async,
         Watched, HostActive, Active, Recovering, Registered, IInv, OnlinePhases
<1>17. CASE ProbeUndo
  <2>1. PICK ok \in BOOLEAN : Release(ok)
    BY <1>17 DEF ProbeUndo
  <2>2. Applied /\ ~HostActive'
    BY <2>1, ReleaseApplies DEF IInv
  <2>3. phase' # "bound"
    BY <1>17 DEF ProbeUndo
  <2> QED
    BY <2>2, <2>3 DEF Applied, Effects, Watched
<1>18. CASE Suspend
  BY <1>18
     DEF Suspend, GoOffline, StayOffline, reg0x57, pack, band, policy, async,
         Watched, HostActive, Active, Recovering, Registered, IInv, OnlinePhases
<1>19. CASE Resume
  <2>1. CASE ChargeResume
    <3>1. /\ Applied \/ (~Recovering /\ Unapplied)
          /\ Recovering' => work'
      BY <1>19, <2>1, ResumeApplies DEF Resume, IInv
    <3>2. UNCHANGED <<soc, band>> /\ Registered
      BY <1>19 DEF Resume, pack, Registered
    <3>3. CASE Applied
      BY <3>1, <3>2, <3>3 DEF Applied, Effects, Watched
    <3>4. CASE ~Recovering /\ Unapplied
      BY <3>1, <3>2, <3>4 DEF Unapplied, reg0x57, policy, band, HostActive, Active,
         Recovering, Registered, IInv, Watched
    <3> QED
      BY <3>1, <3>3, <3>4
  <2>2. CASE UNCHANGED <<online, reg0x57, led, policy, work, bad, moved>>
    BY <1>19, <2>2 DEF Resume, reg0x57, policy, band, pack, HostActive, Active, Recovering,
       Registered, OfflineUnderEc, OnlinePhases, IInv, Watched
  <2> QED
    BY <1>19, <2>1, <2>2 DEF Resume
<1>20. CASE Reboot
  BY <1>20
     DEF Reboot, GoOffline, StayOffline, reg0x57, pack, band, policy, async,
         Watched, HostActive, Active, Recovering, Registered, IInv, OnlinePhases
<1>21. CASE Remove
  BY <1>21
     DEF Remove, reg0x57, pack, band, policy, async, Watched, HostActive,
         Active, Recovering, Registered, IInv, OnlinePhases
<1>22. CASE Crash
  BY <1>22
     DEF Crash, reg0x57, pack, Watched, HostActive, Active, Recovering,
         Registered, IInv, OnlinePhases
<1>23. CASE Plug
  BY <1>23
     DEF Plug, reg0x57, band, policy, Watched, HostActive, Active, Recovering,
         Registered, IInv, OnlinePhases
<1>24. CASE Drift
  BY <1>24
     DEF Drift, MayCharge, reg0x57, band, policy, async, Watched, HostActive,
         Active, Recovering, Registered, IInv, OnlinePhases
<1>25. CASE UNCHANGED vars
  BY <1>25
     DEF vars, reg0x57, pack, band, policy, async, Watched, HostActive, Active,
         Recovering, Registered, IInv, OnlinePhases
<1> QED
  BY <1>1, <1>2, <1>3, <1>4, <1>5, <1>6, <1>7, <1>8, <1>9, <1>10, <1>11, <1>12,
     <1>13, <1>14, <1>15, <1>16, <1>17, <1>18, <1>19, <1>20, <1>21, <1>22,
     <1>23, <1>24, <1>25
     DEF Next, Driver, User
\* Nobody writes the LED byte while the policy owns it.
LEMMA NextLed == IInv /\ [Next]_vars => LedInv'
<1> SUFFICES ASSUME IInv, [Next]_vars PROVE LedInv'
  OBVIOUS
<1>1. ASSUME NEW ok \in BOOLEAN, Work(ok) PROVE LedInv'
  <2> UNCHANGED <<soc, band, online, phase>>
    BY <1>1 DEF Work, pack
  <2>1. CASE WorkOffline
    BY <2>1 DEF WorkOffline, reg0x57, policy, band, HostActive, Active, Registered,
       Recovering, IInv, LedInv
  <2>2. CASE WorkPolicy(ok)
    <3>1. Apply(charge_start, charge_end, ok) /\ work' = (HostActive \/ charge_recovery_pending')
      BY <2>2 DEF WorkPolicy
    <3>2. Applied
      BY <3>1, ApplyApplies DEF band, IInv, TypeOK
    <3> QED
      BY <3>1, <3>2 DEF Applied, Effects, Recovering, HostActive, Active, band, LedInv
  <2>3. CASE WorkLed(ok)
    <3>1. ok /\ batled_low' => led' = "red"
      BY <2>3, SetLedEffects DEF WorkLed, IInv
    <3>2. ~HostActive' /\ ~Recovering'
      BY <2>3 DEF WorkLed, Recovering, HostActive, Active, band
    <3> QED
      BY <2>3, <3>1, <3>2 DEF WorkLed, reg0x57, band, HostActive, Active, Registered, IInv, LedInv
  <2> QED
    BY <1>1, <2>1, <2>2, <2>3 DEF Work
<1>2. CASE NotifyRead
  BY <1>2
     DEF NotifyRead, reg0x57, pack, band, policy, LedInv, HostActive, Active,
         Recovering, Registered, IInv, OnlinePhases
<1>3. CASE NotifyQueue
  BY <1>3
     DEF NotifyQueue, reg0x57, pack, band, policy, LedInv, HostActive, Active,
         Recovering, Registered, IInv, OnlinePhases
<1>4. CASE Register
  <2>1. PICK ok \in BOOLEAN : Release(ok)
    BY <1>4 DEF Register
  <2>2. Applied /\ ~HostActive'
    BY <2>1, ReleaseApplies DEF IInv
  <2>3. phase' # "bound"
    BY <1>4 DEF Register
  <2> QED
    BY <2>2, <2>3 DEF Applied, Effects, LedInv
<1>5. CASE DefaultStart
  <2>1. PICK ok \in BOOLEAN : SetThreshold(DefStart, charge_end, ok)
    BY <1>5 DEF DefaultStart
  <2>2. \/ Unapplied /\ UNCHANGED <<band, work>>
        \/ Applied /\ work' = Recovering'
    BY <2>1, ThresholdApplies DEF IInv, TypeOK
  <2>3. UNCHANGED <<soc, online>>
    BY <1>5 DEF DefaultStart, pack
  <2>4. phase' = phase \/ phase' \in {"end_default", "fans"}
    BY <1>5 DEF DefaultStart
  <2>5. Registered
    BY <1>5 DEF DefaultStart, Registered, IInv, OnlinePhases
  <2>6. CASE Unapplied /\ UNCHANGED <<band, work>>
    BY <2>3, <2>4, <2>5, <2>6 DEF Unapplied, reg0x57, policy, band, HostActive, Active,
       Recovering, Registered, IInv, LedInv
  <2>7. CASE Applied /\ work' = Recovering'
    BY <2>3, <2>4, <2>7 DEF Applied, Effects, LedInv
  <2> QED
    BY <2>2, <2>6, <2>7
<1>6. CASE DefaultEnd
  <2>1. PICK ok \in BOOLEAN : SetThreshold(charge_start, DefEnd, ok)
    BY <1>6 DEF DefaultEnd
  <2>2. \/ Unapplied /\ UNCHANGED <<band, work>>
        \/ Applied /\ work' = Recovering'
    BY <2>1, ThresholdApplies DEF IInv, TypeOK
  <2>3. UNCHANGED <<soc, online>>
    BY <1>6 DEF DefaultEnd, pack
  <2>4. phase' = phase \/ phase' \in {"end_default", "fans"}
    BY <1>6 DEF DefaultEnd
  <2>5. Registered
    BY <1>6 DEF DefaultEnd, Registered, IInv, OnlinePhases
  <2>6. CASE Unapplied /\ UNCHANGED <<band, work>>
    BY <2>3, <2>4, <2>5, <2>6 DEF Unapplied, reg0x57, policy, band, HostActive, Active,
       Recovering, Registered, IInv, LedInv
  <2>7. CASE Applied /\ work' = Recovering'
    BY <2>3, <2>4, <2>7 DEF Applied, Effects, LedInv
  <2> QED
    BY <2>2, <2>6, <2>7
<1>7. CASE GoOnline
  BY <1>7
     DEF GoOnline, reg0x57, pack, band, policy, async, LedInv, HostActive,
         Active, Recovering, Registered, IInv, OnlinePhases
<1>8. CASE ProbeDone
  <2>1. /\ Applied \/ (~Recovering /\ Unapplied)
        /\ Recovering' => work'
    BY <1>8, ResumeApplies DEF ProbeDone, IInv
  <2>2. UNCHANGED <<soc, band>> /\ Registered
    BY <1>8 DEF ProbeDone, pack, Registered
  <2>3. CASE Applied
    BY <2>1, <2>2, <2>3 DEF Applied, Effects, LedInv
  <2>4. CASE ~Recovering /\ Unapplied
    BY <2>1, <2>2, <2>4 DEF Unapplied, reg0x57, policy, band, HostActive, Active,
       Recovering, Registered, IInv, LedInv
  <2> QED
    BY <2>1, <2>3, <2>4
<1>9. CASE SuspendLocked
  <2>1. PICK ok \in BOOLEAN : ChargeSuspend(ok)
    BY <1>9 DEF SuspendLocked
  <2>2. phase' # "bound" /\ UNCHANGED band
    BY <1>9 DEF SuspendLocked
  <2>3. CASE Recovering
    <3>1. Effects /\ charge_recovery_pending' = ~ok /\ (ok => ~owner' /\ ~enable')
      BY <2>1, <2>3, ReturnEffects DEF ChargeSuspend, IInv, TypeOK
    <3> QED
      BY <2>2, <3>1 DEF Effects, LedInv
  <2>4. CASE ~Recovering
    <3>1. Unapplied /\ Registered
      BY <1>9, <2>1, <2>4 DEF SuspendLocked, ChargeSuspend, Unapplied, Registered
    <3> QED
      BY <2>2, <3>1 DEF Unapplied, reg0x57, policy, band, HostActive, Active, Registered,
         IInv, LedInv
  <2> QED
    BY <2>3, <2>4
<1>10. CASE SuspendAborted
  <2>1. /\ Applied \/ (~Recovering /\ Unapplied)
        /\ Recovering' => work'
    BY <1>10, ResumeApplies DEF SuspendAborted, IInv
  <2>2. UNCHANGED <<soc, band>> /\ Registered
    BY <1>10 DEF SuspendAborted, pack, Registered
  <2>3. CASE Applied
    BY <2>1, <2>2, <2>3 DEF Applied, Effects, LedInv
  <2>4. CASE ~Recovering /\ Unapplied
    BY <2>1, <2>2, <2>4 DEF Unapplied, reg0x57, policy, band, HostActive, Active,
       Recovering, Registered, IInv, LedInv
  <2> QED
    BY <2>1, <2>3, <2>4
<1>11. CASE RebootLocked
  <2>1. PICK ok \in BOOLEAN : Release(ok)
    BY <1>11 DEF RebootLocked
  <2>2. Applied /\ ~HostActive'
    BY <2>1, ReleaseApplies DEF IInv
  <2>3. phase' # "bound"
    BY <1>11 DEF RebootLocked
  <2> QED
    BY <2>2, <2>3 DEF Applied, Effects, LedInv
<1>12. CASE Unregister("undoing", "unbound")
  BY <1>12
     DEF Unregister, reg0x57, pack, band, policy, LedInv, HostActive, Active,
         Recovering, Registered, IInv, OnlinePhases
<1>13. CASE Unregister("removing", "releasing")
  BY <1>13
     DEF Unregister, reg0x57, pack, band, policy, LedInv, HostActive, Active,
         Recovering, Registered, IInv, OnlinePhases
<1>14. CASE RemoveRelease
  <2>1. PICK ok \in BOOLEAN : Release(ok)
    BY <1>14 DEF RemoveRelease
  <2>2. Applied /\ ~HostActive'
    BY <2>1, ReleaseApplies DEF IInv
  <2>3. phase' # "bound"
    BY <1>14 DEF RemoveRelease
  <2> QED
    BY <2>2, <2>3 DEF Applied, Effects, LedInv
<1>15. ASSUME NEW set_start \in BOOLEAN, NEW value \in Soc, StoreThreshold(set_start, value) PROVE LedInv'
  <2>1. PICK ok \in BOOLEAN, s \in Soc, e \in Soc : SetThreshold(s, e, ok)
    BY <1>15 DEF StoreThreshold, IInv, TypeOK
  <2>2. \/ Unapplied /\ UNCHANGED <<band, work>>
        \/ Applied /\ work' = Recovering'
    BY <2>1, ThresholdApplies DEF IInv, TypeOK
  <2>3. UNCHANGED <<soc, online>>
    BY <1>15 DEF StoreThreshold, pack
  <2>4. phase' = phase \/ phase' \in {"end_default", "fans"}
    BY <1>15 DEF StoreThreshold
  <2>5. Registered
    BY <1>15 DEF StoreThreshold, Registered, IInv, OnlinePhases
  <2>6. CASE Unapplied /\ UNCHANGED <<band, work>>
    BY <2>3, <2>4, <2>5, <2>6 DEF Unapplied, reg0x57, policy, band, HostActive, Active,
       Recovering, Registered, IInv, LedInv
  <2>7. CASE Applied /\ work' = Recovering'
    BY <2>3, <2>4, <2>7 DEF Applied, Effects, LedInv
  <2> QED
    BY <2>2, <2>6, <2>7
<1>16. ASSUME NEW colour \in UserLeds, NEW on \in BOOLEAN, SetBatteryLed(colour, on) PROVE LedInv'
  BY <1>16
     DEF SetBatteryLed, OwnsBatteryLed, reg0x57, pack, band, policy, async,
         LedInv, HostActive, Active, Recovering, Registered, IInv, OnlinePhases
<1>17. CASE ProbeUndo
  <2>1. PICK ok \in BOOLEAN : Release(ok)
    BY <1>17 DEF ProbeUndo
  <2>2. Applied /\ ~HostActive'
    BY <2>1, ReleaseApplies DEF IInv
  <2>3. phase' # "bound"
    BY <1>17 DEF ProbeUndo
  <2> QED
    BY <2>2, <2>3 DEF Applied, Effects, LedInv
<1>18. CASE Suspend
  BY <1>18
     DEF Suspend, GoOffline, StayOffline, reg0x57, pack, band, policy, async,
         LedInv, HostActive, Active, Recovering, Registered, IInv, OnlinePhases
<1>19. CASE Resume
  <2>1. CASE ChargeResume
    <3>1. /\ Applied \/ (~Recovering /\ Unapplied)
          /\ Recovering' => work'
      BY <1>19, <2>1, ResumeApplies DEF Resume, IInv
    <3>2. UNCHANGED <<soc, band>> /\ Registered
      BY <1>19 DEF Resume, pack, Registered
    <3>3. CASE Applied
      BY <3>1, <3>2, <3>3 DEF Applied, Effects, LedInv
    <3>4. CASE ~Recovering /\ Unapplied
      BY <3>1, <3>2, <3>4 DEF Unapplied, reg0x57, policy, band, HostActive, Active,
         Recovering, Registered, IInv, LedInv
    <3> QED
      BY <3>1, <3>3, <3>4
  <2>2. CASE UNCHANGED <<online, reg0x57, led, policy, work, bad, moved>>
    BY <1>19, <2>2 DEF Resume, reg0x57, policy, band, pack, HostActive, Active, Recovering,
       Registered, OfflineUnderEc, OnlinePhases, IInv, LedInv
  <2> QED
    BY <1>19, <2>1, <2>2 DEF Resume
<1>20. CASE Reboot
  BY <1>20
     DEF Reboot, GoOffline, StayOffline, reg0x57, pack, band, policy, async,
         LedInv, HostActive, Active, Recovering, Registered, IInv, OnlinePhases
<1>21. CASE Remove
  BY <1>21
     DEF Remove, reg0x57, pack, band, policy, async, LedInv, HostActive, Active,
         Recovering, Registered, IInv, OnlinePhases
<1>22. CASE Crash
  BY <1>22
     DEF Crash, reg0x57, pack, LedInv, HostActive, Active, Recovering,
         Registered, IInv, OnlinePhases
<1>23. CASE Plug
  BY <1>23
     DEF Plug, reg0x57, band, policy, LedInv, HostActive, Active, Recovering,
         Registered, IInv, OnlinePhases
<1>24. CASE Drift
  BY <1>24
     DEF Drift, MayCharge, reg0x57, band, policy, async, LedInv, HostActive,
         Active, Recovering, Registered, IInv, OnlinePhases
<1>25. CASE UNCHANGED vars
  BY <1>25
     DEF vars, reg0x57, pack, band, policy, async, LedInv, HostActive, Active,
         Recovering, Registered, IInv, OnlinePhases
<1> QED
  BY <1>1, <1>2, <1>3, <1>4, <1>5, <1>6, <1>7, <1>8, <1>9, <1>10, <1>11, <1>12,
     <1>13, <1>14, <1>15, <1>16, <1>17, <1>18, <1>19, <1>20, <1>21, <1>22,
     <1>23, <1>24, <1>25
     DEF Next, Driver, User
\* A policy that has just been applied leaves a margin on either side.
LEMMA AppliedMargin ==
  ASSUME Applied, TypeOK, TypeOK', UNCHANGED soc
  PROVE  Margin'
<1> SUFFICES ASSUME HostActive', ~bad' PROVE Margin'
  BY DEF Margin
<1>1. soc \in Int /\ charge_start' \in Int /\ charge_end' \in Int
  BY DEF TypeOK
<1>2. /\ owner'
      /\ enable' => soc < charge_end'
      /\ ~enable' => soc > charge_start'
  BY DEF Applied
<1> QED
  BY <1>1, <1>2 DEF Margin

\* Within one polling period the charge moves by one at most.
LEMMA NextMargin == IInv /\ [Next]_vars => Margin'
<1> SUFFICES ASSUME IInv, [Next]_vars PROVE Margin'
  OBVIOUS
<1>a. TypeOK'
  BY NextTypeOK DEF IInv
<1>1. ASSUME NEW ok \in BOOLEAN, Work(ok) PROVE Margin'
  <2> UNCHANGED <<soc, band, online, phase>>
    BY <1>1 DEF Work, pack
  <2>1. CASE WorkOffline
    BY <2>1 DEF WorkOffline, reg0x57, policy, band, HostActive, Active, Registered,
       Recovering, IInv, Margin
  <2>2. CASE WorkPolicy(ok)
    <3>1. Apply(charge_start, charge_end, ok) /\ work' = (HostActive \/ charge_recovery_pending')
      BY <2>2 DEF WorkPolicy
    <3>2. Applied
      BY <3>1, ApplyApplies DEF band, IInv, TypeOK
    <3> QED
      BY <3>2, <1>a, AppliedMargin DEF IInv
  <2>3. CASE WorkLed(ok)
    <3>1. ok /\ batled_low' => led' = "red"
      BY <2>3, SetLedEffects DEF WorkLed, IInv
    <3>2. ~HostActive' /\ ~Recovering'
      BY <2>3 DEF WorkLed, Recovering, HostActive, Active, band
    <3> QED
      BY <2>3, <3>1, <3>2 DEF WorkLed, reg0x57, band, HostActive, Active, Registered, IInv, Margin
  <2> QED
    BY <1>1, <2>1, <2>2, <2>3 DEF Work
<1>2. CASE NotifyRead
  BY <1>2
     DEF NotifyRead, reg0x57, pack, band, policy, Margin, HostActive, Active,
         Recovering, Registered, IInv, OnlinePhases
<1>3. CASE NotifyQueue
  BY <1>3
     DEF NotifyQueue, reg0x57, pack, band, policy, Margin, HostActive, Active,
         Recovering, Registered, IInv, OnlinePhases
<1>4. CASE Register
  <2>1. PICK ok \in BOOLEAN : Release(ok)
    BY <1>4 DEF Register
  <2>2. Applied /\ ~HostActive'
    BY <2>1, ReleaseApplies DEF IInv
  <2>3. phase' # "bound"
    BY <1>4 DEF Register
  <2> QED
    BY <2>2, <2>3 DEF Applied, Effects, Margin
<1>5. CASE DefaultStart
  <2>1. PICK ok \in BOOLEAN : SetThreshold(DefStart, charge_end, ok)
    BY <1>5 DEF DefaultStart
  <2>2. \/ Unapplied /\ UNCHANGED <<band, work>>
        \/ Applied /\ work' = Recovering'
    BY <2>1, ThresholdApplies DEF IInv, TypeOK
  <2>3. UNCHANGED <<soc, online>>
    BY <1>5 DEF DefaultStart, pack
  <2>4. phase' = phase \/ phase' \in {"end_default", "fans"}
    BY <1>5 DEF DefaultStart
  <2>5. Registered
    BY <1>5 DEF DefaultStart, Registered, IInv, OnlinePhases
  <2>6. CASE Unapplied /\ UNCHANGED <<band, work>>
    BY <2>3, <2>4, <2>5, <2>6 DEF Unapplied, reg0x57, policy, band, HostActive, Active,
       Recovering, Registered, IInv, Margin
  <2>7. CASE Applied /\ work' = Recovering'
    BY <2>3, <2>4, <2>7, <1>a, AppliedMargin DEF IInv
  <2> QED
    BY <2>2, <2>6, <2>7
<1>6. CASE DefaultEnd
  <2>1. PICK ok \in BOOLEAN : SetThreshold(charge_start, DefEnd, ok)
    BY <1>6 DEF DefaultEnd
  <2>2. \/ Unapplied /\ UNCHANGED <<band, work>>
        \/ Applied /\ work' = Recovering'
    BY <2>1, ThresholdApplies DEF IInv, TypeOK
  <2>3. UNCHANGED <<soc, online>>
    BY <1>6 DEF DefaultEnd, pack
  <2>4. phase' = phase \/ phase' \in {"end_default", "fans"}
    BY <1>6 DEF DefaultEnd
  <2>5. Registered
    BY <1>6 DEF DefaultEnd, Registered, IInv, OnlinePhases
  <2>6. CASE Unapplied /\ UNCHANGED <<band, work>>
    BY <2>3, <2>4, <2>5, <2>6 DEF Unapplied, reg0x57, policy, band, HostActive, Active,
       Recovering, Registered, IInv, Margin
  <2>7. CASE Applied /\ work' = Recovering'
    BY <2>3, <2>4, <2>7, <1>a, AppliedMargin DEF IInv
  <2> QED
    BY <2>2, <2>6, <2>7
<1>7. CASE GoOnline
  BY <1>7
     DEF GoOnline, reg0x57, pack, band, policy, async, Margin, HostActive,
         Active, Recovering, Registered, IInv, OnlinePhases
<1>8. CASE ProbeDone
  <2>1. /\ Applied \/ (~Recovering /\ Unapplied)
        /\ Recovering' => work'
    BY <1>8, ResumeApplies DEF ProbeDone, IInv
  <2>2. UNCHANGED <<soc, band>> /\ Registered
    BY <1>8 DEF ProbeDone, pack, Registered
  <2>3. CASE Applied
    BY <2>1, <2>2, <2>3, <1>a, AppliedMargin DEF IInv
  <2>4. CASE ~Recovering /\ Unapplied
    BY <2>1, <2>2, <2>4 DEF Unapplied, reg0x57, policy, band, HostActive, Active,
       Recovering, Registered, IInv, Margin
  <2> QED
    BY <2>1, <2>3, <2>4
<1>9. CASE SuspendLocked
  <2>1. PICK ok \in BOOLEAN : ChargeSuspend(ok)
    BY <1>9 DEF SuspendLocked
  <2>2. phase' # "bound" /\ UNCHANGED band
    BY <1>9 DEF SuspendLocked
  <2>3. CASE Recovering
    <3>1. Effects /\ charge_recovery_pending' = ~ok /\ (ok => ~owner' /\ ~enable')
      BY <2>1, <2>3, ReturnEffects DEF ChargeSuspend, IInv, TypeOK
    <3> QED
      BY <2>2, <3>1 DEF Effects, Margin
  <2>4. CASE ~Recovering
    <3>1. Unapplied /\ Registered
      BY <1>9, <2>1, <2>4 DEF SuspendLocked, ChargeSuspend, Unapplied, Registered
    <3> QED
      BY <2>2, <3>1 DEF Unapplied, reg0x57, policy, band, HostActive, Active, Registered,
         IInv, Margin
  <2> QED
    BY <2>3, <2>4
<1>10. CASE SuspendAborted
  <2>1. /\ Applied \/ (~Recovering /\ Unapplied)
        /\ Recovering' => work'
    BY <1>10, ResumeApplies DEF SuspendAborted, IInv
  <2>2. UNCHANGED <<soc, band>> /\ Registered
    BY <1>10 DEF SuspendAborted, pack, Registered
  <2>3. CASE Applied
    BY <2>1, <2>2, <2>3, <1>a, AppliedMargin DEF IInv
  <2>4. CASE ~Recovering /\ Unapplied
    BY <2>1, <2>2, <2>4 DEF Unapplied, reg0x57, policy, band, HostActive, Active,
       Recovering, Registered, IInv, Margin
  <2> QED
    BY <2>1, <2>3, <2>4
<1>11. CASE RebootLocked
  <2>1. PICK ok \in BOOLEAN : Release(ok)
    BY <1>11 DEF RebootLocked
  <2>2. Applied /\ ~HostActive'
    BY <2>1, ReleaseApplies DEF IInv
  <2>3. phase' # "bound"
    BY <1>11 DEF RebootLocked
  <2> QED
    BY <2>2, <2>3 DEF Applied, Effects, Margin
<1>12. CASE Unregister("undoing", "unbound")
  BY <1>12
     DEF Unregister, reg0x57, pack, band, policy, Margin, HostActive, Active,
         Recovering, Registered, IInv, OnlinePhases
<1>13. CASE Unregister("removing", "releasing")
  BY <1>13
     DEF Unregister, reg0x57, pack, band, policy, Margin, HostActive, Active,
         Recovering, Registered, IInv, OnlinePhases
<1>14. CASE RemoveRelease
  <2>1. PICK ok \in BOOLEAN : Release(ok)
    BY <1>14 DEF RemoveRelease
  <2>2. Applied /\ ~HostActive'
    BY <2>1, ReleaseApplies DEF IInv
  <2>3. phase' # "bound"
    BY <1>14 DEF RemoveRelease
  <2> QED
    BY <2>2, <2>3 DEF Applied, Effects, Margin
<1>15. ASSUME NEW set_start \in BOOLEAN, NEW value \in Soc, StoreThreshold(set_start, value) PROVE Margin'
  <2>1. PICK ok \in BOOLEAN, s \in Soc, e \in Soc : SetThreshold(s, e, ok)
    BY <1>15 DEF StoreThreshold, IInv, TypeOK
  <2>2. \/ Unapplied /\ UNCHANGED <<band, work>>
        \/ Applied /\ work' = Recovering'
    BY <2>1, ThresholdApplies DEF IInv, TypeOK
  <2>3. UNCHANGED <<soc, online>>
    BY <1>15 DEF StoreThreshold, pack
  <2>4. phase' = phase \/ phase' \in {"end_default", "fans"}
    BY <1>15 DEF StoreThreshold
  <2>5. Registered
    BY <1>15 DEF StoreThreshold, Registered, IInv, OnlinePhases
  <2>6. CASE Unapplied /\ UNCHANGED <<band, work>>
    BY <2>3, <2>4, <2>5, <2>6 DEF Unapplied, reg0x57, policy, band, HostActive, Active,
       Recovering, Registered, IInv, Margin
  <2>7. CASE Applied /\ work' = Recovering'
    BY <2>3, <2>4, <2>7, <1>a, AppliedMargin DEF IInv
  <2> QED
    BY <2>2, <2>6, <2>7
<1>16. ASSUME NEW colour \in UserLeds, NEW on \in BOOLEAN, SetBatteryLed(colour, on) PROVE Margin'
  BY <1>16
     DEF SetBatteryLed, OwnsBatteryLed, reg0x57, pack, band, policy, async,
         Margin, HostActive, Active, Recovering, Registered, IInv, OnlinePhases
<1>17. CASE ProbeUndo
  <2>1. PICK ok \in BOOLEAN : Release(ok)
    BY <1>17 DEF ProbeUndo
  <2>2. Applied /\ ~HostActive'
    BY <2>1, ReleaseApplies DEF IInv
  <2>3. phase' # "bound"
    BY <1>17 DEF ProbeUndo
  <2> QED
    BY <2>2, <2>3 DEF Applied, Effects, Margin
<1>18. CASE Suspend
  BY <1>18
     DEF Suspend, GoOffline, StayOffline, reg0x57, pack, band, policy, async,
         Margin, HostActive, Active, Recovering, Registered, IInv, OnlinePhases
<1>19. CASE Resume
  <2>1. CASE ChargeResume
    <3>1. /\ Applied \/ (~Recovering /\ Unapplied)
          /\ Recovering' => work'
      BY <1>19, <2>1, ResumeApplies DEF Resume, IInv
    <3>2. UNCHANGED <<soc, band>> /\ Registered
      BY <1>19 DEF Resume, pack, Registered
    <3>3. CASE Applied
      BY <3>1, <3>2, <3>3, <1>a, AppliedMargin DEF IInv
    <3>4. CASE ~Recovering /\ Unapplied
      BY <3>1, <3>2, <3>4 DEF Unapplied, reg0x57, policy, band, HostActive, Active,
         Recovering, Registered, IInv, Margin
    <3> QED
      BY <3>1, <3>3, <3>4
  <2>2. CASE UNCHANGED <<online, reg0x57, led, policy, work, bad, moved>>
    BY <1>19, <2>2 DEF Resume, reg0x57, policy, band, pack, HostActive, Active, Recovering,
       Registered, OfflineUnderEc, OnlinePhases, IInv, Margin
  <2> QED
    BY <1>19, <2>1, <2>2 DEF Resume
<1>20. CASE Reboot
  BY <1>20
     DEF Reboot, GoOffline, StayOffline, reg0x57, pack, band, policy, async,
         Margin, HostActive, Active, Recovering, Registered, IInv, OnlinePhases
<1>21. CASE Remove
  BY <1>21
     DEF Remove, reg0x57, pack, band, policy, async, Margin, HostActive, Active,
         Recovering, Registered, IInv, OnlinePhases
<1>22. CASE Crash
  BY <1>22
     DEF Crash, reg0x57, pack, Margin, HostActive, Active, Recovering,
         Registered, IInv, OnlinePhases
<1>23. CASE Plug
  BY <1>23
     DEF Plug, reg0x57, band, policy, Margin, HostActive, Active, Recovering,
         Registered, IInv, OnlinePhases
<1>24. CASE Drift
  <2>1. SUFFICES ASSUME phase = "bound", online, HostActive, ~bad
                 PROVE  /\ owner
                        /\ enable => soc' <= charge_end
                        /\ ~enable => soc' >= charge_start
    BY <1>24 DEF Drift, Margin, reg0x57, band, HostActive, Active
  <2>2. work /\ ~moved
    BY <1>24, <2>1 DEF Drift, IInv, Watched, Recovering
  <2>3. /\ owner
        /\ enable => soc < charge_end
        /\ ~enable => soc > charge_start
    BY <2>1, <2>2 DEF IInv, Margin
  <2>4. soc \in Int /\ charge_start \in Int /\ charge_end \in Int
    BY DEF IInv, TypeOK
  <2>5. charge_start < charge_end
    BY DEF IInv, TypeOK
  <2>6. CASE MayCharge /\ soc' = soc + 1
    BY <2>3, <2>4, <2>6 DEF MayCharge
  <2>7. CASE ~ac /\ soc' = soc - 1
    BY <2>3, <2>4, <2>7
  <2> QED
    BY <1>24, <2>3, <2>6, <2>7 DEF Drift
<1>25. CASE UNCHANGED vars
  BY <1>25
     DEF vars, reg0x57, pack, band, policy, async, Margin, HostActive, Active,
         Recovering, Registered, IInv, OnlinePhases
<1> QED
  BY <1>1, <1>2, <1>3, <1>4, <1>5, <1>6, <1>7, <1>8, <1>9, <1>10, <1>11, <1>12,
     <1>13, <1>14, <1>15, <1>16, <1>17, <1>18, <1>19, <1>20, <1>21, <1>22,
     <1>23, <1>24, <1>25
     DEF Next, Driver, User
\* A device that sleeps, or stayed offline after it, left charging with the EC.
LEMMA NextOfflineUnderEc == IInv /\ [Next]_vars => OfflineUnderEc'
<1> SUFFICES ASSUME IInv, [Next]_vars PROVE OfflineUnderEc'
  OBVIOUS
<1>1. ASSUME NEW ok \in BOOLEAN, Work(ok) PROVE OfflineUnderEc'
  <2>1. UNCHANGED <<online, phase>>
    BY <1>1 DEF Work
  <2>2. ~online => UNCHANGED reg0x57
    BY <1>1 DEF Work, WorkOffline, WorkPolicy, WorkLed
  <2>3. online => ~(phase = "asleep" \/ (phase = "bound" /\ ~online))
    BY DEF IInv, OnlinePhases
  <2> QED
    BY <2>1, <2>2, <2>3 DEF reg0x57, OfflineUnderEc, IInv
<1>2. CASE NotifyRead
  BY <1>2
     DEF NotifyRead, reg0x57, pack, band, policy, OfflineUnderEc, IInv,
         OnlinePhases
<1>3. CASE NotifyQueue
  BY <1>3
     DEF NotifyQueue, reg0x57, pack, band, policy, OfflineUnderEc, IInv,
         OnlinePhases
<1>4. CASE Register
  <2>1. phase' \notin {"asleep", "bound"}
    BY <1>4 DEF Register
  <2> QED
    BY <2>1 DEF OfflineUnderEc
<1>5. CASE DefaultStart
  <2>1. phase' \in {"end_default", "fans"}
    BY <1>5 DEF DefaultStart
  <2> QED
    BY <2>1 DEF OfflineUnderEc
<1>6. CASE DefaultEnd
  <2>1. phase' \in {"end_default", "fans"}
    BY <1>6 DEF DefaultEnd
  <2> QED
    BY <2>1 DEF OfflineUnderEc
<1>7. CASE GoOnline
  BY <1>7
     DEF GoOnline, reg0x57, pack, band, policy, async, OfflineUnderEc, IInv,
         OnlinePhases
<1>8. CASE ProbeDone
  <2>1. phase' = "bound" /\ online'
    BY <1>8 DEF ProbeDone, IInv, OnlinePhases
  <2> QED
    BY <2>1 DEF OfflineUnderEc
<1>9. CASE SuspendLocked
  <2>1. PICK ok \in BOOLEAN, fanOk \in BOOLEAN :
          ChargeSuspend(ok) /\ phase' = IF ok /\ fanOk THEN "asleep" ELSE "aborting"
    BY <1>9 DEF SuspendLocked
  <2>2. CASE Recovering
    <3>1. ok => ~owner' /\ ~enable'
      BY <2>1, <2>2, ReturnEffects DEF ChargeSuspend, IInv, TypeOK
    <3> QED
      BY <2>1, <3>1 DEF OfflineUnderEc
  <2>3. CASE ~Recovering
    <3>1. UNCHANGED reg0x57 /\ Registered /\ ~HostActive /\ ~charge_recovery_pending
      BY <1>9, <2>1, <2>3 DEF SuspendLocked, ChargeSuspend, Registered, Recovering
    <3>2. ~owner /\ ~enable
      BY <3>1 DEF IInv, HandedBackOrKnown
    <3> QED
      BY <3>1, <3>2 DEF reg0x57, OfflineUnderEc
  <2> QED
    BY <2>2, <2>3
<1>10. CASE SuspendAborted
  <2>1. phase' = "bound" /\ online'
    BY <1>10 DEF SuspendAborted
  <2> QED
    BY <2>1 DEF OfflineUnderEc
<1>11. CASE RebootLocked
  <2>1. phase' \notin {"asleep", "bound"}
    BY <1>11 DEF RebootLocked
  <2> QED
    BY <2>1 DEF OfflineUnderEc
<1>12. CASE Unregister("undoing", "unbound")
  BY <1>12
     DEF Unregister, reg0x57, pack, band, policy, OfflineUnderEc, IInv,
         OnlinePhases
<1>13. CASE Unregister("removing", "releasing")
  BY <1>13
     DEF Unregister, reg0x57, pack, band, policy, OfflineUnderEc, IInv,
         OnlinePhases
<1>14. CASE RemoveRelease
  <2>1. phase' \notin {"asleep", "bound"}
    BY <1>14 DEF RemoveRelease
  <2> QED
    BY <2>1 DEF OfflineUnderEc
<1>15. ASSUME NEW set_start \in BOOLEAN, NEW value \in Soc, StoreThreshold(set_start, value) PROVE OfflineUnderEc'
  <2>1. online /\ UNCHANGED <<online, phase>>
    BY <1>15 DEF StoreThreshold
  <2> QED
    BY <2>1 DEF OfflineUnderEc, IInv, OnlinePhases
<1>16. ASSUME NEW colour \in UserLeds, NEW on \in BOOLEAN, SetBatteryLed(colour, on) PROVE OfflineUnderEc'
  BY <1>16
     DEF SetBatteryLed, OwnsBatteryLed, reg0x57, pack, band, policy, async,
         OfflineUnderEc, IInv, OnlinePhases
<1>17. CASE ProbeUndo
  <2>1. phase' \notin {"asleep", "bound"}
    BY <1>17 DEF ProbeUndo
  <2> QED
    BY <2>1 DEF OfflineUnderEc
<1>18. CASE Suspend
  <2>1. (phase' = "asleep" => phase = "bound" /\ ~online) /\ phase' # "bound"
    BY <1>18 DEF Suspend, GoOffline, StayOffline
  <2>2. UNCHANGED reg0x57
    BY <1>18 DEF Suspend, GoOffline, StayOffline
  <2> QED
    BY <2>1, <2>2 DEF reg0x57, OfflineUnderEc, IInv
<1>19. CASE Resume
  <2>1. phase = "asleep" /\ phase' = "bound"
    BY <1>19 DEF Resume
  <2>2. online' \/ UNCHANGED reg0x57
    BY <1>19 DEF Resume
  <2> QED
    BY <2>1, <2>2 DEF reg0x57, OfflineUnderEc, IInv
<1>20. CASE Reboot
  BY <1>20
     DEF Reboot, GoOffline, StayOffline, reg0x57, pack, band, policy, async,
         OfflineUnderEc, IInv, OnlinePhases
<1>21. CASE Remove
  BY <1>21
     DEF Remove, reg0x57, pack, band, policy, async, OfflineUnderEc, IInv,
         OnlinePhases
<1>22. CASE Crash
  BY <1>22 DEF Crash, reg0x57, pack, OfflineUnderEc, IInv, OnlinePhases
<1>23. CASE Plug
  BY <1>23 DEF Plug, reg0x57, band, policy, OfflineUnderEc, IInv, OnlinePhases
<1>24. CASE Drift
  BY <1>24
     DEF Drift, MayCharge, reg0x57, band, policy, async, OfflineUnderEc, IInv,
         OnlinePhases
<1>25. CASE UNCHANGED vars
  BY <1>25
     DEF vars, reg0x57, pack, band, policy, async, OfflineUnderEc, IInv,
         OnlinePhases
<1> QED
  BY <1>1, <1>2, <1>3, <1>4, <1>5, <1>6, <1>7, <1>8, <1>9, <1>10, <1>11, <1>12,
     <1>13, <1>14, <1>15, <1>16, <1>17, <1>18, <1>19, <1>20, <1>21, <1>22,
     <1>23, <1>24, <1>25
     DEF Next, Driver, User
-----------------------------------------------------------------------------
\* A host that boots finds what the last one left: the registers of the EC are
\* anything, the driver's own state is fresh.
LEMMA InitIInv == Init => IInv
<1> SUFFICES ASSUME Init PROVE IInv
  OBVIOUS
<1>1. 0 \in Soc /\ Full \in Soc /\ 0 < Full
  OBVIOUS
<1>2. TypeOK
  BY <1>1, Names DEF Init, TypeOK
<1>3. OnlinePhases /\ HandedBackOrKnown /\ Watched /\ OfflineUnderEc /\ NoWorkAfterFree
  BY DEF Init, OnlinePhases, HandedBackOrKnown, Registered, Watched, OfflineUnderEc,
     NoWorkAfterFree
<1>4. Margin /\ LedInv
  BY DEF Init, Margin, LedInv
<1> QED
  BY <1>2, <1>3, <1>4 DEF IInv

\* The inductive invariant holds in every reachable state.
THEOREM Inductive == Spec => []IInv
<1>1. IInv /\ [Next]_vars => IInv'
  BY NextTypeOK, NextOnlinePhases, NextHandedBack, NextWatched, NextOfflineUnderEc,
     NextNoWorkAfterFree, NextMargin, NextLed DEF IInv
<1> QED
  BY <1>1, InitIInv, PTL DEF Spec

\* Every variable keeps its type; the thresholds stay a band within 0..Full.
THEOREM TypeCorrect == Spec => []TypeOK
BY Inductive, PTL DEF IInv

\* Whatever access failed, the driver without a band either has given charging
\* back to the EC or remembers that it still has to (t6_charge_apply(),
\* t6_charge_return_to_ec()).
THEOREM HandsBackOrKnows == Spec => []HandedBackOrKnown
BY Inductive, PTL DEF IInv

\* A band, or a hand-back to retry, is always polled (charge_work).
THEOREM Watches == Spec => []Watched
BY Inductive, PTL DEF IInv

\* The EC neither overcharges the pack nor starves it while a band is applied.
THEOREM KeepsBand == Spec => []WithinBand
<1>1. IInv => WithinBand
  BY DEF IInv, Margin, WithinBand
<1> QED
  BY <1>1, Inductive, PTL

\* No suspend goes through with the host deciding over charging.
THEOREM SleepsUnderEc == Spec => []AsleepUnderEc
<1>1. IInv => AsleepUnderEc
  BY DEF IInv, OfflineUnderEc, AsleepUnderEc
<1> QED
  BY <1>1, Inductive, PTL

\* The battery LED shows the policy's colour while the policy owns it.
THEOREM LedKept == Spec => []LedIsThePolicys
<1>1. IInv => LedIsThePolicys
  BY DEF IInv, LedInv, LedIsThePolicys
<1> QED
  BY <1>1, Inductive, PTL

\* No work is queued, and no notifier runs, on an unregistered device.
THEOREM FreesQuietly == Spec => []NoWorkAfterFree
BY Inductive, PTL DEF IInv

\* Charging is never in unknown hands, nor the host's asleep, and the LED is the policy's.
THEOREM ChargesSafely == Spec => []ChargeSafe
BY HandsBackOrKnows, SleepsUnderEc, LedKept, PTL DEF ChargeSafe

-----------------------------------------------------------------------------
\* The hysteresis remembers what the EC does, unless an access failed: from it, charging
\* turns only at a threshold.
Agrees == phase = "bound" /\ online /\ HostActive /\ ~bad => (enable <=> charge_enabled)

\* t6_charge_apply() with a band.
LEMMA ApplyAgrees ==
  ASSUME TypeOK, NEW s \in Nat, NEW e \in Nat, NEW ok \in BOOLEAN, Active(s, e), Apply(s, e, ok)
  PROVE  /\ ~bad' => (enable' <=> charge_enabled')
         /\ enable' # enable => (enable' <=> Enabled(s, e))
<1>1. bad' = ~ok
  BY DEF Apply
<1>2. CASE ~ok /\ ApplyBlind(s, e)
  BY <1>1, <1>2 DEF ApplyBlind, reg0x57
<1>3. CASE ApplyBand(s, e, ok)
  <2>1. Enabled(s, e) \in BOOLEAN /\ (charge_enabled' <=> Enabled(s, e))
    BY <1>3 DEF ApplyBand, Enabled, TypeOK
  <2>2. enable' = Enabled(s, e) \/ (~ok /\ enable' = enable)
    BY <1>3 DEF ApplyBand, UpdateBits, reg0x57
  <2> QED
    BY <1>1, <2>1, <2>2
<1> QED
  BY <1>2, <1>3 DEF Apply

LEMMA ResumeAgrees ==
  ASSUME TypeOK, ChargeResume, UNCHANGED band, HostActive', ~bad'
  PROVE  enable' <=> charge_enabled'
<1>1. HostActive /\ charge_start \in Nat /\ charge_end \in Nat
  BY DEF HostActive, Active, band, TypeOK, Soc
<1>2. PICK ok \in BOOLEAN : Apply(charge_start, charge_end, ok)
  BY <1>1 DEF ChargeResume, Recovering
<1> QED
  BY <1>1, <1>2, ApplyAgrees DEF HostActive

\* What ends off the bound phase says nothing, and what leaves the EC and the memory alone
\* keeps them agreed.
Leaving ==
  \/ Register \/ DefaultStart \/ DefaultEnd \/ GoOnline \/ SuspendLocked \/ RebootLocked
  \/ Unregister("undoing", "unbound") \/ Unregister("removing", "releasing") \/ RemoveRelease
  \/ ProbeUndo \/ Suspend \/ Reboot \/ Remove \/ Crash
Aside ==
  \/ NotifyRead \/ NotifyQueue \/ Plug \/ Drift \/ UNCHANGED vars
  \/ \E colour \in UserLeds, on \in BOOLEAN : SetBatteryLed(colour, on)

LEMMA LeavingLeaves == Leaving => phase' # "bound"
<1>1. CASE Register \/ DefaultStart \/ DefaultEnd \/ GoOnline \/ SuspendLocked \/ RebootLocked
  BY <1>1 DEF Register, DefaultStart, DefaultEnd, GoOnline, SuspendLocked, RebootLocked
<1>2. CASE Unregister("undoing", "unbound") \/ Unregister("removing", "releasing") \/ RemoveRelease
  BY <1>2 DEF Unregister, RemoveRelease
<1>3. CASE ProbeUndo \/ Suspend \/ Reboot \/ Remove \/ Crash
  BY <1>3 DEF ProbeUndo, Suspend, Reboot, Remove, Crash, GoOffline, StayOffline
<1> QED
  BY <1>1, <1>2, <1>3 DEF Leaving

LEMMA AsideRests ==
  Aside => UNCHANGED <<reg0x57, band, charge_enabled, online, phase, bad>>
<1>1. CASE NotifyRead \/ NotifyQueue \/ Plug
  BY <1>1 DEF NotifyRead, NotifyQueue, Plug, policy
<1>2. CASE Drift \/ UNCHANGED vars
  BY <1>2 DEF Drift, vars, policy
<1>3. CASE \E colour \in UserLeds, on \in BOOLEAN : SetBatteryLed(colour, on)
  BY <1>3 DEF SetBatteryLed, policy
<1> QED
  BY <1>1, <1>2, <1>3 DEF Aside

\* What a threshold written, or the work, makes of the band that is in force then.
Turns ==
  \/ UNCHANGED <<reg0x57, band, charge_enabled, bad>>
  \/ ~HostActive'
  \/ \E ok \in BOOLEAN : /\ Active(charge_start', charge_end')
                          /\ Apply(charge_start', charge_end', ok)

LEMMA WorkTurns ==
  ASSUME TypeOK, NEW ok \in BOOLEAN, Work(ok)
  PROVE  Turns
<1>1. UNCHANGED band
  BY DEF Work
<1>2. charge_start' = charge_start /\ charge_end' = charge_end
  BY <1>1 DEF band
<1>3. HostActive' <=> Active(charge_start, charge_end)
  BY <1>2 DEF HostActive, Active
<1>4. CASE WorkOffline
  BY <1>1, <1>4 DEF WorkOffline, Turns, policy
<1>5. CASE WorkPolicy(ok)
  BY <1>2, <1>3, <1>5 DEF WorkPolicy, Turns
<1>6. CASE WorkLed(ok)
  BY <1>3, <1>6 DEF WorkLed, Recovering, HostActive, Turns
<1> QED
  BY <1>4, <1>5, <1>6 DEF Work

LEMMA StoreTurns ==
  ASSUME TypeOK, NEW set_start \in BOOLEAN, NEW value \in Soc, StoreThreshold(set_start, value)
  PROVE  Turns
<1>1. PICK ok \in BOOLEAN, s \in Soc, e \in Soc : SetThreshold(s, e, ok)
  BY DEF StoreThreshold, TypeOK
<1>2. CASE e > Full \/ s >= e
  BY <1>1, <1>2 DEF SetThreshold, Turns, policy
<1>3. CASE ~(e > Full \/ s >= e)
  <2>1. charge_start' = s /\ charge_end' = e /\ Apply(s, e, ok)
    BY <1>1, <1>3 DEF SetThreshold
  <2>2. HostActive' <=> Active(s, e)
    BY <2>1 DEF HostActive, Active
  <2> QED
    BY <2>1, <2>2 DEF Turns
<1> QED
  BY <1>2, <1>3

LEMMA NextAgrees ==
  ASSUME IInv, Agrees, [Next]_vars
  PROVE  /\ Agrees'
         /\ phase = "bound" /\ phase' = phase => Aside \/ Turns
<1>0. TypeOK /\ TypeOK'
  BY NextTypeOK DEF IInv
<1>1. CASE Leaving
  BY <1>1, LeavingLeaves DEF Agrees
<1>2. CASE Aside
  <2>1. UNCHANGED <<reg0x57, band, charge_enabled, online, phase, bad>>
    BY <1>2, AsideRests
  <2> QED
    BY <1>2, <2>1 DEF Agrees, HostActive, Active, reg0x57, band
<1>3. CASE Turns /\ UNCHANGED <<online, phase>>
  <2>1. CASE UNCHANGED <<reg0x57, band, charge_enabled, bad>>
    BY <1>3, <2>1 DEF Agrees, HostActive, Active, reg0x57, band
  <2>2. CASE ~HostActive'
    BY <1>3, <2>2 DEF Agrees
  <2>3. ASSUME NEW ok \in BOOLEAN, Active(charge_start', charge_end'), Apply(charge_start', charge_end', ok)
        PROVE  Agrees'
    <3>1. charge_start' \in Nat /\ charge_end' \in Nat
      BY <1>0 DEF TypeOK, Soc
    <3> QED
      BY <1>0, <2>3, <3>1, ApplyAgrees DEF Agrees
  <2> QED
    BY <1>3, <2>1, <2>2, <2>3 DEF Turns
<1>4. CASE (ProbeDone \/ SuspendAborted \/ Resume) /\ ChargeResume /\ UNCHANGED band
  <2>1. phase # "bound"
    BY <1>4 DEF ProbeDone, SuspendAborted, Resume
  <2> QED
    BY <1>0, <1>4, <2>1, ResumeAgrees DEF Agrees
<1>5. CASE Resume /\ UNCHANGED online
  <2>1. phase = "asleep" /\ ~online'
    BY <1>5 DEF Resume, IInv, OnlinePhases
  <2> QED
    BY <2>1 DEF Agrees
<1>6. ASSUME NEW ok \in BOOLEAN, Work(ok) PROVE Turns /\ UNCHANGED <<online, phase>>
  BY <1>0, <1>6, WorkTurns DEF Work
<1>7. ASSUME NEW set_start \in BOOLEAN, NEW value \in Soc, StoreThreshold(set_start, value)
      PROVE  Turns /\ UNCHANGED <<online, phase>>
  BY <1>0, <1>7, StoreTurns DEF StoreThreshold
<1>8. ProbeDone \/ SuspendAborted => ChargeResume /\ UNCHANGED band
  BY DEF ProbeDone, SuspendAborted
<1>9. Resume => UNCHANGED band /\ (ChargeResume \/ UNCHANGED online)
  BY DEF Resume
<1>10. \/ Leaving \/ Aside \/ ProbeDone \/ SuspendAborted \/ Resume
       \/ \E ok \in BOOLEAN : Work(ok)
       \/ \E set_start \in BOOLEAN, value \in Soc : StoreThreshold(set_start, value)
  BY DEF Next, Driver, User, Leaving, Aside
<1>11. CASE \E ok \in BOOLEAN : Work(ok)
  BY <1>3, <1>6, <1>11
<1>12. CASE \E set_start \in BOOLEAN, value \in Soc : StoreThreshold(set_start, value)
  BY <1>3, <1>7, <1>12
<1> QED
  BY <1>1, <1>2, <1>4, <1>5, <1>8, <1>9, <1>10, <1>11, <1>12

\* Within a band charging starts only at the start threshold and stops only at the end
\* threshold, however often t6_charge_apply() runs in between.
THEOREM DoesNotFlap == Spec => NoFlapping
<1> DEFINE J == IInv /\ Agrees
           A == phase = "bound" /\ online /\ HostActive /\ UNCHANGED <<phase, online, band>> /\ ~bad
                /\ enable' # enable
                => IF enable' THEN soc <= charge_start ELSE soc >= charge_end
<1>1. Init => J
  BY InitIInv DEF Init, Agrees
<1>2. J /\ [Next]_vars => J'
  BY NextAgrees, NextTypeOK, NextOnlinePhases, NextHandedBack, NextWatched, NextOfflineUnderEc,
     NextNoWorkAfterFree, NextMargin, NextLed DEF IInv
<1>3. J /\ [Next]_vars => A
  <2> SUFFICES ASSUME J, [Next]_vars, phase = "bound", online, HostActive,
                      UNCHANGED <<phase, online, band>>, ~bad, enable' # enable
               PROVE  IF enable' THEN soc <= charge_start ELSE soc >= charge_end
    OBVIOUS
  <2>1. ~Aside
    BY AsideRests DEF reg0x57
  <2>2. charge_start' = charge_start /\ charge_end' = charge_end /\ HostActive'
    BY DEF band, HostActive, Active
  <2>3. PICK ok \in BOOLEAN : Apply(charge_start, charge_end, ok) /\ Active(charge_start, charge_end)
    BY <2>1, <2>2, NextAgrees DEF Turns, reg0x57
  <2>4. TypeOK /\ charge_start \in Nat /\ charge_end \in Nat
    BY DEF IInv, TypeOK, Soc
  <2>5. enable' <=> Enabled(charge_start, charge_end)
    BY <2>3, <2>4, ApplyAgrees
  <2>6. TypeOK' /\ (enable <=> charge_enabled)
    BY NextTypeOK DEF IInv, Agrees
  <2>7. soc \in Nat /\ enable \in BOOLEAN /\ enable' \in BOOLEAN
    BY <2>4, <2>6 DEF TypeOK, Soc
  <2> QED
    BY <2>4, <2>5, <2>6, <2>7 DEF Enabled
<1>4. J /\ [Next]_vars => [A]_vars
  BY <1>3
<1> QED
  BY <1>1, <1>2, <1>4, PTL DEF Spec, NoFlapping

====
