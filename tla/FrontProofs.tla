----------------------------- MODULE FrontProofs -----------------------------
(***************************************************************************)
(* What the front of the machine keeps, however many levels there are, and  *)
(* however long a run or often trouble comes: the screen, its dimming, the  *)
(* touch controller and the Wi-Fi LED.                                      *)
(***************************************************************************)
EXTENDS MCScreen, TLAPS

-----------------------------------------------------------------------------
\* The screen (Screen, It6616Panel).

\* What the reported state says of the panel.
Truth ==
  /\ panel_state = "on" => display /\ awake
  /\ panel_state = "off" => ~display /\ awake
  /\ panel_state = "sleep" => ~display /\ ~awake

-----------------------------------------------------------------------------
\* The packets a request needs, and those before one of them.

LEMMA NeededPackets ==
  ASSUME NEW from, NEW target
  PROVE  /\ Needed(from, target) \subseteq Packets
         /\ "sleep_out" \in Needed(from, target) <=> from \in {"sleep", "unknown"}
         /\ "display_off" \in Needed(from, target)
              <=> (from = "unknown" \/ (from = "on" /\ target # "on"))
         /\ "display_on" \in Needed(from, target) <=> target = "on"
         /\ "sleep_in" \in Needed(from, target) <=> target = "sleep"
BY DEF Needed, Packets

Earlier(needed, p) == {q \in needed : Order[q] < Order[p]}

LEMMA EarlierPackets ==
  ASSUME NEW needed \in SUBSET Packets, NEW p \in needed
  PROVE  /\ "sleep_out" \in Earlier(needed, p) <=> "sleep_out" \in needed /\ p # "sleep_out"
         /\ "display_off" \in Earlier(needed, p)
              <=> "display_off" \in needed /\ p \in {"display_on", "sleep_in"}
         /\ "display_on" \in Earlier(needed, p) <=> "display_on" \in needed /\ p = "sleep_in"
         /\ "sleep_in" \notin Earlier(needed, p)
<1>1. /\ Order["sleep_out"] = 1 /\ Order["display_off"] = 2
      /\ Order["display_on"] = 3 /\ Order["sleep_in"] = 4
  BY DEF Order, Packets
<1>2. p \in {"sleep_out", "display_off", "display_on", "sleep_in"}
  BY DEF Packets
<1>3. CASE p = "sleep_out"    BY <1>1, <1>3 DEF Earlier
<1>4. CASE p = "display_off"  BY <1>1, <1>4 DEF Earlier
<1>5. CASE p = "display_on"   BY <1>1, <1>5 DEF Earlier
<1>6. CASE p = "sleep_in"     BY <1>1, <1>6 DEF Earlier
<1> QED BY <1>2, <1>3, <1>4, <1>5, <1>6

\* What packets leave of the panel is again two bits.
LEMMA SentType ==
  ASSUME display \in BOOLEAN, awake \in BOOLEAN, NEW packets, Sent(packets)
  PROVE  display' \in BOOLEAN /\ awake' \in BOOLEAN
BY DEF Sent

\* A request that fails leaves a state that is reached, or unknown.
LEMMA FailedType ==
  ASSUME PanelTypeOK, NEW done, NEW p, Failed(done, p)
  PROVE  display' \in BOOLEAN /\ awake' \in BOOLEAN /\ panel_state' \in States
<1>1. PICK fired \in BOOLEAN, landed \in BOOLEAN :
        /\ Sent(done \cup (IF landed THEN {p} ELSE {}))
        /\ panel_state' = IF fired THEN "unknown" ELSE Reached(done)
  BY DEF Failed
<1>2. display' \in BOOLEAN /\ awake' \in BOOLEAN
  BY <1>1, SentType DEF PanelTypeOK
<1>3. Reached(done) \in States
  BY DEF Reached, PanelTypeOK, States
<1> QED BY <1>1, <1>2, <1>3 DEF States

LEMMA SetPanelType ==
  ASSUME PanelTypeOK, NEW target \in Targets, NEW ok \in BOOLEAN, SetPanel(target, ok)
  PROVE  /\ display' \in BOOLEAN /\ awake' \in BOOLEAN /\ panel_state' \in States
         /\ ok => panel_state' = target
<1>1. CASE target = panel_state
  BY <1>1 DEF SetPanel, panel, PanelTypeOK
<1>2. CASE target # panel_state /\ ok
  <2>1. Sent(Needed(panel_state, target)) /\ panel_state' = target
    BY <1>2 DEF SetPanel
  <2> QED BY <2>1, SentType DEF PanelTypeOK, Targets, States
<1>3. CASE target # panel_state /\ ~ok
  <2>1. PICK p \in Needed(panel_state, target) : Failed(Earlier(Needed(panel_state, target), p), p)
    BY <1>3 DEF SetPanel, Earlier
  <2> QED BY <1>3, <2>1, FailedType
<1> QED BY <1>1, <1>2, <1>3

-----------------------------------------------------------------------------
\* The reported state stays true through a request, however it ends.

LEMMA SentAll ==
  ASSUME PanelTypeOK, Truth, NEW target \in Targets, target # panel_state,
         Sent(Needed(panel_state, target)), panel_state' = target
  PROVE  Truth'
<1> DEFINE needed == Needed(panel_state, target)
<1>1. /\ "sleep_out" \in needed <=> panel_state \in {"sleep", "unknown"}
      /\ "display_off" \in needed
           <=> (panel_state = "unknown" \/ (panel_state = "on" /\ target # "on"))
      /\ "display_on" \in needed <=> target = "on"
      /\ "sleep_in" \in needed <=> target = "sleep"
  BY NeededPackets
<1>2. Sent(needed)
  OBVIOUS
<1> HIDE DEF needed
<1>3. panel_state \in {"on", "off", "sleep", "unknown"} /\ target \in {"on", "off", "sleep"}
  BY DEF PanelTypeOK, States, Targets
<1>4. CASE target = "on"
  <2>1. display' = TRUE
    BY <1>1, <1>2, <1>4 DEF Sent
  <2>2. awake' = TRUE
    BY <1>1, <1>2, <1>3, <1>4 DEF Sent, Truth
  <2> QED BY <1>4, <2>1, <2>2 DEF Truth
<1>5. CASE target = "off"
  <2>1. display' = FALSE
    BY <1>1, <1>2, <1>3, <1>5 DEF Sent, Truth, PanelTypeOK
  <2>2. awake' = TRUE
    BY <1>1, <1>2, <1>3, <1>5 DEF Sent, Truth, PanelTypeOK
  <2> QED BY <1>5, <2>1, <2>2 DEF Truth
<1>6. CASE target = "sleep"
  <2>1. display' = FALSE
    BY <1>1, <1>2, <1>3, <1>6 DEF Sent, Truth, PanelTypeOK
  <2>2. awake' = FALSE
    BY <1>1, <1>2, <1>6 DEF Sent
  <2> QED BY <1>6, <2>1, <2>2 DEF Truth
<1> QED BY <1>3, <1>4, <1>5, <1>6

LEMMA SentPartly ==
  ASSUME PanelTypeOK, Truth, NEW target \in Targets, target # panel_state,
         NEW p \in Needed(panel_state, target),
         Failed(Earlier(Needed(panel_state, target), p), p)
  PROVE  Truth'
<1> DEFINE needed == Needed(panel_state, target)
           done == Earlier(needed, p)
<1>1. /\ "sleep_out" \in needed <=> panel_state \in {"sleep", "unknown"}
      /\ "display_off" \in needed
           <=> (panel_state = "unknown" \/ (panel_state = "on" /\ target # "on"))
      /\ "display_on" \in needed <=> target = "on"
      /\ "sleep_in" \in needed <=> target = "sleep"
      /\ needed \subseteq Packets
  BY NeededPackets
<1>2. PICK fired \in BOOLEAN, landed \in BOOLEAN :
        /\ landed => fired
        /\ Sent(done \cup (IF landed THEN {p} ELSE {}))
        /\ panel_state' = IF fired THEN "unknown" ELSE Reached(done)
  BY DEF Failed
<1>3. CASE fired
  BY <1>2, <1>3 DEF Truth
<1>4. CASE ~fired
  <2>1. Sent(done) /\ panel_state' = Reached(done)
    <3>1. done \cup {} = done
      OBVIOUS
    <3> QED BY <1>2, <1>4, <3>1
  <2>2. /\ "sleep_out" \in done <=> "sleep_out" \in needed /\ p # "sleep_out"
        /\ "display_off" \in done <=> "display_off" \in needed /\ p \in {"display_on", "sleep_in"}
        /\ "display_on" \in done <=> "display_on" \in needed /\ p = "sleep_in"
        /\ "sleep_in" \notin done
        /\ done \subseteq needed
    BY <1>1, EarlierPackets DEF Earlier
  <2>3. p \in needed
    OBVIOUS
  <2> HIDE DEF needed, done
  <2>4. "display_on" \notin done
    BY <1>1, <2>2, <2>3
  <2>5. panel_state \in {"on", "off", "sleep", "unknown"} /\ target \in {"on", "off", "sleep"}
    BY DEF PanelTypeOK, States, Targets
  <2>6. done # {} => "sleep_out" \in done \/ "display_off" \in done
    BY <1>1, <2>2, <2>4 DEF Packets
  <2>7. /\ display' = IF "display_off" \in done THEN FALSE ELSE display
        /\ awake' = IF "sleep_out" \in done THEN TRUE ELSE awake
    BY <2>1, <2>2, <2>4 DEF Sent
  <2>8. panel_state' = IF "display_off" \in done \/ (panel_state = "sleep" /\ done # {})
                       THEN "off" ELSE panel_state
    BY <2>1 DEF Reached
  <2>9. CASE panel_state = "on"
    <3>1. "sleep_out" \notin done
      BY <1>1, <2>2, <2>9
    <3> QED BY <2>6, <2>7, <2>8, <2>9, <3>1 DEF Truth, PanelTypeOK
  <2>10. CASE panel_state = "off"
    <3>1. "sleep_out" \notin done /\ "display_off" \notin done
      BY <1>1, <2>2, <2>10
    <3> QED BY <2>6, <2>7, <2>8, <2>10, <3>1 DEF Truth, PanelTypeOK
  <2>11. CASE panel_state = "sleep"
    <3>1. "display_off" \notin done
      BY <1>1, <2>2, <2>11
    <3> QED BY <2>6, <2>7, <2>8, <2>11, <3>1 DEF Truth, PanelTypeOK
  <2>12. CASE panel_state = "unknown"
    <3>1. "display_off" \in done => "sleep_out" \in done
      BY <1>1, <2>2, <2>12
    <3> QED BY <2>6, <2>7, <2>8, <2>12, <3>1 DEF Truth, PanelTypeOK
  <2> QED BY <2>5, <2>9, <2>10, <2>11, <2>12
<1> QED BY <1>2, <1>3, <1>4

LEMMA SetPanelTruth ==
  ASSUME PanelTypeOK, Truth, NEW target \in Targets, NEW ok \in BOOLEAN, SetPanel(target, ok)
  PROVE  Truth'
<1>1. CASE target = panel_state
  BY <1>1 DEF SetPanel, panel, Truth
<1>2. CASE target # panel_state /\ ok
  BY <1>2, SentAll DEF SetPanel
<1>3. CASE target # panel_state /\ ~ok
  <2>1. PICK p \in Needed(panel_state, target) : Failed(Earlier(Needed(panel_state, target), p), p)
    BY <1>3 DEF SetPanel, Earlier
  <2> QED BY <1>3, <2>1, SentPartly
<1> QED BY <1>1, <1>2, <1>3

-----------------------------------------------------------------------------
\* Everything that touches the panel keeps the reported state true.

LEMMA FoundTruthful ==
  ASSUME PanelTypeOK, PanelTruthful, bound, bound' = bound, Found,
         panel_state' = "unknown" \/ (Truth => Truth')
  PROVE  PanelTruthful' /\ lost' \in BOOLEAN
BY DEF PanelTypeOK, PanelTruthful, Found, Truth

LEMMA RawPacketTruthful ==
  ASSUME PanelTypeOK, PanelTruthful, bound, bound' = bound,
         NEW p \in Packets, NEW ok \in BOOLEAN, RawPacket(p, ok)
  PROVE  /\ PanelTruthful' /\ lost' \in BOOLEAN
         /\ display' \in BOOLEAN /\ awake' \in BOOLEAN /\ panel_state' \in States
<1>1. panel_state \in {"on", "off", "sleep", "unknown"}
  BY DEF PanelTypeOK, States
<1>2. p \in {"sleep_out", "display_off", "display_on", "sleep_in"}
  BY DEF Packets
<1>3. Allowed(p) /\ Found
  BY DEF RawPacket
<1>4. CASE ok
  <2>1. Sent({p}) /\ panel_state' = RawState(p)
    BY <1>4 DEF RawPacket
  <2>2. display' \in BOOLEAN /\ awake' \in BOOLEAN
    BY <2>1, SentType DEF PanelTypeOK
  <2>3. CASE p = "sleep_out"
    <3>1. panel_state = "sleep" /\ panel_state' = "off" /\ awake' = TRUE /\ display' = display
      BY <1>3, <2>1, <2>3 DEF Allowed, RawState, Sent
    <3>2. Truth => Truth'
      BY <3>1 DEF Truth, PanelTypeOK
    <3> QED BY <1>3, <2>2, <3>1, <3>2, FoundTruthful DEF States
  <2>4. CASE p = "display_off"
    <3>1. display' = FALSE /\ awake' = awake
      BY <2>1, <2>4 DEF Sent
    <3>2. panel_state' = IF panel_state \in {"on", "off"} THEN "off" ELSE panel_state
      BY <2>1, <2>4 DEF RawState
    <3>3. Truth => Truth'
      BY <1>1, <3>1, <3>2 DEF Truth, PanelTypeOK
    <3>4. panel_state' \in States
      BY <1>1, <3>2 DEF States
    <3> QED BY <1>3, <2>2, <3>3, <3>4, FoundTruthful
  <2>5. CASE p = "display_on"
    <3>1. display' = TRUE /\ awake' = awake
      BY <2>1, <2>5 DEF Sent
    <3>2. panel_state \in {"on", "off"} /\ panel_state' = "on"
      BY <1>3, <2>1, <2>5 DEF Allowed, RawState
    <3>3. Truth => Truth'
      BY <3>1, <3>2 DEF Truth, PanelTypeOK
    <3> QED BY <1>3, <2>2, <3>2, <3>3, FoundTruthful DEF States
  <2>6. CASE p = "sleep_in"
    <3>1. awake' = FALSE /\ display' = display
      BY <2>1, <2>6 DEF Sent
    <3>2. panel_state = "off" /\ panel_state' = "sleep"
      BY <1>3, <2>1, <2>6 DEF Allowed, RawState
    <3>3. Truth => Truth'
      BY <3>1, <3>2 DEF Truth, PanelTypeOK
    <3> QED BY <1>3, <2>2, <3>2, <3>3, FoundTruthful DEF States
  <2> QED BY <1>2, <2>3, <2>4, <2>5, <2>6
<1>5. CASE ~ok
  <2>1. Failed({}, p)
    BY <1>5 DEF RawPacket
  <2>2. PICK fired \in BOOLEAN, landed \in BOOLEAN :
          /\ landed => fired
          /\ Sent({} \cup (IF landed THEN {p} ELSE {}))
          /\ panel_state' = IF fired THEN "unknown" ELSE Reached({})
    BY <2>1 DEF Failed
  <2>3. CASE fired
    BY <1>3, <2>1, <2>2, <2>3, FailedType, FoundTruthful
  <2>4. CASE ~fired
    <3>1. display' = display /\ awake' = awake
      BY <2>2, <2>4 DEF Sent
    <3>2. panel_state' = panel_state
      BY <2>2, <2>4 DEF Reached
    <3>3. Truth => Truth'
      BY <3>1, <3>2 DEF Truth
    <3> QED BY <1>3, <2>1, <3>3, FailedType, FoundTruthful
  <2> QED BY <2>2, <2>3, <2>4
<1> QED BY <1>4, <1>5

LEMMA RawOtherTruthful ==
  ASSUME PanelTypeOK, PanelTruthful, bound, bound' = bound, NEW ok \in BOOLEAN, RawOther(ok)
  PROVE  /\ PanelTruthful' /\ lost' \in BOOLEAN
         /\ display' \in BOOLEAN /\ awake' \in BOOLEAN /\ panel_state' \in States
<1>1. CASE UNCHANGED <<panel, lost>>
  BY <1>1 DEF panel, PanelTypeOK, PanelTruthful
<1>2. CASE Reset /\ lost' = TRUE /\ UNCHANGED panel_state
  BY <1>2 DEF Reset, PanelTypeOK, PanelTruthful
<1>3. CASE (Reset \/ UNCHANGED <<display, awake>>) /\ panel_state' = "unknown" /\ lost' = FALSE
  <2>1. display' \in BOOLEAN /\ awake' \in BOOLEAN
    BY <1>3 DEF Reset, PanelTypeOK
  <2> QED BY <1>3, <2>1 DEF PanelTruthful, States
<1> QED BY <1>1, <1>2, <1>3 DEF RawOther

LEMMA SetPanelTruthful ==
  ASSUME PanelTypeOK, PanelTruthful, bound, bound' = bound, Found,
         NEW target \in Targets, NEW ok \in BOOLEAN, SetPanel(target, ok)
  PROVE  PanelTruthful' /\ lost' \in BOOLEAN
<1>1. Truth => Truth'
  BY SetPanelTruth
<1> QED BY <1>1, FoundTruthful

-----------------------------------------------------------------------------
\* Writes to the backlight.

LEMMA WritePowerType ==
  ASSUME TypeOK, NEW on \in BOOLEAN, NEW ok \in BOOLEAN, WritePower(on, ok)
  PROVE  /\ light' \in Levels /\ power' \in BOOLEAN /\ level' \in Levels
         /\ missed' \in BOOLEAN /\ trouble' \in Nat
<1>1. light' \in Levels
  BY ScreenParameters DEF TypeOK, WritePower, Shown, Levels
<1>2. power' \in BOOLEAN /\ level' \in Levels /\ missed' \in BOOLEAN
  BY DEF TypeOK, WritePower
<1>3. trouble' \in Nat
  BY DEF TypeOK, WritePower, Cost
<1> QED BY <1>1, <1>2, <1>3

\* The power is what was asked for, and without it the backlight is dark unless
\* a write was missed.
LEMMA WritePowerEffect ==
  ASSUME TypeOK, NEW on \in BOOLEAN, NEW ok \in BOOLEAN, WritePower(on, ok),
         ~power /\ ~missed => light = 0
  PROVE  /\ ok => power' = on
         /\ ~ok => power' = power
         /\ ~power' /\ ~missed' => light' = 0
<1>1. /\ ok => power' = on
      /\ ~ok => power' = power
  BY DEF WritePower
<1>2. CASE power = on
  BY <1>1, <1>2 DEF WritePower, TypeOK
<1>3. CASE power # on
  BY <1>1, <1>3 DEF WritePower, TypeOK, Shown
<1> QED BY <1>1, <1>2, <1>3

LEMMA WriteLevelType ==
  ASSUME TypeOK, NEW v \in Levels, NEW ok \in BOOLEAN, WriteLevel(v, ok)
  PROVE  /\ light' \in Levels /\ power' \in BOOLEAN /\ level' \in Levels
         /\ missed' \in BOOLEAN /\ trouble' \in Nat
<1>1. light' \in Levels
  BY ScreenParameters DEF TypeOK, WriteLevel, Shown, Levels
<1>2. power' \in BOOLEAN /\ level' \in Levels /\ missed' \in BOOLEAN
  BY DEF TypeOK, WriteLevel
<1>3. trouble' \in Nat
  BY DEF TypeOK, WriteLevel, Cost
<1> QED BY <1>1, <1>2, <1>3

LEMMA WriteLevelEffect ==
  ASSUME TypeOK, NEW v \in Levels, NEW ok \in BOOLEAN, WriteLevel(v, ok),
         ~power /\ ~missed => light = 0
  PROVE  power' = power /\ (~power' /\ ~missed' => light' = 0)
<1>1. power' = power
  BY DEF WriteLevel
<1>2. CASE light' = Shown(power, v)
  BY <1>1, <1>2 DEF Shown
<1>3. CASE light' # Shown(power, v)
  BY <1>1, <1>3 DEF WriteLevel, TypeOK
<1> QED BY <1>1, <1>2, <1>3

-----------------------------------------------------------------------------
\* The invariant: it holds at first, and every step keeps it.

LEMMA InitInv == Init => IInv
<1> SUFFICES ASSUME Init PROVE IInv
  OBVIOUS
<1>1. TypeOK
  <2>1. PanelTypeOK
    BY DEF Init, PanelTypeOK, States
  <2>2. light \in Levels /\ power \in BOOLEAN /\ level \in Levels /\ seen \in Levels
    BY ScreenParameters DEF Init, Levels
  <2>3. /\ pc \in Steps /\ want \in BOOLEAN /\ last \in {"none", "on", "off", "error"}
        /\ unsure \in BOOLEAN /\ missed \in BOOLEAN
    BY DEF Init, Steps
  <2>4. trouble \in Nat
    BY ScreenParameters DEF Init
  <2> QED BY <2>1, <2>2, <2>3, <2>4 DEF TypeOK
<1>2. PanelTruthful
  BY DEF Init, PanelTruthful
<1>3. PowerInv
  BY DEF Init, PowerInv, On
<1>4. SwitchedIsSo
  BY DEF Init, SwitchedIsSo
<1> QED BY <1>1, <1>2, <1>3, <1>4 DEF IInv

\* A step that leaves the bridge and its panel alone.
LEMMA BridgeAlone ==
  ASSUME IInv, UNCHANGED bridge
  PROVE  PanelTypeOK' /\ PanelTruthful' /\ (On' <=> On)
BY DEF IInv, TypeOK, bridge, panel, PanelTypeOK, PanelTruthful, On

LEMMA SwitchKeeps ==
  ASSUME IInv, NEW on \in BOOLEAN, Switch(on)
  PROVE  IInv'
<1>1. UNCHANGED <<bridge, backlight, history>> /\ pc = "free" /\ pc' = "blank" /\ want' = on
      /\ seen' = level /\ last' = "none"
  BY DEF Switch
<1>2. PanelTypeOK' /\ PanelTruthful' /\ (On' <=> On)
  BY <1>1, BridgeAlone
<1>3. TypeOK'
  BY <1>1, <1>2 DEF IInv, TypeOK, backlight, history, Steps
<1>4. PowerInv'
  BY <1>1, <1>2 DEF IInv, PowerInv, backlight, history, bridge
<1>5. SwitchedIsSo'
  BY <1>1 DEF SwitchedIsSo
<1> QED BY <1>2, <1>3, <1>4, <1>5 DEF IInv

LEMMA ToggleKeeps ==
  ASSUME IInv, Toggle
  PROVE  IInv'
<1>1. (~IsOn) \in BOOLEAN
  BY DEF IsOn
<1> QED BY <1>1, SwitchKeeps DEF Toggle

LEMMA BlankKeeps ==
  ASSUME IInv, Blank
  PROVE  IInv'
<1>1. PICK ok \in BOOLEAN :
        /\ WritePower(FALSE, ok)
        /\ IF ok THEN pc' = "panel" /\ UNCHANGED last ELSE End("error")
  BY DEF Blank
<1>2. pc = "blank" /\ ~suspended /\ UNCHANGED <<bridge, want, seen, unsure>>
  BY DEF Blank
<1>3. PanelTypeOK' /\ PanelTruthful' /\ (On' <=> On)
  BY <1>2, BridgeAlone
<1>4. /\ light' \in Levels /\ power' \in BOOLEAN /\ level' \in Levels
      /\ missed' \in BOOLEAN /\ trouble' \in Nat
  BY <1>1, WritePowerType DEF IInv
<1>5. ~power /\ ~missed => light = 0
  BY DEF IInv, PowerInv
<1>6. /\ ok => power' = FALSE
      /\ ~ok => power' = power
      /\ ~power' /\ ~missed' => light' = 0
  <2>1. FALSE \in BOOLEAN
    OBVIOUS
  <2> QED BY ONLY <1>1, <1>5, <2>1, WritePowerEffect, IInv DEF IInv
<1>7. TypeOK'
  BY <1>1, <1>2, <1>3, <1>4 DEF IInv, TypeOK, Steps, End
<1>8. PowerInv'
  BY <1>1, <1>2, <1>3, <1>6 DEF IInv, PowerInv, End, bridge
<1>9. SwitchedIsSo'
  BY <1>1 DEF SwitchedIsSo, End
<1> QED BY <1>3, <1>7, <1>8, <1>9 DEF IInv

LEMMA RestoreKeeps ==
  ASSUME IInv, Restore
  PROVE  IInv'
<1>1. PICK ok \in BOOLEAN :
        /\ WriteLevel(DefaultOn, ok)
        /\ IF ok THEN pc' = "light" /\ UNCHANGED last ELSE End("error")
  BY DEF Restore
<1>2. pc = "restore" /\ ~suspended /\ UNCHANGED <<bridge, want, seen, unsure>>
  BY DEF Restore
<1>3. PanelTypeOK' /\ PanelTruthful' /\ (On' <=> On)
  BY <1>2, BridgeAlone
<1>4. DefaultOn \in Levels
  BY ScreenParameters DEF Levels
<1>5. /\ light' \in Levels /\ power' \in BOOLEAN /\ level' \in Levels
      /\ missed' \in BOOLEAN /\ trouble' \in Nat
  BY <1>1, <1>4, WriteLevelType DEF IInv
<1>6. power' = power /\ (~power' /\ ~missed' => light' = 0)
  BY <1>1, <1>4, WriteLevelEffect DEF IInv, PowerInv
<1>7. TypeOK'
  BY <1>1, <1>2, <1>3, <1>5 DEF IInv, TypeOK, Steps, End
<1>8. PowerInv'
  BY <1>1, <1>2, <1>3, <1>6 DEF IInv, PowerInv, End, bridge
<1>9. SwitchedIsSo'
  BY <1>1 DEF SwitchedIsSo, End
<1> QED BY <1>3, <1>7, <1>8, <1>9 DEF IInv

LEMMA LightKeeps ==
  ASSUME IInv, Light
  PROVE  IInv'
<1>1. PICK ok \in BOOLEAN : WritePower(TRUE, ok) /\ End(IF ok THEN "on" ELSE "error")
  BY DEF Light
<1>2. pc = "light" /\ ~suspended /\ UNCHANGED <<bridge, want, seen, unsure>>
  BY DEF Light
<1>3. PanelTypeOK' /\ PanelTruthful' /\ (On' <=> On)
  BY <1>2, BridgeAlone
<1>4. /\ light' \in Levels /\ power' \in BOOLEAN /\ level' \in Levels
      /\ missed' \in BOOLEAN /\ trouble' \in Nat
  BY <1>1, WritePowerType DEF IInv
<1>5. /\ ok => power' = TRUE
      /\ ~ok => power' = power
      /\ ~power' /\ ~missed' => light' = 0
  BY <1>1, WritePowerEffect DEF IInv, PowerInv
<1>6. ~unsure => On
  BY <1>2 DEF IInv, PowerInv
<1>7. TypeOK'
  BY <1>1, <1>2, <1>3, <1>4 DEF IInv, TypeOK, Steps, End
<1>8. PowerInv'
  BY <1>1, <1>2, <1>3, <1>5, <1>6 DEF IInv, PowerInv, End, bridge
<1>9. SwitchedIsSo'
  BY <1>1, <1>2, <1>3, <1>5, <1>6 DEF SwitchedIsSo, End
<1> QED BY <1>3, <1>7, <1>8, <1>9 DEF IInv

LEMMA SetBrightnessKeeps ==
  ASSUME IInv, NEW v \in 1..Max, SetBrightness(v)
  PROVE  IInv'
<1>1. PICK ok \in BOOLEAN : WriteLevel(v, ok)
  BY DEF SetBrightness
<1>2. pc = "free" /\ ~suspended /\ UNCHANGED <<bridge, caller, unsure>>
  BY DEF SetBrightness
<1>3. PanelTypeOK' /\ PanelTruthful' /\ (On' <=> On)
  BY <1>2, BridgeAlone
<1>4. v \in Levels
  BY ScreenParameters DEF Levels
<1>5. /\ light' \in Levels /\ power' \in BOOLEAN /\ level' \in Levels
      /\ missed' \in BOOLEAN /\ trouble' \in Nat
  BY <1>1, <1>4, WriteLevelType DEF IInv
<1>6. power' = power /\ (~power' /\ ~missed' => light' = 0)
  BY <1>1, <1>4, WriteLevelEffect DEF IInv, PowerInv
<1>7. TypeOK'
  BY <1>2, <1>3, <1>5 DEF IInv, TypeOK, caller
<1>8. PowerInv'
  BY <1>2, <1>3, <1>6 DEF IInv, PowerInv, caller, bridge
<1>9. SwitchedIsSo'
  BY <1>2, <1>3, <1>6 DEF IInv, SwitchedIsSo, PowerInv, caller, bridge, panel
<1> QED BY <1>3, <1>7, <1>8, <1>9 DEF IInv

LEMMA OutsiderKeeps ==
  ASSUME IInv, NEW v \in Levels, Outsider(v)
  PROVE  IInv'
<1>1. UNCHANGED <<bridge, power, caller, unsure>> /\ ~suspended
      /\ level' = v /\ light' = Shown(power, v) /\ missed' = FALSE
  BY DEF Outsider
<1>2. PanelTypeOK' /\ PanelTruthful' /\ (On' <=> On)
  BY <1>1, BridgeAlone
<1>3. light' \in Levels /\ (~power' => light' = 0)
  BY <1>1, ScreenParameters DEF Shown, Levels
<1>4. trouble' \in Nat
  BY DEF Outsider, Cost, IInv, TypeOK
<1>5. TypeOK'
  BY <1>1, <1>2, <1>3, <1>4 DEF IInv, TypeOK, caller
<1>6. PowerInv'
  BY <1>1, <1>2, <1>3 DEF IInv, PowerInv, caller, bridge
<1>7. SwitchedIsSo'
  BY <1>1, <1>2, <1>3 DEF IInv, SwitchedIsSo, caller, bridge, panel
<1> QED BY <1>2, <1>5, <1>6, <1>7 DEF IInv

LEMMA DieKeeps ==
  ASSUME IInv, Die
  PROVE  IInv'
<1>1. UNCHANGED <<bridge, backlight, want, seen, unsure, missed>> /\ pc' = "free" /\ last' = "error"
  BY DEF Die, End
<1>2. PanelTypeOK' /\ PanelTruthful' /\ (On' <=> On)
  BY <1>1, BridgeAlone
<1>3. trouble' \in Nat
  BY DEF Die, Cost, IInv, TypeOK
<1>4. TypeOK'
  BY <1>1, <1>2, <1>3 DEF IInv, TypeOK, backlight, Steps
<1>5. PowerInv'
  BY <1>1, <1>2 DEF IInv, PowerInv, backlight, bridge
<1>6. SwitchedIsSo'
  BY <1>1 DEF SwitchedIsSo
<1> QED BY <1>2, <1>4, <1>5, <1>6 DEF IInv

LEMMA PanelKeeps ==
  ASSUME IInv, Panel
  PROVE  IInv'
<1>1. pc = "panel" /\ ~suspended /\ UNCHANGED <<backlight, want, seen, missed>>
  BY DEF Panel
<1>2. ~power
  BY <1>1 DEF IInv, PowerInv
<1>3. CASE ~bound /\ AfterPanel /\ UNCHANGED <<bridge, unsure, trouble>>
  <2>1. PanelTypeOK' /\ PanelTruthful' /\ (On' <=> On)
    BY <1>3, BridgeAlone
  <2>2. /\ want => pc' \in {"restore", "light"} /\ last' = last
        /\ ~want => pc' = "free" /\ last' = "off"
    BY <1>3 DEF AfterPanel, End
  <2>3. pc' \in {"free", "restore", "light"} /\ last' \in {"none", "on", "off", "error"}
    BY <2>2 DEF IInv, TypeOK
  <2>4. TypeOK'
    BY <1>1, <1>3, <2>1, <2>3 DEF IInv, TypeOK, backlight, Steps
  <2>5. PowerInv'
    BY <1>1, <1>2, <1>3, <2>1, <2>2 DEF IInv, TypeOK, PowerInv, backlight, bridge
  <2>6. SwitchedIsSo'
    BY <1>1, <1>2, <1>3, <2>2 DEF IInv, PowerInv, SwitchedIsSo, backlight, bridge
  <2> QED BY <2>1, <2>4, <2>5, <2>6 DEF IInv
<1>4. ASSUME NEW ok \in BOOLEAN,
             bound, SetPanel(IF want THEN "on" ELSE "off", ok),
             IF ok THEN AfterPanel ELSE End("error"),
             unsure' = (unsure /\ (~ok \/ lost)),
             Found, Cost(~ok), UNCHANGED <<bound, suspended>>
      PROVE  IInv'
  <2> DEFINE target == IF want THEN "on" ELSE "off"
  <2>1. target \in Targets /\ SetPanel(target, ok)
    BY <1>4 DEF Targets
  <2>2. target = "on" <=> want
    OBVIOUS
  <2> HIDE DEF target
  <2>3. /\ display' \in BOOLEAN /\ awake' \in BOOLEAN /\ panel_state' \in States
        /\ ok => panel_state' = target
    BY <1>4, <2>1, SetPanelType DEF IInv, TypeOK
  <2>4. PanelTruthful' /\ lost' \in BOOLEAN
    BY <1>4, <2>1, SetPanelTruthful DEF IInv, TypeOK
  <2>5. PanelTypeOK'
    BY <1>4, <2>3, <2>4 DEF IInv, TypeOK, PanelTypeOK
  <2>6. trouble' \in Nat
    BY <1>4 DEF Cost, IInv, TypeOK
  <2>7. /\ pc' \in {"free", "restore", "light"}
        /\ last' \in {"none", "on", "off", "error"}
        /\ pc' # "free" => want /\ ok
        /\ pc' = "free" => last' \in {"off", "error"}
        /\ last' = "off" /\ pc' = "free" => ok /\ ~want
    BY <1>4 DEF AfterPanel, End, IInv, TypeOK
  <2>8. lost' => lost
    BY <1>4 DEF Found
  <2>9. unsure' \in BOOLEAN
    BY <1>4 DEF IInv, TypeOK
  <2>10. TypeOK'
    BY <1>1, <2>5, <2>6, <2>7, <2>9 DEF IInv, TypeOK, backlight, Steps
  <2>11. lost' => unsure'
    <3>1. CASE ok
      BY <1>4, <2>8, <3>1 DEF IInv, PowerInv
    <3>2. CASE ~ok
      BY <1>4, <2>8, <3>2 DEF IInv, PowerInv
    <3> QED BY <3>1, <3>2
  <2>12. ok /\ ~unsure' => panel_state' = target /\ ~lost'
    BY <2>3, <2>11
  <2>13. ok /\ ~unsure' /\ want => On'
    BY <1>4, <2>2, <2>4, <2>12 DEF PanelTruthful, On
  <2>14. ok /\ ~unsure' /\ ~want => ~display'
    <3>1. ~want => target = "off"
      BY DEF target
    <3> QED BY <1>4, <2>4, <2>12, <3>1 DEF PanelTruthful
  <2>15. PowerInv'
    BY <1>1, <1>2, <1>4, <2>7, <2>11, <2>13 DEF IInv, TypeOK, PowerInv, backlight
  <2>16. SwitchedIsSo'
    BY <1>1, <1>2, <2>7, <2>14 DEF IInv, TypeOK, PowerInv, SwitchedIsSo, backlight
  <2> QED BY <2>4, <2>10, <2>15, <2>16 DEF IInv
<1> QED BY <1>3, <1>4 DEF Panel

\* Steps after which the history is unsure, and that leave pc, power and the last
\* outcome alone.
LEMMA UnsureKeeps ==
  ASSUME IInv, unsure' = TRUE, UNCHANGED <<pc, want, power>>,
         TypeOK', PanelTruthful',
         ~power' /\ ~missed' => light' = 0,
         suspended' => light' = 0
  PROVE  IInv'
<1>1. PowerInv'
  BY DEF IInv, PowerInv
<1>2. SwitchedIsSo'
  BY DEF SwitchedIsSo
<1> QED BY <1>1, <1>2 DEF IInv

LEMMA ByHandKeeps ==
  ASSUME IInv, ByHand
  PROVE  IInv'
<1>1. /\ bound /\ ~suspended /\ unsure' = TRUE /\ Cost(TRUE)
      /\ UNCHANGED <<bound, suspended, backlight, caller, missed>>
  BY DEF ByHand
<1>2. PICK ok \in BOOLEAN :
        \/ \E target \in Targets : SetPanel(target, ok) /\ Found
        \/ \E p \in Packets : RawPacket(p, ok)
        \/ RawOther(ok)
  BY DEF ByHand
<1>3. PanelTypeOK /\ PanelTruthful /\ bound /\ bound' = bound
  BY <1>1 DEF IInv, TypeOK
<1>4. /\ PanelTruthful' /\ lost' \in BOOLEAN
      /\ display' \in BOOLEAN /\ awake' \in BOOLEAN /\ panel_state' \in States
  <2>1. ASSUME NEW target \in Targets, SetPanel(target, ok), Found PROVE <1>4!:
    BY <1>3, <2>1, SetPanelType, SetPanelTruthful
  <2>2. ASSUME NEW p \in Packets, RawPacket(p, ok) PROVE <1>4!:
    BY <1>3, <2>2, RawPacketTruthful
  <2>3. CASE RawOther(ok)
    BY <1>3, <2>3, RawOtherTruthful
  <2> QED BY <1>2, <2>1, <2>2, <2>3
<1>5. trouble' \in Nat
  BY <1>1 DEF Cost, IInv, TypeOK
<1>6. TypeOK'
  BY <1>1, <1>4, <1>5 DEF IInv, TypeOK, PanelTypeOK, backlight, caller
<1>7. (~power' /\ ~missed' => light' = 0) /\ (suspended' => light' = 0)
  BY <1>1 DEF IInv, PowerInv, backlight
<1> QED BY <1>1, <1>4, <1>6, <1>7, UnsureKeeps DEF backlight, caller

LEMMA RebindKeeps ==
  ASSUME IInv, Rebind
  PROVE  IInv'
<1>1. unsure' = TRUE /\ Cost(bound) /\ UNCHANGED <<backlight, caller, missed>>
  BY DEF Rebind
<1>2. /\ PanelTruthful' /\ lost' \in BOOLEAN /\ bound' \in BOOLEAN /\ suspended' = suspended
      /\ display' \in BOOLEAN /\ awake' \in BOOLEAN /\ panel_state' \in States
  <2>1. ASSUME NEW ok \in BOOLEAN, Unbind(ok) PROVE <1>2!:
    <3>1. /\ SetPanel("on", ok) /\ bound' = FALSE
          /\ UNCHANGED <<suspended, lost>>
      BY <2>1 DEF Unbind
    <3>2. display' \in BOOLEAN /\ awake' \in BOOLEAN /\ panel_state' \in States
      <4>1. "on" \in Targets
        BY DEF Targets
      <4> QED BY <3>1, <4>1, SetPanelType DEF IInv, TypeOK
    <3> QED BY <3>1, <3>2 DEF IInv, TypeOK, PanelTypeOK, PanelTruthful
  <2>2. CASE Bind
    BY <2>2 DEF Bind, IInv, TypeOK, PanelTypeOK, PanelTruthful, States
  <2> QED BY <2>1, <2>2 DEF Rebind
<1>3. trouble' \in Nat
  BY <1>1 DEF Cost, IInv, TypeOK, PanelTypeOK
<1>4. TypeOK'
  BY <1>1, <1>2, <1>3 DEF IInv, TypeOK, PanelTypeOK, backlight, caller
<1>5. (~power' /\ ~missed' => light' = 0) /\ (suspended' => light' = 0)
  BY <1>1, <1>2 DEF IInv, PowerInv, backlight
<1> QED BY <1>1, <1>2, <1>4, <1>5, UnsureKeeps DEF backlight, caller

LEMMA SuspendKeeps ==
  ASSUME IInv, Suspend
  PROVE  IInv'
<1>1. /\ suspended' = TRUE /\ UNCHANGED <<panel, bound, lost>>
      /\ light' = 0 /\ Cost(TRUE)
      /\ UNCHANGED <<power, level, caller, unsure, missed>>
  BY DEF Suspend, BridgeSuspend
<1>2. trouble' \in Nat /\ 0 \in Levels
  BY <1>1, ScreenParameters DEF Cost, IInv, TypeOK, Levels
<1>3. TypeOK'
  BY <1>1, <1>2 DEF IInv, TypeOK, PanelTypeOK, panel, caller
<1>4. PanelTruthful'
  BY <1>1 DEF IInv, PanelTruthful, panel
<1>5. On' <=> On
  BY <1>1 DEF On, panel
<1>6. PowerInv'
  BY <1>1, <1>5 DEF IInv, PowerInv, caller
<1>7. SwitchedIsSo'
  BY <1>1, <1>5 DEF IInv, SwitchedIsSo, caller, panel
<1> QED BY <1>3, <1>4, <1>6, <1>7 DEF IInv

LEMMA ResumeKeeps ==
  ASSUME IInv, Resume
  PROVE  IInv'
<1>1. /\ suspended' = FALSE /\ display' \in BOOLEAN /\ awake' \in BOOLEAN
      /\ IF bound THEN panel_state' = "unknown" /\ lost' = FALSE
         ELSE UNCHANGED <<panel_state, lost>>
      /\ bound' = bound /\ light' = Shown(power, level)
      /\ unsure' = TRUE /\ missed' = FALSE
      /\ UNCHANGED <<power, level, caller, trouble>>
  BY DEF Resume, BridgeResume
<1>2. panel_state' \in States /\ lost' \in BOOLEAN
  BY <1>1 DEF IInv, TypeOK, PanelTypeOK, States
<1>3. light' \in Levels /\ (~power' => light' = 0)
  BY <1>1, ScreenParameters DEF IInv, TypeOK, Shown, Levels
<1>4. TypeOK'
  BY <1>1, <1>2, <1>3 DEF IInv, TypeOK, PanelTypeOK, caller
<1>5. PanelTruthful'
  BY <1>1 DEF IInv, PanelTruthful
<1> QED BY <1>1, <1>3, <1>4, <1>5, UnsureKeeps DEF caller

LEMMA StutterKeeps ==
  ASSUME IInv, UNCHANGED vars
  PROVE  IInv'
<1>1. UNCHANGED <<bridge, backlight, caller, history>>
  BY DEF vars
<1>2. PanelTypeOK' /\ PanelTruthful' /\ (On' <=> On)
  BY <1>1, BridgeAlone
<1>3. TypeOK'
  BY <1>1, <1>2 DEF IInv, TypeOK, backlight, caller, history
<1>4. PowerInv'
  BY <1>1, <1>2 DEF IInv, PowerInv, bridge, backlight, caller, history
<1>5. SwitchedIsSo'
  BY <1>1, <1>2 DEF IInv, SwitchedIsSo, bridge, panel, backlight, caller, history
<1> QED BY <1>2, <1>3, <1>4, <1>5 DEF IInv

LEMMA StepKeeps == IInv /\ [Next]_vars => IInv'
<1> SUFFICES ASSUME IInv, [Next]_vars PROVE IInv'
  OBVIOUS
<1>1. CASE Blank    BY <1>1, BlankKeeps
<1>2. CASE Panel    BY <1>2, PanelKeeps
<1>3. CASE Restore  BY <1>3, RestoreKeeps
<1>4. CASE Light    BY <1>4, LightKeeps
<1>5. CASE Toggle   BY <1>5, ToggleKeeps
<1>6. CASE Die      BY <1>6, DieKeeps
<1>7. ASSUME NEW on \in BOOLEAN, Switch(on) PROVE IInv'
  BY <1>7, SwitchKeeps
<1>8. ASSUME NEW v \in 1..Max, SetBrightness(v) PROVE IInv'
  BY <1>8, SetBrightnessKeeps
<1>9. ASSUME NEW v \in Levels, Outsider(v) PROVE IInv'
  BY <1>9, OutsiderKeeps
<1>10. CASE ByHand   BY <1>10, ByHandKeeps
<1>11. CASE Rebind   BY <1>11, RebindKeeps
<1>12. CASE Suspend  BY <1>12, SuspendKeeps
<1>13. CASE Resume   BY <1>13, ResumeKeeps
<1>14. CASE UNCHANGED vars  BY <1>14, StutterKeeps
<1> QED BY <1>1, <1>2, <1>3, <1>4, <1>5, <1>6, <1>7, <1>8, <1>9, <1>10, <1>11, <1>12,
           <1>13, <1>14 DEF Next, Step

-----------------------------------------------------------------------------
\* The invariant in all its parts holds of every behaviour of the screen, whoever
\* switches, sets, suspends, unbinds, fails or dies, in whatever order.
THEOREM Inductive == Spec => []IInv
BY InitInv, StepKeeps, PTL DEF Spec

\* The state of the screen keeps its type: the panel's reported state is one of
\* the driver's four, the levels stay in the backlight's range.
THEOREM TypeCorrect == Spec => []TypeOK
<1>1. IInv => TypeOK
  BY DEF IInv
<1> QED BY <1>1, Inductive, PTL

\* While the driver has the panel and has seen every change of it, the state it
\* reports is the panel's (it6616_set_panel_state_locked and the raw packets).
THEOREM ReportsTruth == Spec => []PanelTruthful
<1>1. IInv => PanelTruthful
  BY DEF IInv
<1> QED BY <1>1, Inductive, PTL

\* No step of a switch, no failure and no death leaves the backlight shining over
\* a panel that is off, asleep or uncertain (set_power_locked).
THEOREM LitOnlyOverOn == Spec => []LitOverOn
<1>1. IInv => LitOverOn
  BY DEF IInv, TypeOK, PowerInv, LitOverOn
<1> QED BY <1>1, Inductive, PTL

\* A switch that returned without an error left the screen as it was told to
\* (set_power's result).
THEOREM SwitchHolds == Spec => []SwitchedIsSo
<1>1. IInv => SwitchedIsSo
  BY DEF IInv
<1> QED BY <1>1, Inductive, PTL

\* The panel is as reported, and no light shines over one that is off.
THEOREM ShinesSafely == Spec => []ScreenSafe
BY ReportsTruth, LitOnlyOverOn, PTL DEF ScreenSafe

-----------------------------------------------------------------------------
\* Its dimming (Dimming).

\* The timer's steps and what follows the way back are told apart by their names.
LEMMA DimNames ==
  /\ "look" \in D!Steps /\ "save" \in D!Steps /\ "fade" \in D!Steps /\ "clear" \in D!Steps
  /\ "back" \in D!Steps /\ "off" \in D!Steps /\ "dead" \in D!Steps
  BY DEF D!Steps

\* A dim that goes on is a record of two levels, and no level is None.
LEMMA DimIsRecord ==
  ASSUME D!DimmingAssumption, D!TypeOK
  PROVE  /\ dim # None => dim \in D!Dims /\ dim.normal \in D!Levels /\ dim.level \in D!Levels
         /\ dimmed_from # None => dimmed_from \in D!Levels
         /\ None \notin D!Levels
  BY DEF D!DimmingAssumption, D!TypeOK, D!LevelsOK, D!Dims, D!Levels

\* The flags keep their type in every step.
LEMMA FlagsNext == D!FlagsOK /\ [D!Next]_D!vars => D!FlagsOK'
<1> SUFFICES ASSUME D!FlagsOK, [D!Next]_D!vars PROVE D!FlagsOK'
  OBVIOUS
<1>. USE DEF D!FlagsOK, D!Marked, D!Unmarked, D!Fine, D!Fault, D!Mishap, D!light, D!clock
<1>1. CASE D!Return
  <2>1. touched' \in BOOLEAN
    BY <1>1 DEF D!Return, D!Woken
  <2> QED
    BY <1>1, <2>1 DEF D!Return
<1>2. CASE D!Look
  <2>1. touched' \in BOOLEAN
    BY <1>2 DEF D!Look, D!Woken
  <2> QED
    BY <1>2, <2>1 DEF D!Look
<1>3. CASE D!DimDue
  BY <1>3 DEF D!DimDue
<1>4. CASE D!OffDue
  BY <1>4 DEF D!OffDue
<1>5. CASE D!ScreenOff
  <2>1. touched' \in BOOLEAN
    BY <1>5 DEF D!ScreenOff
  <2> QED
    BY <1>5, <2>1 DEF D!ScreenOff
<1>6. CASE D!Save \/ D!Clear
  BY <1>6 DEF D!Save, D!Clear, D!Keep
<1>7. CASE D!Fade
  BY <1>7 DEF D!Fade, D!FadeTo
<1>8. CASE D!Back
  <2>1. touched' \in BOOLEAN
    BY <1>8 DEF D!Back
  <2>2. spoiled' \in BOOLEAN
    BY <1>8 DEF D!Back, D!SetLevel
  <2> QED
    BY <1>8, <2>1, <2>2 DEF D!Back
<1>9. CASE D!Touch \/ D!Hold \/ D!HoldEnds
  BY <1>9 DEF D!Touch, D!Hold, D!HoldEnds
<1>10. CASE D!TimePasses
  BY <1>10 DEF D!TimePasses
<1>11. CASE D!Setting \/ D!Switched \/ D!GivenUp
  BY <1>11 DEF D!Setting, D!Switched, D!GivenUp, D!vars
<1>12. ASSUME NEW v \in D!Levels, D!Chosen(v) PROVE D!FlagsOK'
  BY <1>12 DEF D!Chosen
<1>13. CASE D!Crash
  BY <1>13 DEF D!Crash, D!Ends, D!Lost
<1>14. CASE D!Stop
  BY <1>14 DEF D!Stop, D!Ends, D!RestoreSaved, D!Lost
<1>15. CASE D!Start
  <2>1. spoiled' \in BOOLEAN
    BY <1>15 DEF D!Start, D!RestoreSaved
  <2> QED
    BY <1>15, <2>1 DEF D!Start
<1>16. CASE UNCHANGED D!vars
  BY <1>16 DEF D!vars
<1> QED
  BY <1>1, <1>2, <1>3, <1>4, <1>5, <1>6, <1>7, <1>8, <1>9, <1>10, <1>11, <1>12, <1>13,
     <1>14, <1>15, <1>16 DEF D!Next, D!Step

\* The time since the last use is counted to two.
LEMMA IdleNext == idle \in 0..2 /\ [D!Next]_D!vars => idle' \in 0..2
<1> SUFFICES ASSUME idle \in 0..2, [D!Next]_D!vars, idle' # idle PROVE idle' = 0 \/ (idle' = idle + 1 /\ idle < 2)
  OBVIOUS
<1>. USE DEF D!Marked, D!Unmarked, D!light, D!clock
<1>1. CASE D!Return \/ D!Look
  BY <1>1 DEF D!Return, D!Look, D!Woken
<1>2. CASE D!DimDue \/ D!OffDue
  BY <1>2 DEF D!DimDue, D!OffDue
<1>3. CASE D!ScreenOff
  BY <1>3 DEF D!ScreenOff
<1>4. CASE D!Save \/ D!Fade \/ D!Clear
  BY <1>4 DEF D!Save, D!Fade, D!Clear
<1>5. CASE D!Back
  BY <1>5 DEF D!Back
<1>6. CASE D!Touch \/ D!Hold \/ D!HoldEnds \/ D!TimePasses
  BY <1>6 DEF D!Touch, D!Hold, D!HoldEnds, D!TimePasses
<1>7. CASE D!Setting \/ D!Switched \/ D!GivenUp \/ UNCHANGED D!vars
  BY <1>7 DEF D!Setting, D!Switched, D!GivenUp, D!vars
<1>8. ASSUME NEW v \in D!Levels, D!Chosen(v) PROVE idle' = idle
  BY <1>8 DEF D!Chosen
<1>9. CASE D!Crash \/ D!Stop
  BY <1>9 DEF D!Crash, D!Stop, D!Ends
<1>10. CASE D!Start
  BY <1>10 DEF D!Start
<1> QED
  BY <1>1, <1>2, <1>3, <1>4, <1>5, <1>6, <1>7, <1>8, <1>9, <1>10 DEF D!Next, D!Step

\* What is kept besides the types of the flags and of the time.
Core == D!LevelsOK /\ D!WayInv /\ D!LevelInv

\* The names of the steps differ.
LEMMA StepNames ==
  /\ "look" # "save" /\ "look" # "fade" /\ "look" # "clear" /\ "look" # "back"
  /\ "look" # "dead" /\ "save" # "fade" /\ "save" # "clear" /\ "save" # "back"
  /\ "save" # "dead" /\ "fade" # "clear" /\ "fade" # "back" /\ "fade" # "dead"
  /\ "clear" # "back" /\ "clear" # "dead" /\ "back" # "dead"
  /\ "off" # "look" /\ "off" # "save" /\ "off" # "fade" /\ "off" # "clear"
  /\ "off" # "back" /\ "off" # "dead"
  OBVIOUS

\* A step that leaves the level, its record and the timer alone keeps them.
LEMMA StillKeeps ==
  ASSUME Core, UNCHANGED <<shown, dimmed_from, timer, dim, at, then, chosen, spoiled, left>>
  PROVE  Core'
  BY DEF Core, D!LevelsOK, D!WayInv, D!LevelInv, D!AtRestInv, D!SaveInv, D!FadeInv, D!DimInv, D!DeadInv

\* Steps of the timer that write neither the level nor the settings.
LEMMA ReturnKeeps == ASSUME D!DimmingAssumption, Core, ~spoiled, D!Return PROVE Core'
<1>1. D!LevelsOK'
  BY DimNames DEF Core, D!LevelsOK, D!Return, D!light
<1>2. D!WayInv'
  BY StepNames DEF Core, D!WayInv, D!Return
<1>3. D!LevelInv'
  BY StepNames DEF Core, D!LevelInv, D!AtRestInv, D!SaveInv, D!FadeInv, D!DimInv, D!DeadInv, D!light, D!Return, D!light
<1> QED
  BY <1>1, <1>2, <1>3 DEF Core

LEMMA OffDueKeeps == ASSUME D!DimmingAssumption, Core, ~spoiled, D!OffDue PROVE Core'
<1>1. D!LevelsOK'
  BY DimNames DEF Core, D!LevelsOK, D!OffDue, D!light
<1>2. D!WayInv'
  BY StepNames DEF Core, D!WayInv, D!OffDue, D!AtRest
<1>3. D!LevelInv'
  BY StepNames DEF Core, D!LevelInv, D!AtRestInv, D!SaveInv, D!FadeInv, D!DimInv, D!DeadInv, D!light, D!OffDue, D!AtRest
<1> QED
  BY <1>1, <1>2, <1>3 DEF Core

LEMMA ScreenOffKeeps == ASSUME D!DimmingAssumption, Core, ~spoiled, D!ScreenOff PROVE Core'
<1>1. D!LevelsOK'
  BY DimNames DEF Core, D!LevelsOK, D!ScreenOff
<1>2. D!WayInv'
  BY StepNames DEF Core, D!WayInv, D!ScreenOff
<1>3. D!LevelInv'
  BY StepNames DEF Core, D!LevelInv, D!AtRestInv, D!SaveInv, D!FadeInv, D!DimInv, D!DeadInv, D!ScreenOff
<1> QED
  BY <1>1, <1>2, <1>3 DEF Core

\* The dim: its record is made, the level is kept, the backlight fades.
LEMMA DimDueKeeps == ASSUME D!DimmingAssumption, Core, ~spoiled, D!DimDue PROVE Core'
<1>1. PICK v \in 1..shown :
        /\ dim' = [normal |-> shown, level |-> v]
        /\ timer' = (IF v < shown THEN "save" ELSE "look")
  BY DEF D!DimDue
<1>2. /\ timer = "look" /\ dim = None /\ shown > 0 /\ at' = shown /\ spoiled' = spoiled
      /\ shown' = shown /\ chosen' = chosen /\ dimmed_from' = dimmed_from
      /\ then' = then /\ left' = left
  BY DEF D!DimDue, D!AtRest, D!light
<1>3. shown \in Nat /\ shown \in D!Levels /\ v \in D!Levels /\ 0 < v /\ v <= shown
  BY DEF Core, D!LevelsOK, D!Levels, D!DimmingAssumption
<1>4. dim' \in D!Dims /\ dim' # None /\ dim'.normal = shown /\ dim'.level = v
  <2>1. dim' \in D!Dims
    BY <1>1, <1>3 DEF D!Dims
  <2>2. dim' # None
    BY <2>1 DEF D!Dims, D!Levels, D!DimmingAssumption
  <2> QED
    BY <1>1, <2>1, <2>2
<1>5. D!LevelsOK'
  BY <1>1, <1>2, <1>3, <1>4, DimNames DEF Core, D!LevelsOK
<1>6. D!WayInv'
  BY <1>1, <1>2, <1>3, <1>4, StepNames DEF D!WayInv
<1>7. D!LevelInv'
  <2>1. shown = chosen /\ dimmed_from = None
    BY <1>2, StepNames DEF Core, D!LevelInv, D!AtRestInv
  <2> QED
    BY <1>1, <1>2, <1>3, <1>4, <2>1, StepNames
    DEF D!LevelInv, D!AtRestInv, D!SaveInv, D!FadeInv, D!DimInv, D!DeadInv
<1> QED
  BY <1>5, <1>6, <1>7 DEF Core

LEMMA SaveKeeps == ASSUME D!DimmingAssumption, Core, ~spoiled, D!Save PROVE Core'
<1>1. dim # None /\ dim \in D!Dims /\ dim.normal \in D!Levels /\ dim.level \in D!Levels
  BY StepNames DEF D!Save, Core, D!WayInv, D!LevelsOK, D!Dims
<1>2. D!LevelsOK'
  BY <1>1, DimNames DEF Core, D!LevelsOK, D!light, D!Save, D!Keep, D!Fine, D!Fault, D!Mishap
<1>3. D!WayInv'
  BY StepNames DEF Core, D!WayInv, D!Save
<1>4. D!LevelInv'
  <2> SUFFICES ASSUME ~spoiled' PROVE D!LevelInv'
    BY DEF D!LevelInv
  <2>1. dimmed_from' = dim.normal
    BY DEF D!Save, D!Keep, D!Fault
  <2>2. /\ timer = "save" /\ timer' = "fade" /\ shown' = shown /\ chosen' = chosen
        /\ at' = at /\ dim' = dim
    BY DEF D!Save, D!light
  <2>3. at = shown /\ shown = dim.normal /\ chosen = dim.normal
    BY <2>2 DEF Core, D!LevelInv, D!SaveInv
  <2>4. dim.level <= dim.normal
    BY <1>1 DEF Core, D!WayInv
  <2>5. D!FadeInv'
    BY <1>1, <2>1, <2>2, <2>3, <2>4 DEF D!FadeInv, D!Levels, D!DimmingAssumption
  <2> QED
    BY <1>1, <2>2, <2>5, StepNames DEF D!LevelInv, D!AtRestInv, D!SaveInv, D!DimInv, D!DeadInv
<1> QED
  BY <1>2, <1>3, <1>4 DEF Core

LEMMA ClearKeeps == ASSUME D!DimmingAssumption, Core, ~spoiled, D!Clear PROVE Core'
<1>1. dim # None /\ dim \in D!Dims /\ dim.normal \in D!Levels /\ dim.level \in D!Levels
  BY StepNames DEF D!Clear, Core, D!WayInv, D!LevelsOK, D!Dims
<1>2. D!LevelsOK'
  BY DimNames DEF Core, D!LevelsOK, D!light, D!Clear, D!Keep, D!Fine, D!Fault, D!Mishap
<1>3. D!WayInv'
  BY StepNames DEF Core, D!WayInv, D!Clear
<1>4. D!LevelInv'
  BY <1>1, StepNames
  DEF Core, D!LevelInv, D!WayInv, D!AtRestInv, D!SaveInv, D!FadeInv, D!DimInv, D!DeadInv, D!light, D!Clear, D!Keep, D!Fine, D!Fault
<1> QED
  BY <1>2, <1>3, <1>4 DEF Core

LEMMA BackKeeps == ASSUME D!DimmingAssumption, Core, ~spoiled, D!Back PROVE Core'
<1>1. dim # None /\ dim \in D!Dims /\ dim.normal \in D!Levels /\ dim.level \in D!Levels
  BY StepNames DEF D!Back, Core, D!WayInv, D!LevelsOK, D!Dims
<1>2. D!LevelsOK'
  BY <1>1, DimNames DEF Core, D!LevelsOK, D!Back, D!SetLevel, D!Fine, D!Fault, D!Mishap
<1>3. D!WayInv'
  BY StepNames DEF Core, D!WayInv, D!Back
<1>4. D!LevelInv'
  BY <1>1, StepNames
  DEF Core, D!LevelInv, D!WayInv, D!AtRestInv, D!SaveInv, D!FadeInv, D!DimInv, D!DeadInv, D!Back, D!SetLevel, D!Fine, D!Fault
<1> QED
  BY <1>2, <1>3, <1>4 DEF Core

LEMMA FadeKeeps == ASSUME D!DimmingAssumption, Core, ~spoiled, D!Fade PROVE Core'
<1>1. dim # None /\ dim \in D!Dims /\ dim.normal \in D!Levels /\ dim.level \in D!Levels
  BY StepNames DEF D!Fade, Core, D!WayInv, D!LevelsOK, D!Dims
<1>2. /\ timer = "fade" /\ dimmed_from = dim.normal /\ chosen = dim.normal /\ at = shown
      /\ dim.level <= shown /\ shown <= dim.normal /\ 0 < dim.level /\ dim.level <= dim.normal
      /\ shown \in D!Levels /\ dimmed_from' = dimmed_from /\ chosen' = chosen /\ left \in Nat
  BY <1>1 DEF Core, D!LevelsOK, D!WayInv, D!LevelInv, D!FadeInv, D!Fade
<1>3. CASE touched
  <2>1. /\ dim' = [normal |-> dim.normal, level |-> shown] /\ timer' = "clear" /\ then' = "look"
        /\ shown' = shown /\ at' = at /\ spoiled' = spoiled /\ left' = left
    BY <1>3 DEF D!Fade
  <2>2. dim' \in D!Dims /\ dim' # None /\ dim'.normal = dim.normal /\ dim'.level = shown
    <3>1. dim' \in D!Dims
      BY <2>1, <1>1, <1>2 DEF D!Dims
    <3>2. dim' # None
      BY <3>1 DEF D!Dims, D!Levels, D!DimmingAssumption
    <3> QED
      BY <2>1, <3>1, <3>2
  <2>3. D!LevelsOK'
    BY <1>2, <2>1, <2>2, DimNames DEF Core, D!LevelsOK
  <2>4. D!WayInv'
    BY <1>1, <1>2, <2>1, <2>2, StepNames DEF D!WayInv, D!Levels, D!DimmingAssumption
  <2>5. D!LevelInv'
    BY <1>1, <1>2, <2>1, <2>2, StepNames
    DEF D!LevelInv, D!AtRestInv, D!SaveInv, D!FadeInv, D!DimInv, D!DeadInv
  <2> QED
    BY <2>3, <2>4, <2>5 DEF Core
<1>4. CASE ~touched
  <2>1. PICK v \in dim.level..at : D!FadeTo(v)
    BY <1>4 DEF D!Fade
  <2>2. v \in D!Levels /\ dim.level <= v /\ v <= shown /\ 0 < v
    BY <1>1, <1>2, <2>1 DEF D!Levels, D!DimmingAssumption
  <2>3. CASE /\ shown' = v /\ v < at /\ D!Fine
             /\ timer' = (IF v = dim.level THEN "look" ELSE "fade")
             /\ UNCHANGED <<dim, then>>
    <3>1. at' = v
      BY <2>1 DEF D!FadeTo
    <3>2. D!LevelsOK'
      BY <1>2, <2>2, <2>3, <3>1, DimNames DEF Core, D!LevelsOK, D!Fine
    <3>3. D!WayInv'
      BY <1>1, <1>2, <2>3, StepNames DEF D!WayInv
    <3>4. D!LevelInv'
      BY <1>1, <1>2, <2>2, <2>3, <3>1, StepNames
      DEF D!Fine, D!LevelInv, D!AtRestInv, D!SaveInv, D!FadeInv, D!DimInv, D!DeadInv, D!Levels
    <3> QED
      BY <3>2, <3>3, <3>4 DEF Core
  <2>4. CASE /\ shown' \in {shown, v} /\ D!Fault(FALSE)
             /\ dim' = [normal |-> dim.normal, level |-> shown']
             /\ timer' = "clear" /\ then' = "retry"
    <3>1. at' = v /\ shown' \in D!Levels /\ 0 < shown' /\ shown' <= dim.normal
      BY <1>1, <1>2, <2>1, <2>2, <2>4 DEF D!FadeTo, D!Levels
    <3>2. dim' \in D!Dims /\ dim' # None /\ dim'.normal = dim.normal /\ dim'.level = shown'
      <4>1. dim' \in D!Dims
        BY <2>4, <1>1, <3>1 DEF D!Dims
      <4>2. dim' # None
        BY <4>1 DEF D!Dims, D!Levels, D!DimmingAssumption
      <4> QED
        BY <2>4, <4>1, <4>2
    <3>3. D!LevelsOK'
      BY <1>2, <2>2, <2>4, <3>1, <3>2, DimNames DEF Core, D!LevelsOK, D!Fault, D!Mishap
    <3>4. D!WayInv'
      BY <1>1, <1>2, <2>4, <3>1, <3>2, StepNames DEF D!WayInv
    <3>5. D!LevelInv'
      BY <1>1, <1>2, <2>4, <3>1, <3>2, StepNames
      DEF D!LevelInv, D!AtRestInv, D!SaveInv, D!FadeInv, D!DimInv, D!DeadInv
    <3> QED
      BY <3>3, <3>4, <3>5 DEF Core
  <2> QED
    BY <2>1, <2>3, <2>4 DEF D!FadeTo
<1> QED
  BY <1>3, <1>4

\* Somebody else's level.
LEMMA ChosenKeeps ==
  ASSUME D!DimmingAssumption, Core, ~spoiled, NEW v \in D!Levels, D!Chosen(v) PROVE Core'
<1>1. /\ shown' = v /\ chosen' = v /\ dimmed_from' = dimmed_from /\ timer' = timer
      /\ dim' = dim /\ at' = at /\ then' = then /\ left' = left - 1 /\ left > 0
  BY DEF D!Chosen, D!Mishap
<1>2. D!LevelsOK'
  BY <1>1 DEF Core, D!LevelsOK
<1>3. D!WayInv'
  BY <1>1 DEF Core, D!WayInv
<1>4. D!LevelInv'
  <2> SUFFICES ASSUME ~spoiled' PROVE D!LevelInv'
    BY DEF D!LevelInv
  <2>1. timer \notin {"save", "fade"}
    BY DEF D!Chosen
  <2>2. dim # None => v # dim.level
    BY DEF D!Chosen
  <2>3. ~(timer = "dead" /\ dimmed_from # None /\ 0 < v /\ v < dimmed_from)
    BY DEF D!Chosen
  <2>4. D!AtRestInv' /\ D!SaveInv' /\ D!FadeInv'
    BY <1>1, <2>1 DEF Core, D!LevelInv, D!AtRestInv, D!SaveInv, D!FadeInv
  <2>5. D!DimInv'
    BY <1>1, <2>1, <2>2 DEF Core, D!LevelInv, D!DimInv
  <2>6. D!DeadInv'
    BY <1>1, <2>3 DEF D!DeadInv
  <2> QED
    BY <2>4, <2>5, <2>6 DEF D!LevelInv
<1> QED
  BY <1>2, <1>3, <1>4 DEF Core

\* The end of the process and its start.
LEMMA CrashKeeps == ASSUME D!DimmingAssumption, Core, ~spoiled, D!Crash PROVE Core'
<1>1. /\ shown' = shown /\ chosen' = chosen /\ dimmed_from' = dimmed_from /\ timer' = "dead"
      /\ dim' = None /\ at' = at /\ then' = then /\ left' = left - 1 /\ left > 0
      /\ timer # "dead"
  BY DEF D!Crash, D!Ends, D!Mishap
<1>2. D!LevelsOK'
  BY <1>1, DimNames DEF Core, D!LevelsOK
<1>3. D!WayInv'
  BY <1>1, StepNames DEF D!WayInv
<1>4. D!LevelInv'
  <2> SUFFICES ASSUME ~spoiled' PROVE D!LevelInv'
    BY DEF D!LevelInv
  <2> ~D!Lost
    BY DEF D!Crash
  <2>1. ~D!Unseen /\ ~(timer = "back" /\ shown # chosen)
    BY DEF D!Lost
  <2>2. D!DeadInv'
    <3>1. CASE dim = None
      BY <1>1, <2>1, <3>1, StepNames DEF Core, D!LevelInv, D!AtRestInv, D!DeadInv, D!Unseen
    <3>2. CASE dim # None /\ timer = "save"
      BY <1>1, <2>1, <3>2, StepNames DEF Core, D!LevelInv, D!SaveInv, D!DeadInv, D!Unseen
    <3>3. CASE dim # None /\ timer = "fade"
      BY <1>1, <2>1, <3>3, StepNames, DimIsRecord
      DEF Core, D!LevelInv, D!WayInv, D!FadeInv, D!DeadInv, D!Unseen, D!LevelsOK, D!Levels, D!Dims, D!DimmingAssumption
    <3>4. CASE dim # None /\ timer # "save" /\ timer # "fade"
      BY <1>1, <2>1, <3>4, StepNames
      DEF Core, D!LevelInv, D!WayInv, D!DimInv, D!DeadInv, D!Unseen, D!LevelsOK, D!Levels, D!Dims, D!DimmingAssumption
    <3> QED
      BY <3>1, <3>2, <3>3, <3>4
  <2> QED
    BY <1>1, <2>2, StepNames DEF D!LevelInv, D!AtRestInv, D!SaveInv, D!FadeInv, D!DimInv
<1> QED
  BY <1>2, <1>3, <1>4 DEF Core

\* What restore_saved() leaves is a level, and the level somebody chose unless it is given up.
LEMMA Restores ==
  ASSUME D!DimmingAssumption, D!LevelsOK, NEW gone \in BOOLEAN, D!RestoreSaved(gone)
  PROVE  /\ shown' \in D!Levels /\ dimmed_from' \in D!Levels \cup {None}
         /\ ~spoiled' =>
              /\ ~gone /\ dimmed_from' = None
              /\ shown' = (IF dimmed_from # None /\ 0 < shown /\ shown < dimmed_from
                           THEN dimmed_from ELSE shown)
<1> DEFINE back == dimmed_from # None /\ 0 < shown /\ shown < dimmed_from
         normal == IF back THEN dimmed_from ELSE shown
<1>1. normal \in D!Levels
  BY DEF D!LevelsOK
<1>2. \/ shown' = normal /\ dimmed_from' = None /\ spoiled' = (spoiled \/ gone)
      \/ /\ shown' \in {shown, normal} /\ dimmed_from' \in {dimmed_from, None}
         /\ spoiled' = TRUE
  BY DEF D!RestoreSaved
<1> HIDE DEF normal
<1>3. shown' \in D!Levels /\ dimmed_from' \in D!Levels \cup {None}
  BY <1>1, <1>2 DEF D!LevelsOK
<1>4. ASSUME ~spoiled' PROVE ~gone /\ dimmed_from' = None /\ shown' = normal
  BY <1>2, <1>4
<1> QED
  BY <1>3, <1>4 DEF normal

LEMMA StopKeeps == ASSUME D!DimmingAssumption, Core, ~spoiled, D!Stop PROVE Core'
<1>1. /\ chosen' = chosen /\ timer' = "dead" /\ timer # "dead"
      /\ dim' = None /\ at' = at /\ then' = then /\ left' = left - 1 /\ left > 0
  BY DEF D!Stop, D!Ends, D!Mishap
<1>2. D!WayInv'
  BY <1>1, StepNames DEF D!WayInv
<1>3. CASE timer \in {"save", "fade"}
  <2>1. shown' \in dim.level..dim.normal /\ dimmed_from' \in {None, dim.normal} /\ spoiled'
    BY <1>3 DEF D!Stop
  <2>2. dim \in D!Dims
    BY <1>3 DEF Core, D!LevelsOK, D!WayInv
  <2>3. shown' \in D!Levels /\ dimmed_from' \in D!Levels \cup {None}
    BY <2>1, <2>2 DEF D!Dims, D!Levels, D!DimmingAssumption
  <2>4. D!LevelsOK'
    BY <1>1, <2>3, DimNames DEF Core, D!LevelsOK
  <2> QED
    BY <1>2, <2>1, <2>4 DEF Core, D!LevelInv
<1>4. CASE timer \notin {"save", "fade"}
  <2>1. D!RestoreSaved(D!Lost)
    BY <1>4 DEF D!Stop
  <2>2. D!Lost \in BOOLEAN
    BY DEF D!Lost, D!Unseen
  <2>3. /\ shown' \in D!Levels /\ dimmed_from' \in D!Levels \cup {None}
        /\ ~spoiled' =>
             /\ ~D!Lost /\ dimmed_from' = None
             /\ shown' = (IF dimmed_from # None /\ 0 < shown /\ shown < dimmed_from
                          THEN dimmed_from ELSE shown)
    BY <2>1, <2>2, Restores DEF Core
  <2>4. D!LevelsOK'
    BY <1>1, <2>3, DimNames DEF Core, D!LevelsOK
  <2>5. ASSUME ~spoiled' PROVE shown' = chosen'
    <3>1. ~D!Unseen /\ ~(timer = "back" /\ shown # chosen)
      BY <2>3, <2>5 DEF D!Lost
    <3>2. CASE dim = None
      BY <1>1, <2>3, <2>5, <3>2 DEF Core, D!LevelInv, D!AtRestInv
    <3>3. CASE dim # None
      <4>1. /\ dim \in D!Dims /\ shown \in D!Levels /\ chosen \in D!Levels
            /\ dimmed_from \in D!Levels \cup {None}
        BY <3>3 DEF Core, D!LevelsOK
      <4>2. D!DimInv /\ 0 < dim.level /\ dim.level <= dim.normal
        BY <3>3 DEF Core, D!LevelInv, D!WayInv
      <4> QED
        BY <1>1, <1>4, <2>3, <2>5, <3>1, <3>3, <4>1, <4>2
        DEF D!DimInv, D!Unseen, D!Levels, D!Dims, D!DimmingAssumption
    <3> QED
      BY <3>2, <3>3
  <2>6. D!LevelInv'
    BY <1>1, <2>3, <2>5, StepNames
    DEF D!LevelInv, D!AtRestInv, D!SaveInv, D!FadeInv, D!DimInv, D!DeadInv
  <2> QED
    BY <1>2, <2>4, <2>6 DEF Core
<1> QED
  BY <1>3, <1>4

LEMMA StartKeeps == ASSUME D!DimmingAssumption, Core, ~spoiled, D!Start PROVE Core'
<1>1. /\ chosen' = chosen /\ timer = "dead" /\ timer' = "look"
      /\ dim' = dim /\ at' = at /\ then' = then /\ left' = left
  BY DEF D!Start
<1>2. dim = None
  BY <1>1 DEF Core, D!WayInv
<1>3. /\ shown' \in D!Levels /\ dimmed_from' \in D!Levels \cup {None}
      /\ ~spoiled' =>
           /\ dimmed_from' = None
           /\ shown' = (IF dimmed_from # None /\ 0 < shown /\ shown < dimmed_from
                        THEN dimmed_from ELSE shown)
  BY Restores DEF Core, D!Start
<1>4. D!LevelsOK'
  BY <1>1, <1>3, DimNames DEF Core, D!LevelsOK
<1>5. D!WayInv'
  BY <1>1, <1>2, StepNames DEF D!WayInv
<1>6. D!LevelInv'
  <2>1. ASSUME ~spoiled' PROVE shown' = chosen' /\ dimmed_from' = None
    BY <1>1, <1>3, <2>1 DEF Core, D!LevelInv, D!DeadInv
  <2> QED
    BY <1>1, <1>2, <2>1, StepNames DEF D!LevelInv, D!AtRestInv, D!SaveInv, D!FadeInv, D!DimInv, D!DeadInv
<1> QED
  BY <1>4, <1>5, <1>6 DEF Core

LEMMA CoreNext == D!DimmingAssumption /\ Core /\ [D!Next]_D!vars => Core'
<1> SUFFICES ASSUME D!DimmingAssumption, Core, [D!Next]_D!vars PROVE Core'
  OBVIOUS
<1>1. CASE D!Look \/ D!Touch \/ D!Hold \/ D!HoldEnds \/ D!TimePasses \/ D!Setting \/ D!Switched \/ D!GivenUp
  BY <1>1, StillKeeps
  DEF D!Look, D!Touch, D!Hold, D!HoldEnds, D!TimePasses, D!Setting, D!Switched, D!GivenUp, D!vars, D!light
<1>2. CASE UNCHANGED D!vars
  BY <1>2, StillKeeps DEF D!vars, D!light
<1> QED
  BY <1>1, <1>2, ReturnKeeps, OffDueKeeps, ScreenOffKeeps, DimDueKeeps, SaveKeeps, ClearKeeps,
     BackKeeps, FadeKeeps, ChosenKeeps, CrashKeeps, StopKeeps, StartKeeps
  DEF D!Next, D!Step

LEMMA CoreInit == D!DimmingAssumption /\ D!Init => D!TypeOK /\ D!WayInv /\ D!LevelInv
<1> SUFFICES ASSUME D!DimmingAssumption, D!Init PROVE D!TypeOK /\ D!WayInv /\ D!LevelInv
  OBVIOUS
<1>1. D!FlagsOK
  BY DEF D!Init, D!FlagsOK
<1>2. D!LevelsOK
  BY DimNames DEF D!Init, D!LevelsOK, D!Levels, D!DimmingAssumption
<1>3. D!WayInv /\ D!LevelInv
  BY StepNames DEF D!Init, D!WayInv, D!LevelInv, D!AtRestInv, D!SaveInv, D!FadeInv, D!DimInv, D!DeadInv
<1> QED
  BY <1>1, <1>2, <1>3 DEF D!Init, D!TypeOK

LEMMA CoreIsSound == ASSUME D!DimmingAssumption, D!IInv PROVE D!DimmingSound
<1>1. CASE dim = None
  BY <1>1, StepNames DEF D!IInv, D!DimmingSound, D!NotForgotten, D!RestsAtChosen, D!WayInv, D!LevelInv,
     D!AtRestInv, D!DeadInv
<1>2. CASE dim # None
  <2>1. /\ dim \in D!Dims /\ shown \in D!Levels /\ chosen \in D!Levels
        /\ dimmed_from \in D!Levels \cup {None}
    BY <1>2 DEF D!IInv, D!TypeOK, D!LevelsOK
  <2>2. D!RestsAtChosen
    BY <1>2 DEF D!RestsAtChosen
  <2>3. D!NotForgotten
    BY <1>2, <2>1, StepNames DEF D!IInv, D!NotForgotten, D!WayInv, D!LevelInv, D!SaveInv, D!FadeInv, D!DimInv,
       D!Levels, D!Dims, D!DimmingAssumption
  <2> QED
    BY <2>2, <2>3 DEF D!IInv, D!DimmingSound
<1> QED
  BY <1>1, <1>2

LEMMA DimKeeps == D!IInv /\ [D!Next]_D!vars => D!IInv'
  BY FrontParameters, FlagsNext, IdleNext, CoreNext DEF D!IInv, D!TypeOK, Core

\* No level somebody chose is lost to a dim, whatever ends it: it is in the settings or
\* about to be written until the screen has it again (idle.rs), for any number of levels.
THEOREM DimsSafely == D!Spec => []D!DimmingSound
<1>1. D!Init => D!IInv
  BY FrontParameters, CoreInit DEF D!IInv
<1>2. D!IInv /\ [D!Next]_D!vars => D!IInv'
  BY DimKeeps
<1>3. D!IInv => D!DimmingSound
  BY FrontParameters, CoreIsSound
<1> QED
  BY <1>1, <1>2, <1>3, PTL DEF D!Spec

-----------------------------------------------------------------------------
\* The touch controller (Touch).

\* The steps and states are told apart by their names.
LEMMA TouchNames ==
  /\ "idle" \in T!WorkSteps /\ "entering" \in T!WorkSteps /\ "recovering" \in T!WorkSteps
  /\ "up" \in T!States /\ "suspending" \in T!States /\ "suspended" \in T!States
  /\ "removing" \in T!States /\ "gone" \in T!States
  BY DEF T!WorkSteps, T!States

\* With the interrupt enabled, nobody has taken it.
LEMMA EnabledIsUp == T!IrqBalanced /\ T!Enabled => state = "up" /\ work # "recovering"
  BY DEF T!IrqBalanced, T!Enabled

\* The invariant is inductive by itself: the balance of the interrupt's depth tells who may
\* run, and with it what may be reported or scheduled (ft8722_core.c).
LEMMA TouchInit == T!TouchAssumption /\ T!Init => T!TouchSound
<1>1. T!TouchAssumption /\ T!Init => T!TypeOK
  <2>1. T!Init => /\ work \in T!WorkSteps /\ state \in T!States
                /\ queued \in BOOLEAN /\ recent \in BOOLEAN
                /\ fingers \in BOOLEAN /\ pen \in BOOLEAN /\ phantom \in BOOLEAN
                /\ ghost \in BOOLEAN /\ held \in BOOLEAN /\ near \in BOOLEAN
    BY TouchNames DEF T!Init
  <2>2. T!TouchAssumption /\ T!Init => /\ depth \in 0..2 /\ run \in 0..RunLen
                                  /\ ghosts \in Nat /\ pauses \in Nat /\ naps \in Nat
    BY DEF T!TouchAssumption, T!Init
  <2> QED
    BY <2>1, <2>2 DEF T!TypeOK
<1>2. T!Init => T!IrqBalanced /\ T!SleepsQuietly /\ T!PhantomsReleased
  BY DEF T!Init, T!IrqBalanced, T!SleepsQuietly, T!PhantomsReleased
<1> QED
  BY <1>1, <1>2 DEF T!TouchSound

\* Every step of the driver and around it keeps what is sound.
LEMMA TouchNext ==
  ASSUME T!TouchAssumption, T!TouchSound, [T!Next]_T!touch
  PROVE  T!TouchSound'
<1>. USE DEF T!TouchSound, T!TypeOK, T!IrqBalanced, T!SleepsQuietly, T!PhantomsReleased,
             T!driver, T!reports, T!glass, T!count, T!Released, T!Forgotten, T!TouchAssumption
<1>1. CASE T!PhantomFrame
  <2>1. state = "up" /\ work # "recovering"
    BY <1>1, EnabledIsUp DEF T!PhantomFrame
  <2>2. fingers' \in BOOLEAN /\ queued' \in BOOLEAN
    BY <1>1 DEF T!PhantomFrame
  <2>3. run' \in 0..RunLen
    BY <1>1 DEF T!PhantomFrame
  <2>4. phantom' = TRUE /\ ~fingers'
    BY <1>1 DEF T!PhantomFrame
  <2> QED
    BY <1>1, <2>1, <2>2, <2>3, <2>4 DEF T!PhantomFrame
<1>2. CASE T!Contacts
  <2>1. state = "up"
    BY <1>2, EnabledIsUp DEF T!Contacts
  <2> QED
    BY <1>2, <2>1 DEF T!Contacts
<1>3. CASE T!PenFrame
  <2>1. state = "up"
    BY <1>3, EnabledIsUp DEF T!PenFrame
  <2> QED
    BY <1>3, <2>1 DEF T!PenFrame
<1>4. CASE T!BadFrame
  BY <1>4 DEF T!BadFrame
<1>5. CASE T!WorkStarts
  BY <1>5, TouchNames DEF T!WorkStarts
<1>6. CASE T!WorkDisables
  <2>1. state # "gone" /\ depth \in 0..1
    BY <1>6, TouchNames DEF T!WorkDisables
  <2> QED
    BY <1>6, <2>1, TouchNames DEF T!WorkDisables
<1>7. ASSUME NEW cured \in BOOLEAN, T!Recovered(cured) PROVE T!TouchSound'
  <2>1. state # "gone" /\ depth \in 1..2
    BY <1>7 DEF T!Recovered
  <2>2. ghost' \in BOOLEAN
    BY <1>7 DEF T!Recovered
  <2>3. fingers' \in BOOLEAN /\ pen' \in BOOLEAN /\ phantom' \in BOOLEAN /\ recent' \in BOOLEAN
    BY <1>7 DEF T!Recovered
  <2>4. T!TypeOK'
    BY <1>7, <2>1, <2>2, <2>3, TouchNames DEF T!Recovered
  <2>5. T!IrqBalanced'
    BY <1>7, <2>1, TouchNames DEF T!Recovered
  <2>6. T!SleepsQuietly' /\ T!PhantomsReleased'
    BY <1>7, <2>1 DEF T!Recovered
  <2> QED
    BY <2>4, <2>5, <2>6
<1>8. CASE T!IntervalPasses
  BY <1>8 DEF T!IntervalPasses
<1>9. CASE T!Suspend \/ T!Remove
  <2>1. depth \in 0..1
    BY <1>9, TouchNames DEF T!Suspend, T!Remove, T!Disables
  <2>2. CASE T!Suspend
    BY <2>1, <2>2, TouchNames DEF T!Suspend, T!Disables
  <2>3. CASE T!Remove
    BY <2>1, <2>3, TouchNames DEF T!Remove, T!Disables
  <2> QED
    BY <1>9, <2>2, <2>3
<1>10. CASE T!SuspendEnds
  <2>1. T!TypeOK'
    <3>1. phantom' \in BOOLEAN /\ fingers' \in BOOLEAN /\ pen' \in BOOLEAN /\ queued' \in BOOLEAN
      BY <1>10 DEF T!SuspendEnds
    <3>2. depth' \in 0..2 /\ run' \in 0..RunLen
      BY <1>10 DEF T!SuspendEnds
    <3> QED
      BY <1>10, <3>1, <3>2, TouchNames DEF T!SuspendEnds
  <2>2. T!IrqBalanced'
    BY <1>10 DEF T!SuspendEnds
  <2>3. T!SleepsQuietly' /\ T!PhantomsReleased'
    BY <1>10 DEF T!SuspendEnds
  <2> QED
    BY <2>1, <2>2, <2>3
<1>11. CASE T!Resume
  BY <1>11, TouchNames DEF T!Resume
<1>12. CASE T!RemoveEnds
  BY <1>12, TouchNames DEF T!RemoveEnds
<1>13. CASE T!Probe
  <2>1. T!TypeOK'
    <3>1. phantom' \in BOOLEAN /\ fingers' \in BOOLEAN /\ pen' \in BOOLEAN /\ queued' \in BOOLEAN
      BY <1>13 DEF T!Probe
    <3>2. depth' \in 0..2 /\ run' \in 0..RunLen
      BY <1>13 DEF T!Probe
    <3> QED
      BY <1>13, <3>1, <3>2, TouchNames DEF T!Probe
  <2>2. T!IrqBalanced'
    BY <1>13 DEF T!Probe
  <2>3. T!SleepsQuietly' /\ T!PhantomsReleased'
    BY <1>13 DEF T!Probe
  <2> QED
    BY <2>1, <2>2, <2>3
<1>14. CASE T!Ghosts
  BY <1>14, TouchNames DEF T!Ghosts
<1>15. CASE T!Pause
  BY <1>15, TouchNames DEF T!Pause
<1>16. CASE T!Finger
  BY <1>16, TouchNames DEF T!Finger
<1>17. CASE T!Pen
  BY <1>17, TouchNames DEF T!Pen
<1>18. CASE UNCHANGED T!touch
  BY <1>18, TouchNames DEF T!touch
<1> QED
  BY <1>1, <1>2, <1>3, <1>4, <1>5, <1>6, <1>7, <1>8, <1>9, <1>10, <1>11, <1>12, <1>13,
     <1>14, <1>15, <1>16, <1>17, <1>18 DEF T!Next

\* Suspend, unbinding and recovery give the interrupt back whatever order they end in, and
\* leave nothing down and nothing scheduled (ft8722_core.c: ft8722_recover(),
\* ft8722_suspend(), ft8722_stop_recovery()).
THEOREM TouchIsSound == T!Spec => []T!TouchSound
<1>1. T!Init => T!TouchSound
  BY FrontParameters, TouchInit
<1>2. T!TouchSound /\ [T!Next]_T!touch => T!TouchSound'
  BY FrontParameters, TouchNext
<1> QED
  BY <1>1, <1>2, PTL DEF T!Spec

-----------------------------------------------------------------------------
\* The Wi-Fi LED (WifiMonitor).

\* An age that grows stays in its range.
LEMMA OlderInRange ==
  ASSUME W!WifiParameters, NEW max \in Nat, NEW age \in W!Ages(max), NEW dt \in {0, 1}
  PROVE  W!Older(age, dt, max) \in 0..max
  BY DEF W!WifiParameters, W!Ages, W!Older, W!Least

\* What can decide a sample.
Founds == DOMAIN W!Plain \cup {"down", "activating", "online"}

LEMMA FoundIsIn ==
  ASSUME W!TypeOK, NEW v \in W!Networks \cup {"unlisted"}
  PROVE  W!Found(v) \in Founds
  BY DEF W!TypeOK, W!Found, Founds, W!Plain, W!Networks, W!Cards

\* A report of a fault is made only of what every sample counts as one.
LEMMA ClassifiedIsReport ==
  ASSUME W!TypeOK, NEW found \in Founds, NEW r, r = W!Classified(found)
  PROVE  r[1] \in W!States /\ (r[1] = "fault" => W!IsIll(found))
<1>1. CASE found \in DOMAIN W!Plain
  <2>1. r = W!Plain[found]
    BY <1>1 DEF W!Classified, W!Plain
  <2>2. CASE found \in {"no driver", "hard block", "unavailable"}
    <3>1. r = <<"fault", found>>
      BY <2>1, <2>2 DEF W!Plain
    <3>2. r[1] \in W!States
      BY <3>1 DEF W!States
    <3>3. W!IsIll(found)
      BY <2>2 DEF W!IsIll
    <3> QED
      BY <3>2, <3>3
  <2>3. CASE found \in {"soft block", "radio off"}
    <3>1. r = <<"off", "disabled">>
      BY <2>1, <2>3 DEF W!Plain
    <3> QED
      BY <3>1 DEF W!States
  <2>4. CASE found \in {"no card", "disconnected", "unlisted"}
    <3>1. r = <<"off", found>>
      BY <2>1, <2>4 DEF W!Plain
    <3> QED
      BY <3>1 DEF W!States
  <2>5. CASE found \in {"limited", "hotspot"}
    <3>1. r = <<found, found>>
      BY <2>1, <2>5 DEF W!Plain
    <3> QED
      BY <2>5, <3>1 DEF W!States
  <2> QED
    BY <1>1, <2>2, <2>3, <2>4, <2>5 DEF W!Plain
<1>2. CASE found = "down"
  <2>1. r = IF down' = NM_DOWN_AFTER THEN <<"fault", "nm-down">>
            ELSE IF reported = None THEN <<"off", "starting">> ELSE reported
    BY <1>2 DEF W!Classified, W!Plain
  <2>2. reported = None \/ reported[1] \in W!States
    BY DEF W!TypeOK
  <2>3. r[1] \in W!States
    BY <2>1, <2>2 DEF W!States
  <2>4. W!IsIll("down")
    BY DEF W!IsIll
  <2> QED
    BY <1>2, <2>3, <2>4
<1>3. CASE found \in {"activating", "online"}
  <2>1. \/ r = <<"connecting", found>> \/ r = <<"off", "disconnected">>
        \/ r = <<"weak", "signal">> \/ r = <<"online", found>>
    BY <1>3 DEF W!Classified, W!Plain
  <2> QED
    BY <2>1 DEF W!States
<1> QED
  BY <1>1, <1>2, <1>3 DEF Founds

\* A fault that waits to be shown has been found for as long as it waits.
FaultInv ==
  candidate # None /\ candidate.report[1] = "fault"
    => ill # None /\ W!Least(candidate.age, FAULT_AFTER) <= ill

WifiInv == W!TypeOK /\ FaultInv

\* What RedHasLasted asks of a step.
RedLasted ==
  /\ reported' # None /\ reported'[1] = "fault"
  /\ reported = None \/ reported[1] # "fault"
  => ~boot /\ (reported = None \/ ill' = FAULT_AFTER)

\* debounce(): a fault is shown, or goes on waiting, no sooner than it has been found.
LEMMA DebounceKeeps ==
  ASSUME W!WifiParameters, WifiInv, NEW r, r[1] \in W!States, NEW dt \in {0, 1},
         W!Debounce(r, dt),
         r[1] = "fault" => ~boot /\ ill' = W!Older(ill, dt, FAULT_AFTER)
  PROVE  /\ reported' # None => reported'[1] \in W!States
         /\ candidate' # None => candidate'.report[1] \in W!States /\ candidate'.age \in Nat
         /\ FaultInv' /\ RedLasted
<1> DEFINE since == IF candidate = None \/ candidate.report # r THEN 0 ELSE candidate.age + dt
           wait  == IF r[1] = "fault" THEN FAULT_AFTER ELSE WORSE_AFTER
<1>1. since \in Nat
  BY DEF WifiInv, W!TypeOK
<1>2. r[1] = "fault" => /\ ill' \in 0..FAULT_AFTER
                        /\ W!Least(since, FAULT_AFTER) <= ill'
  <2> SUFFICES ASSUME r[1] = "fault"
               PROVE  ill' \in 0..FAULT_AFTER /\ W!Least(since, FAULT_AFTER) <= ill'
    OBVIOUS
  <2>1. FAULT_AFTER \in Nat /\ ill \in W!Ages(FAULT_AFTER) /\ None \notin Nat
    BY DEF WifiInv, W!TypeOK, W!WifiParameters
  <2>2. ill' \in 0..FAULT_AFTER
    BY <2>1, OlderInRange
  <2>3. CASE candidate = None \/ candidate.report # r
    BY <2>1, <2>2, <2>3 DEF W!Least
  <2>4. CASE ~(candidate = None \/ candidate.report # r)
    <3>1. ill # None /\ W!Least(candidate.age, FAULT_AFTER) <= ill /\ candidate.age \in Nat
      BY <2>4 DEF WifiInv, FaultInv, W!TypeOK
    <3> QED
      BY <2>1, <2>4, <3>1 DEF W!Least, W!Older, W!Ages
  <2> QED
    BY <2>3, <2>4
<1>3. \/ reported' = r /\ candidate' = None
      \/ /\ reported' = reported /\ candidate' = [report |-> r, age |-> since]
         /\ reported # None
  BY DEF W!Debounce
<1>4. \/ reported' = reported \/ reported = None \/ r[1] # "fault"
      \/ since >= FAULT_AFTER
  BY DEF W!Debounce
<1>5. FAULT_AFTER \in Nat /\ None \notin Nat
  BY DEF W!WifiParameters
<1> HIDE DEF since
<1>6. RedLasted
  <2> SUFFICES ASSUME reported' # None, reported'[1] = "fault",
                      reported = None \/ reported[1] # "fault"
               PROVE  ~boot /\ (reported = None \/ ill' = FAULT_AFTER)
    BY DEF RedLasted
  <2>1. r[1] = "fault" /\ reported' = r /\ (reported' = reported => reported = None)
    BY <1>3
  <2>2. reported = None \/ since >= FAULT_AFTER
    BY <1>4, <2>1
  <2> QED
    BY <1>1, <1>2, <1>5, <2>1, <2>2 DEF W!Least
<1>7. FaultInv'
  BY <1>1, <1>2, <1>3, <1>5 DEF FaultInv, W!Least
<1> QED
  BY <1>1, <1>3, <1>6, <1>7 DEF WifiInv, W!TypeOK

\* A sample, with whatever it learns of NetworkManager.
LEMMA SampleKeeps ==
  ASSUME W!WifiParameters, WifiInv, W!Sample
  PROVE  WifiInv' /\ RedLasted
<1>1. PICK dt \in {0, 1} :
        LET found == W!Found(view') 
            r == W!Classified(found)
        IN
        /\ told' = FALSE /\ UNCHANGED <<card, nm, signal, boot>>
        /\ \/ W!Query /\ asked' = 0
           \/ /\ view # None /\ view' = view /\ changes' = changes
              /\ asked' = asked + dt /\ asked + dt < NM_EVERY
        /\ down' = IF view' = "down" THEN W!Older(down, dt, NM_DOWN_AFTER) ELSE None
        /\ connecting' = W!Connecting(found, dt)
        /\ weak' = W!Weak(found)
        /\ W!Debounce(IF boot /\ r[1] = "fault" THEN <<"off", "starting">> ELSE r, dt)
        /\ ill' = IF W!IsIll(found) THEN W!Older(ill, dt, FAULT_AFTER) ELSE None
  <2>1. NM_EVERY \in Nat /\ NM_EVERY >= 1 /\ asked \in 0..(NM_EVERY - 1)
    BY DEF WifiInv, W!TypeOK, W!WifiParameters
  <2> QED
    BY <2>1 DEF W!Sample, W!machine
<1> DEFINE found == W!Found(view')
           r == W!Classified(found)
           made == IF boot /\ r[1] = "fault" THEN <<"off", "starting">> ELSE r
<1>2. view' \in W!Networks \cup {"unlisted"} /\ changes' \in 0..MaxChanges
  <2>1. /\ view \in W!Networks \cup {"unlisted", None} /\ nm \in W!Networks
        /\ changes \in 0..MaxChanges /\ MaxChanges \in Nat
    BY DEF WifiInv, W!TypeOK, W!WifiParameters
  <2>2. \/ W!Query
        \/ view # None /\ view' = view /\ changes' = changes
    BY <1>1
  <2>3. CASE W!Query
    <3>1. \/ view' = nm /\ changes' = changes
          \/ changes > 0 /\ changes' = changes - 1 /\ view' \in {"down", "unlisted"}
      BY <2>3 DEF W!Query
    <3>2. view' \in W!Networks \cup {"unlisted"}
      BY <2>1, <3>1 DEF W!Networks
    <3>3. changes' \in 0..MaxChanges
      BY <2>1, <3>1
    <3> QED
      BY <3>2, <3>3
  <2> QED
    BY <2>1, <2>2, <2>3
<1>3. r[1] \in W!States /\ (r[1] = "fault" => W!IsIll(found))
  BY <1>2, FoundIsIn, ClassifiedIsReport DEF WifiInv
<1>4. /\ made[1] \in W!States
      /\ made[1] = "fault" => ~boot /\ ill' = W!Older(ill, dt, FAULT_AFTER)
  BY <1>1, <1>3 DEF W!States
<1>5. /\ reported' # None => reported'[1] \in W!States
      /\ candidate' # None => candidate'.report[1] \in W!States /\ candidate'.age \in Nat
      /\ FaultInv' /\ RedLasted
  <2>1. W!Debounce(made, dt)
    BY <1>1
  <2> HIDE DEF made
  <2> QED
    BY <1>4, <2>1, DebounceKeeps
<1>6. /\ down' \in W!Ages(NM_DOWN_AFTER) /\ ill' \in W!Ages(FAULT_AFTER)
      /\ connecting' \in W!Ages(CONNECTING_MAX)
  <2>1. /\ NM_DOWN_AFTER \in Nat /\ FAULT_AFTER \in Nat /\ CONNECTING_MAX \in Nat
        /\ down \in W!Ages(NM_DOWN_AFTER) /\ ill \in W!Ages(FAULT_AFTER)
        /\ connecting \in W!Ages(CONNECTING_MAX)
    BY DEF WifiInv, W!TypeOK, W!WifiParameters
  <2> QED
    BY <1>1, <2>1, OlderInRange DEF W!Connecting, W!Ages
<1>7. weak' \in BOOLEAN
  BY <1>1 DEF W!Weak, WifiInv, W!TypeOK
<1>8. asked' \in 0..(NM_EVERY - 1)
  BY <1>1 DEF WifiInv, W!TypeOK, W!WifiParameters
<1> QED
  BY <1>1, <1>2, <1>5, <1>6, <1>7, <1>8 DEF WifiInv, W!TypeOK

\* What an age may be.
LEMMA AgesHold ==
  ASSUME W!WifiParameters
  PROVE  /\ None \in W!Ages(NM_DOWN_AFTER) /\ None \in W!Ages(CONNECTING_MAX)
         /\ None \in W!Ages(FAULT_AFTER)
         /\ 0 \in 0..(NM_EVERY - 1) /\ MaxChanges \in 0..MaxChanges
  BY DEF W!WifiParameters, W!Ages

\* The machine and the daemon's restart turn nothing red.
LEMMA WifiKeeps ==
  ASSUME W!WifiParameters, WifiInv, [W!Next]_W!vars
  PROVE  WifiInv' /\ [RedLasted]_W!vars
<1>. USE DEF WifiInv
<1>1. CASE W!Sample
  BY <1>1, SampleKeeps
<1>2. CASE W!CardChanges \/ W!NetworkChanges \/ W!SignalChanges \/ W!BootEnds
  <2>1. UNCHANGED <<W!monitor, ill>>
    BY <1>2 DEF W!CardChanges, W!NetworkChanges, W!SignalChanges, W!BootEnds
  <2>2. MaxChanges \in Nat /\ changes' \in 0..MaxChanges
    <3>1. changes' = changes \/ (changes > 0 /\ changes' = changes - 1)
      BY <1>2 DEF W!CardChanges, W!NetworkChanges, W!SignalChanges, W!BootEnds, W!Change
    <3>2. changes \in 0..MaxChanges /\ MaxChanges \in Nat
      BY DEF W!TypeOK, W!WifiParameters
    <3> QED
      BY <3>1, <3>2
  <2>3. card' \in W!Cards /\ nm' \in W!Networks
    BY <1>2 DEF W!CardChanges, W!NetworkChanges, W!SignalChanges, W!BootEnds, W!TypeOK
  <2>4. signal' \in {"strong", "fair", "poor"} /\ boot' \in BOOLEAN
    BY <1>2 DEF W!CardChanges, W!NetworkChanges, W!SignalChanges, W!BootEnds, W!TypeOK
  <2>5. told' \in BOOLEAN
    BY <1>2 DEF W!CardChanges, W!NetworkChanges, W!SignalChanges, W!BootEnds, W!TypeOK
  <2> QED
    BY <2>1, <2>2, <2>3, <2>4, <2>5 DEF W!monitor, W!TypeOK, FaultInv, RedLasted
<1>3. CASE W!Restart
  <2>1. MaxChanges \in Nat /\ changes' \in 0..MaxChanges
    BY <1>3 DEF W!Restart, W!Change, W!TypeOK, W!WifiParameters
  <2>2. /\ view' = None /\ asked' = 0 /\ down' = None /\ connecting' = None
        /\ weak' = FALSE /\ reported' = None /\ candidate' = None /\ ill' = None
    BY <1>3 DEF W!Restart
  <2>3. card' = card /\ nm' = nm /\ signal' = signal /\ boot' = boot /\ told' = told
    BY <1>3 DEF W!Restart, W!machine
  <2>4. view' \in W!Networks \cup {"unlisted", None} /\ weak' \in BOOLEAN
    BY <2>2
  <2>5. W!TypeOK'
    BY <2>1, <2>2, <2>3, <2>4, AgesHold DEF W!TypeOK
  <2> QED
    BY <2>2, <2>5 DEF FaultInv, RedLasted
<1>4. CASE UNCHANGED W!vars
  BY <1>4 DEF W!vars, W!machine, W!monitor, W!TypeOK, FaultInv
<1> QED
  BY <1>1, <1>2, <1>3, <1>4 DEF W!Next

LEMMA WifiInit == W!WifiParameters /\ W!Init => WifiInv
<1> SUFFICES ASSUME W!WifiParameters, W!Init PROVE WifiInv
  OBVIOUS
<1>1. /\ card \in W!Cards /\ nm \in W!Networks /\ signal \in {"strong", "fair", "poor"}
      /\ told \in BOOLEAN /\ boot \in BOOLEAN /\ weak \in BOOLEAN
      /\ view \in W!Networks \cup {"unlisted", None}
  BY DEF W!Init, W!Cards, W!Networks
<1> QED
  BY <1>1, AgesHold DEF W!Init, WifiInv, W!TypeOK, FaultInv

-----------------------------------------------------------------------------
\* All of it: what each of the four keeps, it keeps beside the others.
FrontInv ==
  /\ scene = "switch" => IInv
  /\ scene = "dim" => D!IInv
  /\ scene = "touch" => T!TouchSound
  /\ scene = "wifi" => WifiInv

LEMMA FrontBegins == FrontInit => FrontInv
<1> SUFFICES ASSUME FrontInit PROVE FrontInv
  OBVIOUS
<1>1. CASE scene = "switch"
  BY <1>1, InitInv DEF FrontInit, FrontInv
<1>2. CASE scene = "dim"
  <2>1. D!Init
    BY <1>2 DEF FrontInit
  <2> QED
    BY <1>2, <2>1, FrontParameters, CoreInit DEF FrontInv, D!IInv
<1>3. CASE scene = "touch"
  BY <1>3, FrontParameters, TouchInit DEF FrontInit, FrontInv
<1>4. CASE scene = "wifi"
  BY <1>4, FrontParameters, WifiInit DEF FrontInit, FrontInv
<1> QED
  BY <1>1, <1>2, <1>3, <1>4 DEF FrontInit

\* A step of one leaves the scene and the variables of the others alone.
LEMMA FrontSteps ==
  ASSUME [FrontNext]_front
  PROVE  /\ scene' = scene
         /\ scene = "switch" => [Next]_vars
         /\ scene = "dim" => [D!Next]_D!vars
         /\ scene = "touch" => [T!Next]_T!touch
         /\ scene = "wifi" => [W!Next]_W!vars
         /\ scene # "wifi" => UNCHANGED W!vars
<1>1. CASE UNCHANGED front
  <2>1. /\ scene' = scene /\ vars' = vars /\ held' = held
        /\ ofD' = ofD /\ ofT' = ofT /\ ofW' = ofW
    BY <1>1 DEF front
  <2>2. UNCHANGED D!vars
    BY <2>1 DEF ofD, D!vars, D!light, D!clock
  <2>3. UNCHANGED T!touch
    BY <2>1 DEF ofT, T!touch, T!driver, T!reports, T!glass, T!count
  <2>4. UNCHANGED W!vars
    BY <2>1 DEF ofW, W!vars, W!machine, W!monitor
  <2> QED
    BY <2>1, <2>2, <2>3, <2>4
<1>2. CASE FrontNext
  BY <1>2 DEF FrontNext, ofW, W!vars, W!machine, W!monitor
<1> QED
  BY <1>1, <1>2

LEMMA FrontKeeps ==
  ASSUME FrontInv, [FrontNext]_front
  PROVE  FrontInv' /\ [RedLasted]_W!vars
<1>1. CASE scene = "switch"
  BY <1>1, FrontSteps, StepKeeps DEF FrontInv
<1>2. CASE scene = "dim"
  BY <1>2, FrontSteps, DimKeeps DEF FrontInv
<1>3. CASE scene = "touch"
  <2>1. T!TouchSound /\ [T!Next]_T!touch
    BY <1>3, FrontSteps DEF FrontInv
  <2> QED
    BY <1>3, <2>1, FrontSteps, FrontParameters, TouchNext DEF FrontInv
<1>4. CASE scene = "wifi"
  <2>1. WifiInv /\ [W!Next]_W!vars
    BY <1>4, FrontSteps DEF FrontInv
  <2> QED
    BY <1>4, <2>1, FrontSteps, FrontParameters, WifiKeeps DEF FrontInv
<1>5. CASE scene \notin {"switch", "dim", "touch", "wifi"}
  BY <1>5, FrontSteps DEF FrontInv
<1> QED
  BY <1>1, <1>2, <1>3, <1>4, <1>5

\* A level nobody chose is always on its way back, whatever interrupts the dimming
\* (idle.rs); suspend, unbinding and recovery give the interrupt back (ft8722_core.c);
\* the Wi-Fi LED turns red only for a fault that every sample has found for as long as
\* it takes, and for none just after boot (wifi.rs, debounce()): for any number of levels,
\* any length of a run of phantom touches, any of the monitor's times.
THEOREM FrontIsSound == FrontSpec => FrontSound
<1>1. FrontInit => FrontInv
  BY FrontBegins
<1>2. FrontInv /\ [FrontNext]_front => FrontInv' /\ [RedLasted]_W!vars
  BY FrontKeeps
<1>3. FrontInv => /\ scene = "dim" => D!DimmingSound
                  /\ scene = "touch" => T!TouchSound
                  /\ scene = "wifi" => W!TypeOK
  BY FrontParameters, CoreIsSound DEF FrontInv, WifiInv
<1> QED
  BY <1>1, <1>2, <1>3, PTL DEF FrontSpec, FrontSound, W!RedHasLasted, RedLasted
=============================================================================
