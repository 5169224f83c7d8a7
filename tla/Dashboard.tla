------------------------------ MODULE Dashboard ------------------------------
(***************************************************************************)
(* The Control Center page of t6-webd (www/app.js): the loop that reads    *)
(* /api/status every second, the banner it raises, and one of the cards    *)
(* that show a setting and change it while the answers keep coming:        *)
(*   "profile"    the fan profile: a click is shown at once and held until *)
(*                the daemon reports it;                                   *)
(*   "limits"     the charge limits: staged, and sent with Apply;          *)
(*   "night"      the night schedule of the LEDs: edited in fields, sent   *)
(*                with Apply;                                              *)
(*   "chips"      tray light, LED modes, bay LEDs: sent at once, painted   *)
(*                over by every answer;                                    *)
(*   "checkbox"   the same, left alone while it has the focus;             *)
(*   "brightness" a slider, live while it is dragged.                      *)
(* The administrator is at the page. Values are numbers.                   *)
(***************************************************************************)
EXTENDS Integers, Sequences

CONSTANTS
  Cards, Shared,      \* the cards; those whose setting may change elsewhere too
  Values, Presets,    \* what the setting may be; those with a button of their own
  MaxEdits, MaxOthers, MaxTrouble,  \* bounds: edits here, changes elsewhere, failures
  None

DashboardAssumption ==
  /\ Cards \subseteq {"profile", "limits", "night", "chips", "checkbox", "brightness"}
  /\ Shared \subseteq Cards /\ Presets \subseteq Values /\ None \notin Values
  /\ None \notin [says : {None} \cup [v : Values, fand : BOOLEAN]]
  /\ {MaxEdits, MaxOthers, MaxTrouble} \subseteq Nat

VARIABLES
  card,
  srv, fand,         \* the device: the setting, whether t6-fand runs
  edits, others, trouble,
  req, pollTimer,    \* the status request: None or [says]; the next one is due
  last,              \* the last answer, or None
  pollFails, banner, connErrorActive,
  worded,            \* "fandDown" stands there in the language the page is in now
  puts,              \* changes on their way, in the order they were sent
  base,              \* the device's setting as the card knows it
  draft,             \* the setting the card shows
  mode,              \* limits: "preset" or "custom"
  dirty,             \* night: edited; checkbox: focused; brightness: dragged
  pending,           \* pendingProfile
  blTimer,           \* a live brightness is due
  \* kept for the properties alone, with the kept of a put:
  renamed,           \* the language was changed while "fandDown" stood there
  abandoned          \* night: an answer to Apply came when what it had sent was no longer
                     \* what is edited

device == <<srv, fand>>
count  == <<edits, others, trouble>>
loop   == <<req, pollTimer, last, pollFails>>
notices == <<banner, connErrorActive, worded, renamed>>
form   == <<base, draft, mode, dirty, pending>>
vars == <<card, device, count, loop, notices, puts, form, blTimer, abandoned>>

Init ==
  /\ card \in Cards /\ srv \in Values /\ fand \in BOOLEAN
  /\ edits = 0 /\ others = 0 /\ trouble = 0
  /\ req = None /\ pollTimer = TRUE /\ last = None
  /\ pollFails = 0 /\ banner = "none" /\ connErrorActive = FALSE
  /\ worded = TRUE /\ renamed = FALSE /\ abandoned = FALSE
  /\ puts = <<>>
  /\ base = None /\ draft = None /\ mode = "preset" /\ dirty = FALSE
  /\ pending = None /\ blTimer = FALSE

-----------------------------------------------------------------------------
(* What an answer does to the card.                                         *)

renderProfiles(v) ==
  /\ pending' = IF v = pending THEN None ELSE pending
  /\ draft' = IF pending = None THEN v ELSE pending
  /\ UNCHANGED <<mode, dirty>>

\* preset mode and nothing staged that differs from what the device holds
renderBattery(v) ==
  /\ draft' = IF mode = "preset" /\ draft \in {None, v} THEN v ELSE draft
  /\ UNCHANGED <<mode, dirty, pending>>

renderEdited(v) ==
  /\ draft' = IF dirty THEN draft ELSE v
  /\ UNCHANGED <<mode, dirty, pending>>

renderAll(v) ==
  /\ base' = v
  /\ CASE card = "profile" -> renderProfiles(v)
       [] card = "limits"  -> renderBattery(v)
       [] OTHER            -> renderEdited(v)

\* notice(): every other message takes the place of "reconnecting"
says(b)   == banner' = b /\ worded' = TRUE /\ renamed' = FALSE
notice(b) == says(b) /\ connErrorActive' = FALSE
setConnError == says("conn") /\ connErrorActive' = TRUE

(***************************************************************************)
(* The loop.                                                               *)
(***************************************************************************)
pollLoop ==
  /\ req = None
  /\ req' = [says |-> None] /\ pollTimer' = FALSE
  /\ UNCHANGED <<card, device, count, last, pollFails, notices, puts, form, blTimer, abandoned>>

Read ==
  /\ req # None /\ req.says = None
  /\ req' = [says |-> [v |-> srv, fand |-> fand]]
  /\ UNCHANGED <<card, device, count, pollTimer, last, pollFails, notices, puts, form, blTimer>>
  /\ UNCHANGED abandoned

\* a mistake: an answer that comes after misses leaves the banner up
clearedNotForgotten(s) ==
  IF ~s.fand THEN notice("fandDown")
  ELSE IF connErrorActive THEN says("none") /\ UNCHANGED connErrorActive
  ELSE UNCHANGED notices

\* clearConnError, then renderZones' and refresh's words about t6-fand, which are known
\* again by their text, and so only in the language they were put in
answeredNotice(s) ==
  IF ~s.fand THEN notice("fandDown")
  ELSE IF connErrorActive \/ (banner = "fandDown" /\ worded) THEN notice("none")
  ELSE UNCHANGED notices

Answered ==
  /\ req # None /\ req.says # None
  /\ req' = None /\ pollTimer' = TRUE
  /\ last' = req.says /\ pollFails' = 0
  /\ answeredNotice(req.says)
  /\ renderAll(req.says.v)
  /\ UNCHANGED <<card, device, count, puts, blTimer, abandoned>>

\* a mistake: a poll that fails does not set the timer again
MissedForGood ==
  /\ req # None /\ trouble < MaxTrouble /\ trouble' = trouble + 1
  /\ req' = None
  /\ pollFails' = pollFails + 1 /\ UNCHANGED <<notices, pollTimer>>
  /\ UNCHANGED <<card, device, edits, others, last, puts, form, blTimer, abandoned>>

Missed ==
  /\ req # None /\ trouble < MaxTrouble /\ trouble' = trouble + 1
  /\ req' = None /\ pollTimer' = TRUE
  /\ pollFails' = pollFails + 1
  /\ IF pollFails' >= 3 THEN setConnError ELSE UNCHANGED notices
  /\ UNCHANGED <<card, device, edits, others, last, puts, form, blTimer, abandoned>>

\* the host changes the language, to the other of the two: the last answer is painted
\* again, the banner stays as it was worded
applyPreferences ==
  /\ IF last # None THEN renderAll(last.v) ELSE UNCHANGED form
  /\ IF banner = "fandDown" THEN worded' = ~worded /\ renamed' = TRUE
     ELSE UNCHANGED <<worded, renamed>>
  /\ UNCHANGED <<card, device, count, loop, banner, connErrorActive, puts, blTimer, abandoned>>

(***************************************************************************)
(* What the person does.                                                   *)
(***************************************************************************)
CanEdit == base # None /\ edits < MaxEdits
Edit    == CanEdit /\ edits' = edits + 1 /\ UNCHANGED <<card, device, others, trouble, loop>>
send(v) == puts' = Append(puts, [v |-> v, done |-> FALSE, kept |-> TRUE])
\* the fields of the night schedule are no longer what an Apply that is out has sent
Retyped ==
  /\ puts' = [i \in DOMAIN puts |-> [puts[i] EXCEPT !.kept = FALSE]] /\ abandoned' = FALSE

clickProfile(v) ==
  /\ card = "profile" /\ Edit /\ last.fand /\ v # draft
  /\ pending' = v /\ draft' = v /\ send(v)
  /\ UNCHANGED <<notices, base, mode, dirty, blTimer, abandoned>>

pickPreset(v) ==
  /\ card = "limits" /\ Edit
  /\ mode' = "preset" /\ draft' = v
  /\ UNCHANGED <<notices, puts, base, dirty, pending, blTimer, abandoned>>

pickCustom ==
  /\ card = "limits" /\ Edit /\ mode # "custom"
  /\ mode' = "custom"
  /\ UNCHANGED <<notices, puts, base, draft, dirty, pending, blTimer, abandoned>>

\* the sliders are there in custom mode and where no button says the limits
stageFromSliders(v) ==
  /\ card = "limits" /\ Edit
  /\ mode = "custom" \/ draft \notin Presets
  /\ draft' = v
  /\ UNCHANGED <<notices, puts, base, mode, dirty, pending, blTimer, abandoned>>

editNight(v) ==
  /\ card = "night" /\ Edit
  /\ draft' = v /\ dirty' = TRUE /\ Retyped
  /\ UNCHANGED <<notices, base, mode, pending, blTimer>>

\* Apply is there only while what is staged differs from the device's
apply ==
  /\ card \in {"limits", "night"} /\ Edit /\ draft # base
  /\ send(draft)
  /\ UNCHANGED <<notices, form, blTimer, abandoned>>

revert ==
  /\ card \in {"limits", "night"} /\ Edit
  /\ draft # base \/ mode = "custom"
  /\ draft' = base /\ mode' = "preset" /\ dirty' = FALSE
  /\ IF card = "night" THEN Retyped ELSE UNCHANGED <<puts, abandoned>>
  /\ UNCHANGED <<notices, base, pending, blTimer>>

press(v) ==
  /\ card \in {"chips", "checkbox"} /\ Edit /\ v # draft
  /\ draft' = v /\ dirty' = (card = "checkbox") /\ send(v)
  /\ UNCHANGED <<notices, base, mode, pending, blTimer, abandoned>>

blur ==
  /\ card = "checkbox" /\ dirty /\ dirty' = FALSE
  /\ UNCHANGED <<card, device, count, loop, notices, puts, base, draft, mode, pending, blTimer, abandoned>>

drag(v) ==
  /\ card = "brightness" /\ Edit
  /\ draft' = v /\ dirty' = TRUE /\ blTimer' = TRUE
  /\ UNCHANGED <<notices, puts, base, mode, pending, abandoned>>

release ==
  /\ card = "brightness" /\ dirty /\ dirty' = FALSE /\ send(draft)
  /\ UNCHANGED <<card, device, count, loop, notices, base, draft, mode, pending, blTimer, abandoned>>

\* 150 ms after the first move: what the slider shows by then
sendLive ==
  /\ blTimer /\ blTimer' = FALSE /\ send(draft)
  /\ UNCHANGED <<card, device, count, loop, notices, form, abandoned>>

(***************************************************************************)
(* What becomes of a change: stored in order; answered; or lost, before or *)
(* after it was stored.                                                    *)
(***************************************************************************)
store ==
  \E i \in DOMAIN puts :
    /\ ~puts[i].done /\ \A j \in 1..(i - 1) : puts[j].done
    /\ puts' = [puts EXCEPT ![i].done = TRUE] /\ srv' = puts[i].v
    /\ UNCHANGED <<card, fand, count, loop, notices, form, blTimer, abandoned>>

putAnswered ==
  /\ puts # <<>> /\ puts[1].done
  /\ puts' = Tail(puts)
  /\ base' = IF card \in {"limits", "night"} THEN puts[1].v ELSE base
  /\ mode' = IF card = "limits" THEN IF puts[1].v \in Presets THEN "preset" ELSE "custom" ELSE mode
  /\ dirty' = (dirty /\ card # "night")
  /\ abandoned' = (abandoned \/ (card = "night" /\ ~(dirty /\ puts[1].kept)))
  /\ IF card \in {"profile", "night", "chips"} THEN notice("none") ELSE UNCHANGED notices
  /\ UNCHANGED <<card, device, count, loop, draft, pending, blTimer>>

putFails ==
  /\ puts # <<>> /\ trouble < MaxTrouble /\ trouble' = trouble + 1
  /\ puts' = Tail(puts)
  /\ pending' = None
  /\ notice("error")
  /\ UNCHANGED <<card, device, edits, others, loop, base, draft, mode, dirty, blTimer, abandoned>>

(***************************************************************************)
(* Others.                                                                 *)
(***************************************************************************)
ElsewhereChanged ==
  /\ card \in Shared /\ others < MaxOthers /\ others' = others + 1
  /\ \/ srv' \in Values \ {srv} /\ UNCHANGED fand
     \/ fand' = ~fand /\ UNCHANGED srv
  /\ UNCHANGED <<card, edits, trouble, loop, notices, puts, form, blTimer, abandoned>>

Next ==
  \/ pollLoop \/ Read \/ Answered \/ Missed \/ applyPreferences
  \/ \E v \in Values : clickProfile(v) \/ stageFromSliders(v) \/ editNight(v) \/ press(v) \/ drag(v)
  \/ \E v \in Presets : pickPreset(v)
  \/ pickCustom \/ apply \/ revert \/ blur \/ release \/ sendLive
  \/ store \/ putAnswered \/ putFails
  \/ ElsewhereChanged

\* the timers fire, the backend answers, a drag ends
Fairness ==
  /\ WF_vars(pollTimer /\ pollLoop) /\ WF_vars(Read) /\ SF_vars(Answered)
  /\ WF_vars(store) /\ WF_vars(putAnswered) /\ WF_vars(release) /\ WF_vars(sendLive)

Spec == Init /\ [][Next]_vars /\ Fairness

-----------------------------------------------------------------------------
TypeOK ==
  /\ card \in Cards /\ srv \in Values /\ fand \in BOOLEAN
  /\ edits \in 0..MaxEdits /\ others \in 0..MaxOthers /\ trouble \in 0..MaxTrouble
  /\ banner \in {"none", "conn", "fandDown", "error"}
  /\ {pollTimer, connErrorActive, worded, dirty, blTimer, renamed, abandoned} \subseteq BOOLEAN
  /\ {base, draft, pending} \subseteq Values \cup {None}
  /\ mode \in {"preset", "custom"}
  /\ pollFails \in Nat

\* The banner never says what is not so: "reconnecting" stands only after three
\* misses in a row, and only as long as a later answer can find it and take it
\* down (connErrorActive); t6-fand is called down only when the last answer says
\* so, or the language was changed while the banner stood, as an answer then does not know
\* its own words again (app.js:522); one status request at a time, with the next one due in between; and a
\* profile held against the answers is the one shown (app.js: notice, refresh,
\* pollLoop, renderProfiles).
FormSound ==
  /\ TypeOK
  /\ connErrorActive <=> banner = "conn"
  /\ banner = "conn" => pollFails >= 3
  /\ banner = "fandDown" => ~last.fand \/ renamed
  /\ pollTimer <=> req = None
  /\ pending # None => draft = pending

\* What was staged and not applied stays as it was, whatever the answers say,
\* until the person changes it or gives it up; but for a night schedule that was edited, or
\* applied again, while an Apply was out, whose answer ends the editing (app.js:1084-1086).
EditsSurvive ==
  (card \in {"limits", "night"} /\ base # None /\ draft # base /\ draft' # draft)
    => edits' # edits \/ abandoned

\* The page catches up: in the end the card knows what the device holds, and
\* shows it, but for an edit not applied, a checkbox in focus, and the two controls that a
\* change made elsewhere can leave behind (limits, and a profile that is waited for).
CaughtUp ==
  /\ base = srv
  /\ \/ card = "limits" /\ (mode = "custom" \/ edits > 0 \/ others > 0)
     \/ dirty
     \/ pending # None /\ others > 0
     \/ draft = srv
InTheEnd == <>[]CaughtUp

\* The charge limits in preset mode with nothing staged: "preset mode, no pending
\* edit: reflect what the device currently holds" (app.js:673).
ReflectsDevice ==
  [][card = "limits" /\ mode = "preset" /\ draft = base => (base' # base => draft' = base')]_vars

\* The slider: "Live while dragging (rate limited), final value on release"
\* (app.js:816): nothing goes out between a release and the next drag but it.
FinalOnRelease ==
  [][(blTimer /\ ~blTimer' /\ ~dirty /\ puts # <<>>)
       => puts'[Len(puts')].v = puts[Len(puts)].v]_vars
=============================================================================
