----------------------------- MODULE CurveEditor -----------------------------
(***************************************************************************)
(* The fan curve editor of the Control Center page (t6-webd/www/app.js):   *)
(* per zone a working copy of the custom curve that is dragged point by    *)
(* point, Apply, which stores the changed zones one after the other,       *)
(* Revert, and the reading of the configuration.  A curve is the sequence  *)
(* of its points' temperatures: what a point asks for never matters here.  *)
(***************************************************************************)
EXTENDS Integers, FiniteSets, Sequences, SequencesExt

CONSTANTS
  Zones,     \* the zones of the configuration
  MaxTemp,   \* temperatures are 0..MaxTemp
  MaxActs, MaxTrouble,  \* bounds: edits and readings together, requests that fail
  None

CurveAssumption ==
  /\ MaxTemp \in Nat \ {0} /\ {MaxActs, MaxTrouble} \subseteq Nat
  /\ None \notin [Zones -> Seq(0..MaxTemp)]
  /\ None \notin [zone : Zones, points : Seq(0..MaxTemp), done : BOOLEAN, edited : BOOLEAN]

VARIABLES
  stored,    \* t6-fand's configuration: the custom curve of each zone
  config,    \* state.config: the curves as read or stored last; None at first
  fanEdited, \* the working copies
  custom,    \* Custom is the selected profile
  drag,      \* None, or the point under the finger: [zone, i]
  applying,  \* applyAll's zones to go
  put,       \* None, or the PUT of one of them: [zone, points, done, edited]
  loads,     \* loadCurves' requests: [id, says, since], None until read
  edits, trouble, loaded,
  unsure     \* kept for UnsavedStaysDirty alone, with put.edited and a load's since:
             \* the zones of which the page may be wrong about what is stored

vars ==
  <<stored, config, fanEdited, custom, drag, applying, put, loads, edits, trouble, loaded, unsure>>

Temps == 0..MaxTemp
Ascending(c) == \A i, j \in DOMAIN c : i < j => c[i] < c[j]
SmallestCurve == <<0, MaxTemp>>

Init ==
  /\ stored = [z \in Zones |-> SmallestCurve]
  /\ config = None /\ fanEdited = stored
  /\ custom \in BOOLEAN /\ drag = None
  /\ applying = {} /\ put = None
  /\ loads = {} /\ edits = 0 /\ trouble = 0 /\ loaded = 0 /\ unsure = {}

zoneDirty(z) == config # None /\ fanEdited[z] # config[z]
dirtyZones == {z \in Zones : zoneDirty(z)}
anyDirty == dirtyZones # {}

\* The working copy of z is no longer what its PUT, if one is out, has sent.
Under(z) == put # None /\ put.zone = z
Touched(z) ==
  /\ put' = IF Under(z) THEN [put EXCEPT !.edited = TRUE] ELSE put
  /\ unsure' = IF Under(z) /\ put.done THEN unsure \cup {z} ELSE unsure
AsSent == UNCHANGED <<put, unsure>>

(***************************************************************************)
(* loadCurves(): the Fans tab, the refresh button, a change of language.   *)
(***************************************************************************)
loadCurves ==
  /\ edits + loaded < MaxActs /\ loaded' = loaded + 1
  /\ loads' = loads \cup {[id |-> loaded', says |-> None, since |-> {}]}
  /\ UNCHANGED <<stored, config, fanEdited, custom, drag, applying, edits, trouble>> /\ AsSent

Read ==
  \E l \in loads :
    /\ l.says = None
    /\ loads' = (loads \ {l}) \cup {[l EXCEPT !.says = stored]}
    /\ UNCHANGED <<stored, config, fanEdited, custom, drag, applying, edits, trouble, loaded>>
    /\ AsSent

\* every canvas is a new one: a drag on the old one is over
Loaded ==
  \E l \in loads :
    /\ l.says # None /\ loads' = loads \ {l}
    /\ config' = l.says /\ fanEdited' = l.says /\ drag' = None
    /\ put' = IF put = None THEN None
              ELSE [put EXCEPT !.edited = ~put.done \/ put.zone \in l.since]
    /\ unsure' = l.since
    /\ UNCHANGED <<stored, custom, applying, edits, trouble, loaded>>

LoadFails ==
  /\ trouble < MaxTrouble /\ trouble' = trouble + 1
  /\ \E l \in loads : loads' = loads \ {l}
  /\ UNCHANGED <<stored, config, fanEdited, custom, drag, applying, edits, loaded>> /\ AsSent

SelectProfile ==
  /\ drag = None /\ custom' = ~custom
  /\ UNCHANGED <<stored, config, fanEdited, drag, applying, loads, edits, trouble, loaded>>
  /\ AsSent

(***************************************************************************)
(* attachEditing(): a finger goes down on a point or makes one, moves it   *)
(* between its neighbours, and pulls it out over the top edge.             *)
(***************************************************************************)
Edit == edits + loaded < MaxActs /\ edits' = edits + 1
Steady == UNCHANGED <<stored, config, custom, applying, loads, trouble, loaded>>

pointerdown(z) ==
  /\ custom /\ config # None /\ drag = None
  /\ \/ /\ \E i \in DOMAIN fanEdited[z] : drag' = [zone |-> z, i |-> i]
        /\ UNCHANGED <<fanEdited, edits>> /\ AsSent
     \/ \E t \in Temps \ ToSet(fanEdited[z]) :
          LET c == fanEdited[z]
              i == Cardinality({j \in DOMAIN c : c[j] < t}) + 1
          IN  /\ Edit
              /\ fanEdited' = [fanEdited EXCEPT ![z] = InsertAt(c, i, t)] /\ Touched(z)
              /\ drag' = [zone |-> z, i |-> i]
  /\ Steady

\* where clampPoint lets point i go
clampPoint(c, i) ==
  {t \in Temps : (i > 1 => t > c[i - 1]) /\ (i < Len(c) => t < c[i + 1])}

pointermove ==
  /\ drag # None /\ Edit
  /\ \E t \in clampPoint(fanEdited[drag.zone], drag.i) :
       fanEdited' = [fanEdited EXCEPT ![drag.zone][drag.i] = t]
  /\ Touched(drag.zone) /\ UNCHANGED drag /\ Steady

end ==
  /\ drag # None /\ drag' = None
  /\ \/ UNCHANGED fanEdited /\ AsSent
     \/ /\ Len(fanEdited[drag.zone]) > 2
        /\ fanEdited' = [fanEdited EXCEPT ![drag.zone] = RemoveAt(@, drag.i)]
        /\ Touched(drag.zone)
  /\ UNCHANGED edits /\ Steady

(***************************************************************************)
(* The two buttons.  Apply sends one zone after the other, in the order of *)
(* the configuration, whichever that is.                                   *)
(***************************************************************************)
sendNext ==
  IF applying' = {} THEN put' = None
  ELSE \E z \in applying' :
         put' = [zone |-> z, points |-> fanEdited[z], done |-> FALSE, edited |-> FALSE]

applyAll ==
  /\ custom /\ anyDirty /\ applying = {} /\ drag = None
  /\ applying' = dirtyZones /\ sendNext
  /\ UNCHANGED <<stored, config, fanEdited, custom, drag, loads, edits, trouble, loaded, unsure>>

Store ==
  /\ put # None /\ ~put.done
  /\ put' = [put EXCEPT !.done = TRUE]
  /\ stored' = [stored EXCEPT ![put.zone] = put.points]
  /\ unsure' = IF put.edited THEN unsure \cup {put.zone} ELSE unsure
  /\ loads' = {IF l.says = None THEN l ELSE [l EXCEPT !.since = @ \cup {put.zone}] : l \in loads}
  /\ UNCHANGED <<config, fanEdited, custom, drag, applying, edits, trouble, loaded>>

\* an answer tells the page of its zone, unless what it shows is not what it sent
Learned == unsure' = IF put.edited THEN unsure \cup {put.zone} ELSE unsure \ {put.zone}

\* a mistake: every zone counts as stored with the first answer
StoredAtOnce ==
  /\ put # None /\ put.done
  /\ config' = fanEdited
  /\ applying' = applying \ {put.zone} /\ sendNext /\ Learned
  /\ UNCHANGED <<stored, fanEdited, custom, drag, loads, edits, trouble, loaded>>

\* the working copy as it is now counts as stored, and the next zone is sent
Stored ==
  /\ put # None /\ put.done
  /\ config' = [config EXCEPT ![put.zone] = fanEdited[put.zone]]
  /\ applying' = applying \ {put.zone} /\ sendNext /\ Learned
  /\ UNCHANGED <<stored, fanEdited, custom, drag, loads, edits, trouble, loaded>>

\* an error, or no answer, whether the curve was stored or not: the rest is not sent
StoreFails ==
  /\ put # None
  /\ trouble < MaxTrouble /\ trouble' = trouble + 1
  /\ applying' = {} /\ put' = None
  /\ unsure' = IF put.done THEN unsure \cup {put.zone} ELSE unsure
  /\ UNCHANGED <<stored, config, fanEdited, custom, drag, loads, edits, loaded>>

revertAll ==
  /\ custom /\ anyDirty /\ drag = None
  /\ fanEdited' = config
  /\ IF put # None /\ zoneDirty(put.zone) THEN Touched(put.zone) ELSE AsSent
  /\ UNCHANGED <<stored, config, custom, drag, applying, loads, edits, trouble, loaded>>

Next ==
  \/ loadCurves \/ Read \/ Loaded \/ LoadFails \/ SelectProfile
  \/ \E z \in Zones : pointerdown(z)
  \/ pointermove \/ end
  \/ applyAll \/ Store \/ Stored \/ StoreFails \/ revertAll

Spec == Init /\ [][Next]_vars

-----------------------------------------------------------------------------
\* Every curve, the working copy under a finger too, keeps its points in
\* ascending order, no two at a temperature, and at least two of them: what
\* t6-webd accepts and interp() reads (app.js: attachEditing).
CurvesSound ==
  /\ \A z \in Zones :
       /\ Len(fanEdited[z]) >= 2 /\ Ascending(fanEdited[z])
       /\ ToSet(fanEdited[z]) \subseteq Temps
       /\ Ascending(stored[z])
  /\ drag # None => drag.i \in DOMAIN fanEdited[drag.zone]
  /\ put # None <=> applying # {}

\* What t6-fand does not have can be sent: the buttons are "enabled only when
\* there are unsaved edits" (app.js:1328), and an edit that is not stored counts as
\* one at any time, while reads and an Apply are out, in whichever order they are
\* answered, and whatever failed.  Of a zone alone it need not be so, until it is read
\* or applied again: its PUT stored a curve which was changed under the finger, by
\* Revert or by a read before the answer came (the answer makes what is shown by then
\* count as stored, app.js:1409-1410), the answer to a curve that was stored was lost,
\* or a read from before that is answered after it.
UnsavedStaysDirty ==
  \A z \in Zones : fanEdited[z] # stored[z] => zoneDirty(z) \/ z \in unsure
=============================================================================
