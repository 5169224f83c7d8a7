-------------------------------- MODULE Folder --------------------------------
(***************************************************************************)
(* The folder pages of the front panel (pages/files/folder.js, actions.js, *)
(* data/files.js): two real folders that are walked between, their cached  *)
(* listings, selection, search, the recycle bin with its undo, and the     *)
(* clipboard.  Files are their names.  Typing searches fnOS's index, as it *)
(* does in the merged home; elsewhere it only filters what is listed.      *)
(***************************************************************************)
EXTENDS Integers, FiniteSets

CONSTANTS
  Here, There,   \* the two folders
  Names,
  Held,          \* what they hold at first: [folder -> names]
  Wanted,        \* the things the person does, at most: calm, or in haste
  MaxTrouble,    \* bound: requests that fail
  None

Places == {Here, There}
FolderAssumption ==
  /\ Here # There /\ Held \in [Places -> SUBSET Names]
  /\ Wanted \in [BOOLEAN -> Nat] /\ MaxTrouble \in Nat
  /\ None \notin Nat
  /\ None \notin [says : {None} \cup SUBSET Names]
  /\ None \notin [op : {"copy", "move"}, names : SUBSET Names, from : Places]

VARIABLES
  hasty,           \* whether the person acts while an answer is out
  disk,            \* fnOS: the names in each folder
  bin,             \* its recycle bin: [place, name]
  tasks,           \* copies and moves: [op, names, from, to, over]
  acts, trouble,
  list, status,    \* listings: the names shown, or None; "idle" or "busy"
  req,             \* the listing's request: None or [says]
  at, shown,       \* the page on top; whether it is shown
  selecting, chosen,
  query, found,    \* 0: nothing typed; whose results are shown, or None
  searchTimer, searches,
  clip,            \* the clipboard: None or [op, names, from]
  sheet,           \* what is asked: None or [what, names, c]; c is the clipboard then
  flows,           \* requests of actions under way: [what, names, place, c, picked, done]
  undo,            \* the toast's undo: None or the trashed: [place, names]
  above, instead   \* the dock's bars: the clipboard bar, the action bar

fnos   == <<disk, bin, tasks>>
cache  == <<list, status, req>>
page   == <<at, shown, selecting, chosen>>
search == <<query, found, searchTimer, searches>>
dock   == <<above, instead>>
state == <<fnos, acts, trouble, cache, page, search, clip, sheet, flows, undo, dock>>
vars == <<hasty, state>>

Init ==
  /\ hasty \in {h \in BOOLEAN : Wanted[h] > 0}
  /\ disk = Held /\ bin = {} /\ tasks = {} /\ acts = 0 /\ trouble = 0
  /\ list = [p \in Places |-> None] /\ status = [p \in Places |-> "idle"]
  /\ req = [p \in Places |-> None]
  /\ at = Here /\ shown = FALSE /\ selecting = FALSE /\ chosen = {}
  /\ query = None /\ found = None /\ searchTimer = FALSE /\ searches = {}
  /\ clip = None /\ sheet = None /\ flows = {} /\ undo = None
  /\ above = FALSE /\ instead = FALSE

-----------------------------------------------------------------------------
(* resource.refresh() of a listing: dropped while one is under way.         *)

refreshAll(ps) ==
  LET free == {p \in ps : status[p] = "idle"}
  IN  /\ status' = [p \in Places |-> IF p \in free THEN "busy" ELSE status[p]]
      /\ req' = [p \in Places |-> IF p \in free THEN [says |-> None] ELSE req[p]]
      /\ UNCHANGED list
refresh == refreshAll({at})

Read(p) ==
  /\ req[p] # None /\ req[p].says = None
  /\ req' = [req EXCEPT ![p].says = disk[p]]
  /\ UNCHANGED <<fnos, acts, trouble, list, status, page, search, clip, sheet, flows, undo, dock>>

Listed(p) ==
  /\ req[p] # None /\ req[p].says # None
  /\ list' = [list EXCEPT ![p] = req[p].says]
  /\ status' = [status EXCEPT ![p] = "idle"] /\ req' = [req EXCEPT ![p] = None]
  /\ UNCHANGED <<fnos, acts, trouble, page, search, clip, sheet, flows, undo, dock>>

ListFails(p) ==
  /\ req[p] # None /\ trouble < MaxTrouble /\ trouble' = trouble + 1
  /\ status' = [status EXCEPT ![p] = "idle"] /\ req' = [req EXCEPT ![p] = None]
  /\ UNCHANGED <<fnos, acts, list, page, search, clip, sheet, flows, undo, dock>>

-----------------------------------------------------------------------------
(* The page.                                                                *)

\* dockBars(): the clipboard bar above the tab bar, the action bar instead of it
bars(c, sel) == above' = (c # None /\ ~sel) /\ instead' = sel
Calm == hasty \/ (flows = {} /\ (\A p \in Places : req[p] = None) /\ tasks = {} /\ searches = {} /\ ~searchTimer)
Act  == shown /\ sheet = None /\ Calm /\ acts < Wanted[hasty] /\ acts' = acts + 1
Page == UNCHANGED <<fnos, trouble, flows, undo>>

show ==
  /\ ~shown /\ shown' = TRUE
  /\ refresh /\ bars(clip, selecting)
  /\ UNCHANGED <<fnos, acts, trouble, at, selecting, chosen, search, clip, sheet, flows, undo>>

\* the page gives way to a new one on the other folder, which shows when it has
\* slid in
Leave ==
  /\ Act /\ ~selecting
  /\ at' = (IF at = Here THEN There ELSE Here)
  /\ shown' = FALSE /\ selecting' = FALSE /\ chosen' = {}
  /\ query' = None /\ found' = None /\ searchTimer' = FALSE /\ searches' = {}
  /\ above' = FALSE /\ instead' = FALSE
  /\ Page /\ UNCHANGED <<cache, clip, sheet>>

Visible == IF list[at] = None THEN {} ELSE list[at]

startSelect ==
  /\ Act /\ ~selecting
  /\ selecting' = TRUE
  /\ chosen' \in {{}} \cup {{n} : n \in Visible}
  /\ bars(clip, TRUE)
  /\ Page /\ UNCHANGED <<cache, at, shown, search, clip, sheet>>

toggle(n) ==
  /\ shown /\ sheet = None /\ selecting /\ Calm /\ n \in Visible \ chosen
  /\ chosen' = chosen \cup {n}
  /\ Page /\ UNCHANGED <<acts, cache, at, shown, selecting, search, clip, sheet, dock>>

\* a mistake: the selection ends without its bar
endWithoutBars(c) ==
  /\ selecting' = FALSE /\ chosen' = {} /\ UNCHANGED dock

endSelect(c) ==
  /\ selecting' = FALSE /\ chosen' = {}
  /\ IF shown THEN bars(c, FALSE) ELSE UNCHANGED dock

selectAll ==
  /\ shown /\ sheet = None /\ selecting /\ Calm
  /\ chosen' = IF Cardinality(chosen) = Cardinality(Visible) THEN {} ELSE chosen \cup Visible
  /\ Page /\ UNCHANGED <<acts, cache, at, shown, selecting, search, clip, sheet, dock>>

\* the sheet's refresh, or its retry
Refresh ==
  /\ Act /\ refresh
  /\ Page /\ UNCHANGED <<page, search, clip, sheet, dock>>

Cancel ==
  /\ shown /\ sheet = None /\ selecting /\ endSelect(clip)
  /\ Page /\ UNCHANGED <<acts, cache, at, shown, search, clip, sheet>>

-----------------------------------------------------------------------------
(* Search, in fnOS's index: 400 ms after the last letter.                   *)

type ==
  /\ Act /\ query' = (IF query = None THEN 1 ELSE query + 1) /\ searchTimer' = TRUE
  /\ Page /\ UNCHANGED <<cache, page, found, searches, clip, sheet, dock>>

searchDue ==
  /\ searchTimer /\ searchTimer' = FALSE
  /\ searches' = searches \cup {query}
  /\ UNCHANGED <<fnos, acts, trouble, cache, page, query, found, clip, sheet, flows, undo, dock>>

\* the results, or none at all when it failed
Found ==
  \E q \in searches :
    /\ searches' = searches \ {q} /\ found' = q
    /\ UNCHANGED <<fnos, acts, trouble, cache, page, query, searchTimer, clip, sheet, flows, undo, dock>>

endSearch ==
  /\ shown /\ sheet = None /\ query # None /\ Calm
  /\ query' = None /\ found' = None
  /\ UNCHANGED <<fnos, acts, trouble, cache, page, searchTimer, searches, clip, sheet, flows, undo, dock>>

-----------------------------------------------------------------------------
(* What is asked, and what is done then.  `sheet` names what the question   *)
(* named, as the listing was when it was put.                               *)

\* c: the clipboard when the paste began
Flow(what, names, c) ==
  [what |-> what, names |-> names, place |-> at, c |-> c, picked |-> selecting, done |-> FALSE]
run(f) == flows' = flows \cup {f}

selectionSheet ==
  /\ Act /\ selecting
  /\ LET picked == chosen \cap Visible
     IN  picked # {} /\ sheet' = [what |-> "selection", names |-> picked, c |-> None]
  /\ Page /\ UNCHANGED <<cache, page, search, clip, dock>>

\* a long press on one item asks the same about that one
itemSheet ==
  /\ Act /\ ~selecting
  /\ \E n \in Visible : sheet' = [what |-> "selection", names |-> {n}, c |-> None]
  /\ Page /\ UNCHANGED <<cache, page, search, clip, dock>>

dismiss ==
  /\ sheet # None /\ sheet' = None
  /\ UNCHANGED <<fnos, acts, trouble, cache, page, search, clip, flows, undo, dock>>

cut ==
  /\ sheet # None /\ sheet.what = "selection" /\ sheet' = None
  /\ \E op \in {"copy", "move"} :
       clip' = [op |-> op, names |-> sheet.names, from |-> at]
  /\ endSelect(clip')
  /\ UNCHANGED <<fnos, acts, trouble, cache, at, shown, search, flows, undo>>

\* to the recycle bin, once the dialog has said yes
trash ==
  /\ sheet # None /\ sheet.what = "selection" /\ sheet' = None
  /\ run(Flow("trash", sheet.names, None))
  /\ UNCHANGED <<fnos, acts, trouble, cache, page, search, clip, undo, dock>>

\* of one item, and a new folder's
rename ==
  /\ sheet # None /\ sheet.what = "selection" /\ Cardinality(sheet.names) = 1 /\ sheet' = None
  /\ disk[at] # Names /\ run(Flow("rename", sheet.names, None))
  /\ UNCHANGED <<fnos, acts, trouble, cache, page, search, clip, undo, dock>>

newFolder ==
  /\ Act /\ ~selecting /\ disk[at] # Names /\ run(Flow("mkdir", {}, None))
  /\ UNCHANGED <<fnos, trouble, cache, page, search, clip, sheet, undo, dock>>

clipClear ==
  /\ Act /\ clip # None /\ clip' = None /\ bars(None, selecting)
  /\ Page /\ UNCHANGED <<cache, page, search, sheet>>

\* the toast's undo
restore ==
  /\ undo # None /\ (hasty \/ (shown /\ sheet = None)) /\ Calm /\ acts < Wanted[hasty] /\ acts' = acts + 1 /\ undo' = None
  /\ run([Flow("restore", undo.names, None) EXCEPT !.place = undo.place])
  /\ UNCHANGED <<fnos, trouble, cache, page, search, clip, sheet, dock>>

pasteBlocked == clip = None \/ (clip.op = "move" /\ clip.from = at)

\* names that are there already are asked about: keep both, skip, replace
paste ==
  /\ Act /\ ~selecting /\ ~pasteBlocked
  /\ LET clashes == clip.names \cap Visible
     IN  IF clashes # {} THEN sheet' = [what |-> "clash", names |-> clashes, c |-> clip] /\ UNCHANGED flows
         ELSE run(Flow("start", {}, clip)) /\ UNCHANGED sheet
  /\ UNCHANGED <<fnos, trouble, cache, page, search, clip, undo, dock>>

\* a mistake: the old ones are thrown away while the task starts
replaceAtOnce ==
  /\ sheet # None /\ sheet.what = "clash" /\ sheet' = None
  /\ flows' = flows \cup {Flow("replace", sheet.names, sheet.c), Flow("start", sheet.names, sheet.c)}
  /\ UNCHANGED <<fnos, acts, trouble, cache, page, search, clip, undo, dock>>

clashAnswered ==
  /\ sheet # None /\ sheet.what = "clash" /\ sheet' = None
  /\ (run(Flow("start", {}, sheet.c)) \/ run(Flow("replace", sheet.names, sheet.c)))
  /\ UNCHANGED <<fnos, acts, trouble, cache, page, search, clip, undo, dock>>

-----------------------------------------------------------------------------
(* fnOS does what was posted.                                               *)

Post(f) ==
  /\ ~f.done
  /\ flows' = (flows \ {f}) \cup {[f EXCEPT !.done = TRUE]}
  /\ CASE f.what \in {"trash", "replace"} ->
            /\ bin' = bin \cup {[place |-> f.place, name |-> n] : n \in f.names \cap disk[f.place]}
            /\ disk' = [disk EXCEPT ![f.place] = @ \ f.names]
            /\ UNCHANGED tasks
       [] f.what = "restore" ->
            LET back == {b \in bin : b.place = f.place /\ b.name \in f.names \ disk[f.place]}
            IN  /\ bin' = bin \ back /\ UNCHANGED tasks
                /\ disk' = [disk EXCEPT ![f.place] = @ \cup {b.name : b \in back}]
       [] f.what = "start" ->
            /\ tasks' = tasks \cup {[op |-> f.c.op, names |-> f.c.names, from |-> f.c.from, to |-> f.place, over |-> FALSE]}
            /\ UNCHANGED <<disk, bin>>
       [] OTHER ->
            /\ \E n \in Names \ disk[f.place] :
                 disk' = [disk EXCEPT ![f.place] = (@ \ f.names) \cup {n}]
            /\ f.names \subseteq disk[f.place] /\ UNCHANGED <<bin, tasks>>
  /\ UNCHANGED <<acts, trouble, cache, page, search, clip, sheet, undo, dock>>

\* a task ends: names that are there already are skipped (kept both, the new one
\* has a name of its own and none of these changes)
TaskEnds(k) ==
  LET taken == (k.names \cap disk[k.from]) \ disk[k.to]
  IN  /\ ~k.over
      /\ tasks' = (tasks \ {k}) \cup {[k EXCEPT !.over = TRUE]}
      /\ disk' = [disk EXCEPT ![k.to] = @ \cup taken,
                              ![k.from] = IF k.op = "move" THEN @ \ taken ELSE @]
      /\ UNCHANGED <<bin, acts, trouble, cache, page, search, clip, sheet, flows, undo, dock>>

\* and a poll tells the page on top (Tasks)
taskEnded(k) ==
  /\ k.over /\ tasks' = tasks \ {k}
  /\ IF k.to = at THEN refresh ELSE UNCHANGED cache
  /\ UNCHANGED <<disk, bin, acts, trouble, page, search, clip, sheet, flows, undo, dock>>

-----------------------------------------------------------------------------
(* The answers.                                                             *)

TrashAnswered(f) ==
  /\ f.done /\ f.what = "trash"
  /\ flows' = flows \ {f}
  /\ undo' = [place |-> f.place, names |-> f.names]
  /\ IF f.picked /\ f.place = at THEN endSelect(clip) ELSE UNCHANGED <<selecting, chosen, dock>>
  /\ refreshAll({f.place})
  /\ UNCHANGED <<fnos, acts, trouble, at, shown, search, clip, sheet>>

RestoreAnswered(f) ==
  /\ f.done /\ f.what = "restore"
  /\ flows' = flows \ {f} /\ refreshAll({f.place})
  /\ UNCHANGED <<fnos, acts, trouble, page, search, clip, sheet, undo, dock>>

NameAnswered(f) ==
  /\ f.done /\ f.what \in {"rename", "mkdir"}
  /\ flows' = flows \ {f} /\ refreshAll({f.place})
  /\ IF f.picked /\ f.place = at THEN endSelect(clip) ELSE UNCHANGED <<selecting, chosen, dock>>
  /\ UNCHANGED <<fnos, acts, trouble, at, shown, search, clip, sheet, undo>>

\* the old ones are in the bin: now the task
ReplaceAnswered(f) ==
  /\ f.done /\ f.what = "replace"
  /\ flows' = (flows \ {f}) \cup {[f EXCEPT !.what = "start", !.done = FALSE]}
  /\ UNCHANGED <<fnos, acts, trouble, cache, page, search, clip, sheet, undo, dock>>

\* what was moved leaves the clipboard
StartAnswered(f) ==
  /\ f.done /\ f.what = "start"
  /\ flows' = flows \ {f}
  /\ clip' = IF f.c.op = "move" THEN None ELSE clip
  /\ IF shown THEN bars(clip', selecting) ELSE UNCHANGED dock
  /\ UNCHANGED <<fnos, acts, trouble, cache, page, search, sheet, undo>>

\* an error, or no answer: it is said, and that is all
PostFails(f) ==
  /\ trouble < MaxTrouble /\ trouble' = trouble + 1
  /\ flows' = flows \ {f}
  /\ UNCHANGED <<fnos, acts, cache, page, search, clip, sheet, undo, dock>>

SomeFlow == \E f \in flows : 
  \/ Post(f) \/ TrashAnswered(f) \/ NameAnswered(f)
  \/ RestoreAnswered(f) \/ ReplaceAnswered(f) \/ StartAnswered(f)

SomeTask == \E k \in tasks : TaskEnds(k) \/ taskEnded(k)

Next == UNCHANGED hasty /\ (
  \/ \E p \in Places : Read(p) \/ Listed(p) \/ ListFails(p)
  \/ show \/ Leave \/ startSelect \/ selectAll \/ Refresh \/ Cancel
  \/ \E n \in Names : toggle(n)
  \/ type \/ searchDue \/ Found \/ endSearch
  \/ selectionSheet \/ itemSheet \/ dismiss \/ cut \/ clipClear
  \/ trash \/ rename \/ newFolder \/ restore \/ paste \/ clashAnswered
  \/ SomeFlow
  \/ \E f \in flows : PostFails(f)
  \/ SomeTask)

Fairness ==
  /\ \A p \in Places : WF_state(Read(p)) /\ WF_state(Listed(p))
  /\ WF_state(show) /\ WF_state(searchDue) /\ WF_state(Found)
  /\ WF_state(SomeFlow) /\ WF_state(\E k \in tasks : TaskEnds(k) \/ taskEnded(k))

Spec == Init /\ [][Next]_vars /\ Fairness

-----------------------------------------------------------------------------
TypeOK ==
  /\ disk \in [Places -> SUBSET Names] /\ at \in Places
  /\ \A p \in Places : status[p] \in {"idle", "busy"} /\ (list[p] # None => list[p] \subseteq Names)
  /\ chosen \subseteq Names
  /\ acts \in 0..Wanted[hasty] /\ trouble \in 0..MaxTrouble

\* The dock shows what the page on top calls for and nothing of a page that has
\* left: the clipboard bar while something is held and nothing is being chosen,
\* the action bar while choosing (dockBars, show, hide).  A listing is being
\* fetched exactly while it says so; results are those of a search that was made.
DockTells ==
  /\ TypeOK
  /\ above <=> shown /\ clip # None /\ ~selecting
  /\ instead <=> shown /\ selecting
  /\ chosen # {} => selecting
  /\ \A p \in Places : status[p] = "busy" <=> req[p] # None
  /\ ~hasty /\ found # None /\ searches = {} => query # None /\ found \in 1..query

\* Replace: when the task starts, the names it clashed with are free; fnOS would
\* skip them otherwise (actions.js: paste).
ReplaceMakesRoom ==
  ~hasty /\ (\E k \in tasks' \ tasks : ~k.over)
    => \A f \in flows : f.what = "start" /\ ~f.done /\ [f EXCEPT !.done = TRUE] \in flows'
         => f.names \cap disk[f.place] = {}

\* What was done here shows: in the end the page on screen lists what its folder
\* holds (its requests failing apart).
Lists == hasty \/ (shown /\ req[at] = None /\ (trouble > 0 \/ list[at] = disk[at]))
ShowsWhatWasDone == <>[]Lists

\* "Put items on the clipboard; they paste in another folder." (actions.js:168)
PastesElsewhere == [][\A k \in tasks' \ tasks : ~k.over => k.to # k.from]_vars
=============================================================================
