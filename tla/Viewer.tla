-------------------------------- MODULE Viewer --------------------------------
(***************************************************************************)
(* The full-screen preview of the files tab: a bar drawn by the panel      *)
(* (pages/files/viewer.js) over a native view of Electron's main process   *)
(* (app/main.js, preview:open and preview:close), which lies above         *)
(* everything the panel draws.  The two only talk by messages.             *)
(***************************************************************************)
EXTENDS Integers, FiniteSets, Sequences

CONSTANTS
  Items,         \* the files of the folder
  MaxViewers,    \* bound: viewers opened
  MaxSheets,     \* bound: sheets asked for
  MaxTrouble,    \* bound: requests that fail
  Hasty,         \* whether somebody taps while an earlier tap is still under way
  None

ViewerAssumption ==
  /\ {MaxViewers, MaxSheets, MaxTrouble} \subseteq Nat /\ Hasty \in BOOLEAN
  /\ None \notin Nat \cup [n : Nat, item : Items]

VARIABLES
  current,       \* the viewer that is up: [n, item], or None
  viewers,       \* viewers opened so far
  over,          \* the sheet or question over it: the number of its flow, or None
  sheets,        \* flows started so far
  flows,         \* handlers of the bar that wait: [id, v, at]: v the viewer they were tapped in
  frame,         \* the animation frame that opens the first preview: viewers that wait for it
  ipc,           \* messages to the main process, in order: [op, item]
  visible, page, \* the native view; the file loaded in it, or None (about:blank)
  cookies,       \* preview:open handlers that fetch the cookie: [k, item]
  served,        \* messages handled so far
  missed         \* requests that failed

bar    == <<current, viewers, over, sheets, flows, frame>>
native == <<visible, page, cookies, served>>
vars == <<bar, ipc, native, missed>>

Init ==
  /\ current = None /\ viewers = 0 /\ over = None /\ sheets = 0 /\ flows = {} /\ frame = {}
  /\ ipc = <<>> /\ visible = FALSE /\ page = None /\ cookies = {} /\ served = 0 /\ missed = 0

Under == frame # {} \/ ipc # <<>> \/ cookies # {} \/ flows # {}
Free == Hasty \/ ~Under
Open(item) == [op |-> "open", item |-> item]
Close == [op |-> "close", item |-> None]

-----------------------------------------------------------------------------
(* The bar.                                                                 *)

\* closeViewer: whichever viewer is up
closed == current' = None

\* a file of the list, or the same one again
openViewer ==
  /\ Free /\ current = None /\ over = None /\ viewers < MaxViewers
  /\ viewers' = viewers + 1
  /\ \E item \in Items : current' = [n |-> viewers + 1, item |-> item]
  /\ frame' = frame \cup {current'}
  /\ UNCHANGED <<over, sheets, flows, ipc, native, missed>>

\* the first frame of the viewer: its stage has a place now
Frame ==
  \E v \in frame :
    /\ frame' = frame \ {v} /\ ipc' = Append(ipc, Open(v.item))
    /\ UNCHANGED <<current, viewers, over, sheets, flows, native, missed>>

\* its back link, or Back with nothing over it
closeViewer ==
  /\ Free /\ current # None /\ over = None
  /\ closed /\ ipc' = Append(ipc, Close)
  /\ UNCHANGED <<viewers, over, sheets, flows, frame, native, missed>>

\* Home, signing out: all layers go, the top one first; what waits for a sheet goes on
dismissAll ==
  /\ Hasty \/ (frame = {} /\ ipc = <<>> /\ cookies = {} /\ \A f \in flows : f.id = over)
  /\ current # None
  /\ closed /\ over' = None /\ ipc' = Append(ipc, Close)
  /\ flows' = {IF f.id = over THEN [f EXCEPT !.at = "done"] ELSE f : f \in flows}
  /\ UNCHANGED <<viewers, sheets, frame, native, missed>>

\* its two buttons: the preview makes room, and a sheet comes up
ask ==
  /\ Free /\ current # None /\ over = None /\ sheets < MaxSheets
  /\ ipc' = Append(ipc, Close)
  /\ sheets' = sheets + 1 /\ over' = sheets + 1
  /\ \E at \in {"info", "more"} : flows' = flows \cup {[id |-> sheets + 1, v |-> current, at |-> at]}
  /\ UNCHANGED <<current, viewers, frame, native, missed>>

\* the sheet is answered: closed or a favourite, cut or copied, or renamed or put in
\* the bin, each of which asks once more
answer ==
  \E f \in flows :
    /\ f.id = over
    /\ \E at \in CASE f.at = "info"  -> {"done"}
                  [] f.at = "more"  -> {"done", "cut", "asked"}
                  [] f.at = "asked" -> {"done", "posting"} :
         /\ flows' = (flows \ {f}) \cup {[f EXCEPT !.at = at]}
         /\ over' = IF at = "asked" THEN over ELSE None
    /\ UNCHANGED <<current, viewers, sheets, frame, ipc, native, missed>>

\* the handler goes on: the preview comes back, when it is still this viewer's
reopen ==
  \E f \in flows :
    /\ f.at = "done"
    /\ flows' = flows \ {f}
    /\ ipc' = IF current = f.v THEN Append(ipc, Open(f.v.item)) ELSE ipc
    /\ UNCHANGED <<current, viewers, over, sheets, frame, native, missed>>

\* what was cut, renamed or put in the bin closes the viewer: the one that is up now.
\* What failed does not.
gone ==
  \E f \in flows :
    /\ f.at \in {"cut", "posting"}
    /\ \/ /\ flows' = flows \ {f} /\ closed
          /\ ipc' = (IF current = None THEN ipc ELSE Append(ipc, Close)) /\ UNCHANGED missed
       \/ /\ f.at = "posting" /\ missed < MaxTrouble /\ missed' = missed + 1
          /\ flows' = (flows \ {f}) \cup {[f EXCEPT !.at = "done"]} /\ UNCHANGED <<current, ipc>>
    /\ UNCHANGED <<viewers, over, sheets, frame, native>>

-----------------------------------------------------------------------------
(* The main process.                                                        *)

previewOpen ==
  /\ ipc # <<>> /\ Head(ipc).op = "open" /\ ipc' = Tail(ipc)
  /\ visible' = TRUE /\ served' = served + 1
  /\ cookies' = cookies \cup {[k |-> served + 1, item |-> Head(ipc).item]}
  /\ UNCHANGED <<bar, page, missed>>

\* ensurePreviewCookie is back, or gave up: either way the page is loaded
loaded ==
  \E c \in cookies :
    /\ cookies' = cookies \ {c} /\ page' = c.item
    /\ UNCHANGED <<bar, ipc, visible, served, missed>>

previewClose ==
  /\ ipc # <<>> /\ Head(ipc).op = "close" /\ ipc' = Tail(ipc)
  /\ visible' = FALSE /\ page' = None
  /\ UNCHANGED <<bar, cookies, served, missed>>

Next ==
  \/ openViewer \/ Frame \/ closeViewer \/ dismissAll
  \/ ask \/ answer \/ reopen \/ gone
  \/ previewOpen \/ loaded \/ previewClose

-----------------------------------------------------------------------------
TypeOK ==
  /\ current = None \/ (current.n \in 1..MaxViewers /\ current.item \in Items)
  /\ page \in Items \cup {None} /\ visible \in BOOLEAN
  /\ viewers \in 0..MaxViewers /\ sheets \in 0..MaxSheets

\* The native view is over the page exactly while a viewer is up with nothing over
\* it, and shows that viewer's file; hidden, it keeps no page ("release the loaded
\* page", main.js): once nothing is under way.
PreviewTruthful ==
  /\ TypeOK
  /\ ~Under \/ (over # None /\ ipc = <<>> /\ cookies = {} /\ frame = {}) =>
       /\ visible <=> current # None /\ over = None
       /\ page = IF visible THEN current.item ELSE None

\* "release the loaded page" (main.js:133): a view that was closed holds none, once
\* its messages were handled
ClosedIsReleased == ~visible /\ ipc = <<>> /\ cookies = {} => page = None
=============================================================================
