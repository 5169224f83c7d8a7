------------------------------- MODULE Router -------------------------------
(***************************************************************************)
(* The front panel's navigation: the tabs, the pages stacked under each,   *)
(* the title slips of the files tab (src/panel/www/js/shell/router.js) and *)
(* the edge swipe that goes back by hand (shell/swipe.js).                 *)
(*                                                                         *)
(* JavaScript runs one handler at a time, so an action is one handler up   *)
(* to its first await that really waits: a slide's animation, a timer, a   *)
(* module still loading, a finger still down.  An await of work that is    *)
(* already done continues in the same turn.                                *)
(*                                                                         *)
(* A page is "shown" from show() to hide(), and "running" while its own    *)
(* show() has been called and its own hide() has not: that is when it      *)
(* polls.  A page whose module still loads is a placeholder with neither.  *)
(***************************************************************************)
EXTENDS Integers, Sequences, FiniteSets, SequencesExt

CONSTANTS
  Tabs,      \* the tabs, in the order of the tab bar: a sequence
  Files,     \* the tab whose stacks are title slips
  Slips,     \* ids for the slips opened next to the first one
  MaxSlips,  \* MAX_SLIP_TABS
  Pages,     \* the pages that can exist at once: 1 .. n
  MaxDepth,  \* bound: pages on one stack
  MidSlide,  \* whether a tap, a key or the sign-out may come while pages move
  None

Tab == ToSet(Tabs)

RouterAssumption ==
  /\ Files \in Tab
  /\ MaxSlips \in Nat \ {0}
  /\ MaxDepth \in Nat \ {0}
  /\ MidSlide \in BOOLEAN
  /\ Slips \cap Tab = {}
  /\ Pages \subseteq Nat /\ IsFiniteSet(Pages)
  /\ None \notin Tab

VARIABLES
  nav,      \* current tab, the books of slips and the stacks of pages
  pages,    \* which pages are shown, running, mounted, dead, and on top
  pending,  \* pendingTab: a tab tapped while busy
  slide,    \* the animation an operation waits for
  drag,     \* the edge swipe under way
  closing   \* slips closed whose stack leaves when its timer fires

vars == <<nav, pages, pending, slide, drag, closing>>

Still   == [kind |-> "none", top |-> None, under |-> None, next |-> "none"]
NoDrag  == [phase |-> "none", top |-> None, under |-> None]
busy    == slide.kind # "none"
Moving  == busy \/ drag.phase # "none"

StackOf(n, t)  == n.stacks[n.books[t].cur]
TopOf(n)       == Last(StackOf(n, n.tab))
depth          == Len(StackOf(nav, nav.tab))
InStacks(n)    == UNION {ToSet(n.stacks[s]) : s \in DOMAIN n.stacks}

(***************************************************************************)
(* One page: create, show, hide, destroy.  g is the record of page flags.  *)
(***************************************************************************)
Create(g, p, loaded) ==
  [g EXCEPT !.dead = @ \ {p},
            !.mounted = IF loaded THEN @ \cup {p} ELSE @ \ {p}]

show(g, p) == [g EXCEPT !.shown = @ \cup {p},
                        !.running = IF p \in g.mounted THEN @ \cup {p} ELSE @]

hide(g, p) == [g EXCEPT !.shown = @ \ {p}, !.running = @ \ {p}]

destroy(g, ps) == [g EXCEPT !.dead = @ \cup ps]

setTop(g, p) == [g EXCEPT !.top = p]

\* dropStack: each of its pages is hidden if it is shown, then destroyed
dropStack(g, n, s) ==
  LET ps == IF s \in DOMAIN n.stacks THEN ToSet(n.stacks[s]) ELSE {}
  IN  destroy([g EXCEPT !.shown = @ \ ps, !.running = @ \ (ps \cap g.shown)], ps)

Without(f, ss) == [s \in DOMAIN f \ ss |-> f[s]]

\* pages nothing refers to any more are forgotten, unless they still run
Tidy(g, n, sl, dr) ==
  LET held == InStacks(n) \cup {sl.top, sl.under, dr.top, dr.under} \cup g.running
  IN  [g EXCEPT !.dead = @ \cap held, !.mounted = @ \cap held,
                !.shown = @ \cap held]

Free == Pages \ (InStacks(nav) \cup {slide.top, slide.under, drag.top, drag.under}
                 \cup pages.running)

(***************************************************************************)
(* What the operations build on.  A value is a triple <<nav, pages, slide>>*)
(* so that one operation can go on with the result of another.             *)
(***************************************************************************)
Now == <<nav, pages, slide>>

ensureRoot(w, t, fresh, loaded) ==
  LET n == w[1]
      s == n.books[t].cur
  IN  IF s \in DOMAIN n.stacks THEN w
      ELSE <<[n EXCEPT !.stacks = [x \in DOMAIN @ \cup {s} |->
                                     IF x = s THEN <<fresh>> ELSE @[x]]],
             Create(w[2], fresh, loaded), w[3]>>

\* back: the top page leaves the stack at once and slides out
back(w, next) ==
  LET n == w[1]
      s == n.books[n.tab].cur
      st == n.stacks[s]
  IN  IF w[3].kind # "none" \/ Len(st) < 2 THEN w
      ELSE <<[n EXCEPT !.stacks[s] = Front(st)],
             hide(w[2], Last(st)),
             [kind |-> "back", top |-> Last(st), under |-> st[Len(st) - 1],
              next |-> next]>>

\* the pages above `level` go, the top one last and with a slide
backTo(w, level, next) ==
  LET n == w[1]
      s == n.books[n.tab].cur
      st == n.stacks[s]
      mid == IF Len(st) > level + 1
             THEN {st[i] : i \in (level + 1) .. (Len(st) - 1)} ELSE {}
      w1 == <<[n EXCEPT !.stacks[s] = Append(SubSeq(st, 1, level), Last(st))],
              destroy(w[2], mid), w[3]>>
  IN  IF Len(st) <= level THEN w ELSE back(w1, next)

popToRoot(w, next) == backTo(w, 1, next)

push(w, fresh, loaded) ==
  LET n == w[1]
      s == n.books[n.tab].cur
      under == Last(n.stacks[s])
  IN  IF w[3].kind # "none" THEN w
      ELSE <<[n EXCEPT !.stacks[s] = Append(@, fresh)],
             setTop(hide(Create(w[2], fresh, loaded), under), fresh),
             [kind |-> "push", top |-> fresh, under |-> under, next |-> "none"]>>

\* switch to tab t, which is not the current one, while nothing slides
switchTab(w, t, fresh, loaded) ==
  LET old == TopOf(w[1])
      w1 == ensureRoot(w, t, fresh, loaded)
      n == [w1[1] EXCEPT !.tab = t]
  IN  <<n, show(setTop(hide(w1[2], old), TopOf(n)), TopOf(n)), w1[3]>>

\* go, while nothing slides: the tab you are on goes back to its first page
go(w, t, fresh, loaded, next) ==
  IF t = w[1].tab THEN popToRoot(w, next) ELSE switchTab(w, t, fresh, loaded)

switchSlip(w, s, fresh, loaded) ==
  LET n == w[1]
      t == n.tab
      w1 == ensureRoot(<<[n EXCEPT !.books[t].cur = s], w[2], w[3]>>,
                       t, fresh, loaded)
      old == TopOf(n)
      new == TopOf(w1[1])
  IN  IF s = n.books[t].cur THEN w
      ELSE <<w1[1], show(setTop(hide(w1[2], old), new), new), w1[3]>>

\* take over the triple an operation came to
Become(w, dr) ==
  /\ nav' = w[1]
  /\ slide' = w[3]
  /\ pages' = Tidy(w[2], w[1], w[3], dr)
  /\ drag' = dr

Calm == MidSlide \/ drag.phase = "none"

(***************************************************************************)
(* The operations.                                                         *)
(***************************************************************************)
Init ==
  \E r \in Pages, loaded \in BOOLEAN :
    /\ r = 1
    /\ nav = [tab |-> Head(Tabs),
              books |-> [t \in Tab |-> [ids |-> <<t>>, cur |-> t]],
              stacks |-> [s \in {Head(Tabs)} |-> <<r>>]]
    /\ pages = [shown |-> {r}, running |-> IF loaded THEN {r} ELSE {},
                mounted |-> IF loaded THEN {r} ELSE {}, dead |-> {}, top |-> r]
    /\ pending = None
    /\ slide = Still
    /\ drag = NoDrag
    /\ closing = {}

\* the smallest page not in use, and one more
Least(ps) == CHOOSE p \in ps : \A q \in ps : p <= q
Fresh == Least(Free)
Second == Least(Free \ {Fresh})

\* bound: nothing opens a page unless what follows from it finds one too
Room == Cardinality(Free) > 3

\* a tab tapped on the bar; while pages slide it waits for them
TapTab(t) ==
  /\ Calm
  /\ UNCHANGED closing
  /\ IF busy
     THEN /\ pending' = t
          /\ UNCHANGED <<nav, pages, slide, drag>>
     ELSE /\ UNCHANGED pending
          /\ Room \/ nav.books[t].cur \in DOMAIN nav.stacks
          /\ \E loaded \in BOOLEAN : Become(go(Now, t, Fresh, loaded, "none"), drag)

\* the remote's Home key: the tab after the pending or the current one
nextTab ==
  LET at == IF pending = None THEN nav.tab ELSE pending
      i == CHOOSE k \in DOMAIN Tabs : Tabs[k] = at
  IN  TapTab(Tabs[(i % Len(Tabs)) + 1])

\* a row opens a page one level down
Push ==
  /\ Calm
  /\ ~busy
  /\ depth < MaxDepth
  /\ Room
  /\ \E loaded \in BOOLEAN : Become(push(Now, Fresh, loaded), drag)
  /\ UNCHANGED <<pending, closing>>

\* the back link, or Back on the remote with no layer open
Back ==
  /\ Calm
  /\ ~busy
  /\ depth > 1
  /\ Become(back(Now, "none"), drag)
  /\ UNCHANGED <<pending, closing>>

\* a breadcrumb: back to the page at that level
BackTo(level) ==
  /\ Calm
  /\ MidSlide \/ ~busy
  /\ depth > level
  /\ Become(backTo(Now, level, "none"), drag)
  /\ UNCHANGED <<pending, closing>>

\* after goTo's first steps: the first page, then the page it was given
popThenPush(w, fresh, loaded) ==
  LET w1 == popToRoot(w, "push")
  IN  IF Len(StackOf(w[1], w[1].tab)) > 1 /\ w[3].kind = "none"
      THEN w1 ELSE push(w1, fresh, loaded)

\* the control center or a status line opens a page of a tab; asked for
\* while pages slide, the tab waits, the pages between go and no page opens
GoTo(t) ==
  /\ Calm
  /\ MidSlide \/ ~busy
  /\ Room
  /\ UNCHANGED closing
  /\ \E loaded \in BOOLEAN :
       IF busy
       THEN pending' = t /\ Become(popToRoot(Now, "none"), drag)
       ELSE /\ UNCHANGED pending
            /\ IF t = nav.tab /\ depth > 1
               THEN Become(popToRoot(Now, "pop"), drag)
               ELSE Become(popThenPush(
                      IF t = nav.tab THEN Now
                      ELSE switchTab(Now, t, Fresh, loaded), Second, loaded), drag)

\* Mutant: done() forgets the tab that waited
EndSlideForgets ==
  LET landed ==
        <<nav,
          IF slide.kind = "push" THEN show(pages, slide.top)
          ELSE show(setTop(destroy(pages, {slide.top}), slide.under), slide.under),
          Still>>
      spare == Free \cup (IF slide.kind = "back" THEN {slide.top} ELSE {})
      one == Least(spare)
      two == Least(spare \ {one})
  IN  /\ busy
      /\ pending' = None
      /\ UNCHANGED closing
      /\ \E loaded \in BOOLEAN :
           LET gone == landed
           IN  Become(CASE slide.next = "pop"  -> popThenPush(gone, two, loaded)
                        [] slide.next = "push" -> push(gone, two, loaded)
                        [] OTHER -> gone, drag)

\* the slide ends: the page that stays is shown; then done() runs the tab that
\* waited, and then goTo goes on
EndSlide ==
  LET landed ==
        <<nav,
          IF slide.kind = "push" THEN show(pages, slide.top)
          ELSE show(setTop(destroy(pages, {slide.top}), slide.under), slide.under),
          Still>>
      spare == Free \cup (IF slide.kind = "back" THEN {slide.top} ELSE {})
      one == Least(spare)
      two == Least(spare \ {one})
  IN  /\ busy
      /\ pending' = None
      /\ UNCHANGED closing
      /\ \E loaded \in BOOLEAN :
           LET gone == IF pending = None THEN landed
                       ELSE go(landed, pending, one, loaded, "none")
           IN  Become(CASE slide.next = "pop"  -> popThenPush(gone, two, loaded)
                        [] slide.next = "push" -> push(gone, two, loaded)
                        [] OTHER -> gone, drag)

\* a page's module arrives, or is not needed any more
Arrive(p) ==
  /\ p \in InStacks(nav) \cup {slide.top, slide.under, drag.top, drag.under}
  /\ p \notin pages.mounted \cup pages.dead
  /\ pages' = [pages EXCEPT !.mounted = @ \cup {p},
                            !.running = IF p \in pages.shown THEN @ \cup {p} ELSE @]
  /\ UNCHANGED <<nav, pending, slide, drag, closing>>

(***************************************************************************)
(* Title slips.                                                            *)
(***************************************************************************)
Ids == nav.books[Files].ids
OnFiles == nav.tab = Files /\ ~busy /\ Calm

switchSlipTab(s) ==
  /\ OnFiles
  /\ s \in ToSet(Ids) \ {nav.books[Files].cur}
  /\ Become(switchSlip(Now, s, Fresh, TRUE), drag)
  /\ UNCHANGED <<pending, closing>>

\* + opens a slip at the first page; a folder opened in a new tab goes one down
openSlipTab(s, folder) ==
  /\ OnFiles
  /\ Len(Ids) < MaxSlips
  /\ s \notin ToSet(Ids) \cup DOMAIN nav.stacks
  /\ Room
  /\ \E loaded \in BOOLEAN :
       LET n == [nav EXCEPT !.books[Files].ids = Append(@, s)]
           w == switchSlip(<<n, pages, slide>>, s, Fresh, loaded)
       IN  Become(IF folder THEN push(w, Second, loaded) ELSE w, drag)
  /\ UNCHANGED <<pending, closing>>

\* Mutant: the slip on screen closes without a switch to its neighbour
closeInPlace(s) ==
  /\ OnFiles
  /\ s \in ToSet(Ids)
  /\ Len(Ids) > 1
  /\ LET i == CHOOSE k \in DOMAIN Ids : Ids[k] = s
         w == Now
     IN  Become(<<[w[1] EXCEPT !.books[Files].ids = RemoveAt(@, i)],
                  w[2], w[3]>>, drag)
  /\ closing' = closing \cup {s}
  /\ UNCHANGED pending

\* the slip leaves the row now, its stack 200 ms later
closeSlipTab(s) ==
  /\ OnFiles
  /\ s \in ToSet(Ids)
  /\ Len(Ids) > 1
  /\ LET i == CHOOSE k \in DOMAIN Ids : Ids[k] = s
         near == IF i < Len(Ids) THEN Ids[i + 1] ELSE Ids[i - 1]
         w == IF s = nav.books[Files].cur THEN switchSlip(Now, near, Fresh, TRUE)
              ELSE Now
     IN  Become(<<[w[1] EXCEPT !.books[Files].ids = RemoveAt(@, i)],
                  w[2], w[3]>>, drag)
  /\ closing' = closing \cup {s}
  /\ UNCHANGED pending

closeOtherSlipTabs(s) ==
  /\ OnFiles
  /\ s \in ToSet(Ids)
  /\ Len(Ids) > 1
  /\ LET w == switchSlip(Now, s, Fresh, TRUE)
     IN  Become(<<[w[1] EXCEPT !.books[Files].ids = <<s>>], w[2], w[3]>>, drag)
  /\ closing' = closing \cup (ToSet(Ids) \ {s})
  /\ UNCHANGED pending

DropClosed(s) ==
  /\ s \in closing
  /\ closing' = closing \ {s}
  /\ Become(<<[nav EXCEPT !.stacks = Without(@, {s})], dropStack(pages, nav, s),
              slide>>, drag)
  /\ UNCHANGED pending

\* resetTab(Files) when the person signs out: the other slips go, the first one
\* returns to its first page, with a slide when it is on screen
SignOut ==
  LET b == nav.books[Files]
      first == b.ids[1]
      rest == ToSet(b.ids) \ {first}
      n == [nav EXCEPT !.books[Files] = [ids |-> <<first>>, cur |-> first],
                       !.stacks = Without(@, rest)]
      g == [pages EXCEPT
              !.shown = @ \ UNION {ToSet(nav.stacks[s]) : s \in rest \cap DOMAIN nav.stacks},
              !.running = @ \ (pages.shown \cap
                 UNION {ToSet(nav.stacks[s]) : s \in rest \cap DOMAIN nav.stacks}),
              !.dead = @ \cup UNION {ToSet(nav.stacks[s]) : s \in rest \cap DOMAIN nav.stacks}]
      w == ensureRoot(<<n, g, slide>>, Files, Fresh, TRUE)
      st == w[1].stacks[first]
      cut == <<[w[1] EXCEPT !.stacks[first] = <<Head(st)>>],
               destroy(w[2], ToSet(Tail(st))), slide>>
  IN  /\ MidSlide \/ ~Moving
      /\ Room \/ first \in DOMAIN nav.stacks
      /\ UNCHANGED <<pending, closing>>
      /\ Become(
           IF nav.tab # Files THEN cut
           ELSE IF b.cur # first
           THEN <<cut[1], show(setTop(cut[2], Head(st)), Head(st)), slide>>
           ELSE popToRoot(w, "none"), drag)

(***************************************************************************)
(* The edge swipe.                                                         *)
(***************************************************************************)
PointerDown ==
  /\ drag.phase = "none"
  /\ depth > 1
  /\ ~busy
  /\ LET st == StackOf(nav, nav.tab)
     IN  drag' = [phase |-> "drag", top |-> Last(st), under |-> st[Len(st) - 1]]
  /\ UNCHANGED <<nav, pages, pending, slide, closing>>

\* a scroll, or a lift before the drag started: nothing moved
LetGo ==
  /\ drag.phase = "drag"
  /\ drag' = NoDrag
  /\ pages' = Tidy(pages, nav, slide, NoDrag)
  /\ UNCHANGED <<nav, pending, slide, closing>>

Release(commit) ==
  /\ drag.phase = "drag"
  /\ drag' = [drag EXCEPT !.phase = IF commit THEN "leave" ELSE "stay"]
  /\ UNCHANGED <<nav, pages, pending, slide, closing>>

\* anim.onfinish: finishSwipeBack pops whatever stack is current by now; with
\* one page left its second half fails after the page is gone
Settled ==
  /\ drag.phase \in {"leave", "stay"}
  /\ UNCHANGED <<pending, closing>>
  /\ LET s == nav.books[nav.tab].cur
         st == nav.stacks[s]
         top == Last(st)
         n == [nav EXCEPT !.stacks[s] = Front(@)]
         g == destroy(hide(pages, top), {top})
     IN  Become(IF drag.phase = "stay" THEN Now
                ELSE IF Len(st) < 2 THEN <<n, g, slide>>
                ELSE <<n, show(setTop(g, TopOf(n)), TopOf(n)), slide>>, NoDrag)

Rooted == \A s \in DOMAIN nav.stacks : Len(nav.stacks[s]) > 0

Tap == \/ \E t \in Tab : TapTab(t) \/ GoTo(t)
       \/ nextTab
       \/ Push
       \/ Back
       \/ \E l \in 1 .. MaxDepth : BackTo(l)

Slip == \/ \E s \in Slips, folder \in BOOLEAN : openSlipTab(s, folder)
        \/ \E s \in Slips \cup {Files} :
             switchSlipTab(s) \/ closeSlipTab(s) \/ closeOtherSlipTabs(s)

Swipe == PointerDown \/ LetGo \/ (\E c \in BOOLEAN : Release(c)) \/ Settled

Next == Rooted /\ (\/ Tap \/ Slip \/ Swipe \/ SignOut
                   \/ EndSlide
                   \/ \E p \in Pages : Arrive(p)
                   \/ \E s \in Slips \cup {Files} : DropClosed(s))

Spec == Init /\ [][Next]_vars

(***************************************************************************)
(* Properties.                                                             *)
(***************************************************************************)
TypeOK ==
  /\ nav.tab \in Tab
  /\ \A t \in Tab : /\ nav.books[t].cur \in ToSet(nav.books[t].ids)
                    /\ t # Files => nav.books[t].ids = <<t>>
  /\ \A s \in DOMAIN nav.stacks : ToSet(nav.stacks[s]) \subseteq Pages
  /\ pending \in Tab \cup {None}
  /\ slide.kind \in {"none", "push", "back"}
  /\ drag.phase \in {"none", "drag", "leave", "stay"}

(* The books and the stacks agree: each tab keeps its own stack of pages   *)
(* and only the files tab has more than one, never more than MaxSlips; a   *)
(* slip that was closed is neither on screen nor in the row again while    *)
(* its stack waits for its timer; and no stack ever loses its first page,  *)
(* which is only made once.                                                *)
StacksSound ==
  /\ TypeOK
  /\ Len(Ids) <= MaxSlips
  /\ \A s \in closing : s \notin ToSet(Ids)
  /\ \A s \in DOMAIN nav.stacks : s \in Tab \cup ToSet(Ids) \cup closing
  /\ Rooted

(* Only the page on screen works: while no page slides, the one page shown *)
(* is the top of the current tab's current slip, it is the one on screen,  *)
(* and it runs if and only if its module has arrived; while one slides no  *)
(* page is shown at all.  A page left showing keeps polling for ever.      *)
OnlyTopRuns ==
  IF busy THEN pages.shown = {} /\ pages.running = {}
  ELSE LET p == TopOf(nav) IN
       /\ pages.shown = {p}
       /\ pages.top = p
       /\ pages.running = {p} \cap pages.mounted

(* A page is hidden before it is destroyed and never shown afterwards      *)
(* (core/resource.js counts on it to stop its pollers), no stack holds a   *)
(* destroyed page, and no page is on two stacks.                           *)
DeadStayQuiet ==
  /\ pages.dead \cap (pages.shown \cup pages.running \cup InStacks(nav)) = {}
  /\ \A s, u \in DOMAIN nav.stacks :
       s # u => ToSet(nav.stacks[s]) \cap ToSet(nav.stacks[u]) = {}

(* A tab tapped while a page slides is not dropped: it waits for a slide   *)
(* that is under way, and it leaves the wait only by coming on screen or   *)
(* by another tap that takes its place.                                    *)
TapKept ==
  /\ pending # None => busy
  /\ \A t \in Tab : pending = t /\ pending' # t =>
       nav'.tab = t \/ pending' # None
TapNotDropped == [][TapKept]_vars

(* The last part alone: Each tab keeps its own stack of pages.             *)
EveryTabKeepsItsRoot == Rooted
=============================================================================
