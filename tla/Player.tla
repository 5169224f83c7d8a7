-------------------------------- MODULE Player --------------------------------
(***************************************************************************)
(* The video player of the kiosk (app/main.js, player:open): mpv, a window *)
(* over the panel's, followed over its socket, and t6-paneld's screen      *)
(* timeout held while it plays, by a lease renewed every minute; the       *)
(* panel's backdrop stands still meanwhile (shell/glass.js).  Time goes by *)
(* in half minutes.                                                        *)
(***************************************************************************)
EXTENDS Integers, FiniteSets, Sequences

CONSTANTS
  MaxPlayers,    \* bound: videos opened
  MaxPauses,     \* bound: pauses and resumes
  MaxLost,       \* bound: requests that fail
  MaxCrashes,    \* bound: crashes of the kiosk
  Strays,        \* whether a player's try at a socket outlives it, to meet the next one's
  None

PlayerAssumption ==
  {MaxPlayers, MaxPauses, MaxLost, MaxCrashes} \subseteq Nat /\ Strays \in BOOLEAN /\ None \notin Nat

HOLD  == 3       \* HOLD_SECS, in half minutes
RENEW == 2       \* HOLD_RENEW_MS

VARIABLES
  switches,      \* whether one video is opened while another has not ended; chosen once
  mpv,           \* the processes: [n, plays, socket, ours]; socket: it has been made;
                 \* ours: started by this kiosk and not by one that died
  doomed,        \* those told to go (SIGTERM)
  opened, pauses, lost, crashes,
  player,        \* main.js: the number of the player, or None
  watch,         \* the sockets it follows or tries: [n, of]; of: None while it tries
  renew,         \* the players whose renewal runs: [n, left]
  puts,          \* requests to t6-paneld: 0 or HOLD
  lease,         \* t6-paneld: half minutes left
  glass,         \* the backdrop is held still for the player
  closing        \* 'player:closed' messages on their way

bounds == <<pauses, lost, crashes>>
procs  == <<mpv, doomed, opened, player>>
state == <<procs, bounds, watch, renew, puts, lease, glass, closing>>
vars == <<switches, state>>

Init ==
  /\ switches \in BOOLEAN
  /\ mpv = {} /\ doomed = {} /\ opened = 0 /\ pauses = 0 /\ lost = 0 /\ crashes = 0 /\ player = None
  /\ watch = {} /\ renew = {} /\ puts = <<>> /\ lease = 0 /\ glass = FALSE /\ closing = 0

Numbers(S) == {x.n : x \in S}

\* setPlaying: only a change does something
setPlaying(n, playing) ==
  IF playing /\ n \notin Numbers(renew)
    THEN puts' = Append(puts, HOLD) /\ renew' = renew \cup {[n |-> n, left |-> RENEW]}
  ELSE IF ~playing /\ n \in Numbers(renew)
    THEN puts' = Append(puts, 0) /\ renew' = {x \in renew : x.n # n}
  ELSE UNCHANGED <<puts, renew>>

\* player:open, and openFile once it answered: the one before is told to go
open ==
  /\ opened < MaxPlayers /\ opened' = opened + 1
  /\ switches \/ (mpv = {} /\ closing = 0)
  /\ Strays \/ ~\E w \in watch : w.of = None
  /\ doomed' = doomed \cup (Numbers(mpv) \cap {player})
  /\ mpv' = {[x EXCEPT !.socket = FALSE] : x \in mpv} \cup {[n |-> opened', plays |-> TRUE, socket |-> FALSE, ours |-> TRUE]}
  /\ player' = opened' /\ watch' = watch \cup {[n |-> opened', of |-> None]}
  /\ glass' = TRUE
  /\ UNCHANGED <<bounds, renew, puts, lease, closing>>

\* mpv makes its socket where the one before had its own
Listens ==
  \E x \in mpv :
    /\ x.n = opened /\ ~x.socket /\ mpv' = (mpv \ {x}) \cup {[x EXCEPT !.socket = TRUE]}
    /\ UNCHANGED <<doomed, opened, player, bounds, watch, renew, puts, lease, glass, closing>>

\* watchPlayer: a connection that is refused is tried again, by the player of the time
\* only; one that is made tells whether the video plays
watchPlayer ==
  \E w \in watch :
    /\ w.of = None
    /\ \/ \E x \in mpv :
            /\ x.socket /\ watch' = (watch \ {w}) \cup {[w EXCEPT !.of = x.n]}
            /\ setPlaying(w.n, x.plays)
       \/ /\ ~\E x \in mpv : x.socket
          /\ watch' = IF player = w.n THEN watch ELSE watch \ {w}
          /\ UNCHANGED <<puts, renew>>
    /\ UNCHANGED <<procs, bounds, lease, glass, closing>>

\* somebody pauses, or goes on; whoever follows it hears (observe_property)
Pause ==
  /\ pauses < MaxPauses /\ pauses' = pauses + 1
  /\ \E x \in mpv :
       /\ Cardinality({w \in watch : w.of = x.n}) <= 1
       /\ mpv' = (mpv \ {x}) \cup {[x EXCEPT !.plays = ~@]}
       /\ IF \E w \in watch : w.of = x.n
          THEN setPlaying((CHOOSE w \in watch : w.of = x.n).n, ~x.plays)
          ELSE UNCHANGED <<puts, renew>>
  /\ UNCHANGED <<doomed, opened, player, lost, crashes, watch, lease, glass, closing>>

\* its end, by itself or because it was told: the hold goes, the connection too, and the
\* panel is told.  A try that is still out is made all the same.
exit(x) ==
  /\ mpv' = mpv \ {x} /\ doomed' = doomed \ {x.n}
  /\ setPlaying(x.n, FALSE)
  /\ watch' = {w \in watch : (w.n # x.n \/ w.of = None) /\ w.of # x.n}
  /\ player' = IF player = x.n THEN None ELSE player
  /\ closing' = closing + 1
  /\ UNCHANGED <<opened, bounds, lease, glass>>

Ends   == \E x \in mpv : x.ours /\ exit(x)
EndsDoomed == \E x \in mpv : x.ours /\ x.n \in doomed /\ exit(x)
\* of a process the kiosk that crashed had started, nobody hears
EndsUnheard ==
  /\ \E x \in mpv : ~x.ours /\ mpv' = mpv \ {x} /\ doomed' = doomed \ {x.n}
  /\ UNCHANGED <<opened, player, bounds, watch, renew, puts, lease, glass, closing>>

\* onClosed: whichever player it was
playerClosed ==
  /\ closing > 0 /\ closing' = closing - 1 /\ glass' = FALSE
  /\ UNCHANGED <<procs, bounds, watch, renew, puts, lease>>

\* the request is there, or failed, and nobody says so
Put ==
  /\ puts # <<>> /\ puts' = Tail(puts)
  /\ \/ lease' = Head(puts) /\ UNCHANGED lost
     \/ lost < MaxLost /\ lost' = lost + 1 /\ UNCHANGED lease
  /\ UNCHANGED <<procs, pauses, crashes, watch, renew, glass, closing>>

\* half a minute: the lease runs, and what is due is renewed
Tick ==
  /\ puts = <<>> /\ (lease > 0 \/ renew # {})
  /\ lease' = (IF lease = 0 THEN 0 ELSE lease - 1)
  /\ renew' = {[x EXCEPT !.left = IF @ = 1 THEN RENEW ELSE @ - 1] : x \in renew}
  /\ puts' = IF \E x \in renew : x.left = 1 THEN <<HOLD>> ELSE <<>>
  /\ UNCHANGED <<procs, bounds, watch, glass, closing>>

\* the kiosk dies; mpv does not.  It starts again with a page of its own.
Crash ==
  /\ crashes < MaxCrashes /\ crashes' = crashes + 1
  /\ player' = None /\ watch' = {} /\ renew' = {} /\ closing' = 0 /\ glass' = FALSE
  /\ mpv' = {[x EXCEPT !.ours = FALSE] : x \in mpv}
  /\ UNCHANGED <<doomed, opened, pauses, lost, puts, lease>>

Next ==
  /\ UNCHANGED switches
  /\ \/ open \/ Listens \/ watchPlayer \/ Pause \/ Ends \/ EndsUnheard
     \/ playerClosed \/ Put \/ Tick \/ Crash

Fairness ==
  /\ WF_state(Listens) /\ WF_state(watchPlayer) /\ WF_state(EndsDoomed) /\ WF_state(playerClosed)
  /\ WF_state(Put) /\ WF_state(Tick)

Spec == Init /\ [][Next]_vars /\ Fairness

-----------------------------------------------------------------------------
TypeOK ==
  /\ player \in 0..MaxPlayers \cup {None} /\ Numbers(mpv) \subseteq 1..opened
  /\ lease \in 0..HOLD /\ closing \in 0..MaxPlayers

\* the video that plays, as far as main.js knows
Plays == \E x \in mpv, w \in watch : x.plays /\ x.n = player /\ w.n = player /\ w.of = player

\* "a playing video holds t6-paneld's screen timeout" (main.js:141): the lease of one
\* that plays on never runs out, whatever was paused before, as long as no request
\* failed; and the glass stands still under it (glass.js).  Where no video was opened
\* over another.
HeldNow == Plays /\ lost = 0 /\ puts = <<>> => lease > 0
PlayerSound ==
  /\ TypeOK
  /\ ~switches => HeldNow /\ (Plays => glass)

\* In the end the screen is held exactly while a video plays: not after it was paused
\* or closed, and not after the kiosk died over it.
HeldWhilePlaying == <>[]((lease > 0) <=> Plays)
=============================================================================
