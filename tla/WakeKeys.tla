------------------------------- MODULE WakeKeys -------------------------------
(***************************************************************************)
(* Keys and a dark screen (app/main.js, routeNavKeys): a key that finds    *)
(* the screen dark only wakes it, and nothing of it reaches the page, not  *)
(* its repeats and not its release; those of the power button do not even  *)
(* wake it, the volume keys work in the dark.                              *)
(***************************************************************************)
EXTENDS Integers, FiniteSets

CONSTANTS
  Keys,          \* ordinary keys: arrows, Enter, Back, Home, Menu
  Volume, Power, \* a volume key (WAKE_PASS_KEYS), the power button's (NOT_WAKE_KEYS)
  MaxSleeps,     \* bound: times the screen goes dark
  MaxLost,       \* bound: requests that fail
  MaxAsked       \* bound: requests under way

WakeKeysAssumption ==
  /\ {MaxSleeps, MaxLost, MaxAsked} \subseteq Nat
  /\ Volume \notin Keys /\ Power \notin Keys /\ Volume # Power

VARIABLES
  lit,           \* the backlight, read from sysfs at each press
  sleeps, lost,
  down,          \* the keys held down
  dark,          \* those whose press found the screen dark
  wakeKeys,      \* main.js: those whose release is swallowed
  recent,        \* a wake was asked for within the last 1.5 s
  asked,         \* requests to t6-paneld under way
  got            \* keys held down of which the page got something

vars == <<lit, sleeps, lost, down, dark, wakeKeys, recent, asked, got>>

All == Keys \cup {Volume, Power}

Init ==
  /\ lit \in BOOLEAN /\ sleeps = 0 /\ lost = 0
  /\ down = {} /\ dark = {} /\ wakeKeys = {} /\ recent = FALSE /\ asked = 0 /\ got = {}

\* the screen times out, or the power button switches it off
SleepsNow ==
  /\ lit /\ sleeps < MaxSleeps /\ sleeps' = sleeps + 1 /\ lit' = FALSE
  /\ UNCHANGED <<lost, down, dark, wakeKeys, recent, asked, got>>

\* wakeScreen: not again within 1.5 s
wakeScreen == (recent \/ asked < MaxAsked) /\ recent' = TRUE /\ asked' = IF recent THEN asked ELSE asked + 1

\* before-input-event, a press or the repeat of a key held down: who gets it
Seen(k) ==
  /\ IF k = Power THEN UNCHANGED <<wakeKeys, recent, asked, got>>
     ELSE IF k # Volume /\ (k \in wakeKeys \/ ~lit)
       THEN wakeKeys' = wakeKeys \cup {k} /\ wakeScreen /\ UNCHANGED got
     ELSE got' = got \cup {k} /\ UNCHANGED <<wakeKeys, recent, asked>>

keyDown ==
  \E k \in All \ down :
    /\ down' = down \cup {k}
    /\ dark' = IF lit \/ k = Volume THEN dark ELSE dark \cup {k}
    /\ Seen(k)
    /\ UNCHANGED <<lit, sleeps, lost>>

Repeat ==
  \E k \in down : Seen(k) /\ UNCHANGED <<lit, sleeps, lost, down, dark>>

Release(k) ==
  /\ k \in down
  /\ down' = down \ {k} /\ dark' = dark \ {k}
  /\ wakeKeys' = wakeKeys \ {k} /\ got' = got \ {k}
  /\ UNCHANGED <<lit, sleeps, lost, recent, asked>>
keyUp == \E k \in All : Release(k)

\* t6-paneld lights it, or the request fails
Wakes ==
  /\ asked > 0 /\ asked' = asked - 1
  /\ \/ lit' = TRUE /\ UNCHANGED lost
     \/ lost < MaxLost /\ lost' = lost + 1 /\ UNCHANGED lit
  /\ UNCHANGED <<sleeps, down, dark, wakeKeys, recent, got>>

TimeGoesBy ==
  /\ recent /\ recent' = FALSE
  /\ UNCHANGED <<lit, sleeps, lost, down, dark, wakeKeys, asked, got>>

Next == SleepsNow \/ keyDown \/ Repeat \/ keyUp \/ Wakes \/ TimeGoesBy

\* somebody in front of a dark screen goes on pressing keys that wake it
Presses == ~lit /\ (\E k \in Keys \ down : down' = down \cup {k}) /\ keyDown

Fairness ==
  /\ WF_vars(Presses) /\ (\A k \in All : WF_vars(Release(k))) /\ WF_vars(Wakes) /\ WF_vars(TimeGoesBy)

Spec == Init /\ [][Next]_vars /\ Fairness

-----------------------------------------------------------------------------
TypeOK ==
  /\ lit \in BOOLEAN /\ sleeps \in 0..MaxSleeps /\ lost \in 0..MaxLost
  /\ down \subseteq All /\ recent \in BOOLEAN

\* Nothing of a key that found the screen dark reaches the page ("every other key only
\* wakes it", main.js:227), however long it is held and the screen lights up meanwhile;
\* and nothing of what was swallowed outlasts its key, to swallow the next press.
OnlyWakes ==
  /\ TypeOK
  /\ dark \cap got = {}
  /\ dark \ {Power} \subseteq wakeKeys /\ wakeKeys \subseteq down

\* Whoever goes on pressing keys wakes the screen, whatever failed before.
WakesInTheEnd == <>[]lit
=============================================================================
