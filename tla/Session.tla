-------------------------------- MODULE Session --------------------------------
(***************************************************************************)
(* Whose data the panel holds (data/session.js): what comes from fnOS      *)
(* belongs to the person signed in there, and is forgotten when they sign  *)
(* out here or somebody else signs in.  A kept thing is represented by its *)
(* owner: "memory" is what answers fill (listings, favourites, the recycle *)
(* bin), "notices" the same kept across restarts, "own" what the person    *)
(* left (recent files, the clipboard), kept across restarts too.           *)
(***************************************************************************)
EXTENDS Integers, FiniteSets

CONSTANTS
  Persons,
  MaxMoves,     \* bound: sign-ins, sign-outs, lapses, files used
  MaxRestarts, MaxTrouble,
  Late,         \* whether somebody signs in or out while answers are out, or things
                \* are read while another is signed in than the account page says
  None

SessionAssumption ==
  /\ {MaxMoves, MaxRestarts, MaxTrouble} \subseteq Nat
  /\ Late \in BOOLEAN /\ {None, "nobody", "unknown"} \cap Persons = {}
  /\ None \notin {"nobody", "unknown", "sent", "done"}

Stores == {"memory", "notices"}

VARIABLES
  who,              \* fnOS: the person whose session t6-paneld has, or None
  moves, restarts, trouble,
  account,          \* the account as answered last: who is signed in, None, or "unknown"
  failed,           \* its last request failed
  reqA,             \* its request: None or [says]
  kept,             \* the owner of what each store holds, or None
  req,              \* the stores' requests: None or [says]
  own,              \* the owner of what was left here, or None
  owner,            \* session.owner in local storage
  login, logout,    \* the posts of the account page: None, "sent" or "done"
  newcomer          \* who signs in

state == <<account, failed, reqA, kept, req, own, owner, login, logout, newcomer>>
vars == <<who, moves, restarts, trouble, state>>

Init ==
  /\ who \in Persons \cup {None} /\ moves = 0 /\ restarts = 0 /\ trouble = 0
  /\ account = "unknown" /\ failed = FALSE /\ reqA = None
  /\ kept = [s \in Stores |-> None] /\ req = [s \in Stores |-> None]
  /\ own = None /\ owner = None
  /\ login = None /\ logout = None /\ newcomer = None

-----------------------------------------------------------------------------
Quiet == Late \/ (reqA = None /\ (\A s \in Stores : req[s] = None) /\ login = None /\ logout = None)
Move  == Quiet /\ moves < MaxMoves /\ moves' = moves + 1

\* forgetUser(): a request that is out goes on
forgetUser ==
  /\ owner' = None /\ own' = None
  /\ kept' = [s \in Stores |-> None]

refreshAccount == reqA' = IF reqA = None THEN [says |-> None] ELSE reqA

\* a page shows: it asks who is signed in
showPage ==
  /\ reqA = None /\ refreshAccount
  /\ UNCHANGED <<who, moves, restarts, trouble, account, failed, kept, req, own, owner, login, logout, newcomer>>

\* and for what it shows, when somebody is
refresh(s) ==
  /\ req[s] = None
  /\ Late \/ (reqA = None /\ login = None /\ logout = None /\ account = who)
  /\ account \in Persons
  /\ req' = [req EXCEPT ![s] = [says |-> None]]
  /\ UNCHANGED <<who, moves, restarts, trouble, account, failed, reqA, kept, own, owner, login, logout, newcomer>>

ReadAccount ==
  /\ reqA # None /\ reqA.says = None
  /\ reqA' = [says |-> IF who = None THEN "nobody" ELSE who]
  /\ UNCHANGED <<who, moves, restarts, trouble, account, failed, kept, req, own, owner, login, logout, newcomer>>

\* a mistake: the new owner is remembered, the old one's things are not forgotten
checkKeeps(a) ==
  IF a \notin Persons THEN UNCHANGED <<owner, own, kept>>
  ELSE owner' = a /\ UNCHANGED <<own, kept>>

\* check(): somebody else than the person whose data is kept
check(a) ==
  IF a \notin Persons THEN UNCHANGED <<owner, own, kept>>
  ELSE /\ owner' = a
       /\ IF owner \notin {None, a}
          THEN own' = None /\ kept' = [s \in Stores |-> None]
          ELSE UNCHANGED <<own, kept>>

AccountAnswered ==
  /\ reqA # None /\ reqA.says # None
  /\ reqA' = None /\ failed' = FALSE
  /\ account' = (IF reqA.says = "nobody" THEN None ELSE reqA.says)
  /\ check(account')
  /\ UNCHANGED <<who, moves, restarts, trouble, req, login, logout, newcomer>>

AccountFails ==
  /\ reqA # None /\ trouble < MaxTrouble /\ trouble' = trouble + 1
  /\ reqA' = None /\ failed' = TRUE
  /\ UNCHANGED <<who, moves, restarts, account, kept, req, own, owner, login, logout, newcomer>>

\* fnOS answers for the session it has, and not at all without one
Read(s) ==
  /\ req[s] # None /\ req[s].says = None
  /\ req' = [req EXCEPT ![s] = IF who = None THEN None ELSE [says |-> who]]
  /\ UNCHANGED <<who, moves, restarts, trouble, account, failed, reqA, kept, own, owner, login, logout, newcomer>>

Answered(s) ==
  /\ req[s] # None /\ req[s].says # None
  /\ kept' = [kept EXCEPT ![s] = req[s].says]
  /\ req' = [req EXCEPT ![s] = None]
  /\ UNCHANGED <<who, moves, restarts, trouble, account, failed, reqA, own, owner, login, logout, newcomer>>

\* a file is opened, copied or cut from what is shown
useFiles ==
  /\ Move /\ account \in Persons /\ kept["memory"] # None
  /\ own' = kept["memory"]
  /\ UNCHANGED <<who, restarts, trouble, account, failed, reqA, kept, req, owner, login, logout, newcomer>>

-----------------------------------------------------------------------------
(* The account page.                                                        *)

signIn(p) ==
  /\ account = None /\ Move /\ login = None
  /\ login' = "sent" /\ newcomer' = p
  /\ UNCHANGED <<who, restarts, trouble, account, failed, reqA, kept, req, own, owner, logout>>

Login ==
  /\ login = "sent" /\ login' = "done" /\ who' = newcomer
  /\ UNCHANGED <<moves, restarts, trouble, account, failed, reqA, kept, req, own, owner, logout, newcomer>>

SignedIn ==
  /\ login = "done" /\ login' = None /\ newcomer' = None
  /\ refreshAccount
  /\ UNCHANGED <<who, moves, restarts, trouble, account, failed, kept, req, own, owner, logout>>

signOut ==
  /\ account \in Persons /\ Move /\ logout = None
  /\ logout' = "sent"
  /\ UNCHANGED <<who, restarts, trouble, account, failed, reqA, kept, req, own, owner, login, newcomer>>

Logout ==
  /\ logout = "sent" /\ logout' = "done" /\ who' = None
  /\ UNCHANGED <<moves, restarts, trouble, account, failed, reqA, kept, req, own, owner, login, newcomer>>

SignedOut ==
  /\ logout = "done" /\ logout' = None
  /\ forgetUser /\ refreshAccount
  /\ UNCHANGED <<who, moves, restarts, trouble, account, failed, req, login, newcomer>>

\* the post fails, or its answer is lost: nothing is forgotten
PostFails ==
  /\ trouble < MaxTrouble /\ trouble' = trouble + 1
  /\ \/ login # None /\ login' = None /\ newcomer' = None /\ UNCHANGED <<logout, reqA>>
     \/ logout # None /\ logout' = None /\ refreshAccount /\ UNCHANGED <<login, newcomer>>
  /\ UNCHANGED <<who, moves, restarts, account, failed, kept, req, own, owner>>

-----------------------------------------------------------------------------
\* the session only lapses, or t6-paneld signs the same person in again
Lapse ==
  /\ Move /\ who # None /\ who' = None
  /\ UNCHANGED <<restarts, trouble, state>>

\* the page is loaded again: the account and the notices are read from their
\* cache, and what was left from local storage
Restart ==
  /\ restarts < MaxRestarts /\ Quiet /\ restarts' = restarts + 1
  /\ reqA' = None /\ failed' = FALSE
  /\ kept' = [kept EXCEPT !["memory"] = None] /\ req' = [s \in Stores |-> None]
  /\ login' = None /\ logout' = None /\ newcomer' = None
  /\ UNCHANGED <<who, moves, trouble, account, own, owner>>

Next ==
  \/ showPage \/ ReadAccount \/ AccountAnswered \/ AccountFails
  \/ \E s \in Stores : refresh(s) \/ Read(s) \/ Answered(s)
  \/ useFiles
  \/ \E p \in Persons : signIn(p)
  \/ Login \/ SignedIn \/ signOut \/ Logout \/ SignedOut \/ PostFails
  \/ Lapse \/ Restart

Spec == Init /\ [][Next]_vars

-----------------------------------------------------------------------------
Held == ({own} \cup {kept[s] : s \in Stores}) \ {None}

\* "so the next person at the screen sees none of it" (session.js:4)
SeesNoneOfIt ==
  account \in Persons /\ reqA = None /\ login = None /\ logout = None => Held \subseteq {account}

\* What is held belongs to one person, the one remembered as its owner: so whoever
\* is seen to be signed in finds nothing of anybody else's, after a restart, a
\* failed sign-out or a session that lapsed as well (session.js: check, forgetUser).
NextSeesNone ==
  /\ Held \subseteq {owner}
  /\ SeesNoneOfIt
=============================================================================
