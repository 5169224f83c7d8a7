------------------------------ MODULE PagesProofs ------------------------------
(***************************************************************************)
(* Proofs about the pages of the front panel, what lies over them and the   *)
(* kiosk around it (MCPages), for all values of the constants.  Each of the *)
(* nine scenes has an invariant of its own, the conjunction of named parts, *)
(* which its first states satisfy (..Begins), its steps keep (..Keeps) and  *)
(* which says what MCPages checks (..Says); the theorems at the end put     *)
(* the scenes together.                                                     *)
(***************************************************************************)
EXTENDS MCPages, SequenceTheorems, FiniteSetTheorems, TLAPS

-----------------------------------------------------------------------------
\* Whose data it is (Session).

SessionTyped ==
  /\ {who, owner, own} \subseteq Persons \cup {None}
  /\ account \in Persons \cup {None, "unknown"}
  /\ kept \in [S!Stores -> Persons \cup {None}]
  /\ DOMAIN req = S!Stores /\ req = [s \in S!Stores |-> req[s]]
  /\ reqA # None => reqA.says \in Persons \cup {None, "nobody"}
  /\ newcomer \in Persons \/ login # "sent"
\* Somebody signs in, or out, one at a time, and while nothing is read for the pages.
OneMoves ==
  /\ login = None \/ logout = None
  /\ logout = "done" => who = None
  /\ \A s \in S!Stores : req[s] # None => login = None /\ logout = None
\* What is read for the pages is of the person the account page tells.
ReadsForOne ==
  \A s \in S!Stores : req[s] # None =>
    /\ account = who /\ who \in Persons
    /\ req[s].says \in {None, who}
    /\ reqA # None => reqA.says \in {None, who}
\* What is held is of its owner, and that is who is seen to be signed in, but after a
\* sign-out, until the account is asked for again.
HeldByOwner ==
  /\ S!Held \subseteq {owner}
  /\ account \in Persons /\ owner # account => owner = None /\ who = None /\ login = None
SessionInv == SessionTyped /\ OneMoves /\ ReadsForOne /\ HeldByOwner

LEMMA SessionConstants ==
  /\ {None, "nobody", "unknown"} \cap Persons = {} /\ None \notin {"nobody", "unknown", "sent", "done"}
BY PagesParameters DEF S!SessionAssumption

LEMMA SessionBegins == S!Init => SessionInv
<1> SUFFICES ASSUME S!Init PROVE SessionInv
  OBVIOUS
<1>1. SessionTyped
  BY SessionConstants DEF S!Init, SessionTyped
<1>2. OneMoves /\ ReadsForOne
  BY SessionConstants DEF S!Init, OneMoves, ReadsForOne
<1>3. HeldByOwner
  BY SessionConstants DEF S!Init, HeldByOwner, S!Held
<1> QED
  BY <1>1, <1>2, <1>3 DEF SessionInv

LEMMA SessionSays == SessionInv => S!NextSeesNone
<1> SUFFICES ASSUME SessionInv PROVE S!NextSeesNone
  OBVIOUS
<1>1. None \notin S!Held
  BY DEF S!Held
<1>2. account \in Persons => S!Held \subseteq {account}
  BY <1>1 DEF SessionInv, HeldByOwner
<1> QED
  BY <1>2 DEF SessionInv, HeldByOwner, S!NextSeesNone, S!SeesNoneOfIt

\* The requests of the pages.
LEMMA ReadKeeps ==
  ASSUME ~Late, SessionInv, NEW s \in S!Stores, S!refresh(s) \/ S!Read(s) \/ S!Answered(s)
  PROVE  SessionInv'
<1>0. UNCHANGED <<who, account, reqA, own, owner, login, logout, newcomer>> /\ (kept' = kept \/ S!Answered(s))
  BY DEF S!refresh, S!Read, S!Answered
<1>1. \A u \in S!Stores : u # s => req'[u] = req[u]
  BY DEF S!refresh, S!Read, S!Answered, SessionInv, SessionTyped
<1>2. DOMAIN req' = S!Stores /\ req' = [u \in S!Stores |-> req'[u]]
  BY DEF S!refresh, S!Read, S!Answered, SessionInv, SessionTyped
<1>3. CASE S!refresh(s)
  <2>1. /\ reqA = None /\ login = None /\ logout = None /\ account = who /\ account \in Persons
        /\ req'[s].says = None /\ kept' = kept
    BY <1>3 DEF S!refresh, SessionInv, SessionTyped
  <2>2. SessionTyped'
    BY <1>0, <1>2, <2>1 DEF SessionInv, SessionTyped
  <2>3. OneMoves'
    BY <1>0, <1>1, <2>1 DEF SessionInv, OneMoves
  <2>4. ReadsForOne'
    BY <1>0, <1>1, <2>1 DEF SessionInv, ReadsForOne
  <2>5. HeldByOwner'
    BY <1>0, <2>1 DEF SessionInv, HeldByOwner, S!Held
  <2> QED
    BY <2>2, <2>3, <2>4, <2>5 DEF SessionInv
<1>4. CASE S!Read(s)
  <2>1. req[s] # None /\ (req'[s] = None \/ req'[s].says = who) /\ kept' = kept
    BY <1>4 DEF S!Read, SessionInv, SessionTyped
  <2>2. SessionTyped'
    BY <1>0, <1>2, <2>1 DEF SessionInv, SessionTyped
  <2>3. OneMoves'
    BY <1>0, <1>1, <2>1 DEF SessionInv, OneMoves
  <2>4. ReadsForOne'
    BY <1>0, <1>1, <2>1 DEF SessionInv, ReadsForOne
  <2>5. HeldByOwner'
    BY <1>0, <2>1 DEF SessionInv, HeldByOwner, S!Held
  <2> QED
    BY <2>2, <2>3, <2>4, <2>5 DEF SessionInv
<1>5. CASE S!Answered(s)
  <2>1. /\ req[s] # None /\ req[s].says # None /\ req'[s] = None
        /\ kept' = [kept EXCEPT ![s] = req[s].says]
    BY <1>5 DEF S!Answered, SessionInv, SessionTyped
  <2>2. req[s].says = who /\ account = who /\ who \in Persons
    BY <2>1 DEF SessionInv, ReadsForOne
  <2>3. owner = who
    BY <2>2, SessionConstants DEF SessionInv, HeldByOwner
  <2>4. kept'[s] = who /\ (\A u \in S!Stores : u # s => kept'[u] = kept[u])
    BY <2>1, <2>2 DEF SessionInv, SessionTyped
  <2>5. SessionTyped'
    BY <1>0, <1>2, <2>1, <2>2 DEF SessionInv, SessionTyped
  <2>6. OneMoves' /\ ReadsForOne'
    BY <1>0, <1>1, <2>1 DEF SessionInv, OneMoves, ReadsForOne
  <2>7. S!Held' \subseteq {owner}
    <3> SUFFICES ASSUME NEW x \in S!Held' PROVE x = owner
      OBVIOUS
    <3>1. x # None /\ (x = own \/ \E u \in S!Stores : x = kept'[u])
      BY <1>0 DEF S!Held
    <3>2. own \in S!Held \/ own = None
      BY DEF S!Held
    <3>3. \A u \in S!Stores : kept[u] \in S!Held \/ kept[u] = None
      BY DEF S!Held
    <3> QED
      BY <2>3, <2>4, <3>1, <3>2, <3>3 DEF SessionInv, HeldByOwner
  <2>8. HeldByOwner'
    BY <1>0, <2>7 DEF SessionInv, HeldByOwner
  <2> QED
    BY <2>5, <2>6, <2>8 DEF SessionInv
<1> QED
  BY <1>3, <1>4, <1>5

\* The account.
LEMMA AccountKeeps ==
  ASSUME SessionInv, S!showPage \/ S!ReadAccount \/ S!AccountFails
  PROVE  SessionInv'
<1>0. UNCHANGED <<who, account, kept, req, own, owner, login, logout, newcomer>>
  BY DEF S!showPage, S!ReadAccount, S!AccountFails
<1>1. reqA' # None =>
        /\ reqA'.says \in Persons \cup {None, "nobody"}
        /\ reqA'.says \in {None, IF who = None THEN "nobody" ELSE who}
  BY DEF S!showPage, S!refreshAccount, S!ReadAccount, S!AccountFails, SessionInv, SessionTyped
<1>2. SessionTyped'
  BY <1>0, <1>1 DEF SessionInv, SessionTyped
<1>3. OneMoves' /\ HeldByOwner'
  BY <1>0 DEF SessionInv, OneMoves, HeldByOwner, S!Held
<1>4. ReadsForOne'
  BY <1>0, <1>1, SessionConstants DEF SessionInv, ReadsForOne
<1> QED
  BY <1>2, <1>3, <1>4 DEF SessionInv

LEMMA ToldKeeps ==
  ASSUME SessionInv, S!AccountAnswered
  PROVE  SessionInv'
<1>0. UNCHANGED <<who, req, login, logout, newcomer>> /\ reqA' = None /\ reqA # None /\ reqA.says # None
      /\ account' = (IF reqA.says = "nobody" THEN None ELSE reqA.says)
      /\ S!check(account')
  BY DEF S!AccountAnswered
<1>1. account' \in Persons \cup {None} /\ (account' \in Persons => account' = reqA.says)
  BY <1>0, SessionConstants DEF SessionInv, SessionTyped
<1>2. CASE account' \notin Persons
  <2>1. UNCHANGED <<owner, own, kept>>
    BY <1>0, <1>2 DEF S!check
  <2>2. \A s \in S!Stores : req[s] = None
    BY <1>0, <1>2, SessionConstants DEF SessionInv, ReadsForOne
  <2>3. SessionTyped'
    BY <1>0, <1>1, <2>1 DEF SessionInv, SessionTyped
  <2>4. OneMoves' /\ ReadsForOne'
    BY <1>0, <2>2 DEF SessionInv, OneMoves, ReadsForOne
  <2>5. HeldByOwner'
    BY <1>2, <2>1 DEF SessionInv, HeldByOwner, S!Held
  <2> QED
    BY <2>3, <2>4, <2>5 DEF SessionInv
<1>3. CASE account' \in Persons
  <2>1. /\ owner' = account'
        /\ \/ own' = None /\ kept' = [s \in S!Stores |-> None]
           \/ owner \in {None, account'} /\ UNCHANGED <<own, kept>>
    BY <1>0, <1>3 DEF S!check
  <2>2. \A s \in S!Stores : req[s] # None => account' = who
    BY <1>0, <1>1, <1>3 DEF SessionInv, ReadsForOne
  <2>3. SessionTyped'
    BY <1>0, <1>1, <1>3, <2>1 DEF SessionInv, SessionTyped
  <2>4. OneMoves' /\ ReadsForOne'
    BY <1>0, <2>2 DEF SessionInv, OneMoves, ReadsForOne
  <2>5. S!Held' \subseteq {account'}
    <3>1. CASE own' = None /\ kept' = [s \in S!Stores |-> None]
      BY <3>1 DEF S!Held
    <3>2. CASE owner \in {None, account'} /\ UNCHANGED <<own, kept>>
      BY <3>2 DEF S!Held, SessionInv, HeldByOwner
    <3> QED
      BY <2>1, <3>1, <3>2
  <2>6. HeldByOwner'
    BY <2>1, <2>5 DEF HeldByOwner
  <2> QED
    BY <2>3, <2>4, <2>6 DEF SessionInv
<1> QED
  BY <1>2, <1>3

\* Signing in and out.
LEMMA MovesKeep ==
  ASSUME ~Late, SessionInv,
         S!useFiles \/ (\E x \in Persons : S!signIn(x)) \/ S!signOut \/ S!Lapse \/ S!Restart
  PROVE  SessionInv'
<1>1. reqA = None /\ (\A s \in S!Stores : req[s] = None) /\ login = None /\ logout = None
  BY DEF S!useFiles, S!signIn, S!signOut, S!Lapse, S!Restart, S!Move, S!Quiet
<1>2. /\ UNCHANGED <<account, owner>>
      /\ who' \in {who, None} /\ reqA' = None /\ (\A s \in S!Stores : req'[s] = None)
      /\ DOMAIN req' = S!Stores /\ req' = [s \in S!Stores |-> req'[s]]
  BY <1>1 DEF S!useFiles, S!signIn, S!signOut, S!Lapse, S!Restart, S!state, SessionInv, SessionTyped
<1>3. own' \in Persons \cup {None} /\ kept' \in [S!Stores -> Persons \cup {None}]
  BY DEF S!useFiles, S!signIn, S!signOut, S!Lapse, S!Restart, S!state, SessionInv, SessionTyped, S!Stores
<1>4. S!Held' \subseteq S!Held
  BY DEF S!useFiles, S!signIn, S!signOut, S!Lapse, S!Restart, S!state, S!Held, SessionInv, SessionTyped, S!Stores
<1>5. /\ login' # None => login' = "sent" /\ newcomer' \in Persons /\ account = None /\ logout' = None
      /\ logout' # None => logout' = "sent" /\ login' = None
  BY <1>1 DEF S!useFiles, S!signIn, S!signOut, S!Lapse, S!Restart, S!state
<1>6. SessionTyped'
  BY <1>2, <1>3, <1>5, SessionConstants DEF SessionInv, SessionTyped
<1>7. OneMoves' /\ ReadsForOne'
  BY <1>2, <1>5, SessionConstants DEF OneMoves, ReadsForOne
<1>8. HeldByOwner'
  BY <1>2, <1>4, <1>5, SessionConstants DEF SessionInv, HeldByOwner
<1> QED
  BY <1>6, <1>7, <1>8 DEF SessionInv

LEMMA PostsKeep ==
  ASSUME SessionInv, S!Login \/ S!SignedIn \/ S!Logout \/ S!SignedOut \/ S!PostFails
  PROVE  SessionInv'
<1>0. UNCHANGED <<account, req>> /\ (login # None \/ logout # None)
  BY SessionConstants DEF S!Login, S!SignedIn, S!Logout, S!SignedOut, S!PostFails
<1>1. \A s \in S!Stores : req[s] = None
  BY <1>0 DEF SessionInv, OneMoves
<1>2. ReadsForOne'
  BY <1>0, <1>1 DEF ReadsForOne
<1>3. reqA' # None => reqA'.says \in Persons \cup {None, "nobody"}
  BY DEF S!Login, S!SignedIn, S!Logout, S!SignedOut, S!PostFails, S!refreshAccount, SessionInv, SessionTyped
<1>4. CASE S!SignedOut
  <2>1. /\ logout = "done" /\ logout' = None /\ owner' = None /\ own' = None /\ kept' = [s \in S!Stores |-> None]
        /\ UNCHANGED <<who, login, newcomer>>
    BY <1>4 DEF S!SignedOut, S!forgetUser
  <2>2. who = None /\ login = None
    BY <2>1, SessionConstants DEF SessionInv, OneMoves
  <2>3. SessionTyped'
    BY <1>0, <1>3, <2>1 DEF SessionInv, SessionTyped
  <2>4. OneMoves'
    BY <1>0, <1>1, <2>1, <2>2 DEF OneMoves
  <2>5. HeldByOwner'
    BY <1>0, <2>1, <2>2 DEF HeldByOwner, S!Held
  <2> QED
    BY <1>2, <2>3, <2>4, <2>5 DEF SessionInv
<1>5. CASE ~S!SignedOut
  <2>1. UNCHANGED <<kept, own, owner>>
    BY <1>5 DEF S!Login, S!SignedIn, S!Logout, S!PostFails
  <2>2. /\ who' \in {who, None} \/ (login = "sent" /\ who' = newcomer)
        /\ login' \in {login, None} \/ (login = "sent" /\ login' = "done")
        /\ logout' \in {logout, None} \/ (logout = "sent" /\ logout' = "done" /\ who' = None)
        /\ login # None => logout' = logout
        /\ logout # None => login' = login /\ who' \in {who, None}
        /\ newcomer' = newcomer \/ login' = None
    BY <1>5, SessionConstants DEF S!Login, S!SignedIn, S!Logout, S!PostFails, SessionInv, OneMoves
  <2>3. SessionTyped'
    BY <1>0, <1>3, <2>1, <2>2, SessionConstants DEF SessionInv, SessionTyped
  <2>4. OneMoves'
    BY <1>0, <1>1, <2>2, SessionConstants DEF SessionInv, OneMoves
  <2>5. HeldByOwner'
    BY <1>0, <2>1, <2>2, SessionConstants DEF SessionInv, HeldByOwner, S!Held
  <2> QED
    BY <1>2, <2>3, <2>4, <2>5 DEF SessionInv
<1> QED
  BY <1>4, <1>5

LEMMA SessionKeeps ==
  ASSUME ~Late, SessionInv, [S!Next]_(S!vars)
  PROVE  SessionInv'
<1>1. CASE UNCHANGED S!vars
  <2>1. UNCHANGED <<who, account, reqA, kept, req, own, owner, login, logout, newcomer>>
    BY <1>1 DEF S!vars, S!state
  <2> QED
    BY <2>1 DEF SessionInv, SessionTyped, OneMoves, ReadsForOne, HeldByOwner, S!Held
<1>2. CASE \E s \in S!Stores : S!refresh(s) \/ S!Read(s) \/ S!Answered(s)
  BY <1>2, ReadKeeps
<1>3. CASE S!showPage \/ S!ReadAccount \/ S!AccountFails
  BY <1>3, AccountKeeps
<1>4. CASE S!AccountAnswered
  BY <1>4, ToldKeeps
<1>5. CASE S!useFiles \/ (\E x \in Persons : S!signIn(x)) \/ S!signOut \/ S!Lapse \/ S!Restart
  BY <1>5, MovesKeep
<1>6. CASE S!Login \/ S!SignedIn \/ S!Logout \/ S!SignedOut \/ S!PostFails
  BY <1>6, PostsKeep
<1> QED
  BY <1>1, <1>2, <1>3, <1>4, <1>5, <1>6 DEF S!Next

-----------------------------------------------------------------------------
\* Keys on a dark screen (WakeKeys).

KeysTyped ==
  /\ lit \in BOOLEAN /\ sleeps \in 0..MaxSleeps /\ lost \in 0..MaxLost /\ recent \in BOOLEAN
  /\ down \subseteq W!All
Swallowed ==
  /\ dark \cap got = {} /\ Volume \notin dark
  /\ dark \ {Power} \subseteq wakeKeys
  /\ wakeKeys \subseteq down /\ got \subseteq down /\ Power \notin got
KeysInv == KeysTyped /\ Swallowed

LEMMA KeysConstants ==
  /\ MaxSleeps \in Nat /\ MaxLost \in Nat /\ Volume \notin Keys /\ Power \notin Keys /\ Volume # Power
BY PagesParameters DEF W!WakeKeysAssumption

LEMMA KeysBegin == W!Init => KeysInv
<1> SUFFICES ASSUME W!Init PROVE KeysInv
  OBVIOUS
<1>1. KeysTyped
  <2>1. lit \in BOOLEAN /\ recent \in BOOLEAN /\ down \subseteq W!All
    BY DEF W!Init
  <2>2. sleeps \in 0..MaxSleeps /\ lost \in 0..MaxLost
    BY KeysConstants DEF W!Init
  <2> QED
    BY <2>1, <2>2 DEF KeysTyped
<1>2. Swallowed
  BY DEF W!Init, Swallowed
<1> QED
  BY <1>1, <1>2 DEF KeysInv

LEMMA KeysSay == KeysInv => W!OnlyWakes
BY DEF KeysInv, KeysTyped, Swallowed, W!OnlyWakes, W!TypeOK

\* A press or a repeat: it is swallowed, or the page gets it.
LEMMA SeenKeeps ==
  ASSUME KeysInv, NEW key \in W!All, W!Seen(key),
         UNCHANGED <<lit, sleeps, lost>>, down' = down \cup {key},
         \/ dark' = dark /\ key \in down
         \/ key \notin down /\ dark' = (IF lit \/ key = Volume THEN dark ELSE dark \cup {key})
  PROVE  KeysInv'
<1>1. KeysTyped'
  BY DEF W!Seen, W!wakeScreen, KeysInv, KeysTyped
<1>2. CASE key = Power
  <2>1. UNCHANGED <<wakeKeys, recent, asked, got>> /\ dark' \subseteq dark \cup {Power}
    BY <1>2 DEF W!Seen
  <2>2. Swallowed'
    BY <1>2, <2>1, KeysConstants DEF KeysInv, Swallowed
  <2> QED
    BY <1>1, <2>2 DEF KeysInv
<1>3. CASE key # Power /\ key # Volume /\ (key \in wakeKeys \/ ~lit)
  <2>1. wakeKeys' = wakeKeys \cup {key} /\ got' = got
    BY <1>3 DEF W!Seen
  <2> QED
    BY <1>1, <1>3, <2>1 DEF KeysInv, Swallowed
<1>4. CASE key # Power /\ (key = Volume \/ (key \notin wakeKeys /\ lit))
  <2>1. got' = got \cup {key} /\ wakeKeys' = wakeKeys
    BY <1>4 DEF W!Seen
  <2> QED
    BY <1>1, <1>4, <2>1 DEF KeysInv, Swallowed
<1> QED
  BY <1>2, <1>3, <1>4

LEMMA KeysKeep ==
  ASSUME KeysInv, [W!Next]_(W!vars)
  PROVE  KeysInv'
<1>1. CASE W!SleepsNow \/ W!TimeGoesBy \/ W!Wakes \/ UNCHANGED W!vars
  <2>1. UNCHANGED <<down, dark, wakeKeys, got>>
    BY <1>1 DEF W!SleepsNow, W!TimeGoesBy, W!Wakes, W!vars
  <2>2. lit' \in BOOLEAN /\ recent' \in BOOLEAN
    BY <1>1 DEF W!SleepsNow, W!TimeGoesBy, W!Wakes, W!vars, KeysInv, KeysTyped
  <2>3. sleeps' \in 0..MaxSleeps /\ lost' \in 0..MaxLost
    BY <1>1, KeysConstants DEF W!SleepsNow, W!TimeGoesBy, W!Wakes, W!vars, KeysInv, KeysTyped
  <2> QED
    BY <2>1, <2>2, <2>3 DEF KeysInv, KeysTyped, Swallowed
<1>2. CASE W!keyDown
  <2>1. PICK key \in W!All \ down :
          /\ down' = down \cup {key} /\ dark' = (IF lit \/ key = Volume THEN dark ELSE dark \cup {key})
          /\ W!Seen(key) /\ UNCHANGED <<lit, sleeps, lost>>
    BY <1>2 DEF W!keyDown
  <2> QED
    BY <2>1, SeenKeeps
<1>3. CASE W!Repeat
  <2>1. PICK key \in down : W!Seen(key) /\ UNCHANGED <<lit, sleeps, lost, down, dark>>
    BY <1>3 DEF W!Repeat
  <2>2. key \in W!All /\ down' = down \cup {key}
    BY <2>1 DEF KeysInv, KeysTyped
  <2> QED
    BY <2>1, <2>2, SeenKeeps
<1>4. CASE W!keyUp
  <2>1. PICK key \in W!All : W!Release(key)
    BY <1>4 DEF W!keyUp
  <2>2. KeysTyped'
    BY <2>1 DEF W!Release, KeysInv, KeysTyped
  <2>3. Swallowed'
    BY <2>1 DEF W!Release, KeysInv, Swallowed
  <2> QED
    BY <2>2, <2>3 DEF KeysInv
<1> QED
  BY <1>1, <1>2, <1>3, <1>4 DEF W!Next

-----------------------------------------------------------------------------
\* The chip of the tasks (Tasks).

States == {"none", "running", "done", "failed", "cancelled"}
\* What is known of a task: once it says how it ended, it ended so.
TaskOk(x) ==
  /\ x.id \in TaskIds /\ x.state \in States \ {"none"}
  /\ x.state # "running" => state[x.id] = x.state
PollOk(q) ==
  /\ q = [id |-> q.id, says |-> q.says]
  /\ q.says # None => \A x \in q.says : TaskOk(x)
TasksKnown ==
  /\ state \in [TaskIds -> States]
  /\ \A x \in tasks : TaskOk(x)
  /\ \A q \in polls : PollOk(q)
ChipPolls ==
  /\ orphans \in Nat /\ timer \in BOOLEAN /\ chip \in BOOLEAN
  /\ chip <=> T!running(tasks) # {}
  /\ chip => timer \/ orphans > 0 \/ polls # {}
SaidOnce ==
  /\ said \in [TaskIds -> 0..1]
  /\ \A x \in TaskIds : said[x] = 1 => x \in seen /\ state[x] \in {"done", "failed"}
TasksInv == TasksKnown /\ ChipPolls /\ SaidOnce

LEMMA TasksBegin == T!Init => TasksInv
<1> SUFFICES ASSUME T!Init PROVE TasksInv
  OBVIOUS
<1> DEFINE first == [id |-> 1, says |-> None]
<1>1. polls = {first}
  BY DEF T!Init
<1>2. first.says = None /\ first = [id |-> first.id, says |-> first.says]
  OBVIOUS
<1> HIDE DEF first
<1>3. PollOk(first)
  BY <1>2 DEF PollOk
<1>4. TasksKnown
  BY <1>1, <1>3 DEF T!Init, TasksKnown, States
<1>5. ChipPolls
  BY DEF T!Init, ChipPolls, T!running
<1>6. SaidOnce
  BY DEF T!Init, SaidOnce
<1> QED
  BY <1>4, <1>5, <1>6 DEF TasksInv

LEMMA TasksSay == TasksInv => T!ChipSound
<1> SUFFICES ASSUME TasksInv PROVE T!ChipSound
  OBVIOUS
<1>1. \A x \in tasks : x.id \in TaskIds /\ x.state \in {"running", "done", "failed", "cancelled"}
  BY DEF TasksInv, TasksKnown, TaskOk, States
<1>2. \A x \in TaskIds : said[x] <= 1
  BY DEF TasksInv, SaidOnce
<1> QED
  BY <1>1, <1>2 DEF TasksInv, ChipPolls, SaidOnce, T!ChipSound

\* A state that ends nothing that has ended changes nothing that is known.
LEMMA StateMoves ==
  ASSUME TasksInv, state' \in [TaskIds -> States],
         \A x \in TaskIds : state[x] \in {"done", "failed", "cancelled"} => state'[x] = state[x],
         UNCHANGED <<tasks, seen, said>>
  PROVE  /\ SaidOnce' /\ (\A x \in tasks' : TaskOk(x)')
         /\ \A q : PollOk(q) => PollOk(q)'
<1>1. ASSUME NEW x, TaskOk(x) PROVE TaskOk(x)'
  BY <1>1 DEF TaskOk, States
<1>2. ASSUME NEW q, PollOk(q) PROVE PollOk(q)'
  BY <1>1, <1>2 DEF PollOk
<1>3. \A x \in tasks' : TaskOk(x)'
  BY <1>1 DEF TasksInv, TasksKnown
<1>4. SaidOnce'
  BY DEF TasksInv, SaidOnce
<1> QED
  BY <1>2, <1>3, <1>4

LEMMA PollAsks ==
  ASSUME TasksInv, T!poll, UNCHANGED <<tasks, chip>>, orphans' \in Nat,
         \A q : PollOk(q) => PollOk(q)'
  PROVE  ChipPolls' /\ (\A q \in polls' : PollOk(q)')
<1>1. PICK q : q = [id |-> CHOOSE i \in T!FreePolls : TRUE, says |-> None]
  OBVIOUS
<1>2. polls' = polls \cup {q} /\ timer' = FALSE
  BY <1>1 DEF T!poll
<1>3. PollOk(q)
  BY <1>1 DEF PollOk
<1>4. \A r \in polls' : PollOk(r)'
  BY <1>2, <1>3 DEF TasksInv, TasksKnown
<1>5. ChipPolls'
  BY <1>2 DEF TasksInv, ChipPolls, T!running
<1> QED
  BY <1>4, <1>5

\* A task begins or ends, or is asked for.
LEMMA TaskKeeps ==
  ASSUME TasksInv, NEW x \in TaskIds, T!startTask(x) \/ T!Begins(x) \/ T!Ends(x)
  PROVE  TasksInv'
<1>1. UNCHANGED <<tasks, chip, seen, said, polls, timer, orphans>>
  BY DEF T!startTask, T!Begins, T!Ends
<1>2. state' \in [TaskIds -> States]
  BY DEF T!startTask, T!Begins, T!Ends, TasksInv, TasksKnown, States
<1>3. \A y \in TaskIds : state[y] \in {"done", "failed", "cancelled"} => state'[y] = state[y]
  BY DEF T!startTask, T!Begins, T!Ends, TasksInv, TasksKnown
<1>4. SaidOnce' /\ TasksKnown'
  BY <1>1, <1>2, <1>3, StateMoves DEF TasksInv, TasksKnown
<1>5. ChipPolls'
  BY <1>1 DEF TasksInv, ChipPolls, T!running
<1> QED
  BY <1>4, <1>5 DEF TasksInv

LEMMA AskKeeps ==
  ASSUME TasksInv, T!TimerDue \/ T!OrphanDue \/ T!cancel \/ (\E x \in TaskIds : T!Started(x))
  PROVE  TasksInv'
<1>1. UNCHANGED <<tasks, chip, seen, said>> /\ T!poll
  BY DEF T!TimerDue, T!OrphanDue, T!cancel, T!Started
<1>2. orphans' \in Nat
  BY DEF T!TimerDue, T!OrphanDue, T!cancel, T!Started, TasksInv, ChipPolls
<1>3. /\ state' \in [TaskIds -> States]
      /\ \A y \in TaskIds : state[y] \in {"done", "failed", "cancelled"} => state'[y] = state[y]
  <2>1. CASE state' = state
    BY <2>1 DEF TasksInv, TasksKnown
  <2>2. CASE T!cancel
    <3>1. PICK x \in T!running(tasks) :
            state' = [state EXCEPT ![x.id] = IF state[x.id] = "running" THEN "cancelled" ELSE state[x.id]]
      BY <2>2 DEF T!cancel
    <3> QED
      BY <3>1 DEF TasksInv, TasksKnown, States
  <2> QED
    BY <2>1, <2>2 DEF T!TimerDue, T!OrphanDue, T!Started
<1>4. SaidOnce' /\ (\A y \in tasks' : TaskOk(y)') /\ \A q : PollOk(q) => PollOk(q)'
  BY <1>1, <1>3, StateMoves
<1>5. ChipPolls' /\ (\A q \in polls' : PollOk(q)')
  BY <1>1, <1>2, <1>4, PollAsks
<1> QED
  BY <1>3, <1>4, <1>5 DEF TasksInv, TasksKnown

LEMMA TasksReadKeeps ==
  ASSUME TasksInv, T!Read
  PROVE  TasksInv'
<1> DEFINE Now == {[id |-> x, state |-> state[x]] : x \in {y \in TaskIds : state[y] # "none"}}
<1>1. PICK q \in polls : q.says = None /\ polls' = (polls \ {q}) \cup {[q EXCEPT !.says = Now]}
  BY DEF T!Read
<1>2. UNCHANGED <<state, tasks, chip, seen, said, timer, orphans>>
  BY DEF T!Read
<1>3. \A x \in Now : TaskOk(x)
  BY DEF TaskOk, TasksInv, TasksKnown, States
<1>4. [q EXCEPT !.says = Now] = [id |-> q.id, says |-> Now]
  BY DEF TasksInv, TasksKnown, PollOk
<1>5. PICK r : r = [id |-> q.id, says |-> Now]
  OBVIOUS
<1> HIDE DEF Now
<1>6. PollOk(r)
  BY <1>3, <1>5 DEF PollOk
<1>7. polls' = (polls \ {q}) \cup {r}
  BY <1>1, <1>4, <1>5
<1>8. \A m : PollOk(m) => PollOk(m)'
  BY <1>2 DEF PollOk, TaskOk
<1>9. TasksKnown'
  BY <1>2, <1>6, <1>7, <1>8 DEF TasksInv, TasksKnown, TaskOk
<1>10. ChipPolls' /\ SaidOnce'
  BY <1>2, <1>7 DEF TasksInv, ChipPolls, SaidOnce, T!running
<1> QED
  BY <1>9, <1>10 DEF TasksInv

LEMMA PaintedChip ==
  ASSUME TasksInv, NEW ts, T!painted(ts)
  PROVE  ChipPolls'
<1>1. tasks' = ts /\ chip' = (T!running(ts) # {}) /\ timer' = (timer \/ T!running(ts) # {})
      /\ orphans' \in {orphans, orphans + 1}
  BY DEF T!painted
<1>2. orphans' \in Nat
  BY <1>1 DEF TasksInv, ChipPolls
<1>3. chip' \in BOOLEAN /\ timer' \in BOOLEAN /\ (chip' => timer') /\ (chip' <=> T!running(ts) # {})
  BY <1>1 DEF TasksInv, ChipPolls
<1>4. T!running(tasks)' = T!running(ts)
  BY <1>1 DEF T!running
<1> QED
  BY <1>2, <1>3, <1>4 DEF ChipPolls

LEMMA TasksToldKeeps ==
  ASSUME TasksInv, T!Answered \/ T!Missed
  PROVE  TasksInv'
<1>1. state' = state
  BY DEF T!Answered, T!Missed
<1>2. \A m : (PollOk(m) => PollOk(m)') /\ (TaskOk(m) => TaskOk(m)')
  BY <1>1 DEF PollOk, TaskOk
<1>3. CASE T!Missed
  <2>1. T!painted({}) /\ polls' \subseteq polls /\ UNCHANGED <<seen, said>> /\ tasks' = {}
    BY <1>3 DEF T!Missed, T!painted
  <2>2. TasksKnown' /\ SaidOnce'
    BY <1>1, <1>2, <2>1 DEF TasksInv, TasksKnown, SaidOnce
  <2> QED
    BY <2>1, <2>2, PaintedChip DEF TasksInv
<1>4. CASE T!Answered
  <2>1. PICK q \in polls :
          /\ q.says # None /\ polls' = polls \ {q} /\ T!painted(q.says)
          /\ seen' = seen \cup {x.id : x \in {y \in q.says : y.state # "running" /\ y.id \notin seen}}
          /\ said' = [x \in TaskIds |->
               IF T!running(q.says) = {}
                    /\ \E e \in {y \in q.says : y.state # "running" /\ y.id \notin seen} :
                         e.id = x /\ e.state # "cancelled"
               THEN said[x] + 1 ELSE said[x]]
    BY <1>4 DEF T!Answered
  <2>2. \A x \in q.says : TaskOk(x)
    BY <2>1 DEF TasksInv, TasksKnown, PollOk
  <2>3. TasksKnown'
    BY <1>1, <1>2, <2>1, <2>2 DEF TasksInv, TasksKnown, T!painted
  <2>4. ASSUME NEW x \in TaskIds
        PROVE  said'[x] \in 0..1 /\ (said'[x] = 1 => x \in seen' /\ state[x] \in {"done", "failed"})
    <3>1. CASE said'[x] = said[x]
      BY <2>1, <3>1 DEF TasksInv, SaidOnce
    <3>2. CASE said'[x] = said[x] + 1 /\ said'[x] # said[x]
      <4>1. PICK e \in q.says : e.state # "running" /\ e.id \notin seen /\ e.id = x /\ e.state # "cancelled"
        BY <2>1, <3>2
      <4>2. said[x] = 0
        BY <4>1 DEF TasksInv, SaidOnce
      <4>3. state[x] \in {"done", "failed"}
        BY <2>2, <4>1 DEF TaskOk, States
      <4>4. x \in seen'
        BY <2>1, <4>1
      <4> QED
        BY <3>2, <4>2, <4>3, <4>4
    <3> QED
      BY <2>1, <3>1, <3>2
  <2>5. said' = [x \in TaskIds |-> said'[x]]
    BY <2>1
  <2>6. SaidOnce'
    BY <1>1, <2>4, <2>5 DEF SaidOnce
  <2> QED
    BY <2>1, <2>3, <2>6, PaintedChip DEF TasksInv
<1> QED
  BY <1>3, <1>4

LEMMA TasksKeep ==
  ASSUME TasksInv, [T!Next]_(T!vars)
  PROVE  TasksInv'
<1>1. CASE UNCHANGED T!vars
  BY <1>1 DEF T!vars, TasksInv, TasksKnown, TaskOk, PollOk, ChipPolls, SaidOnce, T!running
<1>2. CASE \E x \in TaskIds : T!startTask(x) \/ T!Begins(x) \/ T!Ends(x)
  BY <1>2, TaskKeeps
<1>3. CASE T!TimerDue \/ T!OrphanDue \/ T!cancel \/ (\E x \in TaskIds : T!Started(x))
  BY <1>3, AskKeeps
<1>4. CASE T!Read
  BY <1>4, TasksReadKeeps
<1>5. CASE T!Answered \/ T!Missed
  BY <1>5, TasksToldKeeps
<1> QED
  BY <1>1, <1>2, <1>3, <1>4, <1>5 DEF T!Next

-----------------------------------------------------------------------------
\* The preview and its viewer (Viewer).

Viewed == [n : Nat, item : Items]
Asks == {"info", "more", "asked"}
Waits == [id : Nat, v : Viewed, at : Asks \cup {"cut", "posting", "done"}]
\* The preview is to be up.
Viewing == current # None /\ flows = {} /\ frame = {}

ViewerTyped ==
  /\ current \in {None} \cup Viewed
  /\ viewers \in 0..MaxViewers /\ sheets \in 0..MaxSheets
  /\ current # None => current.n \in 1..MaxViewers
  /\ page \in Items \cup {None} /\ visible \in BOOLEAN
\* One tap at a time: the frame of a viewer that opens, or one flow of the bar.
OneTap ==
  /\ frame # {} => /\ frame = {current} /\ current # None /\ flows = {}
                   /\ ipc = <<>> /\ cookies = {} /\ ~visible /\ page = None
  /\ over # None => flows # {} /\ current # None
  /\ flows # {} => \E f \in Waits : /\ flows = {f} /\ (current # None => f.v = current)
                                    /\ over = IF f.at \in Asks THEN f.id ELSE None
\* What the messages on their way make of the native view is what the bar wants.
Native ==
  \/ /\ ipc = <<>> /\ cookies = {} /\ (visible <=> Viewing)
     /\ page = IF Viewing THEN current.item ELSE None
  \/ /\ ipc = <<>> /\ Viewing /\ visible
     /\ \E k \in cookies : cookies = {k} /\ k.item = current.item
  \/ ipc = <<V!Open(current.item)>> /\ cookies = {} /\ Viewing /\ ~visible /\ page = None
  \/ ipc = <<V!Close, V!Open(current.item)>> /\ cookies = {} /\ Viewing
  \/ ipc = <<V!Close>> /\ cookies = {} /\ ~Viewing /\ frame = {}
  \/ ipc = <<V!Close, V!Close>> /\ cookies = {} /\ ~Viewing /\ frame = {} /\ flows = {}
ViewerInv == ViewerTyped /\ OneTap /\ Native

LEMMA ViewerConstants ==
  MaxViewers \in Nat /\ MaxSheets \in Nat /\ None \notin Nat /\ None \notin Viewed
BY PagesParameters DEF V!ViewerAssumption, Viewed

LEMMA ViewerBegins == V!Init => ViewerInv
<1> SUFFICES ASSUME V!Init PROVE ViewerInv
  OBVIOUS
<1>1. ViewerTyped
  <2>1. viewers \in 0..MaxViewers /\ sheets \in 0..MaxSheets
    BY ViewerConstants DEF V!Init
  <2> QED
    BY <2>1 DEF V!Init, ViewerTyped
<1>2. OneTap
  BY DEF V!Init, OneTap
<1>3. Native
  BY DEF V!Init, Native, Viewing
<1> QED
  BY <1>1, <1>2, <1>3 DEF ViewerInv

LEMMA ViewerSays == ViewerInv => V!PreviewTruthful
<1> SUFFICES ASSUME ViewerInv PROVE V!PreviewTruthful
  OBVIOUS
<1>1. V!TypeOK
  BY DEF ViewerInv, ViewerTyped, V!TypeOK, Viewed
<1>2. ASSUME ipc = <<>>, cookies = {}, frame = {}, flows = {} \/ over # None
      PROVE  /\ visible <=> current # None /\ over = None
             /\ page = IF visible THEN current.item ELSE None
  <2>1. (visible <=> Viewing) /\ page = IF Viewing THEN current.item ELSE None
    BY <1>2 DEF ViewerInv, Native
  <2>2. Viewing <=> current # None /\ over = None
    BY <1>2 DEF ViewerInv, OneTap, Viewing
  <2> QED
    BY <2>1, <2>2
<1> QED
  BY <1>1, <1>2 DEF V!PreviewTruthful, V!Under

\* The messages.
LEMMA Heads ==
  ASSUME NEW x, NEW y
  PROVE  /\ Head(<<x>>) = x /\ Tail(<<x>>) = <<>> /\ <<x>> # <<>>
         /\ Head(<<x, y>>) = x /\ Tail(<<x, y>>) = <<y>> /\ <<x, y>> # <<>>
         /\ Append(<<>>, x) = <<x>> /\ Append(<<x>>, y) = <<x, y>>
<1> DEFINE s == Append(<<x>>, y)
           t == <<x, y>>
<1>1. Head(<<x>>) = x /\ Head(<<x, y>>) = x
  OBVIOUS
<1>2. Tail(<<x>>) = <<>>
  OBVIOUS
<1>3. Tail(<<x, y>>) = <<y>>
  OBVIOUS
<1>4. <<x>> # <<>> /\ <<x, y>> # <<>>
  OBVIOUS
<1>5. Append(<<>>, x) = <<x>>
  OBVIOUS
<1>6. s \in Seq({x, y}) /\ Len(s) = 2 /\ s[1] = x /\ s[2] = y
  <2>1. <<x>> \in Seq({x, y}) /\ Len(<<x>>) = 1 /\ <<x>>[1] = x
    OBVIOUS
  <2> QED
    BY <2>1, AppendProperties
<1>7. t \in Seq({x, y}) /\ Len(t) = 2 /\ t[1] = x /\ t[2] = y
  OBVIOUS
<1> HIDE DEF s, t
<1>8. \A i \in 1..2 : s[i] = t[i]
  <2> SUFFICES ASSUME NEW i \in 1..2 PROVE s[i] = t[i]
    OBVIOUS
  <2>1. i = 1 \/ i = 2
    OBVIOUS
  <2> QED
    BY <1>6, <1>7, <2>1
<1>9. s = t
  BY <1>6, <1>7, <1>8, SeqEqual
<1> QED
  BY <1>1, <1>2, <1>3, <1>4, <1>5, <1>9 DEF s, t

LEMMA NativeKeeps ==
  ASSUME ViewerInv, V!previewOpen \/ V!loaded \/ V!previewClose
  PROVE  ViewerInv'
<1>0. UNCHANGED <<current, viewers, over, sheets, flows, frame>> /\ frame = {}
  BY DEF V!previewOpen, V!loaded, V!previewClose, V!bar, ViewerInv, OneTap
<1>1. OneTap' /\ (Viewing' <=> Viewing)
  BY <1>0 DEF ViewerInv, OneTap, Viewing
<1>2. Viewing => current.item \in Items
  BY DEF Viewing, ViewerInv, ViewerTyped, Viewed
<1>3. CASE V!previewOpen
  <2>1. ipc = <<V!Open(current.item)>> /\ cookies = {} /\ Viewing /\ ~visible /\ page = None
    BY <1>3, Heads DEF V!previewOpen, ViewerInv, Native, V!Open, V!Close
  <2>2. PICK k : k = [k |-> served + 1, item |-> current.item]
    OBVIOUS
  <2>3. ipc' = <<>> /\ visible' = TRUE /\ cookies' = {k} /\ page' = page
    BY <1>3, <2>1, <2>2, Heads DEF V!previewOpen, V!Open
  <2>4. k.item = current.item
    BY <2>2
  <2>5. Native'
    BY <1>0, <1>1, <2>1, <2>3, <2>4 DEF Native
  <2>6. ViewerTyped'
    BY <1>0, <2>3 DEF ViewerInv, ViewerTyped
  <2> QED
    BY <1>1, <2>5, <2>6 DEF ViewerInv
<1>4. CASE V!loaded
  <2>1. ipc = <<>> /\ Viewing /\ visible /\ \E k \in cookies : cookies = {k} /\ k.item = current.item
    BY <1>4 DEF V!loaded, ViewerInv, Native
  <2>2. cookies' = {} /\ page' = current.item /\ UNCHANGED <<ipc, visible>>
    BY <1>4, <2>1 DEF V!loaded
  <2>3. Native'
    BY <1>0, <1>1, <2>1, <2>2 DEF Native, ViewerInv, ViewerTyped
  <2>4. ViewerTyped'
    BY <1>0, <1>2, <2>1, <2>2 DEF ViewerInv, ViewerTyped
  <2> QED
    BY <1>1, <2>3, <2>4 DEF ViewerInv
<1>5. CASE V!previewClose
  <2>1. cookies' = cookies /\ ~visible' /\ page' = None /\ visible' = FALSE /\ ipc' = Tail(ipc)
        /\ ipc # <<>> /\ Head(ipc).op = "close"
    BY <1>5 DEF V!previewClose
  <2>2. ViewerTyped'
    BY <1>0, <2>1 DEF ViewerInv, ViewerTyped
  <2>3. \/ ipc' = <<V!Open(current.item)>> /\ cookies = {} /\ Viewing
        \/ ipc' = <<>> /\ cookies = {} /\ ~Viewing
        \/ ipc' = <<V!Close>> /\ cookies = {} /\ ~Viewing
    <3>1. CASE ipc = <<V!Open(current.item)>>
      BY <2>1, <3>1, Heads DEF V!Open
    <3>2. CASE ipc = <<V!Close, V!Open(current.item)>>
      BY <2>1, <3>2, Heads DEF ViewerInv, Native, V!Open, V!Close
    <3>3. CASE ipc = <<V!Close>>
      BY <2>1, <3>3, Heads DEF ViewerInv, Native, V!Open, V!Close
    <3>4. CASE ipc = <<V!Close, V!Close>>
      BY <2>1, <3>4, Heads DEF ViewerInv, Native, V!Open, V!Close
    <3> QED
      BY <2>1, <3>1, <3>2, <3>3, <3>4 DEF ViewerInv, Native
  <2>4. Native'
    BY <1>0, <1>1, <2>1, <2>3 DEF Native, V!Open, V!Close
  <2> QED
    BY <1>1, <2>2, <2>4 DEF ViewerInv
<1> QED
  BY <1>3, <1>4, <1>5

\* The bar.
LEMMA BarKeeps ==
  ASSUME ~Hasty, ViewerInv, V!openViewer \/ V!Frame \/ V!closeViewer \/ V!dismissAll
  PROVE  ViewerInv'
<1>0. UNCHANGED <<visible, page, cookies, sheets>> /\ cookies = {}
  BY DEF V!openViewer, V!Frame, V!closeViewer, V!dismissAll, V!Free, V!Under, V!native, ViewerInv, OneTap
<1>1. CASE V!openViewer
  <2>1. PICK item \in Items : current' = [n |-> viewers + 1, item |-> item]
    BY <1>1 DEF V!openViewer
  <2>2. /\ current = None /\ over' = None /\ flows = {} /\ flows' = {} /\ frame = {} /\ frame' = {current'}
        /\ ipc = <<>> /\ ipc' = <<>> /\ viewers < MaxViewers /\ viewers' = viewers + 1
    BY <1>1 DEF V!openViewer, V!Free, V!Under
  <2>3. viewers' \in 0..MaxViewers /\ viewers + 1 \in 1..MaxViewers /\ viewers + 1 \in Nat
    BY <2>2, ViewerConstants DEF ViewerInv, ViewerTyped
  <2>4. current' \in Viewed /\ current'.n = viewers + 1
    BY <2>1, <2>3 DEF Viewed
  <2>5. ViewerTyped'
    BY <1>0, <2>3, <2>4 DEF ViewerInv, ViewerTyped
  <2>6. ~visible /\ page = None
    BY <2>2, Heads DEF ViewerInv, Native, Viewing
  <2>7. OneTap'
    BY <1>0, <2>2, <2>4, <2>6, ViewerConstants DEF OneTap
  <2>8. Native'
    BY <1>0, <2>2, <2>6 DEF Native, Viewing
  <2> QED
    BY <2>5, <2>7, <2>8 DEF ViewerInv
<1>2. CASE V!Frame
  <2>1. /\ frame = {current} /\ current # None /\ flows = {} /\ ipc = <<>> /\ ~visible /\ page = None
        /\ over = None
    BY <1>2 DEF V!Frame, ViewerInv, OneTap
  <2>2. UNCHANGED <<current, viewers, over, flows>> /\ frame' = {} /\ ipc' = <<V!Open(current.item)>>
    BY <1>2, <2>1, Heads DEF V!Frame
  <2>3. ViewerTyped'
    BY <1>0, <2>2 DEF ViewerInv, ViewerTyped
  <2>4. OneTap' /\ Native'
    BY <1>0, <2>1, <2>2 DEF OneTap, Native, Viewing
  <2> QED
    BY <2>3, <2>4 DEF ViewerInv
<1>3. CASE V!closeViewer \/ V!dismissAll
  <2>1. /\ current' = None /\ over' = None /\ ipc = <<>> /\ ipc' = <<V!Close>> /\ frame = {} /\ frame' = {}
        /\ viewers' = viewers /\ \A f \in flows : f.id = over
        /\ flows' = {IF f.id = over THEN [f EXCEPT !.at = "done"] ELSE f : f \in flows}
    BY <1>3, Heads DEF V!closeViewer, V!dismissAll, V!closed, V!Free, V!Under
  <2>2. ViewerTyped'
    BY <1>0, <2>1 DEF ViewerInv, ViewerTyped
  <2>3. ASSUME NEW f \in Waits, flows = {f}
        PROVE  \E g \in Waits : flows' = {g} /\ g.at = "done"
    <3>1. PICK g : g = [f EXCEPT !.at = "done"]
      OBVIOUS
    <3>2. g \in Waits /\ g.at = "done"
      BY <3>1 DEF Waits, Asks
    <3>3. flows' = {g}
      BY <2>1, <2>3, <3>1
    <3> QED
      BY <3>2, <3>3
  <2>4. flows = {} => flows' = {}
    BY <2>1
  <2>5. OneTap'
    BY <2>1, <2>3, <2>4 DEF ViewerInv, OneTap, Asks
  <2>6. Native'
    BY <1>0, <2>1 DEF Native, Viewing
  <2> QED
    BY <2>2, <2>5, <2>6 DEF ViewerInv
<1> QED
  BY <1>1, <1>2, <1>3

\* A sheet of the bar, and what was asked there.
LEMMA FlowKeeps ==
  ASSUME ~Hasty, ViewerInv, V!ask \/ V!answer \/ V!reopen \/ V!gone
  PROVE  ViewerInv'
<1>0. UNCHANGED <<visible, page, cookies, frame, viewers>> /\ frame = {}
  BY DEF V!ask, V!answer, V!reopen, V!gone, V!Free, V!Under, V!native, ViewerInv, OneTap
<1>1. ASSUME NEW f \in flows PROVE f \in Waits /\ flows = {f} /\ (current # None => f.v = current)
                                   /\ over = (IF f.at \in Asks THEN f.id ELSE None) /\ f.id # None /\ f.v # None
  <2>1. f \in Waits /\ flows = {f} /\ (current # None => f.v = current)
        /\ over = (IF f.at \in Asks THEN f.id ELSE None)
    BY DEF ViewerInv, OneTap
  <2>2. f.id \in Nat /\ f.v \in Viewed
    BY <2>1 DEF Waits
  <2> QED
    BY <2>1, <2>2, ViewerConstants
\* While a flow waits, the preview is away or told to go.
<1>2. ASSUME flows # {} PROVE cookies = {} /\ (ipc = <<V!Close>> \/ (ipc = <<>> /\ ~visible /\ page = None))
  BY <1>2 DEF ViewerInv, Native, Viewing
<1>3. CASE V!ask
  <2>1. /\ current # None /\ current' = current /\ over = None /\ sheets < MaxSheets
        /\ flows = {} /\ cookies = {} /\ ipc' = <<V!Close>>
        /\ sheets' = sheets + 1 /\ over' = sheets + 1
    BY <1>3, Heads DEF V!ask, V!Free, V!Under
  <2>2. PICK step \in {"info", "more"} : flows' = flows \cup {[id |-> sheets + 1, v |-> current, at |-> step]}
    BY <1>3 DEF V!ask
  <2>3. PICK f : f = [id |-> sheets + 1, v |-> current, at |-> step]
    OBVIOUS
  <2>4. sheets' \in 0..MaxSheets /\ sheets + 1 \in Nat
    BY <2>1, ViewerConstants DEF ViewerInv, ViewerTyped
  <2>5. flows' = {f} /\ f \in Waits /\ f.v = current /\ f.id = sheets + 1 /\ f.at \in Asks
    BY <2>1, <2>2, <2>3, <2>4 DEF Waits, Asks, ViewerInv, ViewerTyped
  <2>6. ViewerTyped'
    BY <1>0, <2>1, <2>4 DEF ViewerInv, ViewerTyped
  <2>7. OneTap'
    BY <1>0, <2>1, <2>5 DEF OneTap
  <2>8. Native'
    BY <1>0, <2>1, <2>5 DEF Native, Viewing
  <2> QED
    BY <2>6, <2>7, <2>8 DEF ViewerInv
\* Its flow goes on.
<1>4. ASSUME NEW f \in flows, NEW g \in Waits, flows' = {g}, g.v = f.v, UNCHANGED <<current, ipc, sheets>>,
             over' = IF g.at \in Asks THEN g.id ELSE None, over' # None => current # None
      PROVE  ViewerInv'
  <2>1. ViewerTyped'
    BY <1>0, <1>4 DEF ViewerInv, ViewerTyped
  <2>2. OneTap'
    BY <1>0, <1>1, <1>4 DEF OneTap
  <2>3. Native'
    BY <1>0, <1>2, <1>4 DEF Native, Viewing
  <2> QED
    BY <2>1, <2>2, <2>3 DEF ViewerInv
\* Or ends.
<1>5. ASSUME NEW f \in flows, flows' = {}, UNCHANGED <<over, sheets>>, over = None,
             \/ current' = current /\ (current # None => ipc' = Append(ipc, V!Open(current.item)))
                                   /\ (current = None => ipc' = ipc)
             \/ current' = None /\ ipc' = (IF current = None THEN ipc ELSE Append(ipc, V!Close))
      PROVE  ViewerInv'
  <2>1. ViewerTyped'
    BY <1>0, <1>5 DEF ViewerInv, ViewerTyped
  <2>2. OneTap'
    BY <1>0, <1>5 DEF OneTap
  <2>3. Viewing' <=> current' # None
    BY <1>0, <1>5 DEF Viewing
  <2>4. Native'
    BY <1>0, <1>2, <1>5, <2>3, Heads DEF Native
  <2> QED
    BY <2>1, <2>2, <2>4 DEF ViewerInv
<1>6. CASE V!answer
  <2>1. PICK f \in flows, step \in {"done", "cut", "asked", "posting"} :
          /\ f.id = over /\ flows' = (flows \ {f}) \cup {[f EXCEPT !.at = step]}
          /\ over' = IF step = "asked" THEN over ELSE None
          /\ step \in CASE f.at = "info"  -> {"done"}
                      [] f.at = "more"  -> {"done", "cut", "asked"}
                      [] f.at = "asked" -> {"done", "posting"}
    <3>1. PICK f \in flows : /\ f.id = over
                             /\ \E step \in CASE f.at = "info"  -> {"done"}
                                           [] f.at = "more"  -> {"done", "cut", "asked"}
                                           [] f.at = "asked" -> {"done", "posting"} :
                                  /\ flows' = (flows \ {f}) \cup {[f EXCEPT !.at = step]}
                                  /\ over' = IF step = "asked" THEN over ELSE None
      BY <1>6 DEF V!answer
    <3>2. f.at \in Asks
      BY <1>1, <3>1
    <3> QED
      BY <3>1, <3>2 DEF Asks
  <2>2. UNCHANGED <<current, sheets, ipc>>
    BY <1>6 DEF V!answer
  <2>3. f.at \in Asks /\ f \in Waits /\ flows = {f} /\ current # None
    BY <1>1, <2>1 DEF ViewerInv, OneTap
  <2>5. PICK g : g = [f EXCEPT !.at = step]
    OBVIOUS
  <2>6. g \in Waits /\ g.v = f.v /\ g.id = f.id /\ g.at = step /\ flows' = {g}
    BY <2>1, <2>3, <2>5 DEF Waits, Asks
  <2> QED
    BY <1>4, <2>1, <2>2, <2>3, <2>6 DEF Asks
<1>7. CASE V!reopen
  <2>1. PICK f \in flows : /\ f.at = "done" /\ flows' = flows \ {f}
                           /\ ipc' = IF current = f.v THEN Append(ipc, V!Open(f.v.item)) ELSE ipc
    BY <1>7 DEF V!reopen
  <2>2. UNCHANGED <<current, over, sheets>>
    BY <1>7 DEF V!reopen
  <2>3. flows' = {} /\ over = None /\ (current = f.v <=> current # None)
    BY <1>1, <2>1 DEF Asks
  <2> QED
    BY <1>5, <2>1, <2>2, <2>3
<1>8. CASE V!gone
  <2>1. PICK f \in flows :
          /\ f.at \in {"cut", "posting"}
          /\ \/ /\ flows' = flows \ {f} /\ current' = None
                /\ ipc' = IF current = None THEN ipc ELSE Append(ipc, V!Close)
             \/ /\ flows' = (flows \ {f}) \cup {[f EXCEPT !.at = "done"]} /\ UNCHANGED <<current, ipc>>
    BY <1>8 DEF V!gone, V!closed
  <2>2. UNCHANGED <<over, sheets>>
    BY <1>8 DEF V!gone
  <2>3. flows = {f} /\ over = None /\ f \in Waits
    BY <1>1, <2>1 DEF Asks
  <2>4. PICK g : g = [f EXCEPT !.at = "done"]
    OBVIOUS
  <2>5. g \in Waits /\ g.v = f.v /\ g.at = "done"
    BY <2>3, <2>4 DEF Waits, Asks
  <2>6. CASE flows' = flows \ {f} /\ current' = None /\ ipc' = IF current = None THEN ipc ELSE Append(ipc, V!Close)
    BY <1>5, <2>2, <2>3, <2>6
  <2>7. CASE flows' = (flows \ {f}) \cup {g} /\ UNCHANGED <<current, ipc>>
    BY <1>4, <2>2, <2>3, <2>5, <2>7 DEF Asks
  <2> QED
    BY <2>1, <2>4, <2>6, <2>7
<1> QED
  BY <1>3, <1>6, <1>7, <1>8

LEMMA ViewerKeeps ==
  ASSUME ~Hasty, ViewerInv, [V!Next]_(V!vars)
  PROVE  ViewerInv'
<1>1. CASE UNCHANGED V!vars
  BY <1>1 DEF V!vars, V!bar, V!native, ViewerInv, ViewerTyped, OneTap, Native, Viewing
<1>2. CASE V!Next
  BY <1>2, NativeKeeps, BarKeeps, FlowKeeps DEF V!Next
<1> QED
  BY <1>1, <1>2

-----------------------------------------------------------------------------
\* The video player (Player).

Process == [n : Nat, plays : BOOLEAN, socket : BOOLEAN, ours : BOOLEAN]
PlayerTyped ==
  /\ opened \in 0..MaxPlayers /\ lease \in 0..3 /\ lost \in Nat
  /\ player \in 1..opened \cup {None}
  /\ puts \in Seq({0, 3})
\* No more have ended than were opened.
Processes ==
  /\ mpv \subseteq Process /\ \A x \in mpv : x.n \in 1..opened
  /\ IsFiniteSet(mpv)
  /\ closing \in Nat /\ Cardinality(mpv) + closing <= opened
\* One player at a time, whose socket is tried or followed by itself.
Try == [n |-> opened, of |-> None]
Follows == [n |-> opened, of |-> opened]
OnePlayer ==
  /\ \A x \in mpv : mpv = {x} /\ x.n = opened
  /\ closing > 0 => mpv = {}
  /\ player # None => player = opened /\ glass /\ mpv # {}
  /\ watch \in {{}, {Try}, {Follows}}
  /\ \A x \in mpv : x.ours \/ (player = None /\ watch = {})
  /\ watch = {Follows} => mpv # {}
\* Its renewal runs while it plays and is followed, and keeps the lease from running out.
Renews ==
  /\ renew # {} <=> watch = {Follows} /\ \E x \in mpv : x.plays
  /\ renew # {} => \E left \in {1, 2} :
       /\ renew = {[n |-> opened, left |-> left]}
       /\ lost = 0 => IF puts = <<>> THEN lease > left ELSE puts[Len(puts)] = 3
PlayerInv == PlayerTyped /\ Processes /\ (~switches => OnePlayer /\ Renews)

LEMMA PlayerConstants ==
  {MaxPlayers, MaxPauses, MaxLost, MaxCrashes} \subseteq Nat /\ Strays \in BOOLEAN /\ None \notin Nat
BY PagesParameters DEF P!PlayerAssumption

LEMMA PlayerBegins == P!Init => PlayerInv
<1> SUFFICES ASSUME P!Init PROVE PlayerInv
  OBVIOUS
<1>1. PlayerTyped
  <2>1. opened \in 0..MaxPlayers /\ lease \in 0..3 /\ lost \in Nat
    BY PlayerConstants DEF P!Init
  <2>2. puts \in Seq({0, 3})
    BY DEF P!Init
  <2> QED
    BY <2>1, <2>2 DEF P!Init, PlayerTyped
<1>2. Processes
  BY FS_EmptySet DEF P!Init, Processes
<1>3. OnePlayer /\ Renews
  BY DEF P!Init, OnePlayer, Renews, Try, Follows
<1> QED
  BY <1>1, <1>2, <1>3 DEF PlayerInv

LEMMA PlayerSays == PlayerInv => P!PlayerSound
<1> SUFFICES ASSUME PlayerInv PROVE P!PlayerSound
  OBVIOUS
<1>1. player \in 0..MaxPlayers \cup {None}
  BY PlayerConstants DEF PlayerInv, PlayerTyped
<1>2. closing \in 0..MaxPlayers
  <2>1. Cardinality(mpv) \in Nat
    BY FS_CardinalityType DEF PlayerInv, Processes
  <2> QED
    BY <2>1, PlayerConstants DEF PlayerInv, PlayerTyped, Processes
<1>3. P!TypeOK
  BY <1>1, <1>2 DEF PlayerInv, PlayerTyped, Processes, P!TypeOK, P!Numbers, P!HOLD
<1>4. ASSUME ~switches, P!Plays PROVE glass /\ (lost = 0 /\ puts = <<>> => lease > 0)
  <2>1. PICK x \in mpv, w \in watch : x.plays /\ x.n = player /\ w.n = player /\ w.of = player
    BY <1>4 DEF P!Plays
  <2>2. x.n \in Nat /\ player # None
    BY <2>1, PlayerConstants DEF PlayerInv, Processes, Process
  <2>3. watch = {Follows}
    BY <1>4, <2>1, <2>2 DEF PlayerInv, OnePlayer, Try
  <2>4. renew # {}
    BY <1>4, <2>1, <2>3 DEF PlayerInv, Renews
  <2>5. lost = 0 /\ puts = <<>> => lease > 0
    BY <1>4, <2>4 DEF PlayerInv, PlayerTyped, Renews
  <2> QED
    BY <1>4, <2>2, <2>5 DEF PlayerInv, OnePlayer
<1> QED
  BY <1>3, <1>4 DEF P!PlayerSound, P!HeldNow

\* The requests to t6-paneld.
LEMMA LastPut ==
  ASSUME NEW q \in Seq({0, 3})
  PROVE  /\ \A v \in {0, 3} : /\ Append(q, v) \in Seq({0, 3}) /\ Append(q, v) # <<>>
                              /\ Append(q, v)[Len(Append(q, v))] = v
         /\ q # <<>> => /\ Head(q) \in {0, 3} /\ Tail(q) \in Seq({0, 3})
                        /\ Tail(q) = <<>> => Head(q) = q[Len(q)]
                        /\ Tail(q) # <<>> => Tail(q)[Len(Tail(q))] = q[Len(q)]
<1>1. ASSUME NEW v \in {0, 3}
      PROVE  Append(q, v) \in Seq({0, 3}) /\ Append(q, v) # <<>> /\ Append(q, v)[Len(Append(q, v))] = v
  BY AppendProperties
<1>2. ASSUME q # <<>>
      PROVE  Head(q) \in {0, 3} /\ Tail(q) \in Seq({0, 3}) /\ Len(Tail(q)) = Len(q) - 1 /\ Head(q) = q[1]
             /\ \A i \in 1..Len(Tail(q)) : Tail(q)[i] = q[i + 1]
  BY <1>2, HeadTailProperties
<1>3. ASSUME q # <<>>, Tail(q) = <<>> PROVE Head(q) = q[Len(q)]
  <2>0. Len(q) \in Nat /\ Len(q) - 1 = 0
    BY <1>2, <1>3, LenProperties, EmptySeq
  <2>1. Len(q) = 1
    BY <2>0
  <2> QED
    BY <1>2, <1>3, <2>1
<1>4. ASSUME q # <<>>, Tail(q) # <<>> PROVE Tail(q)[Len(Tail(q))] = q[Len(q)]
  <2>1. Len(Tail(q)) \in Nat /\ Len(Tail(q)) > 0
    BY <1>2, <1>4, LenProperties, EmptySeq
  <2>2. Len(Tail(q)) \in 1..Len(Tail(q)) /\ Len(Tail(q)) + 1 = Len(q)
    BY <1>2, <1>4, <2>1, LenProperties
  <2> QED
    BY <1>2, <1>4, <2>2
<1> QED
  BY <1>1, <1>2, <1>3, <1>4

\* One process changes.
LEMMA OneChanges ==
  ASSUME NEW A, IsFiniteSet(A), NEW x \in A, NEW y
  PROVE  LET B == (A \ {x}) \cup {y} IN IsFiniteSet(B) /\ Cardinality(B) <= Cardinality(A)
<1>1. IsFiniteSet(A \ {x}) /\ Cardinality(A \ {x}) = Cardinality(A) - 1
  BY FS_RemoveElement
<1>2. Cardinality(A) \in Nat /\ Cardinality(A \ {x}) \in Nat
  BY <1>1, FS_CardinalityType
<1>3. IsFiniteSet((A \ {x}) \cup {y}) /\ Cardinality((A \ {x}) \cup {y}) <= Cardinality(A \ {x}) + 1
  BY <1>1, <1>2, FS_AddElement
<1> QED
  BY <1>1, <1>2, <1>3

\* All do.
LEMMA AllChange ==
  ASSUME NEW A, IsFiniteSet(A), NEW f, f = [x \in A |-> f[x]]
  PROVE  LET B == {f[x] : x \in A} IN IsFiniteSet(B) /\ Cardinality(B) <= Cardinality(A)
<1> DEFINE B == {f[x] : x \in A}
<1>1. f \in [A -> B] /\ \A t \in B : \E x \in A : f[x] = t
  OBVIOUS
<1>2. f \in Surjection(A, B)
  BY <1>1 DEF Surjection
<1> QED
  BY <1>2, FS_Surjection

\* What setPlaying does for the player that is followed.
LEMMA SetPlaying ==
  ASSUME PlayerInv, NEW n, NEW b \in BOOLEAN, P!setPlaying(n, b)
  PROVE  /\ puts' \in Seq({0, 3})
         /\ ~switches /\ n = opened =>
              /\ renew' # {} <=> b
              /\ b => \E left \in {1, 2} :
                        /\ renew' = {[n |-> opened, left |-> left]}
                        /\ \/ puts' # <<>> /\ puts'[Len(puts')] = 3
                           \/ renew' = renew /\ puts' = puts
<1>1. puts \in Seq({0, 3})
  BY DEF PlayerInv, PlayerTyped
<1>2. puts' \in {puts, Append(puts, 0), Append(puts, 3)}
  BY DEF P!setPlaying, P!HOLD
<1>3. puts' \in Seq({0, 3})
  BY <1>1, <1>2, LastPut
<1>4. ASSUME ~switches, n = opened
      PROVE  /\ renew' # {} <=> b
             /\ b => \E left \in {1, 2} :
                       /\ renew' = {[n |-> opened, left |-> left]}
                       /\ \/ puts' # <<>> /\ puts'[Len(puts')] = 3
                          \/ renew' = renew /\ puts' = puts
  <2>1. renew = {} \/ \E left \in {1, 2} : renew = {[n |-> opened, left |-> left]}
    BY <1>4 DEF PlayerInv, Renews
  <2>2. n \in P!Numbers(renew) <=> renew # {}
    BY <1>4, <2>1 DEF P!Numbers
  <2>3. CASE b /\ renew = {}
    <3>1. puts' = Append(puts, 3) /\ renew' = {[n |-> opened, left |-> 2]}
      BY <1>4, <2>2, <2>3 DEF P!setPlaying, P!HOLD, P!RENEW
    <3> QED
      BY <1>1, <2>3, <3>1, LastPut
  <2>4. CASE ~b /\ renew # {}
    <3>1. renew' = {x \in renew : x.n # n}
      BY <2>2, <2>4 DEF P!setPlaying
    <3> QED
      BY <1>4, <2>1, <2>4, <3>1
  <2>5. CASE b <=> renew # {}
    <3>1. UNCHANGED <<puts, renew>>
      BY <2>2, <2>5 DEF P!setPlaying
    <3> QED
      BY <2>1, <2>5, <3>1
  <2> QED
    BY <2>3, <2>4, <2>5
<1> QED
  BY <1>3, <1>4

\* The lease.
LEMMA LeaseKeeps ==
  ASSUME PlayerInv, P!Put \/ P!Tick \/ P!playerClosed, UNCHANGED switches
  PROVE  PlayerInv'
<1>0. UNCHANGED <<mpv, opened, player, watch>>
  BY DEF P!Put, P!Tick, P!playerClosed, P!procs
<1>1. CASE P!playerClosed
  <2>1. closing > 0 /\ closing' = closing - 1 /\ glass' = FALSE /\ UNCHANGED <<renew, puts, lease, lost>>
    BY <1>1 DEF P!playerClosed, P!bounds
  <2>2. Cardinality(mpv) \in Nat
    BY FS_CardinalityType DEF PlayerInv, Processes
  <2>3. PlayerTyped'
    BY <1>0, <2>1 DEF PlayerInv, PlayerTyped
  <2>4. Processes'
    BY <1>0, <2>1, <2>2 DEF PlayerInv, PlayerTyped, Processes
  <2>5. ASSUME ~switches PROVE OnePlayer' /\ Renews'
    BY <1>0, <2>1, <2>5 DEF PlayerInv, Processes, OnePlayer, Renews, Try, Follows
  <2> QED
    BY <2>3, <2>4, <2>5 DEF PlayerInv
<1>2. CASE P!Put
  <2>1. /\ puts # <<>> /\ puts' = Tail(puts) /\ UNCHANGED <<renew, glass, closing>>
        /\ (lease' = Head(puts) /\ lost' = lost) \/ (lost' = lost + 1 /\ lease' = lease)
    BY <1>2 DEF P!Put
  <2>2. puts \in Seq({0, 3})
    BY DEF PlayerInv, PlayerTyped
  <2>3. puts' \in Seq({0, 3}) /\ Head(puts) \in {0, 3}
    BY <2>1, <2>2, LastPut
  <2>4. PlayerTyped'
    BY <1>0, <2>1, <2>3 DEF PlayerInv, PlayerTyped
  <2>5. Processes'
    BY <1>0, <2>1 DEF PlayerInv, Processes
  <2>6. ASSUME ~switches PROVE OnePlayer'
    BY <1>0, <2>1, <2>6 DEF PlayerInv, OnePlayer, Try, Follows
  <2>7. ASSUME ~switches PROVE Renews'
    <3>1. renew' # {} <=> watch' = {Follows}' /\ \E x \in mpv' : x.plays
      BY <1>0, <2>1, <2>7 DEF PlayerInv, Renews, Follows
    <3>2. ASSUME NEW left \in {1, 2}, lost = 0 => IF puts = <<>> THEN lease > left ELSE puts[Len(puts)] = 3
          PROVE  lost' = 0 => IF puts' = <<>> THEN lease' > left ELSE puts'[Len(puts')] = 3
      <4> SUFFICES ASSUME lost' = 0 PROVE IF puts' = <<>> THEN lease' > left ELSE puts'[Len(puts')] = 3
        OBVIOUS
      <4>1. lost = 0 /\ lease' = Head(puts) /\ puts[Len(puts)] = 3
        BY <2>1, <3>2 DEF PlayerInv, PlayerTyped
      <4>2. Tail(puts) = <<>> => Head(puts) = puts[Len(puts)]
        BY <2>1, <2>2, LastPut
      <4>3. Tail(puts) # <<>> => Tail(puts)[Len(Tail(puts))] = puts[Len(puts)]
        BY <2>1, <2>2, LastPut
      <4>4. CASE puts' = <<>>
        BY <2>1, <4>1, <4>2, <4>4
      <4>5. CASE puts' # <<>>
        BY <2>1, <4>1, <4>3, <4>5
      <4> QED
        BY <4>4, <4>5
    <3> QED
      BY <1>0, <2>1, <2>7, <3>1, <3>2 DEF PlayerInv, Renews
  <2> QED
    BY <2>4, <2>5, <2>6, <2>7 DEF PlayerInv
<1>3. CASE P!Tick
  <2>1. /\ puts = <<>> /\ UNCHANGED <<lost, glass, closing>>
        /\ lease' = (IF lease = 0 THEN 0 ELSE lease - 1)
        /\ renew' = {[x EXCEPT !.left = IF x.left = 1 THEN 2 ELSE x.left - 1] : x \in renew}
        /\ puts' = IF \E x \in renew : x.left = 1 THEN <<3>> ELSE <<>>
    BY <1>3 DEF P!Tick, P!bounds, P!RENEW, P!HOLD
  <2>2. <<3>> \in Seq({0, 3}) /\ <<>> \in Seq({0, 3}) /\ <<3>> # <<>> /\ <<3>>[Len(<<3>>)] = 3
    OBVIOUS
  <2>3. PlayerTyped'
    <3>1. lease' \in 0..3
      BY <2>1 DEF PlayerInv, PlayerTyped
    <3>2. puts' \in Seq({0, 3})
      BY <2>1, <2>2
    <3> QED
      BY <1>0, <2>1, <3>1, <3>2 DEF PlayerInv, PlayerTyped
  <2>4. Processes'
    BY <1>0, <2>1 DEF PlayerInv, Processes
  <2>5. ASSUME ~switches PROVE OnePlayer'
    BY <1>0, <2>1, <2>5 DEF PlayerInv, OnePlayer, Try, Follows
  <2>6. ASSUME ~switches PROVE Renews'
    <3>1. CASE renew = {}
      BY <1>0, <2>1, <2>6, <3>1 DEF PlayerInv, Renews, Follows
    <3>2. CASE renew # {}
      <4>1. PICK left \in {1, 2} : /\ renew = {[n |-> opened, left |-> left]}
                                   /\ lost = 0 => IF puts = <<>> THEN lease > left ELSE puts[Len(puts)] = 3
        BY <2>6, <3>2 DEF PlayerInv, Renews
      <4>2. watch = {Follows} /\ \E x \in mpv : x.plays
        BY <2>6, <3>2 DEF PlayerInv, Renews
      <4>3. PICK x : x = [n |-> opened, left |-> left]
        OBVIOUS
      <4>4. PICK y : y = [n |-> opened, left |-> IF left = 1 THEN 2 ELSE left - 1]
        OBVIOUS
      <4>5. y = [x EXCEPT !.left = IF x.left = 1 THEN 2 ELSE x.left - 1] /\ x.left = left
        BY <4>3, <4>4
      <4>6. renew' = {y} /\ puts' = IF left = 1 THEN <<3>> ELSE <<>>
        BY <2>1, <4>1, <4>3, <4>5
      <4>7. CASE left = 1
        <5>1. renew' = {[n |-> opened, left |-> 2]} /\ puts' = <<3>>
          BY <4>4, <4>6, <4>7
        <5> QED
          BY <1>0, <2>2, <4>2, <5>1 DEF Renews, Follows
      <4>8. CASE left = 2
        <5>1. renew' = {[n |-> opened, left |-> 1]} /\ puts' = <<>>
          BY <4>4, <4>6, <4>8
        <5>2. lost = 0 => lease' > 1
          BY <2>1, <4>1, <4>8 DEF PlayerInv, PlayerTyped
        <5> QED
          BY <1>0, <2>1, <4>2, <5>1, <5>2 DEF Renews, Follows
      <4> QED
        BY <4>7, <4>8
    <3> QED
      BY <3>1, <3>2
  <2> QED
    BY <2>3, <2>4, <2>5, <2>6 DEF PlayerInv
<1> QED
  BY <1>1, <1>2, <1>3

\* A video is opened.
LEMMA OpenKeeps ==
  ASSUME ~Strays, PlayerInv, P!open, UNCHANGED switches
  PROVE  PlayerInv'
<1>0. /\ opened < MaxPlayers /\ opened' = opened + 1 /\ (switches \/ (mpv = {} /\ closing = 0))
      /\ player' = opened + 1 /\ watch' = watch \cup {[n |-> opened + 1, of |-> None]} /\ glass' = TRUE
      /\ UNCHANGED <<lost, renew, puts, lease, closing>> /\ ~\E w \in watch : w.of = None
  BY DEF P!open, P!bounds
<1>1. PICK f : f = [x \in mpv |-> [x EXCEPT !.socket = FALSE]]
  OBVIOUS
<1>2. PICK new : new = [n |-> opened + 1, plays |-> TRUE, socket |-> FALSE, ours |-> TRUE]
  OBVIOUS
<1>3. mpv' = {f[x] : x \in mpv} \cup {new}
  BY <1>0, <1>1, <1>2 DEF P!open
<1>4. f = [x \in mpv |-> f[x]] /\ \A x \in mpv : f[x] \in Process /\ f[x].n = x.n
  BY <1>1 DEF PlayerInv, Processes, Process
<1>5. new \in Process /\ new.n = opened + 1 /\ new.ours = TRUE
  BY <1>2 DEF PlayerInv, PlayerTyped, Process
<1>6. opened' \in 0..MaxPlayers /\ opened \in Nat /\ opened + 1 \in 1..opened' /\ 1..opened \subseteq 1..opened'
  BY <1>0, PlayerConstants DEF PlayerInv, PlayerTyped
<1>7. PlayerTyped'
  BY <1>0, <1>6 DEF PlayerInv, PlayerTyped
<1>8. Processes'
  <2>1. IsFiniteSet({f[x] : x \in mpv}) /\ Cardinality({f[x] : x \in mpv}) <= Cardinality(mpv)
    BY <1>4, AllChange DEF PlayerInv, Processes
  <2>2. Cardinality({f[x] : x \in mpv}) \in Nat /\ Cardinality(mpv) \in Nat
    BY <2>1, FS_CardinalityType DEF PlayerInv, Processes
  <2>3. IsFiniteSet(mpv') /\ Cardinality(mpv') <= Cardinality(mpv) + 1 /\ Cardinality(mpv') \in Nat
    <3>1. IsFiniteSet(mpv') /\ Cardinality(mpv') = IF new \in {f[x] : x \in mpv}
            THEN Cardinality({f[x] : x \in mpv}) ELSE Cardinality({f[x] : x \in mpv}) + 1
      BY <1>3, <2>1, FS_AddElement
    <3> QED
      BY <2>1, <2>2, <3>1
  <2>4. mpv' \subseteq Process /\ \A x \in mpv' : x.n \in 1..opened'
    BY <1>3, <1>4, <1>5, <1>6 DEF PlayerInv, Processes
  <2> QED
    BY <1>0, <1>6, <2>2, <2>3, <2>4 DEF PlayerInv, Processes
<1>9. ASSUME ~switches PROVE OnePlayer' /\ Renews'
  <2>1. mpv = {} /\ closing = 0 /\ mpv' = {new}
    BY <1>0, <1>3, <1>9
  <2>2. watch = {} /\ renew = {}
    BY <1>0, <1>9, <2>1 DEF PlayerInv, OnePlayer, Renews, Try
  <2>3. watch' = {Try'} /\ Try' # Follows'
    BY <1>0, <1>6, <2>2, PlayerConstants DEF Try, Follows
  <2>4. OnePlayer'
    BY <1>0, <1>5, <2>1, <2>3 DEF OnePlayer
  <2>5. Renews'
    BY <1>0, <2>2, <2>3 DEF Renews
  <2> QED
    BY <2>4, <2>5
<1> QED
  BY <1>7, <1>8, <1>9 DEF PlayerInv

\* A process changes, and keeps its number and its kiosk.
LEMMA ProcessChanges ==
  ASSUME PlayerInv, UNCHANGED <<opened, closing>>,
         NEW x \in mpv, NEW y \in Process, y.n = x.n, mpv' = (mpv \ {x}) \cup {y}
  PROVE  Processes'
<1>1. IsFiniteSet(mpv') /\ Cardinality(mpv') <= Cardinality(mpv)
  BY OneChanges DEF PlayerInv, Processes
<1>2. Cardinality(mpv') \in Nat /\ Cardinality(mpv) \in Nat
  BY <1>1, FS_CardinalityType DEF PlayerInv, Processes
<1>3. mpv' \subseteq Process /\ \A z \in mpv' : z.n \in 1..opened'
  BY DEF PlayerInv, Processes
<1> QED
  BY <1>1, <1>2, <1>3 DEF PlayerInv, PlayerTyped, Processes

LEMMA ListensKeeps ==
  ASSUME PlayerInv, P!Listens, UNCHANGED switches
  PROVE  PlayerInv'
<1>0. UNCHANGED <<opened, player, lost, watch, renew, puts, lease, glass, closing>>
  BY DEF P!Listens, P!bounds
<1>1. PICK x \in mpv : mpv' = (mpv \ {x}) \cup {[x EXCEPT !.socket = TRUE]}
  BY DEF P!Listens
<1>2. PICK y : y = [x EXCEPT !.socket = TRUE]
  OBVIOUS
<1>3. y \in Process /\ y.n = x.n /\ y.plays = x.plays /\ y.ours = x.ours /\ mpv' = (mpv \ {x}) \cup {y}
  BY <1>1, <1>2 DEF PlayerInv, Processes, Process
<1>4. Processes'
  BY <1>0, <1>3, ProcessChanges
<1>5. PlayerTyped'
  BY <1>0 DEF PlayerInv, PlayerTyped
<1>6. ASSUME ~switches PROVE OnePlayer' /\ Renews'
  <2>1. mpv = {x} /\ mpv' = {y} /\ x.n = opened
    BY <1>3, <1>6 DEF PlayerInv, OnePlayer
  <2>2. OnePlayer'
    BY <1>0, <1>3, <1>6, <2>1 DEF PlayerInv, OnePlayer, Try, Follows
  <2>3. Renews'
    BY <1>0, <1>3, <1>6, <2>1 DEF PlayerInv, Renews, Follows
  <2> QED
    BY <2>2, <2>3
<1> QED
  BY <1>4, <1>5, <1>6 DEF PlayerInv

\* A player is followed, or tried again.
LEMMA WatchKeeps ==
  ASSUME PlayerInv, P!watchPlayer, UNCHANGED switches
  PROVE  PlayerInv'
<1>0. UNCHANGED <<mpv, opened, player, lost, lease, glass, closing>>
  BY DEF P!watchPlayer, P!procs, P!bounds
<1>1. PICK w \in watch :
        /\ w.of = None
        /\ \/ \E x \in mpv : /\ watch' = (watch \ {w}) \cup {[w EXCEPT !.of = x.n]}
                             /\ P!setPlaying(w.n, x.plays)
           \/ /\ watch' = IF player = w.n THEN watch ELSE watch \ {w}
              /\ UNCHANGED <<puts, renew>>
  BY DEF P!watchPlayer
<1>2. \A x \in mpv : x.plays \in BOOLEAN
  BY DEF PlayerInv, Processes, Process
<1>3. PlayerTyped'
  <2>1. puts' \in Seq({0, 3})
    BY <1>1, <1>2, SetPlaying DEF PlayerInv, PlayerTyped
  <2> QED
    BY <1>0, <2>1 DEF PlayerInv, PlayerTyped
<1>4. Processes'
  BY <1>0 DEF PlayerInv, Processes
<1>5. ASSUME ~switches PROVE OnePlayer' /\ Renews'
  <2>1. opened \in Nat
    BY DEF PlayerInv, PlayerTyped
  <2>2. watch = {Try} /\ w = Try /\ Try # Follows
    BY <1>1, <1>5, <2>1, PlayerConstants DEF PlayerInv, OnePlayer, Try, Follows
  <2>3. renew = {}
    BY <1>5, <2>2 DEF PlayerInv, Renews
  <2>4. CASE watch' = (IF player = w.n THEN watch ELSE watch \ {w}) /\ UNCHANGED <<puts, renew>>
    <3>1. watch' \in {{}, {Try}}
      BY <2>2, <2>4
    <3>2. OnePlayer'
      BY <1>0, <1>5, <2>2, <3>1 DEF PlayerInv, OnePlayer, Try, Follows
    <3>3. Renews'
      BY <1>0, <2>2, <2>3, <2>4, <3>1 DEF Renews, Follows, Try
    <3> QED
      BY <3>2, <3>3
  <2>5. CASE \E x \in mpv : watch' = (watch \ {w}) \cup {[w EXCEPT !.of = x.n]} /\ P!setPlaying(w.n, x.plays)
    <3>1. PICK x \in mpv : watch' = (watch \ {w}) \cup {[w EXCEPT !.of = x.n]} /\ P!setPlaying(w.n, x.plays)
      BY <2>5
    <3>2. mpv = {x} /\ x.n = opened /\ w.n = opened /\ x.plays \in BOOLEAN
      BY <1>2, <1>5, <2>2 DEF PlayerInv, OnePlayer, Try
    <3>3. watch' = {Follows}
      BY <2>2, <3>1, <3>2 DEF Try, Follows
    <3>4. OnePlayer'
      BY <1>0, <1>5, <2>2, <3>2, <3>3 DEF PlayerInv, OnePlayer, Try, Follows
    <3>5. /\ renew' # {} <=> x.plays
          /\ x.plays => \E left \in {1, 2} :
               /\ renew' = {[n |-> opened, left |-> left]}
               /\ (puts' # <<>> /\ puts'[Len(puts')] = 3) \/ (renew' = renew /\ puts' = puts)
      BY <1>5, <3>1, <3>2, SetPlaying
    <3>6. Renews'
      BY <1>0, <2>3, <3>2, <3>3, <3>5 DEF Renews, Follows
    <3> QED
      BY <3>4, <3>6
  <2> QED
    BY <1>1, <2>4, <2>5
<1> QED
  BY <1>3, <1>4, <1>5 DEF PlayerInv

LEMMA PauseKeeps ==
  ASSUME PlayerInv, P!Pause, UNCHANGED switches
  PROVE  PlayerInv'
<1>0. UNCHANGED <<opened, player, lost, watch, lease, glass, closing>>
  BY DEF P!Pause
<1>1. PICK x \in mpv :
        /\ mpv' = (mpv \ {x}) \cup {[x EXCEPT !.plays = ~x.plays]}
        /\ IF \E w \in watch : w.of = x.n
           THEN P!setPlaying((CHOOSE w \in watch : w.of = x.n).n, ~x.plays)
           ELSE UNCHANGED <<puts, renew>>
  BY DEF P!Pause
<1>2. PICK y : y = [x EXCEPT !.plays = ~x.plays]
  OBVIOUS
<1>3. y \in Process /\ y.n = x.n /\ y.plays = (~x.plays) /\ y.ours = x.ours /\ mpv' = (mpv \ {x}) \cup {y}
      /\ x.plays \in BOOLEAN /\ (~x.plays) \in BOOLEAN /\ y.plays \in BOOLEAN
  BY <1>1, <1>2 DEF PlayerInv, Processes, Process
<1>4. Processes'
  BY <1>0, <1>3, ProcessChanges
<1>5. PlayerTyped'
  <2>1. puts' \in Seq({0, 3})
    BY <1>1, <1>3, SetPlaying DEF PlayerInv, PlayerTyped
  <2> QED
    BY <1>0, <2>1 DEF PlayerInv, PlayerTyped
<1>6. ASSUME ~switches PROVE OnePlayer' /\ Renews'
  <2>1. mpv = {x} /\ mpv' = {y} /\ x.n = opened /\ opened \in Nat
    BY <1>3, <1>6 DEF PlayerInv, PlayerTyped, OnePlayer
  <2>2. OnePlayer'
    BY <1>0, <1>3, <1>6, <2>1 DEF PlayerInv, OnePlayer, Try, Follows
  <2>3. CASE watch = {Follows}
    <3>1. PICK v : v = ~x.plays
      OBVIOUS
    <3>2. P!setPlaying(opened, v)
      <4>1. \A w \in watch : w.of = x.n /\ w.n = opened
        BY <2>1, <2>3 DEF Follows
      <4>2. \E w \in watch : w.of = x.n
        BY <2>3, <4>1
      <4>3. (CHOOSE w \in watch : w.of = x.n).n = opened
        BY <4>1, <4>2
      <4> QED
        BY <1>1, <3>1, <4>2, <4>3
    <3>3. v \in BOOLEAN /\ y.plays = v
      BY <1>3, <3>1
    <3>4. /\ renew' # {} <=> v
          /\ v => \E left \in {1, 2} :
               /\ renew' = {[n |-> opened, left |-> left]}
               /\ (puts' # <<>> /\ puts'[Len(puts')] = 3) \/ (renew' = renew /\ puts' = puts)
      BY <1>6, <3>2, <3>3, SetPlaying
    <3>5. v => renew = {}
      BY <1>3, <1>6, <2>1, <3>1 DEF PlayerInv, Renews
    <3>6. Renews'
      BY <1>0, <2>1, <2>3, <3>3, <3>4, <3>5 DEF Renews, Follows
    <3> QED
      BY <2>2, <3>6
  <2>4. CASE watch # {Follows}
    <3>1. UNCHANGED <<puts, renew>> /\ renew = {}
      BY <1>1, <1>6, <2>1, <2>4, PlayerConstants DEF PlayerInv, OnePlayer, Renews, Try
    <3>2. Renews'
      BY <1>0, <2>4, <3>1 DEF Renews, Follows
    <3> QED
      BY <2>2, <3>2
  <2> QED
    BY <2>3, <2>4
<1> QED
  BY <1>4, <1>5, <1>6 DEF PlayerInv

\* A process ends.
LEMMA ProcessEnds ==
  ASSUME PlayerInv, UNCHANGED opened, NEW x \in mpv, mpv' = mpv \ {x}, closing' \in {closing, closing + 1}
  PROVE  Processes'
<1>1. IsFiniteSet(mpv') /\ Cardinality(mpv') = Cardinality(mpv) - 1
  BY FS_RemoveElement DEF PlayerInv, Processes
<1>2. Cardinality(mpv') \in Nat /\ Cardinality(mpv) \in Nat
  BY <1>1, FS_CardinalityType DEF PlayerInv, Processes
<1>3. mpv' \subseteq Process /\ \A z \in mpv' : z.n \in 1..opened'
  BY DEF PlayerInv, Processes
<1> QED
  BY <1>1, <1>2, <1>3 DEF PlayerInv, PlayerTyped, Processes

LEMMA EndKeeps ==
  ASSUME PlayerInv, P!Ends \/ P!EndsUnheard, UNCHANGED switches
  PROVE  PlayerInv'
<1>0. UNCHANGED <<opened, lost, lease, glass>>
  BY DEF P!Ends, P!EndsUnheard, P!exit, P!bounds
<1>1. CASE P!Ends
  <2>1. PICK x \in mpv : x.ours /\ P!exit(x)
    BY <1>1 DEF P!Ends
  <2>2. /\ mpv' = mpv \ {x} /\ P!setPlaying(x.n, FALSE)
        /\ watch' = {w \in watch : (w.n # x.n \/ w.of = None) /\ w.of # x.n}
        /\ player' = IF player = x.n THEN None ELSE player
        /\ closing' = closing + 1
    BY <2>1 DEF P!exit
  <2>3. Processes'
    BY <1>0, <2>2, ProcessEnds
  <2>4. PlayerTyped'
    <3>1. puts' \in Seq({0, 3})
      BY <2>2, SetPlaying
    <3> QED
      BY <1>0, <2>2, <3>1 DEF PlayerInv, PlayerTyped
  <2>5. ASSUME ~switches PROVE OnePlayer' /\ Renews'
    <3>1. mpv = {x} /\ mpv' = {} /\ x.n = opened /\ opened \in Nat
      BY <2>2, <2>5 DEF PlayerInv, PlayerTyped, OnePlayer
    <3>2. player' = None
      BY <2>2, <2>5, <3>1 DEF PlayerInv, OnePlayer
    <3>3. watch' \in {{}, {Try}} /\ Try # Follows
      BY <2>2, <2>5, <3>1, PlayerConstants DEF PlayerInv, OnePlayer, Try, Follows
    <3>4. renew' = {}
      BY <2>2, <2>5, <3>1, SetPlaying
    <3>5. OnePlayer'
      BY <1>0, <3>1, <3>2, <3>3 DEF OnePlayer, Try, Follows
    <3>6. Renews'
      BY <1>0, <3>3, <3>4 DEF Renews, Try, Follows
    <3> QED
      BY <3>5, <3>6
  <2> QED
    BY <2>3, <2>4, <2>5 DEF PlayerInv
<1>2. CASE P!EndsUnheard
  <2>1. PICK x \in mpv : ~x.ours /\ mpv' = mpv \ {x}
    BY <1>2 DEF P!EndsUnheard
  <2>2. UNCHANGED <<player, watch, renew, puts, closing>>
    BY <1>2 DEF P!EndsUnheard
  <2>3. Processes'
    BY <1>0, <2>1, <2>2, ProcessEnds
  <2>4. PlayerTyped'
    BY <1>0, <2>2 DEF PlayerInv, PlayerTyped
  <2>5. ASSUME ~switches PROVE OnePlayer' /\ Renews'
    <3>1. mpv = {x} /\ mpv' = {} /\ player = None /\ watch = {} /\ renew = {}
      BY <2>1, <2>5 DEF PlayerInv, OnePlayer, Renews
    <3> QED
      BY <1>0, <2>2, <3>1 DEF OnePlayer, Renews
  <2> QED
    BY <2>3, <2>4, <2>5 DEF PlayerInv
<1> QED
  BY <1>1, <1>2

LEMMA CrashKeeps ==
  ASSUME PlayerInv, P!Crash, UNCHANGED switches
  PROVE  PlayerInv'
<1>0. /\ UNCHANGED <<opened, lost, puts, lease>>
      /\ player' = None /\ watch' = {} /\ renew' = {} /\ closing' = 0
  BY DEF P!Crash
<1>1. PICK f : f = [x \in mpv |-> [x EXCEPT !.ours = FALSE]]
  OBVIOUS
<1>2. mpv' = {f[x] : x \in mpv}
  BY <1>1 DEF P!Crash
<1>3. f = [x \in mpv |-> f[x]] /\ \A x \in mpv : f[x] \in Process /\ f[x].n = x.n
  BY <1>1 DEF PlayerInv, Processes, Process
<1>4. Processes'
  <2>1. IsFiniteSet(mpv') /\ Cardinality(mpv') <= Cardinality(mpv)
    BY <1>2, <1>3, AllChange DEF PlayerInv, Processes
  <2>2. Cardinality(mpv') \in Nat /\ Cardinality(mpv) \in Nat
    BY <2>1, FS_CardinalityType DEF PlayerInv, Processes
  <2>3. mpv' \subseteq Process /\ \A x \in mpv' : x.n \in 1..opened'
    BY <1>0, <1>2, <1>3 DEF PlayerInv, Processes
  <2> QED
    BY <1>0, <2>1, <2>2, <2>3 DEF PlayerInv, PlayerTyped, Processes
<1>5. PlayerTyped'
  BY <1>0 DEF PlayerInv, PlayerTyped
<1>6. ASSUME ~switches PROVE OnePlayer' /\ Renews'
  <2>1. \A x \in mpv' : mpv' = {x} /\ x.n = opened
    BY <1>2, <1>3, <1>6 DEF PlayerInv, OnePlayer
  <2>2. OnePlayer'
    BY <1>0, <2>1 DEF OnePlayer
  <2>3. Renews'
    BY <1>0 DEF Renews
  <2> QED
    BY <2>2, <2>3
<1> QED
  BY <1>4, <1>5, <1>6 DEF PlayerInv

LEMMA PlayerKeeps ==
  ASSUME ~Strays, PlayerInv, [P!Next]_(P!vars)
  PROVE  PlayerInv'
<1>1. CASE UNCHANGED P!vars
  <2>1. UNCHANGED <<switches, mpv, opened, lost, player, watch, renew, puts, lease, glass, closing>>
    BY <1>1 DEF P!vars, P!state, P!procs, P!bounds
  <2>2. PlayerTyped' /\ Processes'
    BY <2>1 DEF PlayerInv, PlayerTyped, Processes
  <2>3. ASSUME ~switches PROVE OnePlayer' /\ Renews'
    BY <2>1, <2>3 DEF PlayerInv, OnePlayer, Renews, Try, Follows
  <2> QED
    BY <2>1, <2>2, <2>3 DEF PlayerInv
<1>2. CASE P!Next
  BY <1>2, OpenKeeps, ListensKeeps, WatchKeeps, PauseKeeps, EndKeeps, CrashKeeps, LeaseKeeps DEF P!Next
<1> QED
  BY <1>1, <1>2

-----------------------------------------------------------------------------
\* A settings page (Pages).

Statuses == {"idle", "loading", "refreshing", "failed"}
PageTyped ==
  /\ kind \in Kinds /\ fails \in 0..MaxFails /\ srv \in Nat /\ made \in Nat
  /\ up \in BOOLEAN /\ hold \in BOOLEAN /\ finger \in BOOLEAN
  /\ data \in Nat \cup {None} /\ status \in Statuses
  /\ req # None => req \in [says : Nat \cup {None}]
  /\ \A p \in puts : p \in [n : Nat, done : BOOLEAN]
  /\ tapped \in Nat \cup {None}
\* The status and the request go together.
Asked ==
  /\ status = "loading" => data = None
  /\ status = "refreshing" => data # None
  /\ kind = "night" => data # None
  /\ kind # "night" => (req # None <=> status \in {"loading", "refreshing"})
\* Data, once there, is painted or waits for the finger; before, nothing like it is.
Painted ==
  /\ view \in G!Markup /\ last \in G!Markup /\ held \in G!Markup \cup {None}
  /\ view \in Nat <=> last \in Nat
  /\ data = None => view \notin Nat /\ held \notin Nat
  /\ data # None => held \in Nat \cup {None} /\ (view \in Nat \/ held \in Nat)
  /\ tapped # None => view \in Nat
PageInv == PageTyped /\ Asked /\ Painted

LEMMA PageConstants ==
  /\ MaxFails \in Nat /\ {Blank, Skeleton, Failed, None} \cap Nat = {}
  /\ None \notin [says : Nat \cup {None}]
BY PagesParameters DEF G!PagesAssumption

LEMMA PageBegins == G!Init => PageInv
<1> SUFFICES ASSUME G!Init PROVE PageInv
  OBVIOUS
<1>1. PageTyped
  <2>1. fails \in 0..MaxFails
    BY PageConstants DEF G!Init
  <2> QED
    <3>1. req = None /\ data \in Nat \cup {None} /\ status \in Statuses /\ tapped \in Nat \cup {None}
      BY DEF G!Init, Statuses
    <3>2. srv \in Nat /\ made \in Nat /\ puts = {}
      BY DEF G!Init
    <3>3. kind \in Kinds /\ up \in BOOLEAN /\ hold \in BOOLEAN /\ finger \in BOOLEAN
      BY DEF G!Init
    <3> QED
      BY <2>1, <3>1, <3>2, <3>3 DEF PageTyped
<1>2. Asked
  BY PageConstants DEF G!Init, Asked
<1>3. Painted
  BY PageConstants DEF G!Init, Painted, G!Markup
<1> QED
  BY <1>1, <1>2, <1>3 DEF PageInv

LEMMA PageSays == PageInv => G!StatusTells
<1> SUFFICES ASSUME PageInv PROVE G!StatusTells
  OBVIOUS
<1>1. {up, hold, finger} \subseteq BOOLEAN
  BY DEF PageInv, PageTyped
<1>2. req = None \/ req.says \in Nat \cup {None}
  BY DEF PageInv, PageTyped
<1>3. G!TypeOK
  BY <1>1, <1>2 DEF PageInv, PageTyped, Painted, Statuses, G!TypeOK
<1>4. data # None => view \in Nat \/ held # None
  BY PageConstants DEF PageInv, Painted
<1> QED
  BY <1>3, <1>4 DEF PageInv, Asked, G!StatusTells

\* What a step of a page does to the page, and may not: its data stays, and so does what is
\* under a finger.
Cares == PageInv' /\ G!PaintedWithCare

\* A paint of something that fits the data there is now.
LEMMA Paints ==
  ASSUME PageInv, NEW x \in G!Markup, G!paint(x), data' = None <=> x \notin Nat,
         data' = None => data = None, held = None \/ finger \/ (data = None <=> data' = None),
         UNCHANGED tapped
  PROVE  Painted' /\ (view \in Nat => view' \in Nat) /\ (finger => view' = view)
<1>1. CASE x = last
  <2>1. UNCHANGED <<view, last, held>>
    BY <1>1 DEF G!paint, G!page
  <2> QED
    BY <1>1, <2>1 DEF PageInv, Painted
<1>2. CASE x # last /\ finger
  <2>1. UNCHANGED <<view, last>> /\ held' = x
    BY <1>2 DEF G!paint
  <2> QED
    BY <1>2, <2>1 DEF PageInv, Painted
<1>3. CASE x # last /\ ~finger
  <2>1. view' = x /\ last' = x /\ held' = held
    BY <1>3 DEF G!paint
  <2>2. view \in Nat => x \in Nat
    BY DEF PageInv, Painted
  <2> QED
    BY <1>3, <2>1, <2>2, PageConstants DEF PageInv, Painted
<1> QED
  BY <1>1, <1>2, <1>3

LEMMA PageStays ==
  ASSUME PageInv, data' = None <=> data = None, UNCHANGED <<view, last, held, tapped>>
  PROVE  Painted' /\ (view \in Nat => view' \in Nat) /\ (finger => view' = view)
BY DEF PageInv, Painted

LEMMA PaintsData ==
  ASSUME PageInv, NEW x \in Nat, G!paintData(x), data' # None,
         held = None \/ finger \/ data # None, UNCHANGED tapped
  PROVE  Painted' /\ (view \in Nat => view' \in Nat) /\ (finger => view' = view)
<1>1. CASE kind = "night" /\ tapped # None
  <2>1. UNCHANGED <<view, last, held>> /\ data # None
    BY <1>1 DEF G!paintData, G!page, PageInv, Asked
  <2> QED
    BY <2>1, PageStays
<1>2. CASE ~(kind = "night" /\ tapped # None)
  <2>1. G!paint(x) /\ x \in G!Markup
    BY <1>2 DEF G!paintData, G!Markup
  <2> QED
    BY <2>1, Paints
<1> QED
  BY <1>1, <1>2

LEMMA Refreshes ==
  ASSUME PageInv, G!refresh, UNCHANGED <<kind, tapped>>
  PROVE  /\ Painted' /\ Asked' /\ data' = data /\ status' \in Statuses
         /\ req' # None => req' \in [says : Nat \cup {None}]
         /\ (view \in Nat => view' \in Nat) /\ (finger => view' = view)
<1>1. CASE req # None
  <2>1. UNCHANGED <<data, status, req, view, last, held>>
    BY <1>1 DEF G!refresh, G!res, G!page
  <2> QED
    BY <2>1, PageStays DEF PageInv, PageTyped, Asked
<1>2. CASE req = None
  <2>1. /\ req' = [says |-> None] /\ data' = data
        /\ status' = IF data = None THEN "loading" ELSE "refreshing"
        /\ IF data # None THEN G!paintData(data)
           ELSE IF view # Skeleton THEN G!paint(Blank) ELSE UNCHANGED <<view, last, held>>
    BY <1>2 DEF G!refresh, G!Unread, G!page
  <2>2. req' \in [says : Nat \cup {None}] /\ req' # None
    <3>1. req' \in [says : Nat \cup {None}]
      BY <2>1
    <3> QED
      BY <3>1, PageConstants
  <2>3. Asked'
    BY <2>1, <2>2 DEF PageInv, Asked
  <2>4. Painted' /\ (view \in Nat => view' \in Nat) /\ (finger => view' = view)
    <3>1. CASE data # None
      <4>1. data \in Nat
        BY <3>1 DEF PageInv, PageTyped
      <4> QED
        BY <2>1, <3>1, <4>1, PaintsData
    <3>2. CASE data = None /\ view # Skeleton
      <4>1. Blank \in G!Markup /\ Blank \notin Nat
        BY PageConstants DEF G!Markup
      <4> QED
        BY <2>1, <3>2, <4>1, Paints
    <3>3. CASE data = None /\ view = Skeleton
      BY <2>1, <3>3, PageStays
    <3> QED
      BY <3>1, <3>2, <3>3
  <2> QED
    BY <2>1, <2>2, <2>3, <2>4 DEF Statuses
<1> QED
  BY <1>1, <1>2

\* The answers.
LEMMA AnswersCare ==
  ASSUME ~LateFlush, PageInv, G!Read \/ G!Answered \/ G!ReadFails \/ G!SkeletonDue
  PROVE  Cares
<1>0. UNCHANGED <<kind, srv, made, up, hold, puts, finger, tapped>>
  BY DEF G!Read, G!Answered, G!ReadFails, G!SkeletonDue
<1>1. fails' \in 0..MaxFails
  BY PageConstants DEF G!Read, G!Answered, G!ReadFails, G!SkeletonDue, PageInv, PageTyped
<1>2. CASE G!Read
  <2>1. /\ req # None /\ req' = [says |-> srv] /\ UNCHANGED <<data, status, view, last, held>>
    BY <1>2 DEF G!Read, G!page
  <2>2. req' \in [says : Nat \cup {None}] /\ req' # None
    <3>1. req' \in [says : Nat \cup {None}]
      BY <2>1 DEF PageInv, PageTyped
    <3> QED
      BY <3>1, PageConstants
  <2>3. PageTyped'
    BY <1>0, <1>1, <2>1, <2>2 DEF PageInv, PageTyped
  <2>4. Asked'
    BY <1>0, <2>1, <2>2 DEF PageInv, Asked
  <2>5. Painted'
    BY <1>0, <2>1, PageStays
  <2> QED
    BY <1>0, <2>1, <2>3, <2>4, <2>5 DEF Cares, PageInv, G!PaintedWithCare
<1>3. CASE G!Answered
  <2>1. /\ (held = None \/ finger) /\ req # None /\ req.says # None
        /\ data' = req.says /\ status' = "idle" /\ req' = None /\ G!paintData(req.says)
    BY <1>3 DEF G!Answered, G!Calm
  <2>2. req.says \in Nat /\ data' \in Nat /\ data' # None
    BY <2>1, PageConstants DEF PageInv, PageTyped
  <2>3. Painted' /\ (view \in Nat => view' \in Nat) /\ (finger => view' = view)
    BY <1>0, <2>1, <2>2, PaintsData
  <2>4. PageTyped'
    BY <1>0, <1>1, <2>1, <2>2 DEF PageInv, PageTyped, Statuses
  <2>5. Asked'
    BY <1>0, <2>1, <2>2 DEF PageInv, Asked
  <2> QED
    BY <2>3, <2>4, <2>5 DEF Cares, PageInv, G!PaintedWithCare
<1>4. CASE G!ReadFails
  <2>1. /\ req # None /\ req' = None /\ data' = data /\ (held = None \/ finger)
        /\ status' = (IF kind = "night" THEN "idle" ELSE "failed")
        /\ IF data = None THEN G!paint(Failed) ELSE G!paintData(data)
    BY <1>4 DEF G!ReadFails, G!Calm
  <2>2. Painted' /\ (view \in Nat => view' \in Nat) /\ (finger => view' = view)
    <3>1. CASE data = None
      <4>1. Failed \in G!Markup /\ Failed \notin Nat
        BY PageConstants DEF G!Markup
      <4> QED
        BY <1>0, <2>1, <3>1, <4>1, Paints
    <3>2. CASE data # None
      <4>1. data \in Nat
        BY <3>2 DEF PageInv, PageTyped
      <4> QED
        BY <1>0, <2>1, <3>2, <4>1, PaintsData
    <3> QED
      BY <3>1, <3>2
  <2>3. PageTyped'
    BY <1>0, <1>1, <2>1 DEF PageInv, PageTyped, Statuses
  <2>4. Asked'
    BY <1>0, <2>1 DEF PageInv, Asked
  <2> QED
    BY <2>2, <2>3, <2>4 DEF Cares, PageInv, G!PaintedWithCare
<1>5. CASE G!SkeletonDue
  <2>1. (held = None \/ finger) /\ data = None /\ G!paint(Skeleton) /\ UNCHANGED <<data, status, req>>
    BY <1>5 DEF G!SkeletonDue, G!Calm, G!res
  <2>2. Skeleton \in G!Markup /\ Skeleton \notin Nat
    BY PageConstants DEF G!Markup
  <2>3. Painted' /\ (view \in Nat => view' \in Nat) /\ (finger => view' = view)
    BY <1>0, <2>1, <2>2, Paints
  <2>4. PageTyped'
    BY <1>0, <1>1, <2>1 DEF PageInv, PageTyped
  <2>5. Asked'
    BY <1>0, <2>1 DEF PageInv, Asked
  <2> QED
    BY <2>3, <2>4, <2>5 DEF Cares, PageInv, G!PaintedWithCare
<1> QED
  BY <1>2, <1>3, <1>4, <1>5

\* The page reads again.
LEMMA RefreshCares ==
  ASSUME PageInv, G!refresh, UNCHANGED <<kind, fails, srv, made, finger, tapped>>,
         up' \in BOOLEAN, hold' \in BOOLEAN, \A p \in puts' : p \in [n : Nat, done : BOOLEAN]
  PROVE  Cares
<1>1. PageTyped'
  BY Refreshes DEF PageInv, PageTyped
<1> QED
  BY <1>1, Refreshes DEF Cares, PageInv, G!PaintedWithCare

\* Nothing is read, and nothing is painted.
LEMMA QuietCares ==
  ASSUME PageInv, UNCHANGED <<kind, fails, data, status, req, view, last, held>>,
         srv' \in Nat, made' \in Nat, up' \in BOOLEAN, hold' \in BOOLEAN, finger' \in BOOLEAN,
         \A p \in puts' : p \in [n : Nat, done : BOOLEAN], tapped' \in {tapped, None}
  PROVE  Cares
<1>1. PageTyped'
  BY DEF PageInv, PageTyped
<1>2. Asked'
  BY DEF PageInv, Asked
<1>3. Painted'
  BY DEF PageInv, Painted
<1> QED
  BY <1>1, <1>2, <1>3 DEF Cares, PageInv, G!PaintedWithCare

LEMMA ShowsCare ==
  ASSUME PageInv, G!Show \/ G!Hide \/ G!Tick \/ G!HoldEnds \/ G!Retry \/ G!FingerDown \/ G!FingerUp
  PROVE  Cares
<1>0. /\ UNCHANGED <<kind, fails, srv, made, puts>> /\ up' \in BOOLEAN /\ hold' \in BOOLEAN
      /\ finger' \in BOOLEAN /\ srv \in Nat /\ made \in Nat /\ (\A p \in puts : p \in [n : Nat, done : BOOLEAN])
      /\ tapped' \in {tapped, None}
  BY DEF G!Show, G!Hide, G!Tick, G!HoldEnds, G!Retry, G!FingerDown, G!FingerUp, PageInv, PageTyped
<1>1. CASE G!refresh /\ UNCHANGED <<finger, tapped>>
  BY <1>0, <1>1, RefreshCares
<1>2. CASE UNCHANGED <<data, status, req, view, last, held>>
  BY <1>0, <1>2, QuietCares
<1> QED
  BY <1>1, <1>2 DEF G!Show, G!Hide, G!Tick, G!HoldEnds, G!Retry, G!FingerDown, G!FingerUp, G!res, G!page

LEMMA FlushCares ==
  ASSUME PageInv, G!Flush
  PROVE  Cares
<1>0. /\ held # None /\ ~finger /\ held' = None
      /\ view' = (IF held = last THEN view ELSE held) /\ last' = held
      /\ UNCHANGED <<kind, fails, srv, made, up, data, status, req, hold, puts, finger, tapped>>
  BY DEF G!Flush, G!res
<1>1. PageTyped' /\ Asked'
  BY <1>0 DEF PageInv, PageTyped, Asked
<1>2. view \in Nat => held \in Nat
  BY <1>0 DEF PageInv, Painted
<1>3. Painted'
  BY <1>0, <1>2, PageConstants DEF PageInv, Painted
<1> QED
  BY <1>0, <1>1, <1>2, <1>3 DEF Cares, PageInv, G!PaintedWithCare

\* The changes.
LEMMA ChangesCare ==
  ASSUME PageInv, G!PressPolled \/ G!PressOnce \/ G!StepTap \/ G!ElsewhereChanged
  PROVE  Cares
<1>0. /\ UNCHANGED <<kind, fails, up, data, status, req, last, held, finger>> /\ made' = made + 1
      /\ made \in Nat /\ srv' \in Nat
  BY DEF G!PressPolled, G!PressOnce, G!pressed, G!StepTap, G!ElsewhereChanged, G!n1, G!res, G!page, PageInv, PageTyped
<1>1. CASE G!ElsewhereChanged
  <2>1. UNCHANGED <<view, hold, puts, tapped>>
    BY <1>1 DEF G!ElsewhereChanged, G!page
  <2> QED
    BY <1>0, <2>1, QuietCares DEF PageInv, PageTyped
<1>2. CASE ~G!ElsewhereChanged
  <2>1. view \in Nat /\ view' = made + 1 /\ tapped' \in {tapped, made + 1} /\ srv' = srv
        /\ puts' \in {puts, puts \cup {[n |-> made + 1, done |-> FALSE]}}
    BY <1>2 DEF G!PressPolled, G!PressOnce, G!pressed, G!StepTap, G!n1, G!CanChange
  <2>2. hold' \in BOOLEAN
    BY <1>2 DEF G!PressPolled, G!PressOnce, G!StepTap, PageInv, PageTyped
  <2>3. \A p \in puts' : p \in [n : Nat, done : BOOLEAN]
    <3>1. [n |-> made + 1, done |-> FALSE] \in [n : Nat, done : BOOLEAN]
      BY <1>0
    <3>2. \A p \in puts : p \in [n : Nat, done : BOOLEAN]
      BY DEF PageInv, PageTyped
    <3> QED
      BY <2>1, <3>1, <3>2
  <2>4. PageTyped'
    BY <1>0, <2>1, <2>2, <2>3 DEF PageInv, PageTyped
  <2>5. Asked'
    BY <1>0 DEF PageInv, Asked
  <2>6. Painted'
    BY <1>0, <2>1 DEF PageInv, Painted, G!Markup
  <2> QED
    BY <1>0, <2>1, <2>4, <2>5, <2>6 DEF Cares, PageInv, G!PaintedWithCare
<1> QED
  BY <1>1, <1>2

LEMMA PutsCare ==
  ASSUME ~LateFlush, PageInv,
         G!StepSend \/ (\E p \in puts : G!Apply(p) \/ G!PutAnswered(p) \/ G!PutFails(p))
  PROVE  Cares
<1>0. /\ UNCHANGED <<kind, fails, made, up, finger>> /\ made \in Nat /\ srv \in Nat /\ up \in BOOLEAN
      /\ finger \in BOOLEAN /\ \A p \in puts : p \in [n : Nat, done : BOOLEAN]
  BY DEF G!StepSend, G!Apply, G!PutAnswered, G!PutFails, PageInv, PageTyped
<1>1. CASE G!StepSend
  <2>1. /\ tapped # None /\ tapped' = None /\ UNCHANGED <<srv, data, status, req, view, last, held>>
        /\ puts' = puts \cup {[n |-> view, done |-> FALSE]} /\ hold' = (hold \/ G!Polled)
    BY <1>1 DEF G!StepSend, G!res, G!page
  <2>2. hold' \in BOOLEAN
    BY <2>1 DEF PageInv, PageTyped, G!Polled
  <2>3. view \in Nat
    BY <2>1 DEF PageInv, Painted
  <2>4. \A p \in puts' : p \in [n : Nat, done : BOOLEAN]
    <3>1. [n |-> view, done |-> FALSE] \in [n : Nat, done : BOOLEAN]
      BY <2>3
    <3> QED
      BY <1>0, <2>1, <3>1
  <2> QED
    BY <1>0, <2>1, <2>2, <2>4, QuietCares
<1>2. ASSUME NEW p \in puts, G!Apply(p) PROVE Cares
  <2>1. /\ srv' = p.n /\ puts' = (puts \ {p}) \cup {[p EXCEPT !.done = TRUE]}
        /\ UNCHANGED <<data, status, req, hold, view, last, held, tapped>>
    BY <1>2 DEF G!Apply, G!res, G!page
  <2>2. srv' \in Nat /\ hold \in BOOLEAN /\ \A q \in puts' : q \in [n : Nat, done : BOOLEAN]
    BY <1>0, <2>1 DEF PageInv, PageTyped
  <2> QED
    BY <1>0, <2>1, <2>2, QuietCares
<1>3. ASSUME NEW p \in puts, G!PutAnswered(p) \/ G!PutFails(p) PROVE Cares
  <2>1. /\ (held = None \/ finger) /\ puts' = puts \ {p} /\ hold' = FALSE /\ UNCHANGED <<srv, tapped>>
        /\ \/ G!refresh
           \/ /\ kind = "night" /\ data' = p.n /\ status' = "idle" /\ req' = [says |-> None] /\ G!paintData(p.n)
           \/ /\ kind = "night" /\ G!paintData(data) /\ UNCHANGED <<data, status, req>>
    BY <1>3 DEF G!PutAnswered, G!PutFails, G!Calm, G!res, G!Unread
  <2>2. \A q \in puts' : q \in [n : Nat, done : BOOLEAN]
    BY <1>0, <2>1
  <2>3. CASE G!refresh
    BY <1>0, <2>1, <2>2, <2>3, RefreshCares
  <2>4. CASE kind = "night" /\ data' = p.n /\ status' = "idle" /\ req' = [says |-> None] /\ G!paintData(p.n)
    <3>1. p.n \in Nat /\ data' # None /\ req' \in [says : Nat \cup {None}]
      BY <1>0, <2>4, PageConstants
    <3>2. Painted' /\ (view \in Nat => view' \in Nat) /\ (finger => view' = view)
      BY <2>1, <2>4, <3>1, PaintsData
    <3>3. PageTyped'
      BY <1>0, <2>1, <2>2, <2>4, <3>1 DEF PageInv, PageTyped, Statuses
    <3>4. Asked'
      BY <1>0, <2>4, <3>1 DEF PageInv, Asked
    <3> QED
      BY <3>2, <3>3, <3>4 DEF Cares, PageInv, G!PaintedWithCare
  <2>5. CASE kind = "night" /\ G!paintData(data) /\ UNCHANGED <<data, status, req>>
    <3>1. data # None /\ data \in Nat
      BY <2>5 DEF PageInv, PageTyped, Asked
    <3>2. Painted' /\ (view \in Nat => view' \in Nat) /\ (finger => view' = view)
      BY <2>1, <2>5, <3>1, PaintsData
    <3>3. PageTyped'
      BY <1>0, <2>1, <2>2, <2>5 DEF PageInv, PageTyped
    <3>4. Asked'
      BY <1>0, <2>5 DEF PageInv, Asked
    <3> QED
      BY <3>2, <3>3, <3>4 DEF Cares, PageInv, G!PaintedWithCare
  <2> QED
    BY <2>1, <2>3, <2>4, <2>5
<1> QED
  BY <1>1, <1>2, <1>3

LEMMA PageKeeps ==
  ASSUME ~LateFlush, PageInv, [G!Next]_(G!vars)
  PROVE  Cares
<1>1. CASE UNCHANGED G!vars
  <2>1. UNCHANGED <<kind, fails, srv, made, up, data, status, req, hold, puts, view, last, held, finger, tapped>>
    BY <1>1 DEF G!vars, G!res, G!page
  <2> QED
    BY <2>1, QuietCares DEF PageInv, PageTyped
<1>2. CASE G!Next
  BY <1>2, AnswersCare, ShowsCare, FlushCares, ChangesCare, PutsCare DEF G!Next, G!SomePut
<1> QED
  BY <1>1, <1>2

-----------------------------------------------------------------------------
\* A sequence without the i-th of its elements: the others, in order.

Without(s, i) == SubSeq(s, 1, i - 1) \o SubSeq(s, i + 1, Len(s))

LEMMA WithoutOne ==
  ASSUME NEW X, NEW s \in Seq(X), NEW i \in 1..Len(s)
  PROVE  /\ Without(s, i) \in Seq(X) /\ Len(Without(s, i)) = Len(s) - 1
         /\ \A j \in 1..(Len(s) - 1) : Without(s, i)[j] = IF j < i THEN s[j] ELSE s[j + 1]
<1> DEFINE n == Len(s)
           a == SubSeq(s, 1, i - 1)
           b == SubSeq(s, i + 1, n)
           d == a \o b
<1>1. n \in Nat /\ i \in 1..n /\ \A j \in 1..n : s[j] \in X
  BY ElementOfSeq, LenProperties
<1>2. d = Without(s, i)
  BY DEF Without
<1> HIDE DEF n
<1>4. /\ a \in Seq(X) /\ Len(a) = i - 1 /\ \A j \in 1..(i - 1) : a[j] = s[j]
  <2>1. \A j \in 1..(i - 1) : s[j] \in X
    BY <1>1
  <2>2. 1 \in Int /\ i - 1 \in Int
    BY <1>1
  <2>3. /\ a \in Seq(X) /\ Len(a) = IF 1 <= i - 1 THEN i - 1 - 1 + 1 ELSE 0
        /\ \A j \in 1..(i - 1 - 1 + 1) : a[j] = s[1 + j - 1]
    BY <2>1, <2>2, SubSeqProperties
  <2> HIDE DEF a
  <2> QED
    BY <1>1, <2>3
<1>5. /\ b \in Seq(X) /\ Len(b) = n - i /\ \A j \in 1..(n - i) : b[j] = s[i + j]
  <2>1. \A j \in (i + 1)..n : s[j] \in X
    BY <1>1
  <2>2. i + 1 \in Int /\ n \in Int
    BY <1>1
  <2>3. /\ b \in Seq(X) /\ Len(b) = IF i + 1 <= n THEN n - (i + 1) + 1 ELSE 0
        /\ \A j \in 1..(n - (i + 1) + 1) : b[j] = s[i + 1 + j - 1]
    BY <2>1, <2>2, SubSeqProperties
  <2> HIDE DEF b
  <2> QED
    BY <1>1, <2>3
<1> HIDE DEF a, b
<1>6. /\ d \in Seq(X) /\ Len(d) = n - 1
      /\ \A j \in 1..(n - 1) : d[j] = IF j < i THEN s[j] ELSE s[j + 1]
  <2>1. /\ d \in Seq(X) /\ Len(d) = Len(a) + Len(b)
        /\ \A j \in 1..(Len(a) + Len(b)) : d[j] = IF j <= Len(a) THEN a[j] ELSE b[j - Len(a)]
    BY <1>4, <1>5, ConcatProperties
  <2> HIDE DEF d
  <2>2. Len(d) = n - 1
    BY <1>1, <1>4, <1>5, <2>1
  <2>3. ASSUME NEW j \in 1..(n - 1) PROVE d[j] = IF j < i THEN s[j] ELSE s[j + 1]
    <3>1. j \in 1..(Len(a) + Len(b))
      BY <1>1, <1>4, <1>5
    <3>2. CASE j < i
      <4>1. j <= Len(a) /\ a[j] = s[j]
        BY <1>1, <1>4, <3>2
      <4> QED
        BY <2>1, <3>1, <3>2, <4>1
    <3>3. CASE j >= i
      <4>1. ~(j <= Len(a)) /\ j - Len(a) \in 1..(n - i) /\ i + (j - Len(a)) = j + 1 /\ ~(j < i)
        BY <1>1, <1>4, <3>3
      <4>2. d[j] = b[j - Len(a)]
        BY <2>1, <3>1, <4>1
      <4> QED
        BY <1>5, <4>1, <4>2
    <3> QED
      BY <1>1, <3>2, <3>3
  <2> QED
    BY <2>1, <2>2, <2>3
<1> QED
  BY <1>2, <1>6 DEF n

\* What is left of it is what it was, the one apart.
LEMMA WithoutHolds ==
  ASSUME NEW X, NEW s \in Seq(X), NEW i \in 1..Len(s)
  PROVE  /\ \A j \in 1..Len(Without(s, i)) : \E k \in 1..Len(s) : k # i /\ Without(s, i)[j] = s[k]
         /\ \A k \in 1..Len(s) : k # i => \E j \in 1..Len(Without(s, i)) : Without(s, i)[j] = s[k]
<1>0. PICK d : d = Without(s, i)
  OBVIOUS
<1>1. /\ Len(s) \in Nat /\ Len(d) = Len(s) - 1
      /\ \A j \in 1..(Len(s) - 1) : d[j] = IF j < i THEN s[j] ELSE s[j + 1]
  BY <1>0, WithoutOne, LenProperties
<1>2. ASSUME NEW j \in 1..Len(d) PROVE \E k \in 1..Len(s) : k # i /\ d[j] = s[k]
  <2>1. CASE j < i
    <3>1. j \in 1..Len(s) /\ j # i /\ d[j] = s[j]
      BY <1>1, <2>1
    <3> QED
      BY <3>1
  <2>2. CASE j >= i
    <3>1. j + 1 \in 1..Len(s) /\ j + 1 # i /\ d[j] = s[j + 1]
      BY <1>1, <2>2
    <3> QED
      BY <3>1
  <2> QED
    BY <1>1, <2>1, <2>2
<1>3. ASSUME NEW k \in 1..Len(s), k # i PROVE \E j \in 1..Len(d) : d[j] = s[k]
  <2>1. CASE k < i
    <3>1. k \in 1..Len(d) /\ d[k] = s[k]
      BY <1>1, <2>1
    <3> QED
      BY <3>1
  <2>2. CASE k > i
    <3>1. k - 1 \in 1..Len(d) /\ d[k - 1] = s[k]
      <4>1. k - 1 \in 1..(Len(s) - 1) /\ ~(k - 1 < i) /\ k - 1 + 1 = k
        BY <1>1, <2>2
      <4> QED
        BY <1>1, <4>1
    <3> QED
      BY <3>1
  <2> QED
    BY <1>1, <1>3, <2>1, <2>2
<1> QED
  BY <1>0, <1>2, <1>3

\* Elements told apart by their ids stay so.
LEMMA WithoutApart ==
  ASSUME NEW X, NEW s \in Seq(X), NEW i \in 1..Len(s),
         \A j, k \in 1..Len(s) : s[j].id = s[k].id => j = k
  PROVE  /\ \A j, k \in 1..Len(Without(s, i)) : Without(s, i)[j].id = Without(s, i)[k].id => j = k
         /\ {Without(s, i)[j].id : j \in 1..Len(Without(s, i))} = {s[k].id : k \in 1..Len(s)} \ {s[i].id}
<1> DEFINE d == Without(s, i)
<1>1. /\ Len(s) \in Nat /\ Len(d) = Len(s) - 1
      /\ \A j \in 1..(Len(s) - 1) : d[j] = IF j < i THEN s[j] ELSE s[j + 1]
  BY WithoutOne, LenProperties
<1>2. ASSUME NEW j \in 1..Len(d), NEW k \in 1..Len(d), d[j].id = d[k].id PROVE j = k
  <2>1. PICK j1 \in 1..Len(s) : d[j] = s[j1] /\ j1 = IF j < i THEN j ELSE j + 1
    BY <1>1
  <2>2. PICK k1 \in 1..Len(s) : d[k] = s[k1] /\ k1 = IF k < i THEN k ELSE k + 1
    BY <1>1
  <2>3. j1 = k1
    BY <1>2, <2>1, <2>2
  <2> QED
    BY <1>1, <2>1, <2>2, <2>3
<1>3. {d[j].id : j \in 1..Len(d)} = {s[k].id : k \in 1..Len(s)} \ {s[i].id}
  <2>1. \A j \in 1..Len(d) : \E k \in 1..Len(s) : k # i /\ d[j] = s[k]
    BY WithoutHolds
  <2>2. \A k \in 1..Len(s) : k # i => \E j \in 1..Len(d) : d[j] = s[k]
    BY WithoutHolds
  <2>3. ASSUME NEW j \in 1..Len(d)
        PROVE  d[j].id \in {s[k].id : k \in 1..Len(s)} /\ d[j].id # s[i].id
    <3>1. PICK k \in 1..Len(s) : k # i /\ d[j] = s[k]
      BY <2>1
    <3>2. s[k].id # s[i].id
      BY <3>1
    <3> QED
      BY <3>1, <3>2
  <2>4. ASSUME NEW k \in 1..Len(s), s[k].id # s[i].id
        PROVE  s[k].id \in {d[j].id : j \in 1..Len(d)}
    <3>1. PICK j \in 1..Len(d) : d[j] = s[k]
      BY <2>2, <2>4
    <3> QED
      BY <3>1
  <2>5. \A x : x \in {d[j].id : j \in 1..Len(d)} => x \in {s[k].id : k \in 1..Len(s)} \ {s[i].id}
    BY <2>3
  <2>6. \A x : x \in {s[k].id : k \in 1..Len(s)} \ {s[i].id} => x \in {d[j].id : j \in 1..Len(d)}
    BY <2>4
  <2> QED
    BY <2>5, <2>6
<1>4. \A j, k \in 1..Len(d) : d[j].id = d[k].id => j = k
  BY <1>2
<1> QED
  BY <1>3, <1>4

\* One more of them.
LEMMA OneMore ==
  ASSUME NEW X, NEW s \in Seq(X), NEW e \in X
  PROVE  /\ Append(s, e) \in Seq(X) /\ Len(Append(s, e)) = Len(s) + 1 /\ Len(s) \in Nat
         /\ \A j \in 1..Len(s) : Append(s, e)[j] = s[j]
         /\ Append(s, e)[Len(s) + 1] = e
BY AppendProperties, LenProperties

-----------------------------------------------------------------------------
\* What lies over the page (Layers).

Up == {stack[i].id : i \in 1..Len(stack)}
Answers == {"open", "yes", "no"}
\* Whoever opened a layer waits just as long as it is up.
Stacked ==
  /\ stack \in Seq([id : 1..Len(answer), kind : L!LayerKinds]) /\ answer \in Seq(Answers)
  /\ \A i, j \in 1..Len(stack) : stack[i].id = stack[j].id => i = j
  /\ {i \in 1..Len(answer) : answer[i] = "open"} = Up
  /\ watching \subseteq Up
\* A check runs in a dialog that is up, and what it did was asked for.
Checks ==
  /\ checking \subseteq Up /\ acted \subseteq 1..Len(answer)
  /\ \A i \in 1..Len(stack) : stack[i].id \in checking => stack[i].kind = "checked"
  /\ \A i \in acted : answer[i] = "yes"
\* The keyboard is up over a field, or until its timer looks.
Typing ==
  /\ osk \in BOOLEAN /\ blurs \in BOOLEAN
  /\ focus # None => osk
  /\ osk => focus # None \/ blurs
Counted == acts \in 0..MaxActs /\ toasted \in 0..MaxToasts
LayersInv == Stacked /\ Checks /\ Typing /\ Counted

LEMMA LayersConstants == MaxLayers \in Nat /\ MaxActs \in Nat /\ MaxToasts \in Nat /\ None \notin Int
BY PagesParameters DEF L!LayersAssumption

LEMMA LayersBegin == L!Init => LayersInv
<1> SUFFICES ASSUME L!Init PROVE LayersInv
  OBVIOUS
<1>1. stack = <<>> /\ answer = <<>> /\ watching = {} /\ checking = {} /\ acted = {}
  BY DEF L!Init
<1>2. Len(stack) = 0 /\ Len(answer) = 0 /\ Up = {}
  BY <1>1 DEF Up
<1>3. Stacked
  <2>1. stack \in Seq([id : 1..Len(answer), kind : L!LayerKinds]) /\ answer \in Seq(Answers)
    BY <1>1
  <2> QED
    BY <1>1, <1>2, <2>1 DEF Stacked
<1>4. Checks
  BY <1>1, <1>2 DEF Checks
<1>5. Typing
  BY DEF L!Init, Typing
<1>6. Counted
  BY LayersConstants DEF L!Init, Counted
<1> QED
  BY <1>3, <1>4, <1>5, <1>6 DEF LayersInv

LEMMA LayersSay == ASSUME LayersInv PROVE L!LayersSound
<1>1. \A i \in 1..Len(stack) : stack[i] \in [id : 1..Len(answer), kind : L!LayerKinds]
  BY ElementOfSeq DEF LayersInv, Stacked
<1>2. \A i \in 1..Len(answer) : answer[i] \in Answers
  BY ElementOfSeq DEF LayersInv, Stacked
<1>3. Up \subseteq 1..Len(answer)
  BY DEF LayersInv, Stacked
<1>4. L!TypeOK
  <2>1. \A i \in 1..Len(stack) : stack[i].id \in 1..Len(answer) /\ stack[i].kind \in L!LayerKinds
    BY <1>1
  <2>2. checking \cup acted \cup watching \subseteq 1..Len(answer)
    BY <1>3 DEF LayersInv, Stacked, Checks
  <2> QED
    BY <1>2, <2>1, <2>2 DEF LayersInv, Counted, L!TypeOK, Answers
<1> QED
  BY <1>4 DEF LayersInv, Stacked, Checks, Typing, L!LayersSound, Up

LEMMA LayersCount == ASSUME LayersInv, L!Next PROVE Counted'
<1>1. acts' = acts \/ (acts < MaxActs /\ acts' = acts + 1)
  BY DEF L!Next, L!openLayer, L!tapCancel, L!tapOk, L!tapChecked, L!Checked, L!Left, L!focusField, L!Focusout, L!hideKeyboard,
         L!Arrow, L!activate, L!goBack, L!nextTabPressed, L!EarlySync, L!LateSync, L!Offline, L!Online,
         L!toast, L!press, L!release, L!leave, L!Slip, L!Act
<1>2. toasted' = toasted \/ (toasted < MaxToasts /\ toasted' = toasted + 1)
  BY DEF L!Next, L!openLayer, L!tapCancel, L!tapOk, L!tapChecked, L!Checked, L!Left, L!focusField, L!Focusout, L!hideKeyboard,
         L!Arrow, L!activate, L!goBack, L!nextTabPressed, L!EarlySync, L!LateSync, L!Offline, L!Online,
         L!toast, L!press, L!release, L!leave, L!Slip, L!toasts
<1> QED
  BY <1>1, <1>2, LayersConstants DEF LayersInv, Counted

\* The keyboard.
LEMMA TypingStays ==
  ASSUME Typing,
         \/ UNCHANGED L!keys
         \/ L!dropKeyboard
         \/ focus' \in Int /\ osk' = TRUE /\ blurs' \in BOOLEAN
         \/ focus' = None /\ osk' = osk /\ blurs' = TRUE
         \/ L!Focusout
  PROVE  Typing'
<1>1. CASE UNCHANGED L!keys
  BY <1>1 DEF Typing, L!keys
<1>2. CASE L!dropKeyboard
  BY <1>2 DEF Typing, L!dropKeyboard
<1>3. CASE focus' \in Int /\ osk' = TRUE /\ blurs' \in BOOLEAN
  BY <1>3, LayersConstants DEF Typing
<1>4. CASE focus' = None /\ osk' = osk /\ blurs' = TRUE
  BY <1>4 DEF Typing
<1>5. CASE L!Focusout
  BY <1>5 DEF Typing, L!Focusout
<1> QED
  BY <1>1, <1>2, <1>3, <1>4, <1>5

LEMMA TopIsUp ==
  ASSUME LayersInv, stack # <<>>
  PROVE  /\ Len(stack) \in 1..Len(stack) /\ L!Top = stack[Len(stack)]
         /\ L!Top \in [id : 1..Len(answer), kind : L!LayerKinds] /\ Len(answer) \in Nat
<1>1. Len(stack) \in 1..Len(stack)
  BY EmptySeq, LenProperties DEF LayersInv, Stacked
<1>2. L!Top = stack[Len(stack)]
  BY DEF L!Top, L!Last
<1> QED
  BY <1>1, <1>2, ElementOfSeq, LenProperties DEF LayersInv, Stacked

LEMMA LayersType == ASSUME LayersInv, L!Next PROVE Typing'
<1>0. Typing /\ Len(answer) \in Nat /\ blurs \in BOOLEAN
  BY LenProperties DEF LayersInv, Stacked, Typing
<1>1. CASE L!openLayer
  <2>1. PICK k \in L!LayerKinds :
          IF k = "checked" /\ online
          THEN focus' = Len(answer) + 1 /\ osk' = TRUE /\ blurs' = (blurs \/ focus # None)
          ELSE UNCHANGED L!keys
    BY <1>1 DEF L!openLayer
  <2>2. CASE k = "checked" /\ online
    <3>1. focus' = Len(answer) + 1 /\ osk' = TRUE
      BY <2>1, <2>2
    <3>2. blurs' \in BOOLEAN
      BY <2>1, <2>2
    <3>3. focus' \in Int
      BY <1>0, <3>1
    <3> QED
      BY <1>0, <3>1, <3>2, <3>3, TypingStays
  <2>3. CASE ~(k = "checked" /\ online)
    BY <1>0, <2>1, <2>3, TypingStays
  <2> QED
    BY <2>2, <2>3
<1>2. CASE L!tapCancel \/ L!tapOk \/ L!tapChecked \/ L!hideKeyboard \/ L!nextTabPressed \/ L!Offline
  <2>1. L!dropKeyboard
    BY <1>2 DEF L!tapCancel, L!tapOk, L!tapChecked, L!hideKeyboard, L!nextTabPressed, L!Offline
  <2> QED
    BY <1>0, <2>1, TypingStays
<1>3. CASE L!Left
  <2>1. UNCHANGED L!keys \/ (focus' = None /\ osk' = osk /\ blurs' = TRUE)
    BY <1>3 DEF L!Left
  <2> QED
    BY <1>0, <2>1, TypingStays
<1>4. CASE L!focusField
  <2>1. focus' = (IF stack = <<>> THEN 0 ELSE L!Top.id) /\ osk' = TRUE /\ blurs' = (blurs \/ focus # None)
    BY <1>4 DEF L!focusField, L!Page
  <2>2. focus' \in Int
    BY <2>1, TopIsUp
  <2>3. blurs' \in BOOLEAN
    BY <2>1
  <2>4. osk' = TRUE
    BY <2>1
  <2> QED
    BY <1>0, <2>2, <2>3, <2>4, TypingStays
<1>5. CASE L!Focusout
  BY <1>0, <1>5, TypingStays
<1>6. CASE L!activate
  <2>1. \/ UNCHANGED L!keys
        \/ focus' = 0 /\ osk' = TRUE /\ blurs' = blurs
        \/ stack # <<>> /\ focus' = L!Top.id /\ osk' = TRUE /\ blurs' = blurs
    BY <1>6 DEF L!activate, L!keys, L!Page
  <2>2. stack # <<>> => L!Top.id \in Int
    BY TopIsUp
  <2>3. UNCHANGED L!keys \/ (focus' \in Int /\ osk' = TRUE /\ blurs' = blurs)
    BY <2>1, <2>2
  <2>4. CASE focus' \in Int /\ osk' = TRUE /\ blurs' = blurs
    <3>1. blurs' \in BOOLEAN
      BY <1>0, <2>4
    <3> QED
      BY <1>0, <2>4, <3>1, TypingStays
  <2> QED
    BY <1>0, <2>3, <2>4, TypingStays
<1>7. CASE L!goBack
  <2>1. L!dropKeyboard \/ UNCHANGED L!keys
    BY <1>7 DEF L!goBack
  <2> QED
    BY <1>0, <2>1, TypingStays
<1>8. CASE L!Checked \/ L!Arrow \/ L!EarlySync \/ L!LateSync \/ L!Online
           \/ L!toast \/ L!press \/ L!release \/ L!leave \/ L!Slip
  <2>1. UNCHANGED L!keys
    BY <1>8 DEF L!Checked, L!Arrow, L!EarlySync, L!LateSync, L!Online, L!toast, L!press, L!release, L!leave, L!Slip
  <2> QED
    BY <1>0, <2>1, TypingStays
<1> QED
  BY <1>1, <1>2, <1>3, <1>4, <1>5, <1>6, <1>7, <1>8 DEF L!Next

\* done() of a layer that is up.
LEMMA LayerDone ==
  ASSUME LayersInv, NEW k \in 1..Len(stack), NEW e, e = stack[k], NEW a \in {"yes", "no"}, L!done(e, a)
  PROVE  /\ Stacked' /\ Up' = Up \ {e.id} /\ e.id \in Up /\ Len(answer') = Len(answer) /\ answer'[e.id] = a
         /\ \A i \in 1..Len(answer) : i # e.id => answer'[i] = answer[i]
         /\ \A j \in 1..Len(stack') : \E i \in 1..Len(stack) : stack'[j] = stack[i]
<1> DEFINE X == [id : 1..Len(answer), kind : L!LayerKinds]
<1>1. /\ stack \in Seq(X) /\ answer \in Seq(Answers)
      /\ \A i, j \in 1..Len(stack) : stack[i].id = stack[j].id => i = j
      /\ {i \in 1..Len(answer) : answer[i] = "open"} = Up /\ watching \subseteq Up
  BY DEF LayersInv, Stacked
<1>2. e.id \in Up /\ e.id \in 1..Len(answer) /\ answer[e.id] = "open"
  BY <1>1 DEF Up
<1>3. answer' = [answer EXCEPT ![e.id] = a] /\ watching' = watching \ {e.id}
  BY <1>2 DEF L!done
<1>4. stack' = Without(stack, k)
  <2>1. (CHOOSE i \in 1..Len(stack) : stack[i].id = e.id) = k
    BY <1>1
  <2>2. \E i \in 1..Len(stack) : stack[i].id = e.id
    OBVIOUS
  <2> QED
    BY <2>1, <2>2 DEF L!done, L!RemoveAt, Without
<1>5. answer' \in Seq(Answers) /\ Len(answer') = Len(answer) /\ answer'[e.id] = a
      /\ \A i \in 1..Len(answer) : i # e.id => answer'[i] = answer[i]
  BY <1>1, <1>2, <1>3, ExceptSeq, LenProperties DEF Answers
<1>6. stack' \in Seq(X)
  <2> HIDE DEF X
  <2> QED
    BY <1>1, <1>4, WithoutOne
<1>7. /\ \A i, j \in 1..Len(stack') : stack'[i].id = stack'[j].id => i = j
      /\ Up' = Up \ {e.id}
  <2>1. Up' = {Without(stack, k)[j].id : j \in 1..Len(Without(stack, k))}
    BY <1>4 DEF Up
  <2> HIDE DEF X
  <2>2. /\ \A i, j \in 1..Len(Without(stack, k)) : Without(stack, k)[i].id = Without(stack, k)[j].id => i = j
        /\ {Without(stack, k)[j].id : j \in 1..Len(Without(stack, k))} = {stack[i].id : i \in 1..Len(stack)} \ {stack[k].id}
    BY <1>1, WithoutApart
  <2> QED
    BY <1>4, <2>1, <2>2 DEF Up
<1>8. \A j \in 1..Len(stack') : \E i \in 1..Len(stack) : stack'[j] = stack[i]
  <2> HIDE DEF X
  <2> QED
    BY <1>1, <1>4, WithoutHolds
<1>9. {i \in 1..Len(answer') : answer'[i] = "open"} = Up'
  BY <1>1, <1>2, <1>5, <1>7
<1>10. watching' \subseteq Up'
  BY <1>1, <1>3, <1>7
<1>11. Stacked'
  BY <1>5, <1>6, <1>7, <1>9, <1>10 DEF Stacked
<1> QED
  BY <1>2, <1>5, <1>7, <1>8, <1>11

\* What the person, or a check, takes down.
LEMMA TakenDown ==
  ASSUME LayersInv, NEW k \in 1..Len(stack), NEW e, e = stack[k], NEW a \in {"yes", "no"}, L!done(e, a),
         \/ e.id \notin checking /\ checking' = checking /\ acted' = acted
         \/ a = "yes" /\ checking' = checking \ {e.id} /\ acted' = acted \cup {e.id}
  PROVE  Stacked' /\ Checks'
<1>1. /\ Stacked' /\ Up' = Up \ {e.id} /\ e.id \in Up /\ Len(answer') = Len(answer) /\ answer'[e.id] = a
      /\ \A i \in 1..Len(answer) : i # e.id => answer'[i] = answer[i]
      /\ \A j \in 1..Len(stack') : \E i \in 1..Len(stack) : stack'[j] = stack[i]
  BY LayerDone
<1>2. e.id \in 1..Len(answer) /\ answer[e.id] = "open"
  BY <1>1 DEF LayersInv, Stacked
<1>3. checking' \subseteq Up' /\ acted' \subseteq 1..Len(answer') /\ checking' \subseteq checking
  BY <1>1, <1>2 DEF LayersInv, Checks
<1>4. \A j \in 1..Len(stack') : stack'[j].id \in checking' => stack'[j].kind = "checked"
  BY <1>1, <1>3 DEF LayersInv, Checks
<1>5. \A i \in acted' : answer'[i] = "yes"
  BY <1>1, <1>2 DEF LayersInv, Checks
<1> QED
  BY <1>1, <1>3, <1>4, <1>5 DEF Checks

\* A check begins, or fails.
LEMMA CheckRuns ==
  ASSUME LayersInv, UNCHANGED <<stack, answer, acted, watching>>,
         \/ checking' \subseteq checking
         \/ \E k \in 1..Len(stack) : stack[k].kind = "checked" /\ checking' = checking \cup {stack[k].id}
  PROVE  Stacked' /\ Checks'
<1>1. Up' = Up
  BY DEF Up
<1>2. Stacked'
  BY <1>1 DEF LayersInv, Stacked
<1>3. CASE checking' \subseteq checking
  BY <1>1, <1>2, <1>3 DEF LayersInv, Checks
<1>4. ASSUME NEW k \in 1..Len(stack), stack[k].kind = "checked", checking' = checking \cup {stack[k].id}
      PROVE  Checks'
  <2>1. \A i \in 1..Len(stack) : stack[i].id = stack[k].id => i = k
    BY DEF LayersInv, Stacked
  <2>2. stack[k].id \in Up
    BY DEF Up
  <2> QED
    BY <1>1, <1>4, <2>1, <2>2 DEF LayersInv, Checks
<1> QED
  BY <1>2, <1>3, <1>4

\* One more of them opens.
LEMMA LayerOpens == ASSUME LayersInv, L!openLayer PROVE Stacked' /\ Checks'
<1> DEFINE n == Len(answer)
           X == [id : 1..n, kind : L!LayerKinds]
           Y == [id : 1..(n + 1), kind : L!LayerKinds]
<1>1. PICK k \in L!LayerKinds :
        /\ stack' = Append(stack, [id |-> n + 1, kind |-> k]) /\ answer' = Append(answer, "open")
        /\ watching' = IF k = "panel" THEN watching \cup {n + 1} ELSE watching
  BY DEF L!openLayer
<1>2. UNCHANGED <<checking, acted>>
  BY DEF L!openLayer
<1>3. /\ stack \in Seq(X) /\ answer \in Seq(Answers)
      /\ \A i, j \in 1..Len(stack) : stack[i].id = stack[j].id => i = j
      /\ {i \in 1..n : answer[i] = "open"} = Up /\ watching \subseteq Up /\ n \in Nat
  BY LenProperties DEF LayersInv, Stacked
<1>4. /\ answer' \in Seq(Answers) /\ Len(answer') = n + 1 /\ answer'[n + 1] = "open"
      /\ \A i \in 1..n : answer'[i] = answer[i]
  BY <1>1, <1>3, OneMore DEF Answers
<1>5. PICK e : e = [id |-> n + 1, kind |-> k]
  OBVIOUS
<1>6. e \in Y /\ X \subseteq Y
  BY <1>3, <1>5
<1>7. stack \in Seq(Y)
  <2> HIDE DEF X, Y
  <2> QED
    BY <1>3, <1>6, SeqMonotonic
<1>8. /\ stack' \in Seq(Y) /\ Len(stack') = Len(stack) + 1 /\ Len(stack) \in Nat
      /\ \A j \in 1..Len(stack) : stack'[j] = stack[j]
      /\ stack'[Len(stack) + 1] = e
  <2> HIDE DEF Y, n
  <2>1. stack' = Append(stack, e)
    BY <1>1, <1>5
  <2> QED
    BY <1>6, <1>7, <2>1, OneMore
<1>9. Up \subseteq 1..n
  BY <1>3
<1>10. \A j \in 1..Len(stack) : stack[j].id \in Up
  BY DEF Up
<1> HIDE DEF n
<1>11. Up' = Up \cup {n + 1}
  <2>1. \A x \in Up' : x \in Up \cup {n + 1}
    <3> SUFFICES ASSUME NEW j \in 1..Len(stack') PROVE stack'[j].id \in Up \cup {n + 1}
      BY DEF Up
    <3>1. j \in 1..Len(stack) \/ j = Len(stack) + 1
      BY <1>8
    <3> QED
      BY <1>5, <1>8, <1>10, <3>1
  <2>2. \A x \in Up : x \in Up'
    <3> SUFFICES ASSUME NEW j \in 1..Len(stack) PROVE stack[j].id \in Up'
      BY DEF Up
    <3>1. j \in 1..Len(stack') /\ stack'[j].id = stack[j].id
      BY <1>8
    <3> QED
      BY <3>1 DEF Up
  <2>3. n + 1 \in Up'
    <3>1. Len(stack) + 1 \in 1..Len(stack') /\ stack'[Len(stack) + 1].id = n + 1
      BY <1>5, <1>8
    <3> QED
      BY <3>1 DEF Up
  <2> QED
    BY <2>1, <2>2, <2>3
<1>12. ASSUME NEW i \in 1..Len(stack'), NEW j \in 1..Len(stack'), stack'[i].id = stack'[j].id
       PROVE  i = j
  <2>1. \A m \in 1..Len(stack') : m = Len(stack) + 1 \/ (m \in 1..Len(stack) /\ stack'[m] = stack[m] /\ stack[m].id \in 1..n)
    <3> SUFFICES ASSUME NEW m \in 1..Len(stack'), m # Len(stack) + 1
                 PROVE  m \in 1..Len(stack) /\ stack'[m] = stack[m] /\ stack[m].id \in 1..n
      OBVIOUS
    <3>1. m \in 1..Len(stack)
      BY <1>8
    <3>2. stack[m].id \in Up /\ stack'[m] = stack[m]
      BY <1>8, <1>10, <3>1
    <3> QED
      BY <1>9, <3>1, <3>2
  <2>2. stack'[Len(stack) + 1].id = n + 1 /\ n + 1 \notin 1..n
    BY <1>3, <1>5, <1>8
  <2>3. CASE i = Len(stack) + 1
    BY <1>12, <2>1, <2>2, <2>3
  <2>4. CASE j = Len(stack) + 1
    BY <1>12, <2>1, <2>2, <2>4
  <2>5. CASE i # Len(stack) + 1 /\ j # Len(stack) + 1
    BY <1>3, <1>12, <2>1, <2>5
  <2> QED
    BY <2>3, <2>4, <2>5
<1>13. {i \in 1..Len(answer') : answer'[i] = "open"} = Up'
  <2>1. \A i \in 1..Len(answer') : i \in 1..n \/ i = n + 1
    BY <1>3, <1>4
  <2>2. 1..n \subseteq 1..Len(answer') /\ n + 1 \in 1..Len(answer')
    BY <1>3, <1>4
  <2> QED
    BY <1>3, <1>4, <1>9, <1>11, <2>1, <2>2
<1>14. watching' \subseteq Up'
  BY <1>1, <1>3, <1>11
<1>15. Stacked'
  <2>1. stack' \in Seq([id : 1..Len(answer'), kind : L!LayerKinds])
    BY <1>4, <1>8
  <2> QED
    BY <1>4, <1>12, <1>13, <1>14, <2>1 DEF Stacked
<1>16. n + 1 \notin checking
  BY <1>3, <1>9 DEF LayersInv, Checks
<1>17. Checks'
  <2>1. checking' \subseteq Up'
    BY <1>2, <1>11 DEF LayersInv, Checks
  <2>2. acted \subseteq 1..n /\ 1..n \subseteq 1..Len(answer')
    BY <1>3, <1>4 DEF LayersInv, Checks, n
  <2>3. \A i \in acted' : answer'[i] = "yes"
    BY <1>2, <1>4, <2>2 DEF LayersInv, Checks
  <2>4. ASSUME NEW i \in 1..Len(stack'), stack'[i].id \in checking' PROVE stack'[i].kind = "checked"
    <3>1. i # Len(stack) + 1
      BY <1>2, <1>5, <1>8, <1>16, <2>4
    <3>2. i \in 1..Len(stack) /\ stack'[i] = stack[i]
      BY <1>8, <3>1
    <3> QED
      BY <1>2, <2>4, <3>2 DEF LayersInv, Checks
  <2> QED
    BY <1>2, <2>1, <2>2, <2>3, <2>4 DEF Checks
<1> QED
  BY <1>15, <1>17

\* Home: all of them close, and none has a check running.
LEMMA AllClose == ASSUME ~Hasty, LayersInv, L!nextTabPressed PROVE Stacked' /\ Checks'
<1>1. /\ checking = {} /\ stack' = <<>> /\ UNCHANGED <<checking, acted>>
      /\ answer' = [i \in 1..Len(answer) |->
                      IF i \in L!Ids({stack[j] : j \in 1..Len(stack)}) THEN "no" ELSE answer[i]]
      /\ watching' = watching \ L!Ids({stack[j] : j \in 1..Len(stack)})
  BY DEF L!nextTabPressed
<1>2. L!Ids({stack[j] : j \in 1..Len(stack)}) = Up
  BY DEF L!Ids, Up
<1>3. /\ answer \in Seq(Answers) /\ {i \in 1..Len(answer) : answer[i] = "open"} = Up /\ watching \subseteq Up
      /\ Len(answer) \in Nat /\ \A i \in 1..Len(answer) : answer[i] \in Answers
  BY LenProperties, ElementOfSeq DEF LayersInv, Stacked
<1>4. answer' \in Seq(Answers) /\ Len(answer') = Len(answer)
      /\ \A i \in 1..Len(answer) : answer'[i] = IF i \in Up THEN "no" ELSE answer[i]
  <2>1. answer' \in [1..Len(answer) -> Answers]
    BY <1>1, <1>3 DEF Answers
  <2>2. answer' \in Seq(Answers)
    BY <1>3, <2>1, IsASeq
  <2>3. DOMAIN answer' = 1..Len(answer) /\ DOMAIN answer' = 1..Len(answer') /\ Len(answer') \in Nat
    BY <2>1, <2>2, LenProperties
  <2>4. Len(answer') = Len(answer)
    BY <1>3, <2>3
  <2> QED
    BY <1>1, <1>2, <2>2, <2>4
<1>5. Up' = {} /\ Len(stack') = 0 /\ stack' \in Seq([id : 1..Len(answer'), kind : L!LayerKinds])
  <2>1. stack' \in Seq([id : 1..Len(answer'), kind : L!LayerKinds]) /\ Len(stack') = 0
    BY <1>1
  <2> QED
    BY <2>1 DEF Up
<1>6. Stacked'
  <2>1. {i \in 1..Len(answer') : answer'[i] = "open"} = {}
    BY <1>3, <1>4
  <2>2. watching' = {}
    BY <1>1, <1>2, <1>3
  <2> QED
    BY <1>4, <1>5, <2>1, <2>2 DEF Stacked
<1>7. \A i \in acted : i \in 1..Len(answer) /\ answer[i] = "yes"
  BY DEF LayersInv, Checks
<1>8. Checks'
  BY <1>1, <1>3, <1>4, <1>5, <1>7 DEF Checks
<1> QED
  BY <1>6, <1>8

LEMMA LayersMove ==
  ASSUME ~Hasty, LayersInv, L!Next
  PROVE  Stacked' /\ Checks'
<1>0. /\ \A i \in 1..Len(stack) : stack[i].id \in Up
      /\ \A i \in 1..Len(stack) : stack[i].id \in checking => stack[i].kind = "checked"
  BY DEF LayersInv, Checks, Up
<1>1. ASSUME NEW e \in L!Tapped PROVE \E k \in 1..Len(stack) : e = stack[k]
  <2>1. stack # <<>> /\ e = L!Top
    BY <1>1 DEF L!Tapped
  <2> QED
    BY <2>1, TopIsUp
<1>2. CASE L!openLayer
  BY <1>2, LayerOpens
<1>3. CASE L!tapCancel
  <2>1. PICK e \in L!Tapped : e.id \notin checking /\ L!done(e, "no")
    BY <1>3 DEF L!tapCancel
  <2>2. UNCHANGED <<checking, acted>>
    BY <1>3 DEF L!tapCancel
  <2>3. PICK k \in 1..Len(stack) : e = stack[k]
    BY <1>1
  <2> QED
    BY <2>1, <2>2, <2>3, TakenDown
<1>4. CASE L!tapOk
  <2>1. PICK e \in L!Tapped : e.kind \in {"sheet", "confirm"} /\ L!done(e, "yes")
    BY <1>4 DEF L!tapOk
  <2>2. UNCHANGED <<checking, acted>>
    BY <1>4 DEF L!tapOk
  <2>3. PICK k \in 1..Len(stack) : e = stack[k]
    BY <1>1
  <2>4. e.id \notin checking
    BY <1>0, <2>1, <2>3
  <2> QED
    BY <2>1, <2>2, <2>3, <2>4, TakenDown
<1>5. CASE L!tapChecked
  <2>1. PICK e \in L!Tapped : e.kind = "checked" /\ checking' = checking \cup {e.id}
    BY <1>5 DEF L!tapChecked
  <2>2. UNCHANGED <<stack, answer, acted, watching>>
    BY <1>5 DEF L!tapChecked
  <2>3. PICK k \in 1..Len(stack) : e = stack[k]
    BY <1>1
  <2> QED
    BY <2>1, <2>2, <2>3, CheckRuns
<1>6. CASE L!Checked
  <2>1. PICK id \in checking :
          /\ checking' = checking \ {id}
          /\ \/ UNCHANGED <<stack, answer, acted, watching>>
             \/ acted' = acted \cup {id} /\ L!done([id |-> id, kind |-> "checked"], "yes")
    BY <1>6 DEF L!Checked
  <2>2. PICK k \in 1..Len(stack) : id = stack[k].id
    BY DEF LayersInv, Checks, Up
  <2>3. stack[k] = [id |-> id, kind |-> "checked"]
    <3>1. stack[k] \in [id : 1..Len(answer), kind : L!LayerKinds]
      BY ElementOfSeq DEF LayersInv, Stacked
    <3>2. stack[k].kind = "checked"
      BY <1>0, <2>2
    <3> QED
      BY <2>2, <3>1, <3>2
  <2>4. CASE UNCHANGED <<stack, answer, acted, watching>>
    BY <2>1, <2>4, CheckRuns
  <2>5. CASE acted' = acted \cup {id} /\ L!done([id |-> id, kind |-> "checked"], "yes")
    <3>1. PICK e : e = [id |-> id, kind |-> "checked"]
      OBVIOUS
    <3>2. e = stack[k] /\ e.id = id /\ L!done(e, "yes")
      BY <2>3, <2>5, <3>1
    <3>3. checking' = checking \ {e.id} /\ acted' = acted \cup {e.id}
      BY <2>1, <2>5, <3>2
    <3> QED
      BY <3>2, <3>3, TakenDown
  <2> QED
    BY <2>1, <2>4, <2>5
<1>7. CASE L!activate
  <2>1. CASE UNCHANGED L!layers
    BY <2>1, CheckRuns DEF L!layers
  <2>2. CASE ~UNCHANGED L!layers
    <3>1. /\ stack # <<>>
          /\ \/ L!Top.kind = "checked" /\ checking' = checking \cup {L!Top.id}
                /\ UNCHANGED <<stack, answer, acted, watching>>
             \/ L!Top.kind # "checked" /\ UNCHANGED <<checking, acted>>
                /\ (L!done(L!Top, "no") \/ L!done(L!Top, "yes"))
      BY <1>7, <2>2 DEF L!activate, L!layers
    <3>2. PICK k \in 1..Len(stack) : L!Top = stack[k]
      BY <3>1, TopIsUp
    <3>3. CASE L!Top.kind = "checked" /\ checking' = checking \cup {L!Top.id}
               /\ UNCHANGED <<stack, answer, acted, watching>>
      BY <3>2, <3>3, CheckRuns
    <3>4. CASE L!Top.kind # "checked" /\ UNCHANGED <<checking, acted>>
               /\ (L!done(L!Top, "no") \/ L!done(L!Top, "yes"))
      <4>1. L!Top.id \notin checking
        BY <1>0, <3>2, <3>4
      <4>2. PICK a \in {"yes", "no"} : L!done(L!Top, a)
        BY <3>4
      <4> QED
        BY <3>2, <3>4, <4>1, <4>2, TakenDown
    <3> QED
      BY <3>1, <3>3, <3>4
  <2> QED
    BY <2>1, <2>2
<1>8. CASE L!goBack
  <2>1. CASE UNCHANGED L!layers
    BY <2>1, CheckRuns DEF L!layers
  <2>2. CASE ~UNCHANGED L!layers
    <3>1. stack # <<>> /\ UNCHANGED <<checking, acted>> /\ L!Top.id \notin checking /\ L!done(L!Top, "no")
      BY <1>8, <2>2 DEF L!goBack, L!layers
    <3>2. PICK k \in 1..Len(stack) : L!Top = stack[k]
      BY <3>1, TopIsUp
    <3> QED
      BY <3>1, <3>2, TakenDown
  <2> QED
    BY <2>1, <2>2
<1>9. CASE L!nextTabPressed
  BY <1>9, AllClose
<1>10. CASE L!Left \/ L!focusField \/ L!Focusout \/ L!hideKeyboard \/ L!Arrow \/ L!EarlySync \/ L!LateSync
            \/ L!Offline \/ L!Online \/ L!toast \/ L!press \/ L!release \/ L!leave \/ L!Slip
  <2>1. UNCHANGED <<stack, answer, checking, acted, watching>>
    BY <1>10 DEF L!Left, L!focusField, L!Focusout, L!hideKeyboard, L!Arrow, L!EarlySync, L!LateSync,
                 L!Offline, L!Online, L!toast, L!press, L!release, L!leave, L!Slip, L!layers
  <2> QED
    BY <2>1, CheckRuns
<1> QED
  BY <1>2, <1>3, <1>4, <1>5, <1>6, <1>7, <1>8, <1>9, <1>10 DEF L!Next

LEMMA LayersKeep ==
  ASSUME ~Hasty, LayersInv, [L!Next]_(L!vars)
  PROVE  LayersInv'
<1>1. CASE L!Next
  BY <1>1, LayersMove, LayersType, LayersCount DEF LayersInv
<1>2. CASE UNCHANGED L!vars
  <2>1. UNCHANGED <<stack, answer, checking, acted, watching, focus, osk, blurs, acts, toasted>>
    BY <1>2 DEF L!vars, L!layers, L!keys, L!toasts
  <2>2. Stacked' /\ Checks'
    BY <2>1, CheckRuns
  <2> QED
    BY <2>1, <2>2 DEF LayersInv, Typing, Counted
<1> QED
  BY <1>1, <1>2

-----------------------------------------------------------------------------
\* The control center (ControlCenter).

Knows ==
  /\ device \in C!Devices /\ known \in C!Devices /\ bt \in BOOLEAN
  /\ req # None => req \in [says : {None} \cup C!Devices, old : BOOLEAN]
  /\ reqBt # None => reqBt \in [says : {None} \cup BOOLEAN]
  /\ puts \in Seq(1..2) /\ (timer => slid \in 0..2)
Bounded == opened \in 0..MaxOpened /\ taps \in 0..MaxTaps /\ pull \in 0..2
Entries == [id : Nat, kind : {"plate", "question"}]
\* One plate at most lies on the stack, and it is the control center.
OnePlate ==
  /\ stack \in Seq(Entries) /\ layer \in {None} \cup 1..opened
  /\ \A i \in 1..Len(stack) : stack[i].kind = "plate" => layer # None /\ stack[i].id = layer
  /\ layer # None => \E i \in 1..Len(stack) : stack[i] = C!Plate(layer)
  /\ \A i, j \in 1..Len(stack) : stack[i].kind = "plate" /\ stack[j].kind = "plate" => i = j
  /\ polling <=> layer # None
\* Half way down, a finger holds it or it is settling.
HeldUp ==
  /\ band \in {None, "down", "pulling"} /\ plate \in {None, "tap", "drag"}
  /\ band = "down" => stack = <<>> /\ layer = None
  /\ \A s \in settling : s.to \in {0, 2} /\ (s.shut <=> s.to = 0)
  /\ layer # None /\ pull # 2 => band = "pulling" \/ plate = "drag" \/ \E s \in settling : s.own = layer
\* What a switch has to do, and whether it was asked about.
Todos == {<<"hotOff", "radioOn">>} \cup {<<op>> : op \in {"hotOff", "hotOn", "radioOn", "radioOff", "btOn", "btOff"}}
Flips == \A f \in flows : f \in [id : Nat, todo : Todos, asks : BOOLEAN]
CenterInv == Knows /\ Bounded /\ OnePlate /\ HeldUp /\ Flips

LEMMA CenterConstants ==
  /\ MaxOpened \in Nat /\ MaxTaps \in Nat /\ MaxTrouble \in Nat
  /\ None \notin Nat /\ None \notin {"down", "pulling", "tap", "drag"}
BY PagesParameters DEF C!CenterAssumption

LEMMA CenterBegins == C!Init => CenterInv
<1> SUFFICES ASSUME C!Init PROVE CenterInv
  OBVIOUS
<1>1. Knows
  <2>1. PICK w \in {"on", "joined"}, h \in BOOLEAN : device = [wifi |-> w, hot |-> h, bt |-> TRUE, light |-> 1]
    BY DEF C!Init
  <2>2. device \in C!Devices /\ device.bt = TRUE
    BY <2>1 DEF C!Devices
  <2>3. known = [wifi |-> w, hot |-> h, bt |-> TRUE, light |-> 1]
    BY <2>1 DEF C!Init
  <2>4. known \in C!Devices
    BY <2>3 DEF C!Devices
  <2>5. bt \in BOOLEAN
    BY <2>2 DEF C!Init
  <2>6. req = None /\ reqBt = None /\ puts = <<>> /\ timer = FALSE
    BY DEF C!Init
  <2>7. puts \in Seq(1..2)
    BY <2>6
  <2> QED
    BY <2>2, <2>4, <2>5, <2>6, <2>7 DEF Knows
<1>2. Bounded
  BY CenterConstants DEF C!Init, Bounded
<1>3. OnePlate
  <2>1. stack = <<>> /\ Len(stack) = 0 /\ layer = None /\ polling = FALSE
    BY DEF C!Init
  <2>2. stack \in Seq(Entries)
    BY <2>1
  <2> QED
    BY <2>1, <2>2 DEF OnePlate
<1>4. HeldUp
  BY DEF C!Init, HeldUp
<1>5. Flips
  BY DEF C!Init, Flips
<1> QED
  BY <1>1, <1>2, <1>3, <1>4, <1>5 DEF CenterInv

LEMMA CenterSays == ASSUME CenterInv PROVE C!CenterSound
<1>1. C!TypeOK
  BY DEF CenterInv, Knows, Bounded, C!TypeOK
<1>2. {stack[i].id : i \in C!Plates} = (IF layer = None THEN {} ELSE {layer})
  <2>1. \A i \in C!Plates : layer # None /\ stack[i].id = layer
    BY DEF CenterInv, OnePlate, C!Plates
  <2>2. layer # None => \E i \in C!Plates : stack[i].id = layer
    BY DEF CenterInv, OnePlate, C!Plates, C!Plate
  <2> QED
    BY <2>1, <2>2
<1>3. Cardinality(C!Plates) <= 1
  <2>1. CASE C!Plates = {}
    BY <2>1, FS_EmptySet
  <2>2. CASE C!Plates # {}
    <3>1. PICK i \in C!Plates : TRUE
      BY <2>2
    <3>2. \A j \in C!Plates : j = i
      BY <3>1 DEF CenterInv, OnePlate, C!Plates
    <3>3. C!Plates = {i}
      BY <3>1, <3>2
    <3> QED
      BY <3>3, FS_Singleton
  <2> QED
    BY <2>1, <2>2
<1>4. layer # None /\ band = None /\ plate = None /\ settling = {} => pull = 2
  BY CenterConstants DEF CenterInv, HeldUp
<1>5. polling <=> layer # None
  BY DEF CenterInv, OnePlate
<1> QED
  <2>1. {stack[i].id : i \in C!Plates} = (IF layer = None THEN {} ELSE {layer}) /\ Cardinality(C!Plates) <= 1
    BY <1>2, <1>3
  <2>2. C!CenterSound <=> C!TypeOK /\ ({stack[i].id : i \in C!Plates} = (IF layer = None THEN {} ELSE {layer}) /\ Cardinality(C!Plates) <= 1)
        /\ (polling <=> layer # None) /\ (layer # None /\ band = None /\ plate = None /\ settling = {} => pull = 2)
    BY DEF C!CenterSound, C!Cardinality, Cardinality
  <2> QED
    BY <1>1, <1>4, <1>5, <2>1, <2>2

\* The plate comes down.
LEMMA PlateMade ==
  ASSUME CenterInv, NEW p, C!create(p), layer = None
  PROVE  OnePlate' /\ layer' # None /\ pull' = p /\ opened' \in 0..MaxOpened
<1>1. /\ opened < MaxOpened /\ opened' = opened + 1 /\ stack' = Append(stack, C!Plate(opened + 1))
      /\ layer' = opened + 1 /\ polling' = TRUE /\ pull' = p
  BY DEF C!create
<1>2. opened \in Nat /\ opened' \in 0..MaxOpened /\ layer' \in 1..opened' /\ layer' # None
  BY <1>1, CenterConstants DEF CenterInv, Bounded
<1>3. C!Plate(opened + 1) \in Entries
  BY <1>2 DEF C!Plate, Entries
<1>4. /\ stack' \in Seq(Entries) /\ Len(stack') = Len(stack) + 1 /\ Len(stack) \in Nat
      /\ \A j \in 1..Len(stack) : stack'[j] = stack[j]
      /\ stack'[Len(stack) + 1] = C!Plate(layer')
  BY <1>1, <1>3, OneMore DEF CenterInv, OnePlate
<1>5. \A j \in 1..Len(stack) : stack[j].kind # "plate"
  BY DEF CenterInv, OnePlate
<1>6. C!Plate(layer').kind = "plate" /\ C!Plate(layer').id = layer'
  BY DEF C!Plate
<1>7. \A j \in 1..Len(stack') : stack'[j].kind = "plate" => j = Len(stack) + 1
  BY <1>4, <1>5
<1>8. Len(stack) + 1 \in 1..Len(stack')
  BY <1>4
<1> QED
  BY <1>1, <1>2, <1>4, <1>6, <1>7, <1>8 DEF OnePlate

\* It goes.
LEMMA PlateGone ==
  ASSUME CenterInv, C!close
  PROVE  /\ OnePlate' /\ layer' = None /\ pull' \in 0..2 /\ opened' = opened
         /\ band = "down" => stack' = <<>>
<1>1. CASE layer = None
  <2>1. UNCHANGED <<opened, stack, layer, polling, pull>>
    BY <1>1 DEF C!close, C!plates
  <2> QED
    BY <1>1, <2>1 DEF CenterInv, OnePlate, HeldUp, Bounded
<1>2. CASE layer # None
  <2>1. PICK k \in 1..Len(stack) : stack[k] = C!Plate(layer)
    BY <1>2 DEF CenterInv, OnePlate
  <2>2. stack[k].kind = "plate"
    BY <2>1 DEF C!Plate
  <2>3. \A i \in 1..Len(stack) : stack[i].kind = "plate" => i = k
    BY <2>2 DEF CenterInv, OnePlate
  <2>4. \A i \in 1..Len(stack) : stack[i] = C!Plate(layer) => i = k
    BY <2>3 DEF C!Plate
  <2>5. (CHOOSE i \in 1..Len(stack) : stack[i] = C!Plate(layer)) = k
    BY <2>1, <2>4
  <2>6. stack' = Without(stack, k) /\ layer' = None /\ polling' = FALSE /\ pull' = 0 /\ opened' = opened
    BY <1>2, <2>5 DEF C!close, C!RemoveAt, Without
  <2>7. stack' \in Seq(Entries) /\ \A j \in 1..Len(stack') : \E i \in 1..Len(stack) : i # k /\ stack'[j] = stack[i]
    <3>1. stack \in Seq(Entries)
      BY DEF CenterInv, OnePlate
    <3>2. /\ Without(stack, k) \in Seq(Entries)
          /\ \A j \in 1..Len(Without(stack, k)) : \E i \in 1..Len(stack) : i # k /\ Without(stack, k)[j] = stack[i]
      BY <3>1, WithoutOne, WithoutHolds
    <3> QED
      BY <2>6, <3>2
  <2>8. \A j \in 1..Len(stack') : stack'[j].kind # "plate"
    BY <2>3, <2>7
  <2>9. OnePlate'
    BY <2>6, <2>7, <2>8 DEF OnePlate
  <2> QED
    BY <1>2, <2>6, <2>9 DEF CenterInv, HeldUp
<1> QED
  BY <1>1, <1>2

\* A question is put over it, or answered.
LEMMA QuestionPut ==
  ASSUME CenterInv, NEW n \in Nat, stack' = Append(stack, [id |-> n, kind |-> "question"]),
         UNCHANGED <<layer, polling, opened>>
  PROVE  OnePlate'
<1>1. PICK e : e = [id |-> n, kind |-> "question"]
  OBVIOUS
<1>2. e \in Entries /\ e.kind = "question"
  BY <1>1 DEF Entries
<1>3. /\ stack' \in Seq(Entries) /\ Len(stack') = Len(stack) + 1 /\ Len(stack) \in Nat
      /\ \A j \in 1..Len(stack) : stack'[j] = stack[j]
      /\ stack'[Len(stack) + 1] = e
  BY <1>1, <1>2, OneMore DEF CenterInv, OnePlate
<1>4. \A j \in 1..Len(stack') : stack'[j].kind = "plate" => j \in 1..Len(stack) /\ stack'[j] = stack[j]
  <2> SUFFICES ASSUME NEW j \in 1..Len(stack'), stack'[j].kind = "plate"
               PROVE  j \in 1..Len(stack) /\ stack'[j] = stack[j]
    OBVIOUS
  <2>1. j # Len(stack) + 1
    BY <1>2, <1>3
  <2>2. j \in 1..Len(stack)
    BY <1>3, <2>1
  <2> QED
    BY <1>3, <2>2
<1>5. 1..Len(stack) \subseteq 1..Len(stack')
  BY <1>3
<1> QED
  BY <1>3, <1>4, <1>5 DEF CenterInv, OnePlate

LEMMA QuestionGone ==
  ASSUME CenterInv, stack # <<>>, NEW n, C!Last(stack) = [id |-> n, kind |-> "question"],
         stack' = C!Front(stack), UNCHANGED <<layer, polling, opened>>
  PROVE  OnePlate'
<1> DEFINE m == Len(stack)
<1>1. stack \in Seq(Entries) /\ m \in Nat /\ m \in 1..m
  BY EmptySeq, LenProperties DEF CenterInv, OnePlate
<1>2. stack[m].kind = "question" /\ stack' = SubSeq(stack, 1, m - 1)
  BY DEF C!Last, C!Front
<1> HIDE DEF m
<1>3. stack' \in Seq(Entries) /\ Len(stack') = m - 1 /\ \A j \in 1..(m - 1) : stack'[j] = stack[j]
  <2>1. \A j \in 1..(m - 1) : stack[j] \in Entries
    BY <1>1, ElementOfSeq DEF m
  <2>2. 1 \in Int /\ m - 1 \in Int
    BY <1>1
  <2>3. /\ SubSeq(stack, 1, m - 1) \in Seq(Entries)
        /\ Len(SubSeq(stack, 1, m - 1)) = IF 1 <= m - 1 THEN m - 1 - 1 + 1 ELSE 0
        /\ \A j \in 1..(m - 1 - 1 + 1) : SubSeq(stack, 1, m - 1)[j] = stack[1 + j - 1]
    BY <2>1, <2>2, SubSeqProperties
  <2>4. PICK d : d = SubSeq(stack, 1, m - 1)
    OBVIOUS
  <2>5. d \in Seq(Entries) /\ Len(d) = m - 1 /\ \A j \in 1..(m - 1) : d[j] = stack[j]
    BY <1>1, <2>3, <2>4
  <2> QED
    BY <1>2, <2>4, <2>5
<1>4. \A j \in 1..m : stack[j].kind = "plate" => j \in 1..Len(stack') /\ stack'[j] = stack[j]
  BY <1>1, <1>2, <1>3
<1>5. \A j \in 1..Len(stack') : j \in 1..m /\ stack'[j] = stack[j]
  BY <1>1, <1>3
<1>6. \A i \in 1..Len(stack') : stack'[i].kind = "plate" => layer' # None /\ stack'[i].id = layer'
  BY <1>5 DEF CenterInv, OnePlate, m
<1>7. layer' # None => \E i \in 1..Len(stack') : stack'[i] = C!Plate(layer')
  <2> SUFFICES ASSUME layer # None PROVE \E i \in 1..Len(stack') : stack'[i] = C!Plate(layer)
    OBVIOUS
  <2>1. PICK i \in 1..m : stack[i] = C!Plate(layer)
    BY DEF CenterInv, OnePlate, m
  <2>2. stack[i].kind = "plate"
    BY <2>1 DEF C!Plate
  <2> QED
    BY <1>4, <2>1, <2>2
<1>8. \A i, j \in 1..Len(stack') : stack'[i].kind = "plate" /\ stack'[j].kind = "plate" => i = j
  BY <1>5 DEF CenterInv, OnePlate, m
<1> QED
  BY <1>3, <1>6, <1>7, <1>8 DEF CenterInv, OnePlate

\* The plate and the fingers: what the panel knows of the NAS stays.
Fingers ==
  \/ C!menuPressed \/ C!openPageOf \/ C!pullFromBand \/ C!bandMove \/ C!bandUp
  \/ C!dragUp \/ C!plateMove \/ C!plateUp \/ C!Settled

LEMMA FingersRest ==
  ASSUME CenterInv, Fingers
  PROVE  /\ UNCHANGED <<device, trouble, taps, flows, known, req, bt, slid, timer, puts>>
         /\ reqBt' \in {reqBt, [says |-> None]}
BY DEF Fingers, C!menuPressed, C!openPageOf, C!pullFromBand, C!bandMove, C!bandUp, C!dragUp, C!plateMove,
       C!plateUp, C!Settled, C!Rest, C!switches, C!slider, C!create

LEMMA FingersKnow ==
  ASSUME CenterInv, Fingers
  PROVE  Knows' /\ Flips'
<1>1. /\ UNCHANGED <<device, trouble, taps, flows, known, req, bt, slid, timer, puts>>
      /\ reqBt' \in {reqBt, [says |-> None]}
  BY FingersRest
<1>2. reqBt' # None => reqBt' \in [says : {None} \cup BOOLEAN]
  BY <1>1 DEF CenterInv, Knows
<1> QED
  BY <1>1, <1>2 DEF CenterInv, Knows, Flips

\* What a step of the plate or of a finger leaves.
Moved == OnePlate' /\ HeldUp' /\ opened' \in 0..MaxOpened /\ pull' \in 0..2

LEMMA ClosedMoves ==
  ASSUME CenterInv, C!close, band' \in {band, None}, plate' \in {None, "tap", "drag"}, settling' \subseteq settling
  PROVE  Moved
<1>1. /\ OnePlate' /\ layer' = None /\ pull' \in 0..2 /\ opened' = opened
      /\ band = "down" => stack' = <<>>
  BY PlateGone
<1>2. HeldUp'
  BY <1>1, CenterConstants DEF CenterInv, HeldUp
<1> QED
  BY <1>1, <1>2 DEF Moved, CenterInv, Bounded

LEMMA MenuMoves == ASSUME ~Both, CenterInv, C!menuPressed \/ C!openPageOf PROVE Moved
<1>1. UNCHANGED <<band, plate, settling>> /\ band = None /\ plate = None /\ settling = {}
  BY DEF C!menuPressed, C!openPageOf, C!Alone, C!fingers
<1>2. C!close \/ (layer = None /\ C!create(2))
  BY DEF C!menuPressed, C!openPageOf
<1>3. CASE C!close
  BY <1>1, <1>3, ClosedMoves DEF CenterInv, HeldUp
<1>4. CASE layer = None /\ C!create(2)
  <2>1. OnePlate' /\ layer' # None /\ pull' = 2 /\ opened' \in 0..MaxOpened
    BY <1>4, PlateMade
  <2>2. HeldUp'
    BY <1>1, <2>1, CenterConstants DEF CenterInv, HeldUp
  <2> QED
    BY <2>1, <2>2 DEF Moved
<1> QED
  BY <1>2, <1>3, <1>4

LEMMA SamePlate ==
  ASSUME CenterInv, UNCHANGED <<opened, stack, layer, polling>>
  PROVE  OnePlate' /\ opened' \in 0..MaxOpened
BY DEF CenterInv, OnePlate, Bounded

LEMMA BandMoves == ASSUME CenterInv, C!pullFromBand \/ C!bandMove \/ C!bandUp PROVE Moved
<1>1. CASE C!pullFromBand
  <2>1. UNCHANGED <<opened, stack, layer, polling, pull, plate, settling>> /\ band' = "down" /\ layer = None /\ stack = <<>>
    BY <1>1 DEF C!pullFromBand, C!plates
  <2>2. HeldUp'
    BY <2>1 DEF CenterInv, HeldUp
  <2> QED
    BY <2>1, <2>2, SamePlate DEF Moved, CenterInv, Bounded
<1>2. CASE C!bandMove /\ band = "down"
  <2>1. layer = None /\ band' = "pulling" /\ C!create(1) /\ UNCHANGED <<plate, settling>>
    BY <1>2 DEF C!bandMove, CenterInv, HeldUp
  <2>2. OnePlate' /\ layer' # None /\ pull' = 1 /\ opened' \in 0..MaxOpened
    BY <2>1, PlateMade
  <2>3. HeldUp'
    BY <2>1, <2>2, CenterConstants DEF CenterInv, HeldUp
  <2> QED
    BY <2>2, <2>3 DEF Moved
<1>3. CASE C!bandMove /\ band # "down"
  <2>1. layer # None /\ pull' = 1 /\ UNCHANGED <<band, opened, stack, layer, polling, plate, settling>> /\ band = "pulling"
    BY <1>3 DEF C!bandMove, CenterInv, HeldUp
  <2>2. HeldUp'
    BY <2>1, CenterConstants DEF CenterInv, HeldUp
  <2> QED
    BY <2>1, <2>2, SamePlate DEF Moved
<1>4. CASE C!bandUp
  <2>1. band' = None /\ UNCHANGED <<opened, stack, layer, polling, pull, plate>>
    BY <1>4 DEF C!bandUp, C!plates
  <2>2. \/ layer = None /\ UNCHANGED settling
        \/ \E to \in {0, 2} : settling' = settling \cup {[own |-> layer, to |-> to, shut |-> to = 0]}
    BY <1>4 DEF C!bandUp, CenterInv, HeldUp
  <2>3. HeldUp'
    <3>1. CASE layer = None /\ UNCHANGED settling
      BY <2>1, <3>1, CenterConstants DEF CenterInv, HeldUp
    <3>2. ASSUME NEW to \in {0, 2}, settling' = settling \cup {[own |-> layer, to |-> to, shut |-> to = 0]}
          PROVE  HeldUp'
      <4>1. PICK s : s = [own |-> layer, to |-> to, shut |-> to = 0]
        OBVIOUS
      <4>2. s.own = layer /\ s.to \in {0, 2} /\ (s.shut <=> s.to = 0) /\ settling' = settling \cup {s}
        BY <3>2, <4>1
      <4> QED
        BY <2>1, <4>2, CenterConstants DEF CenterInv, HeldUp
    <3> QED
      BY <2>2, <3>1, <3>2
  <2> QED
    BY <2>1, <2>3, SamePlate DEF Moved, CenterInv, Bounded
<1> QED
  BY <1>1, <1>2, <1>3, <1>4

LEMMA PlateMoves == ASSUME CenterInv, C!dragUp \/ C!plateMove \/ C!plateUp PROVE Moved
<1>1. CASE C!dragUp
  <2>1. UNCHANGED <<opened, stack, layer, polling, pull, band, settling>> /\ plate' = "tap" /\ plate = None
    BY <1>1 DEF C!dragUp, C!plates
  <2>2. HeldUp'
    BY <2>1, CenterConstants DEF CenterInv, HeldUp
  <2> QED
    BY <2>1, <2>2, SamePlate DEF Moved, CenterInv, Bounded
<1>2. CASE C!plateMove
  <2>1. UNCHANGED <<opened, stack, layer, polling, band, settling>> /\ plate' = "drag" /\ pull' = 1 /\ layer # None
    BY <1>2 DEF C!plateMove
  <2>2. HeldUp'
    BY <2>1, CenterConstants DEF CenterInv, HeldUp
  <2> QED
    BY <2>1, <2>2, SamePlate DEF Moved
<1>3. CASE C!plateUp
  <2>1. plate' = None /\ band' = band
    BY <1>3 DEF C!plateUp
  <2>2. CASE C!close /\ UNCHANGED settling
    BY <2>1, <2>2, ClosedMoves
  <2>3. CASE UNCHANGED C!plates /\ UNCHANGED settling /\ (layer = None \/ plate = "tap")
    <3>1. UNCHANGED <<opened, stack, layer, polling, pull>>
      BY <2>3 DEF C!plates
    <3>2. HeldUp'
      BY <2>1, <2>3, <3>1, CenterConstants DEF CenterInv, HeldUp
    <3> QED
      BY <3>1, <3>2, SamePlate DEF Moved, CenterInv, Bounded
  <2>4. ASSUME UNCHANGED C!plates, NEW to \in {0, 2}, settling' = settling \cup {[own |-> layer, to |-> to, shut |-> to = 0]}
        PROVE  Moved
    <3>1. UNCHANGED <<opened, stack, layer, polling, pull>>
      BY <2>4 DEF C!plates
    <3>2. PICK s : s = [own |-> layer, to |-> to, shut |-> to = 0]
      OBVIOUS
    <3>3. s.own = layer /\ s.to \in {0, 2} /\ (s.shut <=> s.to = 0) /\ settling' = settling \cup {s}
      BY <2>4, <3>2
    <3>4. HeldUp'
      BY <2>1, <3>1, <3>3, CenterConstants DEF CenterInv, HeldUp
    <3> QED
      BY <3>1, <3>4, SamePlate DEF Moved, CenterInv, Bounded
  <2>5. \/ C!close /\ UNCHANGED settling
        \/ UNCHANGED C!plates /\ UNCHANGED settling /\ (layer = None \/ plate = "tap")
        \/ UNCHANGED C!plates /\ \E to \in {0, 2} : settling' = settling \cup {[own |-> layer, to |-> to, shut |-> to = 0]}
    BY <1>3 DEF C!plateUp
  <2> QED
    BY <2>2, <2>3, <2>4, <2>5
<1> QED
  BY <1>1, <1>2, <1>3

LEMMA SettledMoves == ASSUME CenterInv, C!Settled PROVE Moved
<1>1. PICK s \in settling :
        /\ settling' = settling \ {s}
        /\ IF s.shut THEN C!close
           ELSE /\ pull' = (IF layer = s.own THEN s.to ELSE pull)
                /\ UNCHANGED <<opened, stack, layer, polling>>
  BY DEF C!Settled
<1>2. UNCHANGED <<band, plate>>
  BY DEF C!Settled, C!fingers
<1>3. CASE s.shut
  BY <1>1, <1>2, <1>3, ClosedMoves DEF CenterInv, HeldUp
<1>4. CASE ~s.shut
  <2>1. s.to = 2
    BY <1>4 DEF CenterInv, HeldUp
  <2>2. pull' = (IF layer = s.own THEN 2 ELSE pull) /\ UNCHANGED <<opened, stack, layer, polling>>
    BY <1>1, <1>4, <2>1
  <2>3. HeldUp'
    BY <1>1, <1>2, <2>2 DEF CenterInv, HeldUp
  <2> QED
    BY <2>2, <2>3, SamePlate DEF Moved, CenterInv, Bounded
<1> QED
  BY <1>3, <1>4

LEMMA FingersMove == ASSUME ~Both, CenterInv, Fingers PROVE Moved
BY MenuMoves, BandMoves, PlateMoves, SettledMoves DEF Fingers

\* Nothing moves the plate.
LEMMA PlateRests ==
  ASSUME CenterInv, UNCHANGED <<opened, stack, layer, polling, pull, band, plate, settling>>
  PROVE  Moved
<1>1. HeldUp'
  BY DEF CenterInv, HeldUp
<1> QED
  BY <1>1, SamePlate DEF Moved, CenterInv, Bounded

\* The switches: what one has to do, it was asked about, when it takes something away.
Careful == Flips' /\ C!AskedFirst

LEMMA Joins ==
  /\ <<>> \o <<"radioOn">> = <<"radioOn">>
  /\ <<"hotOff">> \o <<"radioOn">> = <<"hotOff", "radioOn">>
<1>1. <<"radioOn">> \in Seq({"hotOff", "radioOn"}) /\ <<"hotOff">> \in Seq({"hotOff", "radioOn"})
  OBVIOUS
<1>2. <<>> \o <<"radioOn">> = <<"radioOn">>
  BY <1>1, ConcatEmptySeq
<1>3. <<"hotOff">> \o <<"radioOn">> = <<"hotOff", "radioOn">>
  <2>1. PICK a : a = <<"hotOff">> \o <<"radioOn">>
    OBVIOUS
  <2>2. PICK b : b = <<"hotOff", "radioOn">>
    OBVIOUS
  <2>3. /\ a \in Seq({"hotOff", "radioOn"}) /\ Len(a) = Len(<<"hotOff">>) + Len(<<"radioOn">>)
        /\ \A j \in 1..(Len(<<"hotOff">>) + Len(<<"radioOn">>)) :
             a[j] = IF j <= Len(<<"hotOff">>) THEN <<"hotOff">>[j] ELSE <<"radioOn">>[j - Len(<<"hotOff">>)]
    BY <1>1, <2>1, ConcatProperties
  <2>4. Len(<<"hotOff">>) = 1 /\ Len(<<"radioOn">>) = 1 /\ <<"hotOff">>[1] = "hotOff" /\ <<"radioOn">>[1] = "radioOn"
    OBVIOUS
  <2>5. Len(a) = 2 /\ a[1] = "hotOff" /\ a[2] = "radioOn"
    BY <2>3, <2>4
  <2>6. b \in Seq({"hotOff", "radioOn"}) /\ Len(b) = 2 /\ b[1] = "hotOff" /\ b[2] = "radioOn"
    BY <2>2
  <2>7. a = b
    BY <2>3, <2>5, <2>6, SeqEqual
  <2> QED
    BY <2>1, <2>2, <2>7
<1> QED
  BY <1>2, <1>3

\* What the switch for Wi-Fi, for the hotspot and for Bluetooth has to do.
LEMMA FlipsCarefully ==
  ASSUME CenterInv, C!flip
  PROVE  \E f \in [id : Nat, todo : Todos, asks : BOOLEAN] :
           /\ flows' = flows \cup {f} /\ (~f.asks => ~C!Takes(f))
           /\ IF f.asks THEN stack' = Append(stack, [id |-> f.id, kind |-> "question"]) ELSE stack' = stack
<1> DEFINE n == taps + 1
<1>1. n \in Nat /\ known.hot \in BOOLEAN /\ known.wifi \in {"off", "on", "joined"}
  BY DEF CenterInv, Bounded, Knows, C!Devices
<1>2. \E f \in {IF known.wifi = "off" \/ known.hot
                 THEN C!Flow((IF known.hot THEN <<"hotOff">> ELSE <<>>) \o <<"radioOn">>, known.hot)
                 ELSE C!Flow(<<"radioOff">>, FALSE),
               IF known.hot THEN C!Flow(<<"hotOff">>, FALSE) ELSE C!Flow(<<"hotOn">>, known.wifi = "joined"),
               C!Flow(IF bt THEN <<"btOff">> ELSE <<"btOn">>, FALSE)} :
           /\ flows' = flows \cup {f}
           /\ IF f.asks THEN stack' = Append(stack, [id |-> f.id, kind |-> "question"]) ELSE stack' = stack
  BY DEF C!flip
<1>3. PICK f \in {IF known.wifi = "off" \/ known.hot
                 THEN C!Flow((IF known.hot THEN <<"hotOff">> ELSE <<>>) \o <<"radioOn">>, known.hot)
                 ELSE C!Flow(<<"radioOff">>, FALSE),
               IF known.hot THEN C!Flow(<<"hotOff">>, FALSE) ELSE C!Flow(<<"hotOn">>, known.wifi = "joined"),
               C!Flow(IF bt THEN <<"btOff">> ELSE <<"btOn">>, FALSE)} :
           /\ flows' = flows \cup {f}
           /\ IF f.asks THEN stack' = Append(stack, [id |-> f.id, kind |-> "question"]) ELSE stack' = stack
  BY <1>2
<1>4. \/ known.hot /\ f = [id |-> n, todo |-> <<"hotOff">> \o <<"radioOn">>, asks |-> TRUE]
      \/ f = [id |-> n, todo |-> <<>> \o <<"radioOn">>, asks |-> FALSE]
      \/ \E op \in {"radioOff", "hotOff", "btOff", "btOn"} : f = [id |-> n, todo |-> <<op>>, asks |-> FALSE]
      \/ f = [id |-> n, todo |-> <<"hotOn">>, asks |-> (known.wifi = "joined")]
  <2>1. CASE known.hot
    <3>1. f \in {C!Flow(<<"hotOff">> \o <<"radioOn">>, TRUE), C!Flow(<<"hotOff">>, FALSE),
                 C!Flow(<<"btOff">>, FALSE), C!Flow(<<"btOn">>, FALSE)}
      BY <1>1, <1>3, <2>1
    <3> QED
      BY <2>1, <3>1 DEF C!Flow
  <2>2. CASE ~known.hot
    <3>1. f \in {C!Flow(<<>> \o <<"radioOn">>, FALSE), C!Flow(<<"radioOff">>, FALSE),
                 C!Flow(<<"hotOn">>, known.wifi = "joined"), C!Flow(<<"btOff">>, FALSE), C!Flow(<<"btOn">>, FALSE)}
      BY <1>1, <1>3, <2>2
    <3> QED
      BY <3>1 DEF C!Flow
  <2> QED
    BY <2>1, <2>2
<1>5. /\ <<"hotOff", "radioOn">> \in Todos
      /\ \A op \in {"hotOff", "hotOn", "radioOn", "radioOff", "btOn", "btOff"} :
           <<op>> \in Todos /\ Head(<<op>>) = op /\ <<op>> # <<"hotOff", "radioOn">>
  BY DEF Todos
<1> HIDE DEF n
<1>6. f \in [id : Nat, todo : Todos, asks : BOOLEAN] /\ (~f.asks => ~C!Takes(f))
  <2>1. CASE f = [id |-> n, todo |-> <<"hotOff">> \o <<"radioOn">>, asks |-> TRUE]
    BY <1>1, <1>5, <2>1, Joins
  <2>2. CASE f = [id |-> n, todo |-> <<>> \o <<"radioOn">>, asks |-> FALSE]
    <3>1. f = [id |-> n, todo |-> <<"radioOn">>, asks |-> FALSE]
      BY <2>2, Joins
    <3> QED
      BY <1>1, <1>5, <3>1 DEF C!Takes
  <2>3. ASSUME NEW op \in {"radioOff", "hotOff", "btOff", "btOn"}, f = [id |-> n, todo |-> <<op>>, asks |-> FALSE]
        PROVE  f \in [id : Nat, todo : Todos, asks : BOOLEAN] /\ (~f.asks => ~C!Takes(f))
    BY <1>1, <1>5, <2>3 DEF C!Takes
  <2>4. CASE f = [id |-> n, todo |-> <<"hotOn">>, asks |-> (known.wifi = "joined")]
    <3>1. f \in [id : Nat, todo : Todos, asks : BOOLEAN]
      BY <1>1, <1>5, <2>4
    <3>2. f.todo = <<"hotOn">> /\ (f.asks <=> known.wifi = "joined")
      BY <2>4
    <3>3. f.todo # <<"hotOff", "radioOn">>
      BY <1>5, <3>2
    <3> QED
      BY <3>1, <3>2, <3>3 DEF C!Takes
  <2> QED
    BY <1>4, <2>1, <2>2, <2>3, <2>4
<1> QED
  BY <1>3, <1>6

\* Nothing is flipped.
LEMMA FlipsRest == ASSUME CenterInv, flows' \subseteq flows PROVE Careful
BY DEF CenterInv, Flips, Careful, C!AskedFirst

CenterKept == Knows' /\ taps' \in 0..MaxTaps /\ Moved /\ Careful

LEMMA FlipKeeps == ASSUME ~Both, CenterInv, C!flip PROVE CenterKept
<1>1. PICK f \in [id : Nat, todo : Todos, asks : BOOLEAN] :
        /\ flows' = flows \cup {f} /\ (~f.asks => ~C!Takes(f))
        /\ IF f.asks THEN stack' = Append(stack, [id |-> f.id, kind |-> "question"]) ELSE stack' = stack
  BY FlipsCarefully
<1>2. /\ band = None /\ taps < MaxTaps /\ taps' = taps + 1
      /\ UNCHANGED <<device, opened, layer, polling, pull, band, plate, settling, known, req, bt, reqBt, slid, timer, puts>>
  BY DEF C!flip, C!Alone, C!fingers, C!answers, C!slider
<1>3. Knows'
  BY <1>2 DEF CenterInv, Knows
<1>4. taps' \in 0..MaxTaps
  BY <1>2, CenterConstants DEF CenterInv, Bounded
<1>5. Careful
  BY <1>1 DEF CenterInv, Flips, Careful, C!AskedFirst
<1>6. OnePlate'
  <2>1. CASE f.asks
    BY <1>1, <1>2, <2>1, QuestionPut
  <2>2. CASE ~f.asks
    BY <1>1, <1>2, <2>2, SamePlate
  <2> QED
    BY <2>1, <2>2
<1>7. HeldUp'
  BY <1>2, CenterConstants DEF CenterInv, HeldUp
<1> QED
  BY <1>2, <1>3, <1>4, <1>5, <1>6, <1>7 DEF CenterKept, Moved, CenterInv, Bounded

LEMMA ConfirmKeeps == ASSUME CenterInv, C!confirmed PROVE CenterKept
<1>1. PICK f \in flows :
        /\ f.asks /\ stack # <<>> /\ C!Last(stack) = [id |-> f.id, kind |-> "question"]
        /\ stack' = C!Front(stack)
        /\ flows' = flows \ {f} \/ flows' = (flows \ {f}) \cup {[f EXCEPT !.asks = FALSE]}
  BY DEF C!confirmed
<1>2. UNCHANGED <<device, taps, opened, layer, polling, pull, band, plate, settling, known, req, bt, reqBt, slid, timer, puts>>
  BY DEF C!confirmed, C!fingers, C!answers, C!slider
<1>3. Knows'
  BY <1>2 DEF CenterInv, Knows
<1>4. taps' \in 0..MaxTaps
  BY <1>2 DEF CenterInv, Bounded
<1>5. f \in [id : Nat, todo : Todos, asks : BOOLEAN]
  BY DEF CenterInv, Flips
<1>6. PICK g : g = [f EXCEPT !.asks = FALSE]
  OBVIOUS
<1>7. g \in [id : Nat, todo : Todos, asks : BOOLEAN] /\ g.id = f.id
  BY <1>5, <1>6
<1>8. Careful
  <2>1. \A h \in flows' : h \in flows \/ h = g
    BY <1>1, <1>6
  <2>2. Flips'
    BY <1>7, <2>1 DEF CenterInv, Flips
  <2>3. C!AskedFirst
    BY <1>1, <1>7, <2>1 DEF C!AskedFirst
  <2> QED
    BY <2>2, <2>3 DEF Careful
<1>9. OnePlate'
  BY <1>1, <1>2, QuestionGone
<1>10. HeldUp'
  <2>1. band # "down"
    BY <1>1 DEF CenterInv, HeldUp
  <2> QED
    BY <1>2, <2>1 DEF CenterInv, HeldUp
<1> QED
  BY <1>2, <1>3, <1>4, <1>8, <1>9, <1>10 DEF CenterKept, Moved, CenterInv, Bounded

LEMMA AfterIsDevice ==
  ASSUME device \in C!Devices, NEW op \in {"hotOff", "hotOn", "radioOn", "radioOff", "btOn", "btOff"}
  PROVE  C!After(op) \in C!Devices
BY DEF C!After, C!Devices

LEMMA RunKeeps == ASSUME CenterInv, C!run PROVE CenterKept
<1>1. PICK f \in flows :
        /\ flows' = (flows \ {f}) \cup (IF Len(f.todo) = 1 THEN {} ELSE {[f EXCEPT !.todo = Tail(@)]})
        /\ device' = C!After(Head(f.todo)) \/ device' = device
        /\ C!close \/ UNCHANGED C!plates
        /\ C!refreshPanel
        /\ C!refreshBt \/ UNCHANGED reqBt
  BY DEF C!run
<1>2. UNCHANGED <<taps, band, plate, settling, known, bt, slid, timer, puts>>
  BY DEF C!run, C!fingers, C!slider
<1>3. f \in [id : Nat, todo : Todos, asks : BOOLEAN]
  BY DEF CenterInv, Flips
<1>4. \/ f.todo = <<"hotOff", "radioOn">>
      \/ \E op \in {"hotOff", "hotOn", "radioOn", "radioOff", "btOn", "btOff"} : f.todo = <<op>>
  BY <1>3 DEF Todos
<1>5. Head(f.todo) \in {"hotOff", "hotOn", "radioOn", "radioOff", "btOn", "btOff"}
  BY <1>4
<1>6. device' \in C!Devices
  BY <1>1, <1>5, AfterIsDevice DEF CenterInv, Knows
<1>7. Knows'
  <2>1. req' # None => req' \in [says : {None} \cup C!Devices, old : BOOLEAN]
    BY <1>1 DEF CenterInv, Knows, C!refreshPanel
  <2>2. reqBt' # None => reqBt' \in [says : {None} \cup BOOLEAN]
    BY <1>1 DEF CenterInv, Knows, C!refreshBt
  <2> QED
    BY <1>2, <1>6, <2>1, <2>2 DEF CenterInv, Knows
<1>8. taps' \in 0..MaxTaps
  BY <1>2 DEF CenterInv, Bounded
<1>9. Careful
  <2>1. CASE Len(f.todo) = 1
    BY <1>1, <2>1, FlipsRest
  <2>2. CASE f.todo = <<"hotOff", "radioOn">>
    <3>1. PICK g : g = [f EXCEPT !.todo = Tail(@)]
      OBVIOUS
    <3>2. Tail(f.todo) = <<"radioOn">>
      BY <2>2
    <3>3. g.todo = <<"radioOn">> /\ g \in [id : Nat, todo : Todos, asks : BOOLEAN]
      <4>1. <<"radioOn">> \in Todos
        BY DEF Todos
      <4> QED
        BY <1>3, <3>1, <3>2, <4>1
    <3>4. ~C!Takes(g)
      <4>1. Head(<<"radioOn">>) # "hotOn" /\ <<"radioOn">> # <<"hotOff", "radioOn">>
        OBVIOUS
      <4> QED
        BY <3>3, <4>1 DEF C!Takes
    <3>5. \A h \in flows' : h \in flows \/ h = g
      BY <1>1, <3>1
    <3> QED
      BY <3>3, <3>4, <3>5 DEF CenterInv, Flips, Careful, C!AskedFirst
  <2>3. f.todo = <<"hotOff", "radioOn">> \/ Len(f.todo) = 1
    BY <1>4
  <2> QED
    BY <2>1, <2>2, <2>3
<1>10. Moved
  <2>1. CASE C!close
    BY <1>2, <2>1, ClosedMoves DEF CenterInv, HeldUp
  <2>2. CASE UNCHANGED C!plates
    BY <1>2, <2>2, PlateRests DEF C!plates
  <2> QED
    BY <1>1, <2>1, <2>2
<1> QED
  BY <1>7, <1>8, <1>9, <1>10 DEF CenterKept

\* What it shows, and the slider.
LEMMA ShowsKeep ==
  ASSUME CenterInv, C!Poll \/ C!ReadPanel \/ C!PanelAnswered \/ C!PollBt \/ C!ReadBt \/ C!BtAnswered
                    \/ C!slide \/ C!due \/ C!Put
  PROVE  CenterKept
<1>1. UNCHANGED <<opened, stack, layer, polling, pull, band, plate, settling, flows>>
  BY DEF C!Poll, C!ReadPanel, C!PanelAnswered, C!PollBt, C!ReadBt, C!BtAnswered, C!slide, C!due, C!Put,
         C!plates, C!fingers, C!switches
<1>2. taps' \in 0..MaxTaps
  BY CenterConstants
     DEF C!Poll, C!ReadPanel, C!PanelAnswered, C!PollBt, C!ReadBt, C!BtAnswered, C!slide, C!due, C!Put,
         C!switches, CenterInv, Bounded
<1>3. Knows'
  <2>0. /\ device \in C!Devices /\ known \in C!Devices /\ bt \in BOOLEAN
        /\ req # None => req \in [says : {None} \cup C!Devices, old : BOOLEAN]
        /\ reqBt # None => reqBt \in [says : {None} \cup BOOLEAN]
        /\ puts \in Seq(1..2) /\ (timer => slid \in 0..2)
    BY DEF CenterInv, Knows
  <2>1. CASE C!Poll
    BY <2>0, <2>1 DEF Knows, C!Poll, C!slider
  <2>2. CASE C!ReadPanel
    <3>1. req' \in [says : {None} \cup C!Devices, old : BOOLEAN]
      BY <2>0, <2>2 DEF C!ReadPanel
    <3> QED
      BY <2>0, <2>2, <3>1 DEF Knows, C!ReadPanel, C!slider
  <2>3. CASE C!PanelAnswered
    <3>1. known' \in C!Devices
      BY <2>0, <2>3 DEF C!PanelAnswered
    <3> QED
      <4>1. req' = None \/ req' = [says |-> None, old |-> FALSE]
        BY <2>3 DEF C!PanelAnswered
      <4>2. UNCHANGED <<device, bt, reqBt, slid, timer, puts>>
        BY <2>3 DEF C!PanelAnswered, C!slider
      <4>3. req' # None => req' \in [says : {None} \cup C!Devices, old : BOOLEAN]
        <5>1. [says |-> None, old |-> FALSE] \in [says : {None} \cup C!Devices, old : BOOLEAN]
          OBVIOUS
        <5> QED
          BY <4>1, <5>1
      <4> QED
        BY <2>0, <3>1, <4>2, <4>3 DEF Knows
  <2>4. CASE C!PollBt
    BY <2>0, <2>4 DEF Knows, C!PollBt, C!refreshBt, C!slider
  <2>5. CASE C!ReadBt
    <3>1. reqBt' \in [says : {None} \cup BOOLEAN]
      <4>1. device.bt \in BOOLEAN
        BY <2>0 DEF C!Devices
      <4> QED
        BY <2>5, <4>1 DEF C!ReadBt
    <3> QED
      BY <2>0, <2>5, <3>1 DEF Knows, C!ReadBt, C!slider
  <2>6. CASE C!BtAnswered
    <3>1. bt' \in BOOLEAN
      <4>1. reqBt # None /\ reqBt.says # None /\ bt' = reqBt.says
        BY <2>6 DEF C!BtAnswered
      <4>2. reqBt.says \in {None} \cup BOOLEAN
        BY <2>0, <4>1
      <4> QED
        BY <4>1, <4>2
    <3> QED
      <4>1. reqBt' = None /\ UNCHANGED <<device, known, req, slid, timer, puts>>
        BY <2>6 DEF C!BtAnswered, C!slider
      <4> QED
        BY <2>0, <3>1, <4>1 DEF Knows
  <2>7. CASE C!slide
    <3>1. PICK v \in 0..2 : slid' = v /\ known' = [known EXCEPT !.light = v]
      BY <2>7 DEF C!slide
    <3>2. known' \in C!Devices
      BY <2>0, <3>1 DEF C!Devices
    <3> QED
      BY <2>0, <2>7, <3>1, <3>2 DEF Knows, C!slide
  <2>8. CASE C!due
    <3>1. puts' \in Seq(1..2)
      <4>1. PICK v \in 1..2 : puts' = Append(puts, v)
        BY <2>0, <2>8 DEF C!due
      <4> QED
        BY <2>0, <4>1, AppendProperties
    <3> QED
      BY <2>0, <2>8, <3>1 DEF Knows, C!due, C!answers
  <2>9. CASE C!Put
    <3>1. puts # <<>> /\ puts' = Tail(puts) /\ device' = [device EXCEPT !.light = Head(puts)]
      BY <2>9 DEF C!Put
    <3>2. puts' \in Seq(1..2) /\ Head(puts) \in 1..2
      BY <2>0, <3>1, HeadTailProperties
    <3>3. device' \in C!Devices
      BY <2>0, <3>1, <3>2 DEF C!Devices
    <3> QED
      BY <2>0, <2>9, <3>2, <3>3 DEF Knows, C!Put, C!answers
  <2> QED
    BY <2>1, <2>2, <2>3, <2>4, <2>5, <2>6, <2>7, <2>8, <2>9
<1> QED
  BY <1>1, <1>2, <1>3, PlateRests, FlipsRest DEF CenterKept

LEMMA CenterKeeps ==
  ASSUME ~Both, CenterInv, [C!Next]_(C!vars)
  PROVE  CenterInv' /\ C!AskedFirst
<1>1. CenterKept
  <2>1. CASE Fingers
    <3>1. taps' \in 0..MaxTaps /\ flows' \subseteq flows
      BY <2>1, FingersRest DEF CenterInv, Bounded
    <3> QED
      BY <2>1, <3>1, FingersKnow, FingersMove, FlipsRest DEF CenterKept
  <2>2. CASE C!flip \/ C!confirmed \/ C!run
    BY <2>2, FlipKeeps, ConfirmKeeps, RunKeeps
  <2>3. CASE C!Poll \/ C!ReadPanel \/ C!PanelAnswered \/ C!PollBt \/ C!ReadBt \/ C!BtAnswered
             \/ C!slide \/ C!due \/ C!Put
    BY <2>3, ShowsKeep
  <2>4. CASE UNCHANGED C!vars
    <3>1. UNCHANGED <<device, taps, opened, stack, layer, polling, pull, band, plate, settling, flows,
                      known, req, bt, reqBt, slid, timer, puts>>
      BY <2>4 DEF C!vars, C!plates, C!fingers, C!switches, C!answers, C!slider
    <3>2. Knows' /\ taps' \in 0..MaxTaps
      BY <3>1 DEF CenterInv, Knows, Bounded
    <3> QED
      BY <3>1, <3>2, PlateRests, FlipsRest DEF CenterKept
  <2> QED
    BY <2>1, <2>2, <2>3, <2>4 DEF C!Next, Fingers
<1> QED
  BY <1>1 DEF CenterKept, Moved, Careful, CenterInv, Bounded

-----------------------------------------------------------------------------
\* The folder pages (Folder).

Clips == [op : {"copy", "move"}, names : SUBSET Names, from : F!Places]
Copies == [op : {"copy", "move"}, names : SUBSET Names, from : F!Places, to : F!Places, over : BOOLEAN]
Doings == [what : {"trash", "rename", "mkdir", "restore", "replace", "start"}, names : SUBSET Names,
           place : F!Places, c : Clips \cup {None}, picked : BOOLEAN, done : BOOLEAN]
Lists == [says : {None} \cup SUBSET Names]

Stored == disk \in [F!Places -> SUBSET Names] /\ tasks \subseteq Copies
\* A listing is being fetched exactly while it says so.
Listings ==
  /\ list \in [F!Places -> {None} \cup SUBSET Names]
  /\ status \in [F!Places -> {"idle", "busy"}]
  /\ req \in [F!Places -> {None} \cup Lists]
  /\ \A p \in F!Places : status[p] = "busy" <=> req[p] # None
\* The dock's bars.
Docked ==
  /\ at \in F!Places /\ chosen \subseteq Names /\ shown \in BOOLEAN /\ selecting \in BOOLEAN
  /\ above <=> shown /\ clip # None /\ ~selecting
  /\ instead <=> shown /\ selecting
  /\ chosen # {} => selecting
Wishes ==
  /\ clip # None => clip \in Clips
  /\ sheet # None => /\ sheet.what \in {"selection", "clash"} /\ sheet.names \subseteq Names
                     /\ sheet.what = "clash" => sheet.c \in Clips
  /\ undo # None => undo.place \in F!Places /\ undo.names \subseteq Names
  /\ \A f \in flows : f \in Doings /\ (f.what \in {"replace", "start"} => f.c \in Clips)
Tallied == hasty \in BOOLEAN /\ acts \in 0..WantedHere[hasty] /\ trouble \in 0..MaxTrouble
\* Without haste, the results shown are those of a search that was made,
Searched ==
  /\ query # None => query \in Nat \ {0}
  /\ ~hasty /\ query = None => ~searchTimer /\ searches = {} /\ found = None
  /\ ~hasty /\ query # None => searches \subseteq 1..query /\ (found # None => found \in 1..query)
\* one thing is done at a time, and a task that is about to start has room.
OneByOne ==
  ~hasty =>
    /\ flows = {} \/ (sheet = None /\ \E f \in flows : flows = {f})
    /\ sheet # None => tasks = {}
    /\ \A f \in flows :
         /\ (f.what = "start" /\ ~f.done) \/ (f.what = "replace" /\ f.done) => f.names \cap disk[f.place] = {}
         /\ ~(f.what = "start" /\ f.done) => tasks = {}
FolderInv == Stored /\ Listings /\ Docked /\ Wishes /\ Tallied /\ Searched /\ OneByOne

LEMMA FolderConstants ==
  /\ Here \in F!Places /\ There \in F!Places /\ F!Places = {Here, There}
  /\ HeldHere \in [F!Places -> SUBSET Names]
  /\ WantedHere \in [BOOLEAN -> Nat] /\ MaxTrouble \in Nat
  /\ None \notin Nat /\ None \notin Lists /\ None \notin Clips
BY PagesParameters DEF F!FolderAssumption, F!Places, Lists, Clips

LEMMA FolderBegins == F!Init => FolderInv
<1> SUFFICES ASSUME F!Init PROVE FolderInv
  OBVIOUS
<1>1. Stored
  <2>1. disk = HeldHere /\ tasks = {}
    BY DEF F!Init
  <2> QED
    BY <2>1, FolderConstants DEF Stored
<1>2. Listings
  BY FolderConstants DEF F!Init, Listings
<1>3. Docked
  BY FolderConstants DEF F!Init, Docked
<1>4. Wishes
  BY DEF F!Init, Wishes
<1>5. Tallied
  <2>1. hasty \in BOOLEAN /\ acts = 0 /\ trouble = 0
    BY DEF F!Init
  <2>2. WantedHere[hasty] \in Nat
    BY <2>1, FolderConstants
  <2> QED
    BY <2>1, <2>2, FolderConstants DEF Tallied
<1>6. Searched
  BY DEF F!Init, Searched
<1>7. OneByOne
  BY DEF F!Init, OneByOne
<1> QED
  BY <1>1, <1>2, <1>3, <1>4, <1>5, <1>6, <1>7 DEF FolderInv

LEMMA FolderSays == ASSUME FolderInv PROVE F!DockTells
<1>1. \A p \in F!Places : status[p] \in {"idle", "busy"} /\ (list[p] # None => list[p] \subseteq Names)
  BY DEF FolderInv, Listings
<1>2. F!TypeOK
  BY <1>1 DEF FolderInv, Stored, Docked, Tallied, F!TypeOK
<1>3. \A p \in F!Places : status[p] = "busy" <=> req[p] # None
  BY DEF FolderInv, Listings
<1>4. ~hasty /\ found # None /\ searches = {} => query # None /\ found \in 1..query
  BY DEF FolderInv, Searched
<1>5. (above <=> shown /\ clip # None /\ ~selecting) /\ (instead <=> shown /\ selecting) /\ (chosen # {} => selecting)
  BY DEF FolderInv, Docked
<1> QED
  BY <1>2, <1>3, <1>4, <1>5 DEF F!DockTells

\* When a task starts, the names it clashed with are free.
LEMMA MakesRoom == ASSUME FolderInv PROVE F!ReplaceMakesRoom
<1> SUFFICES ASSUME ~hasty, NEW f \in flows, f.what = "start", ~f.done
             PROVE  f.names \cap disk[f.place] = {}
  BY DEF F!ReplaceMakesRoom
<1> QED
  BY DEF FolderInv, OneByOne

\* The listings.
LEMMA Fetches == ASSUME FolderInv, NEW ps, F!refreshAll(ps) PROVE Listings'
<1>1. PICK free : free = {p \in ps : status[p] = "idle"}
  OBVIOUS
<1>2. /\ status' = [p \in F!Places |-> IF p \in free THEN "busy" ELSE status[p]]
      /\ req' = [p \in F!Places |-> IF p \in free THEN [says |-> None] ELSE req[p]]
      /\ list' = list
  BY <1>1 DEF F!refreshAll
<1>3. [says |-> None] \in Lists
  BY DEF Lists
<1> QED
  BY <1>2, <1>3, FolderConstants DEF FolderInv, Listings

LEMMA FolderLists == ASSUME FolderInv, F!Next PROVE Listings'
<1>0. /\ list \in [F!Places -> {None} \cup SUBSET Names]
      /\ status \in [F!Places -> {"idle", "busy"}]
      /\ req \in [F!Places -> {None} \cup Lists]
      /\ \A p \in F!Places : status[p] = "busy" <=> req[p] # None
  BY DEF FolderInv, Listings
<1>1. ASSUME NEW p \in F!Places, F!Read(p) PROVE Listings'
  <2>1. /\ req[p] # None /\ req' = [req EXCEPT ![p].says = disk[p]] /\ UNCHANGED <<list, status>>
    BY <1>1 DEF F!Read
  <2>2. disk[p] \in SUBSET Names /\ req[p] \in Lists
    BY <1>0, <2>1 DEF FolderInv, Stored
  <2>3. PICK r : r = [req[p] EXCEPT !.says = disk[p]]
    OBVIOUS
  <2>4. r \in Lists /\ req' = [req EXCEPT ![p] = r]
    BY <2>1, <2>2, <2>3 DEF Lists
  <2>5. req' \in [F!Places -> {None} \cup Lists] /\ \A q \in F!Places : req'[q] = IF q = p THEN r ELSE req[q]
    BY <1>0, <2>4
  <2>6. \A q \in F!Places : status'[q] = "busy" <=> req'[q] # None
    BY <1>0, <2>1, <2>4, <2>5, FolderConstants
  <2> QED
    BY <1>0, <2>1, <2>5, <2>6 DEF Listings
<1>2. ASSUME NEW p \in F!Places, F!Listed(p) PROVE Listings'
  <2>1. /\ req[p] # None /\ req[p].says # None /\ list' = [list EXCEPT ![p] = req[p].says]
        /\ status' = [status EXCEPT ![p] = "idle"] /\ req' = [req EXCEPT ![p] = None]
    BY <1>2 DEF F!Listed
  <2>2. req[p].says \in SUBSET Names
    BY <1>0, <2>1 DEF Lists
  <2>3. list' \in [F!Places -> {None} \cup SUBSET Names]
    BY <1>0, <2>1, <2>2
  <2> QED
    BY <1>0, <2>1, <2>3 DEF Listings
<1>3. ASSUME NEW p \in F!Places, F!ListFails(p) PROVE Listings'
  <2>1. status' = [status EXCEPT ![p] = "idle"] /\ req' = [req EXCEPT ![p] = None] /\ UNCHANGED list
    BY <1>3 DEF F!ListFails
  <2> QED
    BY <1>0, <2>1 DEF Listings
<1>4. ASSUME UNCHANGED F!cache PROVE Listings'
  BY <1>0, <1>4 DEF F!cache, Listings
<1>5. CASE F!show \/ F!Refresh
  BY <1>5, Fetches DEF F!show, F!Refresh, F!refresh
<1>6. CASE F!SomeFlow
  <2>1. UNCHANGED F!cache \/ \E ps : F!refreshAll(ps)
    BY <1>6 DEF F!SomeFlow, F!Post, F!TrashAnswered, F!NameAnswered, F!RestoreAnswered, F!ReplaceAnswered, F!StartAnswered
  <2> QED
    BY <1>4, <2>1, Fetches
<1>7. CASE F!SomeTask
  <2>1. UNCHANGED F!cache \/ F!refreshAll({at})
    BY <1>7 DEF F!SomeTask, F!TaskEnds, F!taskEnded, F!refresh
  <2> QED
    BY <1>4, <2>1, Fetches
<1>8. CASE \/ F!Leave \/ F!startSelect \/ F!selectAll \/ F!Cancel \/ \E n \in Names : F!toggle(n)
           \/ F!type \/ F!searchDue \/ F!Found \/ F!endSearch
           \/ F!selectionSheet \/ F!itemSheet \/ F!dismiss \/ F!cut \/ F!clipClear
           \/ F!trash \/ F!rename \/ F!newFolder \/ F!restore \/ F!paste \/ F!clashAnswered
           \/ \E f \in flows : F!PostFails(f)
  <2>1. UNCHANGED F!cache
    BY <1>8 DEF F!Leave, F!startSelect, F!selectAll, F!Cancel, F!toggle, F!type, F!searchDue, F!Found, F!endSearch,
                F!selectionSheet, F!itemSheet, F!dismiss, F!cut, F!clipClear, F!trash, F!rename, F!newFolder,
                F!restore, F!paste, F!clashAnswered, F!PostFails
  <2> QED
    BY <1>4, <2>1
<1> QED
  BY <1>1, <1>2, <1>3, <1>5, <1>6, <1>7, <1>8 DEF F!Next

\* fnOS.
Others ==
  \/ F!show \/ F!Leave \/ F!startSelect \/ F!selectAll \/ F!Refresh \/ F!Cancel \/ \E n \in Names : F!toggle(n)
  \/ F!type \/ F!searchDue \/ F!Found \/ F!endSearch
  \/ F!selectionSheet \/ F!itemSheet \/ F!dismiss \/ F!cut \/ F!clipClear
  \/ F!trash \/ F!rename \/ F!newFolder \/ F!restore \/ F!paste \/ F!clashAnswered
  \/ \E f \in flows : F!PostFails(f)
  \/ \E p \in F!Places : F!Read(p) \/ F!Listed(p) \/ F!ListFails(p)

LEMMA OthersStore == ASSUME Others PROVE UNCHANGED <<disk, tasks>>
BY DEF Others, F!show, F!Leave, F!startSelect, F!selectAll, F!Refresh, F!Cancel, F!toggle, F!type, F!searchDue, F!Found,
       F!endSearch, F!selectionSheet, F!itemSheet, F!dismiss, F!cut, F!clipClear, F!trash, F!rename, F!newFolder,
       F!restore, F!paste, F!clashAnswered, F!PostFails, F!Read, F!Listed, F!ListFails, F!Page, F!fnos

LEMMA FolderStores == ASSUME FolderInv, F!Next PROVE Stored'
<1>0. disk \in [F!Places -> SUBSET Names] /\ tasks \subseteq Copies
  BY DEF FolderInv, Stored
<1>1. CASE Others
  BY <1>0, <1>1, OthersStore DEF Stored
<1>2. ASSUME NEW f \in flows, F!Post(f) PROVE Stored'
  <2>1. f \in Doings /\ (f.what \in {"replace", "start"} => f.c \in Clips)
    BY DEF FolderInv, Wishes
  <2>2. f.place \in F!Places /\ f.names \subseteq Names /\ f.what \in {"trash", "rename", "mkdir", "restore", "replace", "start"}
    BY <2>1 DEF Doings
  <2>3. CASE f.what \in {"trash", "replace"}
    <3>1. disk' = [disk EXCEPT ![f.place] = @ \ f.names] /\ tasks' = tasks
      BY <1>2, <2>3 DEF F!Post
    <3> QED
      BY <1>0, <2>2, <3>1 DEF Stored
  <2>4. CASE f.what = "restore"
    <3>1. PICK back : /\ back = {b \in bin : b.place = f.place /\ b.name \in f.names \ disk[f.place]}
                      /\ disk' = [disk EXCEPT ![f.place] = @ \cup {b.name : b \in back}] /\ tasks' = tasks
      BY <1>2, <2>4 DEF F!Post
    <3>2. {b.name : b \in back} \subseteq Names
      BY <2>2, <3>1
    <3> QED
      BY <1>0, <2>2, <3>1, <3>2 DEF Stored
  <2>5. CASE f.what = "start"
    <3>1. /\ disk' = disk
          /\ tasks' = tasks \cup {[op |-> f.c.op, names |-> f.c.names, from |-> f.c.from, to |-> f.place, over |-> FALSE]}
      BY <1>2, <2>5 DEF F!Post
    <3>2. [op |-> f.c.op, names |-> f.c.names, from |-> f.c.from, to |-> f.place, over |-> FALSE] \in Copies
      BY <2>1, <2>2, <2>5 DEF Copies, Clips
    <3> QED
      BY <1>0, <3>1, <3>2 DEF Stored
  <2>6. CASE f.what \in {"rename", "mkdir"}
    <3>1. PICK n \in Names : disk' = [disk EXCEPT ![f.place] = (@ \ f.names) \cup {n}] /\ tasks' = tasks
      BY <1>2, <2>6 DEF F!Post
    <3> QED
      BY <1>0, <2>2, <3>1 DEF Stored
  <2> QED
    BY <2>2, <2>3, <2>4, <2>5, <2>6
<1>3. ASSUME NEW f \in flows, F!TrashAnswered(f) \/ F!NameAnswered(f) \/ F!RestoreAnswered(f)
                              \/ F!ReplaceAnswered(f) \/ F!StartAnswered(f)
      PROVE  Stored'
  <2>1. UNCHANGED <<disk, tasks>>
    BY <1>3 DEF F!TrashAnswered, F!NameAnswered, F!RestoreAnswered, F!ReplaceAnswered, F!StartAnswered, F!fnos
  <2> QED
    BY <1>0, <2>1 DEF Stored
<1>4. ASSUME NEW k \in tasks, F!TaskEnds(k) PROVE Stored'
  <2>1. k \in Copies /\ k.from \in F!Places /\ k.to \in F!Places
    BY <1>0 DEF Copies
  <2>2. PICK taken : /\ taken = (k.names \cap disk[k.from]) \ disk[k.to]
                     /\ tasks' = (tasks \ {k}) \cup {[k EXCEPT !.over = TRUE]}
                     /\ disk' = [disk EXCEPT ![k.to] = @ \cup taken,
                                             ![k.from] = IF k.op = "move" THEN @ \ taken ELSE @]
    BY <1>4 DEF F!TaskEnds
  <2>3. taken \subseteq Names
    BY <1>0, <2>1, <2>2
  <2>4. [k EXCEPT !.over = TRUE] \in Copies
    BY <2>1 DEF Copies
  <2>5. disk' \in [F!Places -> SUBSET Names]
    <3>1. PICK d : d = [disk EXCEPT ![k.to] = @ \cup taken]
      OBVIOUS
    <3>2. d \in [F!Places -> SUBSET Names]
      BY <1>0, <2>1, <2>3, <3>1
    <3>3. disk' = [d EXCEPT ![k.from] = IF k.op = "move" THEN @ \ taken ELSE @]
      BY <2>2, <3>1
    <3> QED
      BY <2>1, <2>3, <3>2, <3>3
  <2> QED
    BY <1>0, <2>2, <2>4, <2>5 DEF Stored
<1>5. ASSUME NEW k \in tasks, F!taskEnded(k) PROVE Stored'
  BY <1>0, <1>5 DEF F!taskEnded, Stored
<1> QED
  BY <1>1, <1>2, <1>3, <1>4, <1>5 DEF F!Next, Others, F!SomeFlow, F!SomeTask

\* The dock.
LEMMA NoBarsMove ==
  ASSUME FolderInv, UNCHANGED <<at, shown, selecting, above, instead>>, clip' = None <=> clip = None,
         chosen' \subseteq Names, chosen' # {} => selecting
  PROVE  Docked'
BY DEF FolderInv, Docked

LEMMA EndsSelect ==
  ASSUME FolderInv, F!endSelect(clip'), UNCHANGED <<at, shown>>
  PROVE  Docked'
<1>1. CASE shown
  BY <1>1 DEF F!endSelect, F!bars, FolderInv, Docked
<1>2. CASE ~shown
  <2>1. selecting' = FALSE /\ chosen' = {} /\ UNCHANGED <<above, instead>>
    BY <1>2 DEF F!endSelect, F!dock
  <2>2. at \in F!Places /\ shown \in BOOLEAN /\ ~above /\ ~instead
    BY <1>2 DEF FolderInv, Docked
  <2>3. ~above' /\ ~instead' /\ ~shown' /\ ~selecting'
    BY <1>2, <2>1, <2>2
  <2> QED
    BY <2>1, <2>2, <2>3 DEF Docked
<1> QED
  BY <1>1, <1>2

LEMMA VisibleNames == ASSUME FolderInv PROVE F!Visible \subseteq Names
<1>1. list[at] \in {None} \cup SUBSET Names
  BY DEF FolderInv, Listings, Docked
<1> QED
  BY <1>1 DEF F!Visible

LEMMA FolderDocks == ASSUME FolderInv, F!Next PROVE Docked'
<1>0. /\ at \in F!Places /\ chosen \subseteq Names /\ shown \in BOOLEAN /\ selecting \in BOOLEAN
      /\ above <=> shown /\ clip # None /\ ~selecting
      /\ instead <=> shown /\ selecting
      /\ chosen # {} => selecting
  BY DEF FolderInv, Docked
<1>1. CASE F!show
  <2>1. shown' = TRUE /\ above' = (clip # None /\ ~selecting) /\ instead' = selecting /\ UNCHANGED <<at, selecting, chosen, clip>>
    BY <1>1 DEF F!show, F!bars
  <2> QED
    BY <1>0, <2>1 DEF Docked
<1>2. CASE F!Leave
  <2>1. at' \in {Here, There} /\ shown' = FALSE /\ selecting' = FALSE /\ chosen' = {} /\ above' = FALSE /\ instead' = FALSE
    BY <1>2 DEF F!Leave
  <2> QED
    BY <2>1, FolderConstants DEF Docked
<1>3. CASE F!startSelect
  <2>1. shown /\ selecting' = TRUE /\ above' = (clip # None /\ ~TRUE) /\ instead' = TRUE /\ UNCHANGED <<at, shown, clip>>
    BY <1>3 DEF F!startSelect, F!Act, F!bars
  <2>2. chosen' \subseteq Names
    BY <1>3, VisibleNames DEF F!startSelect
  <2> QED
    BY <1>0, <2>1, <2>2 DEF Docked
<1>4. CASE F!selectAll \/ \E n \in Names : F!toggle(n)
  <2>1. selecting /\ chosen' \subseteq chosen \cup F!Visible /\ UNCHANGED <<at, shown, selecting, above, instead, clip>>
    BY <1>4 DEF F!selectAll, F!toggle, F!dock
  <2> QED
    BY <1>0, <2>1, VisibleNames, NoBarsMove
<1>5. CASE F!Cancel
  <2>1. F!endSelect(clip') /\ UNCHANGED <<at, shown>>
    BY <1>5 DEF F!Cancel
  <2> QED
    BY <2>1, EndsSelect
<1>6. CASE F!cut
  <2>1. F!endSelect(clip') /\ UNCHANGED <<at, shown>>
    BY <1>6 DEF F!cut
  <2> QED
    BY <2>1, EndsSelect
<1>7. CASE F!clipClear
  <2>1. shown /\ clip' = None /\ above' = (None # None /\ ~selecting) /\ instead' = selecting /\ UNCHANGED <<at, shown, selecting, chosen>>
    BY <1>7 DEF F!clipClear, F!Act, F!bars, F!page
  <2> QED
    BY <1>0, <2>1 DEF Docked
<1>8. ASSUME NEW f \in flows, F!TrashAnswered(f) \/ F!NameAnswered(f) PROVE Docked'
  <2>1. UNCHANGED <<at, shown, clip>> /\ (F!endSelect(clip) \/ UNCHANGED <<selecting, chosen, above, instead>>)
    BY <1>8 DEF F!TrashAnswered, F!NameAnswered, F!dock
  <2>2. CASE F!endSelect(clip)
    BY <2>1, <2>2, EndsSelect
  <2>3. CASE UNCHANGED <<selecting, chosen, above, instead>>
    BY <1>0, <2>1, <2>3, NoBarsMove
  <2> QED
    BY <2>1, <2>2, <2>3
<1>9. ASSUME NEW f \in flows, F!StartAnswered(f) PROVE Docked'
  <2>1. UNCHANGED <<at, shown, selecting, chosen>>
    BY <1>9 DEF F!StartAnswered, F!page
  <2>2. IF shown THEN above' = (clip' # None /\ ~selecting) /\ instead' = selecting ELSE UNCHANGED <<above, instead>>
    BY <1>9 DEF F!StartAnswered, F!bars, F!dock
  <2> QED
    BY <1>0, <2>1, <2>2 DEF Docked
<1>10. CASE \/ \E p \in F!Places : F!Read(p) \/ F!Listed(p) \/ F!ListFails(p)
            \/ F!Refresh \/ F!type \/ F!searchDue \/ F!Found \/ F!endSearch
            \/ F!selectionSheet \/ F!itemSheet \/ F!dismiss \/ F!trash \/ F!rename \/ F!newFolder \/ F!restore
            \/ F!paste \/ F!clashAnswered \/ F!SomeTask
            \/ \E f \in flows : F!Post(f) \/ F!RestoreAnswered(f) \/ F!ReplaceAnswered(f) \/ F!PostFails(f)
  <2>1. UNCHANGED <<at, shown, selecting, chosen, above, instead, clip>>
    BY <1>10 DEF F!Read, F!Listed, F!ListFails, F!Refresh, F!type, F!searchDue, F!Found, F!endSearch,
                 F!selectionSheet, F!itemSheet, F!dismiss, F!trash, F!rename, F!newFolder, F!restore,
                 F!paste, F!clashAnswered, F!SomeTask, F!TaskEnds, F!taskEnded, F!Post, F!RestoreAnswered,
                 F!ReplaceAnswered, F!PostFails, F!page, F!dock
  <2> QED
    BY <1>0, <2>1, NoBarsMove
<1> QED
  BY <1>1, <1>2, <1>3, <1>4, <1>5, <1>6, <1>7, <1>8, <1>9, <1>10 DEF F!Next, F!SomeFlow

\* The clipboard, what is asked, and what is done.
Held(f) == f \in Doings /\ (f.what \in {"replace", "start"} => f.c \in Clips)
Sheeted == sheet # None => /\ sheet.what \in {"selection", "clash"} /\ sheet.names \subseteq Names
                           /\ sheet.what = "clash" => sheet.c \in Clips
Undone == undo # None => undo.place \in F!Places /\ undo.names \subseteq Names

LEMMA WishesMean == Wishes <=> (clip # None => clip \in Clips) /\ Sheeted /\ Undone /\ \A f \in flows : Held(f)
BY DEF Wishes, Sheeted, Undone, Held

LEMMA FlowHeld ==
  ASSUME FolderInv, NEW w \in {"trash", "rename", "mkdir", "restore", "replace", "start"},
         NEW n \in SUBSET Names, NEW c \in Clips \cup {None}, w \in {"replace", "start"} => c \in Clips
  PROVE  Held(F!Flow(w, n, c))
<1>1. at \in F!Places /\ selecting \in BOOLEAN
  BY DEF FolderInv, Docked
<1>2. F!Flow(w, n, c) = [what |-> w, names |-> n, place |-> at, c |-> c, picked |-> selecting, done |-> FALSE]
  BY DEF F!Flow
<1>3. FALSE \in BOOLEAN
  OBVIOUS
<1> QED
  BY <1>1, <1>2, <1>3 DEF Held, Doings

LEMMA FolderWishes == ASSUME FolderInv, F!Next PROVE Wishes'
<1>0. (clip # None => clip \in Clips) /\ Sheeted /\ Undone /\ (\A f \in flows : Held(f))
  BY WishesMean DEF FolderInv
<1>1. /\ clip' # None => clip' \in Clips
      /\ Sheeted' /\ Undone' /\ \A f \in flows' : Held(f)
      => Wishes'
  BY DEF Wishes, Sheeted, Undone, Held
<1>2. CASE F!selectionSheet \/ F!itemSheet
  <2>1. /\ \E s \in SUBSET Names : sheet' = [what |-> "selection", names |-> s, c |-> None]
        /\ UNCHANGED <<clip, undo, flows>>
    BY <1>2, VisibleNames DEF F!selectionSheet, F!itemSheet, F!Page
  <2>2. Sheeted'
    BY <2>1 DEF Sheeted
  <2> QED
    BY <1>0, <1>1, <2>1, <2>2 DEF Undone
<1>3. CASE F!cut
  <2>1. sheet # None /\ sheet' = None /\ UNCHANGED <<undo, flows>>
        /\ \E op \in {"copy", "move"} : clip' = [op |-> op, names |-> sheet.names, from |-> at]
    BY <1>3 DEF F!cut
  <2>2. at \in F!Places /\ sheet.names \subseteq Names
    BY <1>0, <2>1 DEF Sheeted, FolderInv, Docked
  <2>3. clip' \in Clips
    BY <2>1, <2>2 DEF Clips
  <2> QED
    BY <1>0, <1>1, <2>1, <2>3 DEF Undone, Sheeted
<1>4. ASSUME NEW w \in {"trash", "rename", "mkdir", "restore", "replace", "start"},
             NEW n \in SUBSET Names, NEW c \in Clips \cup {None}, w \in {"replace", "start"} => c \in Clips,
             F!run(F!Flow(w, n, c)), clip' = clip, undo' = undo, sheet' \in {sheet, None}
      PROVE  Wishes'
  <2>1. \A f \in flows' : Held(f)
    BY <1>0, <1>4, FlowHeld DEF F!run
  <2> QED
    BY <1>0, <1>1, <1>4, <2>1 DEF Undone, Sheeted
<1>5. CASE F!trash
  <2>1. sheet # None /\ F!run(F!Flow("trash", sheet.names, None)) /\ sheet' = None /\ clip' = clip /\ undo' = undo
    BY <1>5 DEF F!trash
  <2>2. sheet.names \in SUBSET Names
    BY <1>0, <2>1 DEF Sheeted
  <2> QED
    BY <1>4, <2>1, <2>2
<1>6. CASE F!rename
  <2>1. sheet # None /\ F!run(F!Flow("rename", sheet.names, None)) /\ sheet' = None /\ clip' = clip /\ undo' = undo
    BY <1>6 DEF F!rename
  <2>2. sheet.names \in SUBSET Names
    BY <1>0, <2>1 DEF Sheeted
  <2> QED
    BY <1>4, <2>1, <2>2
<1>7. CASE F!newFolder
  <2>1. F!run(F!Flow("mkdir", {}, None)) /\ sheet' = sheet /\ clip' = clip /\ undo' = undo
    BY <1>7 DEF F!newFolder
  <2> QED
    BY <1>4, <2>1
<1>8. CASE F!restore
  <2>1. /\ undo # None /\ undo' = None /\ clip' = clip /\ sheet' = sheet
        /\ flows' = flows \cup {[F!Flow("restore", undo.names, None) EXCEPT !.place = undo.place]}
    BY <1>8 DEF F!restore, F!run
  <2>2. undo.names \in SUBSET Names /\ undo.place \in F!Places
    BY <1>0, <2>1 DEF Undone
  <2>3. Held(F!Flow("restore", undo.names, None)) /\ F!Flow("restore", undo.names, None).what = "restore"
    BY <2>2, FlowHeld DEF F!Flow
  <2>4. PICK f : f = F!Flow("restore", undo.names, None)
    OBVIOUS
  <2>5. Held([f EXCEPT !.place = undo.place])
    BY <2>2, <2>3, <2>4 DEF Held, Doings
  <2>6. \A g \in flows' : Held(g)
    BY <1>0, <2>1, <2>4, <2>5
  <2> QED
    BY <1>0, <1>1, <2>1, <2>6 DEF Undone, Sheeted
<1>9. CASE F!paste
  <2>1. clip \in Clips /\ UNCHANGED <<clip, undo>>
    BY <1>0, <1>9 DEF F!paste, F!pasteBlocked
  <2>2. \/ sheet' = sheet /\ F!run(F!Flow("start", {}, clip))
        \/ UNCHANGED flows /\ sheet' = [what |-> "clash", names |-> clip.names \cap F!Visible, c |-> clip]
    BY <1>9 DEF F!paste
  <2>3. CASE sheet' = sheet /\ F!run(F!Flow("start", {}, clip))
    BY <1>4, <2>1, <2>3
  <2>4. CASE UNCHANGED flows /\ sheet' = [what |-> "clash", names |-> clip.names \cap F!Visible, c |-> clip]
    <3>1. Sheeted'
      BY <2>1, <2>4, VisibleNames DEF Sheeted
    <3> QED
      BY <1>0, <1>1, <2>1, <2>4, <3>1 DEF Undone
  <2> QED
    BY <2>2, <2>3, <2>4
<1>10. CASE F!clashAnswered
  <2>1. /\ sheet # None /\ sheet.what = "clash" /\ sheet' = None /\ clip' = clip /\ undo' = undo
        /\ F!run(F!Flow("start", {}, sheet.c)) \/ F!run(F!Flow("replace", sheet.names, sheet.c))
    BY <1>10 DEF F!clashAnswered
  <2>2. sheet.c \in Clips /\ sheet.names \in SUBSET Names
    BY <1>0, <2>1 DEF Sheeted
  <2>3. CASE F!run(F!Flow("start", {}, sheet.c))
    BY <1>4, <2>1, <2>2, <2>3
  <2>4. CASE F!run(F!Flow("replace", sheet.names, sheet.c))
    BY <1>4, <2>1, <2>2, <2>4
  <2> QED
    BY <2>1, <2>3, <2>4
<1>11. ASSUME NEW f \in flows, F!Post(f) PROVE Wishes'
  <2>1. flows' = (flows \ {f}) \cup {[f EXCEPT !.done = TRUE]} /\ UNCHANGED <<clip, sheet, undo>>
    BY <1>11 DEF F!Post
  <2>2. Held([f EXCEPT !.done = TRUE])
    <3>1. f \in Doings /\ (f.what \in {"replace", "start"} => f.c \in Clips)
      BY <1>0 DEF Held
    <3> QED
      BY <3>1 DEF Held, Doings
  <2> QED
    BY <1>0, <1>1, <2>1, <2>2 DEF Undone, Sheeted
<1>12. ASSUME NEW f \in flows, F!TrashAnswered(f) PROVE Wishes'
  <2>1. flows' = flows \ {f} /\ undo' = [place |-> f.place, names |-> f.names] /\ UNCHANGED <<clip, sheet>>
    BY <1>12 DEF F!TrashAnswered
  <2>2. f.place \in F!Places /\ f.names \in SUBSET Names
    BY <1>0 DEF Held, Doings
  <2>3. Undone'
    BY <2>1, <2>2 DEF Undone
  <2> QED
    BY <1>0, <1>1, <2>1, <2>3 DEF Sheeted
<1>13. ASSUME NEW f \in flows, F!ReplaceAnswered(f) PROVE Wishes'
  <2>1. /\ f.what = "replace" /\ flows' = (flows \ {f}) \cup {[f EXCEPT !.what = "start", !.done = FALSE]}
        /\ UNCHANGED <<clip, sheet, undo>>
    BY <1>13 DEF F!ReplaceAnswered
  <2>2. Held([f EXCEPT !.what = "start", !.done = FALSE])
    <3>1. f \in Doings /\ f.c \in Clips
      BY <1>0, <2>1 DEF Held
    <3> QED
      BY <3>1 DEF Held, Doings
  <2> QED
    BY <1>0, <1>1, <2>1, <2>2 DEF Undone, Sheeted
<1>14. ASSUME NEW f \in flows, F!NameAnswered(f) \/ F!RestoreAnswered(f) \/ F!StartAnswered(f) \/ F!PostFails(f) PROVE Wishes'
  <2>1. flows' = flows \ {f} /\ clip' \in {clip, None} /\ UNCHANGED <<sheet, undo>>
    BY <1>14 DEF F!NameAnswered, F!RestoreAnswered, F!StartAnswered, F!PostFails
  <2> QED
    BY <1>0, <1>1, <2>1 DEF Undone, Sheeted
<1>15. CASE \/ \E p \in F!Places : F!Read(p) \/ F!Listed(p) \/ F!ListFails(p)
            \/ F!show \/ F!Leave \/ F!startSelect \/ F!selectAll \/ F!Refresh \/ F!Cancel
            \/ \E n \in Names : F!toggle(n)
            \/ F!type \/ F!searchDue \/ F!Found \/ F!endSearch \/ F!dismiss \/ F!clipClear \/ F!SomeTask
  <2>1. UNCHANGED <<flows, undo>> /\ clip' \in {clip, None} /\ sheet' \in {sheet, None}
    BY <1>15 DEF F!Read, F!Listed, F!ListFails, F!show, F!Leave, F!startSelect, F!selectAll, F!Refresh, F!Cancel,
                 F!toggle, F!type, F!searchDue, F!Found, F!endSearch, F!dismiss, F!clipClear, F!SomeTask,
                 F!TaskEnds, F!taskEnded, F!Page
  <2> QED
    BY <1>0, <1>1, <2>1 DEF Undone, Sheeted
<1> QED
  BY <1>2, <1>3, <1>5, <1>6, <1>7, <1>8, <1>9, <1>10, <1>11, <1>12, <1>13, <1>14, <1>15 DEF F!Next, F!SomeFlow

LEMMA FolderTallies == ASSUME FolderInv, F!Next PROVE Tallied'
<1>0. hasty \in BOOLEAN /\ acts \in 0..WantedHere[hasty] /\ trouble \in 0..MaxTrouble /\ WantedHere[hasty] \in Nat /\ MaxTrouble \in Nat
  BY FolderConstants DEF FolderInv, Tallied
<1>1. UNCHANGED hasty
  BY DEF F!Next
<1>2. acts' = acts \/ (acts < WantedHere[hasty] /\ acts' = acts + 1)
  BY DEF F!Next, F!Read, F!Listed, F!ListFails, F!show, F!Leave, F!startSelect, F!selectAll, F!Refresh, F!Cancel,
         F!toggle, F!type, F!searchDue, F!Found, F!endSearch, F!selectionSheet, F!itemSheet, F!dismiss, F!cut, F!clipClear,
         F!trash, F!rename, F!newFolder, F!restore, F!paste, F!clashAnswered, F!SomeFlow, F!SomeTask, F!PostFails,
         F!Post, F!TrashAnswered, F!NameAnswered, F!RestoreAnswered, F!ReplaceAnswered, F!StartAnswered,
         F!TaskEnds, F!taskEnded, F!Page, F!Act
<1>3. trouble' = trouble \/ (trouble < MaxTrouble /\ trouble' = trouble + 1)
  BY DEF F!Next, F!Read, F!Listed, F!ListFails, F!show, F!Leave, F!startSelect, F!selectAll, F!Refresh, F!Cancel,
         F!toggle, F!type, F!searchDue, F!Found, F!endSearch, F!selectionSheet, F!itemSheet, F!dismiss, F!cut, F!clipClear,
         F!trash, F!rename, F!newFolder, F!restore, F!paste, F!clashAnswered, F!SomeFlow, F!SomeTask, F!PostFails,
         F!Post, F!TrashAnswered, F!NameAnswered, F!RestoreAnswered, F!ReplaceAnswered, F!StartAnswered,
         F!TaskEnds, F!taskEnded, F!Page
<1>4. acts' \in 0..WantedHere[hasty]
  BY <1>0, <1>2
<1>5. trouble' \in 0..MaxTrouble
  BY <1>0, <1>3
<1> QED
  BY <1>0, <1>1, <1>4, <1>5 DEF Tallied

\* The search.
LEMMA FolderSearches == ASSUME FolderInv, F!Next PROVE Searched'
<1>0. /\ query # None => query \in Nat \ {0}
      /\ ~hasty /\ query = None => ~searchTimer /\ searches = {} /\ found = None
      /\ ~hasty /\ query # None => searches \subseteq 1..query /\ (found # None => found \in 1..query)
  BY DEF FolderInv, Searched
<1>1. hasty' = hasty
  BY DEF F!Next
<1>2. CASE F!type
  <2>1. query' = (IF query = None THEN 1 ELSE query + 1) /\ UNCHANGED <<found, searches>>
    BY <1>2 DEF F!type
  <2>2. query' \in Nat \ {0} /\ query' # None
    BY <1>0, <2>1, FolderConstants
  <2>3. ~hasty => searches' \subseteq 1..query' /\ (found' # None => found' \in 1..query')
    <3>1. CASE query = None
      BY <1>0, <2>1, <3>1
    <3>2. CASE query # None
      <4>1. 1..query \subseteq 1..query'
        BY <1>0, <2>1, <3>2
      <4> QED
        BY <1>0, <2>1, <3>2, <4>1
    <3> QED
      BY <3>1, <3>2
  <2> QED
    BY <1>1, <2>2, <2>3 DEF Searched
<1>3. CASE F!searchDue
  <2>1. searchTimer /\ searchTimer' = FALSE /\ searches' = searches \cup {query} /\ UNCHANGED <<query, found>>
    BY <1>3 DEF F!searchDue
  <2>2. query # None => query \in 1..query
    BY <1>0
  <2> QED
    BY <1>0, <1>1, <2>1, <2>2 DEF Searched
<1>4. CASE F!Found
  <2>1. PICK q \in searches : searches' = searches \ {q} /\ found' = q
    BY <1>4 DEF F!Found
  <2>2. UNCHANGED <<query, searchTimer>>
    BY <1>4 DEF F!Found
  <2> QED
    BY <1>0, <1>1, <2>1, <2>2 DEF Searched
<1>5. CASE F!endSearch \/ F!Leave
  <2>1. query' = None /\ found' = None /\ (~hasty => ~searchTimer' /\ searches' = {})
    BY <1>5 DEF F!endSearch, F!Leave, F!Calm
  <2> QED
    BY <1>1, <2>1 DEF Searched
<1>6. CASE UNCHANGED F!search
  BY <1>0, <1>1, <1>6 DEF F!search, Searched
<1>7. CASE \/ \E p \in F!Places : F!Read(p) \/ F!Listed(p) \/ F!ListFails(p)
           \/ F!show \/ F!startSelect \/ F!selectAll \/ F!Refresh \/ F!Cancel \/ \E n \in Names : F!toggle(n)
           \/ F!selectionSheet \/ F!itemSheet \/ F!dismiss \/ F!cut \/ F!clipClear
           \/ F!trash \/ F!rename \/ F!newFolder \/ F!restore \/ F!paste \/ F!clashAnswered
           \/ F!SomeFlow \/ (\E f \in flows : F!PostFails(f)) \/ F!SomeTask
  <2>1. UNCHANGED F!search
    BY <1>7 DEF F!Read, F!Listed, F!ListFails, F!show, F!startSelect, F!selectAll, F!Refresh, F!Cancel,
         F!toggle, F!selectionSheet, F!itemSheet, F!dismiss, F!cut, F!clipClear,
         F!trash, F!rename, F!newFolder, F!restore, F!paste, F!clashAnswered, F!SomeFlow, F!SomeTask, F!PostFails,
         F!Post, F!TrashAnswered, F!NameAnswered, F!RestoreAnswered, F!ReplaceAnswered, F!StartAnswered,
         F!TaskEnds, F!taskEnded
  <2> QED
    BY <1>6, <2>1
<1> QED
  BY <1>2, <1>3, <1>4, <1>5, <1>7 DEF F!Next

\* One thing at a time.
LEMMA OnesStay ==
  ASSUME FolderInv, ~hasty, UNCHANGED <<disk, tasks, flows>>, sheet' \in {sheet, None} \/ (flows = {} /\ tasks = {})
  PROVE  OneByOne'
BY DEF FolderInv, OneByOne

LEMMA OneBegins ==
  ASSUME FolderInv, tasks = {}, UNCHANGED <<disk, tasks>>, sheet' = None, NEW f, flows' = {f},
         f.what \notin {"start", "replace"} \/ (f.what = "start" /\ f.names = {}) \/ (f.what = "replace" /\ ~f.done)
  PROVE  OneByOne'
BY DEF OneByOne

LEMMA OneEnds ==
  ASSUME FolderInv, flows' = {}, tasks' = tasks, sheet' = sheet, sheet = None \/ tasks = {}
  PROVE  OneByOne'
BY DEF OneByOne

LEMMA FolderGoesOnByOne == ASSUME FolderInv, F!Next PROVE OneByOne'
<1> SUFFICES ASSUME ~hasty' PROVE OneByOne'
  BY DEF OneByOne
<1>0. ~hasty
  BY DEF F!Next
<1>1. /\ flows = {} \/ (sheet = None /\ \E f \in flows : flows = {f})
      /\ sheet # None => tasks = {} /\ flows = {}
      /\ \A f \in flows :
           /\ flows = {f} /\ sheet = None
           /\ (f.what = "start" /\ ~f.done) \/ (f.what = "replace" /\ f.done) => f.names \cap disk[f.place] = {}
           /\ ~(f.what = "start" /\ f.done) => tasks = {}
  BY <1>0 DEF FolderInv, OneByOne
<1>2. ASSUME F!Calm PROVE flows = {} /\ tasks = {}
  BY <1>0, <1>2 DEF F!Calm
<1>3. CASE \/ \E p \in F!Places : F!Read(p) \/ F!Listed(p) \/ F!ListFails(p)
           \/ F!show \/ F!Leave \/ F!startSelect \/ F!selectAll \/ F!Refresh \/ F!Cancel \/ \E n \in Names : F!toggle(n)
           \/ F!type \/ F!searchDue \/ F!Found \/ F!endSearch \/ F!dismiss \/ F!cut \/ F!clipClear
  <2>1. UNCHANGED <<disk, tasks, flows>> /\ sheet' \in {sheet, None}
    BY <1>3 DEF F!Read, F!Listed, F!ListFails, F!show, F!Leave, F!startSelect, F!selectAll, F!Refresh, F!Cancel,
         F!toggle, F!type, F!searchDue, F!Found, F!endSearch, F!dismiss, F!cut, F!clipClear, F!Page, F!fnos
  <2> QED
    BY <1>0, <2>1, OnesStay
<1>4. CASE F!selectionSheet \/ F!itemSheet
  <2>1. UNCHANGED <<disk, tasks, flows>> /\ F!Calm
    BY <1>4 DEF F!selectionSheet, F!itemSheet, F!Page, F!fnos, F!Act
  <2> QED
    BY <1>0, <1>2, <2>1, OnesStay
<1>5. ASSUME NEW w \in {"trash", "rename", "mkdir", "restore", "replace", "start"}, NEW n, NEW c,
             F!run(F!Flow(w, n, c)), flows = {}, tasks = {}, sheet' = None, UNCHANGED <<disk, tasks>>,
             w = "start" => n = {}
      PROVE  OneByOne'
  <2>1. PICK f : f = F!Flow(w, n, c)
    OBVIOUS
  <2>2. f.what = w /\ f.names = n /\ f.done = FALSE
    BY <2>1 DEF F!Flow
  <2>3. flows' = {f}
    BY <1>5, <2>1 DEF F!run
  <2> QED
    BY <1>5, <2>2, <2>3, OneBegins
<1>6. CASE F!trash
  <2>1. F!run(F!Flow("trash", sheet.names, None)) /\ sheet # None /\ sheet' = None /\ UNCHANGED <<disk, tasks>>
    BY <1>6 DEF F!trash, F!fnos
  <2> QED
    BY <1>1, <1>5, <2>1
<1>7. CASE F!rename
  <2>1. F!run(F!Flow("rename", sheet.names, None)) /\ sheet # None /\ sheet' = None /\ UNCHANGED <<disk, tasks>>
    BY <1>7 DEF F!rename, F!fnos
  <2> QED
    BY <1>1, <1>5, <2>1
<1>8. CASE F!newFolder
  <2>1. F!run(F!Flow("mkdir", {}, None)) /\ sheet = None /\ sheet' = sheet /\ UNCHANGED <<disk, tasks>> /\ F!Calm
    BY <1>8 DEF F!newFolder, F!fnos, F!Act
  <2> QED
    BY <1>2, <1>5, <2>1
<1>9. CASE F!restore
  <2>1. /\ F!Calm /\ sheet = None /\ sheet' = sheet /\ UNCHANGED <<disk, tasks>>
        /\ flows' = flows \cup {[F!Flow("restore", undo.names, None) EXCEPT !.place = undo.place]}
    BY <1>0, <1>9 DEF F!restore, F!fnos, F!run
  <2>2. PICK f : f = [F!Flow("restore", undo.names, None) EXCEPT !.place = undo.place]
    OBVIOUS
  <2>3. f.what = "restore"
    BY <2>2 DEF F!Flow
  <2>4. flows' = {f} /\ tasks = {}
    BY <1>2, <2>1, <2>2
  <2> QED
    BY <2>1, <2>3, <2>4, OneBegins
<1>10. CASE F!paste
  <2>1. F!Calm /\ sheet = None /\ UNCHANGED <<disk, tasks>>
    BY <1>10 DEF F!paste, F!Act, F!fnos
  <2>2. UNCHANGED flows \/ (sheet' = sheet /\ F!run(F!Flow("start", {}, clip)))
    BY <1>10 DEF F!paste
  <2>3. CASE UNCHANGED flows
    BY <1>0, <1>2, <2>1, <2>3, OnesStay
  <2>4. CASE sheet' = sheet /\ F!run(F!Flow("start", {}, clip))
    BY <1>2, <1>5, <2>1, <2>4
  <2> QED
    BY <2>2, <2>3, <2>4
<1>11. CASE F!clashAnswered
  <2>1. /\ sheet # None /\ sheet' = None /\ UNCHANGED <<disk, tasks>>
        /\ F!run(F!Flow("start", {}, sheet.c)) \/ F!run(F!Flow("replace", sheet.names, sheet.c))
    BY <1>11 DEF F!clashAnswered, F!fnos
  <2>2. CASE F!run(F!Flow("start", {}, sheet.c))
    BY <1>1, <1>5, <2>1, <2>2
  <2>3. CASE F!run(F!Flow("replace", sheet.names, sheet.c))
    BY <1>1, <1>5, <2>1, <2>3
  <2> QED
    BY <2>1, <2>2, <2>3
<1>12. ASSUME NEW f \in flows, F!Post(f) PROVE OneByOne'
  <2>1. PICK g : g = [f EXCEPT !.done = TRUE]
    OBVIOUS
  <2>2. /\ f \in Doings /\ flows = {f} /\ sheet = None /\ sheet' = sheet
        /\ ~f.done /\ tasks = {} /\ flows' = {g}
    BY <1>1, <1>12, <2>1 DEF F!Post, FolderInv, Wishes
  <2>3. g.what = f.what /\ g.names = f.names /\ g.place = f.place /\ g.done = TRUE
    BY <2>1, <2>2 DEF Doings
  <2>4. f.what = "replace" => f.names \cap disk'[f.place] = {}
    <3> SUFFICES ASSUME f.what = "replace" PROVE f.names \cap disk'[f.place] = {}
      OBVIOUS
    <3>1. disk' = [disk EXCEPT ![f.place] = @ \ f.names]
      BY <1>12 DEF F!Post
    <3>2. f.place \in F!Places /\ disk \in [F!Places -> SUBSET Names]
      BY <2>2 DEF Doings, FolderInv, Stored
    <3> QED
      BY <3>1, <3>2
  <2>5. f.what # "start" => tasks' = {}
    BY <1>12, <2>2 DEF F!Post, Doings
  <2> QED
    BY <2>2, <2>3, <2>4, <2>5 DEF OneByOne
<1>13. ASSUME NEW f \in flows, F!TrashAnswered(f) \/ F!NameAnswered(f) \/ F!RestoreAnswered(f) \/ F!StartAnswered(f)
                               \/ F!PostFails(f)
       PROVE  OneByOne'
  <2>1. flows' = flows \ {f} /\ tasks' = tasks /\ sheet' = sheet
    BY <1>13 DEF F!TrashAnswered, F!NameAnswered, F!RestoreAnswered, F!StartAnswered, F!PostFails, F!fnos
  <2> QED
    BY <1>1, <2>1, OneEnds
<1>14. ASSUME NEW f \in flows, F!ReplaceAnswered(f) PROVE OneByOne'
  <2>1. /\ f.what = "replace" /\ f.done /\ UNCHANGED <<disk, tasks, sheet>>
        /\ flows' = (flows \ {f}) \cup {[f EXCEPT !.what = "start", !.done = FALSE]}
    BY <1>14 DEF F!ReplaceAnswered, F!fnos
  <2>2. PICK g : g = [f EXCEPT !.what = "start", !.done = FALSE]
    OBVIOUS
  <2>3. f \in Doings /\ flows = {f} /\ sheet = None /\ tasks = {} /\ f.names \cap disk[f.place] = {}
    BY <1>1, <2>1 DEF FolderInv, Wishes
  <2>4. g.names = f.names /\ g.place = f.place
    BY <2>2, <2>3 DEF Doings
  <2>5. flows' = {g}
    BY <2>1, <2>2, <2>3
  <2> QED
    BY <2>1, <2>3, <2>4, <2>5 DEF OneByOne
<1>15. ASSUME NEW k \in tasks, F!TaskEnds(k) \/ F!taskEnded(k) PROVE OneByOne'
  <2>1. UNCHANGED <<flows, sheet>>
    BY <1>15 DEF F!TaskEnds, F!taskEnded
  <2>2. tasks # {} /\ sheet = None /\ \A f \in flows : f.what = "start" /\ f.done
    BY <1>1
  <2> QED
    BY <1>1, <2>1, <2>2 DEF OneByOne
<1> QED
  BY <1>3, <1>4, <1>6, <1>7, <1>8, <1>9, <1>10, <1>11, <1>12, <1>13, <1>14, <1>15
     DEF F!Next, F!SomeFlow, F!SomeTask

LEMMA FolderKeeps ==
  ASSUME FolderInv, [F!Next]_(F!vars)
  PROVE  FolderInv'
<1>1. CASE F!Next
  BY <1>1, FolderLists, FolderStores, FolderDocks, FolderWishes, FolderTallies, FolderSearches, FolderGoesOnByOne
     DEF FolderInv
<1>2. CASE UNCHANGED F!vars
  <2>1. UNCHANGED <<hasty, disk, tasks, acts, trouble, list, status, req, at, shown, selecting, chosen,
                    query, found, searchTimer, searches, clip, sheet, flows, undo, above, instead>>
    BY <1>2 DEF F!vars, F!state, F!fnos, F!cache, F!page, F!search, F!dock
  <2>2. Stored' /\ Listings' /\ Docked'
    BY <2>1 DEF FolderInv, Stored, Listings, Docked
  <2>3. Wishes' /\ Tallied' /\ Searched' /\ OneByOne'
    BY <2>1 DEF FolderInv, Wishes, Tallied, Searched, OneByOne
  <2> QED
    BY <2>2, <2>3 DEF FolderInv
<1> QED
  BY <1>1, <1>2

-----------------------------------------------------------------------------
\* One scene at work: a step is a step of it, and the scene stays.

LEMMA OneScene ==
  ASSUME [Next]_all
  PROVE  /\ scene' = scene
         /\ scene = "folder" => [F!Next]_(F!vars)
         /\ scene = "tasks" => [T!Next]_(T!vars)
         /\ scene = "session" => [S!Next]_(S!vars)
         /\ scene = "page" => [G!Next]_(G!vars)
         /\ scene = "layers" => [L!Next]_(L!vars)
         /\ scene = "center" => [C!Next]_(C!vars)
         /\ scene = "viewer" => [V!Next]_(V!vars)
         /\ scene = "player" => [P!Next]_(P!vars)
         /\ scene = "keys" => [W!Next]_(W!vars)
<1>1. CASE UNCHANGED all
  <2>1. UNCHANGED <<scene, tasks, acts, trouble, status, req, flows, timer, missed, puts, finger,
                    stack, opened, lost>>
    BY <1>1 DEF all
  <2>2. UNCHANGED <<ofF, ofT, ofS, ofG, ofL, ofC, ofV, ofP, ofW>>
    BY <1>1 DEF all
  <2>3. UNCHANGED F!vars
    BY <2>1, <2>2 DEF ofF, F!vars, F!state, F!fnos, F!cache, F!page, F!search, F!dock
  <2>4. UNCHANGED T!vars
    BY <2>1, <2>2 DEF ofT, T!vars
  <2>5. UNCHANGED S!vars
    BY <2>1, <2>2 DEF ofS, S!vars, S!state
  <2>6. UNCHANGED G!vars
    BY <2>1, <2>2 DEF ofG, G!vars, G!res, G!page
  <2>7. UNCHANGED L!vars
    BY <2>1, <2>2 DEF ofL, L!vars, L!layers, L!keys, L!nav, L!toasts
  <2>8. UNCHANGED C!vars
    BY <2>1, <2>2 DEF ofC, C!vars, C!plates, C!fingers, C!switches, C!answers, C!slider
  <2>9. UNCHANGED V!vars
    BY <2>1, <2>2 DEF ofV, V!vars, V!bar, V!native
  <2>10. UNCHANGED P!vars
    BY <2>1, <2>2 DEF ofP, P!vars, P!state, P!procs, P!bounds
  <2>11. UNCHANGED W!vars
    BY <2>1, <2>2 DEF ofW, W!vars
  <2> QED
    BY <2>1, <2>3, <2>4, <2>5, <2>6, <2>7, <2>8, <2>9, <2>10, <2>11
<1>2. CASE Next
  BY <1>2 DEF Next
<1> QED
  BY <1>1, <1>2

\* Nobody finds anything of whoever was signed in before, for any number of persons, sign-ins,
\* restarts and failed reads, where nobody signs in or out while answers are out, and nothing is
\* read while another is signed in than the account page says (session.js, files/cache.js).
THEOREM NextSeesNoneHolds ==
  ASSUME ~Late
  PROVE  Spec => []NextSeesNone
<1> DEFINE J == scene = "session" => SessionInv
<1>1. Init => J
  <2> SUFFICES ASSUME Init, scene = "session" PROVE SessionInv
    OBVIOUS
  <2> QED
    BY SessionBegins DEF Init
<1>2. J /\ [Next]_all => J'
  <2> SUFFICES ASSUME J, [Next]_all, scene' = "session" PROVE SessionInv'
    OBVIOUS
  <2> QED
    BY OneScene, SessionKeeps
<1>3. J => NextSeesNone
  BY SessionSays DEF NextSeesNone
<1> QED
  BY <1>1, <1>2, <1>3, PTL DEF Spec

\* What the bars say is what there is, for any number of names, tasks, polls and acts: the
\* dock follows the folder page and the clipboard (Folder), the chip the tasks that run, the end
\* of each said once at most (Tasks), and a page's status tells whether there is something to
\* show, where nothing comes between a finger's lift and the paint that waited for it (Pages).
THEOREM BarsTellHolds ==
  ASSUME ~LateFlush
  PROVE  Spec => []BarsTell
<1> DEFINE J == /\ scene = "folder" => FolderInv
                /\ scene = "tasks" => TasksInv
                /\ scene = "page" => PageInv
<1>1. Init => J
  <2> SUFFICES ASSUME Init PROVE J
    OBVIOUS
  <2>1. ASSUME scene = "folder" PROVE FolderInv
    BY <2>1, FolderBegins DEF Init
  <2>2. ASSUME scene = "tasks" PROVE TasksInv
    BY <2>2, TasksBegin DEF Init
  <2>3. ASSUME scene = "page" PROVE PageInv
    BY <2>3, PageBegins DEF Init
  <2> QED
    BY <2>1, <2>2, <2>3
<1>2. J /\ [Next]_all => J'
  <2> SUFFICES ASSUME J, [Next]_all PROVE J'
    OBVIOUS
  <2>0. scene' = scene
    BY OneScene
  <2>1. ASSUME scene = "folder" PROVE FolderInv'
    BY <2>1, OneScene, FolderKeeps
  <2>2. ASSUME scene = "tasks" PROVE TasksInv'
    BY <2>2, OneScene, TasksKeep
  <2>3. ASSUME scene = "page" PROVE PageInv'
    BY <2>3, OneScene, PageKeeps DEF Cares
  <2> QED
    BY <2>0, <2>1, <2>2, <2>3
<1>3. J => BarsTell
  BY FolderSays, TasksSay, PageSays DEF BarsTell
<1> QED
  BY <1>1, <1>2, <1>3, PTL DEF Spec

\* The shell keeps its word for any number of layers, taps, viewers, sheets, players and keys:
\* what lies over a page is what somebody waits for, the control center is one plate at most,
\* the native preview is over the page just while its viewer is, the screen is held under a
\* video, and the keys that wake reach nobody else; where no dialog is cancelled while its check
\* runs nor pressed while it leaves, nobody taps while an earlier tap on the preview is under way
\* nor uses the Menu key with a finger on the plate, and no player's try at its socket outlives it.
THEOREM ShellSoundHolds ==
  ASSUME ~Hasty, ~Both, ~Strays
  PROVE  Spec => []ShellSound
<1> DEFINE J == /\ scene = "layers" => LayersInv
                /\ scene = "center" => CenterInv
                /\ scene = "viewer" => ViewerInv
                /\ scene = "player" => PlayerInv
                /\ scene = "keys" => KeysInv
<1>1. Init => J
  <2> SUFFICES ASSUME Init PROVE J
    OBVIOUS
  <2>1. ASSUME scene = "layers" PROVE LayersInv
    BY <2>1, LayersBegin DEF Init
  <2>2. ASSUME scene = "center" PROVE CenterInv
    BY <2>2, CenterBegins DEF Init
  <2>3. ASSUME scene = "viewer" PROVE ViewerInv
    BY <2>3, ViewerBegins DEF Init
  <2>4. ASSUME scene = "player" PROVE PlayerInv
    BY <2>4, PlayerBegins DEF Init
  <2>5. ASSUME scene = "keys" PROVE KeysInv
    BY <2>5, KeysBegin DEF Init
  <2> QED
    BY <2>1, <2>2, <2>3, <2>4, <2>5
<1>2. J /\ [Next]_all => J'
  <2> SUFFICES ASSUME J, [Next]_all PROVE J'
    OBVIOUS
  <2>0. scene' = scene
    BY OneScene
  <2>1. ASSUME scene = "layers" PROVE LayersInv'
    BY <2>1, OneScene, LayersKeep
  <2>2. ASSUME scene = "center" PROVE CenterInv'
    BY <2>2, OneScene, CenterKeeps
  <2>3. ASSUME scene = "viewer" PROVE ViewerInv'
    BY <2>3, OneScene, ViewerKeeps
  <2>4. ASSUME scene = "player" PROVE PlayerInv'
    BY <2>4, OneScene, PlayerKeeps
  <2>5. ASSUME scene = "keys" PROVE KeysInv'
    BY <2>5, OneScene, KeysKeep
  <2> QED
    BY <2>0, <2>1, <2>2, <2>3, <2>4, <2>5
<1>3. J => ShellSound
  BY LayersSay, CenterSays, ViewerSays, PlayerSays, KeysSay DEF ShellSound
<1> QED
  BY <1>1, <1>2, <1>3, PTL DEF Spec

\* First things first, for any folders, names, conflicts and switches: the task that brings a
\* new file starts only when the name it replaces is free (actions.js), and no switch takes the
\* connection in use before its question was answered (control-center.js, flip), where the
\* Menu key is not used with a finger on the plate.
THEOREM FirstThingsAreFirst ==
  ASSUME ~Both
  PROVE  Spec => FirstThingsFirst
<1> DEFINE J == (scene = "folder" => FolderInv) /\ (scene = "center" => CenterInv)
           A == /\ scene = "folder" => F!ReplaceMakesRoom
                /\ scene = "center" => C!AskedFirst
<1>1. Init => J
  <2> SUFFICES ASSUME Init PROVE J
    OBVIOUS
  <2>1. ASSUME scene = "folder" PROVE FolderInv
    BY <2>1, FolderBegins DEF Init
  <2>2. ASSUME scene = "center" PROVE CenterInv
    BY <2>2, CenterBegins DEF Init
  <2> QED
    BY <2>1, <2>2
<1>2. J /\ [Next]_all => J' /\ A
  <2> SUFFICES ASSUME J, [Next]_all PROVE J' /\ A
    OBVIOUS
  <2>0. scene' = scene
    BY OneScene
  <2>1. ASSUME scene = "folder" PROVE FolderInv' /\ F!ReplaceMakesRoom
    BY <2>1, OneScene, FolderKeeps, MakesRoom
  <2>2. ASSUME scene = "center" PROVE CenterInv' /\ C!AskedFirst
    BY <2>2, OneScene, CenterKeeps
  <2> QED
    BY <2>0, <2>1, <2>2
<1>3. J /\ [Next]_all => [A]_all
  BY <1>2
<1> QED
  BY <1>1, <1>2, <1>3, PTL DEF Spec, FirstThingsFirst

\* A settings page with data is never blank again, and nothing is painted under a finger, for
\* any number of answers, failures, holds and taps, where nothing comes between the finger's lift
\* and the paint that waited for it (dom.js).
THEOREM PaintsWithCareAlways ==
  ASSUME ~LateFlush
  PROVE  Spec => PaintsWithCare
<1> DEFINE J == scene = "page" => PageInv
           A == scene = "page" => G!PaintedWithCare
<1>1. Init => J
  <2> SUFFICES ASSUME Init, scene = "page" PROVE PageInv
    OBVIOUS
  <2> QED
    BY PageBegins DEF Init
<1>2. J /\ [Next]_all => J' /\ A
  <2> SUFFICES ASSUME J, [Next]_all PROVE J' /\ A
    OBVIOUS
  <2>0. scene' = scene
    BY OneScene
  <2>1. ASSUME scene = "page" PROVE PageInv' /\ G!PaintedWithCare
    BY <2>1, OneScene, PageKeeps DEF Cares
  <2> QED
    BY <2>0, <2>1
<1>3. J /\ [Next]_all => [A]_all
  BY <1>2
<1> QED
  BY <1>1, <1>2, <1>3, PTL DEF Spec, PaintsWithCare
=============================================================================
