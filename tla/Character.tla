----------------------------- MODULE Character -----------------------------
(***************************************************************************)
(* The Character of game/main.cpp on a CharacterServiceGrpc: the game      *)
(* starts coroutines (Init, EarnXp, Reincarnate), each a sequence of       *)
(* remote calls (game/character_service_grpc.cpp) that a VariableService   *)
(* executes one at a time.  Coroutines of one character overlap when its   *)
(* calls take longer than the game takes to start the next one.            *)
(*                                                                         *)
(* A remote call is made through AutoRetryUnary: an attempt that ends      *)
(* UNAVAILABLE is made again, whether or not the server got it, and may    *)
(* reach the server later than the attempts that follow it.                *)
(***************************************************************************)
EXTENDS Integers, FiniteSets

CONSTANTS
  Calls,        \* the coroutines the game may start
  Amount,       \* the xp given by GiveXp (100)
  Threshold,    \* the xp at which the character levels up (1000)
  Overlap,      \* whether a coroutine may start before the others ended
  Faults,       \* whether remote calls may fail
  MaxRetries,   \* the retries of DefaultRetryPolicy (5)
  MaxLate,      \* bound: requests that are on their way, given up by the client
  Absent        \* what the storage holds under a key that is not in it

ASSUME CallsAssumption  == IsFiniteSet(Calls)
ASSUME AmountAssumption == Amount \in Nat \ {0} /\ Threshold \in Nat
ASSUME AbsentAssumption == Absent \notin Int
ASSUME FlagsAssumption  == Overlap \in BOOLEAN /\ Faults \in BOOLEAN
ASSUME RetryAssumption  == MaxRetries \in Nat /\ MaxLate \in Nat

VARIABLES
  state,    \* Character::m_state
  pc,       \* what each coroutine does next
  local,    \* cur_xp or cur_level of the coroutine
  tries,    \* m_retryCount of its remote call
  store,    \* VariableServiceImpl::m_storage
  late,     \* requests that will reach the server though the client gave up
  alone     \* history: the call that has had the player to itself, and no failure,
            \* since it began, with the player as it was then; none, or one

vars == <<state, pc, local, tries, store, late, alone>>

States == {"Uninit", "Initializing", "Idle", "Fighting"}

Keys == {"level", "xp"}

InitSteps   == {"get_level", "get_xp", "init_return"}
GiveSteps   == {"give_read", "give_write", "give_return"}
LevelSteps  == {"up_read", "up_write", "up_zero", "up_return"}
ResetSteps  == {"del_level", "del_xp", "reset_return"}

\* A coroutine that has ended: what it was is read from where it ended.
Ends == {"inited", "given", "leveled", "reset"}

Steps == {"unborn"} \cup InitSteps \cup GiveSteps \cup LevelSteps \cup ResetSteps \cup Ends

\* A request that changes the storage; erasing a key makes it Absent.
Request == [key : Keys, value : Int \cup {Absent}]

TypeOK ==
  /\ state \in States
  /\ pc \in [Calls -> Steps]
  /\ local \in [Calls -> Int]
  /\ tries \in [Calls -> 0..MaxRetries]
  /\ store \in [Keys -> Int \cup {Absent}]
  /\ late \subseteq Request

Init ==
  /\ state = "Uninit"
  /\ pc = [c \in Calls |-> "unborn"]
  /\ local = [c \in Calls |-> 0]
  /\ tries = [c \in Calls |-> 0]
  /\ store = [k \in Keys |-> Absent]
  /\ late = {}
  /\ alone = {}

-----------------------------------------------------------------------------
(* The storage. *)

\* The default of a player that is not stored: level 1, 0 xp.
Default(k) == IF k = "level" THEN 1 ELSE 0

Value(k) == IF store[k] = Absent THEN Default(k) ELSE store[k]

Player == [level |-> Value("level"), xp |-> Value("xp")]

\* Mutant: a write adds to what is stored.
AddTo(r) ==
  [store EXCEPT ![r.key] = IF r.value = Absent THEN Absent ELSE Value(r.key) + r.value]

\* WriteImpl: insert_or_assign; DelImpl: erase.
Applied(r) == [store EXCEPT ![r.key] = r.value]

-----------------------------------------------------------------------------
(* The remote calls. *)

ReadKey == [get_level |-> "level", get_xp |-> "xp", give_read |-> "xp", up_read |-> "level"]

\* Mutant: GiveXp writes the amount, whatever the player had.
GivenAmount(c) == Amount

\* The xp that GiveXp writes.
GivenXp(c) == local[c] + Amount

\* The requests of GiveXp, LevelUp and Reset that change the storage.
Requests(c) ==
  [give_write |-> [key |-> "xp", value |-> GivenXp(c)],
   up_write   |-> [key |-> "level", value |-> local[c] + 1],
   up_zero    |-> [key |-> "xp", value |-> 0],
   del_level  |-> [key |-> "level", value |-> Absent],
   del_xp     |-> [key |-> "xp", value |-> Absent]]

Reads  == DOMAIN ReadKey
Writes == {"give_write", "up_write", "up_zero", "del_level", "del_xp"}

RequestOf(c) == Requests(c)[pc[c]]

\* The order of the remote calls of GetPlayer, GiveXp, LevelUp and Reset.
After ==
  [get_level |-> "get_xp", get_xp |-> "init_return",
   give_read |-> "give_write", give_write |-> "give_return",
   up_read |-> "up_write", up_write |-> "up_zero", up_zero |-> "up_return",
   del_level |-> "del_xp", del_xp |-> "reset_return"]

\* The remote call of c is over, and c goes on.
Advance(c) ==
  /\ pc' = [pc EXCEPT ![c] = After[pc[c]]]
  /\ tries' = [tries EXCEPT ![c] = 0]

\* Mutant: a key that is not found is not given its default.
FoundOnly(c) == store[ReadKey[pc[c]]]

\* What Read returns to its caller, the default included.
Found(c) == Value(ReadKey[pc[c]])

\* Read is answered, with a value or with NOT_FOUND.
ReadAnswered(c) ==
  /\ pc[c] \in Reads
  /\ local' = [local EXCEPT ![c] = Found(c)]
  /\ Advance(c)
  /\ UNCHANGED <<state, store, late, alone>>

\* Read fails for good: the caller takes the default.
ReadFailed(c) ==
  /\ Faults /\ pc[c] \in Reads
  /\ local' = [local EXCEPT ![c] = Default(ReadKey[pc[c]])]
  /\ Advance(c)
  /\ alone' = {}
  /\ UNCHANGED <<state, store, late>>

\* Write or Del is answered.
WriteAnswered(c) ==
  /\ pc[c] \in Writes
  /\ store' = Applied(RequestOf(c))
  /\ Advance(c)
  /\ UNCHANGED <<state, local, late, alone>>

\* What becomes of the request of an attempt that failed: the server got it,
\* never gets it, or gets it later.
Undelivered(c) ==
  \/ store' = Applied(RequestOf(c)) /\ UNCHANGED late
  \/ UNCHANGED <<store, late>>
  \/ /\ Cardinality(late) < MaxLate
     /\ late' = late \cup {RequestOf(c)}
     /\ UNCHANGED store

\* Write or Del fails for good: nobody looks at what it returns.
WriteFailed(c) ==
  /\ Faults /\ pc[c] \in Writes
  /\ Undelivered(c)
  /\ Advance(c)
  /\ alone' = {}
  /\ UNCHANGED <<state, local>>

\* Mutant: the policy does not count the retries.
CountNoRetry(c) == tries[c] < MaxRetries /\ UNCHANGED tries

\* DefaultRetryPolicy::operator().
CountRetry(c) == tries[c] < MaxRetries /\ tries' = [tries EXCEPT ![c] = @ + 1]

\* UNAVAILABLE: after a delay the same request is sent again.
Retry(c) ==
  /\ Faults /\ pc[c] \in Reads \cup Writes
  /\ CountRetry(c)
  /\ IF pc[c] \in Writes THEN Undelivered(c) ELSE UNCHANGED <<store, late>>
  /\ alone' = IF late' = {} THEN alone ELSE {}
  /\ UNCHANGED <<state, pc, local>>

\* The server executes a request the client had given up.
ServeLate(r) ==
  /\ r \in late
  /\ late' = late \ {r}
  /\ store' = Applied(r)
  /\ UNCHANGED <<state, pc, local, tries, alone>>

-----------------------------------------------------------------------------
(* The game's thread. *)

Ended(c)  == pc[c] \in Ends
InCall(c) == pc[c] # "unborn" /\ ~Ended(c)

\* A call of the service begins: nobody else is at the player, or somebody is.
Begins(c) ==
  alone' = IF late = {} /\ \A d \in Calls \ {c} : ~InCall(d)
             THEN {[call |-> c, before |-> Player]} ELSE {}

Start(c, step) ==
  /\ pc[c] = "unborn"
  /\ Overlap \/ \A d \in Calls : ~InCall(d)
  /\ pc' = [pc EXCEPT ![c] = step]
  /\ Begins(c)

Return(c, from, to) ==
  /\ pc[c] = from
  /\ pc' = [pc EXCEPT ![c] = to]
  /\ IF to \in Ends THEN alone' = {} ELSE Begins(c)
  /\ UNCHANGED <<local, tries, store, late>>

\* Mutant: the character is not made to wait for its player.
NotInitializing == state' = "Idle"

Initializing == state' = "Initializing"

\* Character::Update of a new character: Init is spawned.
StartInit(c) ==
  /\ state = "Uninit" /\ Start(c, "get_level")
  /\ Initializing
  /\ UNCHANGED <<local, tries, store, late>>

\* Init, once GetPlayer returned.
InitReturn(c) == Return(c, "init_return", "inited") /\ state' = "Idle"

\* Character::ProcessInput: "fight" and "rest".
Fight ==
  /\ state = "Idle" /\ state' = "Fighting"
  /\ UNCHANGED <<pc, local, tries, store, late, alone>>

Rest ==
  /\ state = "Fighting" /\ state' = "Idle"
  /\ UNCHANGED <<pc, local, tries, store, late, alone>>

\* Character::Update while fighting: each second, EarnXp is spawned.
EarnXp(c) ==
  /\ state = "Fighting" /\ Start(c, "give_read")
  /\ UNCHANGED <<state, local, tries, store, late>>

\* if (newXp >= 1000), of what GiveXp returns: cur_xp.
LevelsUp(c) == local[c] >= Threshold

\* EarnXp, once GiveXp returned.
GiveReturn(c) ==
  /\ Return(c, "give_return", IF LevelsUp(c) THEN "up_read" ELSE "given")
  /\ UNCHANGED state

\* EarnXp, once LevelUp returned.
UpReturn(c) == Return(c, "up_return", "leveled") /\ UNCHANGED state

\* ProcessInput: "reincarnate".
Reincarnate(c) ==
  /\ state = "Idle" /\ Start(c, "del_level")
  /\ UNCHANGED <<state, local, tries, store, late>>

\* Reincarnate, once Reset returned.
ResetReturn(c) == Return(c, "reset_return", "reset") /\ UNCHANGED state

-----------------------------------------------------------------------------

\* A coroutine that was started makes its next step.
Step(c) ==
  \/ ReadAnswered(c) \/ ReadFailed(c) \/ WriteAnswered(c) \/ WriteFailed(c)
  \/ Retry(c)
  \/ InitReturn(c) \/ GiveReturn(c) \/ UpReturn(c) \/ ResetReturn(c)

Next ==
  \/ Fight \/ Rest
  \/ \E c \in Calls : StartInit(c) \/ EarnXp(c) \/ Reincarnate(c) \/ Step(c)
  \/ \E r \in late : ServeLate(r)

Spec == Init /\ [][Next]_vars

\* Every remote call is answered, fails or times out, and the game's thread
\* resumes what the service handed back.
FairSpec == Spec /\ \A c \in Calls : WF_vars(Step(c))

-----------------------------------------------------------------------------
(* Properties. *)

Earners  == {c \in Calls : pc[c] \in GiveSteps \cup LevelSteps \cup {"given", "leveled"}}
Levelers == {c \in Calls : pc[c] \in LevelSteps \cup {"leveled"}}

(***************************************************************************)
(* However calls overlap, fail, are retried or arrive late, the stored     *)
(* player never has more xp or levels than GiveXp and LevelUp were called  *)
(* for: a repeated or late request is harmless upwards.                    *)
(***************************************************************************)
NothingForFree ==
  /\ Value("xp") <= Amount * Cardinality(Earners)
  /\ Value("level") <= 1 + Cardinality(Levelers)

(***************************************************************************)
(* The character earns xp, fights and reincarnates only once Init has got  *)
(* its player: no coroutine changes a player that was not read.            *)
(***************************************************************************)
InitFirst ==
  (\E c \in Calls : pc[c] \notin InitSteps \cup {"unborn", "inited"}) =>
    \E c \in Calls : pc[c] = "inited"

\* Every coroutine the game starts ends: retries are limited and no failure
\* leaves it waiting.
EveryCallEnds == \A c \in Calls : pc[c] # "unborn" ~> Ended(c)

CallsAt(steps) == {c \in Calls : pc[c] \in steps}

\* The player as the service in memory would have it: between the two requests of
\* LevelUp or of Reset, the second one counts as done.  A call returns cur_xp, or
\* cur_level.
Memory ==
  INSTANCE CharacterServiceMemory WITH
    Nothing  <- Absent,
    player   <- IF CallsAt({"up_zero", "del_xp"}) = {} THEN Player ELSE [Player EXCEPT !.xp = 0],
    returned <- [c \in Calls |->
                   IF pc[c] \in {"give_return", "up_zero", "up_return"} THEN local[c] ELSE Absent],
    given    <- CallsAt({"give_return", "given", "leveled"} \cup LevelSteps),
    leveled  <- CallsAt({"up_zero", "up_return", "leveled"}),
    reset    <- CallsAt({"del_xp", "reset_return", "reset"})

(***************************************************************************)
(* character_service.hpp: GiveXp "Returns the new ammount of xp", LevelUp  *)
(* "Returns the new level".  The service in memory does so; the calls of   *)
(* the other, when they neither overlap nor fail, are to do as it does.    *)
(***************************************************************************)
ImplementsMemory == Memory!Spec

(***************************************************************************)
(* A call that has the player to itself and is answered in the end does to *)
(* it what the service in memory does, once, however often its requests    *)
(* were sent and executed, and whatever went wrong before it began: what   *)
(* it has read is still stored when it writes, and no request of an        *)
(* earlier call comes after its own.                                       *)
(***************************************************************************)
LoneCallsExact ==
  \A a \in alone :
    /\ pc[a.call] = "give_return" =>
         Player = Memory!Rewarded(a.before) /\ local[a.call] = a.before.xp
    /\ pc[a.call] = "up_return" =>
         Player = Memory!LeveledUp(a.before) /\ local[a.call] = a.before.level
    /\ pc[a.call] = "reset_return" => Player = Memory!NewPlayer
    /\ pc[a.call] = "init_return" => Player = a.before

-----------------------------------------------------------------------------
(* Why they hold. *)

\* The calls that may have written the key upwards: a call that only read it has
\* written nothing.
Raisers(k) ==
  IF k = "xp"
    THEN CallsAt({"give_write", "give_return", "given", "leveled"} \cup LevelSteps)
    ELSE CallsAt({"up_write", "up_zero", "up_return", "leveled"})

Raise(k)   == IF k = "xp" THEN Amount ELSE 1
AtMost(k, n) == Default(k) + Raise(k) * n

\* What is stored, on its way, or about to be written is accounted for by them.
StoreBounded ==
  /\ \A k \in Keys : Value(k) <= AtMost(k, Cardinality(Raisers(k)))
  /\ \A r \in late : r.value # Absent => r.value <= AtMost(r.key, Cardinality(Raisers(r.key)))

LocalsBounded ==
  \A c \in Calls :
    /\ pc[c] = "give_write" => local[c] <= AtMost("xp", Cardinality(Raisers("xp") \ {c}))
    /\ pc[c] = "up_write" => local[c] <= AtMost("level", Cardinality(Raisers("level") \ {c}))

\* The inductive invariant of game/main.cpp's Character on the gRPC service.
CharacterInvariant ==
  /\ TypeOK /\ StoreBounded /\ LocalsBounded /\ InitFirst
  /\ state \in {"Idle", "Fighting"} => \E c \in Calls : pc[c] = "inited"

-----------------------------------------------------------------------------
(* Why a call is exact. *)

\* A lone call of GiveXp that began with p and now finds q.
GiveAt(step, value, p, q) ==
  /\ step = "give_read" => q = p
  /\ step = "give_write" => q \in {p, Memory!Rewarded(p)} /\ value = p.xp
  /\ step = "give_return" => q = Memory!Rewarded(p) /\ value = p.xp

Raised(p) == [p EXCEPT !.level = @ + 1]

\* The same of LevelUp, whose first request leaves the xp to the second.
LevelAt(step, value, p, q) ==
  /\ step = "up_read" => q = p
  /\ step = "up_write" => q \in {p, Raised(p)} /\ value = p.level
  /\ step = "up_zero" => q \in {Raised(p), Memory!LeveledUp(p)} /\ value = p.level
  /\ step = "up_return" => q = Memory!LeveledUp(p) /\ value = p.level

Unlevelled(p) == [p EXCEPT !.level = 1]

\* Of Reset.
ResetAt(step, p, q) ==
  /\ step = "del_level" => q \in {p, Unlevelled(p)}
  /\ step = "del_xp" => q \in {Unlevelled(p), Memory!NewPlayer}
  /\ step = "reset_return" => q = Memory!NewPlayer

\* A lone call of the service, with the player as it was when it began.
LoneCall(c, p) ==
  /\ late = {} /\ InCall(c) /\ \A d \in Calls \ {c} : ~InCall(d)
  /\ pc[c] \in InitSteps => Player = p
  /\ GiveAt(pc[c], local[c], p, Player)
  /\ LevelAt(pc[c], local[c], p, Player)
  /\ ResetAt(pc[c], p, Player)

\* The inductive invariant of character_service_grpc.cpp: while a call is alone,
\* the storage holds what it found, or what the request it is making writes.
LoneInvariant ==
  /\ alone \subseteq [call : Calls, before : [level : Int, xp : Int]]
  /\ \A a \in alone : LoneCall(a.call, a.before)

-----------------------------------------------------------------------------
(* Why every call ends. *)

\* The remote calls and returns that are before a coroutine, at most.
StepsLeft ==
  [get_level |-> 3, get_xp |-> 2, init_return |-> 1,
   give_read |-> 7, give_write |-> 6, give_return |-> 5,
   up_read |-> 4, up_write |-> 3, up_zero |-> 2, up_return |-> 1,
   del_level |-> 3, del_xp |-> 2, reset_return |-> 1]

Work(c) == StepsLeft[pc[c]] * (MaxRetries + 1) - tries[c]

(***************************************************************************)
(* DefaultRetryPolicy bounds a call: each of its answers, failures and     *)
(* retries uses up some of its work, and nobody else's step gives it more. *)
(* What ServeLate, the game or another coroutine do leaves it as it is.    *)
(***************************************************************************)
CallsAreBounded ==
  [][\A c \in Calls :
       InCall(c) =>
         /\ Work(c) \in Nat \ {0}
         /\ Step(c) => Ended(c)' \/ Work(c)' < Work(c)
         /\ pc'[c] # pc[c] \/ tries'[c] # tries[c] => Step(c)]_vars
=============================================================================
