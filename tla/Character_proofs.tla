-------------------------- MODULE Character_proofs --------------------------
(* Proofs about module Character: game/main.cpp on character_service_grpc.cpp. *)
EXTENDS Character, FiniteSetTheorems, TLAPS

USE CallsAssumption, AmountAssumption, AbsentAssumption, FlagsAssumption, RetryAssumption

-----------------------------------------------------------------------------
(* The tables. *)

LEMMA RequestIs ==
  ASSUME NEW c
  PROVE  /\ pc[c] = "give_write" => RequestOf(c) = [key |-> "xp", value |-> GivenXp(c)]
         /\ pc[c] = "up_write"   => RequestOf(c) = [key |-> "level", value |-> local[c] + 1]
         /\ pc[c] = "up_zero"    => RequestOf(c) = [key |-> "xp", value |-> 0]
         /\ pc[c] = "del_level"  => RequestOf(c) = [key |-> "level", value |-> Absent]
         /\ pc[c] = "del_xp"     => RequestOf(c) = [key |-> "xp", value |-> Absent]
BY DEF RequestOf, Requests

LEMMA AfterIs ==
  /\ After["get_level"] = "get_xp" /\ After["get_xp"] = "init_return"
  /\ After["give_read"] = "give_write" /\ After["give_write"] = "give_return"
  /\ After["up_read"] = "up_write" /\ After["up_write"] = "up_zero"
  /\ After["up_zero"] = "up_return"
  /\ After["del_level"] = "del_xp" /\ After["del_xp"] = "reset_return"
BY DEF After

LEMMA ReadsAre ==
  /\ Reads = {"get_level", "get_xp", "give_read", "up_read"}
  /\ ReadKey["get_level"] = "level" /\ ReadKey["get_xp"] = "xp"
  /\ ReadKey["give_read"] = "xp" /\ ReadKey["up_read"] = "level"
BY DEF Reads, ReadKey

LEMMA ReadKeys == \A s \in Reads : ReadKey[s] \in Keys
BY ReadsAre DEF Keys

-----------------------------------------------------------------------------
(* The bounds. *)

LEMMA AtMostGrows ==
  ASSUME NEW k, NEW m \in Nat, NEW n \in Nat, m <= n
  PROVE  AtMost(k, m) \in Int /\ AtMost(k, n) \in Int /\ AtMost(k, m) <= AtMost(k, n)
<1>1. Raise(k) \in Nat /\ Default(k) \in Int
  BY DEF Raise, Default
<1>2. PICK d \in Nat : n = m + d
  <2>1. n - m \in Nat /\ n = m + (n - m)
    OBVIOUS
  <2>2. QED  BY <2>1
<1>3. Raise(k) * n = Raise(k) * m + Raise(k) * d
  BY <1>1, <1>2
<1>4. Raise(k) * d \in Nat /\ Raise(k) * m \in Nat
  BY <1>1
<1>5. QED  BY <1>1, <1>3, <1>4 DEF AtMost

LEMMA AtMostNext ==
  ASSUME NEW n \in Nat
  PROVE  /\ AtMost("xp", n + 1) = AtMost("xp", n) + Amount
         /\ AtMost("level", n + 1) = AtMost("level", n) + 1
         /\ AtMost("xp", n) >= 0 /\ AtMost("level", n) >= 1
<1>1. Amount * (n + 1) = Amount * n + Amount /\ Amount * n \in Nat
  OBVIOUS
<1>2. QED  BY <1>1 DEF AtMost, Raise, Default

LEMMA RaisersFinite ==
  ASSUME NEW k
  PROVE  /\ Raisers(k) \subseteq Calls /\ IsFiniteSet(Raisers(k))
         /\ Cardinality(Raisers(k)) \in Nat
         /\ \A c : Cardinality(Raisers(k) \ {c}) \in Nat
         /\ \A c \in Raisers(k) : Cardinality(Raisers(k)) = Cardinality(Raisers(k) \ {c}) + 1
<1>1. Raisers(k) \subseteq Calls
  BY DEF Raisers, CallsAt
<1>2. IsFiniteSet(Raisers(k))
  BY <1>1, FS_Subset
<1>3. Cardinality(Raisers(k)) \in Nat
  BY <1>2, FS_CardinalityType
<1>4. ASSUME NEW c PROVE Cardinality(Raisers(k) \ {c}) \in Nat
  <2>1. IsFiniteSet(Raisers(k) \ {c})
    BY <1>2, FS_RemoveElement
  <2>2. QED  BY <2>1, FS_CardinalityType
<1>5. ASSUME NEW c \in Raisers(k)
      PROVE  Cardinality(Raisers(k)) = Cardinality(Raisers(k) \ {c}) + 1
  <2>1. Cardinality(Raisers(k) \ {c}) = Cardinality(Raisers(k)) - 1
    BY <1>2, FS_RemoveElement
  <2>2. QED  BY <1>3, <2>1
<1>6. QED  BY <1>1, <1>2, <1>3, <1>4, <1>5

\* No call that raised a key is forgotten, so the bounds only grow.
LEMMA BoundsGrow ==
  ASSUME NEW k, Raisers(k) \subseteq Raisers(k)', IsFiniteSet(Raisers(k)')
  PROVE  /\ AtMost(k, Cardinality(Raisers(k))) <= AtMost(k, Cardinality(Raisers(k)'))
         /\ AtMost(k, Cardinality(Raisers(k))) \in Int
         /\ AtMost(k, Cardinality(Raisers(k)')) \in Int
         /\ \A c : /\ AtMost(k, Cardinality(Raisers(k) \ {c})) <= AtMost(k, Cardinality(Raisers(k)' \ {c}))
                   /\ AtMost(k, Cardinality(Raisers(k) \ {c})) \in Int
                   /\ AtMost(k, Cardinality(Raisers(k)' \ {c})) \in Int
<1>1. Cardinality(Raisers(k)) \in Nat /\ Cardinality(Raisers(k)') \in Nat
      /\ Cardinality(Raisers(k)) <= Cardinality(Raisers(k)')
  BY FS_Subset, FS_CardinalityType
<1>2. ASSUME NEW c
      PROVE  /\ Cardinality(Raisers(k) \ {c}) \in Nat /\ Cardinality(Raisers(k)' \ {c}) \in Nat
             /\ Cardinality(Raisers(k) \ {c}) <= Cardinality(Raisers(k)' \ {c})
  <2>1. IsFiniteSet(Raisers(k)' \ {c})
    BY FS_RemoveElement
  <2>2. Raisers(k) \ {c} \in SUBSET (Raisers(k)' \ {c})
    OBVIOUS
  <2>3. QED  BY <2>1, <2>2, FS_Subset, FS_CardinalityType
<1>3. QED  BY <1>1, <1>2, AtMostGrows

-----------------------------------------------------------------------------
(* A coroutine goes from one step to the next. *)

RaiseSteps(k) ==
  IF k = "xp" THEN {"give_write", "give_return", "given", "leveled"} \cup LevelSteps
              ELSE {"up_write", "up_zero", "up_return", "leveled"}

Begun == {"unborn", "inited"} \cup InitSteps

GoesTo(c, s) == pc' = [pc EXCEPT ![c] = s]

\* The steps that are not those of a call which may raise a key keep the calls
\* that did; and nobody acts before Init is done.
Orderly(c, s) ==
  /\ c \in Calls /\ s \in Steps /\ GoesTo(c, s) /\ pc[c] # "inited"
  /\ \A k \in Keys : pc[c] \in RaiseSteps(k) => s \in RaiseSteps(k)
  /\ s \in Begun \/ pc[c] \notin Begun \/ state \in {"Idle", "Fighting"}
  /\ state' \in {"Idle", "Fighting"} => state \in {"Idle", "Fighting"} \/ s = "inited"

InitDone == state \in {"Idle", "Fighting"} => \E c \in Calls : pc[c] = "inited"

LEMMA RaisersAre == \A k \in Keys : Raisers(k) = {c \in Calls : pc[c] \in RaiseSteps(k)}
BY DEF Raisers, RaiseSteps, CallsAt, Keys

LEMMA OrderlyRaisers ==
  ASSUME TypeOK, NEW c, NEW s, Orderly(c, s)
  PROVE  /\ \A k \in Keys : Raisers(k) \subseteq Raisers(k)'
         /\ pc' \in [Calls -> Steps] /\ pc'[c] = s
         /\ \A d \in Calls : d # c => pc'[d] = pc[d]
BY DEF Orderly, GoesTo, TypeOK, Raisers, RaiseSteps, CallsAt, Keys

LEMMA OrderlyInit ==
  ASSUME TypeOK, InitFirst, InitDone, NEW c, NEW s, Orderly(c, s)
  PROVE  InitFirst' /\ InitDone'
<1>1. /\ pc'[c] = s /\ c \in Calls /\ \A d \in Calls : d # c => pc'[d] = pc[d]
  BY OrderlyRaisers DEF Orderly
<1>2. (\E d \in Calls : pc[d] = "inited") => \E d \in Calls : pc'[d] = "inited"
  BY <1>1 DEF Orderly
<1>3. s = "inited" => \E d \in Calls : pc'[d] = "inited"
  BY <1>1
<1>4. ASSUME NEW d \in Calls, pc'[d] \notin InitSteps \cup {"unborn", "inited"}
      PROVE  \E e \in Calls : pc'[e] = "inited"
  <2>1. CASE d # c
    BY <1>1, <1>2, <1>4, <2>1 DEF InitFirst
  <2>2. CASE d = c
    <3>1. s \notin Begun
      BY <1>1, <1>4, <2>2 DEF Begun
    <3>2. pc[c] \notin Begun \/ state \in {"Idle", "Fighting"}
      BY <3>1 DEF Orderly
    <3>3. QED  BY <1>1, <1>2, <3>2 DEF InitFirst, InitDone, Begun
  <2>3. QED  BY <2>1, <2>2
<1>5. QED  BY <1>2, <1>3, <1>4 DEF InitFirst, InitDone, Orderly

\* The storage and the requests on their way keep within what the calls explain.
Explained(k, v) == v \in Int /\ v <= AtMost(k, Cardinality(Raisers(k)))

StoreExplained ==
  /\ \A k \in Keys : store'[k] = store[k] \/ store'[k] = Absent \/ Explained(k, store'[k])
  /\ \A r \in late' : r \in late \/ r.value = Absent \/ Explained(r.key, r.value)

\* What a call is about to write, once it has read.
LocalsExplained ==
  \A c \in Calls :
    pc'[c] \in {"give_write", "up_write"} =>
      \/ pc'[c] = pc[c] /\ local'[c] = local[c]
      \/ /\ pc[c] = "give_read" /\ pc'[c] = "give_write"
         /\ local'[c] <= AtMost("xp", Cardinality(Raisers("xp")))
      \/ /\ pc[c] = "up_read" /\ pc'[c] = "up_write"
         /\ local'[c] <= AtMost("level", Cardinality(Raisers("level")))

LEMMA BoundsKept ==
  ASSUME TypeOK, TypeOK', StoreBounded, LocalsBounded, StoreExplained, LocalsExplained,
         \A k \in Keys : Raisers(k) \subseteq Raisers(k)'
  PROVE  StoreBounded' /\ LocalsBounded'
<1>f. ASSUME NEW k \in Keys PROVE IsFiniteSet(Raisers(k)) /\ IsFiniteSet(Raisers(k)')
  <2>1. Raisers(k) \subseteq Calls /\ Raisers(k)' \subseteq Calls
    BY DEF Raisers, CallsAt
  <2>2. QED  BY <2>1, FS_Subset
<1>g. ASSUME NEW k \in Keys
      PROVE  /\ AtMost(k, Cardinality(Raisers(k))) \in Int
             /\ AtMost(k, Cardinality(Raisers(k)')) \in Int
             /\ AtMost(k, Cardinality(Raisers(k))) <= AtMost(k, Cardinality(Raisers(k)'))
             /\ Default(k) <= AtMost(k, Cardinality(Raisers(k)')) /\ Default(k) \in Int
  <2>1. Cardinality(Raisers(k)') \in Nat
    BY <1>f, FS_CardinalityType
  <2>2. Default(k) <= AtMost(k, Cardinality(Raisers(k)'))
    BY <2>1, AtMostNext DEF Keys, Default
  <2>3. QED  BY <1>f, <2>2, BoundsGrow DEF Default
<1>1. ASSUME NEW k \in Keys
      PROVE  Value(k)' <= AtMost(k, Cardinality(Raisers(k)'))
  <2>1. CASE store'[k] = store[k] /\ store[k] # Absent
    <3>1. Value(k)' = Value(k) /\ Value(k) \in Int
      BY <2>1 DEF Value, TypeOK
    <3>2. QED  BY <1>g, <3>1 DEF StoreBounded
  <2>2. CASE store'[k] = Absent
    BY <1>g, <2>2 DEF Value
  <2>3. CASE Explained(k, store'[k])
    BY <1>g, <2>3 DEF Value, Explained
  <2>4. QED  BY <2>1, <2>2, <2>3 DEF StoreExplained
<1>2. ASSUME NEW r \in late', r.value # Absent
      PROVE  r.value <= AtMost(r.key, Cardinality(Raisers(r.key)'))
  <2>1. r.key \in Keys /\ r.value \in Int
    BY <1>2 DEF TypeOK, Request
  <2>2. r.value <= AtMost(r.key, Cardinality(Raisers(r.key)))
    BY <1>2 DEF StoreExplained, Explained, StoreBounded
  <2>3. QED  BY <1>g, <2>1, <2>2
<1>3. ASSUME NEW c \in Calls, NEW k \in Keys, NEW w, NEW v,
             <<k, w, v>> \in {<<"xp", "give_write", "give_read">>, <<"level", "up_write", "up_read">>},
             pc'[c] = w
      PROVE  local'[c] <= AtMost(k, Cardinality(Raisers(k)' \ {c}))
  <2>1. local[c] \in Int /\ local'[c] \in Int
    BY DEF TypeOK
  <2>2. CASE pc'[c] = pc[c] /\ local'[c] = local[c]
    <3>1. local[c] <= AtMost(k, Cardinality(Raisers(k) \ {c}))
      BY <1>3, <2>2 DEF LocalsBounded
    <3>2. /\ AtMost(k, Cardinality(Raisers(k) \ {c})) <= AtMost(k, Cardinality(Raisers(k)' \ {c}))
          /\ AtMost(k, Cardinality(Raisers(k) \ {c})) \in Int
          /\ AtMost(k, Cardinality(Raisers(k)' \ {c})) \in Int
      BY <1>f, BoundsGrow
    <3>3. QED  BY <2>1, <2>2, <3>1, <3>2
  <2>3. CASE pc[c] = v /\ local'[c] <= AtMost(k, Cardinality(Raisers(k)))
    <3>1. Raisers(k) \subseteq Raisers(k)' \ {c}
      BY <1>3, <2>3, RaisersAre DEF RaiseSteps, LevelSteps
    <3>2. IsFiniteSet(Raisers(k)' \ {c})
      BY <1>f, FS_RemoveElement
    <3>3. /\ Cardinality(Raisers(k)) \in Nat /\ Cardinality(Raisers(k)' \ {c}) \in Nat
          /\ Cardinality(Raisers(k)) <= Cardinality(Raisers(k)' \ {c})
      BY <3>1, <3>2, FS_Subset, FS_CardinalityType
    <3>4. QED  BY <2>1, <2>3, <3>3, AtMostGrows
  <2>4. QED  BY <1>3, <2>2, <2>3 DEF LocalsExplained
<1>4. StoreBounded'
  BY <1>1, <1>2 DEF StoreBounded
<1>5. LocalsBounded'
  BY <1>3 DEF LocalsBounded, Keys
<1>6. QED  BY <1>4, <1>5

-----------------------------------------------------------------------------
(* The steps. *)

LEMMA MoveInvariant ==
  ASSUME CharacterInvariant, TypeOK', NEW c, NEW s, Orderly(c, s),
         StoreExplained, LocalsExplained
  PROVE  CharacterInvariant'
<1>1. TypeOK /\ StoreBounded /\ LocalsBounded /\ InitFirst /\ InitDone
  BY DEF CharacterInvariant, InitDone
<1>2. InitFirst' /\ InitDone'
  BY <1>1, OrderlyInit
<1>3. StoreBounded' /\ LocalsBounded'
  BY <1>1, OrderlyRaisers, BoundsKept
<1>4. QED  BY <1>2, <1>3 DEF CharacterInvariant, InitDone

LEMMA StayInvariant ==
  ASSUME CharacterInvariant, TypeOK', UNCHANGED <<pc, local>>, StoreExplained,
         state' \in {"Idle", "Fighting"} => state \in {"Idle", "Fighting"}
  PROVE  CharacterInvariant'
<1>1. TypeOK /\ StoreBounded /\ LocalsBounded /\ InitFirst /\ InitDone
  BY DEF CharacterInvariant, InitDone
<1>2. InitFirst' /\ InitDone'
  BY <1>1 DEF InitFirst, InitDone
<1>3. LocalsExplained /\ \A k \in Keys : Raisers(k) \subseteq Raisers(k)'
  BY DEF LocalsExplained, Raisers, CallsAt
<1>4. StoreBounded' /\ LocalsBounded'
  BY <1>1, <1>3, BoundsKept
<1>5. QED  BY <1>2, <1>4 DEF CharacterInvariant, InitDone

LEMMA StoreStays == UNCHANGED <<store, late>> => StoreExplained
BY DEF StoreExplained

\* A call that moves on by itself: it has nothing to write yet, or has written.
LEMMA OthersStay ==
  ASSUME TypeOK, NEW c, NEW s, Orderly(c, s), s \notin {"give_write", "up_write"},
         \A d \in Calls : d # c => local'[d] = local[d]
  PROVE  LocalsExplained
<1>1. pc'[c] = s /\ \A d \in Calls : d # c => pc'[d] = pc[d]
  BY OrderlyRaisers
<1>2. QED  BY <1>1 DEF LocalsExplained

LEMMA RequestExplained ==
  ASSUME TypeOK, LocalsBounded, NEW c \in Calls, pc[c] \in Writes
  PROVE  /\ RequestOf(c) \in Request
         /\ RequestOf(c).value = Absent \/ Explained(RequestOf(c).key, RequestOf(c).value)
<1>1. \A k \in Keys : Cardinality(Raisers(k)) \in Nat /\ Cardinality(Raisers(k) \ {c}) \in Nat
  BY RaisersFinite
<1>l. local[c] \in Int
  BY DEF TypeOK
<1>2. CASE pc[c] = "give_write"
  <2>1. c \in Raisers("xp")
    BY <1>2, RaisersAre DEF RaiseSteps, Keys
  <2>2. AtMost("xp", Cardinality(Raisers("xp"))) = AtMost("xp", Cardinality(Raisers("xp") \ {c})) + Amount
    BY <1>1, <2>1, RaisersFinite, AtMostNext DEF Keys
  <2>3. local[c] <= AtMost("xp", Cardinality(Raisers("xp") \ {c}))
    BY <1>2 DEF LocalsBounded
  <2>4. AtMost("xp", Cardinality(Raisers("xp") \ {c})) \in Int
    BY <1>1, AtMostGrows DEF Keys
  <2>5. Explained("xp", local[c] + Amount)
    BY <1>l, <2>2, <2>3, <2>4 DEF Explained
  <2>6. QED  BY <1>2, <1>l, <2>5, RequestIs DEF GivenXp, Request, Keys
<1>3. CASE pc[c] = "up_write"
  <2>1. c \in Raisers("level")
    BY <1>3, RaisersAre DEF RaiseSteps, Keys
  <2>2. AtMost("level", Cardinality(Raisers("level"))) = AtMost("level", Cardinality(Raisers("level") \ {c})) + 1
    BY <1>1, <2>1, RaisersFinite, AtMostNext DEF Keys
  <2>3. local[c] <= AtMost("level", Cardinality(Raisers("level") \ {c}))
    BY <1>3 DEF LocalsBounded
  <2>4. AtMost("level", Cardinality(Raisers("level") \ {c})) \in Int
    BY <1>1, AtMostGrows DEF Keys
  <2>5. Explained("level", local[c] + 1)
    BY <1>l, <2>2, <2>3, <2>4 DEF Explained
  <2>6. QED  BY <1>3, <1>l, <2>5, RequestIs DEF Request, Keys
<1>4. CASE pc[c] = "up_zero"
  <2>1. Explained("xp", 0)
    BY <1>1, AtMostNext DEF Explained, Keys
  <2>2. QED  BY <1>4, <2>1, RequestIs DEF Request, Keys
<1>5. CASE pc[c] \in {"del_level", "del_xp"}
  BY <1>5, RequestIs DEF Request, Keys
<1>6. QED  BY <1>2, <1>3, <1>4, <1>5 DEF Writes

LEMMA AppliedStore ==
  ASSUME TypeOK, NEW r \in Request, store' = Applied(r),
         r.value = Absent \/ Explained(r.key, r.value)
  PROVE  /\ store' \in [Keys -> Int \cup {Absent}]
         /\ \A k \in Keys : store'[k] = store[k] \/ store'[k] = Absent \/ Explained(k, store'[k])
BY DEF TypeOK, Request, Applied

LEMMA UndeliveredStore ==
  ASSUME CharacterInvariant, NEW c \in Calls, pc[c] \in Writes, Undelivered(c)
  PROVE  StoreExplained /\ store' \in [Keys -> Int \cup {Absent}] /\ late' \subseteq Request
<1>1. /\ RequestOf(c) \in Request
      /\ RequestOf(c).value = Absent \/ Explained(RequestOf(c).key, RequestOf(c).value)
  BY RequestExplained DEF CharacterInvariant
<1>2. TypeOK
  BY DEF CharacterInvariant
<1>3. CASE store' = Applied(RequestOf(c)) /\ UNCHANGED late
  BY <1>1, <1>2, <1>3, AppliedStore DEF StoreExplained, TypeOK
<1>4. CASE UNCHANGED <<store, late>>
  BY <1>2, <1>4 DEF StoreExplained, TypeOK
<1>5. CASE late' = late \cup {RequestOf(c)} /\ UNCHANGED store
  BY <1>1, <1>2, <1>5 DEF StoreExplained, TypeOK
<1>6. QED  BY <1>3, <1>4, <1>5 DEF Undelivered

LEMMA AdvanceOrderly ==
  ASSUME TypeOK, NEW c \in Calls, pc[c] \in Reads \cup Writes, Advance(c), UNCHANGED state
  PROVE  /\ Orderly(c, After[pc[c]]) /\ pc' \in [Calls -> Steps]
         /\ tries' \in [Calls -> 0..MaxRetries]
         /\ After[pc[c]] = "give_write" => pc[c] = "give_read"
         /\ After[pc[c]] = "up_write" => pc[c] = "up_read"
<1>1. GoesTo(c, After[pc[c]]) /\ tries' = [tries EXCEPT ![c] = 0]
  BY DEF Advance, GoesTo
<1>2. tries' \in [Calls -> 0..MaxRetries]
  BY <1>1 DEF TypeOK
<1>3. /\ Orderly(c, After[pc[c]])
      /\ After[pc[c]] = "give_write" => pc[c] = "give_read"
      /\ After[pc[c]] = "up_write" => pc[c] = "up_read"
  <2> USE <1>1, AfterIs DEF Orderly, RaiseSteps, Begun, Steps, InitSteps, LevelSteps
  <2>1. CASE pc[c] \in {"get_level", "get_xp"}
    BY <2>1
  <2>2. CASE pc[c] \in {"give_read", "give_write"}
    BY <2>2 DEF GiveSteps
  <2>3. CASE pc[c] \in {"up_read", "up_write", "up_zero"}
    BY <2>3
  <2>4. CASE pc[c] \in {"del_level", "del_xp"}
    BY <2>4 DEF ResetSteps
  <2>5. QED  BY <2>1, <2>2, <2>3, <2>4, ReadsAre DEF Writes
<1>4. QED  BY <1>2, <1>3, OrderlyRaisers

\* A read gives what is stored, or the default: no more than is explained.
LEMMA ReadInvariant ==
  ASSUME CharacterInvariant, NEW c \in Calls, ReadAnswered(c) \/ ReadFailed(c)
  PROVE  CharacterInvariant'
<1>1. TypeOK /\ StoreBounded /\ pc[c] \in Reads
  BY DEF CharacterInvariant, ReadAnswered, ReadFailed
<1>2. /\ Advance(c) /\ UNCHANGED <<state, store, late>>
  BY DEF ReadAnswered, ReadFailed
<1> DEFINE k == ReadKey[pc[c]]
<1>3. k \in Keys /\ (pc[c] = "give_read" => k = "xp") /\ (pc[c] = "up_read" => k = "level")
  BY <1>1, ReadKeys, ReadsAre
<1>4. PICK v : v \in {Value(k), Default(k)} /\ local' = [local EXCEPT ![c] = v]
  BY DEF ReadAnswered, ReadFailed, Found
<1> HIDE DEF k
<1>5. v \in Int /\ v <= AtMost(k, Cardinality(Raisers(k)))
  <2>1. Cardinality(Raisers(k)) \in Nat
    BY RaisersFinite
  <2>2. Default(k) \in Int /\ Default(k) <= AtMost(k, Cardinality(Raisers(k)))
    BY <1>3, <2>1, AtMostNext DEF Keys, Default
  <2>3. Value(k) \in Int
    BY <1>1, <1>3 DEF Value, Default, TypeOK
  <2>4. QED  BY <1>1, <1>3, <1>4, <2>2, <2>3 DEF StoreBounded
<1>6. /\ Orderly(c, After[pc[c]]) /\ pc' \in [Calls -> Steps]
      /\ tries' \in [Calls -> 0..MaxRetries]
      /\ After[pc[c]] = "give_write" => pc[c] = "give_read"
      /\ After[pc[c]] = "up_write" => pc[c] = "up_read"
  BY <1>1, <1>2, AdvanceOrderly
<1>7. TypeOK'
  BY <1>1, <1>2, <1>4, <1>5, <1>6 DEF TypeOK
<1>8. LocalsExplained
  <2>1. /\ local'[c] = v /\ \A d \in Calls : d # c => local'[d] = local[d]
    BY <1>1, <1>4 DEF TypeOK
  <2>2. pc'[c] = After[pc[c]] /\ \A d \in Calls : d # c => pc'[d] = pc[d]
    BY <1>1, <1>6, OrderlyRaisers
  <2>3. QED  BY <1>3, <1>5, <1>6, <2>1, <2>2 DEF LocalsExplained
<1>9. QED  BY <1>2, <1>6, <1>7, <1>8, StoreStays, MoveInvariant

LEMMA WriteInvariant ==
  ASSUME CharacterInvariant, NEW c \in Calls, WriteAnswered(c) \/ WriteFailed(c)
  PROVE  CharacterInvariant'
<1>1. TypeOK /\ LocalsBounded /\ pc[c] \in Writes
  BY DEF CharacterInvariant, WriteAnswered, WriteFailed
<1>2. Advance(c) /\ UNCHANGED <<state, local>>
  BY DEF WriteAnswered, WriteFailed
<1>3. Undelivered(c)
  BY DEF WriteAnswered, WriteFailed, Undelivered
<1>4. StoreExplained /\ store' \in [Keys -> Int \cup {Absent}] /\ late' \subseteq Request
  BY <1>1, <1>3, UndeliveredStore
<1>5. /\ Orderly(c, After[pc[c]]) /\ pc' \in [Calls -> Steps]
      /\ tries' \in [Calls -> 0..MaxRetries]
      /\ After[pc[c]] \notin {"give_write", "up_write"}
  BY <1>1, <1>2, AdvanceOrderly DEF Writes
<1>6. TypeOK'
  BY <1>1, <1>2, <1>4, <1>5 DEF TypeOK
<1>7. LocalsExplained
  BY <1>1, <1>2, <1>5, OthersStay
<1>8. QED  BY <1>4, <1>5, <1>6, <1>7, MoveInvariant

LEMMA RetryInvariant ==
  ASSUME CharacterInvariant, NEW c \in Calls, Retry(c) PROVE CharacterInvariant'
<1>1. TypeOK
  BY DEF CharacterInvariant
<1>2. UNCHANGED <<state, pc, local>> /\ tries' \in [Calls -> 0..MaxRetries]
  BY <1>1 DEF Retry, CountRetry, TypeOK
<1>3. StoreExplained /\ store' \in [Keys -> Int \cup {Absent}] /\ late' \subseteq Request
  <2>1. CASE pc[c] \in Writes
    BY <2>1, UndeliveredStore DEF Retry
  <2>2. CASE pc[c] \notin Writes
    BY <1>1, <2>2, StoreStays DEF Retry, TypeOK
  <2>3. QED  BY <2>1, <2>2
<1>4. TypeOK'
  BY <1>1, <1>2, <1>3 DEF TypeOK
<1>5. QED  BY <1>2, <1>3, <1>4, StayInvariant

LEMMA ServeLateInvariant ==
  ASSUME CharacterInvariant, NEW r \in late, ServeLate(r) PROVE CharacterInvariant'
<1>1. TypeOK /\ StoreBounded
  BY DEF CharacterInvariant
<1>2. r \in Request /\ (r.value = Absent \/ Explained(r.key, r.value))
  BY <1>1 DEF TypeOK, StoreBounded, Explained, Request
<1>3. /\ store' \in [Keys -> Int \cup {Absent}]
      /\ \A k \in Keys : store'[k] = store[k] \/ store'[k] = Absent \/ Explained(k, store'[k])
  BY <1>1, <1>2, AppliedStore DEF ServeLate
<1>4. TypeOK' /\ StoreExplained
  BY <1>1, <1>3 DEF ServeLate, TypeOK, StoreExplained
<1>5. QED  BY <1>4, StayInvariant DEF ServeLate

\* The game's thread starts a coroutine, or one of them goes on in it.
LEMMA GameInvariant ==
  ASSUME CharacterInvariant, NEW c \in Calls,
         \/ StartInit(c) \/ EarnXp(c) \/ Reincarnate(c)
         \/ InitReturn(c) \/ GiveReturn(c) \/ UpReturn(c) \/ ResetReturn(c)
  PROVE  CharacterInvariant'
<1> USE DEF Return, Start, Orderly, GoesTo, RaiseSteps, Begun, Steps, InitSteps, GiveSteps,
            LevelSteps, ResetSteps, Ends, Keys
<1>1. TypeOK
  BY DEF CharacterInvariant
<1>2. UNCHANGED <<local, tries, store, late>>
  BY DEF StartInit, EarnXp, Reincarnate, InitReturn, GiveReturn, UpReturn, ResetReturn
<1>3. \E s \in Steps \ {"give_write", "up_write"} : Orderly(c, s) /\ state' \in States
  <2>1. CASE StartInit(c)
    BY <1>1, <2>1 DEF StartInit, Initializing, States
  <2>2. CASE EarnXp(c)
    BY <1>1, <2>2 DEF EarnXp, States
  <2>3. CASE Reincarnate(c)
    BY <1>1, <2>3 DEF Reincarnate, States
  <2>4. CASE InitReturn(c)
    BY <1>1, <2>4 DEF InitReturn, States
  <2>5. CASE GiveReturn(c)
    BY <1>1, <2>5 DEF GiveReturn, TypeOK
  <2>6. CASE UpReturn(c) \/ ResetReturn(c)
    BY <1>1, <2>6 DEF UpReturn, ResetReturn, TypeOK
  <2>7. QED  BY <2>1, <2>2, <2>3, <2>4, <2>5, <2>6
<1>4. PICK s \in Steps \ {"give_write", "up_write"} : Orderly(c, s) /\ state' \in States
  BY <1>3
<1> HIDE DEF Orderly, GoesTo, Steps
<1>5. TypeOK'
  BY <1>1, <1>2, <1>4, OrderlyRaisers DEF TypeOK
<1>6. LocalsExplained
  BY <1>1, <1>2, <1>4, OthersStay
<1>7. QED  BY <1>2, <1>4, <1>5, <1>6, StoreStays, MoveInvariant

LEMMA StateInvariant ==
  CharacterInvariant /\ (Fight \/ Rest \/ UNCHANGED vars) => CharacterInvariant'
<1> SUFFICES ASSUME CharacterInvariant, Fight \/ Rest \/ UNCHANGED vars PROVE CharacterInvariant'
  OBVIOUS
<1>1. /\ UNCHANGED <<pc, local, tries, store, late>> /\ state' \in States
      /\ state' \in {"Idle", "Fighting"} => state \in {"Idle", "Fighting"}
  BY DEF Fight, Rest, vars, States, CharacterInvariant, TypeOK
<1>2. TypeOK'
  BY <1>1 DEF CharacterInvariant, TypeOK
<1>3. QED  BY <1>1, <1>2, StoreStays, StayInvariant

LEMMA InitInvariant == Init => CharacterInvariant
<1> SUFFICES ASSUME Init PROVE CharacterInvariant
  OBVIOUS
<1>1. TypeOK /\ InitFirst /\ state \notin {"Idle", "Fighting"}
  BY DEF Init, TypeOK, InitFirst, States, Steps, Keys
<1>2. \A k \in Keys : Value(k) <= AtMost(k, Cardinality(Raisers(k)))
  BY RaisersFinite, AtMostNext DEF Init, Value, Default, Keys
<1>3. StoreBounded /\ LocalsBounded
  BY <1>2 DEF Init, StoreBounded, LocalsBounded
<1>4. QED  BY <1>1, <1>3 DEF CharacterInvariant

LEMMA StepInvariant == CharacterInvariant /\ [Next]_vars => CharacterInvariant'
<1> SUFFICES ASSUME CharacterInvariant, [Next]_vars PROVE CharacterInvariant'
  OBVIOUS
<1>1. ASSUME NEW c \in Calls, StartInit(c) \/ EarnXp(c) \/ Reincarnate(c) \/ Step(c)
      PROVE  CharacterInvariant'
  BY <1>1, GameInvariant, ReadInvariant, WriteInvariant, RetryInvariant DEF Step
<1>2. ASSUME NEW r \in late, ServeLate(r) PROVE CharacterInvariant'
  BY <1>2, ServeLateInvariant
<1>3. QED  BY <1>1, <1>2, StateInvariant DEF Next

\* The invariant of the character and its service holds in every reachable state,
\* types included, for any number of calls, retries and late requests.
THEOREM CharacterInvariance == Spec => []CharacterInvariant
  BY InitInvariant, StepInvariant, PTL DEF Spec

\* character_service_grpc.cpp:34, :42: retries, failures and overlaps give the
\* player no xp and no level that was not earned.
THEOREM NothingGained == Spec => []NothingForFree
<1>1. CharacterInvariant => NothingForFree
  <2> SUFFICES ASSUME CharacterInvariant PROVE NothingForFree
    OBVIOUS
  <2>1. Raisers("xp") \subseteq Earners /\ Raisers("level") \subseteq Levelers
    BY DEF Raisers, CallsAt, Earners, Levelers, GiveSteps, LevelSteps
  <2>2. IsFiniteSet(Earners) /\ IsFiniteSet(Levelers)
    BY FS_Subset DEF Earners, Levelers
  <2>3. /\ Cardinality(Raisers("xp")) \in Nat /\ Cardinality(Earners) \in Nat
        /\ Cardinality(Raisers("xp")) <= Cardinality(Earners)
        /\ Cardinality(Raisers("level")) \in Nat /\ Cardinality(Levelers) \in Nat
        /\ Cardinality(Raisers("level")) <= Cardinality(Levelers)
    BY <2>1, <2>2, FS_Subset, FS_CardinalityType
  <2>4. /\ AtMost("xp", Cardinality(Earners)) = Amount * Cardinality(Earners)
        /\ AtMost("level", Cardinality(Levelers)) = 1 + Cardinality(Levelers)
    BY <2>3 DEF AtMost, Default, Raise
  <2>5. \A k \in Keys : Value(k) \in Int
    BY DEF CharacterInvariant, TypeOK, Value, Default
  <2>6. /\ Value("xp") <= AtMost("xp", Cardinality(Earners))
        /\ Value("level") <= AtMost("level", Cardinality(Levelers))
    BY <2>3, <2>5, AtMostGrows DEF CharacterInvariant, StoreBounded, Keys
  <2>7. QED  BY <2>4, <2>6 DEF NothingForFree
<1>2. QED  BY <1>1, CharacterInvariance, PTL

\* game/main.cpp:63: nothing is done to a player before it was read.
THEOREM PlayerReadFirst == Spec => []InitFirst
<1>1. CharacterInvariant => InitFirst
  BY DEF CharacterInvariant
<1>2. QED  BY <1>1, CharacterInvariance, PTL

-----------------------------------------------------------------------------
(* A call that has the player to itself does what the service in memory does. *)

\* Types are part of the invariant of the character and its service.
LEMMA TypesHold == Spec => []TypeOK
<1>1. CharacterInvariant => TypeOK
  BY DEF CharacterInvariant
<1>2. QED  BY <1>1, CharacterInvariance, PTL

Players == [level : Int, xp : Int]

LEMMA PlayerType ==
  ASSUME TypeOK
  PROVE  Player \in Players /\ Player.level = Value("level") /\ Player.xp = Value("xp")
BY DEF Player, Players, Value, Default, TypeOK, Keys

LEMMA PlayersAre ==
  ASSUME NEW p \in Players
  PROVE  /\ p = [level |-> p.level, xp |-> p.xp]
         /\ Memory!Rewarded(p) = [level |-> p.level, xp |-> p.xp + Amount]
         /\ Memory!LeveledUp(p) = [level |-> p.level + 1, xp |-> 0]
         /\ Memory!NewPlayer = [level |-> 1, xp |-> 0]
         /\ Raised(p) = [level |-> p.level + 1, xp |-> p.xp]
         /\ Unlevelled(p) = [level |-> 1, xp |-> p.xp]
BY DEF Players, Memory!Rewarded, Memory!LeveledUp, Memory!NewPlayer, Raised, Unlevelled

\* What a request leaves the player with.
LEMMA RequestPlayer ==
  ASSUME TypeOK, NEW c \in Calls, pc[c] \in Writes, store' = Applied(RequestOf(c))
  PROVE  /\ pc[c] = "give_write" => Player' = [level |-> Player.level, xp |-> local[c] + Amount]
         /\ pc[c] = "up_write" => Player' = [level |-> local[c] + 1, xp |-> Player.xp]
         /\ pc[c] \in {"up_zero", "del_xp"} => Player' = [level |-> Player.level, xp |-> 0]
         /\ pc[c] = "del_level" => Player' = [level |-> 1, xp |-> Player.xp]
<1> USE DEF Player, Value, Default, Applied, TypeOK, Keys
<1>1. CASE pc[c] = "give_write"
  BY <1>1, RequestIs DEF GivenXp
<1>2. CASE pc[c] = "up_write"
  BY <1>2, RequestIs
<1>3. CASE pc[c] \in {"up_zero", "del_xp"}
  BY <1>3, RequestIs
<1>4. CASE pc[c] = "del_level"
  BY <1>4, RequestIs
<1>5. QED  BY <1>1, <1>2, <1>3, <1>4 DEF Writes

LEMMA LoneIsAlone ==
  ASSUME LoneInvariant, NEW a \in alone
  PROVE  /\ a.call \in Calls /\ a.before \in Players /\ LoneCall(a.call, a.before) /\ late = {}
         /\ \A c \in Calls : InCall(c) => a.call = c
BY DEF LoneInvariant, LoneCall, Players

LEMMA NobodyAlone == alone' = {} => LoneInvariant'
BY DEF LoneInvariant

\* The step of a call that stays alone keeps the others out of the service.
LEMMA CallOnItsOwn ==
  ASSUME TypeOK, LoneInvariant, NEW c \in Calls, InCall(c), UNCHANGED alone,
         late' = {}, InCall(c)', \A d \in Calls : d # c => pc'[d] = pc[d],
         ASSUME NEW p \in Players, LoneCall(c, p)
         PROVE  /\ pc'[c] \in InitSteps => Player' = p
                /\ GiveAt(pc'[c], local'[c], p, Player')
                /\ LevelAt(pc'[c], local'[c], p, Player')
                /\ ResetAt(pc'[c], p, Player')
  PROVE  LoneInvariant'
<1>1. ASSUME NEW a \in alone' PROVE LoneCall(a.call, a.before)'
  <2>1. a \in alone /\ a.call = c /\ a.before \in Players /\ LoneCall(c, a.before)
    BY <1>1, LoneIsAlone
  <2>2. \A d \in Calls \ {c} : ~InCall(d)'
    BY <2>1 DEF LoneCall, InCall, Ended
  <2>3. PICK p : p = a.before
    OBVIOUS
  <2>4. /\ pc'[c] \in InitSteps => Player' = p
        /\ GiveAt(pc'[c], local'[c], p, Player')
        /\ LevelAt(pc'[c], local'[c], p, Player')
        /\ ResetAt(pc'[c], p, Player')
    BY <2>1, <2>3
  <2>5. QED
    BY <2>1, <2>2, <2>3, <2>4 DEF LoneCall, GiveAt, LevelAt, ResetAt
<1>2. QED  BY <1>1 DEF LoneInvariant

LEMMA BeginLone ==
  ASSUME TypeOK, NEW c \in Calls, NEW s \in {"get_level", "give_read", "up_read", "del_level"},
         pc' = [pc EXCEPT ![c] = s], UNCHANGED <<local, store, late>>, Begins(c)
  PROVE  LoneInvariant'
<1>1. CASE alone' = {}
  BY <1>1, NobodyAlone
<1>2. CASE /\ alone' = {[call |-> c, before |-> Player]}
           /\ late = {} /\ \A d \in Calls \ {c} : ~InCall(d)
  <2>1. pc'[c] = s /\ (\A d \in Calls : d # c => pc'[d] = pc[d]) /\ Player' = Player
    BY DEF TypeOK, Player, Value
  <2>2. InCall(c)' /\ \A d \in Calls \ {c} : ~InCall(d)'
    BY <1>2, <2>1 DEF InCall, Ended, Ends
  <2>3. LoneCall(c, Player)'
    BY <1>2, <2>1, <2>2 DEF LoneCall, GiveAt, LevelAt, ResetAt
  <2>4. \A a \in alone' : a.call = c /\ a.before = Player'
    BY <1>2, <2>1
  <2>5. QED
    BY <1>2, <2>1, <2>3, <2>4, PlayerType DEF LoneInvariant, Players
<1>3. QED  BY <1>1, <1>2 DEF Begins

LEMMA ReadLone ==
  ASSUME TypeOK, LoneInvariant, NEW c \in Calls, ReadAnswered(c) PROVE LoneInvariant'
<1> USE DEF ReadAnswered
<1>1. /\ pc'[c] = After[pc[c]] /\ local'[c] = Value(ReadKey[pc[c]])
      /\ \A d \in Calls : d # c => pc'[d] = pc[d]
      /\ Player' = Player /\ InCall(c) /\ InCall(c)'
  BY ReadsAre, AfterIs DEF TypeOK, Advance, Found, Player, Value, InCall, Ended, Ends
<1>2. CASE alone = {}
  BY <1>2, NobodyAlone
<1>3. CASE alone # {}
  <2>1. late' = {}
    BY <1>3, LoneIsAlone
  <2>2. ASSUME NEW p \in Players, LoneCall(c, p)
        PROVE  /\ pc'[c] \in InitSteps => Player' = p
               /\ GiveAt(pc'[c], local'[c], p, Player')
               /\ LevelAt(pc'[c], local'[c], p, Player')
               /\ ResetAt(pc'[c], p, Player')
    <3> USE <1>1, <2>2, AfterIs, ReadsAre, PlayerType
            DEF LoneCall, GiveAt, LevelAt, ResetAt, InitSteps
    <3>1. CASE pc[c] \in {"get_level", "get_xp"}
      BY <3>1
    <3>2. CASE pc[c] = "give_read"
      BY <3>2
    <3>3. CASE pc[c] = "up_read"
      BY <3>3
    <3>4. QED  BY <3>1, <3>2, <3>3
  <2>3. QED  BY <1>1, <2>1, <2>2, CallOnItsOwn
<1>4. QED  BY <1>2, <1>3

\* Between an attempt and its answer the request has been executed, or not.
LEMMA WriteLone ==
  ASSUME TypeOK, LoneInvariant, NEW c \in Calls, WriteAnswered(c) PROVE LoneInvariant'
<1> USE DEF WriteAnswered
<1>1. /\ pc'[c] = After[pc[c]] /\ local' = local
      /\ \A d \in Calls : d # c => pc'[d] = pc[d]
      /\ InCall(c) /\ InCall(c)'
  BY AfterIs DEF TypeOK, Advance, Writes, InCall, Ended, Ends
<1>2. CASE alone = {}
  BY <1>2, NobodyAlone
<1>3. CASE alone # {}
  <2>1. late' = {}
    BY <1>3, LoneIsAlone
  <2>2. ASSUME NEW p \in Players, LoneCall(c, p)
        PROVE  /\ pc'[c] \in InitSteps => Player' = p
               /\ GiveAt(pc'[c], local'[c], p, Player')
               /\ LevelAt(pc'[c], local'[c], p, Player')
               /\ ResetAt(pc'[c], p, Player')
    <3> USE <1>1, <2>2, AfterIs, RequestPlayer, PlayersAre
            DEF LoneCall, GiveAt, LevelAt, ResetAt, InitSteps, Writes
    <3>1. CASE pc[c] = "give_write"
      BY <3>1
    <3>2. CASE pc[c] = "up_write"
      BY <3>2
    <3>3. CASE pc[c] = "up_zero"
      BY <3>3
    <3>4. CASE pc[c] \in {"del_level", "del_xp"}
      BY <3>4
    <3>5. QED  BY <3>1, <3>2, <3>3, <3>4
  <2>3. QED  BY <1>1, <2>1, <2>2, CallOnItsOwn
<1>4. QED  BY <1>2, <1>3

LEMMA RetryLone ==
  ASSUME TypeOK, LoneInvariant, NEW c \in Calls, Retry(c) PROVE LoneInvariant'
<1>1. UNCHANGED <<pc, local>> /\ pc[c] \in Reads \cup Writes
  BY DEF Retry
<1>2. InCall(c) /\ InCall(c)'
  BY <1>1, ReadsAre DEF Writes, InCall, Ended, Ends
<1>3. CASE alone' = {}
  BY <1>3, NobodyAlone
<1>4. CASE alone' # {}
  <2>1. late' = {} /\ UNCHANGED alone
    BY <1>4 DEF Retry
  <2>2. UNCHANGED store \/ (pc[c] \in Writes /\ store' = Applied(RequestOf(c)))
    BY DEF Retry, Undelivered
  <2>3. ASSUME NEW p \in Players, LoneCall(c, p)
        PROVE  /\ pc'[c] \in InitSteps => Player' = p
               /\ GiveAt(pc'[c], local'[c], p, Player')
               /\ LevelAt(pc'[c], local'[c], p, Player')
               /\ ResetAt(pc'[c], p, Player')
    <3>1. CASE UNCHANGED store
      <4>1. Player' = Player
        BY <3>1 DEF Player, Value
      <4>2. QED  BY <1>1, <2>3, <4>1 DEF LoneCall
    <3>2. CASE pc[c] \in Writes /\ store' = Applied(RequestOf(c))
      <4> USE <1>1, <2>3, <3>2, RequestPlayer, PlayersAre
              DEF LoneCall, GiveAt, LevelAt, ResetAt, InitSteps, Writes
      <4>1. CASE pc[c] = "give_write"
        BY <4>1
      <4>2. CASE pc[c] = "up_write"
        BY <4>2
      <4>3. CASE pc[c] = "up_zero"
        BY <4>3
      <4>4. CASE pc[c] \in {"del_level", "del_xp"}
        BY <4>4
      <4>5. QED  BY <4>1, <4>2, <4>3, <4>4
    <3>3. QED  BY <2>2, <3>1, <3>2
  <2>4. QED  BY <1>1, <1>2, <2>1, <2>3, CallOnItsOwn
<1>5. QED  BY <1>3, <1>4

\* A coroutine of the game starts, goes on to its next call, or ends.
LEMMA GameLone ==
  ASSUME TypeOK, NEW c \in Calls,
         \/ StartInit(c) \/ EarnXp(c) \/ Reincarnate(c)
         \/ InitReturn(c) \/ GiveReturn(c) \/ UpReturn(c) \/ ResetReturn(c)
  PROVE  LoneInvariant'
<1>1. CASE StartInit(c) \/ EarnXp(c) \/ Reincarnate(c)
  BY <1>1, BeginLone DEF StartInit, EarnXp, Reincarnate, Start
<1>2. CASE InitReturn(c) \/ UpReturn(c) \/ ResetReturn(c)
  BY <1>2, NobodyAlone DEF InitReturn, UpReturn, ResetReturn, Return, Ends
<1>3. CASE GiveReturn(c)
  <2>1. CASE LevelsUp(c)
    BY <1>3, <2>1, BeginLone DEF GiveReturn, Return, Ends
  <2>2. CASE ~LevelsUp(c)
    BY <1>3, <2>2, NobodyAlone DEF GiveReturn, Return, Ends
  <2>3. QED  BY <2>1, <2>2
<1>4. QED  BY <1>1, <1>2, <1>3

LEMMA StepLone ==
  ASSUME TypeOK, LoneInvariant, [Next]_vars PROVE LoneInvariant'
<1>1. ASSUME NEW c \in Calls, StartInit(c) \/ EarnXp(c) \/ Reincarnate(c) \/ Step(c)
      PROVE  LoneInvariant'
  <2>1. CASE ReadFailed(c) \/ WriteFailed(c)
    BY <2>1, NobodyAlone DEF ReadFailed, WriteFailed
  <2>2. QED  BY <1>1, <2>1, ReadLone, WriteLone, RetryLone, GameLone DEF Step
<1>2. ASSUME NEW r \in late, ServeLate(r) PROVE LoneInvariant'
  <2>1. alone = {}
    BY <1>2, LoneIsAlone
  <2>2. QED  BY <1>2, <2>1, NobodyAlone DEF ServeLate
<1>3. CASE Fight \/ Rest \/ UNCHANGED vars
  <2>1. UNCHANGED <<pc, local, store, late, alone>>
    BY <1>3 DEF Fight, Rest, vars
  <2>2. QED
    BY <2>1 DEF LoneInvariant, LoneCall, GiveAt, LevelAt, ResetAt, InCall, Ended, Player, Value
<1>4. QED  BY <1>1, <1>2, <1>3 DEF Next

\* character_service_grpc.cpp:31, whatever overlaps, fails or comes late: while a
\* call has the player to itself, the storage holds what the call found there, or
\* what the request that it is making writes.
THEOREM LoneInvariance == Spec => []LoneInvariant
<1>1. Init => LoneInvariant
  BY DEF Init, LoneInvariant
<1>2. TypeOK /\ LoneInvariant /\ [Next]_vars => LoneInvariant'
  BY StepLone
<1>3. QED  BY <1>1, <1>2, TypesHold, PTL DEF Spec

\* character_service_grpc.cpp against character_service_memory.cpp: a GiveXp, LevelUp
\* or Reset that has the player to itself and is answered does to it, once, what the
\* service in memory does, however often its requests are repeated.
THEOREM LoneCallsAreExact == Spec => []LoneCallsExact
<1>1. LoneInvariant => LoneCallsExact
  BY DEF LoneInvariant, LoneCallsExact, LoneCall, GiveAt, LevelAt, ResetAt, InitSteps
<1>2. QED  BY <1>1, LoneInvariance, PTL

-----------------------------------------------------------------------------
(* Every call has a bounded number of steps before it. *)

LEMMA StepsLeftIs ==
  /\ StepsLeft["get_level"] = 3 /\ StepsLeft["get_xp"] = 2 /\ StepsLeft["init_return"] = 1
  /\ StepsLeft["give_read"] = 7 /\ StepsLeft["give_write"] = 6 /\ StepsLeft["give_return"] = 5
  /\ StepsLeft["up_read"] = 4 /\ StepsLeft["up_write"] = 3 /\ StepsLeft["up_zero"] = 2
  /\ StepsLeft["up_return"] = 1
  /\ StepsLeft["del_level"] = 3 /\ StepsLeft["del_xp"] = 2 /\ StepsLeft["reset_return"] = 1
BY DEF StepsLeft

LEMMA StepsLeftRange ==
  \A s \in Steps : s \notin {"unborn"} \cup Ends => StepsLeft[s] \in 1..7
BY StepsLeftIs DEF Steps, InitSteps, GiveSteps, LevelSteps, ResetSteps

\* However often it may be retried, a remote call is less work than the next two.
LEMMA FewerIsLess ==
  ASSUME NEW m \in Nat, NEW a \in Nat, NEW b \in Nat, NEW t \in 0..m, NEW u \in 0..m, b < a
  PROVE  b * (m + 1) - u < a * (m + 1) - t /\ a * (m + 1) - t \in Nat \ {0}
<1>1. PICK d \in Nat : a = b + 1 + d
  <2>1. a - b - 1 \in Nat /\ a = b + 1 + (a - b - 1)
    OBVIOUS
  <2>2. QED  BY <2>1
<1>2. a * (m + 1) = b * (m + 1) + (m + 1) + d * (m + 1)
  BY <1>1
<1>3. b * (m + 1) \in Nat /\ d * (m + 1) \in Nat
  OBVIOUS
<1>4. QED  BY <1>2, <1>3

LEMMA AnswerIsProgress ==
  ASSUME TypeOK, TypeOK', NEW c \in Calls, pc[c] \in Reads \cup Writes, Advance(c)
  PROVE  Work(c)' < Work(c)
<1>1. pc'[c] = After[pc[c]] /\ tries[c] \in 0..MaxRetries /\ tries'[c] \in 0..MaxRetries
  BY DEF Advance, TypeOK
<1>2. /\ StepsLeft[pc[c]] \in 1..7 /\ StepsLeft[pc'[c]] \in 1..7
      /\ StepsLeft[pc'[c]] < StepsLeft[pc[c]]
  BY <1>1, AfterIs, StepsLeftIs, ReadsAre DEF Writes
<1>3. QED  BY <1>1, <1>2, FewerIsLess DEF Work

LEMMA RetryIsProgress ==
  ASSUME TypeOK, NEW c \in Calls, Retry(c) PROVE Work(c)' < Work(c)
<1>1. pc' = pc /\ tries[c] \in 0..MaxRetries /\ tries'[c] = tries[c] + 1
  BY DEF Retry, CountRetry, TypeOK
<1>2. PICK n : n = StepsLeft[pc[c]] * (MaxRetries + 1)
  OBVIOUS
<1>3. StepsLeft[pc[c]] \in 1..7
  BY StepsLeftIs, ReadsAre DEF Retry, Writes
<1>4. n \in Int
  BY <1>2, <1>3
<1>5. Work(c) = n - tries[c] /\ Work(c)' = n - tries'[c]
  BY <1>1, <1>2 DEF Work
<1>6. QED  BY <1>1, <1>4, <1>5

LEMMA ReturnIsProgress ==
  ASSUME TypeOK, TypeOK', NEW c \in Calls,
         InitReturn(c) \/ GiveReturn(c) \/ UpReturn(c) \/ ResetReturn(c)
  PROVE  Ended(c)' \/ Work(c)' < Work(c)
<1>1. CASE pc'[c] \in Ends
  BY <1>1 DEF Ended
<1>2. CASE pc'[c] \notin Ends
  <2>1. pc[c] = "give_return" /\ pc'[c] = "up_read" /\ tries' = tries
    BY <1>2 DEF InitReturn, GiveReturn, UpReturn, ResetReturn, Return, TypeOK, Ends
  <2>2. tries[c] \in 0..MaxRetries
    BY DEF TypeOK
  <2>3. QED  BY <2>1, <2>2, StepsLeftIs, FewerIsLess DEF Work
<1>3. QED  BY <1>1, <1>2

LEMMA StepIsProgress ==
  ASSUME TypeOK, TypeOK', NEW c \in Calls, Step(c)
  PROVE  Ended(c)' \/ Work(c)' < Work(c)
<1>1. ReadAnswered(c) \/ ReadFailed(c) \/ WriteAnswered(c) \/ WriteFailed(c) => Work(c)' < Work(c)
  BY AnswerIsProgress DEF ReadAnswered, ReadFailed, WriteAnswered, WriteFailed
<1>2. QED  BY <1>1, RetryIsProgress, ReturnIsProgress DEF Step

LEMMA OnlyOwnSteps ==
  ASSUME TypeOK, NEW c \in Calls, InCall(c), [Next]_vars,
         pc'[c] # pc[c] \/ tries'[c] # tries[c]
  PROVE  Step(c)
<1>1. ASSUME NEW d \in Calls, StartInit(d) \/ EarnXp(d) \/ Reincarnate(d) PROVE FALSE
  BY <1>1 DEF StartInit, EarnXp, Reincarnate, Start, InCall, TypeOK
<1>2. ASSUME NEW d \in Calls, Step(d) PROVE d = c
  BY <1>2 DEF Step, ReadAnswered, ReadFailed, WriteAnswered, WriteFailed, Advance, Retry,
     CountRetry, InitReturn, GiveReturn, UpReturn, ResetReturn, Return, TypeOK
<1>3. ASSUME Fight \/ Rest \/ UNCHANGED vars \/ \E r \in late : ServeLate(r) PROVE FALSE
  BY <1>3 DEF Fight, Rest, vars, ServeLate
<1>4. QED  BY <1>1, <1>2, <1>3 DEF Next

LEMMA BoundedStep ==
  ASSUME TypeOK, TypeOK', [Next]_vars, NEW c \in Calls, InCall(c)
  PROVE  /\ Work(c) \in Nat \ {0}
         /\ Step(c) => Ended(c)' \/ Work(c)' < Work(c)
         /\ pc'[c] # pc[c] \/ tries'[c] # tries[c] => Step(c)
<1>1. StepsLeft[pc[c]] \in 1..7 /\ tries[c] \in 0..MaxRetries
  BY StepsLeftRange DEF TypeOK, InCall, Ended
<1>2. Work(c) \in Nat \ {0}
  <2>1. PICK n \in 1..7 : n = StepsLeft[pc[c]]
    BY <1>1
  <2>2. n * (MaxRetries + 1) - tries[c] \in Nat \ {0}
    BY <1>1, 0 < n, FewerIsLess
  <2>3. QED  BY <2>1, <2>2 DEF Work
<1>3. QED  BY <1>2, StepIsProgress, OnlyOwnSteps

\* client.hpp, AutoRetryUnary: whatever overlaps and fails, a coroutine of the game
\* has finitely many answers, failures and retries before it, so it ends if they come.
THEOREM EveryCallIsBounded == Spec => CallsAreBounded
<1> DEFINE Bounded == \A c \in Calls :
             InCall(c) =>
               /\ Work(c) \in Nat \ {0}
               /\ Step(c) => Ended(c)' \/ Work(c)' < Work(c)
               /\ pc'[c] # pc[c] \/ tries'[c] # tries[c] => Step(c)
<1>1. TypeOK /\ TypeOK' /\ [Next]_vars => Bounded
  BY BoundedStep
<1>2. QED  BY <1>1, TypesHold, PTL DEF Spec, CallsAreBounded
=============================================================================
