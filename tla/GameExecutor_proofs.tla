------------------------- MODULE GameExecutor_proofs -------------------------
(* Theorems about GameExecutor, for any jobs, workers and bounds.            *)
EXTENDS GameExecutor, TLAPS

-----------------------------------------------------------------------------
(* The jobs in the executor: batch \o ready. *)

Elems(q)    == {q[i] : i \in DOMAIN q}
Distinct(q) == \A a, b \in DOMAIN q : q[a] = q[b] => a = b

LEMMA AppendJob ==
  ASSUME NEW q \in Seq(Jobs), NEW j \in Jobs
  PROVE  /\ Append(q, j) \in Seq(Jobs)
         /\ Elems(Append(q, j)) = Elems(q) \cup {j}
         /\ Distinct(q) /\ j \notin Elems(q) => Distinct(Append(q, j))
<1>1. /\ Append(q, j) \in Seq(Jobs)
      /\ Len(q) \in Nat
      /\ DOMAIN q = 1..Len(q) /\ DOMAIN Append(q, j) = 1..(Len(q) + 1)
      /\ Append(q, j)[Len(q) + 1] = j
      /\ \A i \in 1..Len(q) : Append(q, j)[i] = q[i]
  OBVIOUS
<1>2. Elems(Append(q, j)) = Elems(q) \cup {j}
  BY <1>1 DEF Elems
<1>3. ASSUME Distinct(q), j \notin Elems(q) PROVE Distinct(Append(q, j))
  BY <1>1, <1>3 DEF Distinct, Elems
<1>4. QED  BY <1>1, <1>2, <1>3

LEMMA TailJob ==
  ASSUME NEW q \in Seq(Jobs), q # <<>>
  PROVE  /\ Tail(q) \in Seq(Jobs) /\ Head(q) \in Jobs
         /\ Head(q) \in Elems(q)
         /\ Distinct(q) => Elems(Tail(q)) = Elems(q) \ {Head(q)} /\ Distinct(Tail(q))
<1>1. /\ Tail(q) \in Seq(Jobs) /\ Head(q) \in Jobs /\ Head(q) = q[1]
      /\ Len(q) \in Nat /\ Len(q) > 0
      /\ DOMAIN q = 1..Len(q) /\ DOMAIN Tail(q) = 1..(Len(q) - 1)
      /\ \A i \in 1..(Len(q) - 1) : Tail(q)[i] = q[i + 1]
  OBVIOUS
<1>2. Head(q) \in Elems(q)
  BY <1>1 DEF Elems
<1>3. ASSUME Distinct(q) PROVE Elems(Tail(q)) = Elems(q) \ {Head(q)}
  <2>1. ASSUME NEW x \in Elems(Tail(q)) PROVE x \in Elems(q) \ {Head(q)}
    <3>1. PICK i \in 1..(Len(q) - 1) : x = q[i + 1]
      BY <1>1 DEF Elems
    <3>2. i + 1 \in DOMAIN q /\ 1 \in DOMAIN q /\ i + 1 # 1
      BY <1>1
    <3>3. QED  BY <1>1, <1>3, <3>1, <3>2 DEF Elems, Distinct
  <2>2. ASSUME NEW x \in Elems(q), x # Head(q) PROVE x \in Elems(Tail(q))
    <3>1. PICK i \in 1..Len(q) : x = q[i]
      BY <1>1 DEF Elems
    <3>2. i - 1 \in DOMAIN Tail(q) /\ Tail(q)[i - 1] = x
      BY <1>1, <2>2, <3>1
    <3>3. QED  BY <3>2 DEF Elems
  <2>3. QED  BY <2>1, <2>2
<1>4. ASSUME Distinct(q) PROVE Distinct(Tail(q))
  <2>1. SUFFICES ASSUME NEW a \in 1..(Len(q) - 1), NEW b \in 1..(Len(q) - 1),
                        q[a + 1] = q[b + 1]
                 PROVE  a = b
    BY <1>1 DEF Distinct
  <2>2. a + 1 \in DOMAIN q /\ b + 1 \in DOMAIN q
    BY <1>1
  <2>3. a + 1 = b + 1
    BY <1>4, <2>1, <2>2 DEF Distinct
  <2>4. QED  BY <1>1, <2>3
<1>5. QED  BY <1>1, <1>2, <1>3, <1>4

\* The two vectors, when a job is pushed back, taken, or the vectors swapped.
LEMMA TwoVectors ==
  ASSUME NEW b \in Seq(Jobs), NEW q \in Seq(Jobs), NEW j \in Jobs
  PROVE  /\ b \o q \in Seq(Jobs)
         /\ b \o Append(q, j) = Append(b \o q, j)
         /\ b = <<>> => b \o q = q /\ q \o <<>> = q
         /\ b # <<>> => /\ b \o q # <<>>
                        /\ Tail(b) \o q = Tail(b \o q)
                        /\ Head(b \o q) = Head(b)
<1>1. b \o q \in Seq(Jobs) /\ b \o Append(q, j) = Append(b \o q, j)
  OBVIOUS
<1>2. b = <<>> => b \o q = q
  OBVIOUS
<1>3. q \o <<>> = q
  OBVIOUS
<1>4. ASSUME b # <<>>
      PROVE  b \o q # <<>> /\ Head(b \o q) = Head(b)
  BY <1>4
<1>5. ASSUME b # <<>>
      PROVE  Tail(b) \o q = Tail(b \o q)
  BY <1>5
<1>6. QED  BY <1>1, <1>2, <1>3, <1>4, <1>5

-----------------------------------------------------------------------------
(* The invariant, with ExactlyOneWakeup said of the jobs in the two vectors. *)

entries == batch \o ready

OneWakeup ==
  alive =>
    /\ Distinct(entries)
    /\ \A j \in Jobs :
         /\ Handled(j) => j \notin Elems(entries)
         /\ Handled(j) \/ j \in Elems(entries) <=> status[j] = "suspended"

LEMMA WakeupSaid == TypeOK => (ExactlyOneWakeup <=> (~overtaken => OneWakeup))
<1> SUFFICES ASSUME TypeOK PROVE ExactlyOneWakeup <=> (~overtaken => OneWakeup)
  OBVIOUS
<1>1. entries \in Seq(Jobs) /\ \A i \in DOMAIN entries : entries[i] \in Jobs
  BY DEF TypeOK, entries
<1>2. \A j \in Jobs : Queued(j) = {i \in DOMAIN entries : entries[i] = j}
  BY DEF Queued, entries
<1>3. \A j \in Jobs : Queued(j) # {} <=> j \in Elems(entries)
  BY <1>2 DEF Elems
<1>4. Distinct(entries) <=> \A j \in Jobs : \A a, b \in Queued(j) : a = b
  BY <1>1, <1>2 DEF Distinct
<1>5. QED  BY <1>3, <1>4 DEF ExactlyOneWakeup, OneWakeup

\* What holds in any case, and what holds while the behaviour is defined.
Frames  == TypeOK /\ Confinement /\ GamePlace
Work    == OneWakeup /\ RemotesOK /\ ResultsOK
IInv    == Frames /\ (~overtaken => Work)

LEMMA InvariantSaid == IInv <=> GameInvariant
BY WakeupSaid DEF IInv, Frames, Work, GameInvariant

LEMMA Locations ==
  /\ \A point \in Points : Out(point) \in Location
  /\ \A j \in Jobs, point \in Points : In(point, j) \in Location
  /\ \A r \in Remotes, point \in Points : InRemote(point, r) \in Location
BY BoundsAssumption DEF In, Out, InRemote, Location, Remotes

LEMMA PlacesDiffer ==
  /\ \A a, j : Out(a).pc = a /\ In(a, j).pc = a
  /\ \A a, r : InRemote(a, r).pc = a
  /\ \A a, b : \A r, q \in Remotes : InRemote(a, r) = InRemote(b, q) => a = b /\ r = q
<1>1. \A r, q \in Remotes : r[1] = q[1] /\ r[2] = q[2] => r = q
  BY DEF Remotes
<1>2. ASSUME NEW a, NEW b, NEW r, NEW q, InRemote(a, r) = InRemote(b, q)
      PROVE  a = b /\ r[1] = q[1] /\ r[2] = q[2]
  <2>1. /\ InRemote(a, r).pc = a /\ InRemote(a, r).job = r[1] /\ InRemote(a, r).k = r[2]
        /\ InRemote(b, q).pc = b /\ InRemote(b, q).job = q[1] /\ InRemote(b, q).k = q[2]
    BY DEF InRemote
  <2>2. QED  BY <1>2, <2>1
<1>3. QED  BY <1>1, <1>2 DEF In, Out, InRemote

LEMMA InitInvariant == Init => IInv
<1> SUFFICES ASSUME Init PROVE IInv
  OBVIOUS
<1>1. TypeOK
  <2>1. at \in [Threads -> Location]
    BY Locations DEF Init, Points
  <2>2. crossed \in [Jobs -> 0..MaxCross] /\ ops \in [Remotes -> 0..MaxOps]
    BY BoundsAssumption DEF Init
  <2>3. ready \in Seq(Jobs) /\ batch \in Seq(Jobs)
    BY DEF Init
  <2>4. QED  BY <2>1, <2>2, <2>3 DEF Init, TypeOK, FrameStatus, Outcome
<1>2. Elems(entries) = {} /\ Distinct(entries)
  BY DEF Init, entries, Elems, Distinct
<1>3. Confinement /\ GamePlace
  BY ThreadsAssumption DEF Init, Confinement, GamePlace, Out, In, Threads
<1>4. OneWakeup /\ ResultsOK
  BY <1>2 DEF Init, OneWakeup, ResultsOK, Handled
<1>5. RemotesOK
  <2>1. \A t \in Threads : at[t].pc \in {"frame", "idle"}
    BY DEF Init, Out
  <2>2. \A t \in Threads, r \in Remotes, point \in Places : at[t] # InRemote(point, r)
    BY <2>1, PlacesDiffer DEF Places
  <2>3. \A t \in Threads, r \in Remotes : Knows(t, r) /\ ~Inside(t, r)
    BY <2>2 DEF Knows, Inside, Places
  <2>4. QED  BY <2>2, <2>3 DEF Init, RemotesOK, RemoteOK, Places
<1>6. QED  BY <1>1, <1>3, <1>4, <1>5 DEF IInv, Frames, Work

-----------------------------------------------------------------------------
(* Every step keeps the types. *)

LEMMA TypeStep == TypeOK /\ Next => TypeOK'
<1> SUFFICES ASSUME TypeOK, Next PROVE TypeOK'
  OBVIOUS
<1> USE Locations, BoundsAssumption
<1> USE DEF TypeOK, Go, crossVars, queueVars
<1>p. /\ \A j \in Jobs : Append(ready, j) \in Seq(Jobs)
      /\ batch # <<>> => Tail(batch) \in Seq(Jobs) /\ Head(batch) \in Jobs
      /\ <<>> \in Seq(Jobs)
  BY AppendJob, TailJob
<1>g. Game \in Threads /\ \A w \in Workers : w \in Threads
  BY DEF Threads
<1>m. \A j \in Jobs : MarkReady(j) => ready' \in Seq(Jobs)
  BY <1>p DEF MarkReady, PushBack
<1>1. CASE BeginUpdate
  BY <1>1, <1>g DEF BeginUpdate, Points
<1>2. CASE TakeReady
  BY <1>2, <1>g, <1>p DEF TakeReady, Swap, Points
<1>3. CASE ResumeNext
  BY <1>3, <1>g, <1>p DEF ResumeNext, Rest, Points, FrameStatus
<1>3a. CASE ResumeEnded
  BY <1>3a, <1>g, <1>p DEF ResumeEnded, Rest, Points
<1>4. ASSUME NEW j \in Jobs, Finish(j) PROVE TypeOK'
  BY <1>4, <1>g DEF Finish, Points, FrameStatus
<1>5. ASSUME NEW j \in Jobs, CheckJob(j) PROVE TypeOK'
  BY <1>5, <1>g DEF CheckJob, Points, FrameStatus
<1>6. ASSUME NEW j \in Jobs, SpawnCross(j) PROVE TypeOK'
  <2>1. crossed[j] + 1 \in 1..MaxCross /\ <<j, crossed[j] + 1>> \in Remotes
    BY <1>6 DEF SpawnCross, Remotes
  <2>2. QED  BY <1>6, <1>g, <2>1 DEF SpawnCross, Points, FrameStatus, Outcome
<1>7. CASE Quit
  BY <1>7, <1>g, <1>p DEF Quit, Points
<1>8. ASSUME NEW j \in Jobs, Spawn(j) PROVE TypeOK'
  BY <1>8, <1>m DEF Spawn, FrameStatus
<1>9. ASSUME NEW r \in Remotes, AwaitSuspend(r) \/ AwaitFreed(r) PROVE TypeOK'
  BY <1>9, <1>g DEF AwaitSuspend, AwaitFreed, Points, FrameStatus
<1>10. ASSUME NEW t \in Threads, NEW r \in Remotes, RemoteStep(t, r) PROVE TypeOK'
  <2>j. r[1] \in Jobs /\ InRemote("await", r) \in Location /\ InRemote("asked", r) \in Location
    BY DEF Remotes, Points
  <2>2. CASE AwaitOp(t, r)
    BY <2>2, <2>j DEF AwaitOp, Asks, FrameStatus
  <2>3. CASE EndChild(t, r)
    BY <2>3, <2>j DEF EndChild, Asks, FrameStatus
  <2>4. CASE AskChild(t, r) \/ AskFreed(t, r)
    BY <2>4 DEF AskChild, AskFreed, Points, FrameStatus
  <2>5. CASE Store(t, r) \/ StoreAgain(t, r)
    <3>1. CASE Store(t, r)
      <4>1. result' \in [Jobs -> Outcome]
        BY <2>j, <3>1 DEF Store, StoreResult, Outcome
      <4>2. QED  BY <3>1, <4>1 DEF Store, Points, FrameStatus
    <3>2. CASE StoreAgain(t, r)
      BY <2>j, <3>2 DEF StoreAgain, Points, Outcome
    <3>3. QED  BY <2>5, <3>1, <3>2
  <2>6. CASE HandOver(t, r)
    BY <2>6, <2>j, <1>m DEF HandOver, LaunchDone, Points, FrameStatus
  <2>7. CASE HandOverFreed(t, r) \/ FreeAgain(t, r)
    BY <2>7 DEF HandOverFreed, FreeAgain, Points
  <2>8. CASE TestRemote(t, r)
    BY <2>8, <2>j DEF TestRemote, Leave, Points, FrameStatus
  <2>9. QED  BY <1>10, <2>2, <2>3, <2>4, <2>5, <2>6, <2>7, <2>8 DEF RemoteStep
<1>11. ASSUME NEW w \in Workers, NEW r \in Remotes, Tick(w, r) PROVE TypeOK'
  BY <1>11, <1>g DEF Tick, Points, FrameStatus
<1>12. QED
  BY <1>1, <1>2, <1>3, <1>3a, <1>4, <1>5, <1>6, <1>7, <1>8, <1>9, <1>10, <1>11, <1>g
  DEF Next, GameStep, WorkerStep

-----------------------------------------------------------------------------
(* Where the game's thread is, whether or not the behaviour is defined. *)

\* A step of a remote takes one thread from a place in r to another one, outside
\* the bodies of the jobs and the code of the game.
Moves(t, r) ==
  /\ Inside(t, r)
  /\ at'[t].pc \notin {"body", "over", "frame"} /\ (t # Game => at'[t].pc # "check")
  /\ \A u \in Threads : u # t => at'[u] = at[u]
  /\ UNCHANGED <<alive, batch, status, crossed>>

LEMMA RemoteMoves ==
  ASSUME TypeOK, NEW t \in Threads, NEW r \in Remotes,
         RemoteStep(t, r) \/ (t = Game /\ (AwaitSuspend(r) \/ AwaitFreed(r)))
  PROVE  Moves(t, r)
<1> USE PlacesDiffer DEF TypeOK, Go, Asks, Leave, queueVars, Moves, Inside, Places
<1>1. CASE t = Game /\ (AwaitSuspend(r) \/ AwaitFreed(r))
  BY <1>1 DEF AwaitSuspend, AwaitFreed
<1>2. CASE AwaitOp(t, r)
  BY <1>2 DEF AwaitOp
<1>3. CASE EndChild(t, r)
  BY <1>3 DEF EndChild
<1>4. CASE AskChild(t, r)
  BY <1>4 DEF AskChild
<1>5. CASE AskFreed(t, r)
  BY <1>5 DEF AskFreed
<1>6. CASE Store(t, r)
  BY <1>6 DEF Store
<1>7. CASE StoreAgain(t, r)
  BY <1>7 DEF StoreAgain
<1>8. CASE HandOver(t, r)
  BY <1>8 DEF HandOver
<1>9. CASE HandOverFreed(t, r)
  BY <1>9 DEF HandOverFreed
<1>10. CASE TestRemote(t, r)
  BY <1>10 DEF TestRemote
<1>11. CASE FreeAgain(t, r)
  BY <1>11 DEF FreeAgain
<1>12. QED
  BY <1>1, <1>2, <1>3, <1>4, <1>5, <1>6, <1>7, <1>8, <1>9, <1>10, <1>11 DEF RemoteStep

LEMMA FramesStep == Frames /\ Next => Frames'
<1> SUFFICES ASSUME Frames, Next PROVE Confinement' /\ GamePlace'
  BY TypeStep DEF Frames
<1> USE DEF Frames, TypeOK, Go, crossVars
<1>g. Game \in Threads /\ \A w \in Workers : w \in Threads /\ w # Game
  BY ThreadsAssumption DEF Threads
<1>b. \A j \in Jobs : In("body", j).pc = "body" /\ In("check", j).pc = "check"
  BY PlacesDiffer
<1>1. CASE BeginUpdate
  BY <1>1, <1>g, <1>b DEF BeginUpdate, Confinement, GamePlace, Out
<1>2. CASE TakeReady
  BY <1>2, <1>g, <1>b DEF TakeReady, Swap, Confinement, GamePlace, Out
<1>3. CASE ResumeNext
  <2>1. Head(batch) \in Jobs
    BY <1>3, TailJob DEF ResumeNext
  <2>2. \A j \in Jobs : In("body", j) = In("body", Head(batch)) => j = Head(batch)
    BY DEF In
  <2>3. QED  BY <1>3, <1>g, <1>b, <2>1, <2>2 DEF ResumeNext, Confinement, GamePlace
<1>4. CASE ResumeEnded
  BY <1>4, <1>g, <1>b DEF ResumeEnded, Confinement, GamePlace, Out
<1>5. ASSUME NEW j \in Jobs, Finish(j) PROVE Confinement' /\ GamePlace'
  <2>1. \A i \in Jobs : In("body", i) = In("body", j) => i = j
    BY DEF In
  <2>2. QED  BY <1>5, <1>g, <1>b, <2>1 DEF Finish, Confinement, GamePlace
<1>6. ASSUME NEW j \in Jobs, CheckJob(j) PROVE Confinement' /\ GamePlace'
  <2>1. status' = IF status[j] = "done" THEN [status EXCEPT ![j] = "freed"] ELSE status
    BY <1>6 DEF CheckJob
  <2>2. QED  BY <1>6, <1>g, <1>b, <2>1 DEF CheckJob, Confinement, GamePlace, Out
<1>7. ASSUME NEW j \in Jobs, SpawnCross(j) PROVE Confinement' /\ GamePlace'
  <2>1. \A i \in Jobs : In("body", i) = In("body", j) => i = j
    BY DEF In
  <2>2. at'[Game].pc = "child" /\ \A t \in Threads : t # Game => at'[t] = at[t]
    BY <1>7, <1>g, PlacesDiffer DEF SpawnCross
  <2>3. QED  BY <1>7, <1>g, <1>b, <2>1, <2>2 DEF SpawnCross, Confinement, GamePlace
<1>8. CASE Quit
  BY <1>8, <1>g, <1>b DEF Quit, Confinement, GamePlace, Out
<1>9. ASSUME NEW j \in Jobs, Spawn(j) PROVE Confinement' /\ GamePlace'
  BY <1>9, <1>g, <1>b DEF Spawn, Confinement, GamePlace
<1>10. ASSUME NEW w \in Workers, NEW r \in Remotes, Tick(w, r) PROVE Confinement' /\ GamePlace'
  <2>1. at'[w].pc = "child" /\ \A t \in Threads : t # w => at'[t] = at[t]
    BY <1>10, <1>g, PlacesDiffer DEF Tick
  <2>2. QED  BY <1>10, <1>g, <2>1 DEF Tick, Confinement, GamePlace, queueVars
<1>11. ASSUME NEW t \in Threads, NEW r \in Remotes, Moves(t, r) PROVE Confinement' /\ GamePlace'
  <2>1. at[t].pc \notin {"body", "over", "frame", "check"}
    BY <1>11, PlacesDiffer DEF Moves, Inside, Places
  <2>2. Confinement'
    BY <1>11, <1>g, <1>b, <2>1 DEF Moves, Confinement
  <2>3. GamePlace'
    <3>1. CASE t = Game
      <4>1. alive /\ at[Game].pc \notin {"body", "over", "frame"}
        BY <2>1, <3>1 DEF GamePlace
      <4>2. QED  BY <1>11, <1>b, <3>1, <4>1 DEF Moves, GamePlace
    <3>2. CASE t # Game
      BY <1>11, <1>g, <3>2 DEF Moves, GamePlace
    <3>3. QED  BY <3>1, <3>2
  <2>4. QED  BY <2>2, <2>3
<1>12. QED
  BY <1>1, <1>2, <1>3, <1>4, <1>5, <1>6, <1>7, <1>8, <1>9, <1>10, <1>11, <1>g, RemoteMoves
  DEF Next, GameStep, WorkerStep

-----------------------------------------------------------------------------
(* The steps of the executor, while the behaviour is defined. *)

\* A remote is as it was when its frames and its job are, and no thread entered it.
LEMMA OthersKept ==
  ASSUME TypeOK, TypeOK', NEW r \in Remotes, RemoteOK(r),
         launch'[r] = launch[r], child'[r] = child[r],
         crossed'[r[1]] >= crossed[r[1]],
         launch[r] \in {"suspended", "running"} => UNCHANGED <<crossed[r[1]], status[r[1]]>>,
         launch[r] = "running" => UNCHANGED result[r[1]],
         \A t \in Threads : Inside(t, r)' => at'[t] = at[t]
  PROVE  RemoteOK(r)'
<1>1. r[1] \in Jobs /\ r[2] \in Nat /\ crossed[r[1]] \in Nat /\ crossed'[r[1]] \in Nat
  BY BoundsAssumption DEF TypeOK, Remotes
<1>2. ASSUME NEW t \in Threads PROVE Knows(t, r)'
  <2>1. CASE Inside(t, r)'
    <3>1. at'[t] = at[t] /\ Knows(t, r)
      BY <2>1 DEF RemoteOK
    <3>2. QED  BY <3>1 DEF Knows
  <2>2. CASE ~Inside(t, r)'
    BY <2>2 DEF Inside, Places, Knows
  <2>3. QED  BY <2>1, <2>2
<1>3. \A t \in Threads : Inside(t, r)' => Inside(t, r)
  BY DEF Inside
<1>4. \A t \in Threads : at'[t] = InRemote("child", r) => at[t] = InRemote("child", r)
  BY DEF Inside, Places
<1>5. QED  BY <1>1, <1>2, <1>3, <1>4 DEF RemoteOK

\* The steps outside the remotes: the job whose status changes has no unfinished
\* remote, and the game's thread enters none.
LEMMA RemotesKept ==
  ASSUME TypeOK, TypeOK', RemotesOK, UNCHANGED <<crossed, result, launch, child>>,
         \A t \in Threads : at'[t] = at[t] \/ at'[t].pc \notin Places,
         \A r \in Remotes : launch[r] \in {"suspended", "running"} => UNCHANGED status[r[1]],
         \A j \in Jobs : status'[j] = "unborn" => status[j] = "unborn"
  PROVE  RemotesOK'
<1>1. ASSUME NEW r \in Remotes PROVE RemoteOK(r)'
  <2>1. r[1] \in Jobs /\ crossed[r[1]] \in Nat
    BY BoundsAssumption DEF TypeOK, Remotes
  <2>2. \A t \in Threads : Inside(t, r)' => at'[t] = at[t]
    BY PlacesDiffer DEF Inside
  <2>3. RemoteOK(r) /\ crossed'[r[1]] >= crossed[r[1]]
    BY <2>1 DEF RemotesOK
  <2>4. QED  BY <2>2, <2>3, OthersKept
<1>2. QED  BY <1>1 DEF RemotesOK

LEMMA BeginUpdateWork == Frames /\ Work /\ TypeOK' /\ BeginUpdate => Work'
<1> SUFFICES ASSUME Frames, Work, TypeOK', BeginUpdate PROVE Work'
  OBVIOUS
<1> USE DEF Frames, Work, BeginUpdate, Go, TypeOK, crossVars
<1>1. RemotesOK'
  BY RemotesKept, PlacesDiffer DEF Places
<1>2. OneWakeup' /\ ResultsOK'
  BY DEF OneWakeup, ResultsOK, entries, Handled
<1>3. QED  BY <1>1, <1>2

LEMMA TakeReadyWork == Frames /\ Work /\ TypeOK' /\ TakeReady => Work'
<1> SUFFICES ASSUME Frames, Work, TypeOK', TakeReady PROVE Work'
  OBVIOUS
<1> USE DEF Frames, Work, TakeReady, Swap, Go, TypeOK, crossVars
<1>1. RemotesOK'
  BY RemotesKept, PlacesDiffer DEF Places
<1>2. entries' = entries
  BY DEF entries
<1>3. OneWakeup' /\ ResultsOK'
  BY <1>2 DEF OneWakeup, ResultsOK, Handled
<1>4. QED  BY <1>1, <1>3

\* The job at the head of the batch is suspended, and in the executor only.
LEMMA HeadOfBatch ==
  ASSUME Frames, Work, at[Game].pc = "update", batch # <<>>
  PROVE  /\ entries \in Seq(Jobs) /\ entries # <<>> /\ alive
         /\ Head(batch) = Head(entries) /\ Head(batch) \in Jobs
         /\ status[Head(batch)] = "suspended" /\ ~Handled(Head(batch))
<1> USE DEF Frames, Work, TypeOK
<1>1. /\ entries \in Seq(Jobs) /\ entries # <<>>
      /\ Head(batch) = Head(entries) /\ Head(batch) \in Jobs
  BY TwoVectors, TailJob DEF entries
<1>2. Head(batch) \in Elems(entries) /\ alive
  BY <1>1, TailJob DEF GamePlace
<1>3. QED  BY <1>1, <1>2 DEF OneWakeup

\* The unfinished remote of a job, if any, is the newest, which handles it.
LEMMA UnfinishedRemote ==
  ASSUME TypeOK, RemotesOK, NEW r \in Remotes, launch[r] \in {"suspended", "running"}
  PROVE  /\ r[1] \in Jobs /\ r[2] = crossed[r[1]] /\ r = <<r[1], crossed[r[1]]>>
         /\ Handled(r[1]) /\ status[r[1]] = "suspended"
<1>1. r[1] \in Jobs /\ r[2] \in 1..MaxCross /\ r = <<r[1], r[2]>>
  BY DEF Remotes
<1>2. r[2] = crossed[r[1]] /\ status[r[1]] = "suspended"
  BY DEF RemotesOK, RemoteOK
<1>3. QED  BY <1>1, <1>2 DEF Handled

LEMMA ResumeNextWork == Frames /\ Work /\ TypeOK' /\ ResumeNext => Work'
<1> SUFFICES ASSUME Frames, Work, TypeOK', ResumeNext PROVE Work'
  OBVIOUS
<1> USE DEF Frames, Work, ResumeNext, Rest, Go, TypeOK, crossVars
<1>h. PICK h \in Jobs : h = Head(batch)
  BY HeadOfBatch
<1>e. /\ entries \in Seq(Jobs) /\ entries # <<>> /\ alive /\ h = Head(entries)
      /\ status[h] = "suspended" /\ ~Handled(h) /\ entries' = Tail(entries)
  BY <1>h, HeadOfBatch, TwoVectors DEF entries
<1>1. RemotesOK'
  <2>1. \A r \in Remotes : launch[r] \in {"suspended", "running"} => r[1] # h
    BY <1>e, UnfinishedRemote
  <2>2. status' = [status EXCEPT ![h] = "running"] /\ \A r \in Remotes : r[1] \in Jobs
    BY <1>h DEF Remotes
  <2>3. \A t \in Threads : at'[t] = at[t] \/ at'[t].pc \notin Places
    BY PlacesDiffer DEF Places
  <2>4. QED  BY <2>1, <2>2, <2>3, RemotesKept
<1>2. OneWakeup'
  BY <1>h, <1>e, TailJob DEF OneWakeup, Handled
<1>3. ResultsOK'
  BY <1>h, <1>e DEF ResultsOK, Handled
<1>4. QED  BY <1>1, <1>2, <1>3

\* The job runs, so it is not in the executor and no remote will bring it back.
LEMMA RunningJob ==
  ASSUME Frames, Work, NEW j \in Jobs, at[Game] = In("body", j)
  PROVE  /\ status[j] = "running" /\ alive /\ ~Handled(j) /\ j \notin Elems(entries)
         /\ \A r \in Remotes : r[1] = j => launch[r] \notin {"suspended", "running"}
<1>1. status[j] = "running" /\ alive
  BY DEF Frames, GamePlace, In
<1>2. ~Handled(j) /\ j \notin Elems(entries)
  BY <1>1 DEF Work, OneWakeup
<1>3. QED  BY <1>1, <1>2, UnfinishedRemote DEF Frames, Work

LEMMA FinishWork ==
  ASSUME Frames, Work, TypeOK', NEW j \in Jobs, Finish(j) PROVE Work'
<1> USE DEF Frames, Work, Finish, Go, TypeOK, crossVars
<1>j. /\ status[j] = "running" /\ alive /\ ~Handled(j) /\ j \notin Elems(entries)
      /\ \A r \in Remotes : r[1] = j => launch[r] \notin {"suspended", "running"}
  BY RunningJob
<1>1. RemotesOK'
  <2>1. \A t \in Threads : at'[t] = at[t] \/ at'[t].pc \notin Places
    BY PlacesDiffer DEF Places
  <2>2. QED  BY <1>j, <2>1, RemotesKept DEF Remotes
<1>2. OneWakeup'
  BY <1>j DEF OneWakeup, entries, Handled
<1>3. ResultsOK'
  BY <1>j DEF ResultsOK, Handled
<1>4. QED  BY <1>1, <1>2, <1>3

LEMMA CheckJobWork ==
  ASSUME Frames, Work, TypeOK', NEW j \in Jobs, CheckJob(j) PROVE Work'
<1> USE DEF Frames, Work, CheckJob, Go, TypeOK, crossVars
<1>s. status' = IF status[j] = "done" THEN [status EXCEPT ![j] = "freed"] ELSE status
  OBVIOUS
<1>1. RemotesOK'
  <2>1. \A t \in Threads : at'[t] = at[t] \/ at'[t].pc \notin Places
    BY PlacesDiffer DEF Places
  <2>2. \A r \in Remotes : launch[r] \in {"suspended", "running"} => UNCHANGED status[r[1]]
    BY <1>s, UnfinishedRemote
  <2>3. QED  BY <1>s, <2>1, <2>2, RemotesKept
<1>2. OneWakeup' /\ ResultsOK'
  BY <1>s DEF OneWakeup, entries, ResultsOK, Handled
<1>3. QED  BY <1>1, <1>2

LEMMA QuitWork == Frames /\ Work /\ TypeOK' /\ Quit => Work'
<1> SUFFICES ASSUME Frames, Work, TypeOK', Quit PROVE Work'
  OBVIOUS
<1> USE DEF Frames, Work, Quit, Go, TypeOK, crossVars
<1>1. RemotesOK'
  BY RemotesKept, PlacesDiffer DEF Places
<1>2. OneWakeup' /\ ResultsOK'
  BY DEF OneWakeup, ResultsOK, Handled
<1>3. QED  BY <1>1, <1>2

\* A job without a wakeup that is made ready is in the executor once.
LEMMA MarkReadyEntries ==
  ASSUME Frames, Work, NEW j \in Jobs, alive, j \notin Elems(entries), MarkReady(j),
         UNCHANGED batch
  PROVE  Elems(entries') = Elems(entries) \cup {j} /\ Distinct(entries')
<1>1. batch \in Seq(Jobs) /\ ready \in Seq(Jobs) /\ entries \in Seq(Jobs) /\ Distinct(entries)
  BY TwoVectors DEF Frames, Work, TypeOK, OneWakeup, entries
<1>2. entries' = Append(entries, j)
  BY <1>1, TwoVectors DEF MarkReady, PushBack, entries
<1>3. QED  BY <1>1, <1>2, AppendJob

LEMMA SpawnWork ==
  ASSUME Frames, Work, TypeOK', NEW j \in Jobs, Spawn(j) PROVE Work'
<1> USE DEF Frames, Work, Spawn, TypeOK, crossVars
<1>j. alive /\ crossed[j] = 0 /\ ~Handled(j)
  BY DEF GamePlace, RemotesOK, Handled
<1>e. j \notin Elems(entries)
  BY <1>j DEF OneWakeup
<1>q. Elems(entries') = Elems(entries) \cup {j} /\ Distinct(entries')
  BY <1>j, <1>e, MarkReadyEntries
<1>1. RemotesOK'
  <2>1. \A r \in Remotes : launch[r] \in {"suspended", "running"} => r[1] # j
    BY UnfinishedRemote
  <2>2. QED  BY <2>1, RemotesKept DEF Remotes
<1>2. OneWakeup'
  BY <1>j, <1>q DEF OneWakeup, Handled
<1>3. ResultsOK'
  BY <1>j DEF ResultsOK, Handled
<1>4. QED  BY <1>1, <1>2, <1>3

-----------------------------------------------------------------------------
(* The steps of SpawnCrossTask, while the behaviour is defined. *)

LEMMA SpawnCrossWork ==
  ASSUME Frames, Work, TypeOK', NEW j \in Jobs, SpawnCross(j) PROVE Work'
<1> USE DEF Frames, Work, TypeOK
<1>j. /\ status[j] = "running" /\ alive /\ ~Handled(j) /\ j \notin Elems(entries)
      /\ \A q \in Remotes : q[1] = j => launch[q] \notin {"suspended", "running"}
  BY RunningJob DEF SpawnCross
<1>r. PICK r \in Remotes : r = <<j, crossed[j] + 1>>
  BY DEF SpawnCross, Remotes
<1>n. r[1] = j /\ r[2] = crossed[j] + 1 /\ r[2] > crossed[j] /\ r[2] \in Nat
  BY <1>r, BoundsAssumption
<1>a. /\ crossed' = [crossed EXCEPT ![j] = r[2]]
      /\ launch' = [launch EXCEPT ![r] = "suspended"]
      /\ child' = [child EXCEPT ![r] = "running"]
      /\ at' = [at EXCEPT ![Game] = InRemote("child", r)]
      /\ status' = [status EXCEPT ![j] = "suspended"]
      /\ result' = [result EXCEPT ![j] = "none"]
      /\ UNCHANGED <<alive, ready, batch>>
  BY <1>r, <1>n DEF SpawnCross, Go
<1>g. Game \in Threads /\ at[Game].pc = "body"
  BY PlacesDiffer DEF SpawnCross, Threads
<1>h. Handled(j)' /\ \A i \in Jobs : i # j => (Handled(i)' <=> Handled(i))
  <2>1. r = <<j, crossed'[j]>> /\ crossed'[j] > 0
    BY <1>r, <1>n, <1>a
  <2>2. Handled(j)'
    BY <1>a, <2>1 DEF Handled
  <2>3. ASSUME NEW i \in Jobs, i # j PROVE Handled(i)' <=> Handled(i)
    <3>1. crossed'[i] = crossed[i] /\ <<i, crossed[i]>> # r
      BY <1>a, <1>r, <2>3
    <3>2. CASE crossed[i] > 0
      <4>1. <<i, crossed[i]>> \in Remotes
        BY <3>2, BoundsAssumption DEF Remotes
      <4>2. QED  BY <1>a, <3>1, <4>1 DEF Handled
    <3>3. CASE ~(crossed[i] > 0)
      BY <3>1, <3>3 DEF Handled
    <3>4. QED  BY <3>2, <3>3
  <2>4. QED  BY <2>2, <2>3
<1>1. OneWakeup'
  BY <1>a, <1>h, <1>j DEF OneWakeup, entries
<1>2. ResultsOK'
  BY <1>a, <1>h DEF ResultsOK
<1>3. ASSUME NEW q \in Remotes, q # r PROVE RemoteOK(q)'
  <2>1. launch'[q] = launch[q] /\ child'[q] = child[q] /\ RemoteOK(q) /\ q[1] \in Jobs
    BY <1>a, <1>3 DEF RemotesOK, Remotes
  <2>2. crossed'[q[1]] >= crossed[q[1]]
    BY <1>a, <1>n, <2>1, BoundsAssumption
  <2>3. launch[q] \in {"suspended", "running"} =>
          UNCHANGED <<crossed[q[1]], status[q[1]], result[q[1]]>>
    BY <1>a, <1>j, <2>1
  <2>4. \A t \in Threads : Inside(t, q)' => at'[t] = at[t]
    BY <1>a, <1>g, <1>3, PlacesDiffer DEF Inside
  <2>5. QED  BY <2>1, <2>2, <2>3, <2>4, OthersKept
<1>4. \A t \in Threads : ~Inside(t, r)
  <2>1. launch[r] = "unborn" /\ \A t \in Threads : Knows(t, r)
    BY <1>n DEF RemotesOK, RemoteOK
  <2>2. QED  BY <2>1 DEF Knows, Inside, Places
<1>5. RemoteOK(r)'
  <2>1. /\ crossed'[r[1]] = r[2] /\ status'[r[1]] = "suspended"
        /\ launch'[r] = "suspended" /\ child'[r] = "running"
    BY <1>a, <1>n
  <2>2. \A t \in Threads : Inside(t, r)' => t = Game
    BY <1>a, <1>4 DEF Inside
  <2>3. \A t \in Threads : Knows(t, r)'
    <3>1. Knows(Game, r)'
      BY <1>a, <1>g, <2>1, PlacesDiffer DEF Knows
    <3>2. \A t \in Threads : t # Game => Knows(t, r)'
      BY <2>2 DEF Knows, Inside, Places
    <3>3. QED  BY <3>1, <3>2
  <2>4. QED  BY <1>n, <2>1, <2>2, <2>3 DEF RemoteOK, Inside, Places
<1>6. RemotesOK'
  BY <1>3, <1>5, <1>a DEF RemotesOK
<1>7. QED  BY <1>1, <1>2, <1>6

\* A step of thread t in r, with what it does to r's frames: the other remotes
\* are as they were, and the jobs too but for the one r is for.
LEMMA OthersUntouched ==
  ASSUME Frames, Work, TypeOK', NEW t \in Threads, NEW r \in Remotes, Moves(t, r),
         \A q \in Remotes : q # r => launch'[q] = launch[q] /\ child'[q] = child[q],
         \A q \in Remotes : Inside(t, q)' => q = r,
         result' = result \/
           (launch[r] = "running" /\ \A j \in Jobs : j # r[1] => result'[j] = result[j])
  PROVE  /\ RemoteOK(r)' => RemotesOK'
         /\ \A j \in Jobs : j # r[1] => (Handled(j)' <=> Handled(j))
<1> USE DEF Frames, Work, Moves
<1>1. ASSUME NEW q \in Remotes, q # r PROVE RemoteOK(q)'
  <2>1. RemoteOK(q) /\ q[1] \in Jobs /\ crossed[q[1]] \in Nat
    BY BoundsAssumption DEF RemotesOK, Remotes, TypeOK
  <2>2. launch[q] = "running" => UNCHANGED result[q[1]]
    BY <1>1, <2>1, UnfinishedRemote
  <2>3. \A u \in Threads : Inside(u, q)' => at'[u] = at[u]
    BY <1>1
  <2>4. QED  BY <1>1, <2>1, <2>2, <2>3, OthersKept
<1>2. RemoteOK(r)' => RemotesOK'
  BY <1>1 DEF RemotesOK
<1>3. ASSUME NEW j \in Jobs, j # r[1] PROVE Handled(j)' <=> Handled(j)
  <2>1. CASE crossed[j] > 0
    <3>1. <<j, crossed[j]>> \in Remotes /\ <<j, crossed[j]>> # r
      BY <1>3, <2>1, BoundsAssumption DEF TypeOK, Remotes
    <3>2. QED  BY <3>1 DEF Handled
  <2>2. CASE ~(crossed[j] > 0)
    BY <2>2 DEF Handled
  <2>3. QED  BY <2>1, <2>2
<1>4. QED  BY <1>2, <1>3

\* Whether r is unfinished says whether its job is handled, if r is the newest.
LEMMA HandledBy ==
  ASSUME NEW r \in Remotes, r[2] = crossed[r[1]]
  PROVE  Handled(r[1]) <=> launch[r] \in {"suspended", "running"}
<1>1. r = <<r[1], crossed[r[1]]>> /\ crossed[r[1]] > 0
  BY DEF Remotes
<1>2. QED  BY <1>1 DEF Handled

\* A step that leaves r unfinished disturbs nothing but r.
LEMMA UnfinishedWork ==
  ASSUME Frames, Work, TypeOK', NEW t \in Threads, NEW r \in Remotes, Moves(t, r),
         \A q \in Remotes : q # r => launch'[q] = launch[q] /\ child'[q] = child[q],
         \A q \in Remotes : Inside(t, q)' => q = r,
         result' = result \/
           (launch[r] = "running" /\ \A j \in Jobs : j # r[1] => result'[j] = result[j]),
         launch[r] \in {"suspended", "running"} <=> launch'[r] \in {"suspended", "running"},
         UNCHANGED ready, RemoteOK(r)'
  PROVE  Work'
<1>1. RemotesOK' /\ \A j \in Jobs : j # r[1] => (Handled(j)' <=> Handled(j))
  BY OthersUntouched
<1> USE DEF Frames, Work, Moves
<1>2. Handled(r[1])' <=> Handled(r[1])
  <2>1. CASE r[2] = crossed[r[1]]
    <3>1. Handled(r[1]) <=> launch[r] \in {"suspended", "running"}
      BY <2>1, HandledBy
    <3>2. Handled(r[1])' <=> launch'[r] \in {"suspended", "running"}
      <4>1. r = <<r[1], crossed'[r[1]]>> /\ crossed'[r[1]] > 0
        BY <2>1 DEF Remotes
      <4>2. QED  BY <4>1 DEF Handled
    <3>3. QED  BY <3>1, <3>2
  <2>2. CASE r[2] # crossed[r[1]]
    <3>1. CASE crossed[r[1]] > 0
      <4>1. <<r[1], crossed[r[1]]>> \in Remotes /\ <<r[1], crossed[r[1]]>> # r
        BY <2>2, <3>1, BoundsAssumption DEF TypeOK, Remotes
      <4>2. QED  BY <4>1 DEF Handled
    <3>2. CASE ~(crossed[r[1]] > 0)
      BY <3>2 DEF Handled
    <3>3. QED  BY <3>1, <3>2
  <2>3. QED  BY <2>1, <2>2
<1>3. \A j \in Jobs : Handled(j)' <=> Handled(j)
  BY <1>1, <1>2
<1>4. OneWakeup'
  BY <1>3 DEF OneWakeup, entries
<1>5. ResultsOK'
  <2>1. ASSUME NEW j \in Jobs, ~Handled(j) PROVE result'[j] = result[j]
    <3>1. launch[r] = "running" => Handled(r[1])
      BY UnfinishedRemote
    <3>2. QED  BY <2>1, <3>1
  <2>2. QED  BY <1>3, <2>1 DEF ResultsOK
<1>6. QED  BY <1>1, <1>4, <1>5

\* What t, inside r, knows of r, and whom it meets there.
LEMMA InsideRemote ==
  ASSUME Frames, Work, NEW t \in Threads, NEW r \in Remotes, Inside(t, r)
  PROVE  /\ RemoteOK(r) /\ Knows(t, r) /\ launch[r] # "unborn"
         /\ ~(r[2] > crossed[r[1]])
         /\ child[r] \in {"done", "freed"} => \A u \in Threads : Inside(u, r) => u = t
<1>1. RemoteOK(r)
  BY DEF Work, RemotesOK
<1>2. Knows(t, r)
  BY <1>1 DEF RemoteOK
<1>3. launch[r] # "unborn"
  BY <1>2 DEF Knows, Inside, Places
<1>4. QED  BY <1>1, <1>2, <1>3 DEF RemoteOK

\* The places in r are different ones.
LEMMA PlacesIn ==
  ASSUME NEW r \in Remotes
  PROVE  \A a, b : InRemote(a, r) = InRemote(b, r) => a = b
BY PlacesDiffer

LEMMA AwaitOpWork ==
  ASSUME Frames, Work, TypeOK', NEW t \in Threads, NEW r \in Remotes, AwaitOp(t, r)
  PROVE  Work'
<1>m. Moves(t, r)
  BY RemoteMoves DEF RemoteStep, Frames
<1>a. /\ at[t] = InRemote("child", r) /\ at'[t] \in {InRemote("await", r), InRemote("asked", r)}
      /\ \A u \in Threads : u # t => at'[u] = at[u]
      /\ child' = [child EXCEPT ![r] = "suspended"] /\ child'[r] = "suspended"
      /\ UNCHANGED <<ready, launch, result, crossed, status>>
  BY DEF AwaitOp, Asks, Go, queueVars, Frames, TypeOK
<1>k. RemoteOK(r) /\ Knows(t, r) /\ launch[r] = "suspended" /\ child[r] = "running"
  BY <1>a, <1>m, InsideRemote DEF Moves, Knows
<1>1. RemoteOK(r)'
  <2>1. ASSUME NEW u \in Threads PROVE Knows(u, r)' /\ at'[u] # InRemote("child", r)
    <3>1. CASE u = t
      BY <1>a, <1>k, <3>1, PlacesIn DEF Knows
    <3>2. CASE u # t
      BY <1>a, <1>k, <3>2 DEF Knows, RemoteOK
    <3>3. QED  BY <3>1, <3>2
  <2>2. QED  BY <1>a, <1>k, <2>1 DEF RemoteOK
<1>2. \A q \in Remotes : Inside(t, q)' => q = r
  BY <1>a, PlacesDiffer DEF Inside
<1>3. \A q \in Remotes : q # r => launch'[q] = launch[q] /\ child'[q] = child[q]
  BY <1>a DEF Frames, TypeOK
<1>4. QED  BY <1>m, <1>a, <1>1, <1>2, <1>3, UnfinishedWork

LEMMA EndChildWork ==
  ASSUME Frames, Work, TypeOK', NEW t \in Threads, NEW r \in Remotes, EndChild(t, r),
         ~overtaken'
  PROVE  Work'
<1>m. Moves(t, r)
  BY RemoteMoves DEF RemoteStep, Frames
<1>a. /\ at[t] = InRemote("child", r) /\ at'[t] \in {InRemote("await", r), InRemote("asked", r)}
      /\ \A u \in Threads : u # t => at'[u] = at[u] /\ ~Inside(u, r)
      /\ child' = [child EXCEPT ![r] = "done"] /\ child'[r] = "done"
      /\ UNCHANGED <<ready, launch, result, crossed, status>>
  BY DEF EndChild, Asks, Go, queueVars, Frames, TypeOK
<1>k. RemoteOK(r) /\ Knows(t, r) /\ launch[r] = "suspended" /\ child[r] = "running"
  BY <1>a, <1>m, InsideRemote DEF Moves, Knows
<1>1. RemoteOK(r)'
  <2>1. \A u \in Threads : Inside(u, r)' => u = t
    BY <1>a DEF Inside
  <2>2. ASSUME NEW u \in Threads PROVE Knows(u, r)'
    <3>1. CASE u = t
      BY <1>a, <1>k, <3>1, PlacesIn DEF Knows
    <3>2. CASE u # t
      BY <2>1, <3>2 DEF Knows, Inside, Places
    <3>3. QED  BY <3>1, <3>2
  <2>3. QED  BY <1>a, <1>k, <2>1, <2>2 DEF RemoteOK, Inside, Places
<1>2. \A q \in Remotes : Inside(t, q)' => q = r
  BY <1>a, PlacesDiffer DEF Inside
<1>3. \A q \in Remotes : q # r => launch'[q] = launch[q] /\ child'[q] = child[q]
  BY <1>a DEF Frames, TypeOK
<1>4. QED  BY <1>m, <1>a, <1>1, <1>2, <1>3, UnfinishedWork

\* Line 161 and line 44: the child is done, and nobody else is there; or it goes
\* on without the thread that asked.
LEMMA AskedWork ==
  ASSUME Frames, Work, TypeOK', NEW t \in Threads, NEW r \in Remotes, Moves(t, r),
         at[t] \in {InRemote("await", r), InRemote("asked", r)},
         UNCHANGED <<ready, child, result, crossed, status>>,
         \/ /\ child[r] = "done"
            /\ launch' = [launch EXCEPT ![r] = "running"] /\ at'[t] = InRemote("store", r)
         \/ /\ child[r] \in {"suspended", "running"} /\ UNCHANGED launch
            /\ at'[t] = InRemote("test", r) \/ at'[t] = Out("idle")
  PROVE  Work'
<1>k. /\ RemoteOK(r) /\ launch[r] = "suspended" /\ ~(r[2] > crossed[r[1]])
      /\ child[r] = "done" => \A u \in Threads : Inside(u, r) => u = t
  BY InsideRemote DEF Moves, Knows
<1>a. \A u \in Threads : u # t => at'[u] = at[u]
  BY DEF Moves
<1>o. \A q \in Remotes : ~Inside(t, q)' \/ q = r
  BY PlacesDiffer DEF Inside, Places
<1>l. launch'[r] \in {"suspended", "running"}
      /\ \A q \in Remotes : q # r => launch'[q] = launch[q] /\ child'[q] = child[q]
  BY <1>k DEF Frames, TypeOK
<1>1. CASE child[r] = "done"
  <2>1. at'[t] = InRemote("store", r) /\ launch'[r] = "running"
    BY <1>1 DEF Frames, TypeOK
  <2>2. \A u \in Threads : Inside(u, r)' => u = t
    BY <1>1, <1>a, <1>k DEF Inside
  <2>3. ASSUME NEW u \in Threads PROVE Knows(u, r)'
    <3>1. CASE u = t
      BY <1>1, <2>1, <3>1, PlacesIn DEF Knows
    <3>2. CASE u # t
      BY <2>2, <3>2 DEF Knows, Inside, Places
    <3>3. QED  BY <3>1, <3>2
  <2>4. RemoteOK(r)'
    BY <1>1, <1>k, <2>1, <2>2, <2>3 DEF RemoteOK, Inside, Places
  <2>5. QED  BY <1>k, <1>l, <1>o, <2>4, UnfinishedWork
<1>2. CASE child[r] # "done"
  <2>1. /\ child[r] \in {"suspended", "running"} /\ UNCHANGED launch
        /\ at'[t] = InRemote("test", r) \/ at'[t] = Out("idle")
    BY <1>2
  <2>2. \A point \in Places : at'[t] = InRemote(point, r) => point = "test"
    BY <2>1, PlacesDiffer DEF Places
  <2>3. ASSUME NEW u \in Threads PROVE Knows(u, r)'
    <3>1. CASE u = t
      BY <1>k, <2>1, <2>2, <3>1 DEF Knows, Places
    <3>2. CASE u # t
      BY <1>a, <1>k, <2>1, <3>2 DEF Knows, RemoteOK
    <3>3. QED  BY <3>1, <3>2
  <2>4. \A u \in Threads : at'[u] = InRemote("child", r) => at[u] = InRemote("child", r)
    BY <1>a, <2>2 DEF Places
  <2>5. RemoteOK(r)'
    BY <1>k, <2>1, <2>3, <2>4 DEF RemoteOK
  <2>6. QED  BY <1>k, <1>l, <1>o, <2>5, UnfinishedWork
<1>3. QED  BY <1>1, <1>2

LEMMA AwaitSuspendWork ==
  ASSUME Frames, Work, TypeOK', NEW r \in Remotes, AwaitSuspend(r) \/ AwaitFreed(r)
  PROVE  Work'
<1>g. Game \in Threads
  BY DEF Threads
<1>m. Moves(Game, r) /\ at[Game] = InRemote("await", r)
  BY <1>g, RemoteMoves DEF Frames, AwaitSuspend, AwaitFreed
<1>k. Knows(Game, r)
  BY <1>g, <1>m, InsideRemote DEF Moves
<1>1. AwaitSuspend(r)
  BY <1>k, <1>m DEF AwaitFreed, Knows
<1>2. QED
  BY <1>g, <1>m, <1>1, AskedWork DEF AwaitSuspend, Go, queueVars, Frames, TypeOK

LEMMA AskChildWork ==
  ASSUME Frames, Work, TypeOK', NEW t \in Threads, NEW r \in Remotes,
         AskChild(t, r) \/ AskFreed(t, r)
  PROVE  Work'
<1>m. Moves(t, r) /\ at[t] = InRemote("asked", r)
  BY RemoteMoves DEF RemoteStep, Frames, AskChild, AskFreed
<1>k. Knows(t, r)
  BY <1>m, InsideRemote DEF Moves
<1>1. AskChild(t, r)
  BY <1>k, <1>m DEF AskFreed, Knows
<1>2. QED
  BY <1>m, <1>1, AskedWork DEF AskChild, Go, queueVars, Frames, TypeOK

LEMMA StoreWork ==
  ASSUME Frames, Work, TypeOK', NEW t \in Threads, NEW r \in Remotes,
         Store(t, r) \/ StoreAgain(t, r)
  PROVE  Work'
<1>m. Moves(t, r) /\ at[t] = InRemote("store", r)
  BY RemoteMoves DEF RemoteStep, Frames, Store, StoreAgain
<1>k. /\ RemoteOK(r) /\ launch[r] = "running" /\ child[r] = "done"
      /\ ~(r[2] > crossed[r[1]]) /\ \A u \in Threads : Inside(u, r) => u = t
  BY <1>m, InsideRemote DEF Moves, Knows
<1>s. Store(t, r)
  BY <1>k DEF StoreAgain
<1>j. r[1] \in Jobs /\ r[2] = crossed[r[1]] /\ status[r[1]] = "suspended"
  BY <1>k DEF RemoteOK, Remotes
<1>a. /\ at'[t] = InRemote("hand", r) /\ \A u \in Threads : u # t => at'[u] = at[u]
      /\ child' = [child EXCEPT ![r] = "freed"] /\ child'[r] = "freed"
      /\ UNCHANGED <<ready, launch, crossed, status>>
  BY <1>s DEF Store, Go, queueVars, Frames, TypeOK
<1>v. result' = [result EXCEPT ![r[1]] = "value"] /\ result'[r[1]] = "value"
  BY <1>s, <1>j DEF Store, StoreResult, Frames, TypeOK
<1>1. \A u \in Threads : Inside(u, r)' => u = t
  BY <1>a, <1>k DEF Inside
<1>2. ASSUME NEW u \in Threads PROVE Knows(u, r)'
  <2>1. CASE u = t
    BY <1>a, <1>k, <1>v, <2>1, PlacesIn DEF Knows
  <2>2. CASE u # t
    BY <1>1, <2>2 DEF Knows, Inside, Places
  <2>3. QED  BY <2>1, <2>2
<1>3. RemoteOK(r)'
  BY <1>a, <1>k, <1>1, <1>2 DEF RemoteOK, Inside, Places
<1>4. \A q \in Remotes : Inside(t, q)' => q = r
  BY <1>a, PlacesDiffer DEF Inside
<1>5. \A q \in Remotes : q # r => launch'[q] = launch[q] /\ child'[q] = child[q]
  BY <1>a DEF Frames, TypeOK
<1>6. \A j \in Jobs : j # r[1] => result'[j] = result[j]
  BY <1>v DEF Frames, TypeOK
<1>7. QED  BY <1>m, <1>a, <1>k, <1>3, <1>4, <1>5, <1>6, UnfinishedWork

LEMMA HandOverWork ==
  ASSUME Frames, Work, TypeOK', NEW t \in Threads, NEW r \in Remotes,
         HandOver(t, r) \/ HandOverFreed(t, r)
  PROVE  Work'
<1>m. Moves(t, r) /\ at[t] = InRemote("hand", r)
  BY RemoteMoves DEF RemoteStep, Frames, HandOver, HandOverFreed
<1>k. /\ RemoteOK(r) /\ launch[r] = "running" /\ child[r] = "freed"
      /\ result[r[1]] = "value"
      /\ ~(r[2] > crossed[r[1]]) /\ \A u \in Threads : Inside(u, r) => u = t
  BY <1>m, InsideRemote DEF Moves, Knows
<1>j. /\ r[1] \in Jobs /\ r[2] = crossed[r[1]] /\ status[r[1]] = "suspended"
      /\ Handled(r[1]) /\ r = <<r[1], crossed[r[1]]>>
  BY <1>k, UnfinishedRemote DEF Frames, Work
<1>s. HandOver(t, r)
  BY <1>j DEF HandOverFreed
<1>a. /\ at'[t] = InRemote("test", r) /\ \A u \in Threads : u # t => at'[u] = at[u]
      /\ launch' = [launch EXCEPT ![r] = "done"] /\ launch'[r] = "done"
      /\ MarkReady(r[1])
      /\ UNCHANGED <<alive, batch, child, result, crossed, status>>
  BY <1>s, <1>k DEF HandOver, LaunchDone, Go, queueVars, Frames, TypeOK
<1>1. \A u \in Threads : Inside(u, r)' => u = t
  BY <1>a, <1>k DEF Inside
<1>2. ASSUME NEW u \in Threads PROVE Knows(u, r)'
  <2>1. CASE u = t
    BY <1>a, <1>k, <2>1, PlacesIn DEF Knows
  <2>2. CASE u # t
    BY <1>1, <2>2 DEF Knows, Inside, Places
  <2>3. QED  BY <2>1, <2>2
<1>3. RemoteOK(r)'
  BY <1>a, <1>k, <1>1, <1>2 DEF RemoteOK, Inside, Places
<1>4. \A q \in Remotes : Inside(t, q)' => q = r
  BY <1>a, PlacesDiffer DEF Inside
<1>5. \A q \in Remotes : q # r => launch'[q] = launch[q] /\ child'[q] = child[q]
  BY <1>a DEF Frames, TypeOK
<1>6. RemotesOK' /\ \A j \in Jobs : j # r[1] => (Handled(j)' <=> Handled(j))
  BY <1>m, <1>a, <1>3, <1>4, <1>5, OthersUntouched
<1>h. ~Handled(r[1])'
  BY <1>a, <1>j DEF Handled
<1>7. OneWakeup'
  <2>1. ASSUME alive PROVE OneWakeup'
    <3>1. r[1] \notin Elems(entries)
      BY <1>j, <2>1 DEF Work, OneWakeup
    <3>2. Elems(entries') = Elems(entries) \cup {r[1]} /\ Distinct(entries')
      BY <1>a, <1>j, <2>1, <3>1, MarkReadyEntries
    <3>3. QED  BY <1>6, <1>h, <1>a, <1>j, <2>1, <3>2 DEF Work, OneWakeup
  <2>2. QED  BY <1>a, <2>1 DEF OneWakeup
<1>8. ResultsOK'
  BY <1>6, <1>a, <1>k DEF Work, ResultsOK
<1>9. QED  BY <1>6, <1>7, <1>8 DEF Work

LEMMA TestRemoteWork ==
  ASSUME Frames, Work, TypeOK', NEW t \in Threads, NEW r \in Remotes,
         TestRemote(t, r) \/ FreeAgain(t, r)
  PROVE  Work'
<1>m. Moves(t, r) /\ at[t] = InRemote("test", r)
  BY RemoteMoves DEF RemoteStep, Frames, TestRemote, FreeAgain
<1>k. /\ RemoteOK(r) /\ ~(r[2] > crossed[r[1]])
      /\ \/ launch[r] = "suspended" /\ child[r] \in {"suspended", "running"}
         \/ launch[r] = "done" /\ child[r] = "freed"
      /\ child[r] = "freed" => \A u \in Threads : Inside(u, r) => u = t
  BY <1>m, InsideRemote DEF Moves, Knows
<1>s. TestRemote(t, r)
  BY <1>k DEF FreeAgain
<1>a. /\ \A u \in Threads : u # t => at'[u] = at[u]
      /\ at'[t].pc \in {"check", "idle"}
      /\ launch[r] = "done" => launch' = [launch EXCEPT ![r] = "freed"] /\ launch'[r] = "freed"
      /\ launch[r] = "suspended" => launch' = launch
      /\ UNCHANGED <<ready, child, result, crossed, status>>
  BY <1>s, PlacesDiffer DEF TestRemote, Leave, Go, queueVars, Frames, TypeOK
<1>o. \A q \in Remotes : ~Inside(t, q)'
  BY <1>a, PlacesDiffer DEF Inside, Places
<1>1. \A u \in Threads : Inside(u, r)' => u # t /\ Inside(u, r) /\ at'[u] = at[u]
  BY <1>a, <1>o DEF Inside
<1>2. ASSUME NEW u \in Threads PROVE Knows(u, r)'
  <2>1. CASE Inside(u, r)'
    BY <1>1, <1>a, <1>k, <2>1 DEF Knows, RemoteOK
  <2>2. CASE ~Inside(u, r)'
    BY <2>2 DEF Knows, Inside, Places
  <2>3. QED  BY <2>1, <2>2
<1>c. \A u \in Threads : at'[u] = InRemote("child", r) => at[u] = InRemote("child", r)
  BY <1>1 DEF Inside, Places
<1>3. RemoteOK(r)'
  BY <1>a, <1>k, <1>1, <1>2, <1>c DEF RemoteOK
<1>4. \A q \in Remotes : q # r => launch'[q] = launch[q] /\ child'[q] = child[q]
  BY <1>s DEF TestRemote, Frames, TypeOK
<1>5. launch[r] \in {"suspended", "running"} <=> launch'[r] \in {"suspended", "running"}
  BY <1>a, <1>k
<1>6. QED  BY <1>m, <1>a, <1>o, <1>3, <1>4, <1>5, UnfinishedWork

LEMMA TickWork ==
  ASSUME Frames, Work, TypeOK', NEW w \in Workers, NEW r \in Remotes, Tick(w, r)
  PROVE  Work'
<1> USE DEF Frames, TypeOK
<1>w. w \in Threads
  BY DEF Threads
<1>a. /\ at'[w] = InRemote("child", r) /\ \A u \in Threads : u # w => at'[u] = at[u]
      /\ child[r] = "suspended"
      /\ child' = [child EXCEPT ![r] = "running"] /\ child'[r] = "running"
      /\ UNCHANGED <<alive, batch, ready, launch, result, crossed, status>>
  BY <1>w DEF Tick, Go, queueVars
<1>k. RemoteOK(r) /\ launch[r] = "suspended"
  BY <1>a DEF Work, RemotesOK, RemoteOK
<1>1. \A u \in Threads : at[u] # InRemote("child", r)
  BY <1>a, <1>k DEF RemoteOK, Knows
<1>2. RemoteOK(r)'
  <2>1. ASSUME NEW u \in Threads
        PROVE  Knows(u, r)' /\ (at'[u] = InRemote("child", r) => u = w)
    <3>1. CASE u = w
      BY <1>a, <1>k, <3>1, PlacesIn DEF Knows
    <3>2. CASE u # w
      BY <1>a, <1>k, <1>1, <3>2 DEF Knows, RemoteOK
    <3>3. QED  BY <3>1, <3>2
  <2>2. QED  BY <1>a, <1>k, <2>1 DEF RemoteOK
<1>3. ASSUME NEW q \in Remotes, q # r PROVE RemoteOK(q)'
  <2>1. RemoteOK(q) /\ crossed'[q[1]] >= crossed[q[1]]
    BY <1>a, BoundsAssumption DEF Work, RemotesOK, Remotes
  <2>2. child'[q] = child[q]
    BY <1>a, <1>3
  <2>3. \A u \in Threads : Inside(u, q)' => at'[u] = at[u]
    BY <1>a, <1>3, PlacesDiffer DEF Inside
  <2>4. QED  BY <1>a, <2>1, <2>2, <2>3, OthersKept
<1>4. RemotesOK'
  BY <1>2, <1>3, <1>a DEF Work, RemotesOK
<1>5. OneWakeup' /\ ResultsOK'
  BY <1>a DEF Work, OneWakeup, entries, ResultsOK, Handled
<1>6. QED  BY <1>4, <1>5 DEF Work

-----------------------------------------------------------------------------
(* The theorems. *)

LEMMA WorkStep == Frames /\ Work /\ Next /\ ~overtaken' => Work'
<1> SUFFICES ASSUME Frames, Work, Next, ~overtaken' PROVE Work'
  OBVIOUS
<1>t. TypeOK'
  BY TypeStep DEF Frames
<1>g. Game \in Threads /\ \A w \in Workers : w \in Threads
  BY DEF Threads
<1>1. ASSUME NEW t \in Threads, NEW r \in Remotes, RemoteStep(t, r) PROVE Work'
  BY <1>1, <1>t, AwaitOpWork, EndChildWork, AskChildWork, StoreWork, HandOverWork,
     TestRemoteWork DEF RemoteStep
<1>2. CASE GameStep
  BY <1>2, <1>t, <1>g, <1>1, BeginUpdateWork, TakeReadyWork, ResumeNextWork, FinishWork,
     CheckJobWork, SpawnCrossWork, AwaitSuspendWork, HeadOfBatch
  DEF GameStep, ResumeEnded
<1>3. CASE Quit
  BY <1>3, <1>t, QuitWork
<1>4. CASE \E j \in Jobs : Spawn(j)
  BY <1>4, <1>t, SpawnWork
<1>5. ASSUME NEW w \in Workers, WorkerStep(w) PROVE Work'
  BY <1>5, <1>t, <1>g, <1>1, TickWork DEF WorkerStep
<1>6. QED  BY <1>2, <1>3, <1>4, <1>5 DEF Next

\* Nothing that happened is undone.
LEMMA OvertakenForGood == Next /\ overtaken => overtaken'
<1> SUFFICES ASSUME Next, overtaken PROVE overtaken'
  OBVIOUS
<1>1. ASSUME NEW t, NEW r, RemoteStep(t, r) PROVE overtaken'
  BY <1>1 DEF RemoteStep, AwaitOp, EndChild, AskChild, AskFreed, Store, StoreAgain, HandOver,
              HandOverFreed, TestRemote, FreeAgain
<1>2. CASE BeginUpdate \/ TakeReady \/ ResumeNext \/ ResumeEnded \/ Quit
  BY <1>2 DEF BeginUpdate, TakeReady, ResumeNext, ResumeEnded, Quit, crossVars
<1>3. ASSUME NEW j, Finish(j) \/ CheckJob(j) \/ SpawnCross(j) \/ Spawn(j) PROVE overtaken'
  BY <1>3 DEF Finish, CheckJob, SpawnCross, Spawn, crossVars
<1>4. ASSUME NEW w, NEW r, AwaitSuspend(r) \/ AwaitFreed(r) \/ Tick(w, r) PROVE overtaken'
  BY <1>4 DEF AwaitSuspend, AwaitFreed, Tick
<1>5. QED  BY <1>1, <1>2, <1>3, <1>4 DEF Next, GameStep, WorkerStep

LEMMA StepInvariant == IInv /\ [Next]_vars => IInv'
<1> SUFFICES ASSUME IInv, [Next]_vars PROVE IInv'
  OBVIOUS
<1>1. CASE UNCHANGED vars
  <2>1. Frames'
    BY <1>1 DEF IInv, vars, Frames, TypeOK, Confinement, GamePlace
  <2>2. ASSUME Work PROVE Work'
    <3>1. OneWakeup' /\ ResultsOK'
      BY <1>1, <2>2 DEF vars, Work, OneWakeup, entries, Handled, ResultsOK
    <3>2. RemotesOK'
      BY <1>1, <2>2 DEF vars, Work, RemotesOK, RemoteOK, Knows, Inside
    <3>3. QED  BY <3>1, <3>2 DEF Work
  <2>3. QED  BY <1>1, <2>1, <2>2 DEF IInv, vars
<1>2. CASE Next
  BY <1>2, FramesStep, WorkStep, OvertakenForGood DEF IInv, Frames
<1>3. QED  BY <1>1, <1>2

\* The invariant of async_game.cpp and SpawnCrossTask holds in every reachable
\* state: types and confinement whatever happens, the bookkeeping of the wakeups,
\* frames and results for as long as no child ended before it was asked.
THEOREM GameInvariance == Spec => []GameInvariant
<1>1. Spec => []IInv
  BY InitInvariant, StepInvariant, PTL DEF Spec
<1>2. QED  BY <1>1, InvariantSaid, PTL

\* README.md: jobs run on the game's thread only, one at a time, even after an
\* overtaking.
THEOREM GameConfinement == Spec => []Confinement
<1>1. GameInvariant => Confinement
  BY DEF GameInvariant
<1>2. QED  BY <1>1, GameInvariance, PTL

\* async_game.cpp, async_lib.hpp:256: unless a thread was overtaken at line 161
\* or 44, a suspended job is in the executor once or has one unfinished remote,
\* and no other job has a wakeup ahead of it.
THEOREM GameWakeups == Spec => []ExactlyOneWakeup
<1>1. GameInvariant => ExactlyOneWakeup
  BY DEF GameInvariant
<1>2. QED  BY <1>1, GameInvariance, PTL

\* async_lib.hpp, SpawnCrossTask::await_resume: unless a thread was overtaken at
\* line 161 or 44, the result is there and was moved once.
THEOREM GameResults == Spec => []CrossResult
<1>1. IInv => CrossResult
  <2> SUFFICES ASSUME IInv, ~overtaken, NEW j \in Jobs, at[Game] = In("body", j),
                      crossed[j] > 0
               PROVE  result[j] = "value"
    BY DEF CrossResult
  <2>1. Frames /\ Work
    BY DEF IInv
  <2>2. status[j] = "running" /\ ~Handled(j)
    BY <2>1, RunningJob
  <2>3. QED  BY <2>1, <2>2 DEF Work, ResultsOK
<1>2. QED  BY <1>1, InvariantSaid, GameInvariance, PTL

\* A thread finds no result to store only if another overtook it: the assertion
\* of TaskAwait::await_resume (async_lib.hpp:170) fails in no other way.
THEOREM GameChildResults == Spec => [](overtaken \/ ChildResult)
<1>1. IInv => overtaken \/ ChildResult
  BY DEF IInv, Work, RemotesOK, RemoteOK, Knows, ChildResult
<1>2. QED  BY <1>1, InvariantSaid, GameInvariance, PTL

-----------------------------------------------------------------------------
(* The executor is a ReadyQueue, while the behaviour is defined. *)

served == IF ~overtaken /\ at[Game].pc = "body" THEN at[Game].job ELSE None

LEMMA QueueHas ==
  ASSUME NEW q \in Seq(Jobs), NEW j \in Jobs
  PROVE  Queue!Contains(q, j) <=> j \in Elems(q)
BY DEF Queue!Contains, Elems

LEMMA InitQueue == Init => Queue!Init
<1> SUFFICES ASSUME Init PROVE Queue!Init
  OBVIOUS
<1>1. batch \o ready = <<>> /\ at[Game].pc = "frame"
  BY TwoVectors, ThreadsAssumption DEF Init, Out, Threads
<1>2. QED  BY <1>1 DEF Init, Queue!Init

\* What the queue does when the executor is as it was, but for where it stands.
LEMMA QueueKept ==
  ASSUME UNCHANGED <<batch, ready, alive, overtaken>>,
         at'[Game] = at[Game] \/ (at[Game].pc # "body" /\ at'[Game].pc # "body")
  PROVE  [Queue!Next]_(Queue!vars)
BY DEF Queue!vars

\* A job that is put in the queue: it is neither there nor being run.
LEMMA QueuePut ==
  ASSUME Frames, ~overtaken, UNCHANGED overtaken, NEW j \in Jobs, alive, MarkReady(j),
         UNCHANGED <<batch, alive>>, j \notin Elems(entries), status[j] # "running",
         served' = served
  PROVE  Queue!Next
<1>q. batch \in Seq(Jobs) /\ ready \in Seq(Jobs) /\ batch \o ready \in Seq(Jobs)
  BY TwoVectors DEF Frames, TypeOK
<1>a. ready' = Append(ready, j) /\ batch' = batch
  BY DEF MarkReady, PushBack
<1>b. batch \o Append(ready, j) = Append(batch \o ready, j)
  BY <1>q, TwoVectors
<1>1. batch' \o ready' = Append(batch \o ready, j)
  BY <1>a, <1>b
<1>2. ~Queue!Contains(batch \o ready, j)
  BY <1>q, QueueHas DEF entries
<1>3. j # served
  <2>1. CASE at[Game].pc = "body"
    <3>1. PICK i \in Jobs : at[Game] = In("body", i)
      BY <2>1 DEF Frames, GamePlace
    <3>2. status[i] = "running" /\ served = i
      BY <3>1 DEF Frames, GamePlace, served, In
    <3>3. QED  BY <3>2
  <2>2. CASE at[Game].pc # "body"
    BY <2>2, JobsAssumption DEF served
  <2>3. QED  BY <2>1, <2>2
<1>4. Queue!Put(j)
  BY <1>1, <1>2, <1>3 DEF Queue!Put, served
<1>5. QED  BY <1>4 DEF Queue!Next

LEMMA StepQueue == IInv /\ IInv' /\ [Next]_vars => [Queue!Next]_(Queue!vars)
<1> SUFFICES ASSUME IInv, IInv', [Next]_vars PROVE [Queue!Next]_(Queue!vars)
  OBVIOUS
<1>f. Frames /\ (~overtaken => Work)
  BY DEF IInv
<1> USE DEF Frames
<1>q. batch \in Seq(Jobs) /\ ready \in Seq(Jobs) /\ batch \o ready \in Seq(Jobs)
      /\ Game \in Threads /\ at \in [Threads -> Location]
  BY <1>f, TwoVectors DEF TypeOK, Threads
<1>n. \A j \in Jobs : j # None
  BY JobsAssumption
<1>o. overtaken => overtaken'
  BY <1>f, OvertakenForGood DEF vars
<1>0. CASE overtaken
  BY <1>0, <1>o DEF Queue!vars
<1>00. CASE ~overtaken /\ overtaken'
  <2>1. Queue!Fail
    BY <1>00 DEF Queue!Fail
  <2>2. QED  BY <2>1 DEF Queue!Next
<1>d. CASE ~overtaken /\ ~overtaken'
  <2>d. ~overtaken /\ ~overtaken' /\ Work /\ UNCHANGED overtaken
    BY <1>d, <1>f DEF IInv, Frames, TypeOK
  <2> USE <2>d
  <2>1. CASE UNCHANGED vars
    <3>1. UNCHANGED <<batch, ready, alive>> /\ at' = at
      BY <2>1 DEF vars
    <3>2. QED  BY <3>1, QueueKept
  <2>2. CASE BeginUpdate
    BY <2>2, <1>q, QueueKept, PlacesDiffer DEF BeginUpdate, Go
  <2>3. CASE TakeReady
    <3>1. batch' \o ready' = batch \o ready
      BY <2>3, <1>q, TwoVectors DEF TakeReady, Swap
    <3>2. at[Game].pc # "body" /\ at'[Game].pc # "body" /\ alive' = alive
      BY <2>3, <1>q, PlacesDiffer DEF TakeReady, Go
    <3>3. QED  BY <3>1, <3>2 DEF Queue!vars
  <2>4. CASE ResumeNext
    <3>1. /\ batch \o ready # <<>> /\ batch' \o ready' = Tail(batch \o ready)
          /\ Head(batch \o ready) = Head(batch)
      BY <2>4, <1>q, TwoVectors, TailJob DEF ResumeNext, Rest
    <3>2. at'[Game] = In("body", Head(batch)) /\ at[Game].pc = "update" /\ alive' = alive
      BY <2>4, <1>q DEF ResumeNext, Go
    <3>3. served = None /\ served' = Head(batch) /\ alive
      BY <1>f, <3>2 DEF served, In, GamePlace
    <3>4. Queue!Take
      BY <3>1, <3>2, <3>3 DEF Queue!Take, served
    <3>5. QED  BY <3>4 DEF Queue!Next
  <2>5. ASSUME NEW j \in Jobs, Finish(j) \/ SpawnCross(j) PROVE [Queue!Next]_(Queue!vars)
    <3>1. /\ at[Game] = In("body", j) /\ at'[Game].pc # "body"
          /\ UNCHANGED <<batch, ready, alive>>
      BY <2>5, <1>q, PlacesDiffer DEF Finish, SpawnCross, Go
    <3>2. served = j /\ served' = None
      BY <3>1 DEF served, In
    <3>3. Queue!Release
      BY <1>n, <3>1, <3>2 DEF Queue!Release, served
    <3>4. QED  BY <3>3 DEF Queue!Next
  <2>6. ASSUME NEW j \in Jobs, CheckJob(j) PROVE [Queue!Next]_(Queue!vars)
    BY <2>6, <1>q, QueueKept, PlacesDiffer DEF CheckJob, Go
  <2>7. CASE Quit
    <3>1. batch = <<>> /\ alive /\ at[Game].pc = "frame" /\ at'[Game].pc = "over"
      BY <1>f, <2>7, <1>q, PlacesDiffer DEF Quit, Go, GamePlace
    <3>2. batch' \o ready' = <<>>
      BY <2>7, <3>1, <1>q, TwoVectors DEF Quit
    <3>3. Queue!Close
      BY <2>7, <3>1, <3>2 DEF Queue!Close, Quit
    <3>4. QED  BY <3>3 DEF Queue!Next
  <2>8. ASSUME NEW j \in Jobs, Spawn(j) PROVE [Queue!Next]_(Queue!vars)
    <3>1. alive /\ status[j] = "unborn" /\ crossed[j] = 0
      BY <1>f, <2>8 DEF Spawn, GamePlace, Work, RemotesOK
    <3>2. j \notin Elems(entries)
      BY <3>1 DEF Work, OneWakeup
    <3>3. QED  BY <1>f, <2>8, <3>1, <3>2, QueuePut DEF Spawn, served
  <2>9. ASSUME NEW t \in Threads, NEW r \in Remotes, RemoteStep(t, r) PROVE [Queue!Next]_(Queue!vars)
    <3>m. Moves(t, r)
      BY <1>f, <2>9, RemoteMoves
    <3>1. /\ at[t].pc # "body" /\ at'[t].pc # "body" /\ UNCHANGED <<batch, alive>>
          /\ t # Game => at'[Game] = at[Game]
      BY <1>q, <3>m, PlacesDiffer DEF Moves, Inside, Places
    <3>2. served' = served
      BY <3>1 DEF served
    <3>3. CASE HandOver(t, r) /\ alive
      <4>1. at[t] = InRemote("hand", r) /\ Knows(t, r)
        BY <1>f, <3>m, <3>3, InsideRemote DEF HandOver, Moves
      <4>2. r[1] \in Jobs /\ status[r[1]] = "suspended" /\ Handled(r[1])
        BY <1>f, <4>1, UnfinishedRemote DEF Knows, Work
      <4>3. r[1] \notin Elems(entries)
        BY <3>3, <4>2 DEF Work, OneWakeup
      <4>4. QED  BY <1>f, <3>1, <3>2, <3>3, <4>2, <4>3, QueuePut DEF HandOver
    <3>4. CASE ~(HandOver(t, r) /\ alive)
      <4>1. UNCHANGED ready
        BY <2>9, <3>4 DEF RemoteStep, HandOver, MarkReady, AwaitOp, EndChild, AskChild, AskFreed,
           Store, StoreAgain, HandOverFreed, TestRemote, FreeAgain
      <4>2. QED  BY <3>1, <4>1, QueueKept
    <3>5. QED  BY <3>3, <3>4
  <2>10. ASSUME NEW r \in Remotes, AwaitSuspend(r) \/ AwaitFreed(r) PROVE [Queue!Next]_(Queue!vars)
    <3>1. Moves(Game, r) /\ UNCHANGED ready
      BY <1>f, <1>q, <2>10, RemoteMoves DEF AwaitSuspend, AwaitFreed
    <3>2. QED  BY <3>1, QueueKept, PlacesDiffer DEF Moves, Inside, Places
  <2>11. ASSUME NEW w \in Workers, NEW r \in Remotes, Tick(w, r) PROVE [Queue!Next]_(Queue!vars)
    <3>1. w # Game /\ UNCHANGED <<batch, ready, alive>>
      BY <2>11, ThreadsAssumption DEF Tick, queueVars
    <3>2. QED  BY <1>q, <2>11, <3>1, QueueKept DEF Tick, Go
  <2>12. CASE ResumeEnded
    BY <1>f, <2>12, HeadOfBatch DEF ResumeEnded
  <2>13. QED
    BY <2>1, <2>2, <2>3, <2>4, <2>5, <2>6, <2>7, <2>8, <2>9, <2>10, <2>11, <2>12, <1>q
    DEF Next, GameStep, WorkerStep, Threads
<1>1. QED  BY <1>0, <1>00, <1>d

\* README.md: until a thread is overtaken, the executor, its two vectors and the
\* hand-over from the workers are a first-in first-out queue served by one
\* thread (ImplementsQueue is this with the fairness).
THEOREM GameRefinesQueue == Spec => Queue!Spec
<1>1. Spec => []IInv
  BY InitInvariant, StepInvariant, PTL DEF Spec
<1>2. QED  BY <1>1, InitQueue, StepQueue, PTL DEF Spec, Queue!Spec
=============================================================================
