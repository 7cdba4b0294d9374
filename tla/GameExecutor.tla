---------------------------- MODULE GameExecutor ----------------------------
(***************************************************************************)
(* async_game::Executor, updated by the game's thread, whose jobs co_await *)
(* tasks of a completion queue executor through async_lib::SpawnCrossTask. *)
(*                                                                         *)
(* A job is a root coroutine with the tasks it awaits: AsyncLib says how   *)
(* those resume each other, here only the job as a whole matters.  Its     *)
(* k-th SpawnCrossTask creates the remote <<job, k>>: two coroutines,      *)
(* LaunchChild and the child task it awaits.  Both begin on the game's     *)
(* thread and go on on whichever worker takes the child's operation from   *)
(* the queue.                                                              *)
(*                                                                         *)
(* A thread that leaves a coroutine asks it whether it is done: line 161   *)
(* of async_lib.hpp asks the child, line 44 the child or LaunchChild.      *)
(* Nothing keeps another thread from ending the child before the question  *)
(* is put.  `overtaken` remembers that this happened; from then on two     *)
(* threads may be in one coroutine, and what the program does is undefined.*)
(***************************************************************************)
EXTENDS Naturals, Sequences, SequencesExt

CONSTANTS
  Jobs,       \* the jobs a behaviour may spawn
  Workers,    \* the threads of the completion queue executor
  Game,       \* the thread that calls Executor::Update
  MaxCross,   \* bound: SpawnCrossTasks awaited by one job
  MaxOps,     \* bound: queue operations awaited by one remote
  None

Threads == Workers \cup {Game}
Remotes == Jobs \X (1..MaxCross)

ASSUME ThreadsAssumption == Game \notin Workers
ASSUME JobsAssumption    == None \notin Jobs
ASSUME BoundsAssumption  == MaxCross \in Nat /\ MaxOps \in Nat

VARIABLES
  alive,     \* the executor (a member of the Entity) exists
  ready,     \* Executor::m_ready
  batch,     \* what is left of the local vector `ready` of Update
  status,    \* of the job's frame: Jobs -> JobStatus
  crossed,   \* the number of SpawnCrossTasks the job has awaited
  result,    \* m_result of the job's present SpawnCrossTask: Jobs -> Outcome
  launch,    \* of the remote's LaunchChild frame: Remotes -> FrameStatus
  child,     \* of the remote's child frame: Remotes -> FrameStatus
  ops,       \* queue operations the remote has awaited (counts up to MaxOps)
  at,        \* where each thread stands
  overtaken  \* history: a child ended while another thread had yet to ask it

vars == <<alive, ready, batch, status, crossed, result, launch, child, ops, at, overtaken>>

FrameStatus == {"unborn", "suspended", "running", "done", "freed"}

\* "spoilt": written from a result already moved from, or by a destroyed frame.
Outcome == {"none", "value", "spoilt"}

(***************************************************************************)
(* Where a thread stands, in which job, with which remote:                 *)
(*   frame   the game thread is outside Update, in the code of the game    *)
(*   update  it is in Update, about to take the next job or batch          *)
(*   body    it runs the job                                               *)
(*   check   the job stopped running; Resume's done() of the job is next   *)
(*   child   the thread runs the child                                     *)
(*   await   the child stopped running; await_suspend's done() of it is    *)
(*           next (line 161)                                               *)
(*   asked   the child stopped running; Resume's done() of it is next      *)
(*   store   the thread runs LaunchChild; m_result = is next               *)
(*   hand    executor->Spawn(parent) is next                               *)
(*   test    LaunchChild stopped running; Resume's done() of it is next    *)
(*   idle    a worker waits in Tick;  over  the game has quit              *)
(*   undefined  it resumed or destroyed a coroutine that is not there; it  *)
(*           is not followed any further                                   *)
(***************************************************************************)
Points == {"frame", "update", "body", "check", "child", "await", "asked",
           "store", "hand", "test", "idle", "over", "undefined"}

Location == [pc : Points, job : Jobs \cup {None}, k : 0..MaxCross]

Out(point)      == [pc |-> point, job |-> None, k |-> 0]
In(point, j)    == [pc |-> point, job |-> j, k |-> 0]
InRemote(point, r) == [pc |-> point, job |-> r[1], k |-> r[2]]

Go(t, loc) == at' = [at EXCEPT ![t] = loc]

TypeOK ==
  /\ alive \in BOOLEAN
  /\ ready \in Seq(Jobs) /\ batch \in Seq(Jobs)
  /\ result \in [Jobs -> Outcome]
  /\ status \in [Jobs -> FrameStatus]
  /\ crossed \in [Jobs -> 0..MaxCross]
  /\ launch \in [Remotes -> FrameStatus]
  /\ child \in [Remotes -> FrameStatus]
  /\ ops \in [Remotes -> 0..MaxOps]
  /\ at \in [Threads -> Location]
  /\ overtaken \in BOOLEAN

Init ==
  /\ alive = TRUE
  /\ ready = <<>> /\ batch = <<>>
  /\ status = [j \in Jobs |-> "unborn"]
  /\ crossed = [j \in Jobs |-> 0]
  /\ result = [j \in Jobs |-> "none"]
  /\ launch = [r \in Remotes |-> "unborn"]
  /\ child = [r \in Remotes |-> "unborn"]
  /\ ops = [r \in Remotes |-> 0]
  /\ at = [t \in Threads |-> IF t = Game THEN Out("frame") ELSE Out("idle")]
  /\ overtaken = FALSE

\* What the steps of the executor leave alone, and those of the remotes.
crossVars == <<crossed, result, launch, child, ops, overtaken>>
queueVars == <<alive, batch, status, crossed>>

Places == {"child", "await", "asked", "store", "hand", "test"}

\* Thread t has something to do with remote r.
Inside(t, r) == \E point \in Places : at[t] = InRemote(point, r)

-----------------------------------------------------------------------------
(* The executor.  Everything that touches m_ready holds m_lock. *)

\* Mutants: the newest job goes first; the vector is copied, not swapped.
PushFront(j)  == ready' = <<j>> \o ready
SwapByCopy    == batch' = ready /\ UNCHANGED ready

\* MarkReady: m_ready.push_back(job).
PushBack(j) == ready' = Append(ready, j)

\* Of an executor that is gone it writes to freed memory, which nobody reads.
MarkReady(j) == IF alive THEN PushBack(j) ELSE UNCHANGED ready

\* ready.swap(m_ready) on an empty `ready`.
Swap == batch' = ready /\ ready' = <<>>

\* async_lib::Spawn, by the game or by a job: the job is only made ready.
Spawn(j) ==
  /\ at[Game].pc \in {"frame", "body"}
  /\ status[j] = "unborn"
  /\ status' = [status EXCEPT ![j] = "suspended"]
  /\ MarkReady(j)
  /\ UNCHANGED <<alive, batch, at, crossVars>>

\* Entity::PreUpdate, once a frame: Executor::Update is called.
BeginUpdate ==
  /\ at[Game].pc = "frame"
  /\ Go(Game, Out("update"))
  /\ UNCHANGED <<alive, ready, batch, status, crossVars>>

\* Update takes everything that is ready by now, or returns if nothing is.
TakeReady ==
  /\ at[Game].pc = "update" /\ batch = <<>>
  /\ Swap
  /\ Go(Game, IF ready = <<>> THEN Out("frame") ELSE Out("update"))
  /\ UNCHANGED <<alive, status, crossVars>>

\* Mutant: Update stops after the first job of a batch.
RestDropped == <<>>

\* The jobs that the loop has yet to resume once it resumed the first.
Rest == Tail(batch)

\* for (const auto& job : ready) async_lib::Resume(job): the job runs.
ResumeNext ==
  /\ at[Game].pc = "update" /\ batch # <<>>
  /\ status[Head(batch)] = "suspended"
  /\ batch' = Rest
  /\ status' = [status EXCEPT ![Head(batch)] = "running"]
  /\ Go(Game, In("body", Head(batch)))
  /\ UNCHANGED <<alive, ready, crossVars>>

\* The same, when the job made ready has ended since.
ResumeEnded ==
  /\ at[Game].pc = "update" /\ batch # <<>>
  /\ status[Head(batch)] # "suspended"
  /\ batch' = Rest
  /\ Go(Game, Out("undefined"))
  /\ UNCHANGED <<alive, ready, status, crossVars>>

\* The job ends.
Finish(j) ==
  /\ at[Game] = In("body", j)
  /\ status' = [status EXCEPT ![j] = "done"]
  /\ Go(Game, In("check", j))
  /\ UNCHANGED <<alive, ready, batch, crossVars>>

\* Resume, once resume() returned: a job that is done is freed.
CheckJob(j) ==
  /\ at[Game] = In("check", j)
  /\ status' = IF status[j] = "done" THEN [status EXCEPT ![j] = "freed"] ELSE status
  /\ Go(Game, Out("update"))
  /\ UNCHANGED <<alive, ready, batch, crossVars>>

\* "quit" ends the game between two frames: main destroys the Game, with the
\* entities and their executors, and only then joins the workers.
Quit ==
  /\ at[Game].pc = "frame"
  /\ alive' = FALSE
  /\ ready' = <<>>
  /\ Go(Game, Out("over"))
  /\ UNCHANGED <<batch, status, crossVars>>

-----------------------------------------------------------------------------
(* SpawnCrossTask, on the game's thread. *)

\* await_suspend: the job is suspended, LaunchChild spawned on the completion
\* queue executor, which resumes it at once; it starts the child and awaits it.
SpawnCross(j) ==
  /\ at[Game] = In("body", j) /\ crossed[j] < MaxCross
  /\ LET r == <<j, crossed[j] + 1>> IN
       /\ crossed' = [crossed EXCEPT ![j] = @ + 1]
       /\ launch' = [launch EXCEPT ![r] = "suspended"]
       /\ child' = [child EXCEPT ![r] = "running"]
       /\ Go(Game, InRemote("child", r))
  /\ status' = [status EXCEPT ![j] = "suspended"]
  /\ result' = [result EXCEPT ![j] = "none"]
  /\ UNCHANGED <<alive, ready, batch, ops, overtaken>>

\* Whoever resumed the child asks next whether it is done.
Asks(t, r) ==
  Go(t, IF t = Game THEN InRemote("await", r) ELSE InRemote("asked", r))

\* return !cur.done(): LaunchChild goes on at once if the child is done, and
\* stays suspended if it is not.
AwaitSuspend(r) ==
  /\ at[Game] = InRemote("await", r)
  /\ \/ /\ child[r] = "done"
        /\ launch' = [launch EXCEPT ![r] = "running"]
        /\ Go(Game, InRemote("store", r))
     \/ /\ child[r] \in {"suspended", "running"}
        /\ Go(Game, InRemote("test", r))
        /\ UNCHANGED launch
  /\ UNCHANGED <<queueVars, ready, result, child, ops, overtaken>>

\* The same of a child that another thread destroyed: either answer, and with
\* "done" the thread goes on in a LaunchChild that is not suspended there.
AwaitFreed(r) ==
  /\ at[Game] = InRemote("await", r) /\ child[r] = "freed"
  /\ Go(Game, InRemote("test", r)) \/ Go(Game, Out("undefined"))
  /\ UNCHANGED <<queueVars, ready, result, launch, child, ops, overtaken>>

-----------------------------------------------------------------------------
(* The child and LaunchChild, on any thread. *)

\* The child enqueues an operation and is suspended.
AwaitOp(t, r) ==
  /\ at[t] = InRemote("child", r) /\ ops[r] < MaxOps
  /\ ops' = [ops EXCEPT ![r] = @ + 1]
  /\ child' = [child EXCEPT ![r] = "suspended"]
  /\ Asks(t, r)
  /\ UNCHANGED <<queueVars, ready, result, launch, overtaken>>

\* Tick: the operation of the child completed, a worker resumes the child.
Tick(t, r) ==
  /\ at[t].pc = "idle" /\ child[r] = "suspended"
  /\ child' = [child EXCEPT ![r] = "running"]
  /\ Go(t, InRemote("child", r))
  /\ UNCHANGED <<queueVars, ready, result, launch, ops, overtaken>>

\* The child is done, maybe before another thread asked.
EndChild(t, r) ==
  /\ at[t] = InRemote("child", r)
  /\ child' = [child EXCEPT ![r] = "done"]
  /\ Asks(t, r)
  /\ overtaken' = (overtaken \/ \E u \in Threads \ {t} : Inside(u, r))
  /\ UNCHANGED <<queueVars, ready, result, launch, ops>>

\* Resume on a worker, once the child's resume() returned: if the child is done
\* its parent is resumed, which is LaunchChild.
AskChild(t, r) ==
  /\ at[t] = InRemote("asked", r)
  /\ \/ /\ child[r] = "done"
        /\ launch' = [launch EXCEPT ![r] = "running"]
        /\ Go(t, InRemote("store", r))
     \/ /\ child[r] \in {"suspended", "running"}
        /\ Go(t, Out("idle"))
        /\ UNCHANGED launch
  /\ UNCHANGED <<queueVars, ready, result, child, ops, overtaken>>

\* The same of a child that another thread destroyed.
AskFreed(t, r) ==
  /\ at[t] = InRemote("asked", r) /\ child[r] = "freed"
  /\ Go(t, Out("idle")) \/ Go(t, Out("undefined"))
  /\ UNCHANGED <<queueVars, ready, result, launch, child, ops, overtaken>>

\* Mutant: the result never reaches the SpawnCrossTask.
ResultDropped(r) == UNCHANGED result

\* m_result = co_await std::move(m_childTask), in the SpawnCrossTask of the job:
\* when that is gone, the frame it was in may be spoilt.
StoreResult(r) ==
  \E v \in IF r[2] = crossed[r[1]] /\ status[r[1]] = "suspended"
           THEN {"value"} ELSE {result[r[1]], "spoilt"} :
    result' = [result EXCEPT ![r[1]] = v]

\* The child is destroyed with the TaskAwait, at the end of the assignment.
Store(t, r) ==
  /\ at[t] = InRemote("store", r) /\ child[r] = "done"
  /\ StoreResult(r)
  /\ child' = [child EXCEPT ![r] = "freed"]
  /\ Go(t, InRemote("hand", r))
  /\ UNCHANGED <<queueVars, ready, launch, ops, overtaken>>

\* A second thread in LaunchChild reads and destroys a child that is not there.
StoreAgain(t, r) ==
  /\ at[t] = InRemote("store", r) /\ child[r] = "freed"
  /\ \/ Go(t, Out("undefined")) /\ UNCHANGED result
     \/ Go(t, InRemote("hand", r)) /\ result' = [result EXCEPT ![r[1]] = "spoilt"]
  /\ UNCHANGED <<queueVars, ready, launch, child, ops, overtaken>>

\* LaunchChild is done, unless another thread ended and destroyed it before.
LaunchDone(r) ==
  launch' = [launch EXCEPT ![r] = IF @ = "freed" THEN @ ELSE "done"]

\* Mutants: Executor::Spawn resumes the job at once, as the completion queue
\* executor does; the job handed over is the remote's own.
HandOverResumes(t, r) ==
  /\ at[t] = InRemote("hand", r)
  /\ status' = [status EXCEPT ![r[1]] = "running"]
  /\ LaunchDone(r)
  /\ Go(t, In("body", r[1]))
  /\ UNCHANGED <<alive, batch, crossed, ready, result, child, ops, overtaken>>
HandOverRemote(t, r) ==
  /\ at[t] = InRemote("hand", r)
  /\ ready' = Append(ready, r)
  /\ LaunchDone(r)
  /\ Go(t, InRemote("test", r))
  /\ UNCHANGED <<queueVars, result, child, ops, overtaken>>

\* parent.promise->executor->Spawn(parent), and LaunchChild is done.
HandOver(t, r) ==
  /\ at[t] = InRemote("hand", r)
  /\ MarkReady(r[1])
  /\ LaunchDone(r)
  /\ Go(t, InRemote("test", r))
  /\ UNCHANGED <<queueVars, result, child, ops, overtaken>>

\* The same when the job was destroyed meanwhile, with its promise.
HandOverFreed(t, r) ==
  /\ at[t] = InRemote("hand", r) /\ status[r[1]] = "freed"
  /\ Go(t, Out("undefined"))
  /\ UNCHANGED <<queueVars, ready, result, launch, child, ops, overtaken>>

\* Where a thread goes from LaunchChild: a worker to Tick, the game's thread
\* out of SpawnCrossTask::await_suspend to Resume's done() of the job.
Leave(t, r) == Go(t, IF t = Game THEN In("check", r[1]) ELSE Out("idle"))

\* Resume, once LaunchChild's resume() returned: it is destroyed if it is done.
TestRemote(t, r) ==
  /\ at[t] = InRemote("test", r)
  /\ launch' = [launch EXCEPT ![r] = IF @ = "done" THEN "freed" ELSE @]
  /\ Leave(t, r)
  /\ UNCHANGED <<queueVars, ready, result, child, ops, overtaken>>

\* done() of a LaunchChild that another thread destroyed may say so, and then
\* it is destroyed twice.
FreeAgain(t, r) ==
  /\ at[t] = InRemote("test", r) /\ launch[r] = "freed"
  /\ Go(t, Out("undefined"))
  /\ UNCHANGED <<queueVars, ready, result, launch, child, ops, overtaken>>

-----------------------------------------------------------------------------

RemoteStep(t, r) ==
  \/ AwaitOp(t, r) \/ EndChild(t, r) \/ AskChild(t, r) \/ AskFreed(t, r)
  \/ Store(t, r) \/ StoreAgain(t, r)
  \/ HandOver(t, r) \/ HandOverFreed(t, r)
  \/ TestRemote(t, r) \/ FreeAgain(t, r)

GameStep ==
  \/ BeginUpdate \/ TakeReady \/ ResumeNext \/ ResumeEnded
  \/ \E j \in Jobs : Finish(j) \/ CheckJob(j) \/ SpawnCross(j)
  \/ \E r \in Remotes : AwaitSuspend(r) \/ AwaitFreed(r) \/ RemoteStep(Game, r)

WorkerStep(w) == \E r \in Remotes : Tick(w, r) \/ RemoteStep(w, r)

Next ==
  \/ GameStep \/ Quit
  \/ \E j \in Jobs : Spawn(j)
  \/ \E w \in Workers : WorkerStep(w)

Spec == Init /\ [][Next]_vars

\* The game's loop calls Update every frame until it quits; the workers run,
\* and gRPC completes every operation.  Nobody has to spawn, nor to quit.
FairSpec ==
  Spec /\ WF_vars(GameStep) /\ \A w \in Workers : WF_vars(WorkerStep(w))

-----------------------------------------------------------------------------
(* Properties.  All but the first are about a program whose behaviour is    *)
(* defined so far, ~overtaken; ChildResult says what an overtaking breaks. *)

(***************************************************************************)
(* README.md: a game coroutine is only executed from within the thread     *)
(* that updates its executor, and one at a time.                           *)
(***************************************************************************)
Confinement ==
  /\ \A t \in Threads : at[t].pc \in {"body", "check"} => t = Game
  /\ \A j \in Jobs : status[j] = "running" => at[Game] = In("body", j)

Queued(j)   == {i \in DOMAIN (batch \o ready) : (batch \o ready)[i] = j}
Handled(j)  == crossed[j] > 0 /\ launch[<<j, crossed[j]>>] \in {"suspended", "running"}

(***************************************************************************)
(* A suspended job has exactly one wakeup ahead of it: its entry in the    *)
(* executor, or the remote that will make one.  A job that runs or ended   *)
(* has none.  A second one would resume a running or freed coroutine.      *)
(***************************************************************************)
ExactlyOneWakeup ==
  alive /\ ~overtaken =>
    \A j \in Jobs :
      /\ \A a, b \in Queued(j) : a = b
      /\ Handled(j) => Queued(j) = {}
      /\ Handled(j) \/ Queued(j) # {} <=> status[j] = "suspended"

(***************************************************************************)
(* SpawnCrossTask::await_resume: assert(m_result).  A job that goes on     *)
(* after a SpawnCrossTask finds the result its remote stored, stored once. *)
(***************************************************************************)
CrossResult ==
  ~overtaken =>
    \A j \in Jobs : at[Game] = In("body", j) /\ crossed[j] > 0 => result[j] = "value"

(***************************************************************************)
(* TaskAwait::await_resume, line 170: assert(m_promise->result).  Whoever  *)
(* goes on in LaunchChild finds the result of the child.  A thread that    *)
(* was overtaken does not.                                                 *)
(***************************************************************************)
ChildResult ==
  \A t \in Threads, r \in Remotes : at[t] = InRemote("store", r) => child[r] = "done"

\* Where the game's thread may be.
GamePlace ==
  /\ at[Game].pc = "over" <=> ~alive
  /\ at[Game].pc \in {"frame", "over"} => batch = <<>>
  /\ at[Game].pc = "body" => \E j \in Jobs : at[Game] = In("body", j)
  /\ \A j \in Jobs : at[Game] = In("body", j) <=> status[j] = "running"

\* What a thread in r knows of the two frames of r.
Knows(t, r) ==
  /\ at[t] = InRemote("child", r) => launch[r] = "suspended" /\ child[r] = "running"
  /\ at[t] \in {InRemote("await", r), InRemote("asked", r)} =>
       launch[r] = "suspended" /\ child[r] \in {"suspended", "running", "done"}
  /\ at[t] = InRemote("store", r) => launch[r] = "running" /\ child[r] = "done"
  /\ at[t] = InRemote("hand", r) =>
       launch[r] = "running" /\ child[r] = "freed" /\ result[r[1]] = "value"
  /\ at[t] = InRemote("test", r) =>
       \/ launch[r] = "suspended" /\ child[r] \in {"suspended", "running"}
       \/ launch[r] = "done" /\ child[r] = "freed"

\* Of the remotes of a job only the newest may be unfinished, for which the job
\* waits; its child runs on one thread, and once it ended one thread is inside.
RemoteOK(r) ==
  /\ r[2] > crossed[r[1]] => launch[r] = "unborn"
  /\ launch[r] \in {"suspended", "running"} =>
       r[2] = crossed[r[1]] /\ status[r[1]] = "suspended"
  /\ child[r] \in {"suspended", "running"} => launch[r] = "suspended"
  /\ \A t \in Threads : Knows(t, r)
  /\ \A t, u \in Threads :
       at[t] = InRemote("child", r) /\ at[u] = InRemote("child", r) => t = u
  /\ child[r] \in {"done", "freed"} =>
       \A t, u \in Threads : Inside(t, r) /\ Inside(u, r) => t = u

RemotesOK ==
  /\ \A j \in Jobs : status[j] = "unborn" => crossed[j] = 0
  /\ \A r \in Remotes : RemoteOK(r)

\* The result is there once no remote is at work for the job.
ResultsOK ==
  \A j \in Jobs :
    crossed[j] > 0 /\ status[j] \in {"suspended", "running"} /\ ~Handled(j) =>
      result[j] = "value"

(***************************************************************************)
(* The inductive invariant of async_game.cpp and SpawnCrossTask, from      *)
(* which the properties above follow.                                      *)
(***************************************************************************)
GameInvariant ==
  /\ TypeOK /\ Confinement /\ GamePlace /\ ExactlyOneWakeup
  /\ ~overtaken => RemotesOK /\ ResultsOK

\* Every job that is spawned ends and is freed, unless the game quits: none is
\* forgotten in m_ready or on its way back from a worker that overtook nobody.
EveryJobEnds ==
  \A j \in Jobs : status[j] # "unborn" ~> status[j] = "freed" \/ ~alive \/ overtaken

Queue ==
  INSTANCE ReadyQueue WITH
    queue   <- IF overtaken THEN <<>> ELSE batch \o ready,
    running <- IF ~overtaken /\ at[Game].pc = "body" THEN at[Game].job ELSE None,
    mode    <- IF overtaken THEN "undefined" ELSE IF alive THEN "open" ELSE "closed"

(***************************************************************************)
(* The executor, its two vectors and the hand-over from the workers are a  *)
(* first-in first-out queue, served by one thread, that loses nothing, for *)
(* as long as no thread is overtaken.                                      *)
(***************************************************************************)
ImplementsQueue == Queue!FairSpec
=============================================================================
