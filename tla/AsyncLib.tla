------------------------------ MODULE AsyncLib ------------------------------
(***************************************************************************)
(* The coroutine runtime of async_lib/async_lib.hpp on the completion      *)
(* queue executor of async_grpc/async_grpc.{hpp,cpp}.                      *)
(*                                                                         *)
(* A task is a coroutine frame.  Its body is not fixed: a running body may *)
(* at any point await a queue operation, co_await a fresh task, start a    *)
(* subroutine, co_await one it started, Spawn a root task, return or       *)
(* throw.  A behaviour of this module is a behaviour of SOME program that  *)
(* uses the library as README.md asks.                                     *)
(*                                                                         *)
(* A thread is the C++ call stack it executes, as a sequence of            *)
(* activations, the innermost last.  One step is one shared access of the  *)
(* library code (a done() test, a write of `parent`, an enqueue ...), so   *)
(* two threads interleave between any two of them.                         *)
(***************************************************************************)
EXTENDS Naturals, Sequences

CONSTANTS
  Tasks,          \* the coroutine frames a behaviour may create
  Pollers,        \* threads that run `while (Tick(cq)) {}`
  Spawners,       \* threads that call async_lib::Spawn outside any coroutine
  ValueTasks,     \* the tasks whose T is not void
  ThrowingTasks,  \* the tasks whose body may throw
  MaxOps,         \* bound: queue operations awaited by one coroutine
  None            \* the null pointer

Threads == Pollers \cup Spawners

ASSUME TasksAssumption   == None \notin Tasks /\ ValueTasks \subseteq Tasks
ASSUME MaxOpsAssumption  == MaxOps \in Nat

VARIABLES
  status,    \* of the frame: Tasks -> Status
  started,   \* the tasks whose promise has an executor
  roots,     \* the tasks whose promise has destroyOnDone
  parent,    \* PromiseBase::parent
  result,    \* the tasks whose Promise::result is engaged
  awaiting,  \* p -> the child of the TaskAwait that lives in p's frame
  holder,    \* c -> the coroutine holding the Task of subroutine c
  inflight,  \* the coroutines whose SuspendedJob is a tag in the queue
  ops,       \* queue operations awaited so far (counts up to MaxOps)
  stack      \* Threads -> Seq(Activation)

vars == <<status, started, roots, parent, result, awaiting, holder, inflight,
          ops, stack>>

Status == {"unborn", "suspended", "running", "done", "destroyed"}

(***************************************************************************)
(* Where an activation stands:                                             *)
(*   resume   Resume(job) is about to call job.handle.resume()             *)
(*   check    that call returned, job.handle.done() comes next             *)
(*   body     the body of coroutine co runs                                *)
(*   suspend  co is in TaskAwait::await_suspend, before `parent` is set    *)
(*   await    co is there, child's resume() called; !cur.done() comes next *)
(*   start    co is in StartSubroutine::await_suspend, child resumed       *)
(*   retrieve co runs again and evaluates TaskAwait::await_resume()        *)
(***************************************************************************)
Points == {"resume", "check", "body", "suspend", "await", "start", "retrieve"}

Activation == [at: Points, co: Tasks, child: Tasks \cup {None}]

At(point, c)       == [at |-> point, co |-> c, child |-> None]
In(point, p, c)    == [at |-> point, co |-> p, child |-> c]

TypeOK ==
  /\ status \in [Tasks -> Status]
  /\ started \in SUBSET Tasks /\ roots \in SUBSET Tasks
  /\ result \in SUBSET Tasks /\ inflight \in SUBSET Tasks
  /\ parent \in [Tasks -> Tasks \cup {None}]
  /\ awaiting \in [Tasks -> Tasks \cup {None}]
  /\ holder \in [Tasks -> Tasks \cup {None}]
  /\ ops \in [Tasks -> 0..MaxOps]
  /\ stack \in [Threads -> Seq(Activation)]

Init ==
  /\ status = [c \in Tasks |-> "unborn"]
  /\ started = {} /\ roots = {} /\ result = {} /\ inflight = {}
  /\ parent = [c \in Tasks |-> None]
  /\ awaiting = [c \in Tasks |-> None]
  /\ holder = [c \in Tasks |-> None]
  /\ ops = [c \in Tasks |-> 0]
  /\ stack = [t \in Threads |-> <<>>]

-----------------------------------------------------------------------------
(* The call stack of a thread. *)

Busy(t) == stack[t] # <<>>
Top(t)  == stack[t][Len(stack[t])]

\* The innermost activation of t is e.
Runs(t, e) == Busy(t) /\ Top(t) = e

Call(t, e)   == stack' = [stack EXCEPT ![t] = Append(@, e)]
Leave(t)     == stack' = [stack EXCEPT ![t] = SubSeq(@, 1, Len(@) - 1)]
Become(t, e) == stack' = [stack EXCEPT ![t] = [@ EXCEPT ![Len(stack[t])] = e]]

\* The innermost activation becomes e, which calls f.
BecomeCall(t, e, f) ==
  stack' = [stack EXCEPT ![t] = Append([@ EXCEPT ![Len(stack[t])] = e], f)]

-----------------------------------------------------------------------------
(* async_lib::Resume and the two ways into it. *)

Unborn(c) == status[c] = "unborn"

(***************************************************************************)
(* async_lib::Spawn: the task gets its executor and becomes a root;        *)
(* CompletionQueueExecutor::Spawn resumes it at once, on this thread.      *)
(***************************************************************************)
Spawn(t, c) ==
  /\ Unborn(c)
  /\ \/ t \in Spawners /\ ~Busy(t)
     \/ Busy(t) /\ Top(t).at = "body"
  /\ status' = [status EXCEPT ![c] = "suspended"]
  /\ started' = started \cup {c}
  /\ roots' = roots \cup {c}
  /\ Call(t, At("resume", c))
  /\ UNCHANGED <<parent, result, awaiting, holder, inflight, ops>>

(***************************************************************************)
(* Tick: an operation completed, with either value of ok; its tag is the   *)
(* SuspendedJob in the frame of c, whose job is resumed.                   *)
(***************************************************************************)
Tick(t, c) ==
  /\ t \in Pollers /\ ~Busy(t)
  /\ c \in inflight
  /\ inflight' = inflight \ {c}
  /\ Call(t, At("resume", c))
  /\ UNCHANGED <<status, started, roots, parent, result, awaiting, holder, ops>>

\* What c does first when it is resumed: the await_resume of its TaskAwait, if
\* it was suspended in one.
Continuation(c) ==
  IF awaiting[c] = None THEN At("body", c) ELSE In("retrieve", c, awaiting[c])

\* Resume: job.handle.resume().
ResumeJob(t, c) ==
  /\ Runs(t, At("resume", c))
  /\ status' = [status EXCEPT ![c] = "running"]
  /\ BecomeCall(t, At("check", c), Continuation(c))
  /\ UNCHANGED <<started, roots, parent, result, awaiting, holder, inflight, ops>>

\* What handle.done() returns; of a destroyed frame it reads freed memory.
DoneReads(c) ==
  IF status[c] = "destroyed" THEN BOOLEAN ELSE {status[c] = "done"}

\* Mutants: every finished frame is freed; none is.
DestroyAlways(c) == TRUE
DestroyNever(c)  == FALSE

\* Resume frees a finished frame that nobody awaits.
DestroyOnDone(c) == c \in roots

\* Mutant: the parent is resumed without testing that there is one.
ResumeAnyParent(t, c) == Become(t, At("resume", parent[c]))

\* Resume's last call, on the parent of the finished coroutine c.
ResumeParent(t, c) ==
  IF parent[c] = None THEN Leave(t) ELSE Become(t, At("resume", parent[c]))

(***************************************************************************)
(* Resume: once resume() returned, the job is tested for being done.  If   *)
(* it is, its parent is read, the frame freed, and the parent resumed.     *)
(***************************************************************************)
CheckDone(t, c) ==
  /\ Runs(t, At("check", c))
  /\ \/ /\ FALSE \in DoneReads(c)
        /\ Leave(t)
        /\ UNCHANGED status
     \/ /\ TRUE \in DoneReads(c)
        /\ status' = IF DestroyOnDone(c)
                       THEN [status EXCEPT ![c] = "destroyed"] ELSE status
        /\ ResumeParent(t, c)
  /\ UNCHANGED <<started, roots, parent, result, awaiting, holder, inflight, ops>>

-----------------------------------------------------------------------------
(* TaskAwait: co_await of a task. *)

\* p calls a coroutine function and co_awaits the task it returns.
AwaitTask(t, p, c) ==
  /\ Runs(t, At("body", p)) /\ Unborn(c)
  /\ status' = [status EXCEPT ![c] = "suspended", ![p] = "suspended"]
  /\ awaiting' = [awaiting EXCEPT ![p] = c]
  /\ Become(t, In("suspend", p, c))
  /\ UNCHANGED <<started, roots, parent, result, holder, inflight, ops>>

(***************************************************************************)
(* p co_awaits the subroutine c it holds.  await_ready() tests done(): if  *)
(* so p goes on with await_resume(), else it enters await_suspend().       *)
(***************************************************************************)
JoinTask(t, p, c) ==
  /\ Runs(t, At("body", p)) /\ holder[c] = p
  /\ holder' = [holder EXCEPT ![c] = None]
  /\ awaiting' = [awaiting EXCEPT ![p] = c]
  /\ \/ /\ TRUE \in DoneReads(c)
        /\ Become(t, In("retrieve", p, c))
        /\ UNCHANGED status
     \/ /\ FALSE \in DoneReads(c)
        /\ status' = [status EXCEPT ![p] = "suspended"]
        /\ Become(t, In("suspend", p, c))
  /\ UNCHANGED <<started, roots, parent, result, inflight, ops>>

\* Mutants: no parent is ever set; it is set only for a task that is started here.
SetNoParent(p, c) == UNCHANGED parent
SetParentIfFresh(p, c) ==
  parent' = IF c \in started THEN parent ELSE [parent EXCEPT ![c] = p]

\* await_suspend makes the awaiting coroutine the parent.
SetParent(p, c) == parent' = [parent EXCEPT ![c] = p]

\* await_suspend of a task that has no executor yet: it is started here.
AwaitSuspendFresh(t, p, c) ==
  /\ Runs(t, In("suspend", p, c)) /\ c \notin started
  /\ SetParent(p, c)
  /\ started' = started \cup {c}
  /\ status' = [status EXCEPT ![c] = "running"]
  /\ BecomeCall(t, In("await", p, c), At("body", c))
  /\ UNCHANGED <<roots, result, awaiting, holder, inflight, ops>>

\* await_suspend of a task that was already started: p stays suspended.
AwaitSuspendStarted(t, p, c) ==
  /\ Runs(t, In("suspend", p, c)) /\ c \in started
  /\ SetParent(p, c)
  /\ Leave(t)
  /\ UNCHANGED <<status, started, roots, result, awaiting, holder, inflight, ops>>

\* Mutant: await_suspend returns false whether or not the child is done.
SuspendsNever(c) == {FALSE}

\* What await_suspend returns once cur.resume() did: !cur.done().
AwaitSuspends(c) == {~done : done \in DoneReads(c)}

\* true leaves p suspended, false lets it go on.
AwaitReturn(t, p, c) ==
  /\ Runs(t, In("await", p, c))
  /\ \/ /\ TRUE \in AwaitSuspends(c)
        /\ Leave(t)
        /\ UNCHANGED status
     \/ /\ FALSE \in AwaitSuspends(c)
        /\ status' = [status EXCEPT ![p] = "running"]
        /\ Become(t, In("retrieve", p, c))
  /\ UNCHANGED <<started, roots, parent, result, awaiting, holder, inflight, ops>>

\* await_resume takes the result; ~TaskAwait frees the frame of c.
Retrieve(t, p, c) ==
  /\ Runs(t, In("retrieve", p, c))
  /\ status' = [status EXCEPT ![c] = "destroyed"]
  /\ awaiting' = [awaiting EXCEPT ![p] = None]
  /\ Become(t, At("body", p))
  /\ UNCHANGED <<started, roots, parent, result, holder, inflight, ops>>

-----------------------------------------------------------------------------
(* StartSubroutine, and the end of a coroutine. *)

\* Mutant: StartSubroutine makes p the parent, as TaskAwait does.
StartSubroutineAsParent(t, p, c) ==
  /\ Runs(t, At("body", p)) /\ Unborn(c) /\ p \notin ThrowingTasks
  /\ status' = [status EXCEPT ![c] = "running", ![p] = "suspended"]
  /\ started' = started \cup {c}
  /\ holder' = [holder EXCEPT ![c] = p]
  /\ parent' = [parent EXCEPT ![c] = p]
  /\ BecomeCall(t, In("start", p, c), At("body", c))
  /\ UNCHANGED <<roots, result, awaiting, inflight, ops>>

\* StartSubroutine::await_suspend binds the task to p's executor, resumes it.
StartSubroutine(t, p, c) ==
  /\ Runs(t, At("body", p)) /\ Unborn(c) /\ p \notin ThrowingTasks
  /\ status' = [status EXCEPT ![c] = "running", ![p] = "suspended"]
  /\ started' = started \cup {c}
  /\ holder' = [holder EXCEPT ![c] = p]
  /\ BecomeCall(t, In("start", p, c), At("body", c))
  /\ UNCHANGED <<roots, parent, result, awaiting, inflight, ops>>

\* The subroutine is suspended or done; p goes on, holding its Task.
StartReturn(t, p, c) ==
  /\ Runs(t, In("start", p, c))
  /\ status' = [status EXCEPT ![p] = "running"]
  /\ Become(t, At("body", p))
  /\ UNCHANGED <<started, roots, parent, result, awaiting, holder, inflight, ops>>

\* CompletionQueueAwaitable::await_suspend: the operation is enqueued with the
\* SuspendedJob as its tag, and control returns to whoever resumed c.
AwaitOp(t, c) ==
  /\ Runs(t, At("body", c)) /\ ops[c] < MaxOps
  /\ ops' = [ops EXCEPT ![c] = @ + 1]
  /\ status' = [status EXCEPT ![c] = "suspended"]
  /\ inflight' = inflight \cup {c}
  /\ Leave(t)
  /\ UNCHANGED <<started, roots, parent, result, awaiting, holder>>

\* README.md: whoever starts a subroutine co_awaits it, so a body that ends
\* holds no task.  final_suspend leaves the frame in place.
End(t, c) ==
  /\ Runs(t, At("body", c)) /\ \A d \in Tasks : holder[d] # c
  /\ status' = [status EXCEPT ![c] = "done"]
  /\ Leave(t)
  /\ UNCHANGED <<started, roots, parent, awaiting, holder, inflight, ops>>

\* return_value emplaces the result; return_void has none.
Return(t, c) ==
  /\ End(t, c)
  /\ result' = IF c \in ValueTasks THEN result \cup {c} ELSE result

\* unhandled_exception() is empty: the coroutine just ends, with no result.
Throw(t, c) == c \in ThrowingTasks /\ End(t, c) /\ UNCHANGED result

-----------------------------------------------------------------------------

\* What the code makes thread t do next, whatever the program does.
Step(t) ==
  \/ \E c \in Tasks :
       \/ Tick(t, c) \/ ResumeJob(t, c) \/ CheckDone(t, c)
       \/ AwaitOp(t, c) \/ Return(t, c) \/ Throw(t, c)
  \/ \E p, c \in Tasks :
       \/ AwaitTask(t, p, c) \/ JoinTask(t, p, c)
       \/ AwaitSuspendFresh(t, p, c) \/ AwaitSuspendStarted(t, p, c)
       \/ AwaitReturn(t, p, c) \/ Retrieve(t, p, c)
       \/ StartSubroutine(t, p, c) \/ StartReturn(t, p, c)

Next == \E t \in Threads : Step(t) \/ \E c \in Tasks : Spawn(t, c)

Spec == Init /\ [][Next]_vars

\* A thread that can move does (the operating system schedules it, gRPC
\* completes every operation); nobody is obliged to spawn a task.
FairSpec == Spec /\ \A t \in Threads : WF_vars(Step(t))

-----------------------------------------------------------------------------
(* Properties. *)

Alive(c) == status[c] \notin {"unborn", "destroyed"}

Activations == UNION {{stack[t][i] : i \in DOMAIN stack[t]} : t \in Threads}

(***************************************************************************)
(* No pointer dangles: every frame that a call on some thread's stack, a   *)
(* tag in the queue, a TaskAwait, a held Task or the parent of a live      *)
(* frame refers to is allocated.                                           *)
(***************************************************************************)
FramesAlive ==
  /\ \A e \in Activations : Alive(e.co) /\ (e.child # None => Alive(e.child))
  /\ \A c \in inflight : Alive(c)
  /\ \A p \in Tasks : awaiting[p] # None => Alive(p) /\ Alive(awaiting[p])
  /\ \A c \in Tasks : holder[c] # None => Alive(c) /\ Alive(holder[c])
  /\ \A c \in Tasks : Alive(c) /\ parent[c] # None => Alive(parent[c])

(***************************************************************************)
(* A coroutine is resumed only while it is suspended: by Resume, by the    *)
(* completion of its operation, and by an await_suspend returning false.   *)
(***************************************************************************)
NoDoubleResume ==
  /\ \A t \in Threads, c \in Tasks :
       Runs(t, At("resume", c)) => status[c] = "suspended"
  /\ \A c \in inflight : status[c] = "suspended"
  /\ \A t \in Threads, p, c \in Tasks :
       Runs(t, In("await", p, c)) /\ status[c] = "done" => status[p] = "suspended"

(***************************************************************************)
(* async_lib.hpp, TaskAwait::await_resume: assert(m_promise->result).  The *)
(* awaited frame is still there, and a task with a value has produced it.  *)
(***************************************************************************)
AwaitedResult ==
  \A t \in Threads, p, c \in Tasks :
    Runs(t, In("retrieve", p, c)) /\ c \in ValueTasks =>
      status[c] = "done" /\ c \in result

(***************************************************************************)
(* While a coroutine is suspended on a finished task, some thread is still *)
(* on its way to resume it: README.md's greedy Resume never stops short.   *)
(***************************************************************************)
NoLostWakeup ==
  \A p, c \in Tasks :
    awaiting[p] = c /\ status[c] = "done" /\ status[p] = "suspended" =>
      Activations \cap {At("check", c), In("await", p, c), In("suspend", p, c),
                        At("resume", p)} # {}

(***************************************************************************)
(* When no thread runs a coroutine and the queue is empty, every frame     *)
(* has been freed: nothing leaks and nobody waits for ever.                *)
(***************************************************************************)
NothingLeftBehind ==
  (\A t \in Threads : ~Busy(t)) /\ inflight = {} =>
    \A c \in Tasks : ~Alive(c)

\* A coroutine that was called ends, and its frame is freed: no chain of awaits
\* is ever left waiting (README.md: Resume stops at a suspend point or when the
\* root job is finished).
EveryTaskEnds == \A c \in Tasks : Alive(c) ~> status[c] = "destroyed"
-----------------------------------------------------------------------------
(* The promise of the library to its user is TaskContract: what the frames    *)
(* go through, whatever threads, call stacks, queue and parents do.           *)

PhaseOf == [unborn |-> "new", suspended |-> "live", running |-> "live",
            done |-> "ended", destroyed |-> "freed"]

Phase == [c \in Tasks |-> PhaseOf[status[c]]]

Contract == INSTANCE TaskContract WITH phase <- Phase, waits <- awaiting

(***************************************************************************)
(* The runtime implements the contract: a co_await returns once, after the *)
(* awaited task has ended, and it does return; every frame is freed once.  *)
(***************************************************************************)
ImplementsContract == Contract!FairSpec
=============================================================================
