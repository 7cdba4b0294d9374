# TLA+ models and proofs for async_sandbox

The program is a C++20 sandbox of three layers: a coroutine library
(`src/async_lib`), an asynchronous gRPC layer on top of it (`src/async_grpc`,
with an example server and client), and a small text game (`src/game`) whose
characters are coroutines that call the server. It has no tests; what it has
are assertions, comments and `src/README.md`, and a lot of behaviour that
depends on which thread resumes which coroutine when. This directory holds TLA+
modules translated from that code, TLC configurations that check them on small
instances, and TLAPS proofs of what matters most.

File names below are relative to `src/`.

## 1. Inventory

| Component | State it keeps | Operations | Interacts with |
|---|---|---|---|
| **async_lib tasks** `async_lib/async_lib.hpp` | per coroutine frame: promise (`executor`, `parent`, `destroyOnDone`, `result`), suspended/done | `Spawn`, `Resume`, `co_await` of a task (`TaskAwait`), `StartSubroutine`, return, throw | every other part; calls the executor's `Spawn` |
| **SpawnCrossTask** same file | `m_childTask`, `m_result`, the parent's handle | `await_suspend`, `LaunchChild`, `await_resume` | two executors, on two threads |
| **CompletionQueueExecutor** `async_grpc/async_grpc/async_grpc.{hpp,cpp}` | a gRPC completion queue, threads that poll it | `Spawn` (resumes at once), `Tick`, `Shutdown`; `CompletionQueueAwaitable`, `Alarm` | gRPC; resumes tasks |
| **Client layer** `client.{hpp,cpp}` | retry count, channel index | unary call with retries, streams | the game and the example client |
| **Server layer** `server.{hpp,cpp}` | executors, `m_nextExecutor`, one listener coroutine per rpc | construct, listen, accept, spawn a handler, shut down | gRPC, services |
| **VariableService** `async_grpc/server/variable_service_impl.*` | `m_storage`, `m_mutex` | Write, Read, Del | server layer, game |
| **EchoService** `echo_service_impl.*` | per call: message, subroutine, alarm | four echo rpcs | server layer, example client |
| **Example programs** `async_grpc/{client,server}/main.cpp` | | the command line | all of async_grpc |
| **Game executor** `game/async_game.{hpp,cpp}` | `m_ready`, `m_lock`, the batch of `Update` | `Spawn`, `MarkReady`, `Update` | game thread, workers |
| **Character, Game** `game/main.cpp` | `m_state`, time of the last xp | Init, EarnXp, Reincarnate, input | CharacterService |
| **CharacterService** `game/character_service*` | the player: in memory, or two keys of VariableService | GetPlayer, GiveXp, LevelUp, Reset | VariableService through retried calls |
| **InputHandler** `game/main.cpp` | a promise, a condition variable, a thread | GetString, the input loop | game thread |
| **utils, printing** `utils/`, `iostream.*` | | | |

What is hard in it, and what makes each part correct:

- *async_lib*: resuming is greedy (README.md:19): one `Resume` runs the
  innermost coroutine, then its parent, and so on up to the root. After every
  `resume()` the code looks at a frame that someone may have advanced or freed.
  Correct means: no pointer to a freed frame is used, a coroutine is resumed
  only while suspended, the awaited result is there, no awaiter is forgotten,
  and every frame is freed once.
- *SpawnCrossTask and the game executor*: a job must run only on the game's
  thread, one at a time, and have exactly one wakeup ahead of it, although its
  child ends on another thread and hands it back through a shared vector. The
  executor may be destroyed in the meantime.
- *Server*: listeners migrate between executors, their tags and those of the
  handlers sit in different queues, and destruction has to end them all.
- *VariableService*: handlers on several threads must look atomic, and must not
  hold a lock over a `co_await`.
- *EchoService and its client*: a subroutine writes, on whichever thread, what
  the coroutine reads and changes; a cancelled alarm races its expiry. The
  handlers do not look at the results of Read, Write and Alarm, so a broken
  stream looks to them like one that has ended, and still no client may take
  part of an echo for all of it. A client quits and a server stops while calls
  are under way, and everything ends.
- *CharacterService*: an operation is two or three remote calls, which overlap
  with those of other coroutines, fail, are repeated, and arrive late.
- *InputHandler*: a wait without a predicate, a notify without the mutex, and a
  promise two threads use.

`PROJECT.json` lists the components with their status and the hazards line by
line.

## 2. Modules

| Module | What it is |
|---|---|
| `TaskContract` | abstract: what async_lib promises to its user |
| `AsyncLib` | the library on a completion queue executor; implements `TaskContract` |
| `AsyncLibInvariant` | the inductive invariant of `AsyncLib` with one thread |
| `AsyncLib_proofs`, `AsyncLibContract_proofs` | proofs: safety of each step; that nothing is left behind, and the refinement |
| `ReadyQueue` | abstract: what the game executor promises |
| `GameExecutor`, `GameExecutor_proofs` | game executor, its jobs and `SpawnCrossTask`; implements `ReadyQueue` as long as the program's behaviour is defined; proofs |
| `CharacterServiceMemory` | abstract: a character service whose operations are atomic (it *is* the in-memory service) |
| `Character`, `Character_proofs` | the character on the gRPC service, which does to the player what `CharacterServiceMemory` does when a call is left alone, but returns other values; proofs |
| `EchoCalls`, `EchoCalls_proofs` | the unary, client-stream and server-stream echoes, with the retries of the client, the end of the client and of the server; proofs |
| `BidirectionalEcho`, `EchoSession`, `EchoSession_proofs` | the bidirectional handler and its subroutine; composed with the example client or any other; proofs |
| `InputHandler`, `InputHandler_proofs` | the game's input thread and the promises it sets; proofs |
| `VariableStore` | abstract: an atomic store |
| `VariableService` | the three handlers under the shared mutex; implements `VariableStore` |
| `Server`, `Server_proofs` | `async_grpc::Server` running `VariableService` from construction to destruction; proofs |
| `MC...` | instances for TLC; they declare model values and definitions for constants |

A module holds its component's properties, and (except `AsyncLib`) under "Why
..." the inductive invariant its proofs rest on. The runs check these invariants
too, but for `EchoInvariant` and `HeardOK`, which only the proofs establish, as
they do `ChildResult` until a thread is overtaken, the bounds `CallsAreBounded`
and `EchoesAreBounded` on the work that is left, and `NothingAfterDestruction`
(of which `DestructionEnds` checks the instance with liveness).

### How state and actions correspond to the code

**AsyncLib.** A frame is an element of `Tasks`; the variables are the fields of
its promise (`parent`, `result`, `roots` for `destroyOnDone`, `started` for a
promise that has an executor), of the objects that live in frames (`awaiting`,
the child of a `TaskAwait`; `holder`, who holds the `Task` of a subroutine) and
of the queue (`inflight`, the `SuspendedJob`s that are tags). A thread is its
C++ call stack: `stack[t]` is a sequence of activations, each at the point the
code stands at: in `Resume` before or after `resume()`, in a body, in one of
the `await_suspend`s, in `await_resume`. One step is one shared access, so two
threads may interleave between, say, a `resume()` that returns and the `done()`
that follows it. Bodies are not fixed: wherever a body runs it may do anything
the library offers, so a behaviour is one of *some* program. The one discipline
taken from README.md:21 is that whoever starts a subroutine awaits it (`End`
requires it, and a task that starts one does not throw). `done()` of a
destroyed frame reads freed memory and may return either value. A job is passed
by value; that `Tick` passes a reference into the frame
(`async_grpc.cpp:32`) is not modelled. `NestedEcho` and `Noop` of the example
client are await chains of this module.

**GameExecutor.** A job is a root coroutine as a whole (what happens inside it
is `AsyncLib`'s subject); `ready` and `batch` are `m_ready` and the local
vector of `Update`. `TakeReady` is the swap under the lock, `ResumeNext` an
iteration of the loop, `Spawn` and `HandOver` the two calls of `MarkReady`.
A remote is two coroutines, `LaunchChild` and the child it awaits, each with a
frame of its own (`launch`, `child`). Both begin on the game's thread, because a
completion queue executor resumes at once, and go on on a worker. A thread that
leaves one of them asks `done()` in a step of its own: `AwaitSuspend` of the
child inside `TaskAwait::await_suspend` (`async_lib.hpp:161`), `AskChild` and
`TestRemote` in `Resume` (line 44). In between another worker may take the
operation, end the child, go on in `LaunchChild` and destroy both:
`AwaitFreed`, `AskFreed`, `StoreAgain`, `HandOverFreed`, `FreeAgain` and
`ResumeEnded` are what the late thread then meets. `overtaken` remembers that a
child ended while another thread had yet to ask it. That is the race of
`async_lib_foreign_spawn`, here of the game's thread and a worker, or of two
workers. From then on a job may be handed over twice, and a frame used after its
end; a thread that does so is "undefined", and followed no further. The
properties are about the program up to there, and `ReadyQueue` has a step
(`Fail`) for it; `Confinement` holds also after it.

**Character.** `pc[c]` is the next remote call of coroutine `c`; a step
`ReadAnswered` or `WriteAnswered` is one remote call with its effect on the
storage. `local[c]` is `cur_xp` or `cur_level`, which is also what the call
returns. `Retry` and `...Failed` are attempts that end with an error: the
server may have executed the request, may never, or may later (`late`). xp is
scaled: `Amount` 1 stands for 100, and `Threshold` for 1000. Time is abstracted
to: a fighting character may earn xp at any frame. `alone` is a history variable:
the call of the service that has had the player to itself and met no failure
since it began, with the player it began with. It ends with a failure for
good, with a request given up that may come late, and with a call that begins
beside it.

**EchoCalls.** One command of the example client, whose coroutine is `client`
(what it awaits), `tries` (the calls it has made: more than one only with
`AutoRetryUnary`), `sent`, `got` and `status`. `calls[c]` is a call: the two
directions of its stream (`up`, `closed`, `down`), whether it is `cancelled`,
and its handler (`handler`, and its locals `heard` and `n`). An operation is one
step, in which gRPC completes it. `Cut` is what a lost connection or a
cancellation does: of what was on its way each side can still read some
beginning. From then on what the handler writes goes nowhere, its `Read` fails
when nothing is left, and it goes on to its `Finish` all the same, because it
does not look at these results; the client's operations fail, its `Read` when
nothing is left, and its `Finish` gives `UNAVAILABLE` or another error. `CallMissed`
is `await_suspend` of `async_grpc.hpp:103`, which stores the new call only after
the operation was enqueued: another thread that polls may have resumed the
coroutine by then, which finds no call and ends. `Quit` is `quit` typed while a
command runs: the client's queue is shut down under its coroutine. `server` is
the end of the server program: `Stop` (no new call), `Deadline` (the calls left
are cancelled), `CloseQueues` (of `~Server`), and `Die`, gRPC's assertion when a
handler then enqueues another operation. The counter `n` of
`ServerStreamEchoImpl` wraps at `MaxUInt + 1`, for 2^32.

**BidirectionalEcho / EchoSession.** `main` and `writer` are what the coroutine
and the subroutine await; a step is what one of them does between two awaits.
`co_await std::move(subroutine)` is not one step, because two threads poll each
executor (`server.hpp:33`, `client/main.cpp:236`) and the `Cancel` just before lets the
subroutine end: `AwaitReady` is `done()` in `await_ready` (`async_lib.hpp:151`),
`AwaitSuspend` first stores the parent (155) and then looks at the promise's
executor (157), and `ResumeParent` is the other thread's `Resume`, after the subroutine's
end (44-51). If it finds no parent the coroutine is never resumed: `LostWakeup`
(`ReaderLost` for the client, whose `Collect`, `CollectSuspends` and
`ReaderResumes` are the same steps). If it resumes the parent too soon, the subroutine's frame goes
while `await_suspend` still looks at it; or the coroutine frees it when
`await_ready` finds it done, before that thread has read its promise. The same
may happen to a thread that resumed a coroutine earlier and asks `done()` of it (44)
only when it has ended on another thread. In each of these a frame is used after its
end, and the coroutine becomes "undefined".
The client is the script of `client/main.cpp`, or "other": one that sends any
commands, closes or cancels when it likes. `Break` is a lost connection,
`CallMissed` as above, and `Abandon` the client's early returns.

**InputHandler.** `game` and `thread` say where the two threads stand; a step is
one access of what they share: `m_ready`, the stop request, the promise
(`value`, the line it was set to), the condition variable. `m_mutex` is locked by
one thread only and protects nothing, so it has no variable. The n-th line is
the number n; any line may be "quit".

**VariableService / Server.** One key; an entry of the map is named after the
write that inserted it, so that an iterator can be seen to dangle. A handler
takes the lock, accesses the map, and releases the lock before it awaits
`Finish`, each in a step of its own. In `Server` a listener has a place
(running, asking gRPC, called, told to stop), the executor it selected and the
queue its tag is in; a thread is idle, in a handler, or in a listener. The
coroutine of a listener and the handler it spawns run on one thread, the
handler first, as `AsyncLib` says of `Spawn`. `main` is the thread that builds
the `Server` and later destroys it: `Shutdown` waits for the calls, then each
executor's queue is shut down and its threads joined, in order. This is a
server that is destroyed without `Shutdown(deadline)`; what a deadline adds,
calls cancelled under their handlers, is in `EchoCalls`, whose handlers are the
ones that may take long.

## 3. What TLC checks

Every property has a mutant in `PROJECT.json`: a plausible bug in a mapped
definition that makes the run fail.

| Run | Question | Bounds |
|---|---|---|
| `async_lib_single` | one thread that polls and spawns: all safety properties, the invariant the proofs use, every task ends, `TaskContract` is implemented | 3 tasks (2 with a value, 1 that may throw), 2 operations each |
| `game_executor` | confinement to the game's thread; until a thread is overtaken, exactly one wakeup, results present, jobs end, `ReadyQueue` implemented; the invariant | 2 jobs, 2 workers, 1 cross task per job, 2 operations each |
| `character_overlap` | overlapping, failing, retried, late calls: nothing is gained for free, Init comes first, a call that is left alone is exact, every call ends; the invariants | 3 calls, 1 retry, 1 late request, level-up at any xp |
| `echo_calls` | connections that break, calls that are retried, `quit`, the server's end: an OK means the whole echo, the retries are used up and not exceeded, all that began ends | 3 messages, counts 0 to 3, 3 retries, 2 messages on their way in a direction |
| `echo_session` | scope of the subroutine, stability of its message, a cancelled call and a session end unless a wakeup is lost, the script is never refused; the invariant | 3 messages (1 invalid), 3 commands on their way |
| `input_handler` | lines in order and none twice; none lost, and no promise set twice, without spurious wakeups; the invariant | 6 lines, 2 spurious wakeups |
| `server` | handlers on their executor, iterators valid, no lock over an await, `Finish` on an open queue, `VariableStore` implemented, calls answered, destruction ends; the invariant | 2 executors of 1 thread, 3 of 4 possible requests |
| `async_lib_two_pollers`, `async_lib_foreign_spawn` | disagreements (section 6) | 2 tasks, 1 operation |
| `echo_stop`, `server_destruction` | disagreements (section 6) | as `echo_session`, `server` |
| `character_returns` | disagreement (section 6) | 2 calls that neither overlap nor fail, level-up at 2 xp |

*Why the bounds are enough to be interesting.* With three tasks there are
chains root, awaited task, subroutine, and a parent resumed in the middle of
another task's `Resume`; two operations let a coroutine be suspended before
and after it awaits. Two jobs and two workers let one job be
handed back while the other one runs and while its own remote is still
being tested; two operations let a worker be overtaken by another one, one by
another the game's thread (every step that only an overtaken thread makes is taken
in the run). Three calls are Init and two more, each an EarnXp that levels up or a
Reset, that overlap with a request still under way from an earlier attempt, or
follow each other alone. Two executors with
three listeners make the round robin and the order of closing visible, and of
the four requests three are enough for two writes and a read or a delete at
once. Three messages and a window of two make the client's stream and the
numbers of a server stream wait for each other and be cut at every place; a
count of 3 = `MaxUInt` is the one whose loop never ends. All bounds are named
constants: `MaxOps`, `MaxCross`, `MaxRetries` and `Retries` (the code's, lowered
from 5), `MaxUInt` (from 2^32 - 1), `MaxLate`, `MaxSent`, `Window`,
`MaxRequests`, `MaxLines`, `MaxSpurious`. One more bound is a guard: a client
reads no more than `MaxUInt + 1` numbers of the endless stream. The proofs need
none of these values.

*Fairness.* Each thread that can move does: the operating system schedules it,
and a thread in `Tick` returns when an operation is complete. gRPC completes
every operation it accepted, with or without `ok`, and alarms expire. The game
calls `Update` each frame until it quits. A free lock is taken by one who
waits. Nobody is obliged to spawn a task, send a command, make a request, quit
or shut down, and no connection has to break. All of it is weak fairness per thread or coroutine;
`EveryTaskEnds` needs also that a body ends or awaits, which `MaxOps` and the
finite number of tasks give.

*Deadlock checking* is off in every run: every one of these systems may stop
(no more tasks to spawn, the game over, the session closed, the server
destroyed). What must not get stuck is stated instead: `NothingLeftBehind`,
`EveryTaskEnds`, `EveryJobEnds`, `EveryCallEnds`, `CallsEnd`,
`CancelledCallEnds`, `SessionEnds`, `CallsAnswered`, `DestructionEnds`.

## 4. What is proved

With TLAPS, for every value of the constants that the assumptions named below
allow:

| Theorem | Says |
|---|---|
| `AsyncLib_proofs!TypeCorrect` | `Spec => []TypeOK`, with any number of threads |
| `AsyncLib_proofs!SingleThreadSafe`, `SingleThreadResumesOnce`, `SingleThreadFindsResult`, `SingleThreadWakesAwaiter` | `FramesAlive`, `NoDoubleResume`, `AwaitedResult` and `NoLostWakeup` always hold |
| `AsyncLibContract_proofs!SingleThreadInvariance`, `SingleThreadLeavesNothing` | `SingleThreadInvariant` and `NothingLeftBehind` always hold |
| `AsyncLibContract_proofs!SingleThreadRefinesContract` | `Spec => Contract!Spec` |
| `GameExecutor_proofs!GameInvariance`, `GameConfinement`, `GameWakeups`, `GameResults` | `GameInvariant`, `Confinement`, `ExactlyOneWakeup` and `CrossResult` always hold; the last two speak of behaviours in which no thread was overtaken yet |
| `GameExecutor_proofs!GameChildResults` | `overtaken \/ ChildResult` always holds: the assertion of `await_resume` fails in no other way |
| `GameExecutor_proofs!GameRefinesQueue` | `Spec => Queue!Spec`, where overtaking is `Fail` |
| `Character_proofs!CharacterInvariance`, `NothingGained`, `PlayerReadFirst` | `CharacterInvariant`, `NothingForFree` and `InitFirst` always hold, with or without overlap and faults |
| `Character_proofs!EveryCallIsBounded` | `Spec => CallsAreBounded`, with or without overlap and faults: what is left of a call only shrinks |
| `Character_proofs!LoneInvariance`, `LoneCallsAreExact` | `LoneInvariant` and `LoneCallsExact` always hold, with or without overlap and faults |
| `EchoCalls_proofs!EchoInvariance`, `EchoIsFaithful`, `RetriesUsed` | `EchoInvariant`, `EchoFaithful` and `AttemptsUsed` always hold |
| `EchoCalls_proofs!EchoesBounded` | `Spec => EchoesAreBounded`: what is left to do for the client and for each handler only shrinks |
| `EchoSession_proofs!SessionInvariance`, `SubroutineStaysInScope`, `ScriptNotRefused` | `SessionInvariant`, `SubroutineInScope` and `NothingRefused` always hold |
| `EchoSession_proofs!MessageStays` | `SessionSpec => MessageStable`, an action property |
| `InputHandler_proofs!InputInvariance`, `LinesDelivered`, `LinesInOrder` | `InputInvariant`, `InOrder` and `NothingLost` always hold |
| `Server_proofs!ServerInvariance`, `HandlerStaysOnExecutor`, `IteratorValid`, `LockReleased`, `FinishBeforeClose` | `ServerInvariant`, `HandlerOnItsExecutor`, `EntryAlive`, `NoLockAcrossAwait` and `FinishOnOpenQueue` always hold |
| `Server_proofs!DestructionIsComplete` | `NothingAfterDestruction` always holds: a destructor that has returned has left no thread, listener or handler |
| `Server_proofs!ServerRefinesStore` | `Spec => Store!Spec`: the service under the server is linearizable |

*Assumptions.* Each module names those on its constants: bounds are natural
numbers, a null value is not one of the things it stands for, sets that are
counted (`Calls`) are finite, the messages of a client are at least one. The
theorems of `AsyncLib`, except for type correctness, assume also that there is
one thread, which polls the queue and spawns the tasks (`Threads = {t}`), and
that no task with a value throws. Both are needed: without the first,
`async_lib_two_pollers` and `async_lib_foreign_spawn` are counterexamples;
without the second, a value task that throws leaves no result. One thread is a
program that calls `Tick` itself, such as a test or a game loop with a
completion queue of its own; the example programs are *not* in that setting (the
server's default is two threads per executor, the example client spawns from
its main thread). The other modules have any number of threads, workers,
executors, jobs, calls or requests.
`DestructionIsComplete` assumes that each executor has a thread (`server.hpp:33`
gives it two), since a queue that nobody polls is never drained.

*The argument for AsyncLib.* None of the four properties is inductive: whether a resume is
safe depends on who else could resume the coroutine, and that depends on the
shape of the whole call stack. `AsyncLibInvariant!IInv` says

- `StackShape`, `OneActivation`: resumers and the coroutines they resumed
  alternate on the stack, and a coroutine is on it at most once;
- `EntriesOK`: what holds of the coroutine at each point of the code;
- `QueueOK`: a coroutine whose tag is in the queue is suspended, waits for no
  task and is not on the stack, so a completion and a parent never compete;
- `AwaitingOK`, `HolderOK`, `ParentOK`, `UnbornOK`: the links between frames
  form a forest, in which `parent` is the inverse of `awaiting`;
- `ResultOK`, `WakeupOK`: a finished task has its result, and someone on top of
  the stack is about to resume whoever waits for it.

Each action has a lemma that it preserves `IInv`, under lemmas about pushing,
replacing and popping activations; `IInvSafety` derives the four properties.
The refinement maps `status` to the contract's phases and shows that each
action is one step of the contract or changes nothing it mentions.

`NothingLeftBehind` needs more: not that each resume is safe, but that each
frame has somebody who will get to it. `TaskOK` says so of one frame: it runs on
the stack, or its tag is in the queue, or it waits for another task, or it is
about to be resumed or started; and it is freed by whoever awaits or holds it
or, of a root, by the `Resume` that runs it. With an idle thread and an empty queue every
frame that is left waits for a task, so everybody in that set waits for somebody
in it. `Forest` forbids that: of any set of coroutines one waits for none
of the others. It is stated over sets rather than paths, so that it needs no
induction; it is inductive because `co_await` and `StartSubroutine` take a
coroutine that is new.

`InputInvariant` is smaller. `LinesOrdered` counts the lines the game got, the
one in the promise and the one in the thread's hand, and orders them; it makes
`InOrder` inductive. `OnlyWhenAsked` holds while no wakeup was spurious: the
thread reads only while the game is in its frames and the promise is empty, and
whoever renews a promise has had its line. From it follows `NothingLost`.

`GameInvariant` adds to the properties where the game's thread is (`GamePlace`:
between frames its batch is empty) and, until a thread is overtaken, what a thread
that is inside a remote knows of its two frames (`Knows`), that of a job's remotes
only the newest may be unfinished, that its child runs on one thread, that once
the child ended one thread is inside (`RemotesOK`), and that the result is stored
before the job is handed over (`ResultsOK`). The one step that can break
`RemotesOK` is `EndChild` with another thread inside, and it sets `overtaken`. Of
what follows, `GamePlace` and `Confinement` still hold: only `Update` resumes a
job, and a job it finds ended leads nowhere. `ExactlyOneWakeup` counts a job in
`batch \o ready`, so that the swap of the two vectors changes nothing: the same
concatenation is the abstract queue of the refinement, which is given up
(`Fail`) in the step that sets `overtaken`.

`CharacterInvariant` bounds the stored xp and level by those who may have raised
them (`Raisers`), which is more than the property needs: a coroutine that has
only read a value has raised nothing yet, so what it will write, its value plus
one, is still within the bound once it is a raiser itself. Requests under way
(`late`) obey the bound too; the set of raisers only grows, so a request that
arrives late stays within it.

`LoneInvariant` is about the call in `alone`, and compares the player stored with
the one it began with: at each step (`GiveAt`, `LevelAt`, `ResetAt`) the storage
holds what the call found or what the request it is making writes, and what it has
read is still true. It is inductive with overlap and faults, because a step of
another call, a failure for good and a request that may come late all end `alone`,
and a retry that the server executed writes the same value again.
`LoneCallsExact` follows where the call returns.

`CallsAreBounded` and `EchoesAreBounded` are the safety half of the liveness
properties: a measure that is a natural number, that each step of a coroutine
(or client, or handler) decreases, and that no step of another increases. With weak
fairness that is why `EveryCallEnds` and `CallsEnd` hold; that last step, and
that there always is a next step to take, remain TLC's. For `Character` the measure is the remote
calls left, times the attempts each may take. For the client of `EchoCalls` it is the
attempts left times the operations of one, which depend on the words still to
be sent or the numbers still to come; for a handler on those it has
yet to send, and on `HeardOK`: it hears no more words than were sent. The counter
wraps only when the count is the largest, which is `Endless`.

`EchoInvariant` says where the echo is: with a single reply, the words heard and
those on their way are the words sent (`InOrder`), and the reply is the whole
echo or does not arrive (`ReplyOK`); with numbers, the i-th response on its way
is the i-th after those received, and only behind the last one comes the end
(`NumberOK`). Both hold only as long as the call lives; of a dead call it says
that nothing more is added to what was kept.

`SessionInvariant` has the client after n commands of its script and the server
after k, with just the commands k + 1 to n on their way (`InScript`); a coroutine
that became undefined sends and reads no more, and leaves what was sent in order. That
server and subroutine agree is `SubroutineInScope`, which is inductive, and
`MessageStable` follows from it action by action.

`ServerInvariant` consists of the mutex (who has it is where the handlers are:
`MutexOK`), the map (`StorageOK`), responses that are not set before the map is
accessed (`AnswersOK`), listeners whose tag is in the queue of the executor they
selected (`ListenersOK`), threads that are at one handler each (`ThreadsOK`), and
queues that are shut down only after the calls (`DestructionOK`): together
`ServingInvariant`. That the destructor has left nothing needs three parts more:
a listener that runs is on some thread (`Attended`); main has still to start the
listeners that are new (`Unstarted`); and a thread ends only when its queue is
shut down and empty, with nobody left who could put something in
(`ThreadsGone`). So after the last join there is no thread to run a listener, no
queue to hold one and none that is new. In the refinement a write, a delete and a miss take effect at the access of the map, a
hit where the value is taken; the lock is what keeps the entry until then.

*Only model-checked.* All liveness (`EveryTaskEnds`, `EveryJobEnds`,
`EveryCallEnds`, `CallsEnd`, `CancelledCallEnds`, `SessionEnds`, `CallsAnswered`,
`DestructionEnds`, and the fairness part of `ImplementsContract` and
`ImplementsQueue`), since liveness under fairness is out of the prover's reach.
`CancelledCallEnds` and `SessionEnds` excuse a wakeup that is lost
(`LostWakeup`, `ReaderLost`) and a coroutine that became undefined, and
`EveryJobEnds` an overtaken thread: the code guarantees no more.
Every invariant and safety part that a passing run checks is also a theorem, those
of `AsyncLib` for one thread. No module uses recursion.

## 5. What is not modelled

- The command lines, printing, utils (`utils/expected.hpp` is a value or an
  error, with no state of its own).
- gRPC itself: it is what the code expects of it, fair and without loss of
  completions. Connections break, and in `Character` requests are lost, repeated
  and delayed.
- `ChannelProvider`: a counter that chooses among equivalent channels.
- A deadline in `Server`: `Shutdown(deadline)` of
  `async_grpc/server/main.cpp:25` is in `EchoCalls` only.
- The write of `m_result` by `await_suspend` (`async_grpc.hpp:111`) into a frame
  that has gone on or was freed; only that the coroutine does not find its call.
- The assertion of `~Task` (`async_lib.hpp:125`).
- In `Server` and `EchoCalls` an operation is one step, with the suspension of its
  coroutine: that of two polling threads the later one may still have to ask `done()`
  (line 44) of a coroutine that the other has brought to its end is in `AsyncLib`,
  `GameExecutor`, `BidirectionalEcho` and `EchoSession` only. Likewise
  `AutoRetryUnary` and the `CallUnary` it awaits are one coroutine.
- Time: alarms and retry delays may be over at any moment.
- The `default: assert(false)` of a command with no content
  (`echo_service_impl.cpp:109`).
- What a program does after it touched freed memory. `AsyncLib` follows the reads
  by `done()`, as a free choice of either value; `GameExecutor` too, until a thread
  resumes or destroys what is not there; in `BidirectionalEcho` and
  `EchoSession` the coroutine stops there ("undefined").
- A client or server process that gRPC's assertion has ended (`Quit`, `Die`,
  `Aborts`): its model stops there.

## 6. Disagreements between the code and what is said of it

Each of these has a run whose counterexample shows it:

| Run | What is said | What happens |
|---|---|---|
| `async_lib_two_pollers` | README.md:19, `Resume` goes on up to a suspend point or the end of the root | with two polling threads, a subroutine that finishes on one between the other's `await_ready` test and `parent = ` wakes nobody. The server's handler does it at `echo_service_impl.cpp:104` and `:115`, and the client at `client/main.cpp:231` (`LostWakeup`, `ReaderLost`) |
| `async_lib_foreign_spawn` | `assert(m_promise->result)` in `await_resume` | a spawn from a thread that does not poll: both threads resume the awaiter, and the second finds no child. The game's thread and a worker do it in `SpawnCrossTask` (`GameExecutor`, `overtaken`), and may hand the job over twice |
| `character_returns` | `character_service.hpp:18` and `:22`: GiveXp and LevelUp return the new value, as the memory service does | `character_service_grpc.cpp:35` and `:45` return the value before the change, and `game/main.cpp:90` levels up one GiveXp late |
| `echo_stop` | README.md:21: a started subroutine is awaited until it completes | `stop` between the alarm's expiry and the next `SetDeadline` cancels nothing; the coroutine awaits a subroutine that never ends |
| `server_destruction` | `server.hpp`: Shutdown stops listening and waits for pending calls | a listener goes round its loop, and selects an executor whose queue is shut down already |

Others are plain from the lines and have no run:

- `async_lib.hpp:256`: a worker hands a job back to the game executor with
  `Spawn`; `quit` destroys the Game, its entities and their executors before the
  workers are joined (`game/main.cpp:234` declares `deps` before `game`), so the
  executor may be gone. `GameExecutor` has these steps (`alive`).
- `game/main.cpp:131` and `:126`: `notify_one` without the mutex, for a thread
  that may not wait yet: the notification is missed, and no further line is read
  or the destructor never returns. A spurious wakeup at `:140` loses a line, or
  sets a promise twice, which ends the program. `InputHandler` has these steps;
  `NothingLost` says what holds while no wakeup is spurious.
- `game/main.cpp:130`: `GetString` replaces the promise as soon as the future is
  ready, while the input thread may still be inside `set_value`.
- `async_game.cpp:14`: `Update` loops while something is ready, so a job made
  ready during a call is resumed in that call; README.md:41 says the next one.
- README.md:39: a job doesn't begin when it is spawned; a `SpawnCrossTask`'s
  child on a completion queue executor does begin at once, on the game's thread.
- `character_service_grpc.cpp:42`: two overlapping LevelUps read the same level,
  and write the same next one: one of them is lost, against
  `character_service.hpp:21`, where LevelUp increases the level. `game/main.cpp:69`
  spawns EarnXp every second, whether or not the last one has ended. `Character` has
  these steps; `LoneCallsExact` says what holds of a call that none overlaps.
- `character_service_grpc.cpp:33`, `:34` and `:81`: a Read that fails counts as
  NOT_FOUND, and GiveXp then writes 100 over what the player had; nobody looks at
  whether a Write succeeded.
- `character_service_grpc.cpp:34`: with overlap, a write computed before a
  `Reset` can arrive after it and undo it (`character_service.hpp:25`).
- `echo_service_impl.cpp:118-119`: an error status is computed, and `Finish()`
  is called without it.
- `echo_service_impl.cpp:34`: `n <= count` holds for every `uint32_t` when the
  count is 2^32 - 1: that call never ends. `EchoCalls` excludes it by name
  (`Endless`).
- `async_grpc/server/main.cpp:25`: when the deadline has cancelled calls, their
  handlers go on, and those that enqueue an alarm, a read or a `Finish` after
  `~Server` has shut the queues down end the process (`EchoCalls!Die`);
  `server.hpp:282` says only that pending calls are cancelled.
- `client/main.cpp:246`: `quit` while a command runs shuts the queue down under
  its coroutine, whose next operation ends the process (`EchoCalls!Quit`).
- `async_grpc.hpp:111`: a coroutine that is resumed before `await_suspend` has
  stored the new call finds none, and gives up a call that was made
  (`CallMissed`); the call is then cancelled with its context.
- `client/main.cpp:205`, `:211`, `:216`, `:222` and `:227` return while `readTask`
  still runs, which the assertion in `~Task` (`async_lib.hpp:125`) forbids. `EchoSession`
  has the step (`Abandon`).
- `async_lib.hpp:84`: `unhandled_exception` is empty; a value task that throws
  fails the assertion of `async_lib.hpp:170` in its awaiter.
- `async_lib.hpp:44`: the game's thread calls `done()` on the frame of a
  `LaunchChild` that a worker may have freed (`GameExecutor!FreeAgain`); a thread
  that polls, on that of a handler another one has ended (`BidirectionalEcho!FinishDone`).

## 7. Plan

Done, in this order: `TaskContract`/`AsyncLib` with invariant and proofs;
`ReadyQueue`/`GameExecutor`; `CharacterServiceMemory`/`Character`;
`BidirectionalEcho`/`EchoSession`; `VariableStore`/`VariableService`/`Server`;
`InputHandler`; the proofs of `GameExecutor`, `EchoSession`, `Character` and
`Server`; `EchoCalls` with its proofs; `NothingLeftBehind`, the end of `Server`'s
destructor, and the bounds on the work of `Character` and `EchoCalls`; the races of
`AsyncLib` carried into `GameExecutor`, `BidirectionalEcho` and `EchoSession`, and
the values that a `CharacterService` returns.

Left, where it would add most:

1. Compose `Server` with `Shutdown(deadline)`: which of its handlers may meet a
   closed queue, on which executor.
2. Two polling threads that do not share a parent and its child: the condition
   under which the theorems of `AsyncLib` hold with more than one thread.
3. Bounds on the work that is left, as those of `Character` and `EchoCalls`, for
   a handler of `Server` and a job of `GameExecutor`.
