------------------------------- MODULE Server -------------------------------
(***************************************************************************)
(* async_grpc::Server (async_grpc/server.{hpp,cpp}) with the handlers of   *)
(* VariableService, from its construction to its destruction, which calls  *)
(* Shutdown() and so waits for the pending calls.                          *)
(*                                                                         *)
(* A listener is a coroutine that asks gRPC for a call, on the executor    *)
(* whose turn it is, spawns the handler of the call on that executor, and  *)
(* asks again.  It runs on the thread that took its tag from the queue of  *)
(* that executor, as does the handler up to its first await.               *)
(***************************************************************************)
EXTENDS Sequences, VariableService

CONSTANTS
  N,            \* ServerOptions::executorCount
  Threads,      \* the threads of all executors
  ExecutorOf,   \* Threads -> the executor whose queue the thread polls
  Main,         \* the thread of main()
  Services      \* the listeners, in the order they are started

Executors == 0..N - 1
Listeners == {Services[i] : i \in DOMAIN Services}

ASSUME ExecutorsAssumption ==
  /\ N \in Nat \ {0} /\ ExecutorOf \in [Threads -> Executors] /\ Main \notin Threads
ASSUME ServicesAssumption ==
  Services \in Seq({"Write", "Read", "Del"}) /\ Listeners = {"Write", "Read", "Del"}

VARIABLES
  turn,       \* m_nextExecutor, modulo the number of executors
  main,       \* where main() stands
  started,    \* listeners that main() has started
  closed,     \* executors whose queue is shut down: those below `closed`
  joined,     \* executors whose threads are joined: those below `joined`
  listener,   \* where each listener stands, on which executor, with which call
  executor,   \* the executor a request was accepted on
  at          \* what each thread does

vars == <<service, turn, main, started, closed, joined, listener, executor, at>>

control == <<main, started, closed, joined>>

(***************************************************************************)
(* A thread is idle (in the queue's Next(), or main in its own code), gone,*)
(* in the handler of a request that a listener spawned, or in a listener   *)
(* about to call SelectNextExecutor() or to Listen() on an executor.       *)
(***************************************************************************)
Thread(pc, l, r, e) == [pc |-> pc, listener |-> l, request |-> r, ex |-> e]

Idle == Thread("idle", "none", Absent, 0)
Gone == Thread("gone", "none", Absent, 0)
InHandler(l, r) == Thread("handle", l, r, 0)
Selecting(l)    == Thread("select", l, Absent, 0)
Listening(l, e) == Thread("listen", l, Absent, e)

Callers == Threads \cup {Main}

\* Of a listener: not started, running on a thread, waiting for a call, with a
\* tag in the queue that brings a call or none, or ended; the executor it
\* selected, and the one whose queue the tag is or will be in.
Listener(st, e, q, r) == [st |-> st, ex |-> e, queue |-> q, request |-> r]
Listener0(st) == Listener(st, 0, 0, Absent)

TypeOK ==
  /\ ServiceTypeOK
  /\ turn \in Executors
  /\ main \in {"start", "serve", "shutdown", "destroy", "over"}
  /\ started \in 0..Len(Services)
  /\ closed \in 0..N /\ joined \in 0..closed
  /\ listener \in [Listeners ->
       [st : {"new", "runs", "asks", "called", "failed", "ended"},
        ex : Executors, queue : Executors, request : Requests \cup {Absent}]]
  /\ executor \in [Requests -> Executors]
  /\ at \in [Callers ->
       [pc : {"idle", "gone", "handle", "select", "listen"},
        listener : Listeners \cup {"none"}, request : Requests \cup {Absent},
        ex : Executors]]

Init ==
  /\ ServiceInit
  /\ turn = 0
  /\ main = "start" /\ started = 0 /\ closed = 0 /\ joined = 0
  /\ listener = [l \in Listeners |-> Listener0("new")]
  /\ executor = [r \in Requests |-> 0]
  /\ at = [t \in Callers |-> Idle]

Go(t, a) == at' = [at EXCEPT ![t] = a]
Becomes(l, x) == listener' = [listener EXCEPT ![l] = x]

\* Mutant: the counter itself is the index.
CounterIsTurn == turn' = turn + 1

NextTurn == turn' = (turn + 1) % N

ListenerOf(r) == IF r \in Writes THEN "Write" ELSE IF r \in Reads THEN "Read" ELSE "Del"

-----------------------------------------------------------------------------
(* The listeners. *)

\* Server::Server: async_lib::Spawn(SelectNextExecutor(), ListenUnary(...)) for
\* each rpc of each service: the listener begins on the thread of main().
StartListening ==
  /\ main = "start" /\ at[Main] = Idle /\ started < Len(Services)
  /\ started' = started + 1
  /\ NextTurn
  /\ Go(Main, Selecting(Services[started + 1]))
  /\ Becomes(Services[started + 1], Listener0("runs"))
  /\ UNCHANGED <<service, main, closed, joined, executor>>

\* auto& executor = SelectNextExecutor(), of another thread meanwhile perhaps.
SelectNextExecutor(t) ==
  /\ at[t].pc = "select"
  /\ Go(t, Listening(at[t].listener, turn))
  /\ NextTurn
  /\ UNCHANGED <<service, control, listener, executor>>

\* Mutant: the call is asked for on the executor the listener was spawned on.
OnFirst(t) == 0

\* The queue that Listen gives to gRPC: that of the executor selected.
NotifiedOn(t) == at[t].ex

\* gRPC ends the process when it is asked for a call on a queue that is shut down.
Aborts == \E t \in Callers : at[t].pc = "listen" /\ at[t].ex < closed

\* co_await context->Listen(executor, ...): gRPC is asked for a call, and
\* answers at once that there is none if the server is shut down.
Listen(t) ==
  /\ at[t].pc = "listen" /\ ~Aborts
  /\ Becomes(at[t].listener,
       Listener(IF main \in {"start", "serve"} THEN "asks" ELSE "failed",
                at[t].ex, NotifiedOn(t), Absent))
  /\ Go(t, Idle)
  /\ UNCHANGED <<service, control, turn, executor>>

Polls(t, e) == t \in Threads /\ at[t] = Idle /\ ExecutorOf[t] = e

\* Tick: a call for listener l; its handler is spawned, and runs first.
TakeCall(t, l) ==
  /\ listener[l].st = "called" /\ Polls(t, listener[l].queue)
  /\ LET r == listener[l].request IN
       /\ Moves(r, "accepted", "lock")
       /\ executor' = [executor EXCEPT ![r] = listener[l].ex]
       /\ Go(t, InHandler(l, r))
  /\ Becomes(l, Listener0("runs"))
  /\ UNCHANGED <<entry, value, writer, readers, found, answer, control, turn>>

\* Tick: the listener is told that there are no more calls, and ends.
StopListening(t, l) ==
  /\ listener[l].st = "failed" /\ Polls(t, listener[l].queue)
  /\ Becomes(l, Listener0("ended"))
  /\ UNCHANGED <<service, control, turn, executor, at>>

\* A thread goes on in the handler it is in.
Handle(t) ==
  /\ at[t].pc = "handle"
  /\ HandlerStep(at[t].request)
  /\ UNCHANGED <<control, turn, listener, executor, at>>

\* Mutant: the loop of the listener ends after one call.
ListenOnce(t) == Go(t, Idle)

\* The handler awaits Finish: its listener goes round its loop.
AskAgain(t) == Go(t, Selecting(at[t].listener))

HandlerAwaits(t) ==
  /\ at[t].pc = "handle"
  /\ Unlock(at[t].request)
  /\ AskAgain(t)
  /\ UNCHANGED <<control, turn, listener, executor>>

\* Tick: Finish is done, the handler ends.
EndHandler(t, r) ==
  /\ Polls(t, executor[r])
  /\ Moves(r, "finished", "ended")
  /\ UNCHANGED <<entry, value, writer, readers, found, answer, control, turn,
                 listener, executor, at>>

-----------------------------------------------------------------------------
(* gRPC and the clients. *)

\* A call is given to the listener that waits for one of its kind.
Accept(r) ==
  LET l == ListenerOf(r) IN
  /\ main \in {"start", "serve"} /\ listener[l].st = "asks"
  /\ Moves(r, "sent", "accepted")
  /\ listener' = [listener EXCEPT ![l].st = "called", ![l].request = r]
  /\ UNCHANGED <<entry, value, writer, readers, found, answer, control, turn,
                 executor, at>>

\* The answer is sent, or the client is gone.
FinishDone(r) ==
  /\ Moves(r, "finish", "finished")
  /\ UNCHANGED <<entry, value, writer, readers, found, answer, control, turn,
                 listener, executor, at>>

-----------------------------------------------------------------------------
(* The rest of main(). *)

Serve ==
  /\ main = "start" /\ at[Main] = Idle /\ started = Len(Services)
  /\ main' = "serve"
  /\ UNCHANGED <<service, turn, started, closed, joined, listener, executor, at>>

\* m_server->Shutdown(): no call is accepted any more, and who asks for one is
\* told so.
Shutdown ==
  /\ main = "serve"
  /\ main' = "shutdown"
  /\ listener' = [l \in Listeners |->
       IF listener[l].st = "asks" THEN [listener[l] EXCEPT !.st = "failed"] ELSE listener[l]]
  /\ handler' = [r \in Requests |-> IF handler[r] = "sent" THEN "refused" ELSE handler[r]]
  /\ UNCHANGED <<entry, value, writer, readers, found, answer, turn, started,
                 closed, joined, executor, at>>

\* Mutant: Shutdown does not wait.
NothingPending == TRUE

\* The calls that were accepted are answered.
CallsComplete == \A r \in Requests : handler[r] \in {"unmade", "refused", "finished", "ended"}

\* It returns: the members of the Server are destroyed next.
ShutdownReturns ==
  /\ main = "shutdown" /\ CallsComplete
  /\ main' = "destroy"
  /\ UNCHANGED <<service, turn, started, closed, joined, listener, executor, at>>

\* ~ExecutorThreads of the next executor: its queue is shut down ...
CloseExecutor ==
  /\ main = "destroy" /\ joined = closed /\ closed < N
  /\ closed' = closed + 1
  /\ UNCHANGED <<service, turn, main, started, joined, listener, executor, at>>

\* Nothing is in the queue of e, nor will be.
Drained(e) ==
  /\ \A l \in Listeners : listener[l].queue = e => listener[l].st \notin {"asks", "called", "failed"}
  /\ \A r \in Requests : executor[r] = e => handler[r] \notin {"finish", "finished"}

\* Mutant: ~ExecutorThreads joins the threads only.
NeverShutDown(e) == FALSE

IsShutDown(e) == e < closed

\* ... its threads end when it is empty ...
EndThread(t) ==
  /\ t \in Threads /\ at[t] = Idle
  /\ IsShutDown(ExecutorOf[t]) /\ Drained(ExecutorOf[t])
  /\ Go(t, Gone)
  /\ UNCHANGED <<service, control, turn, listener, executor>>

\* ... and are joined.
JoinExecutor ==
  /\ main = "destroy" /\ joined < closed
  /\ \A t \in Threads : ExecutorOf[t] = joined => at[t] = Gone
  /\ joined' = joined + 1
  /\ main' = IF joined' = N THEN "over" ELSE main
  /\ UNCHANGED <<service, turn, started, closed, listener, executor, at>>

-----------------------------------------------------------------------------

ThreadStep(t) ==
  \/ SelectNextExecutor(t) \/ Listen(t) \/ Handle(t) \/ HandlerAwaits(t) \/ EndThread(t)
  \/ \E l \in Listeners : TakeCall(t, l) \/ StopListening(t, l)
  \/ \E r \in Requests : EndHandler(t, r)

MainStep ==
  StartListening \/ Serve \/ ShutdownReturns \/ CloseExecutor \/ JoinExecutor

Next ==
  \/ MainStep \/ Shutdown
  \/ \E t \in Callers : ThreadStep(t)
  \/ \E r \in Requests : Accept(r) \/ FinishDone(r)

Spec == Init /\ [][Next]_vars

\* Every thread runs, a lock that is free is taken by whoever waits for it, and
\* gRPC completes what it was asked.  Nobody need shut the server down.
FairSpec ==
  /\ Spec /\ WF_vars(MainStep)
  /\ \A t \in Callers : WF_vars(ThreadStep(t))
  /\ \A r \in Requests : WF_vars(Accept(r)) /\ WF_vars(FinishDone(r))

-----------------------------------------------------------------------------
(* Properties. *)

\* A handler begins, and goes on after its Finish, on a thread of the executor
\* it was spawned on: its listener is always resumed there.
HandlerOnItsExecutor ==
  \A t \in Callers : at[t].pc = "handle" =>
    t \in Threads /\ executor[at[t].request] = ExecutorOf[t]

\* No handler enqueues its Finish on a queue that is shut down: ~Server waits for
\* the calls before it shuts the queues down.
FinishOnOpenQueue ==
  \A t \in Callers : at[t].pc = "handle" => executor[at[t].request] >= closed

\* A call that a client makes is answered, unless the server shuts down: the
\* listeners keep asking, and no handler waits for ever.
CallsAnswered ==
  \A r \in Requests : handler[r] = "sent" ~> handler[r] \in {"refused", "finished"}

\* No coroutine of the server is left, and no thread: whoever waited has been told.
AllEnded ==
  /\ \A l \in Listeners : listener[l].st = "ended"
  /\ \A r \in Requests : handler[r] \in {"unmade", "refused", "ended"}
  /\ \A t \in Threads : at[t] = Gone

\* ~Server returns, unless gRPC ends the process first, and then every listener
\* and every handler has ended, and every thread with them.
DestructionEnds == main = "shutdown" ~> ((main = "over" /\ AllEnded) \/ Aborts)

\* ~Server does not return before that: it leaves no frame that nobody resumes.
NothingAfterDestruction == main = "over" => AllEnded

\* server.hpp: Shutdown "will stop listening and will wait for all pending calls
\* to complete".  Nobody listens on a queue once ~Server has shut it down.
NoListenOnClosedQueue == ~Aborts

-----------------------------------------------------------------------------
(* Why they hold. *)

\* The tag of a listener is in the queue of the executor it selected.
ListenersOK ==
  \A l \in Listeners :
    /\ listener[l].ex = listener[l].queue
    /\ listener[l].st = "called" => listener[l].request \in Requests

\* A thread that runs a listener or a handler knows which; a handler that runs
\* does so on one thread.
ThreadsOK ==
  /\ \A t \in Callers : at[t].pc \in {"select", "listen", "handle"} => at[t].listener \in Listeners
  /\ \A t \in Callers : at[t].pc = "handle" =>
       /\ at[t].request \in Requests
       /\ handler[at[t].request] \in {"lock", "access", "found", "unlock"}
  /\ \A t, u \in Callers :
       at[t].pc = "handle" /\ at[u].pc = "handle" /\ at[t].request = at[u].request => t = u

\* The queues are shut down after the calls are complete.
DestructionOK ==
  /\ main \in {"destroy", "over"} => CallsComplete
  /\ main \notin {"destroy", "over"} => closed = 0

\* The inductive invariant of the calls that are served.
ServingInvariant ==
  /\ TypeOK /\ ServiceInvariant
  /\ ListenersOK /\ ThreadsOK /\ HandlerOnItsExecutor /\ DestructionOK

\* Thread t is in listener l, or in a handler that l spawned.
Runs(t, l) == at[t].pc \in {"select", "listen", "handle"} /\ at[t].listener = l

\* A listener that is neither new nor ended nor waits in a queue is on a thread.
Attended ==
  \A l \in Listeners : listener[l].st = "runs" => \E t \in Callers : Runs(t, l)

\* The listeners that main has still to start; main starts them all.
Unstarted ==
  /\ \A l \in Listeners : listener[l].st = "new" =>
       \E i \in DOMAIN Services : i > started /\ Services[i] = l
  /\ main # "start" => started = Len(Services) /\ at[Main] = Idle

\* A thread ends when nothing is in its queue, and nothing comes into it later.
ThreadsGone ==
  /\ \A t \in Threads : at[t] = Gone => ExecutorOf[t] < closed /\ Drained(ExecutorOf[t])
  /\ \A t \in Threads : ExecutorOf[t] < joined => at[t] = Gone
  /\ main = "over" => joined = N

\* The inductive invariant of server.hpp, of the handlers it spawns and of its
\* destruction.
ServerInvariant == ServingInvariant /\ Attended /\ Unstarted /\ ThreadsGone
=============================================================================
