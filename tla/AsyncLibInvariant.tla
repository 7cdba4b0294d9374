------------------------- MODULE AsyncLibInvariant -------------------------
(***************************************************************************)
(* Why the runtime is correct when ONE thread both polls the queue and     *)
(* spawns the tasks: the inductive invariant behind FramesAlive,           *)
(* NoDoubleResume, AwaitedResult, NoLostWakeup and NothingLeftBehind.  It  *)
(* is proved for any tasks; TLC checks it on the instance of one thread.   *)
(***************************************************************************)
EXTENDS AsyncLib

\* At these points the coroutine itself is on the stack, not only its job.
ActivePoints == {"body", "suspend", "await", "start", "retrieve"}

IsActive(e) == e.at \in ActivePoints

Depth(t) == 1..Len(stack[t])

\* c is nowhere on the stack of t: it can be resumed.
Idle(t, c) == \A i \in Depth(t) : IsActive(stack[t][i]) => stack[t][i].co # c

(***************************************************************************)
(* f may be called from e: a body calls Resume (through Spawn), Resume and *)
(* both await_suspend functions call a coroutine, and nothing else calls.  *)
(***************************************************************************)
Follows(e, f) ==
  \/ e.at = "body" /\ f.at \in {"resume", "check"}
  \/ e.at = "check" /\ IsActive(f) /\ f.co = e.co
  \/ e.at \in {"await", "start"} /\ IsActive(f) /\ f.co = e.child

StackShape(t) ==
  /\ 1 \in Depth(t) => stack[t][1].at \in {"resume", "check"}
  /\ \A i \in Depth(t) : i < Len(stack[t]) => Follows(stack[t][i], stack[t][i + 1])

\* A coroutine is on the stack at most once.
OneActivation(t) ==
  \A i, j \in Depth(t) :
    IsActive(stack[t][i]) /\ IsActive(stack[t][j])
      /\ stack[t][i].co = stack[t][j].co => i = j

\* What is true of the coroutine of an activation, by the point it stands at.
ResumeOK(t, c) ==
  /\ status[c] = "suspended" /\ c \in started /\ c \notin inflight /\ Idle(t, c)
  /\ awaiting[c] # None => status[awaiting[c]] = "done"

BodyOK(c)        == status[c] = "running" /\ c \in started /\ awaiting[c] = None
RetrieveOK(p, c) == /\ status[p] = "running" /\ p \in started
                    /\ awaiting[p] = c /\ status[c] = "done"
SuspendOK(p, c)  == /\ status[p] = "suspended" /\ p \in started
                    /\ awaiting[p] = c /\ status[c] # "done"
AwaitOK(p, c)    == status[p] = "suspended" /\ p \in started /\ awaiting[p] = c
StartOK(p, c)    == /\ status[p] = "suspended" /\ p \in started
                    /\ awaiting[p] = None /\ holder[c] = p

EntryOK(t, e) ==
  /\ e.at = "resume"   => ResumeOK(t, e.co) /\ e.child = None
  /\ e.at = "check"    => Alive(e.co) /\ e.child = None
  /\ e.at = "body"     => BodyOK(e.co) /\ e.child = None
  /\ e.at = "retrieve" => RetrieveOK(e.co, e.child) /\ e.child # None
  /\ e.at = "suspend"  => SuspendOK(e.co, e.child) /\ e.child # None
  /\ e.at = "await"    => AwaitOK(e.co, e.child) /\ e.child # None
  /\ e.at = "start"    => StartOK(e.co, e.child) /\ e.child # None

EntriesOK(t) == \A i \in Depth(t) : EntryOK(t, stack[t][i])

QueueOK(t) ==
  \A c \in inflight :
    status[c] = "suspended" /\ c \in started /\ awaiting[c] = None /\ Idle(t, c)

AwaitingOK(t) ==
  \A p \in Tasks : awaiting[p] # None =>
    /\ p \in started /\ status[p] \in {"suspended", "running"}
    /\ Alive(awaiting[p]) /\ awaiting[p] \notin roots
    /\ holder[awaiting[p]] = None
    /\ \A q \in Tasks : awaiting[q] = awaiting[p] => q = p
    /\ status[p] = "running" => Runs(t, In("retrieve", p, awaiting[p]))
    /\ \/ parent[awaiting[p]] = p
       \/ Runs(t, In("suspend", p, awaiting[p]))
       \/ Runs(t, In("retrieve", p, awaiting[p]))

HolderOK ==
  \A c \in Tasks : holder[c] # None =>
    /\ Alive(c) /\ c \in started /\ c \notin roots
    /\ status[holder[c]] \in {"suspended", "running"} /\ holder[c] # c

ParentOK ==
  /\ \A c \in Tasks : Alive(c) /\ parent[c] # None => awaiting[parent[c]] = c
  /\ \A c \in Tasks : c \in roots \/ Unborn(c) => parent[c] = None

UnbornOK == \A c \in Tasks : Unborn(c) => c \notin started /\ c \notin roots

ResultOK == \A c \in ValueTasks : status[c] = "done" => c \in result

WakeupOK(t) ==
  \A p \in Tasks :
    awaiting[p] # None /\ status[p] = "suspended" /\ status[awaiting[p]] = "done" =>
        \/ Runs(t, At("check", awaiting[p]))
        \/ Runs(t, In("await", p, awaiting[p]))
        \/ Runs(t, At("resume", p))

IInv(t) ==
  /\ TypeOK
  /\ StackShape(t) /\ OneActivation(t) /\ EntriesOK(t) /\ QueueOK(t)
  /\ AwaitingOK(t) /\ HolderOK /\ ParentOK /\ UnbornOK /\ ResultOK /\ WakeupOK(t)

(***************************************************************************)
(* Nobody is forgotten: c is on the stack, or a tag in the queue, or waits *)
(* for a task, or is about to be resumed or started; and its frame belongs *)
(* to the coroutine that awaits or holds it or, of a root, to its Resume.  *)
(***************************************************************************)
TaskOK(t, c) ==
  /\ status[c] = "running" => ~Idle(t, c)
  /\ status[c] = "suspended" =>
       \/ c \in inflight \/ awaiting[c] # None
       \/ ~Idle(t, c) \/ Runs(t, At("resume", c))
       \/ c \notin started /\ \E p \in Tasks : Runs(t, In("suspend", p, c))
  /\ Alive(c) /\ c \notin roots => holder[c] # None \/ \E p \in Tasks : awaiting[p] = c
  /\ c \in roots /\ status[c] = "done" => Runs(t, At("check", c))

\* The frame of c is freed by p: by its TaskAwait, or by the one it will have.
Owns(p, c) == awaiting[p] = c \/ holder[c] = p

\* Whichever coroutines one looks at, one of them waits for none of the others:
\* co_await and StartSubroutine only ever take a coroutine that is new.
Forest == \A S \in SUBSET Tasks : S # {} => \E c \in S : \A d \in S : ~Owns(c, d)

OwnershipInvariant(t) == (\A c \in Tasks : TaskOK(t, c)) /\ Forest

(***************************************************************************)
(* The invariant that carries the single-threaded argument: the call stack *)
(* alternates resumers and the coroutines they resumed, each coroutine on  *)
(* it at most once; every suspended coroutine has exactly one resumer, and *)
(* every frame an owner.                                                   *)
(***************************************************************************)
SingleThreadInvariant == \A t \in Threads : IInv(t) /\ OwnershipInvariant(t)
=============================================================================
