---------------------------- MODULE TaskContract ----------------------------
(***************************************************************************)
(* What async_lib promises to the code that uses it (README.md, async_lib):*)
(* a task is called, lives, ends and is freed; a task that co_awaits       *)
(* another does nothing until that one has ended, then takes its result    *)
(* and frees it; a root (a task given to Spawn) is freed when it ends.     *)
(* Nothing is said of threads, call stacks, queues or parents: AsyncLib    *)
(* implements this module.                                                 *)
(***************************************************************************)
CONSTANTS Tasks, None

VARIABLES
  phase,   \* Tasks -> {"new", "live", "ended", "freed"}
  roots,   \* the tasks given to Spawn: nobody may await them
  waits    \* p -> the task p co_awaits, or None

vars == <<phase, roots, waits>>

Init ==
  /\ phase = [c \in Tasks |-> "new"]
  /\ roots = {}
  /\ waits = [c \in Tasks |-> None]

\* A live task that co_awaits nothing may do something.
Free(p) == phase[p] = "live" /\ waits[p] = None

Awaited(c) == \E p \in Tasks : waits[p] = c

\* Spawn: c begins and belongs to nobody.
Spawn(c) ==
  /\ phase[c] = "new"
  /\ phase' = [phase EXCEPT ![c] = "live"]
  /\ roots' = roots \cup {c}
  /\ UNCHANGED waits

\* StartSubroutine: c begins; somebody holds it and will await it.
Start(c) ==
  /\ phase[c] = "new" /\ \E p \in Tasks : Free(p)
  /\ phase' = [phase EXCEPT ![c] = "live"]
  /\ UNCHANGED <<roots, waits>>

\* p co_awaits c, which begins now or was started before.
Await(p, c) ==
  /\ Free(p) /\ p # c
  /\ phase[c] \in {"new", "live", "ended"} /\ c \notin roots /\ ~Awaited(c)
  /\ phase' = IF phase[c] = "new" THEN [phase EXCEPT ![c] = "live"] ELSE phase
  /\ waits' = [waits EXCEPT ![p] = c]
  /\ UNCHANGED roots

End(c) ==
  /\ Free(c)
  /\ phase' = [phase EXCEPT ![c] = "ended"]
  /\ UNCHANGED <<roots, waits>>

\* The co_await of p returns, with the result of c, and c is freed.
Collect(p, c) ==
  /\ phase[p] = "live" /\ waits[p] = c /\ phase[c] = "ended"
  /\ phase' = [phase EXCEPT ![c] = "freed"]
  /\ waits' = [waits EXCEPT ![p] = None]
  /\ UNCHANGED roots

FreeRoot(c) ==
  /\ c \in roots /\ phase[c] = "ended"
  /\ phase' = [phase EXCEPT ![c] = "freed"]
  /\ UNCHANGED <<roots, waits>>

Next ==
  \/ \E c \in Tasks : Spawn(c) \/ Start(c) \/ End(c) \/ FreeRoot(c)
  \/ \E p, c \in Tasks : Await(p, c) \/ Collect(p, c)

Spec == Init /\ [][Next]_vars

\* An ended task does not stay: its awaiter goes on, a root is freed.
FairSpec ==
  /\ Spec
  /\ \A c \in Tasks : WF_vars(FreeRoot(c))
  /\ \A p, c \in Tasks : WF_vars(Collect(p, c))
=============================================================================
