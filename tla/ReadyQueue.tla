----------------------------- MODULE ReadyQueue -----------------------------
(***************************************************************************)
(* What async_game::Executor promises (README.md, game): jobs are put in a *)
(* queue, from any thread, and taken out in that order by one thread that  *)
(* runs them one at a time.  GameExecutor implements this module, for as   *)
(* long as the behaviour of the program is defined.                        *)
(***************************************************************************)
EXTENDS Sequences, SequencesExt

CONSTANTS Jobs, None

VARIABLES
  queue,     \* the jobs that are ready, in the order they were made ready
  running,   \* the job being run, or None
  mode       \* "open"; "closed" once the executor is gone; or "undefined"

vars == <<queue, running, mode>>

Init == queue = <<>> /\ running = None /\ mode = "open"

\* A job is put in the queue once for each time it is run.
Put(j) ==
  /\ mode = "open" /\ j # running /\ ~Contains(queue, j)
  /\ queue' = Append(queue, j)
  /\ UNCHANGED <<running, mode>>

Take ==
  /\ mode = "open" /\ running = None /\ queue # <<>>
  /\ running' = Head(queue)
  /\ queue' = Tail(queue)
  /\ UNCHANGED mode

Release == running # None /\ running' = None /\ UNCHANGED <<queue, mode>>

Close ==
  /\ mode = "open" /\ running = None
  /\ mode' = "closed" /\ queue' = <<>>
  /\ UNCHANGED running

\* The user of the queue left its behaviour undefined: it promises nothing more.
Fail ==
  /\ mode # "undefined"
  /\ mode' = "undefined" /\ queue' = <<>> /\ running' = None

Next == Take \/ Release \/ Close \/ Fail \/ \E j \in Jobs : Put(j)

Spec == Init /\ [][Next]_vars

\* A job that is ready is run, and a job that runs stops.
FairSpec == Spec /\ WF_vars(Take) /\ WF_vars(Release)
=============================================================================
