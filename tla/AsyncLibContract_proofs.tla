----------------------- MODULE AsyncLibContract_proofs -----------------------
(* What one thread that polls the queue and spawns the tasks leaves to its   *)
(* users, for every number of tasks: no frame is forgotten, and the runtime  *)
(* implements TaskContract.                                                  *)
EXTENDS AsyncLib_proofs

-----------------------------------------------------------------------------
(* The coroutines on the stack, under each of its operators. *)

LEMMA OnStack ==
  ASSUME NEW t, NEW c
  PROVE  ~Idle(t, c) <=> \E e \in Entries(t) : IsActive(e) /\ e.co = c
  BY DEF Idle, Entries

\* The same for the next state, which may be another stack.
LEMMA OnStackNext ==
  ASSUME NEW t, NEW c
  PROVE  ~Idle(t, c)' <=> \E e \in Entries(t)' : IsActive(e) /\ e.co = c
  BY DEF Idle, Entries

LEMMA CallKeeps ==
  ASSUME stack \in Stacks, stack' \in Stacks, NEW t \in Threads,
         NEW e \in Activation, Call(t, e)
  PROVE  \A d : ~Idle(t, d) => ~Idle(t, d)'
  BY CallSets, OnStack, OnStackNext

LEMMA BecomeKeeps ==
  ASSUME stack \in Stacks, stack' \in Stacks, NEW t \in Threads, Busy(t),
         NEW e \in Activation, Become(t, e), SameKind(Top(t), e)
  PROVE  /\ \A d : ~Idle(t, d) => ~Idle(t, d)'
         /\ IsActive(e) => ~Idle(t, e.co)'
<1>1. Entries(t)' = Inner(t) \cup {e} /\ Entries(t) = Inner(t) \cup {Top(t)}
  BY BecomeSets, EntriesSplit
<1>2. IsActive(Top(t)) => IsActive(e) /\ e.co = Top(t).co
  BY DEF SameKind, IsActive, ActivePoints
<1>3. QED  BY <1>1, <1>2, OnStack, OnStackNext

LEMMA BecomeCallKeeps ==
  ASSUME stack \in Stacks, stack' \in Stacks, NEW t \in Threads, Busy(t),
         NEW e \in Activation, NEW f \in Activation, BecomeCall(t, e, f),
         SameKind(Top(t), e), IsActive(f)
  PROVE  ~Idle(t, f.co)' /\ \A d : ~Idle(t, d) => ~Idle(t, d)'
<1>1. Entries(t)' = Inner(t) \cup {e, f} /\ Entries(t) = Inner(t) \cup {Top(t)}
  BY BecomeCallSets, EntriesSplit
<1>2. IsActive(Top(t)) => IsActive(e) /\ e.co = Top(t).co
  BY DEF SameKind, IsActive, ActivePoints
<1>3. QED  BY <1>1, <1>2, OnStack, OnStackNext

LEMMA LeaveKeeps ==
  ASSUME stack \in Stacks, stack' \in Stacks, NEW t \in Threads, Busy(t), Leave(t)
  PROVE  \A d : ~Idle(t, d) /\ (IsActive(Top(t)) => Top(t).co # d) => ~Idle(t, d)'
<1>1. Entries(t)' = Inner(t) /\ Entries(t) = Inner(t) \cup {Top(t)}
  BY LeaveSets, EntriesSplit
<1>2. QED  BY <1>1, OnStack, OnStackNext

-----------------------------------------------------------------------------
(* What a step does not touch. *)

\* The innermost activation of t does not concern the job of c.
Apart(t, c) ==
  /\ ~Runs(t, At("resume", c)) /\ ~Runs(t, At("check", c))
  /\ c \in started \/ \A p \in Tasks : ~Runs(t, In("suspend", p, c))

Owned(c) == holder[c] # None \/ \E p \in Tasks : awaiting[p] = c

Kept(t, c) ==
  /\ status'[c] = status[c] /\ (c \in roots' <=> c \in roots)
  /\ c \in inflight => c \in inflight'
  /\ awaiting[c] # None => awaiting'[c] # None
  /\ ~Idle(t, c) => ~Idle(t, c)'
  /\ Owned(c) => Owned(c)'

LEMMA KeptOK ==
  ASSUME NEW t, NEW c, TaskOK(t, c), Apart(t, c), Kept(t, c)
  PROVE  TaskOK(t, c)'
<1>1. status[c] = "suspended" => c \in inflight \/ awaiting[c] # None \/ ~Idle(t, c)
  BY DEF TaskOK, Apart
<1>2. status[c] = "done" => c \notin roots
  BY DEF TaskOK, Apart
<1>3. Alive(c) /\ c \notin roots => Owned(c)
  BY DEF TaskOK, Owned
<1>4. (Alive(c)' <=> Alive(c)) /\ (Alive(c)' /\ c \notin roots' => Owned(c)')
  BY <1>3 DEF Kept, Alive
<1>5. QED  BY <1>1, <1>2, <1>4 DEF TaskOK, Kept, Owned

LEMMA ForestKept ==
  ASSUME Forest, \A p, c \in Tasks : Owns(p, c)' => Owns(p, c)
  PROVE  Forest'
  BY DEF Forest

\* A coroutine that owns none finds an owner.
LEMMA ForestGrows ==
  ASSUME Forest, NEW p \in Tasks, NEW c \in Tasks, p # c,
         \A q, d \in Tasks : Owns(q, d)' => Owns(q, d) \/ (q = p /\ d = c),
         \A d \in Tasks : ~Owns(c, d)
  PROVE  Forest'
<1> SUFFICES ASSUME NEW S \in SUBSET Tasks, S # {}
             PROVE  \E q \in S : \A d \in S : ~Owns(q, d)'
  BY DEF Forest
<1>1. CASE c \in S
  BY <1>1
<1>2. CASE c \notin S
  <2>1. PICK q \in S : \A d \in S : ~Owns(q, d)
    BY DEF Forest
  <2>2. QED  BY <1>2, <2>1
<1>3. QED  BY <1>1, <1>2

\* A coroutine that does not exist yet owns none and is owned by none.
LEMMA UnbornOwnsNone ==
  ASSUME NEW t \in Threads, IInv(t), NEW c \in Tasks, Unborn(c)
  PROVE  /\ \A d \in Tasks : ~Owns(c, d) /\ ~Owns(d, c)
         /\ awaiting[c] = None /\ c \notin roots /\ c \notin inflight
<1>1. awaiting[c] = None
  BY DEF IInv, AwaitingOK, Unborn
<1>2. \A d \in Tasks : holder[d] # c
  BY TasksAssumption DEF IInv, HolderOK, Unborn
<1>3. \A d \in Tasks : awaiting[d] # c
  BY TasksAssumption DEF IInv, AwaitingOK, Unborn, Alive
<1>4. holder[c] = None
  BY DEF IInv, HolderOK, Unborn, Alive
<1>5. QED  BY <1>1, <1>2, <1>3, <1>4, TasksAssumption DEF Owns, IInv, UnbornOK, QueueOK, Unborn

-----------------------------------------------------------------------------
(* Every step keeps an eye on every task. *)

LEMMA SpawnOwnership ==
  ASSUME NEW t \in Threads, NEW c \in Tasks, IInv(t), TypeOK', OwnershipInvariant(t),
         Spawn(t, c)
  PROVE  OwnershipInvariant(t)'
<1>1. /\ stack \in Stacks /\ stack' \in Stacks /\ At("resume", c) \in Activation
      /\ Call(t, At("resume", c)) /\ (Busy(t) => Top(t).at = "body")
  BY ActivationType DEF IInv, TypeOK, Stacks, Spawn, Points
<1>2. \A d : ~Idle(t, d) => ~Idle(t, d)'
  BY <1>1, CallKeeps
<1>3. Runs(t, At("resume", c))'
  BY <1>1, CallSets
<1>4. \A d : Apart(t, d)
  BY <1>1, Fields DEF Apart, Runs
<1>5. /\ status'[c] = "suspended" /\ c \in roots'
      /\ \A d \in Tasks : d # c => status'[d] = status[d] /\ (d \in roots' <=> d \in roots)
      /\ UNCHANGED <<inflight, awaiting, holder>>
  BY DEF Spawn, IInv, TypeOK
<1>6. TaskOK(t, c)'
  BY <1>3, <1>5 DEF TaskOK
<1>7. ASSUME NEW d \in Tasks, d # c PROVE TaskOK(t, d)'
  BY <1>2, <1>4, <1>5, <1>7, KeptOK DEF OwnershipInvariant, Kept, Owned
<1>8. Forest'
  BY <1>5, ForestKept DEF OwnershipInvariant, Owns
<1>9. QED  BY <1>6, <1>7, <1>8 DEF OwnershipInvariant

LEMMA TickOwnership ==
  ASSUME NEW t \in Threads, NEW c \in Tasks, IInv(t), TypeOK', OwnershipInvariant(t),
         Tick(t, c)
  PROVE  OwnershipInvariant(t)'
<1>1. /\ stack \in Stacks /\ stack' \in Stacks /\ At("resume", c) \in Activation
      /\ Call(t, At("resume", c)) /\ ~Busy(t)
  BY ActivationType DEF IInv, TypeOK, Stacks, Tick, Points
<1>2. \A d : ~Idle(t, d) => ~Idle(t, d)'
  BY <1>1, CallKeeps
<1>3. Runs(t, At("resume", c))'
  BY <1>1, CallSets
<1>4. \A d : Apart(t, d)
  BY <1>1 DEF Apart, Runs
<1>5. /\ status[c] = "suspended" /\ inflight' = inflight \ {c}
      /\ UNCHANGED <<status, roots, awaiting, holder>>
  BY DEF Tick, IInv, QueueOK
<1>6. TaskOK(t, c)'
  BY <1>3, <1>5 DEF TaskOK, OwnershipInvariant, Alive
<1>7. ASSUME NEW d \in Tasks, d # c PROVE TaskOK(t, d)'
  BY <1>2, <1>4, <1>5, <1>7, KeptOK DEF OwnershipInvariant, Kept, Owned
<1>8. Forest'
  BY <1>5, ForestKept DEF OwnershipInvariant, Owns
<1>9. QED  BY <1>6, <1>7, <1>8 DEF OwnershipInvariant

LEMMA ResumeJobOwnership ==
  ASSUME NEW t \in Threads, NEW c \in Tasks, IInv(t), TypeOK', OwnershipInvariant(t),
         ResumeJob(t, c)
  PROVE  OwnershipInvariant(t)'
<1>f. PICK f : f = Continuation(c)
  OBVIOUS
<1>1. /\ stack \in Stacks /\ stack' \in Stacks /\ At("check", c) \in Activation
      /\ f \in Activation /\ f.co = c /\ IsActive(f)
      /\ BecomeCall(t, At("check", c), f) /\ Runs(t, At("resume", c))
  BY <1>f, ActivationType, Fields DEF IInv, TypeOK, Stacks, ResumeJob, Points, Continuation,
     IsActive, ActivePoints
<1>2. /\ Busy(t) /\ Top(t) = At("resume", c) /\ status[c] = "suspended"
      /\ \A x : Runs(t, x) => x = At("resume", c)
  BY <1>1, TopFacts, Fields DEF EntryOK, ResumeOK
<1>3. ~Idle(t, c)' /\ \A d : ~Idle(t, d) => ~Idle(t, d)'
  BY <1>1, <1>2, BecomeCallKeeps, Fields DEF SameKind
<1>4. \A d : d # c => Apart(t, d)
  BY <1>2, Fields DEF Apart
<1>5. /\ status'[c] = "running" /\ \A d \in Tasks : d # c => status'[d] = status[d]
      /\ UNCHANGED <<roots, inflight, awaiting, holder>>
  BY DEF ResumeJob, IInv, TypeOK
<1>6. TaskOK(t, c)'
  BY <1>2, <1>3, <1>5 DEF TaskOK, OwnershipInvariant, Alive
<1>7. ASSUME NEW d \in Tasks, d # c PROVE TaskOK(t, d)'
  BY <1>3, <1>4, <1>5, <1>7, KeptOK DEF OwnershipInvariant, Kept, Owned
<1>8. Forest'
  BY <1>5, ForestKept DEF OwnershipInvariant, Owns
<1>9. QED  BY <1>6, <1>7, <1>8 DEF OwnershipInvariant

LEMMA CheckDoneOwnership ==
  ASSUME NEW t \in Threads, NEW c \in Tasks, IInv(t), TypeOK', OwnershipInvariant(t),
         CheckDone(t, c)
  PROVE  OwnershipInvariant(t)'
<1>1. /\ stack \in Stacks /\ stack' \in Stacks /\ Runs(t, At("check", c))
  BY DEF IInv, TypeOK, Stacks, CheckDone
<1>2. /\ Busy(t) /\ Top(t) = At("check", c) /\ Alive(c) /\ ~IsActive(Top(t))
      /\ \A x : Runs(t, x) => x = At("check", c)
  BY <1>1, TopFacts, Fields DEF EntryOK, IsActive, ActivePoints
<1>3. \A d : ~Idle(t, d) => ~Idle(t, d)'
  <2>1. CASE Leave(t)
    BY <1>1, <1>2, <2>1, LeaveKeeps
  <2>2. CASE ~Leave(t)
    <3>1. parent[c] \in Tasks /\ Become(t, At("resume", parent[c]))
      BY <2>2 DEF CheckDone, ResumeParent, IInv, TypeOK
    <3>2. At("resume", parent[c]) \in Activation /\ SameKind(Top(t), At("resume", parent[c]))
      BY <1>2, <3>1, ActivationType, Fields DEF Points, SameKind
    <3>3. QED  BY <1>1, <1>2, <3>1, <3>2, BecomeKeeps
  <2>3. QED  BY <2>1, <2>2
<1>4. \A d : d # c => Apart(t, d)
  BY <1>2, Fields DEF Apart
<1>5. /\ \A d \in Tasks : d # c => status'[d] = status[d]
      /\ \/ status'[c] = status[c] /\ (status[c] = "done" => c \notin roots)
         \/ status'[c] = "destroyed"
      /\ UNCHANGED <<roots, inflight, awaiting, holder>>
  <2>1. DoneReads(c) = {status[c] = "done"}
    BY <1>2 DEF DoneReads, Alive
  <2>2. QED  BY <2>1 DEF CheckDone, DestroyOnDone, IInv, TypeOK
<1>6. TaskOK(t, c)'
  <2>1. CASE status'[c] = "destroyed"
    BY <2>1 DEF TaskOK, Alive
  <2>2. CASE status'[c] = status[c] /\ (status[c] = "done" => c \notin roots)
    <3>1. ~Runs(t, At("resume", c)) /\ \A p \in Tasks : ~Runs(t, In("suspend", p, c))
      BY <1>2, Fields
    <3>2. QED  BY <1>3, <1>5, <2>2, <3>1 DEF TaskOK, OwnershipInvariant, Alive
  <2>3. QED  BY <1>5, <2>1, <2>2
<1>7. ASSUME NEW d \in Tasks, d # c PROVE TaskOK(t, d)'
  BY <1>3, <1>4, <1>5, <1>7, KeptOK DEF OwnershipInvariant, Kept, Owned
<1>8. Forest'
  BY <1>5, ForestKept DEF OwnershipInvariant, Owns
<1>9. QED  BY <1>6, <1>7, <1>8 DEF OwnershipInvariant

LEMMA AwaitOpOwnership ==
  ASSUME NEW t \in Threads, NEW c \in Tasks, IInv(t), TypeOK', OwnershipInvariant(t),
         AwaitOp(t, c)
  PROVE  OwnershipInvariant(t)'
<1>1. /\ stack \in Stacks /\ stack' \in Stacks /\ Runs(t, At("body", c)) /\ Leave(t)
  BY DEF IInv, TypeOK, Stacks, AwaitOp
<1>2. /\ Busy(t) /\ Top(t) = At("body", c) /\ status[c] = "running"
      /\ \A x : Runs(t, x) => x = At("body", c)
  BY <1>1, TopFacts, Fields DEF EntryOK, BodyOK
<1>3. \A d : d # c /\ ~Idle(t, d) => ~Idle(t, d)'
  BY <1>1, <1>2, LeaveKeeps, Fields
<1>4. \A d : Apart(t, d)
  BY <1>2, Fields DEF Apart
<1>5. /\ status'[c] = "suspended" /\ c \in inflight'
      /\ \A d \in Tasks : d # c => status'[d] = status[d]
      /\ inflight \subseteq inflight' /\ UNCHANGED <<roots, awaiting, holder>>
  BY DEF AwaitOp, IInv, TypeOK
<1>6. TaskOK(t, c)'
  BY <1>2, <1>5 DEF TaskOK, OwnershipInvariant, Alive
<1>7. ASSUME NEW d \in Tasks, d # c PROVE TaskOK(t, d)'
  BY <1>3, <1>4, <1>5, <1>7, KeptOK DEF OwnershipInvariant, Kept, Owned
<1>8. Forest'
  BY <1>5, ForestKept DEF OwnershipInvariant, Owns
<1>9. QED  BY <1>6, <1>7, <1>8 DEF OwnershipInvariant

\* A root that ends returns to the Resume that will free it.
LEMMA EndOwnership ==
  ASSUME NEW t \in Threads, NEW c \in Tasks, IInv(t), TypeOK', OwnershipInvariant(t),
         End(t, c)
  PROVE  OwnershipInvariant(t)'
<1>1. /\ stack \in Stacks /\ stack' \in Stacks /\ Runs(t, At("body", c)) /\ Leave(t)
  BY DEF IInv, TypeOK, Stacks, End
<1>2. /\ Busy(t) /\ Top(t) = At("body", c) /\ status[c] = "running"
      /\ \A x : Runs(t, x) => x = At("body", c)
  BY <1>1, TopFacts, Fields DEF EntryOK, BodyOK
<1>3. \A d : d # c /\ ~Idle(t, d) => ~Idle(t, d)'
  BY <1>1, <1>2, LeaveKeeps, Fields
<1>4. \A d : Apart(t, d)
  BY <1>2, Fields DEF Apart
<1>5. /\ status'[c] = "done" /\ \A d \in Tasks : d # c => status'[d] = status[d]
      /\ UNCHANGED <<roots, inflight, awaiting, holder>>
  BY DEF End, IInv, TypeOK
<1>6. c \in roots => Runs(t, At("check", c))'
  <2>1. PICK x \in Inner(t) : Follows(x, Top(t)) /\ Runs(t, x)'
    BY <1>1, <1>2, LeaveTop, Fields DEF IInv, IsActive, ActivePoints
  <2>2. x \in Activation /\ EntryOK(t, x)
    BY <1>2, <2>1, InnerFacts, EntryFacts
  <2>3. CASE x.at = "check"
    <3>1. x = At("check", c)
      BY <1>2, <2>1, <2>2, <2>3, ActivationEq, Fields DEF Follows, EntryOK
    <3>2. QED  BY <2>1, <3>1
  <2>4. CASE x.at = "await"
    <3>1. x.co \in Tasks /\ awaiting[x.co] = c
      BY <1>2, <2>1, <2>2, <2>4, Fields DEF Follows, EntryOK, AwaitOK, Activation
    <3>2. QED  BY <3>1, TasksAssumption DEF IInv, AwaitingOK
  <2>5. CASE x.at = "start"
    <3>1. x.co \in Tasks /\ holder[c] = x.co
      BY <1>2, <2>1, <2>2, <2>5, Fields DEF Follows, EntryOK, StartOK, Activation
    <3>2. QED  BY <3>1, TasksAssumption DEF IInv, HolderOK
  <2>6. QED  BY <1>2, <2>1, <2>3, <2>4, <2>5, Fields DEF Follows
<1>7. TaskOK(t, c)'
  BY <1>2, <1>5, <1>6 DEF TaskOK, OwnershipInvariant, Alive
<1>8. ASSUME NEW d \in Tasks, d # c PROVE TaskOK(t, d)'
  BY <1>3, <1>4, <1>5, <1>8, KeptOK DEF OwnershipInvariant, Kept, Owned
<1>9. Forest'
  BY <1>5, ForestKept DEF OwnershipInvariant, Owns
<1>10. QED  BY <1>7, <1>8, <1>9 DEF OwnershipInvariant

LEMMA AwaitTaskOwnership ==
  ASSUME NEW t \in Threads, NEW p \in Tasks, NEW c \in Tasks, IInv(t), TypeOK',
         OwnershipInvariant(t), AwaitTask(t, p, c)
  PROVE  OwnershipInvariant(t)'
<1>1. /\ stack \in Stacks /\ stack' \in Stacks /\ Runs(t, At("body", p)) /\ Unborn(c)
      /\ In("suspend", p, c) \in Activation /\ Become(t, In("suspend", p, c))
  BY ActivationType DEF IInv, TypeOK, Stacks, AwaitTask, Points
<1>2. /\ Busy(t) /\ Top(t) = At("body", p) /\ status[p] = "running" /\ awaiting[p] = None
      /\ p # c /\ \A x : Runs(t, x) => x = At("body", p)
  BY <1>1, TopFacts, Fields DEF EntryOK, BodyOK, Unborn
<1>3. /\ \A d : ~Idle(t, d) => ~Idle(t, d)'
      /\ Runs(t, In("suspend", p, c))'
  BY <1>1, <1>2, BecomeKeeps, BecomeSets, Fields DEF SameKind, IsActive, ActivePoints
<1>4. \A d : Apart(t, d)
  BY <1>2, Fields DEF Apart
<1>5. /\ status'[c] = "suspended" /\ status'[p] = "suspended" /\ awaiting'[p] = c
      /\ \A d \in Tasks : d # p => awaiting'[d] = awaiting[d]
      /\ \A d \in Tasks : d # c /\ d # p => status'[d] = status[d]
      /\ UNCHANGED <<started, roots, inflight, holder>>
  BY <1>2 DEF AwaitTask, IInv, TypeOK
<1>6. ASSUME NEW d \in Tasks, Owned(d) PROVE Owned(d)'
  <2>1. CASE holder[d] # None
    BY <1>5, <2>1 DEF Owned
  <2>2. CASE \E q \in Tasks : awaiting[q] = d
    <3>1. PICK q \in Tasks : awaiting[q] = d
      BY <2>2
    <3>2. q # p
      BY <1>2, <3>1, TasksAssumption
    <3>3. QED  BY <1>5, <3>1, <3>2 DEF Owned
  <2>3. QED  BY <1>6, <2>1, <2>2 DEF Owned
<1>7. TaskOK(t, c)' /\ TaskOK(t, p)'
  <2>1. c \notin started
    BY <1>1 DEF IInv, UnbornOK
  <2>2. TaskOK(t, c)'
    BY <1>3, <1>5, <2>1 DEF TaskOK
  <2>3. TaskOK(t, p)'
    <3>1. Alive(p) /\ p \notin roots => Owned(p)
      BY DEF OwnershipInvariant, TaskOK, Owned
    <3>2. QED  BY <1>2, <1>5, <1>6, <3>1, TasksAssumption DEF TaskOK, Owned, Alive
  <2>4. QED  BY <2>2, <2>3
<1>8. ASSUME NEW d \in Tasks, d # c, d # p PROVE TaskOK(t, d)'
  BY <1>3, <1>4, <1>5, <1>6, <1>8, KeptOK DEF OwnershipInvariant, Kept
<1>9. Forest'
  <2>1. \A d \in Tasks : ~Owns(c, d)
    BY <1>1, UnbornOwnsNone
  <2>2. \A q, d \in Tasks : Owns(q, d)' => Owns(q, d) \/ (q = p /\ d = c)
    BY <1>5 DEF Owns
  <2>3. QED  BY <1>2, <2>1, <2>2, ForestGrows DEF OwnershipInvariant
<1>10. QED  BY <1>7, <1>8, <1>9 DEF OwnershipInvariant

LEMMA JoinTaskOwnership ==
  ASSUME NEW t \in Threads, NEW p \in Tasks, NEW c \in Tasks, IInv(t), TypeOK',
         OwnershipInvariant(t), JoinTask(t, p, c)
  PROVE  OwnershipInvariant(t)'
<1>1. /\ stack \in Stacks /\ stack' \in Stacks /\ Runs(t, At("body", p)) /\ holder[c] = p
  BY DEF IInv, TypeOK, Stacks, JoinTask
<1>2. /\ Busy(t) /\ Top(t) = At("body", p) /\ status[p] = "running" /\ awaiting[p] = None
      /\ \A x : Runs(t, x) => x = At("body", p)
  BY <1>1, TopFacts, Fields DEF EntryOK, BodyOK
<1>3. ~Idle(t, p)' /\ \A d : ~Idle(t, d) => ~Idle(t, d)'
  <2>1. PICK f \in {In("retrieve", p, c), In("suspend", p, c)} : Become(t, f)
    BY DEF JoinTask
  <2>2. f \in Activation /\ SameKind(Top(t), f) /\ IsActive(f) /\ f.co = p
    BY <1>2, <2>1, ActivationType, Fields DEF Points, SameKind, IsActive, ActivePoints
  <2>3. QED  BY <1>1, <1>2, <2>1, <2>2, BecomeKeeps
<1>4. \A d : Apart(t, d)
  BY <1>2, Fields DEF Apart
<1>5. /\ status'[p] \in {"running", "suspended"} /\ awaiting'[p] = c /\ holder'[c] = None
      /\ \A d \in Tasks : d # p => awaiting'[d] = awaiting[d] /\ status'[d] = status[d]
      /\ \A d \in Tasks : d # c => holder'[d] = holder[d]
      /\ UNCHANGED <<roots, inflight>>
  BY <1>2 DEF JoinTask, IInv, TypeOK
<1>6. ASSUME NEW d \in Tasks, Owned(d) PROVE Owned(d)'
  <2>1. CASE d = c
    BY <1>5, <2>1 DEF Owned
  <2>2. CASE d # c /\ holder[d] # None
    BY <1>5, <2>2 DEF Owned
  <2>3. CASE \E q \in Tasks : awaiting[q] = d
    <3>1. PICK q \in Tasks : awaiting[q] = d
      BY <2>3
    <3>2. q # p
      BY <1>2, <3>1, TasksAssumption
    <3>3. QED  BY <1>5, <3>1, <3>2 DEF Owned
  <2>4. QED  BY <1>6, <2>1, <2>2, <2>3 DEF Owned
<1>7. TaskOK(t, p)'
  <2>1. Alive(p) /\ (p \notin roots => Owned(p)')
    BY <1>2, <1>6 DEF OwnershipInvariant, TaskOK, Owned, Alive
  <2>2. QED  BY <1>3, <1>5, <2>1, TasksAssumption DEF TaskOK, Owned
<1>8. ASSUME NEW d \in Tasks, d # p PROVE TaskOK(t, d)'
  BY <1>3, <1>4, <1>5, <1>6, <1>8, KeptOK DEF OwnershipInvariant, Kept
<1>9. Forest'
  <2>1. ASSUME NEW q \in Tasks, NEW d \in Tasks, Owns(q, d)' PROVE Owns(q, d)
    <3>1. CASE awaiting'[q] = d
      BY <1>1, <1>5, <3>1 DEF Owns
    <3>2. CASE holder'[d] = q
      BY <1>5, <3>2, TasksAssumption DEF Owns
    <3>3. QED  BY <2>1, <3>1, <3>2 DEF Owns
  <2>2. QED  BY <2>1, ForestKept DEF OwnershipInvariant
<1>10. QED  BY <1>7, <1>8, <1>9 DEF OwnershipInvariant

LEMMA AwaitSuspendFreshOwnership ==
  ASSUME NEW t \in Threads, NEW p \in Tasks, NEW c \in Tasks, IInv(t), TypeOK',
         OwnershipInvariant(t), AwaitSuspendFresh(t, p, c)
  PROVE  OwnershipInvariant(t)'
<1>1. /\ stack \in Stacks /\ stack' \in Stacks /\ Runs(t, In("suspend", p, c))
      /\ In("await", p, c) \in Activation /\ At("body", c) \in Activation
      /\ BecomeCall(t, In("await", p, c), At("body", c))
  BY ActivationType DEF IInv, TypeOK, Stacks, AwaitSuspendFresh, Points
<1>2. /\ Busy(t) /\ Top(t) = In("suspend", p, c) /\ awaiting[p] = c
      /\ \A x : Runs(t, x) => x = In("suspend", p, c)
  BY <1>1, TopFacts, Fields DEF EntryOK, SuspendOK
<1>3. ~Idle(t, c)' /\ \A d : ~Idle(t, d) => ~Idle(t, d)'
  BY <1>1, <1>2, BecomeCallKeeps, Fields DEF SameKind, IsActive, ActivePoints
<1>4. \A d : d # c => Apart(t, d)
  BY <1>2, Fields DEF Apart
<1>5. /\ status'[c] = "running" /\ \A d \in Tasks : d # c => status'[d] = status[d]
      /\ UNCHANGED <<roots, inflight, awaiting, holder>>
  BY DEF AwaitSuspendFresh, IInv, TypeOK
<1>6. TaskOK(t, c)'
  BY <1>2, <1>3, <1>5 DEF TaskOK
<1>7. ASSUME NEW d \in Tasks, d # c PROVE TaskOK(t, d)'
  BY <1>3, <1>4, <1>5, <1>7, KeptOK DEF OwnershipInvariant, Kept, Owned
<1>8. Forest'
  BY <1>5, ForestKept DEF OwnershipInvariant, Owns
<1>9. QED  BY <1>6, <1>7, <1>8 DEF OwnershipInvariant

\* p leaves the stack in await_suspend: what it awaits keeps it in mind.
LEMMA AwaitLeaveOwnership ==
  ASSUME NEW t \in Threads, NEW p \in Tasks, NEW c \in Tasks, NEW at, IInv(t), TypeOK',
         OwnershipInvariant(t), Runs(t, In(at, p, c)),
         at = "await" \/ (at = "suspend" /\ c \in started),
         Leave(t), UNCHANGED <<status, roots, inflight, awaiting, holder>>
  PROVE  OwnershipInvariant(t)'
<1>1. stack \in Stacks /\ stack' \in Stacks
  BY DEF IInv, TypeOK, Stacks
<1>2. /\ Busy(t) /\ Top(t) = In(at, p, c) /\ awaiting[p] = c /\ status[p] = "suspended"
      /\ \A x : Runs(t, x) => x = In(at, p, c)
  BY TopFacts, Fields DEF EntryOK, SuspendOK, AwaitOK
<1>3. \A d : d # p /\ ~Idle(t, d) => ~Idle(t, d)'
  BY <1>1, <1>2, LeaveKeeps, Fields
<1>4. \A d : Apart(t, d)
  BY <1>2, Fields DEF Apart
<1>5. TaskOK(t, p)'
  BY <1>2, TasksAssumption DEF TaskOK, OwnershipInvariant, Alive
<1>6. ASSUME NEW d \in Tasks, d # p PROVE TaskOK(t, d)'
  BY <1>3, <1>4, <1>6, KeptOK DEF OwnershipInvariant, Kept, Owned
<1>7. Forest'
  BY ForestKept DEF OwnershipInvariant, Owns
<1>8. QED  BY <1>5, <1>6, <1>7 DEF OwnershipInvariant

LEMMA AwaitReturnOwnership ==
  ASSUME NEW t \in Threads, NEW p \in Tasks, NEW c \in Tasks, IInv(t), TypeOK',
         OwnershipInvariant(t), AwaitReturn(t, p, c)
  PROVE  OwnershipInvariant(t)'
<1>1. /\ stack \in Stacks /\ stack' \in Stacks /\ Runs(t, In("await", p, c))
      /\ UNCHANGED <<roots, inflight, awaiting, holder>>
  BY DEF IInv, TypeOK, Stacks, AwaitReturn
<1>2. CASE Leave(t) /\ UNCHANGED status
  BY <1>1, <1>2, AwaitLeaveOwnership
<1>3. CASE Become(t, In("retrieve", p, c)) /\ status' = [status EXCEPT ![p] = "running"]
  <2>1. /\ Busy(t) /\ Top(t) = In("await", p, c) /\ status[p] = "suspended"
        /\ In("retrieve", p, c) \in Activation
        /\ \A x : Runs(t, x) => x = In("await", p, c)
    BY <1>1, TopFacts, ActivationType, Fields DEF EntryOK, AwaitOK, Points
  <2>2. ~Idle(t, p)' /\ \A d : ~Idle(t, d) => ~Idle(t, d)'
    BY <1>1, <1>3, <2>1, BecomeKeeps, Fields DEF SameKind, IsActive, ActivePoints
  <2>3. \A d : Apart(t, d)
    BY <2>1, Fields DEF Apart
  <2>4. status'[p] = "running" /\ \A d \in Tasks : d # p => status'[d] = status[d]
    BY <1>3 DEF IInv, TypeOK
  <2>5. TaskOK(t, p)'
    BY <1>1, <2>1, <2>2, <2>4 DEF TaskOK, OwnershipInvariant, Alive
  <2>6. ASSUME NEW d \in Tasks, d # p PROVE TaskOK(t, d)'
    BY <1>1, <2>2, <2>3, <2>4, <2>6, KeptOK DEF OwnershipInvariant, Kept, Owned
  <2>7. Forest'
    BY <1>1, ForestKept DEF OwnershipInvariant, Owns
  <2>8. QED  BY <2>5, <2>6, <2>7 DEF OwnershipInvariant
<1>4. QED  BY <1>2, <1>3 DEF AwaitReturn

LEMMA RetrieveOwnership ==
  ASSUME NEW t \in Threads, NEW p \in Tasks, NEW c \in Tasks, IInv(t), TypeOK',
         OwnershipInvariant(t), Retrieve(t, p, c)
  PROVE  OwnershipInvariant(t)'
<1>1. /\ stack \in Stacks /\ stack' \in Stacks /\ Runs(t, In("retrieve", p, c))
      /\ At("body", p) \in Activation /\ Become(t, At("body", p))
  BY ActivationType DEF IInv, TypeOK, Stacks, Retrieve, Points
<1>2. /\ Busy(t) /\ Top(t) = In("retrieve", p, c) /\ awaiting[p] = c
      /\ status[p] = "running" /\ status[c] = "done"
      /\ \A x : Runs(t, x) => x = In("retrieve", p, c)
  BY <1>1, TopFacts, Fields DEF EntryOK, RetrieveOK
<1>3. ~Idle(t, p)' /\ \A d : ~Idle(t, d) => ~Idle(t, d)'
  BY <1>1, <1>2, BecomeKeeps, Fields DEF SameKind, IsActive, ActivePoints
<1>4. \A d : Apart(t, d)
  BY <1>2, Fields DEF Apart
<1>5. /\ status'[c] = "destroyed" /\ status'[p] = "running" /\ awaiting'[p] = None
      /\ \A d \in Tasks : d # c => status'[d] = status[d]
      /\ \A d \in Tasks : d # p => awaiting'[d] = awaiting[d]
      /\ UNCHANGED <<roots, inflight, holder>>
  BY <1>2 DEF Retrieve, IInv, TypeOK
<1>6. ASSUME NEW d \in Tasks, d # c, Owned(d) PROVE Owned(d)'
  <2>1. CASE holder[d] # None
    BY <1>5, <2>1 DEF Owned
  <2>2. CASE \E q \in Tasks : awaiting[q] = d
    <3>1. PICK q \in Tasks : awaiting[q] = d
      BY <2>2
    <3>2. q # p
      BY <1>2, <1>6, <3>1
    <3>3. QED  BY <1>5, <3>1, <3>2 DEF Owned
  <2>3. QED  BY <1>6, <2>1, <2>2 DEF Owned
<1>7. TaskOK(t, c)'
  BY <1>5 DEF TaskOK, Alive
<1>8. TaskOK(t, p)'
  <2>1. p \notin roots => Owned(p)'
    BY <1>2, <1>6 DEF OwnershipInvariant, TaskOK, Owned, Alive
  <2>2. QED  BY <1>3, <1>5, <2>1 DEF TaskOK, Owned
<1>9. ASSUME NEW d \in Tasks, d # c, d # p PROVE TaskOK(t, d)'
  BY <1>3, <1>4, <1>5, <1>6, <1>9, KeptOK DEF OwnershipInvariant, Kept
<1>10. Forest'
  <2>1. \A q, d \in Tasks : Owns(q, d)' => Owns(q, d)
    BY <1>5, TasksAssumption DEF Owns
  <2>2. QED  BY <2>1, ForestKept DEF OwnershipInvariant
<1>11. QED  BY <1>7, <1>8, <1>9, <1>10 DEF OwnershipInvariant

LEMMA StartSubroutineOwnership ==
  ASSUME NEW t \in Threads, NEW p \in Tasks, NEW c \in Tasks, IInv(t), TypeOK',
         OwnershipInvariant(t), StartSubroutine(t, p, c)
  PROVE  OwnershipInvariant(t)'
<1>1. /\ stack \in Stacks /\ stack' \in Stacks /\ Runs(t, At("body", p)) /\ Unborn(c)
      /\ In("start", p, c) \in Activation /\ At("body", c) \in Activation
      /\ BecomeCall(t, In("start", p, c), At("body", c))
  BY ActivationType DEF IInv, TypeOK, Stacks, StartSubroutine, Points
<1>2. /\ Busy(t) /\ Top(t) = At("body", p) /\ status[p] = "running" /\ p # c
      /\ \A x : Runs(t, x) => x = At("body", p)
  BY <1>1, TopFacts, Fields DEF EntryOK, BodyOK, Unborn
<1>3. ~Idle(t, c)' /\ \A d : ~Idle(t, d) => ~Idle(t, d)'
  BY <1>1, <1>2, BecomeCallKeeps, Fields DEF SameKind, IsActive, ActivePoints
<1>4. \A d : Apart(t, d)
  BY <1>2, Fields DEF Apart
<1>5. /\ status'[c] = "running" /\ status'[p] = "suspended" /\ holder'[c] = p
      /\ \A d \in Tasks : d # c => holder'[d] = holder[d]
      /\ \A d \in Tasks : d # c /\ d # p => status'[d] = status[d]
      /\ UNCHANGED <<roots, inflight, awaiting>>
  BY <1>2 DEF StartSubroutine, IInv, TypeOK
<1>6. ~Idle(t, p)
  BY <1>1, TopFacts, EntryFacts, Fields DEF IsActive, ActivePoints
<1>7. TaskOK(t, c)' /\ TaskOK(t, p)'
  <2>1. c \notin roots
    BY <1>1, UnbornOwnsNone
  <2>2. TaskOK(t, c)'
    BY <1>3, <1>5, <2>1, TasksAssumption DEF TaskOK
  <2>3. TaskOK(t, p)'
    BY <1>2, <1>3, <1>5, <1>6 DEF TaskOK, OwnershipInvariant, Alive
  <2>4. QED  BY <2>2, <2>3
<1>8. ASSUME NEW d \in Tasks, d # c, d # p PROVE TaskOK(t, d)'
  BY <1>3, <1>4, <1>5, <1>8, KeptOK DEF OwnershipInvariant, Kept, Owned
<1>9. Forest'
  <2>1. \A d \in Tasks : ~Owns(c, d)
    BY <1>1, UnbornOwnsNone
  <2>2. \A q, d \in Tasks : Owns(q, d)' => Owns(q, d) \/ (q = p /\ d = c)
    BY <1>5 DEF Owns
  <2>3. QED  BY <1>2, <2>1, <2>2, ForestGrows DEF OwnershipInvariant
<1>10. QED  BY <1>7, <1>8, <1>9 DEF OwnershipInvariant

LEMMA StartReturnOwnership ==
  ASSUME NEW t \in Threads, NEW p \in Tasks, NEW c \in Tasks, IInv(t), TypeOK',
         OwnershipInvariant(t), StartReturn(t, p, c)
  PROVE  OwnershipInvariant(t)'
<1>1. /\ stack \in Stacks /\ stack' \in Stacks /\ Runs(t, In("start", p, c))
      /\ At("body", p) \in Activation /\ Become(t, At("body", p))
  BY ActivationType DEF IInv, TypeOK, Stacks, StartReturn, Points
<1>2. /\ Busy(t) /\ Top(t) = In("start", p, c) /\ status[p] = "suspended"
      /\ \A x : Runs(t, x) => x = In("start", p, c)
  BY <1>1, TopFacts, Fields DEF EntryOK, StartOK
<1>3. ~Idle(t, p)' /\ \A d : ~Idle(t, d) => ~Idle(t, d)'
  BY <1>1, <1>2, BecomeKeeps, Fields DEF SameKind, IsActive, ActivePoints
<1>4. \A d : Apart(t, d)
  BY <1>2, Fields DEF Apart
<1>5. /\ status'[p] = "running" /\ \A d \in Tasks : d # p => status'[d] = status[d]
      /\ UNCHANGED <<roots, inflight, awaiting, holder>>
  BY DEF StartReturn, IInv, TypeOK
<1>6. TaskOK(t, p)'
  BY <1>2, <1>3, <1>5 DEF TaskOK, OwnershipInvariant, Alive
<1>7. ASSUME NEW d \in Tasks, d # p PROVE TaskOK(t, d)'
  BY <1>3, <1>4, <1>5, <1>7, KeptOK DEF OwnershipInvariant, Kept, Owned
<1>8. Forest'
  BY <1>5, ForestKept DEF OwnershipInvariant, Owns
<1>9. QED  BY <1>6, <1>7, <1>8 DEF OwnershipInvariant

LEMMA InitOwnership ==
  ASSUME NEW t \in Threads, Init PROVE OwnershipInvariant(t)
<1>1. \A c \in Tasks : TaskOK(t, c)
  BY DEF Init, TaskOK, Alive
<1>2. \A p, c \in Tasks : ~Owns(p, c)
  BY TasksAssumption DEF Init, Owns
<1>3. QED  BY <1>1, <1>2 DEF OwnershipInvariant, Forest

LEMMA StepOwnership ==
  ASSUME NEW t \in Threads, Threads = {t}, IInv(t), OwnershipInvariant(t), [Next]_vars
  PROVE  OwnershipInvariant(t)'
<1>1. TypeOK'
  BY StepTypeOK DEF IInv
<1>2. CASE UNCHANGED vars
  <2>1. \A c \in Tasks : TaskOK(t, c)'
    BY <1>2 DEF vars, OwnershipInvariant, TaskOK, Alive, Idle, Depth, Runs, Busy, Top
  <2>2. QED  BY <1>2, <2>1 DEF vars, OwnershipInvariant, Forest, Owns
<1>3. CASE \E c \in Tasks : Spawn(t, c)
  BY <1>1, <1>3, SpawnOwnership
<1>4. CASE Step(t)
  <2>1. ASSUME NEW p \in Tasks, NEW c \in Tasks, AwaitSuspendStarted(t, p, c)
        PROVE  OwnershipInvariant(t)'
    BY <1>1, <2>1, AwaitLeaveOwnership DEF AwaitSuspendStarted
  <2>2. \A c \in Tasks : Return(t, c) \/ Throw(t, c) => End(t, c)
    BY DEF Return, Throw
  <2>3. QED
    BY <1>1, <1>4, <2>1, <2>2, TickOwnership, ResumeJobOwnership, CheckDoneOwnership,
       AwaitOpOwnership, EndOwnership, AwaitTaskOwnership, JoinTaskOwnership,
       AwaitSuspendFreshOwnership, AwaitReturnOwnership, RetrieveOwnership,
       StartSubroutineOwnership, StartReturnOwnership DEF Step
<1>5. QED  BY <1>2, <1>3, <1>4 DEF Next

(***************************************************************************)
(* The only thread is back in Tick and the queue is empty.  A suspended    *)
(* coroutine then awaits another suspended one, which the forest of owners *)
(* does not allow for all of them; and what has ended has an owner that is *)
(* suspended.                                                              *)
(***************************************************************************)
LEMMA NobodyWaits ==
  ASSUME NEW t \in Threads, Threads = {t}, IInv(t), OwnershipInvariant(t)
  PROVE  NothingLeftBehind
<1> SUFFICES ASSUME ~Busy(t), inflight = {}, NEW c \in Tasks, Alive(c) PROVE FALSE
  BY DEF NothingLeftBehind
<1>1. (\A d : Idle(t, d)) /\ \A x : ~Runs(t, x)
  BY DEF Idle, Depth, Busy, Runs
<1>2. \A d \in Tasks : status[d] # "running"
  BY <1>1 DEF OwnershipInvariant, TaskOK
<1>3. \A d \in Tasks : status[d] = "suspended" => awaiting[d] # None
  BY <1>1 DEF OwnershipInvariant, TaskOK
<1>4. \A d \in Tasks : status[d] # "suspended"
  <2> DEFINE S == {d \in Tasks : status[d] = "suspended"}
  <2>1. ASSUME S # {} PROVE FALSE
    <3>1. PICK d \in S : \A e \in S : ~Owns(d, e)
      BY <2>1 DEF OwnershipInvariant, Forest
    <3>2. /\ d \in Tasks /\ awaiting[d] # None /\ awaiting[d] \in Tasks
          /\ status[d] = "suspended" /\ Alive(awaiting[d])
      BY <1>3 DEF IInv, TypeOK, AwaitingOK
    <3>3. status[awaiting[d]] # "suspended"
      BY <3>1, <3>2 DEF Owns
    <3>4. status[awaiting[d]] = "done"
      BY <1>2, <3>2, <3>3 DEF IInv, TypeOK, Status, Alive
    <3>5. QED  BY <1>1, <3>2, <3>4 DEF IInv, WakeupOK
  <2>2. QED  BY <2>1
<1>5. status[c] = "done"
  BY <1>2, <1>4 DEF IInv, TypeOK, Status, Alive
<1>6. holder[c] # None \/ \E p \in Tasks : awaiting[p] = c
  BY <1>1, <1>5 DEF OwnershipInvariant, TaskOK
<1>7. \E p \in Tasks : status[p] \in {"suspended", "running"}
  BY <1>6, TasksAssumption DEF IInv, TypeOK, HolderOK, AwaitingOK
<1>8. QED  BY <1>2, <1>4, <1>7

(***************************************************************************)
(* The invariant that TLC checks as SingleThreadInvariant holds when one   *)
(* thread polls the queue and spawns the tasks and no task that has a      *)
(* value throws, for any number of tasks and operations.                   *)
(***************************************************************************)
THEOREM SingleThreadInvariance ==
  ASSUME NEW t, Threads = {t}, ValueTasks \cap ThrowingTasks = {}
  PROVE  Spec => []SingleThreadInvariant
<1>1. Init => IInv(t) /\ OwnershipInvariant(t)
  BY InitIInv, InitOwnership
<1>2. IInv(t) /\ OwnershipInvariant(t) /\ [Next]_vars => IInv(t)' /\ OwnershipInvariant(t)'
  BY StepIInv, StepOwnership
<1>3. IInv(t) /\ OwnershipInvariant(t) => SingleThreadInvariant
  BY DEF SingleThreadInvariant
<1>4. QED  BY <1>1, <1>2, <1>3, PTL DEF Spec

\* async_lib.hpp, Resume: under the same assumptions, once nothing runs and no
\* operation is in the queue, every frame that was made has been freed.
THEOREM SingleThreadLeavesNothing ==
  ASSUME NEW t, Threads = {t}, ValueTasks \cap ThrowingTasks = {}
  PROVE  Spec => []NothingLeftBehind
<1>1. SingleThreadInvariant => NothingLeftBehind
  BY NobodyWaits DEF SingleThreadInvariant
<1>2. QED  BY <1>1, SingleThreadInvariance, PTL

-----------------------------------------------------------------------------
(* The contract. *)

LEMMA PhaseAt ==
  \A c \in Tasks : Phase[c] = PhaseOf[status[c]]
  BY DEF Phase

\* A step that moves no frame from one phase to another is invisible.
LEMMA SamePhase ==
  ASSUME TypeOK,
         \A c \in Tasks : status'[c] # status[c] =>
           {status[c], status'[c]} \subseteq {"suspended", "running"}
  PROVE  Phase' = Phase
<1>1. ASSUME NEW c \in Tasks PROVE PhaseOf[status'[c]] = PhaseOf[status[c]]
  <2>1. CASE status'[c] = status[c]
    BY <2>1
  <2>2. CASE status'[c] # status[c]
    <3>1. /\ status[c] \in {"suspended", "running"}
          /\ status'[c] \in {"suspended", "running"}
      BY <2>2
    <3>2. QED  BY <3>1 DEF PhaseOf
  <2>3. QED  BY <2>1, <2>2
<1>2. QED  BY <1>1 DEF Phase

\* A step that moves the frame c to a new phase, and no other frame.
LEMMA PhaseMove ==
  ASSUME TypeOK, NEW c \in Tasks,
         \A d \in Tasks : d # c /\ status'[d] # status[d] =>
           {status[d], status'[d]} \subseteq {"suspended", "running"}
  PROVE  Phase' = [Phase EXCEPT ![c] = PhaseOf[status'[c]]]
<1>1. ASSUME NEW d \in Tasks, d # c PROVE PhaseOf[status'[d]] = PhaseOf[status[d]]
  <2>1. CASE status'[d] = status[d]
    BY <2>1
  <2>2. CASE status'[d] # status[d]
    <3>1. /\ status[d] \in {"suspended", "running"}
          /\ status'[d] \in {"suspended", "running"}
      BY <1>1, <2>2
    <3>2. QED  BY <3>1 DEF PhaseOf
  <2>3. QED  BY <2>1, <2>2
<1>2. QED  BY <1>1 DEF Phase

LEMMA InitRefines == Init => Contract!Init
  BY DEF Init, Contract!Init, Phase, PhaseOf

(***************************************************************************)
(* Each step of the thread is a step of the contract or changes nothing    *)
(* that the contract mentions.                                             *)
(***************************************************************************)
LEMMA StepRefines ==
  ASSUME NEW t \in Threads, Threads = {t}, IInv(t), [Next]_vars
  PROVE  [Contract!Next]_(Contract!vars)
<1> USE DEF PhaseOf
<1>0. TypeOK /\ TypeOK'
  BY StepTypeOK DEF IInv
<1>1. CASE UNCHANGED vars
  BY <1>1 DEF vars, Contract!vars, Phase
<1>2. ASSUME NEW c \in Tasks, Spawn(t, c) PROVE Contract!Spawn(c)
  <2>1. Phase[c] = "new" /\ Phase' = [Phase EXCEPT ![c] = "live"]
    <3>1. /\ status[c] = "unborn" /\ status'[c] = "suspended"
          /\ \A d \in Tasks : d # c => status'[d] = status[d]
      BY <1>0, <1>2 DEF Spawn, Unborn, TypeOK
    <3>2. QED  BY <1>0, <3>1, PhaseAt, PhaseMove
  <2>2. QED  BY <1>2, <2>1 DEF Spawn, Contract!Spawn
<1>3. ASSUME NEW c \in Tasks, Tick(t, c) PROVE UNCHANGED Contract!vars
  BY <1>3 DEF Tick, Contract!vars, Phase
<1>4. ASSUME NEW c \in Tasks, ResumeJob(t, c) PROVE UNCHANGED Contract!vars
  <2>1. status[c] = "suspended"
    BY <1>4, TopFacts, Fields DEF ResumeJob, EntryOK, ResumeOK
  <2>2. Phase' = Phase
    BY <1>0, <1>4, <2>1, SamePhase DEF ResumeJob, TypeOK
  <2>3. QED  BY <1>4, <2>2 DEF ResumeJob, Contract!vars
<1>5. ASSUME NEW c \in Tasks, CheckDone(t, c)
      PROVE  Contract!FreeRoot(c) \/ UNCHANGED Contract!vars
  <2>1. DoneReads(c) = {status[c] = "done"}
    BY <1>5, TopFacts, Fields DEF CheckDone, EntryOK, Alive, DoneReads
  <2>2. \/ status' = status
        \/ c \in roots /\ status[c] = "done" /\ status' = [status EXCEPT ![c] = "destroyed"]
    BY <1>5, <2>1 DEF CheckDone, DestroyOnDone
  <2>3. CASE status' = status
    BY <1>5, <2>3 DEF CheckDone, Contract!vars, Phase
  <2>4. CASE c \in roots /\ status[c] = "done" /\ status' = [status EXCEPT ![c] = "destroyed"]
    <3>1. Phase[c] = "ended" /\ Phase' = [Phase EXCEPT ![c] = "freed"]
      <4>1. status'[c] = "destroyed" /\ \A d \in Tasks : d # c => status'[d] = status[d]
        BY <1>0, <2>4 DEF TypeOK
      <4>2. QED  BY <1>0, <2>4, <4>1, PhaseAt, PhaseMove
    <3>2. QED  BY <1>5, <2>4, <3>1 DEF CheckDone, Contract!FreeRoot
  <2>5. QED  BY <2>2, <2>3, <2>4
<1>6. ASSUME NEW c \in Tasks, AwaitOp(t, c) PROVE UNCHANGED Contract!vars
  <2>1. status[c] = "running"
    BY <1>6, TopFacts, Fields DEF AwaitOp, EntryOK, BodyOK
  <2>2. Phase' = Phase
    BY <1>0, <1>6, <2>1, SamePhase DEF AwaitOp, TypeOK
  <2>3. QED  BY <1>6, <2>2 DEF AwaitOp, Contract!vars
<1>7. ASSUME NEW c \in Tasks, End(t, c) PROVE Contract!End(c)
  <2>1. status[c] = "running" /\ awaiting[c] = None
    BY <1>7, TopFacts, Fields DEF End, EntryOK, BodyOK
  <2>2. Phase[c] = "live" /\ Phase' = [Phase EXCEPT ![c] = "ended"]
    <3>1. status'[c] = "done" /\ \A d \in Tasks : d # c => status'[d] = status[d]
      BY <1>0, <1>7 DEF End, TypeOK
    <3>2. QED  BY <1>0, <2>1, <3>1, PhaseAt, PhaseMove
  <2>3. QED  BY <1>7, <2>1, <2>2 DEF End, Contract!End, Contract!Free
<1>8. ASSUME NEW p \in Tasks, NEW c \in Tasks, AwaitTask(t, p, c) PROVE Contract!Await(p, c)
  <2>1. status[p] = "running" /\ awaiting[p] = None /\ status[c] = "unborn" /\ p # c
    BY <1>8, TopFacts, Fields DEF AwaitTask, Unborn, EntryOK, BodyOK
  <2>2. c \notin roots /\ \A q \in Tasks : awaiting[q] # c
    BY <2>1, TasksAssumption DEF IInv, UnbornOK, AwaitingOK, Unborn, Alive
  <2>3. Phase[p] = "live" /\ Phase[c] = "new" /\ Phase' = [Phase EXCEPT ![c] = "live"]
    <3>1. /\ status'[c] = "suspended" /\ status'[p] = "suspended"
          /\ \A d \in Tasks : d # c /\ d # p => status'[d] = status[d]
      BY <1>0, <1>8, <2>1 DEF AwaitTask, TypeOK
    <3>2. QED  BY <1>0, <2>1, <3>1, PhaseAt, PhaseMove
  <2>4. QED
    BY <1>8, <2>1, <2>2, <2>3 DEF AwaitTask, Contract!Await, Contract!Free, Contract!Awaited
<1>9. ASSUME NEW p \in Tasks, NEW c \in Tasks, JoinTask(t, p, c) PROVE Contract!Await(p, c)
  <2>1. status[p] = "running" /\ awaiting[p] = None /\ holder[c] = p
    BY <1>9, TopFacts, Fields DEF JoinTask, EntryOK, BodyOK
  <2>2. /\ Alive(c) /\ c \notin roots /\ p # c
        /\ \A q \in Tasks : awaiting[q] # c
    BY <2>1, TasksAssumption DEF IInv, HolderOK, AwaitingOK
  <2>3. Phase' = Phase
    BY <1>0, <1>9, <2>1, SamePhase DEF JoinTask, TypeOK
  <2>4. Phase[p] = "live" /\ Phase[c] \in {"live", "ended"}
    BY <1>0, <2>1, <2>2 DEF Phase, TypeOK, Alive, Status
  <2>5. QED
    BY <1>9, <2>1, <2>2, <2>3, <2>4 DEF JoinTask, Contract!Await, Contract!Free, Contract!Awaited
<1>10. ASSUME NEW p \in Tasks, NEW c \in Tasks,
              AwaitSuspendFresh(t, p, c) \/ AwaitSuspendStarted(t, p, c)
       PROVE  UNCHANGED Contract!vars
  <2>1. CASE AwaitSuspendFresh(t, p, c)
    <3>1. awaiting[p] = c /\ c \notin started
      BY <2>1, TopFacts, Fields DEF AwaitSuspendFresh, EntryOK, SuspendOK
    <3>2. status[c] \in {"suspended", "running"}
      BY <1>10, <2>1, TopFacts, Fields, <3>1, TasksAssumption
      DEF IInv, AwaitSuspendFresh, AwaitingOK, EntryOK, SuspendOK, TypeOK, Status, Alive
    <3>3. Phase' = Phase
      BY <1>0, <2>1, <3>2, SamePhase DEF AwaitSuspendFresh, TypeOK
    <3>4. QED  BY <2>1, <3>3 DEF AwaitSuspendFresh, Contract!vars
  <2>2. CASE AwaitSuspendStarted(t, p, c)
    BY <2>2 DEF AwaitSuspendStarted, Contract!vars, Phase
  <2>3. QED  BY <1>10, <2>1, <2>2
<1>11. ASSUME NEW p \in Tasks, NEW c \in Tasks, AwaitReturn(t, p, c)
       PROVE  UNCHANGED Contract!vars
  <2>1. status[p] = "suspended"
    BY <1>11, TopFacts, Fields DEF AwaitReturn, EntryOK, AwaitOK
  <2>2. Phase' = Phase
    BY <1>0, <1>11, <2>1, SamePhase DEF AwaitReturn, TypeOK
  <2>3. QED  BY <1>11, <2>2 DEF AwaitReturn, Contract!vars
<1>12. ASSUME NEW p \in Tasks, NEW c \in Tasks, Retrieve(t, p, c) PROVE Contract!Collect(p, c)
  <2>1. status[p] = "running" /\ awaiting[p] = c /\ status[c] = "done"
    BY <1>12, TopFacts, Fields DEF Retrieve, EntryOK, RetrieveOK
  <2>2. /\ Phase[p] = "live" /\ Phase[c] = "ended"
        /\ Phase' = [Phase EXCEPT ![c] = "freed"]
    <3>1. status'[c] = "destroyed" /\ \A d \in Tasks : d # c => status'[d] = status[d]
      BY <1>0, <1>12 DEF Retrieve, TypeOK
    <3>2. QED  BY <1>0, <2>1, <3>1, PhaseAt, PhaseMove
  <2>3. QED  BY <1>12, <2>1, <2>2 DEF Retrieve, Contract!Collect
<1>13. ASSUME NEW p \in Tasks, NEW c \in Tasks, StartSubroutine(t, p, c) PROVE Contract!Start(c)
  <2>1. status[p] = "running" /\ awaiting[p] = None /\ status[c] = "unborn" /\ p # c
    BY <1>13, TopFacts, Fields DEF StartSubroutine, Unborn, EntryOK, BodyOK
  <2>2. Phase[p] = "live" /\ Phase[c] = "new" /\ Phase' = [Phase EXCEPT ![c] = "live"]
    <3>1. /\ status'[c] = "running" /\ status'[p] = "suspended"
          /\ \A d \in Tasks : d # c /\ d # p => status'[d] = status[d]
      BY <1>0, <1>13, <2>1 DEF StartSubroutine, TypeOK
    <3>2. QED  BY <1>0, <2>1, <3>1, PhaseAt, PhaseMove
  <2>3. QED  BY <1>13, <2>1, <2>2 DEF StartSubroutine, Contract!Start, Contract!Free
<1>14. ASSUME NEW p \in Tasks, NEW c \in Tasks, StartReturn(t, p, c)
       PROVE  UNCHANGED Contract!vars
  <2>1. status[p] = "suspended"
    BY <1>14, TopFacts, Fields DEF StartReturn, EntryOK, StartOK
  <2>2. Phase' = Phase
    BY <1>0, <1>14, <2>1, SamePhase DEF StartReturn, TypeOK
  <2>3. QED  BY <1>14, <2>2 DEF StartReturn, Contract!vars
<1>15. CASE Step(t)
  <2>1. ASSUME NEW c \in Tasks, Return(t, c) \/ Throw(t, c) PROVE End(t, c)
    BY <2>1 DEF Return, Throw
  <2>2. QED
    BY <1>3, <1>4, <1>5, <1>6, <1>7, <1>8, <1>9, <1>10, <1>11, <1>12, <1>13, <1>14, <1>15, <2>1
    DEF Step, Contract!Next
<1>16. QED  BY <1>1, <1>2, <1>15 DEF Next, Contract!Next

(***************************************************************************)
(* With one thread, whatever the runtime does with stacks, parents and the *)
(* queue, its users see TaskContract: a co_await returns exactly once,     *)
(* after the awaited task has ended, and each frame is freed exactly once. *)
(***************************************************************************)
THEOREM SingleThreadRefinesContract ==
  ASSUME NEW t, Threads = {t}, ValueTasks \cap ThrowingTasks = {}
  PROVE  Spec => Contract!Spec
<1>1. Init => IInv(t) /\ Contract!Init
  BY InitIInv, InitRefines
<1>2. IInv(t) /\ [Next]_vars => IInv(t)'
  BY StepIInv
<1>3. IInv(t) /\ [Next]_vars => [Contract!Next]_(Contract!vars)
  BY StepRefines
<1>4. QED  BY <1>1, <1>2, <1>3, PTL DEF Spec, Contract!Spec
=============================================================================
