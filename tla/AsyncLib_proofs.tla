--------------------------- MODULE AsyncLib_proofs ---------------------------
(* Theorems about AsyncLib, for every choice of its constants. *)
EXTENDS AsyncLibInvariant, TLAPS

-----------------------------------------------------------------------------
(* The call stack operators keep a stack of activations. *)

Stacks == [Threads -> Seq(Activation)]

LEMMA TopType ==
  ASSUME stack \in Stacks, NEW t \in Threads, Busy(t)
  PROVE  /\ Top(t) \in Activation
         /\ Len(stack[t]) \in Nat \ {0}
         /\ Len(stack[t]) \in DOMAIN stack[t]
  BY DEF Stacks, Busy, Top

LEMMA CallType ==
  ASSUME stack \in Stacks, NEW t \in Threads, NEW e \in Activation, Call(t, e)
  PROVE  stack' \in Stacks
  BY DEF Stacks, Call

LEMMA LeaveType ==
  ASSUME stack \in Stacks, NEW t \in Threads, Busy(t), Leave(t)
  PROVE  stack' \in Stacks
<1>1. SubSeq(stack[t], 1, Len(stack[t]) - 1) \in Seq(Activation)
  BY TopType DEF Stacks
<1>2. QED  BY <1>1 DEF Stacks, Leave

LEMMA BecomeType ==
  ASSUME stack \in Stacks, NEW t \in Threads, NEW e \in Activation, Busy(t),
         Become(t, e)
  PROVE  stack' \in Stacks
<1>1. [stack[t] EXCEPT ![Len(stack[t])] = e] \in Seq(Activation)
  BY TopType DEF Stacks
<1>2. QED  BY <1>1 DEF Stacks, Become

LEMMA BecomeCallType ==
  ASSUME stack \in Stacks, NEW t \in Threads, Busy(t),
         NEW e \in Activation, NEW f \in Activation, BecomeCall(t, e, f)
  PROVE  stack' \in Stacks
<1>1. [stack[t] EXCEPT ![Len(stack[t])] = e] \in Seq(Activation)
  BY TopType DEF Stacks
<1>2. Append([stack[t] EXCEPT ![Len(stack[t])] = e], f) \in Seq(Activation)
  BY <1>1
<1>3. QED  BY <1>2 DEF Stacks, BecomeCall

LEMMA ActivationType ==
  ASSUME NEW pt \in Points, NEW c \in Tasks
  PROVE  /\ At(pt, c) \in Activation
         /\ \A d \in Tasks : In(pt, c, d) \in Activation
  BY DEF At, In, Activation

-----------------------------------------------------------------------------
(* Type correctness. *)

LEMMA InitTypeOK == Init => TypeOK
  BY MaxOpsAssumption DEF Init, TypeOK, Status

(***************************************************************************)
(* One step of a thread keeps every variable in its type; in particular    *)
(* every activation ever pushed names a coroutine, never the null pointer. *)
(***************************************************************************)
LEMMA StepTypeOK == TypeOK /\ [Next]_vars => TypeOK'
<1> SUFFICES ASSUME TypeOK, [Next]_vars PROVE TypeOK'
  OBVIOUS
<1> USE DEF Status, Points
<1>s. stack \in Stacks
  BY DEF TypeOK, Stacks
<1>o. \A c \in Tasks : ops[c] \in 0..MaxOps
  BY DEF TypeOK
<1>f. stack' \in Stacks => stack' \in [Threads -> Seq(Activation)]
  BY DEF Stacks
<1>1. CASE UNCHANGED vars
  BY <1>1 DEF vars, TypeOK
<1>2. ASSUME NEW t \in Threads, NEW c \in Tasks, Spawn(t, c) PROVE TypeOK'
  <2>1. stack' \in Stacks
    BY <1>s, <1>2, CallType, ActivationType DEF Spawn
  <2>2. QED  BY <2>1, <1>f, <1>2 DEF TypeOK, Spawn
<1>3. ASSUME NEW t \in Threads, Step(t) PROVE TypeOK'
  <2>1. ASSUME NEW c \in Tasks, Tick(t, c) PROVE TypeOK'
    <3>1. stack' \in Stacks
      BY <1>s, <2>1, CallType, ActivationType DEF Tick
    <3>2. QED  BY <3>1, <1>f, <2>1 DEF TypeOK, Tick
  <2>2. ASSUME NEW c \in Tasks, ResumeJob(t, c) PROVE TypeOK'
    <3>1. Continuation(c) \in Activation
      BY ActivationType DEF Continuation, TypeOK
    <3>2. stack' \in Stacks
      BY <1>s, <2>2, <3>1, BecomeCallType, ActivationType DEF ResumeJob, Runs
    <3>3. QED  BY <3>2, <1>f, <2>2 DEF TypeOK, ResumeJob
  <2>3. ASSUME NEW c \in Tasks, CheckDone(t, c) PROVE TypeOK'
    <3>1. Busy(t) /\ parent[c] \in Tasks \cup {None}
      BY <2>3 DEF CheckDone, Runs, TypeOK
    <3>2. Leave(t) => stack' \in Stacks
      BY <1>s, <3>1, LeaveType
    <3>3. ResumeParent(t, c) => stack' \in Stacks
      BY <1>s, <3>1, <3>2, BecomeType, ActivationType DEF ResumeParent
    <3>4. QED  BY <3>2, <3>3, <1>f, <2>3 DEF TypeOK, CheckDone
  <2>4. ASSUME NEW c \in Tasks, AwaitOp(t, c) PROVE TypeOK'
    <3>1. stack' \in Stacks
      BY <1>s, <2>4, LeaveType DEF AwaitOp, Runs
    <3>2. ops[c] + 1 \in 0..MaxOps
      BY <1>o, <2>4, MaxOpsAssumption DEF AwaitOp
    <3>3. QED  BY <3>1, <3>2, <1>f, <2>4 DEF TypeOK, AwaitOp
  <2>5. ASSUME NEW c \in Tasks, End(t, c), result' \in SUBSET Tasks PROVE TypeOK'
    <3>1. stack' \in Stacks
      BY <1>s, <2>5, LeaveType DEF End, Runs
    <3>2. QED  BY <3>1, <1>f, <2>5 DEF TypeOK, End
  <2>6. ASSUME NEW c \in Tasks, Return(t, c) \/ Throw(t, c) PROVE TypeOK'
    BY <2>5, <2>6 DEF Return, Throw, TypeOK
  <2>7. ASSUME NEW p \in Tasks, NEW c \in Tasks, AwaitTask(t, p, c) PROVE TypeOK'
    <3>1. stack' \in Stacks
      BY <1>s, <2>7, BecomeType, ActivationType DEF AwaitTask, Runs
    <3>2. QED  BY <3>1, <1>f, <2>7 DEF TypeOK, AwaitTask
  <2>8. ASSUME NEW p \in Tasks, NEW c \in Tasks, JoinTask(t, p, c) PROVE TypeOK'
    <3>1. stack' \in Stacks
      BY <1>s, <2>8, BecomeType, ActivationType DEF JoinTask, Runs
    <3>2. QED  BY <3>1, <1>f, <2>8 DEF TypeOK, JoinTask
  <2>9. ASSUME NEW p \in Tasks, NEW c \in Tasks, AwaitSuspendFresh(t, p, c) PROVE TypeOK'
    <3>1. stack' \in Stacks
      BY <1>s, <2>9, BecomeCallType, ActivationType DEF AwaitSuspendFresh, Runs
    <3>2. QED  BY <3>1, <1>f, <2>9 DEF TypeOK, AwaitSuspendFresh, SetParent
  <2>10. ASSUME NEW p \in Tasks, NEW c \in Tasks, AwaitSuspendStarted(t, p, c) PROVE TypeOK'
    <3>1. stack' \in Stacks
      BY <1>s, <2>10, LeaveType DEF AwaitSuspendStarted, Runs
    <3>2. QED  BY <3>1, <1>f, <2>10 DEF TypeOK, AwaitSuspendStarted, SetParent
  <2>11. ASSUME NEW p \in Tasks, NEW c \in Tasks, AwaitReturn(t, p, c) PROVE TypeOK'
    <3>1. stack' \in Stacks
      BY <1>s, <2>11, LeaveType, BecomeType, ActivationType DEF AwaitReturn, Runs
    <3>2. QED  BY <3>1, <1>f, <2>11 DEF TypeOK, AwaitReturn
  <2>12. ASSUME NEW p \in Tasks, NEW c \in Tasks, Retrieve(t, p, c) PROVE TypeOK'
    <3>1. stack' \in Stacks
      BY <1>s, <2>12, BecomeType, ActivationType DEF Retrieve, Runs
    <3>2. QED  BY <3>1, <1>f, <2>12 DEF TypeOK, Retrieve
  <2>13. ASSUME NEW p \in Tasks, NEW c \in Tasks, StartSubroutine(t, p, c) PROVE TypeOK'
    <3>1. stack' \in Stacks
      BY <1>s, <2>13, BecomeCallType, ActivationType DEF StartSubroutine, Runs
    <3>2. QED  BY <3>1, <1>f, <2>13 DEF TypeOK, StartSubroutine
  <2>14. ASSUME NEW p \in Tasks, NEW c \in Tasks, StartReturn(t, p, c) PROVE TypeOK'
    <3>1. stack' \in Stacks
      BY <1>s, <2>14, BecomeType, ActivationType DEF StartReturn, Runs
    <3>2. QED  BY <3>1, <1>f, <2>14 DEF TypeOK, StartReturn
  <2>15. QED
    BY <1>3, <2>1, <2>2, <2>3, <2>4, <2>6, <2>7, <2>8, <2>9, <2>10, <2>11, <2>12,
       <2>13, <2>14 DEF Step
<1>4. QED  BY <1>1, <1>2, <1>3 DEF Next

(***************************************************************************)
(* Every state has its type, whatever the tasks, threads and bounds.       *)
(***************************************************************************)
THEOREM TypeCorrect == Spec => []TypeOK
<1>1. Init => TypeOK
  BY InitTypeOK
<1>2. TypeOK /\ [Next]_vars => TypeOK'
  BY StepTypeOK
<1>3. QED  BY <1>1, <1>2, PTL DEF Spec

-----------------------------------------------------------------------------
(* What each stack operator does to the entries of a stack. *)

LEMMA CallEntries ==
  ASSUME stack \in Stacks, NEW t \in Threads, NEW e \in Activation, Call(t, e)
  PROVE  /\ Len(stack[t]) \in Nat
         /\ Len(stack'[t]) = Len(stack[t]) + 1
         /\ \A i \in 1..Len(stack[t]) : stack'[t][i] = stack[t][i]
         /\ stack'[t][Len(stack[t]) + 1] = e
  BY DEF Stacks, Call

LEMMA LeaveEntries ==
  ASSUME stack \in Stacks, NEW t \in Threads, Busy(t), Leave(t)
  PROVE  /\ Len(stack[t]) \in Nat \ {0}
         /\ Len(stack'[t]) = Len(stack[t]) - 1
         /\ \A i \in 1..(Len(stack[t]) - 1) : stack'[t][i] = stack[t][i]
<1>1. Len(stack[t]) \in Nat \ {0} /\ stack[t] \in Seq(Activation)
  BY TopType DEF Stacks
<1>2. stack'[t] = SubSeq(stack[t], 1, Len(stack[t]) - 1)
  BY DEF Stacks, Leave
<1>3. QED  BY <1>1, <1>2

LEMMA BecomeEntries ==
  ASSUME stack \in Stacks, NEW t \in Threads, Busy(t), NEW e \in Activation, Become(t, e)
  PROVE  /\ Len(stack[t]) \in Nat \ {0}
         /\ Len(stack'[t]) = Len(stack[t])
         /\ \A i \in 1..(Len(stack[t]) - 1) : stack'[t][i] = stack[t][i]
         /\ stack'[t][Len(stack[t])] = e
  BY TopType DEF Stacks, Become

LEMMA BecomeCallEntries ==
  ASSUME stack \in Stacks, NEW t \in Threads, Busy(t),
         NEW e \in Activation, NEW f \in Activation, BecomeCall(t, e, f)
  PROVE  /\ Len(stack[t]) \in Nat \ {0}
         /\ Len(stack'[t]) = Len(stack[t]) + 1
         /\ \A i \in 1..(Len(stack[t]) - 1) : stack'[t][i] = stack[t][i]
         /\ stack'[t][Len(stack[t])] = e
         /\ stack'[t][Len(stack[t]) + 1] = f
<1>1. Len(stack[t]) \in Nat \ {0} /\ Len(stack[t]) \in DOMAIN stack[t]
  BY TopType
<1> DEFINE u == [stack[t] EXCEPT ![Len(stack[t])] = e]
<1>2. /\ u \in Seq(Activation) /\ Len(u) = Len(stack[t])
      /\ u[Len(stack[t])] = e
      /\ \A i \in 1..(Len(stack[t]) - 1) : u[i] = stack[t][i]
  BY <1>1 DEF Stacks
<1>3. stack'[t] = Append(u, f)
  BY DEF Stacks, BecomeCall
<1> HIDE DEF u
<1>4. QED  BY <1>1, <1>2, <1>3

LEMMA TopEntry ==
  ASSUME stack \in Stacks, NEW t \in Threads, Busy(t)
  PROVE  /\ Len(stack[t]) \in Nat \ {0} /\ Len(stack[t]) \in Depth(t)
         /\ stack[t][Len(stack[t])] = Top(t) /\ Top(t) \in Activation
  BY TopType DEF Top, Depth

\* The fields of the two kinds of activations.
LEMMA Fields ==
  \A pt, c, d : /\ At(pt, c).at = pt /\ At(pt, c).co = c /\ At(pt, c).child = None
                /\ In(pt, c, d).at = pt /\ In(pt, c, d).co = c /\ In(pt, c, d).child = d
  BY DEF At, In

-----------------------------------------------------------------------------
(* The shape of a stack under each operator, for one thread t. *)

\* The innermost activation changes, but still runs the same coroutine or job.
SameKind(e, f) ==
  \/ IsActive(e) /\ IsActive(f) /\ e.co = f.co
  \/ e.at \in {"resume", "check"} /\ f.at \in {"resume", "check"}

LEMMA SameKindFollows ==
  ASSUME NEW d, NEW e, NEW f, SameKind(e, f), Follows(d, e)
  PROVE  Follows(d, f)
  BY DEF SameKind, Follows, IsActive, ActivePoints

LEMMA LeaveShape ==
  ASSUME stack \in Stacks, NEW t \in Threads, Busy(t), Leave(t),
         StackShape(t), OneActivation(t)
  PROVE  /\ StackShape(t)' /\ OneActivation(t)'
         /\ \A d : Idle(t, d) => Idle(t, d)'
         /\ \A d : IsActive(Top(t)) /\ Top(t).co = d => Idle(t, d)'
<1> DEFINE n == Len(stack[t])
<1>1. n \in Nat \ {0} /\ n \in Depth(t) /\ stack[t][n] = Top(t)
  BY TopEntry
<1>2. Len(stack'[t]) = n - 1 /\ \A i \in 1..(n - 1) : stack'[t][i] = stack[t][i]
  BY LeaveEntries
<1>3. \A i \in Depth(t)' : i \in 1..(n - 1) /\ i \in Depth(t) /\ i # n
  BY <1>1, <1>2 DEF Depth
<1>4. StackShape(t)'
  <2>1. ASSUME NEW i \in Depth(t)', i < Len(stack'[t])
        PROVE  Follows(stack'[t][i], stack'[t][i + 1])
    <3>1. i \in 1..(n - 1) /\ i + 1 \in 1..(n - 1)
      BY <2>1, <1>1, <1>2 DEF Depth
    <3>2. stack'[t][i + 1] = stack[t][i + 1] /\ stack'[t][i] = stack[t][i]
      BY <3>1, <1>2
    <3>3. i \in Depth(t) /\ i < n
      BY <3>1, <1>1 DEF Depth
    <3>4. QED  BY <3>2, <3>3 DEF StackShape
  <2>2. 1 \in Depth(t)' => 1 \in Depth(t) /\ stack'[t][1] = stack[t][1]
    BY <1>2, <1>3
  <2>3. QED  BY <2>1, <2>2 DEF StackShape
<1>5. OneActivation(t)'
  BY <1>2, <1>3 DEF OneActivation
<1>6. \A d : Idle(t, d) => Idle(t, d)'
  BY <1>2, <1>3 DEF Idle
<1>7. \A d : IsActive(Top(t)) /\ Top(t).co = d => Idle(t, d)'
  BY <1>1, <1>2, <1>3 DEF Idle, OneActivation
<1>8. QED  BY <1>4, <1>5, <1>6, <1>7

LEMMA BecomeShape ==
  ASSUME stack \in Stacks, NEW t \in Threads, Busy(t), NEW e \in Activation,
         Become(t, e), SameKind(Top(t), e), StackShape(t), OneActivation(t)
  PROVE  /\ StackShape(t)' /\ OneActivation(t)'
         /\ \A d : Idle(t, d) => Idle(t, d)'
<1> DEFINE n == Len(stack[t])
<1>1. n \in Nat \ {0} /\ n \in Depth(t) /\ stack[t][n] = Top(t)
  BY TopEntry
<1>2. /\ Len(stack'[t]) = n /\ stack'[t][n] = e
      /\ \A i \in 1..(n - 1) : stack'[t][i] = stack[t][i]
  BY BecomeEntries
<1>3. \A i \in Depth(t)' : i \in Depth(t) /\ (i # n => i \in 1..(n - 1))
  BY <1>1, <1>2 DEF Depth
<1>4. StackShape(t)'
  <2>1. ASSUME NEW i \in Depth(t)', i < Len(stack'[t])
        PROVE  Follows(stack'[t][i], stack'[t][i + 1])
    <3>1. i \in 1..(n - 1) /\ i \in Depth(t) /\ i + 1 \in Depth(t)' /\ i < n
      BY <2>1, <1>1, <1>2 DEF Depth
    <3>2. stack'[t][i] = stack[t][i] /\ Follows(stack[t][i], stack[t][i + 1])
      BY <3>1, <1>2 DEF StackShape
    <3>3. CASE i + 1 = n
      BY <3>2, <3>3, <1>1, <1>2, SameKindFollows
    <3>4. CASE i + 1 # n
      BY <3>1, <3>2, <3>4, <1>2, <1>3
    <3>5. QED  BY <3>3, <3>4
  <2>2. 1 \in Depth(t)' => stack'[t][1].at \in {"resume", "check"}
    <3>1. CASE n = 1
      BY <3>1, <1>1, <1>2 DEF SameKind, StackShape, IsActive, ActivePoints
    <3>2. CASE n # 1
      BY <3>2, <1>2, <1>3 DEF StackShape
    <3>3. QED  BY <3>1, <3>2
  <2>3. QED  BY <2>1, <2>2 DEF StackShape
<1>5. ASSUME NEW i \in Depth(t)'
      PROVE  /\ i \in Depth(t) /\ (IsActive(stack'[t][i]) <=> IsActive(stack[t][i]))
             /\ IsActive(stack[t][i]) => stack'[t][i].co = stack[t][i].co
  <2>1. CASE i = n
    BY <2>1, <1>1, <1>2 DEF SameKind, IsActive, ActivePoints
  <2>2. CASE i # n
    BY <2>2, <1>2, <1>3
  <2>3. QED  BY <2>1, <2>2
<1>6. OneActivation(t)'
  BY <1>5 DEF OneActivation
<1>7. \A d : Idle(t, d) => Idle(t, d)'
  BY <1>5 DEF Idle
<1>8. QED  BY <1>4, <1>6, <1>7

LEMMA CallShape ==
  ASSUME stack \in Stacks, NEW t \in Threads, NEW e \in Activation, Call(t, e),
         e.at = "resume", Busy(t) => Top(t).at = "body",
         StackShape(t), OneActivation(t)
  PROVE  /\ StackShape(t)' /\ OneActivation(t)'
         /\ \A d : Idle(t, d) => Idle(t, d)'
<1> DEFINE n == Len(stack[t])
<1>1. /\ n \in Nat /\ Len(stack'[t]) = n + 1 /\ stack'[t][n + 1] = e
      /\ \A i \in 1..n : stack'[t][i] = stack[t][i]
  BY CallEntries
<1>2. \A i \in Depth(t)' : i \in Nat \ {0} /\ (i # n + 1 => i \in 1..n /\ i \in Depth(t))
  BY <1>1 DEF Depth
<1>3. n # 0 => stack[t][n].at = "body"
  BY <1>1, TopEntry DEF Busy, Top, Stacks
<1>4. StackShape(t)'
  <2>1. ASSUME NEW i \in Depth(t)', i < Len(stack'[t])
        PROVE  Follows(stack'[t][i], stack'[t][i + 1])
    <3>1. i \in 1..n /\ i \in Depth(t)
      BY <2>1, <1>1 DEF Depth
    <3>2. CASE i = n
      BY <3>1, <3>2, <1>1, <1>3 DEF Follows
    <3>3. CASE i # n
      <4>1. i + 1 \in 1..n /\ i < n
        BY <3>1, <3>3, <1>1
      <4>2. QED  BY <4>1, <3>1, <1>1 DEF StackShape
    <3>4. QED  BY <3>2, <3>3
  <2>2. 1 \in Depth(t)' => stack'[t][1].at \in {"resume", "check"}
    BY <1>1, <1>2 DEF StackShape
  <2>3. QED  BY <2>1, <2>2 DEF StackShape
<1>5. OneActivation(t)'
  BY <1>1, <1>2 DEF OneActivation, IsActive, ActivePoints
<1>6. \A d : Idle(t, d) => Idle(t, d)'
  BY <1>1, <1>2 DEF Idle, IsActive, ActivePoints
<1>7. QED  BY <1>4, <1>5, <1>6

LEMMA BecomeCallShape ==
  ASSUME stack \in Stacks, NEW t \in Threads, Busy(t),
         NEW e \in Activation, NEW f \in Activation, BecomeCall(t, e, f),
         SameKind(Top(t), e), Follows(e, f), IsActive(f),
         Idle(t, f.co), StackShape(t), OneActivation(t)
  PROVE  /\ StackShape(t)' /\ OneActivation(t)'
         /\ \A d : Idle(t, d) /\ d # f.co => Idle(t, d)'
<1> DEFINE n == Len(stack[t])
<1>1. n \in Nat \ {0} /\ n \in Depth(t) /\ stack[t][n] = Top(t)
  BY TopEntry
<1>2. /\ Len(stack'[t]) = n + 1 /\ stack'[t][n] = e /\ stack'[t][n + 1] = f
      /\ \A i \in 1..(n - 1) : stack'[t][i] = stack[t][i]
  BY BecomeCallEntries
<1>3. \A i \in Depth(t)' : \/ i = n + 1 \/ i = n
                           \/ i \in 1..(n - 1) /\ i \in Depth(t) /\ i # n /\ i # n + 1
  BY <1>1, <1>2 DEF Depth
<1>4. StackShape(t)'
  <2>1. ASSUME NEW i \in Depth(t)', i < Len(stack'[t])
        PROVE  Follows(stack'[t][i], stack'[t][i + 1])
    <3>1. CASE i = n
      BY <3>1, <1>1, <1>2
    <3>2. CASE i # n
      <4>1. i \in 1..(n - 1) /\ i \in Depth(t) /\ i < n
        BY <3>2, <2>1, <1>1, <1>2 DEF Depth
      <4>2. stack'[t][i] = stack[t][i] /\ Follows(stack[t][i], stack[t][i + 1])
        BY <4>1, <1>2 DEF StackShape
      <4>3. CASE i + 1 = n
        BY <4>2, <4>3, <1>1, <1>2, SameKindFollows
      <4>4. CASE i + 1 # n
        <5>1. i + 1 \in 1..(n - 1)
          BY <4>1, <4>4, <1>1
        <5>2. QED  BY <5>1, <4>2, <1>2
      <4>5. QED  BY <4>3, <4>4
    <3>3. QED  BY <3>1, <3>2
  <2>2. 1 \in Depth(t)' => stack'[t][1].at \in {"resume", "check"}
    <3>1. CASE n = 1
      BY <3>1, <1>1, <1>2 DEF SameKind, StackShape, IsActive, ActivePoints
    <3>2. CASE n > 1
      <4>1. 1 \in 1..(n - 1) /\ 1 \in Depth(t)
        BY <3>2, <1>1 DEF Depth
      <4>2. QED  BY <4>1, <1>2 DEF StackShape
    <3>3. n = 1 \/ n > 1
      <4>1. n \in Nat \ {0}
        BY <1>1
      <4> HIDE DEF n
      <4>2. QED  BY <4>1
    <3>4. QED  BY <3>1, <3>2, <3>3
  <2>3. QED  BY <2>1, <2>2 DEF StackShape
<1>5. OneActivation(t)'
  <2>1. IsActive(e) => IsActive(Top(t)) /\ Top(t).co = e.co
    BY DEF SameKind, IsActive, ActivePoints
  <2>2. \A i \in Depth(t)' : i # n + 1 =>
          /\ i \in Depth(t)
          /\ IsActive(stack'[t][i]) => /\ IsActive(stack[t][i])
                                      /\ stack'[t][i].co = stack[t][i].co
    BY <1>1, <1>2, <1>3, <2>1
  <2>3. \A i \in Depth(t)' : i # n + 1 /\ IsActive(stack'[t][i]) => stack'[t][i].co # f.co
    BY <2>2 DEF Idle
  <2>4. QED  BY <2>2, <2>3, <1>2 DEF OneActivation
<1>6. \A d : Idle(t, d) /\ d # f.co => Idle(t, d)'
  BY <1>1, <1>2, <1>3 DEF Idle, SameKind, IsActive, ActivePoints
<1>7. QED  BY <1>4, <1>5, <1>6

-----------------------------------------------------------------------------
(* The activations of a stack as a set: all of them, and the ones below the  *)
(* innermost.                                                                *)

Entries(t) == {stack[t][i] : i \in Depth(t)}
Inner(t)   == {stack[t][i] : i \in 1..(Len(stack[t]) - 1)}

LEMMA EntriesSplit ==
  ASSUME stack \in Stacks, NEW t \in Threads
  PROVE  Entries(t) = IF Busy(t) THEN Inner(t) \cup {Top(t)} ELSE {}
<1> DEFINE n == Len(stack[t])
<1>1. CASE Busy(t)
  <2>1. n \in Nat \ {0} /\ stack[t][n] = Top(t)
    BY <1>1, TopEntry
  <2>2. Depth(t) = 1..(n - 1) \cup {n}
    <3> HIDE DEF n
    <3>1. 1..n = 1..(n - 1) \cup {n}
      BY <2>1
    <3>2. QED  BY <3>1 DEF Depth, n
  <2>3. QED  BY <1>1, <2>1, <2>2 DEF Entries, Inner
<1>2. CASE ~Busy(t)
  BY <1>2 DEF Entries, Depth, Busy
<1>3. QED  BY <1>1, <1>2

LEMMA EntriesTyped ==
  ASSUME stack \in Stacks, NEW t \in Threads
  PROVE  \A e \in Entries(t) : e \in Activation
  BY DEF Entries, Depth, Stacks

LEMMA CallSets ==
  ASSUME stack \in Stacks, stack' \in Stacks, NEW t \in Threads,
         NEW e \in Activation, Call(t, e)
  PROVE  Entries(t)' = Entries(t) \cup {e} /\ \A x : Runs(t, x)' <=> x = e
<1> DEFINE n == Len(stack[t])
<1>1. /\ n \in Nat /\ Len(stack'[t]) = n + 1 /\ stack'[t][n + 1] = e
      /\ \A i \in 1..n : stack'[t][i] = stack[t][i]
  BY CallEntries
<1>2. Depth(t)' = 1..n \cup {n + 1}
  <2> HIDE DEF n
  <2>1. 1..(n + 1) = 1..n \cup {n + 1}
    BY <1>1
  <2>2. QED  BY <2>1, <1>1 DEF Depth, n
<1>3. Entries(t)' = Entries(t) \cup {e}
  BY <1>1, <1>2 DEF Entries, Depth
<1>4. stack'[t] # <<>>
  BY DEF Call, Stacks
<1>5. QED  BY <1>1, <1>3, <1>4 DEF Runs, Busy, Top

LEMMA BecomeSets ==
  ASSUME stack \in Stacks, stack' \in Stacks, NEW t \in Threads, Busy(t),
         NEW e \in Activation, Become(t, e)
  PROVE  Entries(t)' = Inner(t) \cup {e} /\ \A x : Runs(t, x)' <=> x = e
<1> DEFINE n == Len(stack[t])
<1>1. /\ n \in Nat \ {0} /\ Len(stack'[t]) = n /\ stack'[t][n] = e
      /\ \A i \in 1..(n - 1) : stack'[t][i] = stack[t][i]
  BY BecomeEntries
<1>2. Depth(t)' = 1..(n - 1) \cup {n}
  <2> HIDE DEF n
  <2>1. 1..n = 1..(n - 1) \cup {n}
    BY <1>1
  <2>2. QED  BY <2>1, <1>1 DEF Depth, n
<1>3. Entries(t)' = Inner(t) \cup {e}
  BY <1>1, <1>2 DEF Entries, Inner
<1>4. stack'[t] # <<>>
  BY <1>1 DEF Stacks
<1>5. QED  BY <1>1, <1>3, <1>4 DEF Runs, Busy, Top

LEMMA BecomeCallSets ==
  ASSUME stack \in Stacks, stack' \in Stacks, NEW t \in Threads, Busy(t),
         NEW e \in Activation, NEW f \in Activation, BecomeCall(t, e, f)
  PROVE  Entries(t)' = Inner(t) \cup {e, f} /\ \A x : Runs(t, x)' <=> x = f
<1> DEFINE n == Len(stack[t])
<1>1. /\ n \in Nat \ {0} /\ Len(stack'[t]) = n + 1 /\ stack'[t][n] = e
      /\ stack'[t][n + 1] = f
      /\ \A i \in 1..(n - 1) : stack'[t][i] = stack[t][i]
  BY BecomeCallEntries
<1>2. Depth(t)' = 1..(n - 1) \cup {n, n + 1}
  <2> HIDE DEF n
  <2>1. 1..(n + 1) = 1..(n - 1) \cup {n, n + 1}
    BY <1>1
  <2>2. QED  BY <2>1, <1>1 DEF Depth, n
<1>3. Entries(t)' = Inner(t) \cup {e, f}
  <2>1. Entries(t)' = {stack'[t][i] : i \in 1..(n - 1)} \cup {stack'[t][n], stack'[t][n + 1]}
    BY <1>2 DEF Entries
  <2>2. {stack'[t][i] : i \in 1..(n - 1)} = Inner(t)
    BY <1>1 DEF Inner
  <2>3. QED  BY <1>1, <2>1, <2>2
<1>4. stack'[t] # <<>>
  BY <1>1 DEF Stacks
<1>5. QED  BY <1>1, <1>3, <1>4 DEF Runs, Busy, Top

LEMMA LeaveSets ==
  ASSUME stack \in Stacks, stack' \in Stacks, NEW t \in Threads, Busy(t), Leave(t)
  PROVE  /\ Entries(t)' = Inner(t)
         /\ \A x : Runs(t, x)' => x \in Inner(t)
         /\ Inner(t) # {} => \E x \in Inner(t) : Runs(t, x)'
<1> DEFINE n == Len(stack[t])
<1>1. /\ n \in Nat \ {0} /\ Len(stack'[t]) = n - 1
      /\ \A i \in 1..(n - 1) : stack'[t][i] = stack[t][i]
  BY LeaveEntries
<1>2. Entries(t)' = Inner(t)
  BY <1>1 DEF Entries, Inner, Depth
<1>3. Busy(t)' => Top(t)' \in Entries(t)'
  BY TopType DEF Busy, Top, Entries, Depth, Stacks
<1>4. Inner(t) # {} => Busy(t)'
  BY <1>2 DEF Entries, Depth, Busy
<1>5. QED  BY <1>2, <1>3, <1>4 DEF Runs

\* Where a coroutine that leaves the stack returns to.
LEMMA LeaveTop ==
  ASSUME stack \in Stacks, stack' \in Stacks, NEW t \in Threads, Busy(t), Leave(t),
         StackShape(t)
  PROVE  /\ IsActive(Top(t)) => \E x \in Inner(t) : Follows(x, Top(t)) /\ Runs(t, x)'
         /\ \A x : Runs(t, x)' => Follows(x, Top(t))
<1> DEFINE n == Len(stack[t])
<1>1. /\ n \in Nat \ {0} /\ n \in Depth(t) /\ stack[t][n] = Top(t)
      /\ Len(stack'[t]) = n - 1
      /\ \A i \in 1..(n - 1) : stack'[t][i] = stack[t][i]
  BY LeaveEntries, TopEntry
<1>2. CASE n > 1
  <2>1. /\ n - 1 \in 1..(n - 1) /\ n - 1 \in Depth(t) /\ n - 1 < n /\ n - 1 + 1 = n
    BY <1>1, <1>2 DEF Depth
  <2>2. Follows(stack[t][n - 1], Top(t)) /\ stack'[t][n - 1] = stack[t][n - 1]
    BY <1>1, <2>1 DEF StackShape
  <2>3. stack'[t] # <<>> /\ stack'[t][Len(stack'[t])] = stack[t][n - 1]
    BY <1>1, <1>2, <2>2 DEF Stacks
  <2>4. stack[t][n - 1] \in Inner(t)
    BY <2>1 DEF Inner
  <2>5. QED  BY <2>2, <2>3, <2>4 DEF Runs, Busy, Top
<1>3. CASE n = 1
  <2>1. ~IsActive(Top(t))
    BY <1>1, <1>3 DEF StackShape, IsActive, ActivePoints
  <2>2. ~Busy(t)'
    BY <1>1, <1>3 DEF Busy, Stacks
  <2>3. QED  BY <2>1, <2>2 DEF Runs
<1>4. n = 1 \/ n > 1
  <2>1. n \in Nat \ {0}
    BY <1>1
  <2> HIDE DEF n
  <2>2. QED  BY <2>1
<1>5. QED  BY <1>2, <1>3, <1>4

-----------------------------------------------------------------------------
(* What the invariant says of the activations below the innermost one.       *)

LEMMA EntryFacts ==
  ASSUME NEW t \in Threads, IInv(t)
  PROVE  /\ stack \in Stacks
         /\ \A e \in Entries(t) : e \in Activation /\ EntryOK(t, e)
         /\ \A e \in Entries(t) : IsActive(e) =>
              /\ status[e.co] \in {"running", "suspended"} /\ e.co \in started
              /\ ~Idle(t, e.co)
  <1>1. stack \in Stacks
    BY DEF IInv, TypeOK, Stacks
  <1>2. \A e \in Entries(t) : e \in Activation /\ EntryOK(t, e)
    BY <1>1, EntriesTyped DEF IInv, EntriesOK, Entries
  <1>3. \A e \in Entries(t) : IsActive(e) => ~Idle(t, e.co)
    BY DEF Entries, Idle
  <1>4. QED
    BY <1>1, <1>2, <1>3 DEF EntryOK, IsActive, ActivePoints, BodyOK, RetrieveOK, SuspendOK,
       AwaitOK, StartOK

LEMMA InnerFacts ==
  ASSUME NEW t \in Threads, IInv(t), Busy(t), NEW e \in Inner(t)
  PROVE  /\ e \in Entries(t) /\ e.at \in {"body", "check", "await", "start"}
         /\ status[e.co] \in {"running", "suspended"} /\ e.co \in started
         /\ IsActive(e) /\ IsActive(Top(t)) => e.co # Top(t).co
         /\ e.at \in {"await", "start"} => status[e.child] \in {"running", "suspended"}
         /\ e.at \in {"await", "start"} => e.child \in started
<1> DEFINE n == Len(stack[t])
<1>1. stack \in Stacks /\ n \in Nat \ {0} /\ n \in Depth(t) /\ stack[t][n] = Top(t)
  BY EntryFacts, TopEntry
<1>2. PICK i \in 1..(n - 1) : e = stack[t][i]
  BY DEF Inner
<1>3. i \in Depth(t) /\ i < n /\ i # n /\ i + 1 \in Depth(t)
  <2> HIDE DEF n
  <2>1. i \in 1..n /\ i < n /\ i # n /\ i + 1 \in 1..n
    BY <1>1
  <2>2. QED  BY <2>1 DEF Depth, n
<1>4. Follows(e, stack[t][i + 1])
  BY <1>2, <1>3 DEF IInv, StackShape
<1>5. e \in Entries(t) /\ stack[t][i + 1] \in Entries(t)
  BY <1>2, <1>3 DEF Entries
<1>6. IsActive(e) /\ IsActive(Top(t)) => e.co # Top(t).co
  BY <1>1, <1>2, <1>3 DEF IInv, OneActivation
<1>7. QED
  BY <1>4, <1>5, <1>6, EntryFacts DEF Follows, IsActive, ActivePoints

\* The invariant of the activations, as a property of the set.
LEMMA EntriesOKFromSet ==
  ASSUME NEW t \in Threads, \A e \in Entries(t)' : EntryOK(t, e)'
  PROVE  EntriesOK(t)'
  BY DEF EntriesOK, Entries

(***************************************************************************)
(* An activation below the innermost one stays right when a step changes   *)
(* nothing about its coroutine but its stack.                              *)
(***************************************************************************)
LEMMA InnerKept ==
  ASSUME NEW t \in Threads, IInv(t), Busy(t), NEW e \in Inner(t),
         started \subseteq started',
         IsActive(e) => status'[e.co] = status[e.co] /\ awaiting'[e.co] = awaiting[e.co],
         e.at = "start" => holder'[e.child] = holder[e.child],
         e.at = "check" => status'[e.co] \notin {"unborn", "destroyed"}
  PROVE  EntryOK(t, e)'
<1>1. e \in Entries(t) /\ e.at \in {"body", "check", "await", "start"} /\ EntryOK(t, e)
  BY InnerFacts, EntryFacts
<1>2. QED
  BY <1>1 DEF EntryOK, IsActive, ActivePoints, BodyOK, AwaitOK, StartOK, Alive

LEMMA TopFacts ==
  ASSUME NEW t \in Threads, IInv(t), NEW e, Runs(t, e)
  PROVE  /\ Busy(t) /\ Top(t) = e /\ e \in Entries(t) /\ e \in Activation /\ EntryOK(t, e)
         /\ \A x : Runs(t, x) => x = e
  BY EntryFacts, EntriesSplit DEF Runs

-----------------------------------------------------------------------------
(* Every action of the only thread preserves the invariant. *)

LEMMA SpawnIInv ==
  ASSUME NEW t \in Threads, NEW c \in Tasks, IInv(t), TypeOK', Spawn(t, c)
  PROVE  IInv(t)'
<1>0. /\ stack \in Stacks /\ stack' \in Stacks /\ At("resume", c) \in Activation
      /\ Call(t, At("resume", c)) /\ status[c] = "unborn"
  BY ActivationType DEF IInv, TypeOK, Stacks, Spawn, Points, Unborn
<1>1. Busy(t) => Top(t).at = "body"
  BY DEF Spawn
<1>2. StackShape(t)' /\ OneActivation(t)' /\ \A d : Idle(t, d) => Idle(t, d)'
  BY <1>0, <1>1, CallShape, Fields DEF IInv
<1>3. Entries(t)' = Entries(t) \cup {At("resume", c)} /\ \A x : Runs(t, x)' <=> x = At("resume", c)
  BY <1>0, CallSets
<1>4. Idle(t, c) /\ c \notin inflight /\ awaiting[c] = None /\ holder[c] = None
      /\ \A p \in Tasks : awaiting[p] # c /\ holder[p] # c
  <2>1. Idle(t, c)
    BY <1>0, EntryFacts DEF Idle, Entries
  <2>2. QED
    BY <2>1, <1>0, TasksAssumption DEF IInv, QueueOK, AwaitingOK, HolderOK, Alive
<1>5. EntryOK(t, At("resume", c))'
  BY <1>0, <1>2, <1>4, Fields DEF Spawn, EntryOK, ResumeOK, IInv, TypeOK
<1>6. ASSUME NEW e \in Entries(t) PROVE EntryOK(t, e)'
  <2>1. Busy(t) /\ (e = Top(t) \/ e \in Inner(t))
    BY <1>0, EntriesSplit
  <2>2. CASE e = Top(t)
    BY <1>0, <1>1, <2>1, <2>2, EntryFacts DEF EntryOK, BodyOK, Spawn, IInv, TypeOK, Activation
  <2>3. CASE e \in Inner(t)
    BY <1>0, <2>1, <2>3, InnerFacts, InnerKept DEF Spawn, IInv, TypeOK, Activation
  <2>4. QED  BY <2>1, <2>2, <2>3
<1>7. EntriesOK(t)'
  BY <1>3, <1>5, <1>6, EntriesOKFromSet
<1>8. QueueOK(t)'
  BY <1>0, <1>2, <1>4 DEF IInv, QueueOK, Spawn, TypeOK
<1>9. AwaitingOK(t)'
  <2>1. \A p, d : ~Runs(t, In("suspend", p, d)) /\ ~Runs(t, In("retrieve", p, d))
    BY <1>1, Fields DEF Runs
  <2>2. QED
    BY <1>0, <1>4, <2>1 DEF IInv, AwaitingOK, Spawn, TypeOK, Alive
<1>10. HolderOK' /\ ParentOK' /\ UnbornOK' /\ ResultOK'
  BY <1>0, <1>4 DEF IInv, HolderOK, ParentOK, UnbornOK, ResultOK, Spawn, TypeOK, Alive, Unborn
<1>11. WakeupOK(t)'
  <2>1. \A p, d : ~Runs(t, At("check", d)) /\ ~Runs(t, In("await", p, d)) /\ ~Runs(t, At("resume", p))
    BY <1>1, Fields DEF Runs
  <2>2. QED
    BY <1>0, <1>4, <2>1 DEF IInv, WakeupOK, Spawn, TypeOK
<1>12. QED  BY <1>2, <1>7, <1>8, <1>9, <1>10, <1>11 DEF IInv

LEMMA TickIInv ==
  ASSUME NEW t \in Threads, NEW c \in Tasks, IInv(t), TypeOK', Tick(t, c)
  PROVE  IInv(t)'
<1>0. /\ stack \in Stacks /\ stack' \in Stacks /\ At("resume", c) \in Activation
      /\ Call(t, At("resume", c)) /\ ~Busy(t)
  BY ActivationType DEF IInv, TypeOK, Stacks, Tick, Points
<1>1. c \in inflight /\ status[c] = "suspended" /\ c \in started /\ awaiting[c] = None /\ Idle(t, c)
  BY DEF IInv, QueueOK, Tick
<1>2. StackShape(t)' /\ OneActivation(t)' /\ \A d : Idle(t, d) => Idle(t, d)'
  BY <1>0, CallShape, Fields DEF IInv
<1>3. Entries(t)' = {At("resume", c)} /\ \A x : Runs(t, x)' <=> x = At("resume", c)
  BY <1>0, CallSets, EntriesSplit
<1>4. EntryOK(t, At("resume", c))'
  BY <1>1, <1>2, Fields DEF Tick, EntryOK, ResumeOK
<1>5. EntriesOK(t)'
  BY <1>3, <1>4, EntriesOKFromSet
<1>6. QueueOK(t)'
  BY <1>2 DEF IInv, QueueOK, Tick
<1>7. AwaitingOK(t)'
  BY <1>0 DEF IInv, AwaitingOK, Tick, Runs, Alive
<1>8. HolderOK' /\ ParentOK' /\ UnbornOK' /\ ResultOK'
  BY DEF IInv, HolderOK, ParentOK, UnbornOK, ResultOK, Tick, Alive, Unborn
<1>9. WakeupOK(t)'
  BY <1>0 DEF IInv, WakeupOK, Tick, Runs
<1>10. QED  BY <1>2, <1>5, <1>6, <1>7, <1>8, <1>9 DEF IInv

LEMMA ResumeJobIInv ==
  ASSUME NEW t \in Threads, NEW c \in Tasks, IInv(t), TypeOK', ResumeJob(t, c)
  PROVE  IInv(t)'
<1>f. PICK f : f = Continuation(c)
  OBVIOUS
<1>0. /\ stack \in Stacks /\ stack' \in Stacks /\ At("resume", c) \in Activation
      /\ At("check", c) \in Activation /\ f \in Activation
      /\ BecomeCall(t, At("check", c), f) /\ Runs(t, At("resume", c))
  BY <1>f, ActivationType DEF IInv, TypeOK, Stacks, ResumeJob, Points, Continuation
<1>1. /\ Busy(t) /\ Top(t) = At("resume", c) /\ status[c] = "suspended" /\ c \in started
      /\ c \notin inflight /\ Idle(t, c) /\ (awaiting[c] # None => status[awaiting[c]] = "done")
  BY <1>0, TopFacts, Fields DEF EntryOK, ResumeOK
<1>2. /\ f.co = c /\ IsActive(f)
      /\ \/ f = At("body", c) /\ awaiting[c] = None
         \/ f = In("retrieve", c, awaiting[c]) /\ awaiting[c] # None
  <2>1. CASE awaiting[c] = None
    BY <1>f, <2>1, Fields DEF Continuation, IsActive, ActivePoints
  <2>2. CASE awaiting[c] # None
    BY <1>f, <2>2, Fields DEF Continuation, IsActive, ActivePoints
  <2>3. QED  BY <2>1, <2>2
<1>3. SameKind(Top(t), At("check", c)) /\ Follows(At("check", c), f)
  BY <1>1, <1>2, Fields DEF SameKind, Follows
<1>4. /\ StackShape(t)' /\ OneActivation(t)'
      /\ \A d : Idle(t, d) /\ d # c => Idle(t, d)'
  BY <1>0, <1>1, <1>2, <1>3, BecomeCallShape DEF IInv
<1>5. Entries(t)' = Inner(t) \cup {At("check", c), f} /\ \A x : Runs(t, x)' <=> x = f
  BY <1>0, <1>1, BecomeCallSets
<1>6. EntryOK(t, At("check", c))' /\ EntryOK(t, f)'
  <2>1. EntryOK(t, At("check", c))'
    BY Fields DEF EntryOK, ResumeJob, IInv, TypeOK, Alive
  <2>2. CASE f = At("body", c) /\ awaiting[c] = None
    BY <1>1, <2>1, <2>2, Fields DEF EntryOK, BodyOK, ResumeJob, IInv, TypeOK
  <2>3. CASE f = In("retrieve", c, awaiting[c]) /\ awaiting[c] # None
    BY <1>1, <2>1, <2>3, Fields DEF EntryOK, RetrieveOK, ResumeJob, IInv, TypeOK
  <2>4. QED  BY <1>2, <2>1, <2>2, <2>3
<1>7. ASSUME NEW e \in Inner(t) PROVE EntryOK(t, e)'
  <2>1. IsActive(e) => e.co # c
    BY <1>1, InnerFacts, EntryFacts
  <2>2. QED
    BY <1>1, <2>1, InnerFacts, EntryFacts, InnerKept DEF ResumeJob, IInv, TypeOK, Activation
<1>8. EntriesOK(t)'
  BY <1>5, <1>6, <1>7, EntriesOKFromSet
<1>9. QueueOK(t)'
  BY <1>1, <1>4 DEF IInv, QueueOK, ResumeJob, TypeOK
<1>10. AwaitingOK(t)'
  <2>1. \A p, d : ~Runs(t, In("suspend", p, d)) /\ ~Runs(t, In("retrieve", p, d))
    BY <1>1, Fields DEF Runs
  <2>2. awaiting[c] # None => Runs(t, In("retrieve", c, awaiting[c]))'
    BY <1>2, <1>5 DEF ResumeJob
  <2>3. QED
    BY <1>1, <2>1, <2>2 DEF IInv, AwaitingOK, ResumeJob, TypeOK, Alive
<1>11. HolderOK' /\ ParentOK' /\ UnbornOK' /\ ResultOK'
  BY <1>1 DEF IInv, HolderOK, ParentOK, UnbornOK, ResultOK, ResumeJob, TypeOK, Alive, Unborn
<1>12. WakeupOK(t)'
  <2>1. \A p, d : p # c => ~Runs(t, At("check", d)) /\ ~Runs(t, In("await", p, d)) /\ ~Runs(t, At("resume", p))
    BY <1>1, Fields DEF Runs
  <2>2. QED
    BY <1>1, <2>1 DEF IInv, WakeupOK, ResumeJob, TypeOK
<1>13. QED  BY <1>4, <1>8, <1>9, <1>10, <1>11, <1>12 DEF IInv

LEMMA IdleFromSet ==
  ASSUME NEW t \in Threads, NEW c, \A e \in Entries(t) : IsActive(e) => e.co # c
  PROVE  Idle(t, c)
  BY DEF Idle, Entries

LEMMA CheckDoneIInv ==
  ASSUME NEW t \in Threads, NEW c \in Tasks, IInv(t), TypeOK', CheckDone(t, c)
  PROVE  IInv(t)'
<1>0. /\ stack \in Stacks /\ stack' \in Stacks /\ Runs(t, At("check", c)) /\ Alive(c)
      /\ Busy(t) /\ Top(t) = At("check", c) /\ DoneReads(c) = {status[c] = "done"}
  <2>1. stack \in Stacks /\ stack' \in Stacks /\ Runs(t, At("check", c))
    BY DEF IInv, TypeOK, Stacks, CheckDone
  <2>2. Busy(t) /\ Top(t) = At("check", c) /\ Alive(c)
    BY <2>1, TopFacts, Fields DEF EntryOK
  <2>3. QED  BY <2>1, <2>2 DEF DoneReads, Alive
<1>1. /\ \A p, d : /\ ~Runs(t, In("suspend", p, d)) /\ ~Runs(t, In("retrieve", p, d))
                   /\ ~Runs(t, In("await", p, d)) /\ ~Runs(t, At("resume", p))
                   /\ d # c => ~Runs(t, At("check", d))
  BY <1>0, Fields DEF Runs
<1>2. CASE Leave(t) /\ UNCHANGED status /\ status[c] # "done"
  <2>1. StackShape(t)' /\ OneActivation(t)' /\ \A d : Idle(t, d) => Idle(t, d)'
    BY <1>0, <1>2, LeaveShape DEF IInv
  <2>2. Entries(t)' = Inner(t)
    BY <1>0, <1>2, LeaveSets
  <2>3. EntriesOK(t)'
    <3>1. ASSUME NEW e \in Inner(t) PROVE EntryOK(t, e)'
      BY <1>0, <1>2, InnerFacts, InnerKept DEF CheckDone
    <3>2. QED  BY <2>2, <3>1, EntriesOKFromSet
  <2>4. QueueOK(t)'
    BY <1>2, <2>1 DEF IInv, QueueOK, CheckDone
  <2>5. AwaitingOK(t)'
    BY <1>1, <1>2 DEF IInv, AwaitingOK, CheckDone, Alive
  <2>6. HolderOK' /\ ParentOK' /\ UnbornOK' /\ ResultOK'
    BY <1>2 DEF IInv, HolderOK, ParentOK, UnbornOK, ResultOK, CheckDone, Alive, Unborn
  <2>7. WakeupOK(t)'
    BY <1>1, <1>2 DEF IInv, WakeupOK, CheckDone
  <2>8. QED  BY <2>1, <2>3, <2>4, <2>5, <2>6, <2>7 DEF IInv
<1>3. CASE /\ status[c] = "done" /\ ResumeParent(t, c)
           /\ status' = IF DestroyOnDone(c) THEN [status EXCEPT ![c] = "destroyed"] ELSE status
  <2>1. \A d \in Tasks : d # c => status'[d] = status[d]
    BY <1>3 DEF IInv, TypeOK
  <2>2. ASSUME NEW e \in Inner(t) PROVE EntryOK(t, e)'
    <3>1. e.co # c /\ e.co \in Tasks
      BY <1>0, <1>3, InnerFacts, EntryFacts DEF Activation
    <3>2. QED
      BY <1>0, <2>1, <3>1, InnerFacts, InnerKept DEF CheckDone
  <2>3. ASSUME NEW q \in Tasks, awaiting[q] = c PROVE parent[c] = q /\ c \notin roots
    BY <1>1, <2>3, TasksAssumption DEF IInv, AwaitingOK
  <2>4. HolderOK' /\ ParentOK' /\ UnbornOK' /\ ResultOK'
    BY <1>3, <2>1 DEF IInv, HolderOK, ParentOK, UnbornOK, ResultOK, CheckDone, Alive, Unborn,
       TypeOK, DestroyOnDone
  <2>5. CASE parent[c] = None
    <3>1. Leave(t)
      BY <1>3, <2>5 DEF ResumeParent
    <3>2. StackShape(t)' /\ OneActivation(t)' /\ \A d : Idle(t, d) => Idle(t, d)'
      BY <1>0, <3>1, LeaveShape DEF IInv
    <3>3. Entries(t)' = Inner(t)
      BY <1>0, <3>1, LeaveSets
    <3>4. EntriesOK(t)'
      BY <2>2, <3>3, EntriesOKFromSet
    <3>5. \A q \in Tasks : awaiting[q] # c
      BY <2>3, <2>5, TasksAssumption
    <3>6. QueueOK(t)'
      BY <1>3, <2>1, <3>2 DEF IInv, QueueOK, CheckDone, TypeOK
    <3>7. AwaitingOK(t)'
      BY <1>1, <1>3, <2>1, <3>5 DEF IInv, AwaitingOK, CheckDone, Alive, TypeOK
    <3>8. WakeupOK(t)'
      BY <1>1, <1>3, <2>1, <3>5 DEF IInv, WakeupOK, CheckDone, TypeOK
    <3>9. QED  BY <2>4, <3>2, <3>4, <3>6, <3>7, <3>8 DEF IInv
  <2>6. CASE parent[c] # None
    <3>1. PICK p \in Tasks : p = parent[c]
      BY <2>6 DEF IInv, TypeOK
    <3>2. awaiting[p] = c /\ c \notin roots /\ UNCHANGED status
      BY <1>0, <1>3, <2>3, <2>6, <3>1 DEF IInv, ParentOK, DestroyOnDone
    <3>3. status[p] = "suspended" /\ p \in started /\ p \notin inflight
      BY <1>1, <3>2, TasksAssumption DEF IInv, AwaitingOK, QueueOK
    <3>4. Idle(t, p)
      <4>1. ASSUME NEW e \in Entries(t), IsActive(e), e.co = p PROVE FALSE
        <5>1. e \in Inner(t)
          BY <1>0, <4>1, EntriesSplit, Fields DEF IsActive, ActivePoints
        <5>2. EntryOK(t, e) /\ e.at \in {"body", "await", "start"}
          BY <1>0, <4>1, <5>1, EntryFacts, InnerFacts DEF IsActive, ActivePoints
        <5>3. e.at = "await" /\ e.child = c
          BY <3>2, <4>1, <5>2, TasksAssumption DEF EntryOK, BodyOK, StartOK, AwaitOK
        <5>4. status[c] \in {"running", "suspended"}
          BY <1>0, <5>1, <5>3, InnerFacts
        <5>5. QED  BY <1>3, <5>4
      <4>2. QED  BY <4>1, IdleFromSet
    <3>5. At("resume", p) \in Activation /\ Become(t, At("resume", p))
          /\ SameKind(Top(t), At("resume", p))
      BY <1>0, <1>3, <2>6, <3>1, ActivationType, Fields DEF ResumeParent, Points, SameKind
    <3>6. StackShape(t)' /\ OneActivation(t)' /\ \A d : Idle(t, d) => Idle(t, d)'
      BY <1>0, <3>5, BecomeShape DEF IInv
    <3>7. /\ Entries(t)' = Inner(t) \cup {At("resume", p)}
          /\ \A x : Runs(t, x)' <=> x = At("resume", p)
      BY <1>0, <3>5, BecomeSets
    <3>8. EntryOK(t, At("resume", p))'
      BY <1>3, <3>2, <3>3, <3>4, <3>6, Fields DEF EntryOK, ResumeOK, CheckDone
    <3>9. EntriesOK(t)'
      BY <2>2, <3>7, <3>8, EntriesOKFromSet
    <3>10. QueueOK(t)'
      BY <3>2, <3>6 DEF IInv, QueueOK, CheckDone
    <3>11. AwaitingOK(t)'
      BY <1>1, <3>2 DEF IInv, AwaitingOK, CheckDone, Alive
    <3>12. WakeupOK(t)'
      <4>1. \A q \in Tasks : awaiting[q] = c => q = p
        BY <2>3, <3>1
      <4>2. QED  BY <1>1, <3>2, <3>7, <4>1 DEF IInv, WakeupOK, CheckDone
    <3>13. QED  BY <2>4, <3>6, <3>9, <3>10, <3>11, <3>12 DEF IInv
  <2>7. QED  BY <2>5, <2>6
<1>4. QED  BY <1>0, <1>2, <1>3 DEF CheckDone

\* An activation is determined by its fields.
LEMMA ActivationEq ==
  ASSUME NEW x \in Activation
  PROVE  x = In(x.at, x.co, x.child) /\ (x.child = None => x = At(x.at, x.co))
  BY DEF Activation, In, At

(***************************************************************************)
(* The coroutine c stops running and control returns to whoever resumed    *)
(* it: the part common to AwaitOp, End, AwaitSuspendStarted and to an      *)
(* AwaitReturn that leaves.                                                *)
(***************************************************************************)
LEMMA LeaveIInv ==
  ASSUME NEW t \in Threads, NEW c \in Tasks, IInv(t), TypeOK',
         Busy(t), Leave(t), IsActive(Top(t)), Top(t).co = c,
         \A d \in Tasks : d # c => status'[d] = status[d],
         status'[c] \notin {"unborn", "destroyed"},
         UNCHANGED <<started, awaiting, holder>>
  PROVE  /\ StackShape(t)' /\ OneActivation(t)' /\ EntriesOK(t)'
         /\ Idle(t, c)' /\ \A d : Idle(t, d) => Idle(t, d)'
         /\ \E x \in Inner(t) : Follows(x, Top(t)) /\ Runs(t, x)'
<1>0. stack \in Stacks /\ stack' \in Stacks
  BY DEF IInv, TypeOK, Stacks
<1>1. /\ StackShape(t)' /\ OneActivation(t)' /\ \A d : Idle(t, d) => Idle(t, d)'
      /\ Idle(t, c)'
  BY <1>0, LeaveShape DEF IInv
<1>2. Entries(t)' = Inner(t)
  BY <1>0, LeaveSets
<1>3. ASSUME NEW e \in Inner(t) PROVE EntryOK(t, e)'
  <2>1. e.co \in Tasks /\ status[e.co] \in {"running", "suspended"} /\ (IsActive(e) => e.co # c)
    BY InnerFacts, EntryFacts DEF Activation
  <2>2. QED  BY <2>1, InnerKept
<1>4. EntriesOK(t)'
  BY <1>2, <1>3, EntriesOKFromSet
<1>5. \E x \in Inner(t) : Follows(x, Top(t)) /\ Runs(t, x)'
  BY <1>0, LeaveTop DEF IInv
<1>6. QED  BY <1>1, <1>4, <1>5

LEMMA AwaitOpIInv ==
  ASSUME NEW t \in Threads, NEW c \in Tasks, IInv(t), TypeOK', AwaitOp(t, c)
  PROVE  IInv(t)'
<1>0. /\ Runs(t, At("body", c)) /\ Busy(t) /\ Top(t) = At("body", c)
      /\ status[c] = "running" /\ c \in started /\ awaiting[c] = None
  BY TopFacts, Fields DEF AwaitOp, EntryOK, BodyOK
<1>s. \A d \in Tasks : status'[d] = IF d = c THEN "suspended" ELSE status[d]
  BY DEF AwaitOp, IInv, TypeOK
<1>1. /\ StackShape(t)' /\ OneActivation(t)' /\ EntriesOK(t)'
      /\ Idle(t, c)' /\ \A d : Idle(t, d) => Idle(t, d)'
  BY <1>0, <1>s, Fields, LeaveIInv DEF AwaitOp, IsActive, ActivePoints
<1>2. \A p, d : /\ ~Runs(t, In("suspend", p, d)) /\ ~Runs(t, In("retrieve", p, d))
                /\ ~Runs(t, In("await", p, d)) /\ ~Runs(t, At("resume", p))
                /\ ~Runs(t, At("check", d))
  BY <1>0, Fields DEF Runs
<1>3. QueueOK(t)'
  BY <1>0, <1>1 DEF IInv, QueueOK, AwaitOp, TypeOK
<1>4. AwaitingOK(t)'
  BY <1>0, <1>2 DEF IInv, AwaitingOK, AwaitOp, TypeOK, Alive
<1>5. HolderOK' /\ ParentOK' /\ UnbornOK' /\ ResultOK'
  BY <1>0 DEF IInv, HolderOK, ParentOK, UnbornOK, ResultOK, AwaitOp, TypeOK, Alive, Unborn
<1>6. WakeupOK(t)'
  BY <1>0, <1>2 DEF IInv, WakeupOK, AwaitOp, TypeOK
<1>7. QED  BY <1>1, <1>3, <1>4, <1>5, <1>6 DEF IInv

\* A coroutine ends; what it produces is decided by Return or Throw.
LEMMA EndIInv ==
  ASSUME NEW t \in Threads, NEW c \in Tasks, IInv(t), TypeOK', End(t, c),
         result \subseteq result', c \in ValueTasks => c \in result'
  PROVE  IInv(t)'
<1>0. /\ Runs(t, At("body", c)) /\ Busy(t) /\ Top(t) = At("body", c)
      /\ status[c] = "running" /\ c \in started /\ awaiting[c] = None
  BY TopFacts, Fields DEF End, EntryOK, BodyOK
<1>s. \A d \in Tasks : status'[d] = IF d = c THEN "done" ELSE status[d]
  BY DEF End, IInv, TypeOK
<1>1. /\ StackShape(t)' /\ OneActivation(t)' /\ EntriesOK(t)'
      /\ Idle(t, c)' /\ \A d : Idle(t, d) => Idle(t, d)'
      /\ \E x \in Inner(t) : Follows(x, Top(t)) /\ Runs(t, x)'
  BY <1>0, <1>s, Fields, LeaveIInv DEF End, IsActive, ActivePoints
<1>2. \A p, d : /\ ~Runs(t, In("suspend", p, d)) /\ ~Runs(t, In("retrieve", p, d))
                /\ ~Runs(t, In("await", p, d)) /\ ~Runs(t, At("resume", p))
                /\ ~Runs(t, At("check", d))
  BY <1>0, Fields DEF Runs
<1>3. QueueOK(t)'
  BY <1>0, <1>1, <1>s DEF IInv, QueueOK, End, TypeOK
<1>4. AwaitingOK(t)'
  BY <1>0, <1>2, <1>s, TasksAssumption DEF IInv, AwaitingOK, End, TypeOK, Alive
<1>5. HolderOK' /\ ParentOK' /\ UnbornOK' /\ ResultOK'
  <2>1. \A d \in Tasks : Alive(d) => Alive(d)'
    BY <1>s DEF Alive
  <2>2. \A d \in Tasks : Alive(d)' => Alive(d)
    BY <1>0, <1>s DEF Alive
  <2>3. HolderOK' /\ ParentOK' /\ UnbornOK'
    BY <1>0, <1>s, <2>1, <2>2 DEF IInv, HolderOK, ParentOK, UnbornOK, End, TypeOK, Unborn
  <2>4. ResultOK'
    BY <1>s, TasksAssumption DEF IInv, ResultOK
  <2>5. QED  BY <2>3, <2>4
<1>6. WakeupOK(t)'
  <2> SUFFICES ASSUME NEW p \in Tasks, awaiting[p] # None, status'[p] = "suspended",
                      status'[awaiting[p]] = "done"
               PROVE  Runs(t, At("check", awaiting[p]))' \/ Runs(t, In("await", p, awaiting[p]))'
    BY DEF WakeupOK, End
  <2>1. awaiting[p] = c /\ holder[c] = None /\ \A q \in Tasks : awaiting[q] = c => q = p
    <3>1. awaiting[p] \in Tasks /\ p # c /\ status[p] = "suspended"
      BY <1>0, <1>s DEF IInv, TypeOK
    <3>2. awaiting[p] = c
      BY <1>2, <1>s, <3>1 DEF IInv, WakeupOK
    <3>3. QED  BY <3>2 DEF IInv, AwaitingOK
  <2>2. PICK x \in Inner(t) : Follows(x, Top(t)) /\ Runs(t, x)'
    BY <1>1
  <2>3. x \in Activation /\ EntryOK(t, x)
    BY <1>0, <2>2, InnerFacts, EntryFacts
  <2>4. CASE x.at = "check"
    <3>1. x = At("check", c)
      BY <1>0, <2>2, <2>3, <2>4, ActivationEq, Fields DEF Follows, EntryOK
    <3>2. QED  BY <2>1, <2>2, <3>1 DEF End
  <2>5. CASE x.at = "await"
    <3>1. x.child = c /\ awaiting[x.co] = c /\ x.co \in Tasks
      BY <1>0, <2>2, <2>3, <2>5, Fields DEF Follows, EntryOK, AwaitOK, Activation
    <3>2. x = In("await", p, c)
      BY <2>1, <2>3, <2>5, <3>1, ActivationEq
    <3>3. QED  BY <2>1, <2>2, <3>2 DEF End
  <2>6. CASE x.at = "start"
    BY <1>0, <2>1, <2>2, <2>3, <2>6, Fields, TasksAssumption DEF Follows, EntryOK, StartOK, Activation
  <2>7. QED
    BY <1>0, <2>2, <2>4, <2>5, <2>6, Fields DEF Follows
<1>7. QED  BY <1>1, <1>3, <1>4, <1>5, <1>6 DEF IInv

LEMMA AwaitTaskIInv ==
  ASSUME NEW t \in Threads, NEW p \in Tasks, NEW c \in Tasks, IInv(t), TypeOK',
         AwaitTask(t, p, c)
  PROVE  IInv(t)'
<1>0. /\ Runs(t, At("body", p)) /\ Busy(t) /\ Top(t) = At("body", p)
      /\ status[p] = "running" /\ p \in started /\ awaiting[p] = None
      /\ status[c] = "unborn" /\ p # c
      /\ stack \in Stacks /\ stack' \in Stacks /\ In("suspend", p, c) \in Activation
  <2>1. Runs(t, At("body", p)) /\ status[c] = "unborn"
    BY DEF AwaitTask, Unborn
  <2>2. /\ Busy(t) /\ Top(t) = At("body", p)
        /\ status[p] = "running" /\ p \in started /\ awaiting[p] = None
    BY <2>1, TopFacts, Fields DEF EntryOK, BodyOK
  <2>3. stack \in Stacks /\ stack' \in Stacks /\ In("suspend", p, c) \in Activation
    BY ActivationType DEF Points, IInv, TypeOK, Stacks
  <2>4. QED  BY <2>1, <2>2, <2>3
<1>1. SameKind(Top(t), In("suspend", p, c))
  BY <1>0, Fields DEF SameKind, IsActive, ActivePoints
<1>2. StackShape(t)' /\ OneActivation(t)' /\ \A d : Idle(t, d) => Idle(t, d)'
  BY <1>0, <1>1, BecomeShape DEF IInv, AwaitTask
<1>3. /\ Entries(t)' = Inner(t) \cup {In("suspend", p, c)}
      /\ \A x : Runs(t, x)' <=> x = In("suspend", p, c)
  BY <1>0, BecomeSets DEF AwaitTask
<1>s. /\ \A d \in Tasks : status'[d] = IF d = p \/ d = c THEN "suspended" ELSE status[d]
      /\ \A d \in Tasks : awaiting'[d] = IF d = p THEN c ELSE awaiting[d]
      /\ started' = started /\ roots' = roots /\ parent' = parent /\ result' = result
      /\ holder' = holder /\ inflight' = inflight
  BY DEF AwaitTask, IInv, TypeOK
<1>4. EntryOK(t, In("suspend", p, c))'
  BY <1>0, <1>s, TasksAssumption, Fields DEF EntryOK, SuspendOK
<1>5. ASSUME NEW e \in Inner(t) PROVE EntryOK(t, e)'
  <2>1. /\ e.co \in Tasks /\ status[e.co] \in {"running", "suspended"} /\ e.co # c
        /\ IsActive(e) => e.co # p
    BY <1>0, InnerFacts, EntryFacts, Fields DEF Activation, IsActive, ActivePoints
  <2>2. QED  BY <1>0, <1>s, <2>1, InnerKept
<1>6. EntriesOK(t)'
  BY <1>3, <1>4, <1>5, EntriesOKFromSet
<1>7. \A x, d : /\ ~Runs(t, In("suspend", x, d)) /\ ~Runs(t, In("retrieve", x, d))
                /\ ~Runs(t, In("await", x, d)) /\ ~Runs(t, At("resume", x))
                /\ ~Runs(t, At("check", d))
  BY <1>0, Fields DEF Runs
<1>8. /\ holder[c] = None /\ c \notin roots /\ parent[c] = None
      /\ \A q \in Tasks : awaiting[q] # c
  BY <1>0, TasksAssumption DEF IInv, HolderOK, UnbornOK, ParentOK, AwaitingOK, Alive, Unborn
<1>9. QueueOK(t)'
  BY <1>0, <1>2, <1>s DEF IInv, QueueOK, TypeOK
<1>10. AwaitingOK(t)'
  <2>1. Runs(t, In("suspend", p, c))'
    BY <1>3
  <2>2. ASSUME NEW q \in Tasks, q # p, awaiting[q] # None
        PROVE  /\ awaiting[q] \in Tasks /\ q \in started /\ status[q] = "suspended"
               /\ Alive(awaiting[q]) /\ awaiting[q] \notin roots /\ holder[awaiting[q]] = None
               /\ \A r \in Tasks : awaiting[r] = awaiting[q] => r = q
               /\ parent[awaiting[q]] = q
    <3>1. awaiting[q] \in Tasks
      BY <2>2 DEF IInv, TypeOK
    <3>2. /\ q \in started /\ status[q] \in {"suspended", "running"}
          /\ Alive(awaiting[q]) /\ awaiting[q] \notin roots /\ holder[awaiting[q]] = None
          /\ \A r \in Tasks : awaiting[r] = awaiting[q] => r = q
      BY <2>2 DEF IInv, AwaitingOK
    <3>3. ~Runs(t, In("retrieve", q, awaiting[q])) /\ ~Runs(t, In("suspend", q, awaiting[q]))
      BY <1>7
    <3>4. status[q] # "running" /\ parent[awaiting[q]] = q
      BY <2>2, <3>3 DEF IInv, AwaitingOK
    <3>5. QED  BY <3>1, <3>2, <3>4
  <2>3. QED
    BY <1>0, <1>8, <1>s, <2>1, <2>2, TasksAssumption DEF AwaitingOK, Alive
<1>11. HolderOK' /\ UnbornOK' /\ ResultOK'
  BY <1>0, <1>s, <1>8, TasksAssumption DEF IInv, HolderOK, UnbornOK, ResultOK, TypeOK, Alive, Unborn
<1>12. ParentOK'
  <2>1. \A d \in Tasks : /\ d # c => (Alive(d)' <=> Alive(d)) /\ (Unborn(d)' => Unborn(d))
                         /\ parent'[d] = parent[d]
    BY <1>0, <1>s DEF Alive, Unborn
  <2>2. ~Unborn(c)' /\ \A d \in Tasks : parent[d] # None => parent[d] \in Tasks /\ d # c
    BY <1>0, <1>s, <1>8 DEF Unborn, IInv, TypeOK
  <2>3. \A d \in Tasks : Alive(d) /\ parent[d] # None => parent[d] # p /\ awaiting[parent[d]] = d
    BY <1>0, TasksAssumption DEF IInv, ParentOK
  <2>4. QED  BY <1>s, <1>8, <2>1, <2>2, <2>3 DEF IInv, ParentOK
<1>13. WakeupOK(t)'
  <2> SUFFICES ASSUME NEW q \in Tasks, awaiting'[q] # None, status'[q] = "suspended",
                      status'[awaiting'[q]] = "done"
               PROVE  FALSE
    BY DEF WakeupOK
  <2>1. q # p
    BY <1>0, <1>s
  <2>2. awaiting[q] \in Tasks /\ awaiting[q] # None /\ status[awaiting[q]] = "done"
    BY <1>s, <2>1 DEF IInv, TypeOK
  <2>3. status[q] = "suspended"
    BY <1>0, <1>s, <1>8, <2>1, <2>2 DEF IInv, AwaitingOK
  <2>4. QED  BY <1>7, <2>2, <2>3 DEF IInv, WakeupOK
<1>14. QED  BY <1>2, <1>6, <1>9, <1>10, <1>11, <1>12, <1>13 DEF IInv

LEMMA JoinTaskIInv ==
  ASSUME NEW t \in Threads, NEW p \in Tasks, NEW c \in Tasks, IInv(t), TypeOK',
         JoinTask(t, p, c)
  PROVE  IInv(t)'
<1>0. /\ Runs(t, At("body", p)) /\ Busy(t) /\ Top(t) = At("body", p)
      /\ status[p] = "running" /\ p \in started /\ awaiting[p] = None /\ holder[c] = p
      /\ stack \in Stacks /\ stack' \in Stacks
  <2>1. Runs(t, At("body", p)) /\ holder[c] = p
    BY DEF JoinTask
  <2>2. /\ Busy(t) /\ Top(t) = At("body", p)
        /\ status[p] = "running" /\ p \in started /\ awaiting[p] = None
    BY <2>1, TopFacts, Fields DEF EntryOK, BodyOK
  <2>3. stack \in Stacks /\ stack' \in Stacks
    BY DEF IInv, TypeOK, Stacks
  <2>4. QED  BY <2>1, <2>2, <2>3
<1>1. /\ Alive(c) /\ c \in started /\ c \notin roots
      /\ \A q \in Tasks : awaiting[q] # c
  BY <1>0, TasksAssumption DEF IInv, HolderOK, AwaitingOK
<1>s. /\ \A d \in Tasks : holder'[d] = IF d = c THEN None ELSE holder[d]
      /\ \A d \in Tasks : awaiting'[d] = IF d = p THEN c ELSE awaiting[d]
      /\ started' = started /\ roots' = roots /\ parent' = parent /\ result' = result
      /\ inflight' = inflight
  BY DEF JoinTask, IInv, TypeOK
<1>2. PICK f \in Activation :
        /\ Become(t, f)
        /\ \/ /\ f = In("retrieve", p, c) /\ status[c] = "done"
              /\ \A d \in Tasks : status'[d] = status[d]
           \/ /\ f = In("suspend", p, c) /\ status[c] # "done"
              /\ \A d \in Tasks : status'[d] = IF d = p THEN "suspended" ELSE status[d]
  <2>1. DoneReads(c) = {status[c] = "done"}
    BY <1>1 DEF DoneReads, Alive
  <2>2. In("retrieve", p, c) \in Activation /\ In("suspend", p, c) \in Activation
    BY ActivationType DEF Points
  <2>3. \/ status[c] = "done" /\ Become(t, In("retrieve", p, c)) /\ status' = status
        \/ /\ status[c] # "done" /\ Become(t, In("suspend", p, c))
           /\ status' = [status EXCEPT ![p] = "suspended"]
    BY <2>1 DEF JoinTask
  <2>4. QED  BY <2>2, <2>3 DEF IInv, TypeOK
<1>3. SameKind(Top(t), f)
  BY <1>0, <1>2, Fields DEF SameKind, IsActive, ActivePoints
<1>4. StackShape(t)' /\ OneActivation(t)' /\ \A d : Idle(t, d) => Idle(t, d)'
  BY <1>0, <1>2, <1>3, BecomeShape DEF IInv
<1>5. Entries(t)' = Inner(t) \cup {f} /\ \A x : Runs(t, x)' <=> x = f
  BY <1>0, <1>2, BecomeSets
<1>6. EntryOK(t, f)'
  <2>1. CASE f = In("retrieve", p, c) /\ status[c] = "done" /\ \A d \in Tasks : status'[d] = status[d]
    BY <1>0, <1>s, <2>1, TasksAssumption, Fields DEF EntryOK, RetrieveOK
  <2>2. CASE /\ f = In("suspend", p, c) /\ status[c] # "done"
             /\ \A d \in Tasks : status'[d] = IF d = p THEN "suspended" ELSE status[d]
    BY <1>0, <1>s, <2>2, TasksAssumption, Fields DEF EntryOK, SuspendOK
  <2>3. QED  BY <1>2, <2>1, <2>2
<1>7. ASSUME NEW e \in Inner(t) PROVE EntryOK(t, e)'
  <2>1. /\ e.co \in Tasks /\ e.child \in Tasks \cup {None}
        /\ status[e.co] \in {"running", "suspended"} /\ EntryOK(t, e)
        /\ IsActive(e) => e.co # p
    BY <1>0, InnerFacts, EntryFacts, Fields DEF Activation, IsActive, ActivePoints
  <2>2. e.at = "start" => e.child \in Tasks /\ e.child # c
    BY <1>0, <2>1 DEF EntryOK, StartOK, IsActive, ActivePoints
  <2>3. status'[e.co] \notin {"unborn", "destroyed"} /\ (e.co # p => status'[e.co] = status[e.co])
    BY <1>2, <2>1
  <2>4. QED  BY <1>0, <1>s, <2>1, <2>2, <2>3, InnerKept
<1>8. EntriesOK(t)'
  BY <1>5, <1>6, <1>7, EntriesOKFromSet
<1>9. \A x, d : /\ ~Runs(t, In("suspend", x, d)) /\ ~Runs(t, In("retrieve", x, d))
                /\ ~Runs(t, In("await", x, d)) /\ ~Runs(t, At("resume", x))
                /\ ~Runs(t, At("check", d))
  BY <1>0, Fields DEF Runs
<1>10. /\ \A d \in Tasks : d # p => status'[d] = status[d]
       /\ status'[p] \in {"running", "suspended"}
       /\ status'[p] = "running" => f = In("retrieve", p, c)
       /\ f \in {In("suspend", p, c), In("retrieve", p, c)}
  BY <1>0, <1>2
<1>11. QueueOK(t)'
  BY <1>0, <1>4, <1>10, <1>s DEF IInv, QueueOK, TypeOK
<1>12. AwaitingOK(t)'
  <2>1. ASSUME NEW q \in Tasks, q # p, awaiting[q] # None
        PROVE  /\ awaiting[q] \in Tasks /\ q \in started /\ status[q] = "suspended"
               /\ Alive(awaiting[q]) /\ awaiting[q] \notin roots /\ holder[awaiting[q]] = None
               /\ \A r \in Tasks : awaiting[r] = awaiting[q] => r = q
               /\ parent[awaiting[q]] = q
    BY <1>9, <2>1 DEF IInv, AwaitingOK, TypeOK
  <2>2. \A d \in Tasks : Alive(d) => Alive(d)'
    BY <1>10 DEF Alive
  <2>3. /\ status'[p] = "running" => Runs(t, In("retrieve", p, c))'
        /\ Runs(t, In("suspend", p, c))' \/ Runs(t, In("retrieve", p, c))'
    BY <1>5, <1>10
  <2>4. ASSUME NEW q \in Tasks, awaiting'[q] # None
        PROVE /\ q \in started' /\ status'[q] \in {"suspended", "running"}
              /\ Alive(awaiting[q])' /\ awaiting'[q] \notin roots'
              /\ holder'[awaiting'[q]] = None
              /\ \A r \in Tasks : awaiting'[r] = awaiting'[q] => r = q
              /\ status'[q] = "running" => Runs(t, In("retrieve", q, awaiting[q]))'
              /\ \/ parent'[awaiting'[q]] = q
                 \/ Runs(t, In("suspend", q, awaiting[q]))'
                 \/ Runs(t, In("retrieve", q, awaiting[q]))'
    <3>1. CASE q = p
      <4>1. awaiting'[q] = c
        BY <1>s, <3>1
      <4>2. QED  BY <1>0, <1>1, <1>10, <1>s, <2>2, <2>3, <3>1, <4>1
    <3>2. CASE q # p
      <4>1. awaiting'[q] = awaiting[q] /\ status'[q] = status[q]
        BY <1>10, <1>s, <3>2
      <4>2. QED  BY <1>1, <1>s, <2>1, <2>2, <2>4, <3>2, <4>1
    <3>3. QED  BY <3>1, <3>2
  <2>5. QED  BY <2>4 DEF AwaitingOK
<1>13. HolderOK' /\ UnbornOK' /\ ResultOK'
  <2>1. \A d \in Tasks : /\ Alive(d) => Alive(d)'
                         /\ status[d] \in {"running", "suspended"} => status'[d] \in {"running", "suspended"}
                         /\ status'[d] \in {"unborn", "done"} => status'[d] = status[d]
    BY <1>0, <1>10 DEF Alive
  <2>2. \A d \in Tasks : holder'[d] # None => holder'[d] = holder[d] /\ holder[d] \in Tasks
    BY <1>s DEF IInv, TypeOK
  <2>3. HolderOK'
    BY <1>s, <2>1, <2>2 DEF IInv, HolderOK
  <2>4. UnbornOK' /\ ResultOK'
    BY <1>s, <2>1, TasksAssumption DEF IInv, UnbornOK, ResultOK, Unborn
  <2>5. QED  BY <2>3, <2>4
<1>14. ParentOK'
  BY <1>0, <1>10, <1>s, TasksAssumption DEF IInv, ParentOK, TypeOK, Alive, Unborn
<1>15. WakeupOK(t)'
  <2> SUFFICES ASSUME NEW q \in Tasks, awaiting'[q] # None, status'[q] = "suspended",
                      status'[awaiting'[q]] = "done"
               PROVE  FALSE
    BY DEF WakeupOK
  <2>1. CASE q = p
    BY <1>0, <1>2, <1>s, <2>1
  <2>2. CASE q # p
    <3>1. awaiting[q] \in Tasks /\ awaiting[q] # None /\ status[awaiting[q]] = "done"
      BY <1>10, <1>s, <2>2 DEF IInv, TypeOK
    <3>2. QED  BY <1>9, <1>10, <2>2, <3>1 DEF IInv, WakeupOK
  <2>3. QED  BY <2>1, <2>2
<1>16. QED  BY <1>4, <1>8, <1>11, <1>12, <1>13, <1>14, <1>15 DEF IInv

LEMMA AwaitSuspendFreshIInv ==
  ASSUME NEW t \in Threads, NEW p \in Tasks, NEW c \in Tasks, IInv(t), TypeOK',
         AwaitSuspendFresh(t, p, c)
  PROVE  IInv(t)'
<1>0. /\ Runs(t, In("suspend", p, c)) /\ Busy(t) /\ Top(t) = In("suspend", p, c)
      /\ status[p] = "suspended" /\ p \in started /\ awaiting[p] = c /\ c \notin started
      /\ stack \in Stacks /\ stack' \in Stacks
      /\ In("await", p, c) \in Activation /\ At("body", c) \in Activation
  <2>1. Runs(t, In("suspend", p, c)) /\ c \notin started
    BY DEF AwaitSuspendFresh
  <2>2. /\ Busy(t) /\ Top(t) = In("suspend", p, c)
        /\ status[p] = "suspended" /\ p \in started /\ awaiting[p] = c
    BY <2>1, TopFacts, Fields DEF EntryOK, SuspendOK
  <2>3. /\ stack \in Stacks /\ stack' \in Stacks
        /\ In("await", p, c) \in Activation /\ At("body", c) \in Activation
    BY ActivationType DEF IInv, TypeOK, Stacks, Points
  <2>4. QED  BY <2>1, <2>2, <2>3
<1>1. /\ p # c /\ Alive(c) /\ c \notin roots /\ Idle(t, c) /\ c \notin inflight
      /\ awaiting[c] = None /\ holder[c] = None
      /\ \A q \in Tasks : awaiting[q] = c => q = p
  <2>1. Idle(t, c)
    BY <1>0, EntryFacts, IdleFromSet
  <2>2. QED  BY <1>0, <2>1, TasksAssumption DEF IInv, AwaitingOK, QueueOK
<1>s. /\ \A d \in Tasks : status'[d] = IF d = c THEN "running" ELSE status[d]
      /\ \A d \in Tasks : parent'[d] = IF d = c THEN p ELSE parent[d]
      /\ started' = started \cup {c} /\ roots' = roots /\ result' = result
      /\ awaiting' = awaiting /\ holder' = holder /\ inflight' = inflight
  BY DEF AwaitSuspendFresh, SetParent, IInv, TypeOK
<1>2. /\ SameKind(Top(t), In("await", p, c)) /\ Follows(In("await", p, c), At("body", c))
      /\ IsActive(At("body", c)) /\ At("body", c).co = c
  BY <1>0, Fields DEF SameKind, Follows, IsActive, ActivePoints
<1>3. /\ StackShape(t)' /\ OneActivation(t)'
      /\ \A d : Idle(t, d) /\ d # c => Idle(t, d)'
  BY <1>0, <1>1, <1>2, BecomeCallShape DEF IInv, AwaitSuspendFresh
<1>4. /\ Entries(t)' = Inner(t) \cup {In("await", p, c), At("body", c)}
      /\ \A x : Runs(t, x)' <=> x = At("body", c)
  BY <1>0, BecomeCallSets DEF AwaitSuspendFresh
<1>5. EntryOK(t, In("await", p, c))' /\ EntryOK(t, At("body", c))'
  <2>1. EntryOK(t, In("await", p, c))'
    BY <1>0, <1>1, <1>s, TasksAssumption, Fields DEF EntryOK, AwaitOK
  <2>2. EntryOK(t, At("body", c))'
    BY <1>0, <1>1, <1>s, Fields DEF EntryOK, BodyOK
  <2>3. QED  BY <2>1, <2>2
<1>6. ASSUME NEW e \in Inner(t) PROVE EntryOK(t, e)'
  <2>1. e.co \in Tasks /\ e.co # c /\ status[e.co] \in {"running", "suspended"}
    BY <1>0, InnerFacts, EntryFacts DEF Activation
  <2>2. QED  BY <1>0, <1>s, <2>1, InnerKept
<1>7. EntriesOK(t)'
  BY <1>4, <1>5, <1>6, EntriesOKFromSet
<1>8. \A x, d : /\ x # p => ~Runs(t, In("suspend", x, d))
                /\ ~Runs(t, In("retrieve", x, d))
                /\ ~Runs(t, In("await", x, d)) /\ ~Runs(t, At("resume", x))
                /\ ~Runs(t, At("check", d))
  BY <1>0, Fields DEF Runs
<1>9. QueueOK(t)'
  BY <1>0, <1>1, <1>3, <1>s DEF IInv, QueueOK, TypeOK
<1>10. AwaitingOK(t)'
  <2>1. \A d \in Tasks : Alive(d) => Alive(d)'
    BY <1>s DEF Alive
  <2>2. \A q \in Tasks : awaiting[q] # None => awaiting[q] \in Tasks /\ q # c /\ status[q] = "suspended"
    BY <1>1, <1>8 DEF IInv, AwaitingOK, TypeOK
  <2>3. QED
    BY <1>0, <1>1, <1>8, <1>s, <2>1, <2>2 DEF IInv, AwaitingOK
<1>11. HolderOK' /\ UnbornOK' /\ ResultOK'
  <2>1. \A d \in Tasks : /\ Alive(d) => Alive(d)'
                         /\ status[d] \in {"running", "suspended"} => status'[d] \in {"running", "suspended"}
                         /\ status'[d] \in {"unborn", "done"} => status'[d] = status[d]
                         /\ status'[d] = "unborn" => d # c
    BY <1>0, <1>s DEF Alive
  <2>2. \A d \in Tasks : holder[d] # None => holder[d] \in Tasks
    BY DEF IInv, TypeOK
  <2>3. HolderOK'
    BY <1>s, <2>1, <2>2 DEF IInv, HolderOK
  <2>4. UnbornOK' /\ ResultOK'
    BY <1>s, <2>1, TasksAssumption DEF IInv, UnbornOK, ResultOK, Unborn
  <2>5. QED  BY <2>3, <2>4
<1>12. ParentOK'
  BY <1>0, <1>1, <1>s, TasksAssumption DEF IInv, ParentOK, TypeOK, Alive, Unborn
<1>13. WakeupOK(t)'
  BY <1>0, <1>1, <1>8, <1>s DEF IInv, WakeupOK, TypeOK
<1>14. QED  BY <1>3, <1>7, <1>9, <1>10, <1>11, <1>12, <1>13 DEF IInv

LEMMA AwaitSuspendStartedIInv ==
  ASSUME NEW t \in Threads, NEW p \in Tasks, NEW c \in Tasks, IInv(t), TypeOK',
         AwaitSuspendStarted(t, p, c)
  PROVE  IInv(t)'
<1>0. /\ Runs(t, In("suspend", p, c)) /\ Busy(t) /\ Top(t) = In("suspend", p, c)
      /\ status[p] = "suspended" /\ p \in started /\ awaiting[p] = c /\ status[c] # "done"
  BY TopFacts, Fields DEF AwaitSuspendStarted, EntryOK, SuspendOK
<1>1. Alive(c) /\ c \notin roots /\ \A q \in Tasks : awaiting[q] = c => q = p
  BY <1>0, TasksAssumption DEF IInv, AwaitingOK
<1>s. /\ \A d \in Tasks : parent'[d] = IF d = c THEN p ELSE parent[d]
      /\ status' = status /\ started' = started /\ roots' = roots /\ result' = result
      /\ awaiting' = awaiting /\ holder' = holder /\ inflight' = inflight
  BY DEF AwaitSuspendStarted, SetParent, IInv, TypeOK
<1>2. /\ StackShape(t)' /\ OneActivation(t)' /\ EntriesOK(t)'
      /\ Idle(t, p)' /\ \A d : Idle(t, d) => Idle(t, d)'
  BY <1>0, <1>s, Fields, LeaveIInv DEF AwaitSuspendStarted, IsActive, ActivePoints
<1>3. \A x, d : /\ x # p => ~Runs(t, In("suspend", x, d))
                /\ ~Runs(t, In("retrieve", x, d))
                /\ ~Runs(t, In("await", x, d)) /\ ~Runs(t, At("resume", x))
                /\ ~Runs(t, At("check", d))
  BY <1>0, Fields DEF Runs
<1>4. QueueOK(t)'
  BY <1>2, <1>s DEF IInv, QueueOK
<1>5. AwaitingOK(t)'
  <2>1. \A q \in Tasks : awaiting[q] # None => awaiting[q] \in Tasks /\ status[q] = "suspended"
    BY <1>3 DEF IInv, AwaitingOK, TypeOK
  <2>2. QED
    BY <1>0, <1>1, <1>3, <1>s, <2>1 DEF IInv, AwaitingOK, Alive
<1>6. HolderOK' /\ UnbornOK' /\ ResultOK'
  BY <1>s DEF IInv, HolderOK, UnbornOK, ResultOK, Alive, Unborn
<1>7. ParentOK'
  BY <1>0, <1>1, <1>s, TasksAssumption DEF IInv, ParentOK, TypeOK, Alive, Unborn
<1>8. WakeupOK(t)'
  BY <1>0, <1>1, <1>3, <1>s DEF IInv, WakeupOK, TypeOK
<1>9. QED  BY <1>2, <1>4, <1>5, <1>6, <1>7, <1>8 DEF IInv

LEMMA AwaitReturnIInv ==
  ASSUME NEW t \in Threads, NEW p \in Tasks, NEW c \in Tasks, IInv(t), TypeOK',
         AwaitReturn(t, p, c)
  PROVE  IInv(t)'
<1>0. /\ Runs(t, In("await", p, c)) /\ Busy(t) /\ Top(t) = In("await", p, c)
      /\ status[p] = "suspended" /\ p \in started /\ awaiting[p] = c
  BY TopFacts, Fields DEF AwaitReturn, EntryOK, AwaitOK
<1>1. Alive(c) /\ c \notin roots /\ \A q \in Tasks : awaiting[q] = c => q = p
  BY <1>0, TasksAssumption DEF IInv, AwaitingOK
<1>s. /\ started' = started /\ roots' = roots /\ result' = result /\ parent' = parent
      /\ awaiting' = awaiting /\ holder' = holder /\ inflight' = inflight
      /\ stack \in Stacks /\ stack' \in Stacks
  BY DEF AwaitReturn, IInv, TypeOK, Stacks
<1>2. \/ status[c] # "done" /\ Leave(t) /\ status' = status
      \/ /\ status[c] = "done" /\ Become(t, In("retrieve", p, c))
         /\ \A d \in Tasks : status'[d] = IF d = p THEN "running" ELSE status[d]
  <2>1. AwaitSuspends(c) = {~(status[c] = "done")}
    BY <1>1 DEF AwaitSuspends, DoneReads, Alive
  <2>2. \/ status[c] # "done" /\ Leave(t) /\ status' = status
        \/ /\ status[c] = "done" /\ Become(t, In("retrieve", p, c))
           /\ status' = [status EXCEPT ![p] = "running"]
    BY <2>1 DEF AwaitReturn
  <2>3. QED  BY <2>2 DEF IInv, TypeOK
<1>3. \A x, d : /\ ~Runs(t, In("suspend", x, d)) /\ ~Runs(t, In("retrieve", x, d))
                /\ x # p \/ d # c => ~Runs(t, In("await", x, d))
                /\ ~Runs(t, At("resume", x)) /\ ~Runs(t, At("check", d))
  BY <1>0, Fields DEF Runs
<1>4. CASE status[c] # "done" /\ Leave(t) /\ status' = status
  <2>1. /\ StackShape(t)' /\ OneActivation(t)' /\ EntriesOK(t)'
        /\ \A d : Idle(t, d) => Idle(t, d)'
    BY <1>0, <1>s, <1>4, Fields, LeaveIInv DEF IsActive, ActivePoints
  <2>2. QueueOK(t)'
    BY <1>4, <1>s, <2>1 DEF IInv, QueueOK
  <2>3. AwaitingOK(t)'
    BY <1>3, <1>4, <1>s DEF IInv, AwaitingOK, Alive
  <2>4. HolderOK' /\ ParentOK' /\ UnbornOK' /\ ResultOK'
    BY <1>4, <1>s DEF IInv, HolderOK, ParentOK, UnbornOK, ResultOK, Alive, Unborn
  <2>5. WakeupOK(t)'
    BY <1>1, <1>3, <1>4, <1>s DEF IInv, WakeupOK
  <2>6. QED  BY <2>1, <2>2, <2>3, <2>4, <2>5 DEF IInv
<1>5. CASE /\ status[c] = "done" /\ Become(t, In("retrieve", p, c))
           /\ \A d \in Tasks : status'[d] = IF d = p THEN "running" ELSE status[d]
  <2>1. In("retrieve", p, c) \in Activation /\ SameKind(Top(t), In("retrieve", p, c)) /\ p # c
    BY <1>0, <1>5, ActivationType, Fields DEF Points, SameKind, IsActive, ActivePoints
  <2>2. StackShape(t)' /\ OneActivation(t)' /\ \A d : Idle(t, d) => Idle(t, d)'
    BY <1>0, <1>5, <1>s, <2>1, BecomeShape DEF IInv
  <2>3. /\ Entries(t)' = Inner(t) \cup {In("retrieve", p, c)}
        /\ \A x : Runs(t, x)' <=> x = In("retrieve", p, c)
    BY <1>0, <1>5, <1>s, <2>1, BecomeSets
  <2>4. EntryOK(t, In("retrieve", p, c))'
    BY <1>0, <1>5, <1>s, <2>1, TasksAssumption, Fields DEF EntryOK, RetrieveOK
  <2>5. ASSUME NEW e \in Inner(t) PROVE EntryOK(t, e)'
    <3>1. /\ e.co \in Tasks /\ status[e.co] \in {"running", "suspended"}
          /\ IsActive(e) => e.co # p
      BY <1>0, InnerFacts, EntryFacts, Fields DEF Activation, IsActive, ActivePoints
    <3>2. QED  BY <1>0, <1>5, <1>s, <3>1, InnerKept
  <2>6. EntriesOK(t)'
    BY <2>3, <2>4, <2>5, EntriesOKFromSet
  <2>7. QueueOK(t)'
    BY <1>0, <1>5, <1>s, <2>2, TasksAssumption DEF IInv, QueueOK, TypeOK
  <2>8. AwaitingOK(t)'
    <3>1. \A d \in Tasks : Alive(d) => Alive(d)'
      BY <1>5 DEF Alive
    <3>2. \A q \in Tasks : awaiting[q] # None => awaiting[q] \in Tasks /\ status[q] = "suspended"
      BY <1>3 DEF IInv, AwaitingOK, TypeOK
    <3>3. Runs(t, In("retrieve", p, awaiting[p]))'
      BY <1>0, <1>s, <2>3
    <3>4. QED
      BY <1>0, <1>3, <1>5, <1>s, <3>1, <3>2, <3>3 DEF IInv, AwaitingOK
  <2>9. HolderOK' /\ ParentOK' /\ UnbornOK' /\ ResultOK'
    <3>1. \A d \in Tasks : /\ Alive(d) <=> Alive(d)'
                           /\ status[d] \in {"running", "suspended"} => status'[d] \in {"running", "suspended"}
                           /\ status'[d] \in {"unborn", "done"} => status'[d] = status[d]
      BY <1>0, <1>5 DEF Alive
    <3>2. QED
      BY <1>s, <3>1, TasksAssumption DEF IInv, HolderOK, ParentOK, UnbornOK, ResultOK, TypeOK, Unborn
  <2>10. WakeupOK(t)'
    <3>1. \A q \in Tasks : awaiting[q] # None => awaiting[q] \in Tasks
      BY DEF IInv, TypeOK
    <3>2. QED
      BY <1>0, <1>1, <1>3, <1>5, <1>s, <3>1 DEF IInv, WakeupOK
  <2>11. QED  BY <2>2, <2>6, <2>7, <2>8, <2>9, <2>10 DEF IInv
<1>6. QED  BY <1>2, <1>4, <1>5

LEMMA RetrieveIInv ==
  ASSUME NEW t \in Threads, NEW p \in Tasks, NEW c \in Tasks, IInv(t), TypeOK',
         Retrieve(t, p, c)
  PROVE  IInv(t)'
<1>0. /\ Runs(t, In("retrieve", p, c)) /\ Busy(t) /\ Top(t) = In("retrieve", p, c)
      /\ status[p] = "running" /\ p \in started /\ awaiting[p] = c /\ status[c] = "done" /\ p # c
  BY TopFacts, Fields DEF Retrieve, EntryOK, RetrieveOK
<1>1. /\ c \notin roots /\ holder[c] = None /\ \A q \in Tasks : awaiting[q] = c => q = p
  BY <1>0, TasksAssumption DEF IInv, AwaitingOK
<1>s. /\ \A d \in Tasks : status'[d] = IF d = c THEN "destroyed" ELSE status[d]
      /\ \A d \in Tasks : awaiting'[d] = IF d = p THEN None ELSE awaiting[d]
      /\ started' = started /\ roots' = roots /\ result' = result /\ parent' = parent
      /\ holder' = holder /\ inflight' = inflight
      /\ stack \in Stacks /\ stack' \in Stacks /\ At("body", p) \in Activation
  BY ActivationType DEF Retrieve, IInv, TypeOK, Stacks, Points
<1>2. SameKind(Top(t), At("body", p))
  BY <1>0, Fields DEF SameKind, IsActive, ActivePoints
<1>3. StackShape(t)' /\ OneActivation(t)' /\ \A d : Idle(t, d) => Idle(t, d)'
  BY <1>0, <1>2, <1>s, BecomeShape DEF IInv, Retrieve
<1>4. Entries(t)' = Inner(t) \cup {At("body", p)}
  BY <1>0, <1>s, BecomeSets DEF Retrieve
<1>5. EntryOK(t, At("body", p))'
  BY <1>0, <1>s, Fields DEF EntryOK, BodyOK
<1>6. ASSUME NEW e \in Inner(t) PROVE EntryOK(t, e)'
  <2>1. /\ e.co \in Tasks /\ status[e.co] \in {"running", "suspended"}
        /\ IsActive(e) => e.co # p
    BY <1>0, InnerFacts, EntryFacts, Fields DEF Activation, IsActive, ActivePoints
  <2>2. QED  BY <1>0, <1>s, <2>1, InnerKept
<1>7. EntriesOK(t)'
  BY <1>4, <1>5, <1>6, EntriesOKFromSet
<1>8. \A x, d : /\ ~Runs(t, In("suspend", x, d))
                /\ x # p => ~Runs(t, In("retrieve", x, d))
                /\ ~Runs(t, In("await", x, d))
                /\ ~Runs(t, At("resume", x)) /\ ~Runs(t, At("check", d))
  BY <1>0, Fields DEF Runs
<1>9. QueueOK(t)'
  BY <1>0, <1>3, <1>s, TasksAssumption DEF IInv, QueueOK, TypeOK
<1>10. ASSUME NEW q \in Tasks, awaiting'[q] # None
       PROVE  /\ q # p /\ awaiting'[q] = awaiting[q] /\ awaiting[q] # None /\ awaiting[q] \in Tasks
              /\ awaiting[q] # c /\ q # c
  <2>1. q # p /\ awaiting'[q] = awaiting[q]
    BY <1>10, <1>s
  <2>2. awaiting[q] # None /\ awaiting[q] # c
    BY <1>1, <1>10, <2>1
  <2>3. awaiting[q] \in Tasks
    BY <2>2 DEF IInv, TypeOK
  <2>4. status[q] \in {"suspended", "running"}
    BY <2>2 DEF IInv, AwaitingOK
  <2>5. QED  BY <1>0, <2>1, <2>2, <2>3, <2>4
<1>11. AwaitingOK(t)'
  <2>1. \A d \in Tasks : d # c /\ Alive(d) => Alive(d)'
    BY <1>s DEF Alive
  <2>2. QED
    BY <1>8, <1>10, <1>s, <2>1 DEF IInv, AwaitingOK
<1>12. HolderOK' /\ UnbornOK' /\ ResultOK'
  <2>1. \A d \in Tasks : /\ d # c /\ Alive(d) => Alive(d)'
                         /\ d # c => status'[d] = status[d]
                         /\ status'[d] \in {"unborn", "done"} => status'[d] = status[d]
    BY <1>s DEF Alive
  <2>2. \A d \in Tasks : holder[d] # None => holder[d] \in Tasks /\ d # c /\ holder[d] # c
    BY <1>0, <1>1 DEF IInv, TypeOK, HolderOK
  <2>3. HolderOK'
    BY <1>s, <2>1, <2>2 DEF IInv, HolderOK
  <2>4. UnbornOK' /\ ResultOK'
    BY <1>s, <2>1, TasksAssumption DEF IInv, UnbornOK, ResultOK, Unborn
  <2>5. QED  BY <2>3, <2>4
<1>13. ParentOK'
  BY <1>0, <1>1, <1>s, TasksAssumption DEF IInv, ParentOK, TypeOK, Alive, Unborn
<1>14. WakeupOK(t)'
  BY <1>8, <1>10, <1>s DEF IInv, WakeupOK
<1>15. QED  BY <1>3, <1>7, <1>9, <1>11, <1>12, <1>13, <1>14 DEF IInv

LEMMA StartSubroutineIInv ==
  ASSUME NEW t \in Threads, NEW p \in Tasks, NEW c \in Tasks, IInv(t), TypeOK',
         StartSubroutine(t, p, c)
  PROVE  IInv(t)'
<1>0. /\ Runs(t, At("body", p)) /\ Busy(t) /\ Top(t) = At("body", p)
      /\ status[p] = "running" /\ p \in started /\ awaiting[p] = None
      /\ status[c] = "unborn" /\ p # c
  <2>1. Runs(t, At("body", p)) /\ status[c] = "unborn"
    BY DEF StartSubroutine, Unborn
  <2>2. /\ Busy(t) /\ Top(t) = At("body", p)
        /\ status[p] = "running" /\ p \in started /\ awaiting[p] = None
    BY <2>1, TopFacts, Fields DEF EntryOK, BodyOK
  <2>3. QED  BY <2>1, <2>2
<1>s. /\ \A d \in Tasks : status'[d] = IF d = c THEN "running" ELSE
                                         IF d = p THEN "suspended" ELSE status[d]
      /\ \A d \in Tasks : holder'[d] = IF d = c THEN p ELSE holder[d]
      /\ started' = started \cup {c} /\ roots' = roots /\ result' = result /\ parent' = parent
      /\ awaiting' = awaiting /\ inflight' = inflight
      /\ stack \in Stacks /\ stack' \in Stacks
      /\ In("start", p, c) \in Activation /\ At("body", c) \in Activation
  BY <1>0, ActivationType DEF StartSubroutine, IInv, TypeOK, Stacks, Points
<1>1. /\ c \notin roots /\ holder[c] = None /\ parent[c] = None /\ awaiting[c] = None
      /\ c \notin inflight /\ Idle(t, c)
      /\ \A q \in Tasks : awaiting[q] # c /\ holder[q] # c
  <2>1. Idle(t, c)
    BY <1>0, EntryFacts, IdleFromSet
  <2>2. QED
    BY <1>0, <2>1, TasksAssumption DEF IInv, HolderOK, UnbornOK, ParentOK, AwaitingOK, QueueOK,
       Alive, Unborn
<1>2. /\ SameKind(Top(t), In("start", p, c)) /\ Follows(In("start", p, c), At("body", c))
      /\ IsActive(At("body", c)) /\ At("body", c).co = c
  BY <1>0, Fields DEF SameKind, Follows, IsActive, ActivePoints
<1>3. /\ StackShape(t)' /\ OneActivation(t)'
      /\ \A d : Idle(t, d) /\ d # c => Idle(t, d)'
  BY <1>0, <1>1, <1>2, <1>s, BecomeCallShape DEF IInv, StartSubroutine
<1>4. /\ Entries(t)' = Inner(t) \cup {In("start", p, c), At("body", c)}
      /\ \A x : Runs(t, x)' <=> x = At("body", c)
  BY <1>0, <1>s, BecomeCallSets DEF StartSubroutine
<1>5. EntryOK(t, In("start", p, c))' /\ EntryOK(t, At("body", c))'
  <2>1. EntryOK(t, In("start", p, c))'
    BY <1>0, <1>1, <1>s, TasksAssumption, Fields DEF EntryOK, StartOK
  <2>2. EntryOK(t, At("body", c))'
    BY <1>0, <1>1, <1>s, Fields DEF EntryOK, BodyOK
  <2>3. QED  BY <2>1, <2>2
<1>6. ASSUME NEW e \in Inner(t) PROVE EntryOK(t, e)'
  <2>1. /\ e.co \in Tasks /\ e.child \in Tasks \cup {None} /\ EntryOK(t, e)
        /\ e.co # c /\ status[e.co] \in {"running", "suspended"}
        /\ IsActive(e) => e.co # p
        /\ e.at = "start" => status[e.child] \in {"running", "suspended"}
    BY <1>0, InnerFacts, EntryFacts, Fields DEF Activation, IsActive, ActivePoints
  <2>2. e.at = "start" => e.child \in Tasks /\ e.child # c
    BY <1>0, <2>1 DEF EntryOK
  <2>3. QED  BY <1>0, <1>s, <2>1, <2>2, InnerKept
<1>7. EntriesOK(t)'
  BY <1>4, <1>5, <1>6, EntriesOKFromSet
<1>8. \A x, d : /\ ~Runs(t, In("suspend", x, d)) /\ ~Runs(t, In("retrieve", x, d))
                /\ ~Runs(t, In("await", x, d)) /\ ~Runs(t, At("resume", x))
                /\ ~Runs(t, At("check", d))
  BY <1>0, Fields DEF Runs
<1>9. QueueOK(t)'
  BY <1>0, <1>1, <1>3, <1>s DEF IInv, QueueOK, TypeOK
<1>10. \A q \in Tasks : awaiting[q] # None =>
         /\ q # p /\ q # c /\ awaiting[q] \in Tasks /\ awaiting[q] # c /\ status[q] = "suspended"
  BY <1>0, <1>1, <1>8 DEF IInv, AwaitingOK, TypeOK
<1>11. AwaitingOK(t)'
  <2>1. \A d \in Tasks : Alive(d) => Alive(d)'
    BY <1>s DEF Alive
  <2>2. QED
    BY <1>8, <1>10, <1>s, <2>1 DEF IInv, AwaitingOK
<1>12. HolderOK' /\ UnbornOK' /\ ResultOK'
  <2>1. \A d \in Tasks : /\ Alive(d) => Alive(d)'
                         /\ status[d] \in {"running", "suspended"} => status'[d] \in {"running", "suspended"}
                         /\ status'[d] \in {"unborn", "done"} => status'[d] = status[d]
                         /\ status'[d] = "unborn" => d # c
    BY <1>0, <1>s DEF Alive
  <2>2. \A d \in Tasks : holder[d] # None => holder[d] \in Tasks
    BY DEF IInv, TypeOK
  <2>3. Alive(c)' /\ status'[p] = "suspended"
    BY <1>0, <1>s DEF Alive
  <2>4. HolderOK'
    BY <1>1, <1>s, <2>1, <2>2, <2>3 DEF IInv, HolderOK
  <2>5. UnbornOK' /\ ResultOK'
    BY <1>s, <2>1, TasksAssumption DEF IInv, UnbornOK, ResultOK, Unborn
  <2>6. QED  BY <2>4, <2>5
<1>13. ParentOK'
  BY <1>0, <1>1, <1>s, TasksAssumption DEF IInv, ParentOK, TypeOK, Alive, Unborn
<1>14. WakeupOK(t)'
  BY <1>8, <1>10, <1>s DEF IInv, WakeupOK
<1>15. QED  BY <1>3, <1>7, <1>9, <1>11, <1>12, <1>13, <1>14 DEF IInv

LEMMA StartReturnIInv ==
  ASSUME NEW t \in Threads, NEW p \in Tasks, NEW c \in Tasks, IInv(t), TypeOK',
         StartReturn(t, p, c)
  PROVE  IInv(t)'
<1>0. /\ Runs(t, In("start", p, c)) /\ Busy(t) /\ Top(t) = In("start", p, c)
      /\ status[p] = "suspended" /\ p \in started /\ awaiting[p] = None
  BY TopFacts, Fields DEF StartReturn, EntryOK, StartOK
<1>1. p \notin inflight
  <2>1. ~Idle(t, p)
    BY <1>0, TopFacts, EntryFacts, Fields DEF IsActive, ActivePoints
  <2>2. QED  BY <2>1 DEF IInv, QueueOK
<1>s. /\ \A d \in Tasks : status'[d] = IF d = p THEN "running" ELSE status[d]
      /\ started' = started /\ roots' = roots /\ result' = result /\ parent' = parent
      /\ awaiting' = awaiting /\ holder' = holder /\ inflight' = inflight
      /\ stack \in Stacks /\ stack' \in Stacks /\ At("body", p) \in Activation
  BY ActivationType DEF StartReturn, IInv, TypeOK, Stacks, Points
<1>2. SameKind(Top(t), At("body", p))
  BY <1>0, Fields DEF SameKind, IsActive, ActivePoints
<1>3. StackShape(t)' /\ OneActivation(t)' /\ \A d : Idle(t, d) => Idle(t, d)'
  BY <1>0, <1>2, <1>s, BecomeShape DEF IInv, StartReturn
<1>4. Entries(t)' = Inner(t) \cup {At("body", p)}
  BY <1>0, <1>s, BecomeSets DEF StartReturn
<1>5. EntryOK(t, At("body", p))'
  BY <1>0, <1>s, Fields DEF EntryOK, BodyOK
<1>6. ASSUME NEW e \in Inner(t) PROVE EntryOK(t, e)'
  <2>1. /\ e.co \in Tasks /\ status[e.co] \in {"running", "suspended"}
        /\ IsActive(e) => e.co # p
    BY <1>0, InnerFacts, EntryFacts, Fields DEF Activation, IsActive, ActivePoints
  <2>2. QED  BY <1>0, <1>s, <2>1, InnerKept
<1>7. EntriesOK(t)'
  BY <1>4, <1>5, <1>6, EntriesOKFromSet
<1>8. \A x, d : /\ ~Runs(t, In("suspend", x, d)) /\ ~Runs(t, In("retrieve", x, d))
                /\ ~Runs(t, In("await", x, d)) /\ ~Runs(t, At("resume", x))
                /\ ~Runs(t, At("check", d))
  BY <1>0, Fields DEF Runs
<1>9. QueueOK(t)'
  BY <1>1, <1>3, <1>s DEF IInv, QueueOK, TypeOK
<1>10. \A q \in Tasks : awaiting[q] # None => q # p /\ awaiting[q] \in Tasks
  BY <1>0 DEF IInv, TypeOK
<1>11. \A d \in Tasks : /\ Alive(d) <=> Alive(d)'
                        /\ status[d] \in {"running", "suspended"} => status'[d] \in {"running", "suspended"}
                        /\ status'[d] \in {"unborn", "done"} => status'[d] = status[d]
  BY <1>0, <1>s DEF Alive
<1>12. AwaitingOK(t)'
  BY <1>8, <1>10, <1>11, <1>s DEF IInv, AwaitingOK
<1>13. HolderOK' /\ ParentOK' /\ UnbornOK' /\ ResultOK'
  BY <1>s, <1>11, TasksAssumption DEF IInv, HolderOK, ParentOK, UnbornOK, ResultOK, TypeOK, Unborn
<1>14. WakeupOK(t)'
  BY <1>0, <1>8, <1>10, <1>s DEF IInv, WakeupOK
<1>15. QED  BY <1>3, <1>7, <1>9, <1>12, <1>13, <1>14 DEF IInv

-----------------------------------------------------------------------------
(* The program of one thread: it polls the queue and spawns the tasks.       *)

LEMMA InitIInv ==
  ASSUME NEW t \in Threads, Init PROVE IInv(t)
<1>1. TypeOK
  BY InitTypeOK
<1>2. stack[t] = <<>> /\ Depth(t) = {}
  BY DEF Init, Depth
<1>3. StackShape(t) /\ OneActivation(t) /\ EntriesOK(t)
  BY <1>2 DEF StackShape, OneActivation, EntriesOK
<1>4. QueueOK(t) /\ AwaitingOK(t) /\ HolderOK /\ ParentOK /\ UnbornOK /\ ResultOK /\ WakeupOK(t)
  BY TasksAssumption
  DEF Init, QueueOK, AwaitingOK, HolderOK, ParentOK, UnbornOK, ResultOK, WakeupOK, Unborn
<1>5. QED  BY <1>1, <1>3, <1>4 DEF IInv

LEMMA StepIInv ==
  ASSUME NEW t \in Threads, Threads = {t}, ValueTasks \cap ThrowingTasks = {},
         IInv(t), [Next]_vars
  PROVE  IInv(t)'
<1>1. TypeOK'
  BY StepTypeOK DEF IInv
<1>2. CASE UNCHANGED vars
  <2> USE <1>2 DEF vars
  <2>1. StackShape(t)' /\ OneActivation(t)'
    BY DEF IInv, StackShape, OneActivation, Depth
  <2>2. \A e : EntryOK(t, e) => EntryOK(t, e)'
    BY DEF EntryOK, ResumeOK, BodyOK, RetrieveOK, SuspendOK, AwaitOK, StartOK, Idle, Depth, Alive
  <2>3. EntriesOK(t)' /\ QueueOK(t)'
    BY <2>2 DEF IInv, EntriesOK, QueueOK, Idle, Depth
  <2>4. AwaitingOK(t)' /\ WakeupOK(t)'
    BY DEF IInv, AwaitingOK, WakeupOK, Runs, Busy, Top, Alive
  <2>5. HolderOK' /\ ParentOK' /\ UnbornOK' /\ ResultOK'
    BY DEF IInv, HolderOK, ParentOK, UnbornOK, ResultOK, Alive, Unborn
  <2>6. QED  BY <1>1, <2>1, <2>3, <2>4, <2>5 DEF IInv
<1>3. CASE \E c \in Tasks : Spawn(t, c)
  BY <1>1, <1>3, SpawnIInv
<1>4. CASE Step(t)
  <2>1. ASSUME NEW c \in Tasks, Return(t, c) \/ Throw(t, c) PROVE IInv(t)'
    <3>1. End(t, c) /\ result \subseteq result' /\ (c \in ValueTasks => c \in result')
      BY <2>1 DEF Return, Throw
    <3>2. QED  BY <1>1, <3>1, EndIInv
  <2>2. QED
    BY <1>1, <1>4, <2>1, TickIInv, ResumeJobIInv, CheckDoneIInv, AwaitOpIInv, AwaitTaskIInv,
       JoinTaskIInv, AwaitSuspendFreshIInv, AwaitSuspendStartedIInv, AwaitReturnIInv,
       RetrieveIInv, StartSubroutineIInv, StartReturnIInv DEF Step
<1>5. QED  BY <1>2, <1>3, <1>4 DEF Next

LEMMA IInvSafety ==
  ASSUME NEW t \in Threads, Threads = {t}, IInv(t)
  PROVE  FramesAlive /\ NoDoubleResume /\ AwaitedResult /\ NoLostWakeup
<1>1. Activations = Entries(t)
  <2>1. DOMAIN stack[t] = Depth(t)
    BY DEF IInv, TypeOK, Depth
  <2>2. QED  BY <2>1 DEF Activations, Entries
<1>2. \A e \in Entries(t) : e \in Activation /\ EntryOK(t, e)
  BY EntryFacts
<1>3. \A p \in Tasks : awaiting[p] # None =>
        awaiting[p] \in Tasks /\ Alive(p) /\ Alive(awaiting[p])
  BY DEF IInv, TypeOK, AwaitingOK, Alive
<1>4. FramesAlive
  <2>1. ASSUME NEW e \in Entries(t) PROVE Alive(e.co) /\ (e.child # None => Alive(e.child))
    <3>1. /\ e.at \in Points /\ e.co \in Tasks /\ e.child \in Tasks \cup {None}
          /\ EntryOK(t, e)
      BY <1>2 DEF Activation
    <3>2. Alive(e.co)
      BY <3>1 DEF EntryOK, ResumeOK, BodyOK, RetrieveOK, SuspendOK, AwaitOK, StartOK, Alive, Points
    <3>3. CASE e.at \in {"retrieve", "suspend", "await"}
      BY <1>3, <3>1, <3>2, <3>3 DEF EntryOK, RetrieveOK, SuspendOK, AwaitOK
    <3>4. CASE e.at = "start"
      BY <3>1, <3>2, <3>4, TasksAssumption DEF EntryOK, StartOK, IInv, HolderOK
    <3>5. CASE e.at \in {"resume", "check", "body"}
      BY <3>1, <3>2, <3>5 DEF EntryOK
    <3>6. QED  BY <3>1, <3>3, <3>4, <3>5 DEF Points
  <2>2. \A c \in inflight : Alive(c)
    BY DEF IInv, QueueOK, Alive
  <2>3. \A c \in Tasks : holder[c] # None => Alive(c) /\ Alive(holder[c])
    BY DEF IInv, HolderOK, Alive
  <2>4. \A c \in Tasks : Alive(c) /\ parent[c] # None => Alive(parent[c])
    BY <1>3, TasksAssumption DEF IInv, TypeOK, ParentOK
  <2>5. QED  BY <1>1, <1>3, <2>1, <2>2, <2>3, <2>4 DEF FramesAlive
<1>5. NoDoubleResume
  <2>1. ASSUME NEW c \in Tasks, Runs(t, At("resume", c)) PROVE status[c] = "suspended"
    BY <2>1, TopFacts, Fields DEF EntryOK, ResumeOK
  <2>2. ASSUME NEW p \in Tasks, NEW c \in Tasks, Runs(t, In("await", p, c))
        PROVE  status[p] = "suspended"
    BY <2>2, TopFacts, Fields DEF EntryOK, AwaitOK
  <2>3. QED  BY <2>1, <2>2 DEF NoDoubleResume, IInv, QueueOK
<1>6. AwaitedResult
  <2>1. ASSUME NEW p \in Tasks, NEW c \in Tasks, Runs(t, In("retrieve", p, c))
        PROVE  status[c] = "done"
    BY <2>1, TopFacts, Fields DEF EntryOK, RetrieveOK
  <2>2. QED  BY <2>1 DEF AwaitedResult, IInv, ResultOK
<1>7. NoLostWakeup
  <2>1. \A e : Runs(t, e) => e \in Activations
    BY <1>1, TopFacts
  <2>2. QED  BY <2>1, TasksAssumption DEF NoLostWakeup, IInv, WakeupOK
<1>8. QED  BY <1>4, <1>5, <1>6, <1>7

(***************************************************************************)
(* The runtime is correct when a single thread polls the queue and spawns  *)
(* the tasks, and no task that has a value throws: no pointer dangles, no  *)
(* coroutine is resumed twice, every co_await finds its result and nobody  *)
(* is left waiting for a task that has ended.                              *)
(***************************************************************************)
THEOREM SingleThreadSafe ==
  ASSUME NEW t, Threads = {t}, ValueTasks \cap ThrowingTasks = {}
  PROVE  Spec => [](FramesAlive /\ NoDoubleResume /\ AwaitedResult /\ NoLostWakeup)
<1>1. Init => IInv(t)
  BY InitIInv
<1>2. IInv(t) /\ [Next]_vars => IInv(t)'
  BY StepIInv
<1>3. IInv(t) => FramesAlive /\ NoDoubleResume /\ AwaitedResult /\ NoLostWakeup
  BY IInvSafety
<1>4. QED  BY <1>1, <1>2, <1>3, PTL DEF Spec

\* async_lib.hpp, Resume and TaskAwait::await_suspend: under the same assumptions
\* a coroutine is resumed only while it is suspended, by one caller at a time.
THEOREM SingleThreadResumesOnce ==
  ASSUME NEW t, Threads = {t}, ValueTasks \cap ThrowingTasks = {}
  PROVE  Spec => []NoDoubleResume
<1>1. FramesAlive /\ NoDoubleResume /\ AwaitedResult /\ NoLostWakeup => NoDoubleResume
  OBVIOUS
<1>2. QED  BY <1>1, SingleThreadSafe, PTL

\* async_lib.hpp, the assertion of TaskAwait::await_resume: a co_await that
\* returns finds the result of a task that has ended.
THEOREM SingleThreadFindsResult ==
  ASSUME NEW t, Threads = {t}, ValueTasks \cap ThrowingTasks = {}
  PROVE  Spec => []AwaitedResult
<1>1. FramesAlive /\ NoDoubleResume /\ AwaitedResult /\ NoLostWakeup => AwaitedResult
  OBVIOUS
<1>2. QED  BY <1>1, SingleThreadSafe, PTL

\* async_lib.hpp, Resume: whoever awaits a task that has ended is about to be
\* resumed.
THEOREM SingleThreadWakesAwaiter ==
  ASSUME NEW t, Threads = {t}, ValueTasks \cap ThrowingTasks = {}
  PROVE  Spec => []NoLostWakeup
<1>1. FramesAlive /\ NoDoubleResume /\ AwaitedResult /\ NoLostWakeup => NoLostWakeup
  OBVIOUS
<1>2. QED  BY <1>1, SingleThreadSafe, PTL
=============================================================================
