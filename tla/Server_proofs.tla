---------------------------- MODULE Server_proofs ----------------------------
(* Proofs about module Server: async_grpc/server.hpp with the handlers of     *)
(* variable_service_impl.cpp (module VariableService).                        *)
EXTENDS Server, TLAPS

USE RequestsAssumption, ExecutorsAssumption, ServicesAssumption

-----------------------------------------------------------------------------
(* The handlers. *)

Early == Places \ {"unlock", "finish", "finished", "ended"}

\* What happens to a call outside its handler keeps the service's invariant.
LEMMA HandlersElsewhere ==
  ASSUME ServiceInvariant, handler' \in [Requests -> Places],
         UNCHANGED <<entry, value, writer, readers, found, answer>>,
         \A r \in Requests :
           /\ Locked(r)' <=> Locked(r)
           /\ handler'[r] = "found" => handler[r] = "found"
           /\ handler'[r] \in Early => handler[r] \in Early
  PROVE  ServiceInvariant'
<1> USE DEF ServiceInvariant
<1>1. ServiceTypeOK'
  BY DEF ServiceTypeOK
<1>2. MutexOK'
  BY DEF MutexOK, Requests
<1>3. StorageOK' /\ EntryAlive'
  BY DEF StorageOK, EntryAlive, Requests
<1>4. AnswersOK'
  BY DEF AnswersOK, Early
<1>5. QED  BY <1>1, <1>2, <1>3, <1>4

\* A step of a handler keeps the types.
LEMMA HandlerTypes ==
  ASSUME ServiceTypeOK, NEW r \in Requests, HandlerStep(r) \/ Unlock(r)
  PROVE  ServiceTypeOK'
<1> USE DEF ServiceTypeOK, Moves, Places, Requests
<1>1. CASE Lock(r)
  BY <1>1 DEF Lock, LockShared, LockUnique
<1>2. CASE Assign(r)
  BY <1>2 DEF Assign, InsertOrAssign, Answers
<1>3. CASE Erase(r)
  BY <1>3 DEF Erase, Answers
<1>4. CASE Find(r)
  BY <1>4 DEF Find, Answers
<1>5. CASE TakeValue(r)
  BY <1>5 DEF TakeValue, Answers
<1>6. CASE Unlock(r)
  BY <1>6 DEF Unlock, UnlockShared
<1>7. QED  BY <1>1, <1>2, <1>3, <1>4, <1>5, <1>6 DEF HandlerStep

LEMMA LockService ==
  ASSUME ServiceInvariant, NEW r \in Requests, Lock(r) PROVE ServiceInvariant'
<1> USE DEF ServiceInvariant
<1>t. ServiceTypeOK'
  BY HandlerTypes DEF HandlerStep
<1>1. /\ handler[r] = "lock" /\ handler'[r] = "access"
      /\ \A q \in Requests : q # r => handler'[q] = handler[q]
      /\ UNCHANGED <<entry, value, found, answer>>
  BY DEF Lock, Moves, ServiceTypeOK
<1>2. MutexOK'
  <2>1. CASE r \in Reads
    <3>1. writer = Absent /\ readers' = readers \cup {r} /\ writer' = writer
      BY <2>1 DEF Lock, LockShared
    <3>2. QED  BY <1>1, <2>1, <3>1 DEF MutexOK, Locked, Requests
  <2>2. CASE r \notin Reads
    <3>1. writer = Absent /\ readers = {} /\ writer' = r /\ readers' = readers
      BY <2>2 DEF Lock, LockUnique
    <3>2. QED  BY <1>1, <2>2, <3>1 DEF MutexOK, Locked, Requests
  <2>3. QED  BY <2>1, <2>2
<1>3. StorageOK' /\ EntryAlive'
  BY <1>1 DEF StorageOK, EntryAlive, Requests
<1>4. AnswersOK'
  BY <1>1 DEF AnswersOK, Places
<1>5. QED  BY <1>t, <1>2, <1>3, <1>4

\* A write or a del holds the lock alone: no reader stands at an entry.
LEMMA AloneAtAccess ==
  ASSUME ServiceInvariant, NEW r \in Writes \cup Dels, handler[r] = "access"
  PROVE  \A q \in Reads : handler[q] # "found"
BY DEF ServiceInvariant, ServiceTypeOK, MutexOK, Locked, Requests

\* A handler goes from one access to the next under its lock.
LEMMA MutexKept ==
  ASSUME ServiceInvariant, NEW r \in Requests, NEW to \in {"found", "unlock"},
         Moves(r, "access", to) \/ Moves(r, "found", to), UNCHANGED <<writer, readers>>
  PROVE  MutexOK'
<1>1. \A q \in Requests : Locked(q)' <=> Locked(q)
  BY DEF ServiceInvariant, ServiceTypeOK, Moves, Locked
<1>2. QED  BY <1>1 DEF ServiceInvariant, MutexOK, Requests

LEMMA AccessService ==
  ASSUME ServiceInvariant, NEW r \in Requests,
         Assign(r) \/ Erase(r) \/ Find(r) \/ TakeValue(r)
  PROVE  ServiceInvariant'
<1> USE DEF ServiceInvariant
<1>t. ServiceTypeOK'
  BY HandlerTypes DEF HandlerStep
<1>1. /\ UNCHANGED <<writer, readers>>
      /\ \E to \in {"found", "unlock"} : Moves(r, "access", to) \/ Moves(r, "found", to)
  BY DEF Assign, Erase, Find, TakeValue
<1>2. MutexOK'
  BY <1>1, MutexKept
<1>h. \A q \in Requests : q # r => handler'[q] = handler[q]
  BY <1>1 DEF Moves, ServiceTypeOK
<1>3. StorageOK' /\ EntryAlive'
  <2>1. CASE Assign(r)
    <3>1. r \in Writes /\ handler[r] = "access" /\ handler'[r] = "unlock"
      BY <2>1 DEF Assign, Moves, ServiceTypeOK
    <3>2. \A q \in Requests : handler'[q] # "found"
      BY <1>h, <3>1, AloneAtAccess DEF StorageOK
    <3>3. entry' # Absent /\ value' # Absent
      BY <2>1, <3>1 DEF Assign, InsertOrAssign, Requests
    <3>4. QED  BY <3>2, <3>3 DEF StorageOK, EntryAlive, Requests
  <2>2. CASE Erase(r)
    <3>1. r \in Dels /\ handler[r] = "access" /\ handler'[r] = "unlock"
      BY <2>2 DEF Erase, Moves, ServiceTypeOK
    <3>2. \A q \in Requests : handler'[q] # "found"
      BY <1>h, <3>1, AloneAtAccess DEF StorageOK
    <3>3. QED  BY <2>2, <3>2 DEF Erase, StorageOK, EntryAlive, Requests
  <2>3. CASE Find(r) /\ entry = Absent
    <3>1. /\ handler'[r] = "unlock" /\ UNCHANGED <<entry, value, found>>
      BY <2>3 DEF Find, Moves, ServiceTypeOK
    <3>2. QED  BY <1>h, <3>1 DEF StorageOK, EntryAlive, Requests
  <2>4. CASE Find(r) /\ entry # Absent
    <3>1. /\ r \in Reads /\ UNCHANGED <<entry, value>>
          /\ found'[r] = entry /\ \A q \in Reads : q # r => found'[q] = found[q]
      BY <2>4 DEF Find, ServiceTypeOK
    <3>2. QED  BY <1>h, <2>4, <3>1 DEF StorageOK, EntryAlive, Requests
  <2>5. CASE TakeValue(r)
    <3>1. handler'[r] = "unlock" /\ UNCHANGED <<entry, value, found>>
      BY <2>5 DEF TakeValue, Moves, ServiceTypeOK
    <3>2. QED  BY <1>h, <3>1 DEF StorageOK, EntryAlive, Requests
  <2>6. QED  BY <2>1, <2>2, <2>3, <2>4, <2>5
<1>4. AnswersOK'
  <2>1. /\ handler[r] \in {"access", "found"}
        /\ \A q \in Requests : q # r => answer'[q] = answer[q]
        /\ handler'[r] = "unlock" \/ answer'[r] = answer[r]
    BY <1>1 DEF Assign, Erase, Find, TakeValue, Answers, Moves, ServiceTypeOK
  <2>2. QED  BY <1>h, <2>1 DEF AnswersOK, Places
<1>5. QED  BY <1>t, <1>2, <1>3, <1>4

LEMMA UnlockService ==
  ASSUME ServiceInvariant, NEW r \in Requests, Unlock(r) PROVE ServiceInvariant'
<1> USE DEF ServiceInvariant
<1>t. ServiceTypeOK'
  BY HandlerTypes
<1>1. /\ handler[r] = "unlock" /\ handler'[r] = "finish"
      /\ \A q \in Requests : q # r => handler'[q] = handler[q]
      /\ UNCHANGED <<entry, value, found, answer>> /\ readers' = readers \ {r}
      /\ writer' = IF writer = r THEN Absent ELSE writer
  BY DEF Unlock, UnlockShared, Moves, ServiceTypeOK
<1>2. MutexOK'
  BY <1>1 DEF MutexOK, Locked, Requests, ServiceTypeOK
<1>3. StorageOK' /\ EntryAlive'
  BY <1>1 DEF StorageOK, EntryAlive, Requests
<1>4. AnswersOK'
  BY <1>1 DEF AnswersOK, Places
<1>5. QED  BY <1>t, <1>2, <1>3, <1>4

LEMMA HandlerService ==
  ASSUME ServiceInvariant, NEW r \in Requests, HandlerStep(r) PROVE ServiceInvariant'
BY LockService, AccessService DEF HandlerStep

\* A call that moves outside its handler.
LEMMA MovesService ==
  ASSUME ServiceInvariant, NEW r \in Requests, NEW from, NEW to, Moves(r, from, to),
         <<from, to>> \in {<<"sent", "accepted">>, <<"accepted", "lock">>,
                           <<"finish", "finished">>, <<"finished", "ended">>},
         UNCHANGED <<entry, value, writer, readers, found, answer>>
  PROVE  ServiceInvariant'
<1>1. handler \in [Requests -> Places]
  BY DEF ServiceInvariant, ServiceTypeOK
<1>2. handler' \in [Requests -> Places]
  BY <1>1 DEF Moves, Places
<1>3. \A q \in Requests :
        /\ Locked(q)' <=> Locked(q)
        /\ handler'[q] = "found" => handler[q] = "found"
        /\ handler'[q] \in Early => handler[q] \in Early
  BY <1>1 DEF Moves, Locked, Early, Places
<1>4. QED  BY <1>2, <1>3, HandlersElsewhere

-----------------------------------------------------------------------------
(* Types. *)

Tags == [st : {"new", "runs", "asks", "called", "failed", "ended"},
         ex : Executors, queue : Executors, request : Requests \cup {Absent}]

Stands == [pc : {"idle", "gone", "handle", "select", "listen"},
           listener : Listeners \cup {"none"}, request : Requests \cup {Absent},
           ex : Executors]

\* Main, the listeners, and what the service is not part of.
ControlTypeOK ==
  /\ turn \in Executors
  /\ main \in {"start", "serve", "shutdown", "destroy", "over"}
  /\ started \in 0..Len(Services)
  /\ closed \in 0..N /\ joined \in 0..closed

ListenerTypeOK ==
  /\ listener \in [Listeners -> Tags]
  /\ executor \in [Requests -> Executors]
  /\ at \in [Callers -> Stands]

LEMMA TypeParts ==
  /\ TypeOK <=> ServiceTypeOK /\ ControlTypeOK /\ ListenerTypeOK
  /\ TypeOK' <=> ServiceTypeOK' /\ ControlTypeOK' /\ ListenerTypeOK'
BY DEF TypeOK, ControlTypeOK, ListenerTypeOK, Tags, Stands

LEMMA NextTurnType == turn \in Executors /\ NextTurn => turn' \in Executors
BY DEF NextTurn, Executors

LEMMA ZeroExecutor == 0 \in Executors
BY DEF Executors

LEMMA StartedListener ==
  ASSUME ControlTypeOK, started < Len(Services)
  PROVE  Services[started + 1] \in Listeners /\ started + 1 \in 0..Len(Services)
BY DEF ControlTypeOK, Listeners

LEMMA TagTypes ==
  ASSUME NEW e \in Executors, NEW q \in Executors, NEW r \in Requests \cup {Absent},
         NEW st \in {"new", "runs", "asks", "called", "failed", "ended"}
  PROVE  /\ Listener(st, e, q, r) \in Tags /\ Listener0(st) \in Tags
         /\ Listener(st, e, q, r).st = st /\ Listener(st, e, q, r).ex = e
         /\ Listener(st, e, q, r).queue = q /\ Listener(st, e, q, r).request = r
         /\ Listener0(st).st = st /\ Listener0(st).ex = Listener0(st).queue
BY ZeroExecutor DEF Listener, Listener0, Tags

LEMMA StandTypes ==
  /\ Idle \in Stands /\ Gone \in Stands
  /\ \A l \in Listeners, r \in Requests : InHandler(l, r) \in Stands
  /\ \A l \in Listeners : Selecting(l) \in Stands
  /\ \A l \in Listeners, e \in Executors : Listening(l, e) \in Stands
BY ZeroExecutor DEF Idle, Gone, InHandler, Selecting, Listening, Thread, Stands

LEMMA StandParts ==
  /\ Idle.pc = "idle" /\ Gone.pc = "gone"
  /\ \A l, r : InHandler(l, r).pc = "handle" /\ InHandler(l, r).listener = l
               /\ InHandler(l, r).request = r
  /\ \A l : Selecting(l).pc = "select" /\ Selecting(l).listener = l
  /\ \A l, e : Listening(l, e).pc = "listen" /\ Listening(l, e).listener = l
               /\ Listening(l, e).ex = e
BY DEF Idle, Gone, InHandler, Selecting, Listening, Thread

-----------------------------------------------------------------------------
(* Steps in which no thread enters or leaves a handler. *)

\* The threads that change place go to the code of a listener, idle or end.
LEMMA ThreadsElsewhere ==
  ASSUME ServingInvariant, NEW t \in Callers, NEW a \in Stands, at' = [at EXCEPT ![t] = a],
         at[t].pc # "handle", a.pc # "handle",
         a.pc \in {"select", "listen"} => a.listener \in Listeners,
         UNCHANGED <<handler, executor>>
  PROVE  ThreadsOK' /\ HandlerOnItsExecutor' /\ at' \in [Callers -> Stands]
<1>1. at \in [Callers -> Stands]
  BY TypeParts DEF ServingInvariant, ListenerTypeOK
<1>2. at'[t] = a /\ \A u \in Callers : u # t => at'[u] = at[u]
  BY <1>1
<1>3. ThreadsOK'
  BY <1>2 DEF ServingInvariant, ThreadsOK
<1>4. HandlerOnItsExecutor'
  BY <1>2 DEF ServingInvariant, HandlerOnItsExecutor
<1>5. QED  BY <1>1, <1>3, <1>4

LEMMA ServiceKept ==
  ASSUME ServingInvariant, UNCHANGED service
  PROVE  ServiceInvariant' /\ (UNCHANGED <<main, closed>> => DestructionOK')
BY DEF ServingInvariant, service, ServiceInvariant, ServiceTypeOK, MutexOK, StorageOK, AnswersOK,
   EntryAlive, Locked, DestructionOK, CallsComplete

LEMMA StartListeningInvariant == ServingInvariant /\ StartListening => ServingInvariant'
<1> SUFFICES ASSUME ServingInvariant, StartListening PROVE ServingInvariant'
  OBVIOUS
<1>1. ServiceTypeOK /\ ControlTypeOK /\ ListenerTypeOK
  BY TypeParts DEF ServingInvariant
<1>2. Services[started + 1] \in Listeners /\ started + 1 \in 0..Len(Services)
  BY <1>1, StartedListener DEF StartListening
<1>3. ThreadsOK' /\ HandlerOnItsExecutor' /\ at' \in [Callers -> Stands]
  <2>1. at[Main].pc # "handle" /\ Main \in Callers
    BY StandParts DEF StartListening, Callers
  <2>2. UNCHANGED <<handler, executor>> /\ at' = [at EXCEPT ![Main] = Selecting(Services[started + 1])]
    BY DEF StartListening, Go, service
  <2>3. QED  BY <1>2, <2>1, <2>2, ThreadsElsewhere, StandTypes, StandParts
<1>4. ListenersOK' /\ ListenerTypeOK'
  <2>1. Listener0("runs") \in Tags /\ Listener0("runs").st = "runs"
        /\ Listener0("runs").ex = Listener0("runs").queue
    BY TagTypes, ZeroExecutor
  <2>2. QED
    BY <1>1, <1>2, <1>3, <2>1 DEF ListenerTypeOK, StartListening, Becomes, ServingInvariant, ListenersOK
<1>5. ControlTypeOK'
  BY <1>1, <1>2, NextTurnType DEF ControlTypeOK, StartListening
<1>6. ServiceInvariant' /\ DestructionOK'
  BY ServiceKept DEF ServingInvariant, StartListening
<1>7. TypeOK'
  BY <1>4, <1>5, <1>6, TypeParts DEF ServiceInvariant
<1>8. QED  BY <1>3, <1>4, <1>6, <1>7 DEF ServingInvariant

LEMMA SelectInvariant ==
  ASSUME ServingInvariant, NEW t \in Callers, SelectNextExecutor(t) PROVE ServingInvariant'
<1>1. ServiceTypeOK /\ ControlTypeOK /\ ListenerTypeOK
  BY TypeParts DEF ServingInvariant
<1>2. at[t].pc = "select" /\ at[t].listener \in Listeners /\ turn \in Executors
  BY <1>1 DEF SelectNextExecutor, ServingInvariant, ThreadsOK, ControlTypeOK
<1>3. ThreadsOK' /\ HandlerOnItsExecutor' /\ at' \in [Callers -> Stands]
  <2>1. Listening(at[t].listener, turn) \in Stands
    BY <1>2, StandTypes
  <2>2. /\ Listening(at[t].listener, turn).pc = "listen"
        /\ Listening(at[t].listener, turn).listener \in Listeners
    BY <1>2, StandParts
  <2>3. /\ at' = [at EXCEPT ![t] = Listening(at[t].listener, turn)]
        /\ UNCHANGED <<handler, executor>>
    BY DEF SelectNextExecutor, Go, service
  <2>4. QED  BY <1>2, <2>1, <2>2, <2>3, ThreadsElsewhere
<1>4. ListenersOK' /\ ListenerTypeOK'
  BY <1>1, <1>3 DEF ListenerTypeOK, SelectNextExecutor, ServingInvariant, ListenersOK
<1>5. ControlTypeOK'
  BY <1>1, NextTurnType DEF ControlTypeOK, SelectNextExecutor, control
<1>6. ServiceInvariant' /\ DestructionOK'
  BY ServiceKept DEF SelectNextExecutor, control
<1>7. TypeOK'
  BY <1>4, <1>5, <1>6, TypeParts DEF ServiceInvariant
<1>8. QED  BY <1>3, <1>4, <1>6, <1>7 DEF ServingInvariant

LEMMA ListenInvariant ==
  ASSUME ServingInvariant, NEW t \in Callers, Listen(t) PROVE ServingInvariant'
<1>1. ServiceTypeOK /\ ControlTypeOK /\ ListenerTypeOK
  BY TypeParts DEF ServingInvariant
<1>2. at[t].pc = "listen" /\ at[t].listener \in Listeners /\ at[t].ex \in Executors
  BY <1>1 DEF Listen, ServingInvariant, ThreadsOK, ListenerTypeOK, Stands
<1>3. ThreadsOK' /\ HandlerOnItsExecutor' /\ at' \in [Callers -> Stands]
  BY <1>2, ThreadsElsewhere, StandTypes, StandParts DEF Listen, Go, service
<1>4. ListenersOK' /\ ListenerTypeOK'
  <2>1. PICK st \in {"asks", "failed"} :
          listener' = [listener EXCEPT ![at[t].listener] = Listener(st, at[t].ex, at[t].ex, Absent)]
    BY DEF Listen, Becomes, NotifiedOn
  <2>2. QED
    BY <1>1, <1>2, <1>3, <2>1, TagTypes DEF ListenerTypeOK, Listen, ServingInvariant, ListenersOK
<1>5. ControlTypeOK'
  BY <1>1 DEF ControlTypeOK, Listen, control
<1>6. ServiceInvariant' /\ DestructionOK'
  BY ServiceKept DEF Listen, control
<1>7. TypeOK'
  BY <1>4, <1>5, <1>6, TypeParts DEF ServiceInvariant
<1>8. QED  BY <1>3, <1>4, <1>6, <1>7 DEF ServingInvariant

LEMMA StopListeningInvariant ==
  ASSUME ServingInvariant, NEW t \in Callers, NEW l \in Listeners, StopListening(t, l)
  PROVE  ServingInvariant'
<1>1. ServiceTypeOK /\ ControlTypeOK /\ ListenerTypeOK
  BY TypeParts DEF ServingInvariant
<1>2. ListenersOK' /\ ListenerTypeOK'
  <2>1. /\ Listener0("ended") \in Tags /\ Listener0("ended").st = "ended"
        /\ Listener0("ended").ex = Listener0("ended").queue
    BY TagTypes, ZeroExecutor
  <2>2. QED
    BY <1>1, <2>1 DEF ListenerTypeOK, StopListening, Becomes, ServingInvariant, ListenersOK
<1>3. ThreadsOK' /\ HandlerOnItsExecutor'
  BY DEF StopListening, service, ServingInvariant, ThreadsOK, HandlerOnItsExecutor
<1>4. ControlTypeOK'
  BY <1>1 DEF ControlTypeOK, StopListening, control
<1>5. ServiceInvariant' /\ DestructionOK'
  BY ServiceKept DEF StopListening, control
<1>6. TypeOK'
  BY <1>2, <1>4, <1>5, TypeParts DEF ServiceInvariant
<1>7. QED  BY <1>2, <1>3, <1>5, <1>6 DEF ServingInvariant

\* The steps of main() that touch neither the listeners nor the handlers.
LEMMA MainInvariant ==
  ASSUME ServingInvariant, Serve \/ ShutdownReturns \/ CloseExecutor \/ JoinExecutor
  PROVE  ServingInvariant'
<1>1. ServiceTypeOK /\ ControlTypeOK /\ ListenerTypeOK
  BY TypeParts DEF ServingInvariant
<1>2. UNCHANGED <<service, turn, started, listener, executor, at>>
  BY DEF Serve, ShutdownReturns, CloseExecutor, JoinExecutor
<1>3. ServiceInvariant'
  BY <1>2, ServiceKept
<1>4. ListenersOK' /\ ListenerTypeOK' /\ ThreadsOK' /\ HandlerOnItsExecutor'
  BY <1>1, <1>2 DEF service, ListenerTypeOK, ServingInvariant, ListenersOK, ThreadsOK, HandlerOnItsExecutor
<1>5. ControlTypeOK'
  BY <1>1, <1>2 DEF ControlTypeOK, Serve, ShutdownReturns, CloseExecutor, JoinExecutor
<1>6. DestructionOK'
  <2>1. CallsComplete' <=> CallsComplete
    BY <1>2 DEF CallsComplete, service
  <2>2. QED
    BY <2>1 DEF ServingInvariant, DestructionOK, Serve, ShutdownReturns, CloseExecutor, JoinExecutor
<1>7. TypeOK'
  BY <1>3, <1>4, <1>5, TypeParts DEF ServiceInvariant
<1>8. QED  BY <1>3, <1>4, <1>6, <1>7 DEF ServingInvariant

LEMMA EndThreadInvariant ==
  ASSUME ServingInvariant, NEW t \in Callers, EndThread(t) PROVE ServingInvariant'
<1>1. ServiceTypeOK /\ ControlTypeOK /\ ListenerTypeOK
  BY TypeParts DEF ServingInvariant
<1>2. ThreadsOK' /\ HandlerOnItsExecutor' /\ at' \in [Callers -> Stands]
  BY ThreadsElsewhere, StandTypes, StandParts DEF EndThread, Go, service
<1>3. ListenersOK' /\ ListenerTypeOK'
  BY <1>1, <1>2 DEF ListenerTypeOK, EndThread, ServingInvariant, ListenersOK
<1>4. ControlTypeOK'
  BY <1>1 DEF ControlTypeOK, EndThread, control
<1>5. ServiceInvariant' /\ DestructionOK'
  BY ServiceKept DEF EndThread, control
<1>6. TypeOK'
  BY <1>3, <1>4, <1>5, TypeParts DEF ServiceInvariant
<1>7. QED  BY <1>2, <1>3, <1>5, <1>6 DEF ServingInvariant

-----------------------------------------------------------------------------
(* Steps in which a call or its handler moves. *)

\* A call that moves outside its handler leaves the threads alone.
LEMMA CallMovesInvariant ==
  ASSUME ServingInvariant, NEW r \in Requests, NEW from, NEW to, Moves(r, from, to),
         <<from, to>> \in {<<"finish", "finished">>, <<"finished", "ended">>},
         UNCHANGED <<entry, value, writer, readers, found, answer, control, turn,
                     listener, executor, at>>
  PROVE  ServingInvariant'
<1>1. ServiceTypeOK /\ ControlTypeOK /\ ListenerTypeOK
  BY TypeParts DEF ServingInvariant
<1>2. ServiceInvariant'
  BY MovesService DEF ServingInvariant
<1>3. /\ handler[r] = from /\ handler'[r] = to
      /\ \A q \in Requests : q # r => handler'[q] = handler[q]
  BY <1>1 DEF Moves, ServiceTypeOK
<1>4. ThreadsOK'
  BY <1>3 DEF ServingInvariant, ThreadsOK
<1>5. ListenersOK' /\ ListenerTypeOK' /\ ControlTypeOK' /\ HandlerOnItsExecutor'
  BY <1>1 DEF ListenerTypeOK, ControlTypeOK, control, ServingInvariant, ListenersOK, HandlerOnItsExecutor
<1>6. DestructionOK'
  BY <1>3 DEF ServingInvariant, DestructionOK, CallsComplete, control
<1>7. TypeOK'
  BY <1>2, <1>5, TypeParts DEF ServiceInvariant
<1>8. QED  BY <1>2, <1>4, <1>5, <1>6, <1>7 DEF ServingInvariant

LEMMA AcceptInvariant ==
  ASSUME ServingInvariant, NEW r \in Requests, Accept(r) PROVE ServingInvariant'
<1> DEFINE l == ListenerOf(r)
<1>1. ServiceTypeOK /\ ControlTypeOK /\ ListenerTypeOK
  BY TypeParts DEF ServingInvariant
<1>2. ServiceInvariant'
  BY MovesService DEF ServingInvariant, Accept
<1>3. /\ handler[r] = "sent" /\ handler'[r] = "accepted"
      /\ \A q \in Requests : q # r => handler'[q] = handler[q]
      /\ UNCHANGED <<control, turn, executor, at>>
  BY <1>1 DEF Accept, Moves, ServiceTypeOK
<1>4. l \in Listeners
  BY DEF ListenerOf
<1>5. ListenersOK' /\ ListenerTypeOK'
  <2>1. listener' = [listener EXCEPT ![l] = [listener[l] EXCEPT !.st = "called", !.request = r]]
    BY <1>1, <1>4 DEF Accept, ListenerTypeOK, Tags
  <2>2. listener[l] \in Tags
    BY <1>1, <1>4 DEF ListenerTypeOK
  <2>3. /\ [listener[l] EXCEPT !.st = "called", !.request = r] \in Tags
        /\ [listener[l] EXCEPT !.st = "called", !.request = r].request = r
        /\ [listener[l] EXCEPT !.st = "called", !.request = r].ex = listener[l].ex
        /\ [listener[l] EXCEPT !.st = "called", !.request = r].queue = listener[l].queue
    BY <2>2 DEF Tags
  <2> HIDE DEF l
  <2>4. QED
    BY <1>1, <1>3, <1>4, <2>1, <2>3 DEF ListenerTypeOK, ServingInvariant, ListenersOK
<1>6. ThreadsOK' /\ HandlerOnItsExecutor' /\ ControlTypeOK'
  BY <1>1, <1>3 DEF ServingInvariant, ThreadsOK, HandlerOnItsExecutor, ControlTypeOK, control
<1>7. DestructionOK'
  BY <1>3 DEF Accept, ServingInvariant, DestructionOK, control
<1>8. TypeOK'
  BY <1>2, <1>5, <1>6, TypeParts DEF ServiceInvariant
<1>9. QED  BY <1>2, <1>5, <1>6, <1>7, <1>8 DEF ServingInvariant

LEMMA ShutdownInvariant == ServingInvariant /\ Shutdown => ServingInvariant'
<1> SUFFICES ASSUME ServingInvariant, Shutdown PROVE ServingInvariant'
  OBVIOUS
<1>1. ServiceTypeOK /\ ControlTypeOK /\ ListenerTypeOK
  BY TypeParts DEF ServingInvariant
<1>2. /\ handler' \in [Requests -> Places]
      /\ \A r \in Requests : handler'[r] = IF handler[r] = "sent" THEN "refused" ELSE handler[r]
  BY <1>1 DEF Shutdown, ServiceTypeOK, Places
<1>3. ServiceInvariant'
  BY <1>2, HandlersElsewhere DEF Shutdown, ServingInvariant, Locked, Early, Places
<1>4. ListenersOK' /\ ListenerTypeOK'
  <2>1. ASSUME NEW l \in Listeners
        PROVE  /\ listener'[l] \in Tags
               /\ listener'[l].ex = listener[l].ex /\ listener'[l].queue = listener[l].queue
               /\ listener'[l].request = listener[l].request
               /\ listener'[l].st = "called" => listener[l].st = "called"
    <3>1. listener[l] \in Tags
      BY <1>1 DEF ListenerTypeOK
    <3>2. listener'[l] = listener[l] \/ listener'[l] = [listener[l] EXCEPT !.st = "failed"]
      BY DEF Shutdown
    <3>3. CASE listener'[l] = [listener[l] EXCEPT !.st = "failed"]
      BY <3>1, <3>3 DEF Tags
    <3>4. QED  BY <3>1, <3>2, <3>3
  <2>2. listener' \in [Listeners -> Tags]
    BY <2>1 DEF Shutdown
  <2>3. QED
    BY <1>1, <2>1, <2>2 DEF ListenerTypeOK, Shutdown, ServingInvariant, ListenersOK
<1>5. ThreadsOK' /\ HandlerOnItsExecutor' /\ ControlTypeOK'
  BY <1>1, <1>2 DEF Shutdown, ServingInvariant, ThreadsOK, HandlerOnItsExecutor, ControlTypeOK
<1>6. DestructionOK'
  BY DEF Shutdown, ServingInvariant, DestructionOK
<1>7. TypeOK'
  BY <1>3, <1>4, <1>5, TypeParts DEF ServiceInvariant
<1>8. QED  BY <1>3, <1>4, <1>5, <1>6, <1>7 DEF ServingInvariant

\* A thread that polls the queue in which a listener's tag is takes the call.
LEMMA TakeCallInvariant ==
  ASSUME ServingInvariant, NEW t \in Callers, NEW l \in Listeners, TakeCall(t, l)
  PROVE  ServingInvariant'
<1> DEFINE r == listener[l].request
<1>1. ServiceTypeOK /\ ControlTypeOK /\ ListenerTypeOK
  BY TypeParts DEF ServingInvariant
<1>2. /\ r \in Requests /\ t \in Threads /\ at[t].pc = "idle"
      /\ listener[l].ex \in Executors /\ listener[l].ex = ExecutorOf[t]
  BY <1>1, StandParts DEF TakeCall, Polls, ServingInvariant, ListenersOK, ListenerTypeOK, Tags
<1> HIDE DEF r
<1>3. /\ Moves(r, "accepted", "lock") /\ executor' = [executor EXCEPT ![r] = listener[l].ex]
      /\ at' = [at EXCEPT ![t] = InHandler(l, r)]
      /\ UNCHANGED <<entry, value, writer, readers, found, answer, control, turn>>
      /\ listener' = [listener EXCEPT ![l] = Listener0("runs")]
  BY DEF TakeCall, Go, Becomes, r
<1>4. ServiceInvariant'
  BY <1>2, <1>3, MovesService DEF ServingInvariant
<1>5. /\ handler[r] = "accepted" /\ handler'[r] = "lock"
      /\ \A q \in Requests : q # r => handler'[q] = handler[q]
  BY <1>1, <1>2, <1>3 DEF Moves, ServiceTypeOK
<1>6. /\ at'[t] = InHandler(l, r) /\ \A u \in Callers : u # t => at'[u] = at[u]
      /\ at' \in [Callers -> Stands]
  BY <1>1, <1>2, <1>3, StandTypes DEF ListenerTypeOK
<1>7. ThreadsOK'
  BY <1>2, <1>5, <1>6, StandParts DEF ServingInvariant, ThreadsOK
<1>8. HandlerOnItsExecutor'
  <2>1. \A u \in Callers : at[u].pc = "handle" => at[u].request # r
    BY <1>5 DEF ServingInvariant, ThreadsOK
  <2>2. executor'[r] = ExecutorOf[t] /\ \A q \in Requests : q # r => executor'[q] = executor[q]
    BY <1>1, <1>2, <1>3 DEF ListenerTypeOK
  <2>3. QED
    BY <1>2, <1>6, <2>1, <2>2, StandParts DEF ServingInvariant, ThreadsOK, HandlerOnItsExecutor
<1>9. ListenersOK' /\ ListenerTypeOK'
  <2>1. /\ Listener0("runs") \in Tags /\ Listener0("runs").st = "runs"
        /\ Listener0("runs").ex = Listener0("runs").queue
    BY TagTypes, ZeroExecutor
  <2>2. QED
    BY <1>1, <1>2, <1>3, <1>6, <2>1 DEF ListenerTypeOK, ServingInvariant, ListenersOK
<1>10. ControlTypeOK'
  BY <1>1, <1>3 DEF ControlTypeOK, control
<1>11. DestructionOK'
  BY <1>2, <1>3, <1>5 DEF ServingInvariant, DestructionOK, CallsComplete, control
<1>12. TypeOK'
  BY <1>4, <1>9, <1>10, TypeParts DEF ServiceInvariant
<1>13. QED  BY <1>4, <1>7, <1>8, <1>9, <1>11, <1>12 DEF ServingInvariant

\* A step of a handler up to its unlock, by the thread that is in it.
LEMMA HandleInvariant ==
  ASSUME ServingInvariant, NEW t \in Callers, Handle(t) PROVE ServingInvariant'
<1> DEFINE r == at[t].request
<1>1. ServiceTypeOK /\ ControlTypeOK /\ ListenerTypeOK
  BY TypeParts DEF ServingInvariant
<1>2. /\ at[t].pc = "handle" /\ r \in Requests
      /\ HandlerStep(r) /\ UNCHANGED <<control, turn, listener, executor, at>>
  BY DEF Handle, ServingInvariant, ThreadsOK
<1> HIDE DEF r
<1>3. ServiceInvariant'
  BY <1>2, HandlerService DEF ServingInvariant
<1>4. /\ handler[r] \in {"lock", "access", "found"}
      /\ handler'[r] \in {"access", "found", "unlock"}
      /\ \A q \in Requests : q # r => handler'[q] = handler[q]
  BY <1>1, <1>2 DEF HandlerStep, Lock, Assign, Erase, Find, TakeValue, Moves, ServiceTypeOK
<1>5. ThreadsOK'
  BY <1>2, <1>4 DEF ServingInvariant, ThreadsOK
<1>6. ListenersOK' /\ ListenerTypeOK' /\ ControlTypeOK' /\ HandlerOnItsExecutor'
  BY <1>1, <1>2 DEF ListenerTypeOK, ControlTypeOK, control, ServingInvariant, ListenersOK, HandlerOnItsExecutor
<1>7. DestructionOK'
  BY <1>2, <1>4 DEF ServingInvariant, DestructionOK, CallsComplete, control
<1>8. TypeOK'
  BY <1>3, <1>6, TypeParts DEF ServiceInvariant
<1>9. QED  BY <1>3, <1>5, <1>6, <1>7, <1>8 DEF ServingInvariant

\* The handler awaits Finish, and its thread goes on in the listener.
LEMMA HandlerAwaitsInvariant ==
  ASSUME ServingInvariant, NEW t \in Callers, HandlerAwaits(t) PROVE ServingInvariant'
<1> DEFINE r == at[t].request
           a == Selecting(at[t].listener)
<1>1. ServiceTypeOK /\ ControlTypeOK /\ ListenerTypeOK
  BY TypeParts DEF ServingInvariant
<1>2. /\ at[t].pc = "handle" /\ r \in Requests /\ at[t].listener \in Listeners
      /\ Unlock(r) /\ UNCHANGED <<control, turn, listener, executor>>
  BY DEF HandlerAwaits, ServingInvariant, ThreadsOK
<1>a. a \in Stands /\ a.pc = "select" /\ a.listener \in Listeners
  BY <1>2, StandTypes, StandParts
<1>b. at' = [at EXCEPT ![t] = a]
  BY DEF HandlerAwaits, AskAgain, Go
<1> HIDE DEF r, a
<1>3. ServiceInvariant'
  BY <1>2, UnlockService DEF ServingInvariant
<1>4. /\ handler[r] = "unlock" /\ handler'[r] = "finish"
      /\ \A q \in Requests : q # r => handler'[q] = handler[q]
  BY <1>1, <1>2 DEF Unlock, Moves, ServiceTypeOK
<1>5. /\ at'[t] = a /\ \A u \in Callers : u # t => at'[u] = at[u]
      /\ at' \in [Callers -> Stands]
  BY <1>1, <1>a, <1>b DEF ListenerTypeOK
<1>6. ThreadsOK'
  <2>1. \A u \in Callers : u # t /\ at[u].pc = "handle" => at[u].request # r
    BY <1>2 DEF ServingInvariant, ThreadsOK, r
  <2>2. QED  BY <1>2, <1>4, <1>5, <1>a, <2>1 DEF ServingInvariant, ThreadsOK
<1>7. HandlerOnItsExecutor'
  BY <1>2, <1>5, <1>a DEF ServingInvariant, HandlerOnItsExecutor
<1>8. ListenersOK' /\ ListenerTypeOK' /\ ControlTypeOK'
  BY <1>1, <1>2, <1>5 DEF ListenerTypeOK, ControlTypeOK, control, ServingInvariant, ListenersOK
<1>9. DestructionOK'
  BY <1>2, <1>4 DEF ServingInvariant, DestructionOK, CallsComplete, control
<1>10. TypeOK'
  BY <1>3, <1>8, TypeParts DEF ServiceInvariant
<1>11. QED  BY <1>3, <1>6, <1>7, <1>8, <1>9, <1>10 DEF ServingInvariant

-----------------------------------------------------------------------------

LEMMA InitInvariant == Init => ServingInvariant
<1> SUFFICES ASSUME Init PROVE ServingInvariant
  OBVIOUS
<1>1. ServiceInvariant
  BY DEF Init, ServiceInit, ServiceInvariant, ServiceTypeOK, MutexOK, StorageOK, AnswersOK,
     EntryAlive, Locked, Places, Requests
<1>2. ControlTypeOK
  <2>1. Len(Services) \in Nat /\ 0 \in 0..Len(Services)
    OBVIOUS
  <2>2. QED  BY <2>1, ZeroExecutor DEF Init, ControlTypeOK
<1>3. ListenerTypeOK
  BY StandTypes, TagTypes, ZeroExecutor DEF Init, ListenerTypeOK
<1>4. TypeOK
  BY <1>1, <1>2, <1>3, TypeParts DEF ServiceInvariant
<1>5. ListenersOK
  <2>1. Listener0("new").st = "new" /\ Listener0("new").ex = Listener0("new").queue
    BY TagTypes, ZeroExecutor
  <2>2. QED  BY <2>1 DEF Init, ListenersOK
<1>6. ThreadsOK /\ HandlerOnItsExecutor
  BY StandParts DEF Init, ThreadsOK, HandlerOnItsExecutor
<1>7. DestructionOK
  BY DEF Init, DestructionOK
<1>8. QED  BY <1>1, <1>4, <1>5, <1>6, <1>7 DEF ServingInvariant

LEMMA StepInvariant == ServingInvariant /\ [Next]_vars => ServingInvariant'
<1> SUFFICES ASSUME ServingInvariant, [Next]_vars PROVE ServingInvariant'
  OBVIOUS
<1>1. CASE MainStep \/ Shutdown
  BY <1>1, StartListeningInvariant, MainInvariant, ShutdownInvariant DEF MainStep
<1>2. ASSUME NEW t \in Callers, ThreadStep(t) PROVE ServingInvariant'
  <2>1. CASE SelectNextExecutor(t) \/ Listen(t) \/ EndThread(t)
    BY <2>1, SelectInvariant, ListenInvariant, EndThreadInvariant
  <2>2. CASE Handle(t) \/ HandlerAwaits(t)
    BY <2>2, HandleInvariant, HandlerAwaitsInvariant
  <2>3. ASSUME NEW l \in Listeners, TakeCall(t, l) \/ StopListening(t, l)
        PROVE  ServingInvariant'
    BY <2>3, TakeCallInvariant, StopListeningInvariant
  <2>4. ASSUME NEW r \in Requests, EndHandler(t, r) PROVE ServingInvariant'
    BY <2>4, CallMovesInvariant DEF EndHandler
  <2>5. QED  BY <1>2, <2>1, <2>2, <2>3, <2>4 DEF ThreadStep
<1>3. ASSUME NEW r \in Requests, Accept(r) \/ FinishDone(r) PROVE ServingInvariant'
  BY <1>3, AcceptInvariant, CallMovesInvariant DEF FinishDone
<1>4. CASE UNCHANGED vars
  <2>1. UNCHANGED <<service, turn, main, started, closed, joined, listener, executor, at>>
    BY <1>4 DEF vars
  <2>2. ServiceInvariant' /\ DestructionOK'
    BY <2>1, ServiceKept
  <2>3. /\ ListenersOK' /\ ThreadsOK' /\ HandlerOnItsExecutor'
        /\ ControlTypeOK' /\ ListenerTypeOK'
    BY <2>1, TypeParts DEF service, ServingInvariant, ListenersOK, ThreadsOK, HandlerOnItsExecutor,
       ControlTypeOK, ListenerTypeOK
  <2>4. TypeOK'
    BY <2>2, <2>3, TypeParts DEF ServiceInvariant
  <2>5. QED  BY <2>2, <2>3, <2>4 DEF ServingInvariant
<1>5. QED  BY <1>1, <1>2, <1>3, <1>4 DEF Next

\* The invariant of the calls, types included, for any number of executors,
\* threads and requests.
LEMMA ServingInvariance == Spec => []ServingInvariant
  BY InitInvariant, StepInvariant, PTL DEF Spec

\* variable_service_impl.cpp:32: the iterator that ReadImpl dereferences is valid.
THEOREM IteratorValid == Spec => []EntryAlive
<1>1. ServingInvariant => EntryAlive
  BY DEF ServingInvariant, ServiceInvariant
<1>2. QED  BY <1>1, ServingInvariance, PTL

\* variable_service_impl.cpp:28: no handler holds the lock while it awaits Finish.
THEOREM LockReleased == Spec => []NoLockAcrossAwait
<1>1. ServingInvariant => NoLockAcrossAwait
  <2> SUFFICES ASSUME ServingInvariant, NEW r \in Requests,
                      handler[r] \in {"finish", "finished", "ended"}
               PROVE  writer # r /\ r \notin readers
    BY DEF NoLockAcrossAwait
  <2>1. ~Locked(r) /\ readers \subseteq Reads
    BY DEF Locked, ServingInvariant, ServiceInvariant, ServiceTypeOK
  <2>2. QED  BY <2>1 DEF ServingInvariant, ServiceInvariant, MutexOK, Requests
<1>2. QED  BY <1>1, ServingInvariance, PTL

\* server.hpp:300: a handler runs on the executor its listener had selected.
THEOREM HandlerStaysOnExecutor == Spec => []HandlerOnItsExecutor
<1>1. ServingInvariant => HandlerOnItsExecutor
  BY DEF ServingInvariant
<1>2. QED  BY <1>1, ServingInvariance, PTL

\* server.cpp, ~Server: no Finish comes after the queue is shut down.
THEOREM FinishBeforeClose == Spec => []FinishOnOpenQueue
<1>1. ServingInvariant => FinishOnOpenQueue
  <2> SUFFICES ASSUME ServingInvariant, NEW t \in Callers, at[t].pc = "handle"
               PROVE  executor[at[t].request] >= closed
    BY DEF FinishOnOpenQueue
  <2>1. /\ at[t].request \in Requests
        /\ handler[at[t].request] \in {"lock", "access", "found", "unlock"}
    BY DEF ServingInvariant, ThreadsOK
  <2>2. closed = 0
    BY <2>1 DEF ServingInvariant, DestructionOK, CallsComplete
  <2>3. executor[at[t].request] \in 0..N - 1
    BY <2>1, TypeParts DEF ServingInvariant, ListenerTypeOK, Executors
  <2>4. QED  BY <2>2, <2>3
<1>2. QED  BY <1>1, ServingInvariance, PTL

-----------------------------------------------------------------------------
(* The destruction. *)

\* The tag of a listener, or of the Finish of a call, is or will be in a queue.
Waits(l)   == listener[l].st \in {"asks", "called", "failed"}
Pending(r) == handler[r] \in {"finish", "finished"}

LEMMA DrainedParts ==
  ASSUME NEW e
  PROVE  /\ Drained(e) <=> /\ \A l \in Listeners : Waits(l) => listener[l].queue # e
                           /\ \A r \in Requests : Pending(r) => executor[r] # e
         /\ Drained(e)' <=> /\ \A l \in Listeners : Waits(l)' => listener'[l].queue # e
                            /\ \A r \in Requests : Pending(r)' => executor'[r] # e
BY DEF Drained, Waits, Pending

\* Nothing comes into a queue that is shut down and empty.
LEMMA DrainedStays ==
  ASSUME NEW e \in Executors, e < closed, Drained(e), ControlTypeOK,
         \A l \in Listeners : Waits(l)' =>
           \/ Waits(l) /\ listener'[l].queue = listener[l].queue
           \/ listener'[l].queue \in Executors /\ listener'[l].queue >= closed,
         \A r \in Requests : Pending(r)' =>
           \/ Pending(r) /\ executor'[r] = executor[r]
           \/ closed = 0
  PROVE  Drained(e)'
BY DrainedParts DEF Executors, ControlTypeOK

Ends == Attended /\ Unstarted /\ ThreadsGone

\* A step that starts no listener, ends no thread and is not one of main().
LEMMA EndsKept ==
  ASSUME Ends, ControlTypeOK, UNCHANGED control,
         \A t \in Callers, l \in Listeners :
           Runs(t, l) => Runs(t, l)' \/ listener'[l].st # "runs",
         \A l \in Listeners : listener'[l].st = "runs" =>
           listener[l].st = "runs" \/ \E t \in Callers : Runs(t, l)',
         \A l \in Listeners : listener'[l].st = "new" => listener[l].st = "new",
         main # "start" => at'[Main] = at[Main],
         \A t \in Threads : at'[t] = Gone <=> at[t] = Gone,
         \A l \in Listeners : Waits(l)' =>
           \/ Waits(l) /\ listener'[l].queue = listener[l].queue
           \/ listener'[l].queue \in Executors /\ listener'[l].queue >= closed,
         \A r \in Requests : Pending(r)' =>
           \/ Pending(r) /\ executor'[r] = executor[r]
           \/ closed = 0
  PROVE  Ends'
<1>1. UNCHANGED <<main, started, closed, joined>>
  BY DEF control
<1>2. Attended'
  BY DEF Ends, Attended
<1>3. Unstarted'
  BY <1>1 DEF Ends, Unstarted
<1>4. ThreadsGone'
  <2>1. ASSUME NEW t \in Threads, at'[t] = Gone
        PROVE  ExecutorOf[t] < closed' /\ Drained(ExecutorOf[t])'
    <3>1. ExecutorOf[t] \in Executors /\ ExecutorOf[t] < closed /\ Drained(ExecutorOf[t])
      BY <2>1 DEF Ends, ThreadsGone
    <3>2. PICK e \in Executors : e = ExecutorOf[t]
      BY <3>1
    <3>3. Drained(e)'
      BY <3>1, <3>2, DrainedStays
    <3>4. QED  BY <1>1, <3>1, <3>2, <3>3
  <2>2. QED  BY <1>1, <2>1 DEF Ends, ThreadsGone
<1>5. QED  BY <1>2, <1>3, <1>4 DEF Ends

\* A thread that runs or idles has not ended.
LEMMA StandsApart ==
  /\ Idle # Gone
  /\ \A l, r : InHandler(l, r) # Gone /\ Selecting(l) # Gone
  /\ \A l, e : Listening(l, e) # Gone
BY StandParts

\* The step of a thread that goes on in its listener leaves the rest alone.
LEMMA GoEnds ==
  ASSUME ServingInvariant, Ends, NEW t \in Callers, NEW a \in Stands, Go(t, a),
         at[t].pc \in {"select", "listen", "handle"} \/ t \in Threads, at[t].pc # "gone", a # Gone
  PROVE  /\ main # "start" => at'[Main] = at[Main]
         /\ \A u \in Threads : at'[u] = Gone <=> at[u] = Gone
         /\ at'[t] = a /\ \A u \in Callers : u # t => at'[u] = at[u]
<1>1. at \in [Callers -> Stands] /\ Main \notin Threads
  BY TypeParts DEF ServingInvariant, ListenerTypeOK
<1>2. at'[t] = a /\ \A u \in Callers : u # t => at'[u] = at[u]
  BY <1>1 DEF Go
<1>3. main # "start" => t # Main
  BY <1>1, StandParts DEF Ends, Unstarted
<1>4. at[t] # Gone
  BY StandParts
<1>5. QED  BY <1>2, <1>3, <1>4 DEF Callers

LEMMA SelectEnds ==
  ASSUME ServingInvariant, Ends, NEW t \in Callers, SelectNextExecutor(t) PROVE Ends'
<1>1. ControlTypeOK /\ turn \in Executors /\ at[t].listener \in Listeners /\ at[t].pc = "select"
  BY TypeParts DEF ServingInvariant, ControlTypeOK, ThreadsOK, SelectNextExecutor
<1>2. PICK a \in Stands : a = Listening(at[t].listener, turn)
  BY <1>1, StandTypes
<1>3. a # Gone /\ a.pc = "listen" /\ a.listener = at[t].listener /\ Go(t, a)
  BY <1>2, StandParts, StandsApart DEF SelectNextExecutor
<1>4. /\ main # "start" => at'[Main] = at[Main]
      /\ \A u \in Threads : at'[u] = Gone <=> at[u] = Gone
      /\ at'[t] = a /\ \A u \in Callers : u # t => at'[u] = at[u]
  BY <1>1, <1>3, GoEnds
<1>5. UNCHANGED <<handler, executor, listener, control>>
  BY DEF SelectNextExecutor, service
<1>6. \A u \in Callers, l \in Listeners : Runs(u, l) => Runs(u, l)'
  BY <1>3, <1>4 DEF Runs
<1>7. QED  BY <1>1, <1>4, <1>5, <1>6, EndsKept DEF Waits, Pending

LEMMA ListenEnds ==
  ASSUME ServingInvariant, Ends, NEW t \in Callers, Listen(t) PROVE Ends'
<1>1. /\ ControlTypeOK /\ ListenerTypeOK /\ at[t].listener \in Listeners /\ at[t].pc = "listen"
      /\ at[t].ex \in Executors /\ at[t].ex >= closed
  <2>1. ControlTypeOK /\ ListenerTypeOK /\ at[t].listener \in Listeners /\ at[t].pc = "listen"
    BY TypeParts DEF ServingInvariant, ThreadsOK, Listen
  <2>2. at[t].ex \in Executors
    BY <2>1 DEF ListenerTypeOK, Stands
  <2>3. ~(at[t].ex < closed)
    BY <2>1 DEF Listen, Aborts
  <2>4. QED  BY <2>1, <2>2, <2>3 DEF Executors, ControlTypeOK
<1>2. Go(t, Idle) /\ UNCHANGED <<handler, executor, control>>
  BY DEF Listen, service
<1>3. /\ main # "start" => at'[Main] = at[Main]
      /\ \A u \in Threads : at'[u] = Gone <=> at[u] = Gone
      /\ at'[t] = Idle /\ \A u \in Callers : u # t => at'[u] = at[u]
  BY <1>1, <1>2, GoEnds, StandTypes, StandsApart
<1>4. PICK k \in Listeners : k = at[t].listener
  BY <1>1
<1>5. /\ listener'[k].st \in {"asks", "failed"} /\ listener'[k].queue = at[t].ex
      /\ \A l \in Listeners : l # k => listener'[l] = listener[l]
  <2>1. PICK st \in {"asks", "failed"} :
          listener' = [listener EXCEPT ![k] = Listener(st, at[t].ex, at[t].ex, Absent)]
    BY <1>4 DEF Listen, Becomes, NotifiedOn
  <2>2. QED  BY <1>1, <2>1, TagTypes DEF ListenerTypeOK
<1>6. \A u \in Callers, l \in Listeners : Runs(u, l) => Runs(u, l)' \/ listener'[l].st # "runs"
  BY <1>3, <1>4, <1>5 DEF Runs
<1>7. \A l \in Listeners : Waits(l)' =>
        \/ Waits(l) /\ listener'[l].queue = listener[l].queue
        \/ listener'[l].queue \in Executors /\ listener'[l].queue >= closed
  BY <1>1, <1>5 DEF Waits
<1>8. QED  BY <1>1, <1>2, <1>3, <1>5, <1>6, <1>7, EndsKept DEF Pending

LEMMA TakeCallEnds ==
  ASSUME ServingInvariant, Ends, NEW t \in Callers, NEW l \in Listeners, TakeCall(t, l)
  PROVE  Ends'
<1>1. /\ ServiceTypeOK /\ ControlTypeOK /\ ListenerTypeOK
      /\ at[t] = Idle /\ t \in Threads
  BY TypeParts DEF ServingInvariant, TakeCall, Polls
<1>2. PICK r \in Requests : r = listener[l].request
  BY DEF ServingInvariant, ListenersOK, TakeCall
<1>3. /\ Moves(r, "accepted", "lock") /\ executor' = [executor EXCEPT ![r] = listener[l].ex]
      /\ Go(t, InHandler(l, r)) /\ Becomes(l, Listener0("runs")) /\ UNCHANGED control
  BY <1>2 DEF TakeCall
<1>4. PICK a \in Stands : a = InHandler(l, r)
  BY StandTypes
<1>5. a # Gone /\ a.pc = "handle" /\ a.listener = l
  BY <1>4, StandParts, StandsApart
<1>6. /\ main # "start" => at'[Main] = at[Main]
      /\ \A u \in Threads : at'[u] = Gone <=> at[u] = Gone
      /\ at'[t] = a /\ \A u \in Callers : u # t => at'[u] = at[u]
  BY <1>1, <1>3, <1>4, <1>5, GoEnds, StandParts
<1>7. /\ listener'[l].st = "runs"
      /\ \A k \in Listeners : k # l => listener'[k] = listener[k]
  BY <1>1, <1>3, TagTypes, ZeroExecutor DEF ListenerTypeOK, Becomes
<1>8. \A u \in Callers, k \in Listeners : Runs(u, k) => Runs(u, k)'
  BY <1>1, <1>6, StandParts DEF Runs
<1>9. Runs(t, l)'
  BY <1>5, <1>6 DEF Runs
<1>10. \A q \in Requests : Pending(q)' => Pending(q) /\ executor'[q] = executor[q]
  BY <1>1, <1>3 DEF Moves, ServiceTypeOK, ListenerTypeOK, Pending
<1>11. \A k \in Listeners : Waits(k)' => Waits(k) /\ listener'[k].queue = listener[k].queue
  BY <1>7 DEF Waits
<1>12. QED  BY <1>1, <1>3, <1>6, <1>7, <1>8, <1>9, <1>10, <1>11, EndsKept

\* What goes on in a handler, and the end of a call.
LEMMA HandlerEnds ==
  ASSUME ServingInvariant, Ends, UNCHANGED <<control, listener, executor, at>>,
         NEW r \in Requests, NEW from, NEW to, Moves(r, from, to),
         to \notin {"finish", "finished"} \/ from \in {"finish", "finished"}
  PROVE  Ends'
<1>1. ServiceTypeOK /\ ControlTypeOK
  BY TypeParts DEF ServingInvariant
<1>2. \A q \in Requests : Pending(q)' => Pending(q)
  BY <1>1 DEF Moves, ServiceTypeOK, Pending
<1>3. QED  BY <1>1, <1>2, EndsKept DEF Waits, Runs

LEMMA HandleEnds ==
  ASSUME ServingInvariant, Ends, NEW t \in Callers, Handle(t) PROVE Ends'
<1>1. PICK r \in Requests : r = at[t].request
  BY DEF Handle, ServingInvariant, ThreadsOK
<1>2. HandlerStep(r) /\ UNCHANGED <<control, listener, executor, at>>
  BY <1>1 DEF Handle
<1>3. PICK from, to \in {"lock", "access", "found", "unlock"} : Moves(r, from, to)
  BY <1>2 DEF HandlerStep, Lock, Assign, Erase, Find, TakeValue
<1>4. QED  BY <1>2, <1>3, HandlerEnds

\* A Finish is enqueued before the queues are shut down.
LEMMA HandlerAwaitsEnds ==
  ASSUME ServingInvariant, Ends, NEW t \in Callers, HandlerAwaits(t) PROVE Ends'
<1>1. /\ ServiceTypeOK /\ ControlTypeOK /\ at[t].pc = "handle" /\ at[t].listener \in Listeners
  BY TypeParts DEF ServingInvariant, HandlerAwaits, ThreadsOK
<1>2. PICK r \in Requests : r = at[t].request
  BY <1>1 DEF ServingInvariant, ThreadsOK
<1>3. /\ Moves(r, "unlock", "finish") /\ UNCHANGED <<control, listener, executor>>
  BY <1>2 DEF HandlerAwaits, Unlock
<1>4. PICK a \in Stands : a = Selecting(at[t].listener)
  BY <1>1, StandTypes
<1>5. a # Gone /\ a.pc = "select" /\ a.listener = at[t].listener /\ Go(t, a)
  BY <1>4, StandParts, StandsApart DEF HandlerAwaits, AskAgain
<1>6. /\ main # "start" => at'[Main] = at[Main]
      /\ \A u \in Threads : at'[u] = Gone <=> at[u] = Gone
      /\ at'[t] = a /\ \A u \in Callers : u # t => at'[u] = at[u]
  BY <1>1, <1>5, GoEnds
<1>7. \A u \in Callers, k \in Listeners : Runs(u, k) => Runs(u, k)'
  BY <1>5, <1>6 DEF Runs
<1>8. closed = 0
  BY <1>3 DEF ServingInvariant, DestructionOK, CallsComplete, Moves
<1>9. QED  BY <1>1, <1>3, <1>6, <1>7, <1>8, EndsKept DEF Waits

LEMMA StopListeningEnds ==
  ASSUME ServingInvariant, Ends, NEW t \in Callers, NEW l \in Listeners, StopListening(t, l)
  PROVE  Ends'
<1>1. ControlTypeOK /\ ListenerTypeOK /\ UNCHANGED <<control, handler, executor, at>>
  BY TypeParts DEF ServingInvariant, StopListening, service
<1>2. /\ listener'[l].st = "ended"
      /\ \A k \in Listeners : k # l => listener'[k] = listener[k]
  BY <1>1, TagTypes, ZeroExecutor DEF ListenerTypeOK, StopListening, Becomes
<1>3. QED  BY <1>1, <1>2, EndsKept DEF Waits, Runs, Pending

LEMMA AcceptEnds ==
  ASSUME ServingInvariant, Ends, NEW r \in Requests, Accept(r) PROVE Ends'
<1>1. ServiceTypeOK /\ ControlTypeOK /\ ListenerTypeOK /\ UNCHANGED <<control, executor, at>>
  BY TypeParts DEF ServingInvariant, Accept
<1>2. PICK k \in Listeners : k = ListenerOf(r)
  BY DEF ListenerOf
<1>3. /\ listener[k].st = "asks" /\ listener'[k].st = "called"
      /\ listener'[k].queue = listener[k].queue
      /\ \A l \in Listeners : l # k => listener'[l] = listener[l]
  <2>1. listener[k] \in Tags /\ listener[k].st = "asks"
        /\ listener' = [listener EXCEPT ![k].st = "called", ![k].request = r]
    BY <1>1, <1>2 DEF Accept, ListenerTypeOK
  <2>2. QED  BY <1>1, <2>1 DEF ListenerTypeOK, Tags
<1>4. \A q \in Requests : Pending(q)' => Pending(q)
  BY <1>1 DEF Accept, Moves, ServiceTypeOK, Pending
<1>5. QED  BY <1>1, <1>3, <1>4, EndsKept DEF Waits, Runs

LEMMA StartListeningEnds ==
  ASSUME ServingInvariant, Ends, StartListening PROVE Ends'
<1>1. /\ ControlTypeOK /\ ListenerTypeOK /\ at[Main] = Idle /\ main = "start"
      /\ started < Len(Services) /\ Main \in Callers /\ Main \notin Threads
      /\ UNCHANGED <<main, closed, joined, handler, executor>> /\ started' = started + 1
  BY TypeParts DEF ServingInvariant, StartListening, service, Callers
<1>2. PICK k \in Listeners : k = Services[started + 1]
  BY <1>1, StartedListener
<1>3. PICK a \in Stands : a = Selecting(k)
  BY StandTypes
<1>4. /\ at'[Main] = a /\ \A u \in Callers : u # Main => at'[u] = at[u]
      /\ a.pc = "select" /\ a.listener = k
  BY <1>1, <1>2, <1>3, StandParts DEF StartListening, Go, ListenerTypeOK
<1>5. /\ listener'[k].st = "runs" /\ \A l \in Listeners : l # k => listener'[l] = listener[l]
  BY <1>1, <1>2, TagTypes, ZeroExecutor DEF StartListening, Becomes, ListenerTypeOK
<1>6. Attended'
  <2>1. \A u \in Callers, l \in Listeners : Runs(u, l) => Runs(u, l)'
    BY <1>1, <1>4, StandParts DEF Runs
  <2>2. Runs(Main, k)'
    BY <1>4 DEF Runs
  <2>3. QED  BY <1>1, <1>5, <2>1, <2>2 DEF Ends, Attended
<1>7. Unstarted'
  <2>1. ASSUME NEW l \in Listeners, listener'[l].st = "new"
        PROVE  \E i \in DOMAIN Services : i > started' /\ Services[i] = l
    <3>1. l # k /\ listener[l].st = "new"
      BY <1>5, <2>1
    <3>2. PICK i \in DOMAIN Services : i > started /\ Services[i] = l
      BY <3>1 DEF Ends, Unstarted
    <3>3. i # started + 1
      BY <1>2, <3>1, <3>2
    <3>4. i \in Nat /\ started \in Nat
      BY <1>1 DEF ControlTypeOK
    <3>5. QED  BY <1>1, <3>2, <3>3, <3>4
  <2>2. QED  BY <1>1, <2>1 DEF Unstarted
<1>8. ThreadsGone'
  <2>1. \A t \in Threads : at'[t] = at[t]
    BY <1>1, <1>4 DEF Callers
  <2>2. closed = 0
    BY <1>1 DEF ServingInvariant, DestructionOK
  <2>3. ASSUME NEW t \in Threads PROVE at[t] # Gone
    <3>1. ExecutorOf[t] \in 0..N - 1
      BY DEF Executors
    <3>2. QED  BY <2>2, <3>1 DEF Ends, ThreadsGone
  <2>4. QED  BY <1>1, <2>1, <2>3 DEF Ends, ThreadsGone
<1>9. QED  BY <1>6, <1>7, <1>8 DEF Ends

LEMMA EndThreadEnds ==
  ASSUME ServingInvariant, Ends, NEW t \in Callers, EndThread(t) PROVE Ends'
<1>1. /\ ControlTypeOK /\ ListenerTypeOK /\ at[t] = Idle /\ t \in Threads /\ Main \notin Threads
      /\ ExecutorOf[t] < closed /\ Drained(ExecutorOf[t])
      /\ UNCHANGED <<main, started, closed, joined, handler, listener, executor>>
  BY TypeParts DEF ServingInvariant, EndThread, IsShutDown, service, control
<1>2. at'[t] = Gone /\ \A u \in Callers : u # t => at'[u] = at[u]
  BY <1>1 DEF EndThread, Go, ListenerTypeOK
<1>3. Attended'
  <2>1. \A u \in Callers, l \in Listeners : Runs(u, l) => Runs(u, l)'
    BY <1>1, <1>2, StandParts DEF Runs
  <2>2. QED  BY <1>1, <2>1 DEF Ends, Attended
<1>4. Unstarted'
  BY <1>1, <1>2 DEF Ends, Unstarted, Callers
<1>5. ThreadsGone'
  <2>1. \A e : Drained(e)' <=> Drained(e)
    BY <1>1 DEF Drained
  <2>2. \A u \in Threads : at'[u] = Gone <=> u = t \/ at[u] = Gone
    BY <1>2 DEF Callers
  <2>3. QED  BY <1>1, <2>1, <2>2 DEF Ends, ThreadsGone
<1>6. QED  BY <1>3, <1>4, <1>5 DEF Ends

LEMMA MainEnds ==
  ASSUME ServingInvariant, Ends, Serve \/ ShutdownReturns \/ CloseExecutor \/ JoinExecutor
  PROVE  Ends'
<1>1. /\ ControlTypeOK /\ UNCHANGED <<handler, started, listener, executor, at>>
  BY TypeParts DEF ServingInvariant, Serve, ShutdownReturns, CloseExecutor, JoinExecutor, service
<1>2. Attended'
  BY <1>1 DEF Ends, Attended, Runs
<1>3. Unstarted'
  BY <1>1 DEF Ends, Unstarted, Serve, ShutdownReturns, CloseExecutor, JoinExecutor
<1>4. /\ closed' >= closed /\ closed \in Nat /\ closed' \in Nat /\ joined \in Nat /\ N \in Nat
      /\ main' = "over" /\ main # "over" => joined' = N
  BY <1>1 DEF ControlTypeOK, Serve, ShutdownReturns, CloseExecutor, JoinExecutor
<1>5. \A t \in Threads : ExecutorOf[t] < joined' => at[t] = Gone
  <2>1. ASSUME NEW t \in Threads, ExecutorOf[t] < joined' PROVE at[t] = Gone
    <3>1. ExecutorOf[t] \in Nat
      BY DEF Executors
    <3>2. CASE joined' = joined
      BY <2>1, <3>2 DEF Ends, ThreadsGone
    <3>3. CASE JoinExecutor
      <4>1. joined' = joined + 1 /\ (ExecutorOf[t] = joined => at[t] = Gone)
        BY <3>3 DEF JoinExecutor
      <4>2. ExecutorOf[t] < joined \/ ExecutorOf[t] = joined
        BY <1>4, <2>1, <3>1, <4>1
      <4>3. QED  BY <4>1, <4>2 DEF Ends, ThreadsGone
    <3>4. QED  BY <3>2, <3>3 DEF Serve, ShutdownReturns, CloseExecutor
  <2>2. QED  BY <2>1
<1>6. ThreadsGone'
  <2>1. \A e : Drained(e)' <=> Drained(e)
    BY <1>1 DEF Drained
  <2>2. \A t \in Threads : ExecutorOf[t] \in Nat
    BY DEF Executors
  <2>3. main' = "over" => joined' = N
    BY <1>4 DEF Ends, ThreadsGone, Serve, ShutdownReturns, CloseExecutor, JoinExecutor
  <2>4. QED  BY <1>1, <1>4, <1>5, <2>1, <2>2, <2>3 DEF Ends, ThreadsGone
<1>7. QED  BY <1>2, <1>3, <1>6 DEF Ends

LEMMA ShutdownEnds == ServingInvariant /\ Ends /\ Shutdown => Ends'
<1> SUFFICES ASSUME ServingInvariant, Ends, Shutdown PROVE Ends'
  OBVIOUS
<1>1. /\ ServiceTypeOK /\ ControlTypeOK /\ ListenerTypeOK
      /\ main = "serve" /\ main' = "shutdown"
      /\ UNCHANGED <<started, closed, joined, executor, at>>
  BY TypeParts DEF ServingInvariant, Shutdown
<1>2. ASSUME NEW l \in Listeners
      PROVE  /\ listener'[l].queue = listener[l].queue
             /\ Waits(l)' => Waits(l)
             /\ listener'[l].st \in {"runs", "new"} => listener'[l].st = listener[l].st
  <2>1. listener[l] \in Tags
    BY <1>1 DEF ListenerTypeOK
  <2>2. \/ listener'[l] = listener[l]
        \/ listener[l].st = "asks" /\ listener'[l] = [listener[l] EXCEPT !.st = "failed"]
    BY DEF Shutdown
  <2>3. QED  BY <2>1, <2>2 DEF Tags, Waits
<1>3. \A r \in Requests : Pending(r)' => Pending(r)
  BY DEF Shutdown, Pending
<1>4. Attended'
  BY <1>1, <1>2 DEF Ends, Attended, Runs
<1>5. Unstarted'
  BY <1>1, <1>2 DEF Ends, Unstarted
<1>6. ThreadsGone'
  <2>1. ASSUME NEW e, Drained(e) PROVE Drained(e)'
    <3>1. /\ \A l \in Listeners : Waits(l) => listener[l].queue # e
          /\ \A r \in Requests : Pending(r) => executor[r] # e
      BY <2>1, DrainedParts
    <3>2. ASSUME NEW l \in Listeners, Waits(l)' PROVE listener'[l].queue # e
      BY <1>2, <3>1, <3>2
    <3>3. ASSUME NEW r \in Requests, Pending(r)' PROVE executor'[r] # e
      BY <1>1, <1>3, <3>1, <3>3
    <3>4. QED  BY <3>2, <3>3, DrainedParts
  <2>2. QED  BY <1>1, <2>1 DEF Ends, ThreadsGone
<1>7. QED  BY <1>4, <1>5, <1>6 DEF Ends

LEMMA InitEnds == Init => Ends
<1> SUFFICES ASSUME Init PROVE Ends
  OBVIOUS
<1>1. \A l \in Listeners : listener[l].st = "new"
  BY TagTypes, ZeroExecutor DEF Init
<1>2. \A t \in Threads : at[t] # Gone
  BY StandsApart DEF Init, Callers
<1>3. Unstarted
  <2>1. ASSUME NEW l \in Listeners PROVE \E i \in DOMAIN Services : i > 0 /\ Services[i] = l
    BY DEF Listeners
  <2>2. QED  BY <2>1 DEF Init, Unstarted
<1>4. ThreadsGone
  <2>1. \A t \in Threads : ~(ExecutorOf[t] < 0)
    BY DEF Executors
  <2>2. QED  BY <1>2, <2>1 DEF Init, ThreadsGone
<1>5. QED  BY <1>1, <1>3, <1>4 DEF Ends, Attended

LEMMA StepEnds == ServingInvariant /\ Ends /\ [Next]_vars => Ends'
<1> SUFFICES ASSUME ServingInvariant, Ends, [Next]_vars PROVE Ends'
  OBVIOUS
<1>1. CASE MainStep \/ Shutdown
  BY <1>1, StartListeningEnds, MainEnds, ShutdownEnds DEF MainStep
<1>2. ASSUME NEW t \in Callers, ThreadStep(t) PROVE Ends'
  <2>1. CASE SelectNextExecutor(t) \/ Listen(t) \/ EndThread(t)
    BY <2>1, SelectEnds, ListenEnds, EndThreadEnds
  <2>2. CASE Handle(t) \/ HandlerAwaits(t)
    BY <2>2, HandleEnds, HandlerAwaitsEnds
  <2>3. ASSUME NEW l \in Listeners, TakeCall(t, l) \/ StopListening(t, l) PROVE Ends'
    BY <2>3, TakeCallEnds, StopListeningEnds
  <2>4. ASSUME NEW r \in Requests, EndHandler(t, r) PROVE Ends'
    BY <2>4, HandlerEnds DEF EndHandler
  <2>5. QED  BY <1>2, <2>1, <2>2, <2>3, <2>4 DEF ThreadStep
<1>3. ASSUME NEW r \in Requests, Accept(r) \/ FinishDone(r) PROVE Ends'
  BY <1>3, AcceptEnds, HandlerEnds DEF FinishDone
<1>4. CASE UNCHANGED vars
  <2>1. ControlTypeOK /\ UNCHANGED <<handler, control, listener, executor, at>>
    BY <1>4, TypeParts DEF vars, service, control, ServingInvariant
  <2>2. QED  BY <2>1, EndsKept DEF Waits, Pending, Runs
<1>5. QED  BY <1>1, <1>2, <1>3, <1>4 DEF Next

\* The invariant of the server, of the calls it serves and of its destruction,
\* for any number of executors, threads and requests.
THEOREM ServerInvariance == Spec => []ServerInvariant
<1>1. Init => Ends
  BY InitEnds
<1>2. ServingInvariant /\ Ends /\ [Next]_vars => Ends'
  BY StepEnds
<1>3. ServingInvariant /\ Ends => ServerInvariant
  BY DEF ServerInvariant, Ends
<1>4. QED  BY <1>1, <1>2, <1>3, ServingInvariance, PTL DEF Spec

\* server.cpp, ~Server, async_grpc.hpp, ~ExecutorThreads: when they return, every
\* listener and every handler has ended, and every thread; none is left suspended
\* in a queue that nobody polls, if each executor has a thread.
THEOREM DestructionIsComplete ==
  ASSUME \A e \in Executors : \E t \in Threads : ExecutorOf[t] = e
  PROVE  Spec => []NothingAfterDestruction
<1>1. ServerInvariant => NothingAfterDestruction
  <2> SUFFICES ASSUME ServerInvariant, main = "over" PROVE AllEnded
    BY DEF NothingAfterDestruction
  <2>1. /\ ServiceTypeOK /\ ControlTypeOK /\ ListenerTypeOK /\ CallsComplete
        /\ joined = N /\ started = Len(Services) /\ at[Main] = Idle
    BY TypeParts DEF ServerInvariant, ServingInvariant, DestructionOK, Unstarted, ThreadsGone
  <2>2. \A t \in Threads : at[t] = Gone
    <3>1. \A t \in Threads : ExecutorOf[t] < joined
      BY <2>1 DEF Executors
    <3>2. QED  BY <3>1 DEF ServerInvariant, ThreadsGone
  <2>3. \A e \in Executors : Drained(e)
    BY <2>2 DEF ServerInvariant, ThreadsGone
  <2>4. ASSUME NEW r \in Requests PROVE handler[r] \in {"unmade", "refused", "ended"}
    <3>1. executor[r] \in Executors
      BY <2>1 DEF ListenerTypeOK
    <3>2. QED  BY <2>1, <2>3, <3>1, DrainedParts DEF CallsComplete, Pending
  <2>5. ASSUME NEW l \in Listeners PROVE listener[l].st = "ended"
    <3>1. listener[l] \in Tags
      BY <2>1 DEF ListenerTypeOK
    <3>2. listener[l].queue \in Executors
          /\ listener[l].st \in {"new", "runs", "asks", "called", "failed", "ended"}
      BY <3>1 DEF Tags
    <3>3. ~Waits(l)
      BY <2>3, <3>2, DrainedParts
    <3>4. listener[l].st # "new"
      <4>1. \A i \in DOMAIN Services : ~(i > Len(Services))
        OBVIOUS
      <4>2. QED  BY <2>1, <4>1 DEF ServerInvariant, Unstarted
    <3>5. listener[l].st # "runs"
      <4>1. \A t \in Callers : ~Runs(t, l)
        BY <2>1, <2>2, StandParts DEF Runs, Callers
      <4>2. QED  BY <4>1 DEF ServerInvariant, Attended
    <3>6. QED  BY <3>2, <3>3, <3>4, <3>5 DEF Waits
  <2>6. QED  BY <2>2, <2>4, <2>5 DEF AllEnded
<1>2. QED  BY <1>1, ServerInvariance, PTL

-----------------------------------------------------------------------------
(* The store. *)

\* What the handlers do is what VariableStore does, or nothing it can see.
LEMMA HandlerStores ==
  ASSUME ServiceInvariant, NEW r \in Requests, HandlerStep(r) \/ Unlock(r)
  PROVE  [Store!Next]_<<value, answer>>
<1> USE DEF ServiceInvariant
<1>1. CASE Lock(r) \/ Unlock(r)
  BY <1>1 DEF Lock, Unlock
<1>2. CASE Assign(r)
  <2>1. answer[r] = NoAnswer /\ r \in Writes
    BY <1>2 DEF Assign, Moves, AnswersOK, Places
  <2>2. Store!Write(r)
    BY <1>2, <2>1 DEF Assign, InsertOrAssign, Answers, Store!Write, Store!Answer, StorageOK
  <2>3. QED  BY <2>1, <2>2 DEF Store!Next
<1>3. CASE Erase(r)
  <2>1. answer[r] = NoAnswer /\ r \in Dels
    BY <1>3 DEF Erase, Moves, AnswersOK, Places
  <2>2. Store!Del(r)
    BY <1>3, <2>1 DEF Erase, Answers, Store!Del, Store!Answer, StorageOK
  <2>3. QED  BY <2>1, <2>2 DEF Store!Next
<1>4. CASE Find(r) /\ entry # Absent
  BY <1>4 DEF Find
<1>5. CASE Find(r) /\ entry = Absent
  <2>1. answer[r] = NoAnswer /\ r \in Reads /\ value = Absent
    BY <1>5 DEF Find, Moves, AnswersOK, Places, StorageOK
  <2>2. Store!Read(r)
    BY <1>5, <2>1 DEF Find, Answers, Store!Read, Store!Answer
  <2>3. QED  BY <2>1, <2>2 DEF Store!Next
<1>6. CASE TakeValue(r)
  <2>1. answer[r] = NoAnswer /\ r \in Reads
    BY <1>6 DEF TakeValue, Moves, AnswersOK, Places
  <2>2. Store!Read(r)
    BY <1>6, <2>1 DEF TakeValue, Answers, Store!Read, Store!Answer
  <2>3. QED  BY <2>1, <2>2 DEF Store!Next
<1>7. QED  BY <1>1, <1>2, <1>3, <1>4, <1>5, <1>6 DEF HandlerStep

\* However the handlers interleave on any number of threads, the service is a
\* store in which each request takes effect in one step.
THEOREM ServerRefinesStore == Spec => ImplementsStore
<1>1. Init => Store!Init
  BY DEF Init, ServiceInit, Store!Init, Requests, Store!Requests
<1>2. ServingInvariant /\ [Next]_vars => [Store!Next]_<<value, answer>>
  <2> SUFFICES ASSUME ServingInvariant, Next \/ UNCHANGED vars
               PROVE  [Store!Next]_<<value, answer>>
    OBVIOUS
  <2>1. CASE MainStep \/ Shutdown \/ UNCHANGED vars
    BY <2>1 DEF MainStep, StartListening, Serve, ShutdownReturns, CloseExecutor, JoinExecutor,
       Shutdown, vars, service
  <2>2. ASSUME NEW t \in Callers, Handle(t) \/ HandlerAwaits(t)
        PROVE  [Store!Next]_<<value, answer>>
    <3>1. at[t].request \in Requests
      BY <2>2 DEF Handle, HandlerAwaits, ServingInvariant, ThreadsOK
    <3>2. QED
      BY <2>2, <3>1, HandlerStores DEF Handle, HandlerAwaits, ServingInvariant
  <2>3. ASSUME NEW t \in Callers, ThreadStep(t), ~Handle(t), ~HandlerAwaits(t)
        PROVE  UNCHANGED <<value, answer>>
    BY <2>3 DEF ThreadStep, SelectNextExecutor, Listen, EndThread, TakeCall, StopListening,
       EndHandler, service
  <2>4. ASSUME NEW r \in Requests, Accept(r) \/ FinishDone(r) PROVE UNCHANGED <<value, answer>>
    BY <2>4 DEF Accept, FinishDone
  <2>5. QED  BY <2>1, <2>2, <2>3, <2>4 DEF Next
<1>3. QED  BY <1>1, <1>2, ServingInvariance, PTL DEF Spec, ImplementsStore, Store!Spec
=============================================================================
