-------------------------- MODULE VariableService --------------------------
(***************************************************************************)
(* The handlers of async_grpc/server/variable_service_impl.cpp, for the    *)
(* requests about one key; requests about others only share the lock.      *)
(*                                                                         *)
(* A handler is a coroutine that runs on the thread that accepted its call *)
(* until it awaits Finish.  A step is one access of the lock or of the     *)
(* map.  An entry of the map is identified by the write that inserted it.  *)
(***************************************************************************)
EXTENDS Naturals, FiniteSets

CONSTANTS
  Writes, Reads, Dels,   \* the requests; a write writes a value of its own
  Absent,                \* the key is not in the storage, no request at all
  NoAnswer,              \* the answer of a request that is not served yet
  MaxRequests            \* bound: requests that are made

Requests == Writes \cup Reads \cup Dels

ASSUME RequestsAssumption ==
  /\ Writes \cap Reads = {} /\ Writes \cap Dels = {} /\ Reads \cap Dels = {}
  /\ Absent \notin Requests /\ MaxRequests \in Nat

VARIABLES
  entry,     \* m_storage: the entry of the key
  value,     \* m_storage: its value
  writer,    \* m_mutex: the handler that holds it, alone
  readers,   \* m_mutex: the handlers that share it
  handler,   \* where the request is, and then its handler
  found,     \* the iterator of ReadImpl
  answer     \* what the response says

service == <<entry, value, writer, readers, handler, found, answer>>

\* A request is never made, or is sent and then given to a listener or refused.
\* Then come the steps of its handler, and Finish under way, done, handler ended.
Places == {"unmade", "sent", "accepted", "refused",
           "lock", "access", "found", "unlock", "finish", "finished", "ended"}

ServiceTypeOK ==
  /\ entry \in Writes \cup {Absent} /\ value \in Writes \cup {Absent}
  /\ writer \in Requests \cup {Absent} /\ readers \subseteq Reads
  /\ handler \in [Requests -> Places]
  /\ found \in [Reads -> Writes \cup {Absent}]
  /\ answer \in [Requests -> Writes \cup {Absent, NoAnswer} \cup BOOLEAN]

ServiceInit ==
  /\ entry = Absent /\ value = Absent
  /\ writer = Absent /\ readers = {}
  /\ \E made \in SUBSET Requests :
       /\ Cardinality(made) <= MaxRequests
       /\ handler = [r \in Requests |-> IF r \in made THEN "sent" ELSE "unmade"]
  /\ found = [r \in Reads |-> Absent]
  /\ answer = [r \in Requests |-> NoAnswer]

Moves(r, from, to) ==
  /\ handler[r] = from
  /\ handler' = [handler EXCEPT ![r] = to]

Answers(r, a) == answer' = [answer EXCEPT ![r] = a]

-----------------------------------------------------------------------------

\* Mutant: a reader locks whatever the writers do.
LockSharedAlways(r) == readers' = readers \cup {r} /\ UNCHANGED writer

\* auto lock = std::shared_lock(m_mutex)
LockShared(r) ==
  /\ writer = Absent
  /\ readers' = readers \cup {r}
  /\ UNCHANGED writer

\* auto lock = std::unique_lock(m_mutex)
LockUnique(r) ==
  /\ writer = Absent /\ readers = {}
  /\ writer' = r
  /\ UNCHANGED readers

Lock(r) ==
  /\ Moves(r, "lock", "access")
  /\ IF r \in Reads THEN LockShared(r) ELSE LockUnique(r)
  /\ UNCHANGED <<entry, value, found, answer>>

\* Mutant: an entry that is there keeps its value, as with insert().
InsertOnly(r) == IF value = Absent THEN r ELSE value

\* The value of the entry after insert_or_assign.
InsertOrAssign(r) == r

\* WriteImpl: m_storage.insert_or_assign, and was_inserted.
Assign(r) ==
  /\ r \in Writes /\ Moves(r, "access", "unlock")
  /\ entry' = IF entry = Absent THEN r ELSE entry
  /\ value' = InsertOrAssign(r)
  /\ Answers(r, entry = Absent)
  /\ UNCHANGED <<writer, readers, found>>

\* DelImpl: m_storage.erase, and was_deleted.
Erase(r) ==
  /\ r \in Dels /\ Moves(r, "access", "unlock")
  /\ entry' = Absent /\ value' = Absent
  /\ Answers(r, entry # Absent)
  /\ UNCHANGED <<writer, readers, found>>

\* ReadImpl: m_storage.find; NOT_FOUND if there is no entry.
Find(r) ==
  /\ r \in Reads
  /\ IF entry = Absent
       THEN /\ Moves(r, "access", "unlock")
            /\ Answers(r, Absent)
            /\ UNCHANGED found
       ELSE /\ Moves(r, "access", "found")
            /\ found' = [found EXCEPT ![r] = entry]
            /\ UNCHANGED answer
  /\ UNCHANGED <<entry, value, writer, readers>>

\* response.set_value(found->second)
TakeValue(r) ==
  /\ r \in Reads /\ Moves(r, "found", "unlock")
  /\ Answers(r, value)
  /\ UNCHANGED <<entry, value, writer, readers, found>>

\* Mutant: ReadImpl awaits NOT_FOUND without unlocking.
UnlockFound(r) ==
  IF r \in Reads
    THEN readers' = IF answer[r] = Absent THEN readers ELSE readers \ {r}
    ELSE UNCHANGED readers

UnlockShared(r) == readers' = readers \ {r}

\* The lock is released, and Finish or FinishWithError enqueued.
Unlock(r) ==
  /\ Moves(r, "unlock", "finish")
  /\ UnlockShared(r)
  /\ writer' = IF writer = r THEN Absent ELSE writer
  /\ UNCHANGED <<entry, value, found, answer>>

\* What a thread does next in the handler of r.
HandlerStep(r) == Lock(r) \/ Assign(r) \/ Erase(r) \/ Find(r) \/ TakeValue(r)

-----------------------------------------------------------------------------

\* ReadImpl dereferences its iterator while the entry is there: no Del can have
\* erased it since it was found.
EntryAlive == \A r \in Reads : handler[r] = "found" => entry = found[r] /\ entry # Absent

\* A handler that awaits Finish holds no lock: it may go on on another thread,
\* which must not unlock the mutex, and until then the others could not go on.
NoLockAcrossAwait ==
  \A r \in Requests :
    handler[r] \in {"finish", "finished", "ended"} => writer # r /\ r \notin readers

Store == INSTANCE VariableStore

(***************************************************************************)
(* However the handlers interleave on their threads, each request takes    *)
(* effect in one step, and is answered accordingly.                        *)
(***************************************************************************)
ImplementsStore == Store!Spec

-----------------------------------------------------------------------------
(* Why they hold. *)

Locked(r) == handler[r] \in {"access", "found", "unlock"}

\* The mutex is held by the handlers between their lock and their unlock.
MutexOK ==
  /\ \A r \in Reads : r \in readers <=> Locked(r)
  /\ \A r \in Writes \cup Dels : writer = r <=> Locked(r)
  /\ writer \notin Reads
  /\ writer # Absent => readers = {}

StorageOK ==
  /\ entry = Absent <=> value = Absent
  /\ \A r \in Requests : handler[r] = "found" => r \in Reads

\* A response is not touched before the map is.
AnswersOK ==
  \A r \in Requests : handler[r] \in Places \ {"unlock", "finish", "finished", "ended"} =>
    answer[r] = NoAnswer

\* The inductive invariant of variable_service_impl.cpp.
ServiceInvariant == ServiceTypeOK /\ MutexOK /\ StorageOK /\ AnswersOK /\ EntryAlive
=============================================================================
