--------------------------- MODULE VariableStore ---------------------------
(***************************************************************************)
(* What VariableService promises about one key: every request takes        *)
(* effect at once, and its answer is that of the moment it takes effect.   *)
(***************************************************************************)
CONSTANTS
  Writes, Reads, Dels,   \* the requests; a write writes a value of its own
  Absent,                \* the key is not in the storage
  NoAnswer               \* the answer of a request that is not served yet

VARIABLES value, answer

Requests == Writes \cup Reads \cup Dels

Init ==
  /\ value = Absent
  /\ answer = [r \in Requests |-> NoAnswer]

Answer(r, a) ==
  /\ answer[r] = NoAnswer
  /\ answer' = [answer EXCEPT ![r] = a]

\* was_inserted, was_deleted, and the value or NOT_FOUND.
Write(r) == Answer(r, value = Absent) /\ value' = r
Del(r)   == Answer(r, value # Absent) /\ value' = Absent
Read(r)  == Answer(r, value) /\ UNCHANGED value

Next ==
  \/ \E r \in Writes : Write(r)
  \/ \E r \in Reads : Read(r)
  \/ \E r \in Dels : Del(r)

Spec == Init /\ [][Next]_<<value, answer>>
=============================================================================
