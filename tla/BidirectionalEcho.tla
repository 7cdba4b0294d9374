------------------------- MODULE BidirectionalEcho -------------------------
(***************************************************************************)
(* BidirectionalStreamEchoImpl of async_grpc/server/echo_service_impl.cpp: *)
(* a coroutine that reads the commands of one client, and a subroutine of  *)
(* it that writes the message again and again, with an alarm in between.   *)
(* A step is what one of the two does between two awaits; co_await of the  *)
(* subroutine and the end of it are taken apart into their accesses of the *)
(* subroutine's promise, since the executor has two threads.               *)
(***************************************************************************)
EXTENDS Naturals, Sequences

CONSTANTS
  Messages,   \* what a message command may carry: a text and a delay
  Invalid,    \* those with an empty text or no delay
  Unset,      \* no message yet
  MaxSent     \* bound: commands on their way to the server

ASSUME MessagesAssumption == Unset \notin Messages /\ Invalid \subseteq Messages
ASSUME MaxSentAssumption  == MaxSent \in Nat

VARIABLES
  inbox,       \* the commands the client wrote and the server did not read
  closed,      \* the client called WritesDone
  cancelled,   \* the call is cancelled, by the client or by its connection
  main,        \* what the coroutine awaits; "undefined" when a frame was used after its end
  join,        \* how far its co_await of the subroutine is
  statusOk,    \* status.ok()
  message,     \* response.message with delay_ms
  subroutine,  \* the coroutine holds the Task of a subroutine
  writer,      \* what the subroutine awaits
  alarm,       \* the operation of the alarm
  sentStatus   \* the status given to Finish, none before

stream == <<inbox, closed, cancelled>>
vars == <<stream, main, join, statusOk, message, subroutine, writer, alarm, sentStatus>>

Commands == [kind : {"message"}, msg : Messages] \cup [kind : {"start", "stop"}]

\* The subroutine has not come to its end.
Running == writer \in {"alarm", "write"}

\* The coroutine awaits its subroutine.
Joining == main \in {"stop", "leave"}

TypeOK ==
  /\ inbox \in Seq(Commands) /\ Len(inbox) <= MaxSent
  /\ closed \in BOOLEAN /\ cancelled \in BOOLEAN
  /\ main \in {"read", "stop", "leave", "finish", "done", "undefined"}
  /\ join \in {"off", "ready", "asked", "stored", "waits"}
  /\ statusOk \in BOOLEAN
  /\ message \in Messages \cup {Unset}
  /\ subroutine \in BOOLEAN
  /\ writer \in {"none", "alarm", "write", "ended", "over"}
  /\ alarm \in {"off", "set", "expired", "cancelled"}
  /\ sentStatus \in {"none", "OK", "error"}
  /\ alarm # "off" <=> writer = "alarm"
  /\ join # "off" <=> Joining

Init ==
  /\ inbox = <<>> /\ closed = FALSE /\ cancelled = FALSE
  /\ main = "read" /\ join = "off"
  /\ statusOk = TRUE
  /\ message = Unset
  /\ subroutine = FALSE
  /\ writer = "none"
  /\ alarm = "off"
  /\ sentStatus = "none"

-----------------------------------------------------------------------------
(* The client, of which the server knows only the stream. *)

handler == <<main, join, statusOk, message, subroutine, writer, alarm, sentStatus>>

Send(cmd) ==
  /\ ~closed /\ ~cancelled /\ sentStatus = "none" /\ Len(inbox) < MaxSent
  /\ inbox' = Append(inbox, cmd)
  /\ UNCHANGED <<closed, cancelled, handler>>

WritesDone ==
  /\ ~closed /\ ~cancelled
  /\ closed' = TRUE
  /\ UNCHANGED <<inbox, cancelled, handler>>

Cancel ==
  /\ ~cancelled
  /\ cancelled' = TRUE
  /\ UNCHANGED <<inbox, closed, handler>>

-----------------------------------------------------------------------------
(* The subroutine. *)

\* A thread uses a frame that has come to its end, and been freed or is about to
\* be: nothing is said of what follows.
Overtaken == main' = "undefined" /\ join' = "off"

\* SetDeadline and co_await alarm.
StartAlarm == writer' = "alarm" /\ alarm' = "set" /\ UNCHANGED <<main, join>>

\* The subroutine is at its end.  A thread that resumed it earlier may have yet
\* to ask done() of it (async_lib.hpp:44), and finds it done, too.
End == writer' = "ended" /\ alarm' = "off" /\ (Overtaken \/ UNCHANGED <<main, join>>)

\* The deadline passes, and the tag of the alarm is in the queue with ok.
AlarmExpires ==
  /\ alarm = "set" /\ alarm' = "expired"
  /\ UNCHANGED <<stream, main, join, statusOk, message, subroutine, writer, sentStatus>>

\* The subroutine goes on after its alarm: it writes, or ends if it was cancelled.
AlarmDone ==
  /\ writer = "alarm"
  /\ \/ alarm = "expired" /\ writer' = "write" /\ alarm' = "off" /\ UNCHANGED <<main, join>>
     \/ alarm = "cancelled" /\ End
  /\ UNCHANGED <<stream, statusOk, message, subroutine, sentStatus>>

\* Mutant: the result of Write is not looked at.
WriteIgnored == StartAlarm

\* if (!co_await context->Write(response)) break.
AfterWrite == IF cancelled THEN End ELSE StartAlarm

WriteDone ==
  /\ writer = "write"
  /\ AfterWrite
  /\ UNCHANGED <<stream, statusOk, message, subroutine, sentStatus>>

-----------------------------------------------------------------------------
(* The coroutine. *)

\* alarm.Cancel() does nothing to an alarm that is not set, or has expired.
CancelAlarm == alarm' = IF alarm = "set" THEN "cancelled" ELSE alarm

\* Finish() is called with its default status.
Finish == main' = "finish" /\ sentStatus' = "OK"

\* The subroutine is cancelled, and the coroutine is about to await it.
Await(place) == CancelAlarm /\ main' = place /\ join' = "ready" /\ UNCHANGED sentStatus

\* Mutant: the coroutine finishes without awaiting the subroutine.
LeaveAtOnce == Finish /\ UNCHANGED <<alarm, join>>

\* Past the loop: the subroutine is cancelled and awaited before Finish.
Leave == IF subroutine THEN Await("leave") ELSE Finish /\ UNCHANGED <<alarm, join>>

\* A command that is not accepted sets the status, which ends the loop.
Refuse ==
  /\ statusOk' = FALSE
  /\ Leave
  /\ UNCHANGED <<message, subroutine, writer>>

\* Mutant: a message is accepted whether or not the subroutine runs.
OnMessageAlways(msg) ==
  /\ message' = msg
  /\ UNCHANGED <<main, join, statusOk, subroutine, writer, alarm, sentStatus>>

OnMessage(msg) ==
  IF subroutine
    THEN Refuse
    ELSE /\ message' = msg
         /\ UNCHANGED <<main, join, statusOk, subroutine, writer, alarm, sentStatus>>

\* StartSubroutine runs the subroutine up to its first alarm.
OnStart ==
  IF subroutine \/ message \in Invalid \cup {Unset}
    THEN Refuse
    ELSE /\ StartAlarm
         /\ subroutine' = TRUE
         /\ UNCHANGED <<statusOk, message, sentStatus>>

OnStop ==
  IF ~subroutine
    THEN Refuse
    ELSE Await("stop") /\ UNCHANGED <<statusOk, message, subroutine, writer>>

\* co_await context->Read(request) gives a command.
ReadCommand ==
  /\ main = "read" /\ inbox # <<>>
  /\ inbox' = Tail(inbox)
  /\ LET cmd == Head(inbox) IN
       \/ cmd.kind = "message" /\ OnMessage(cmd.msg)
       \/ cmd.kind = "start" /\ OnStart
       \/ cmd.kind = "stop" /\ OnStop
  /\ UNCHANGED <<closed, cancelled>>

\* Read gives nothing: the client is done writing, or the call is cancelled.
ReadEnds ==
  /\ main = "read" /\ (cancelled \/ (closed /\ inbox = <<>>))
  /\ Leave
  /\ UNCHANGED <<stream, statusOk, message, subroutine, writer>>

\* co_await std::move(subroutine) returns: a stop command is done and the next
\* one is read, or the loop was left and the call is finished.
Joined ==
  /\ subroutine' = FALSE /\ writer' = "none" /\ join' = "off"
  /\ \/ main = "stop" /\ main' = "read" /\ UNCHANGED sentStatus
     \/ main = "leave" /\ Finish

held == <<subroutine, writer, sentStatus>>

\* await_ready: a subroutine that is done is freed at once, perhaps before the
\* thread that ended it has looked at its promise.
AwaitReady ==
  /\ join = "ready"
  /\ \/ writer = "over" /\ Joined
     \/ writer = "ended" /\ Overtaken /\ UNCHANGED held
     \/ Running /\ join' = "asked" /\ UNCHANGED <<main, held>>
  /\ UNCHANGED <<stream, statusOk, message, alarm>>

\* await_suspend stores the parent, and then looks at the executor.
AwaitSuspend ==
  /\ \/ join = "asked" /\ join' = "stored"
     \/ join = "stored" /\ join' = "waits"
  /\ UNCHANGED <<stream, main, statusOk, message, alarm, held>>

\* The thread that ended the subroutine resumes its parent, if there is one yet.
\* The coroutine goes on and frees the subroutine, which await_suspend may still
\* be looking at.
ResumeParent ==
  /\ writer = "ended" /\ main # "undefined"
  /\ \/ join = "waits" /\ Joined
     \/ join = "stored" /\ Overtaken /\ UNCHANGED held
     \/ /\ join \in {"off", "ready", "asked"}
        /\ writer' = "over" /\ UNCHANGED <<main, join, subroutine, sentStatus>>
  /\ UNCHANGED <<stream, statusOk, message, alarm>>

\* The coroutine ends; as in End, a thread may be behind that resumed it earlier.
FinishDone ==
  /\ main = "finish"
  /\ \/ main' = "done" /\ UNCHANGED join
     \/ Overtaken
  /\ UNCHANGED <<stream, statusOk, message, alarm, held>>

-----------------------------------------------------------------------------

Client == (\E cmd \in Commands : Send(cmd)) \/ WritesDone \/ Cancel

Main == ReadCommand \/ ReadEnds \/ AwaitReady \/ AwaitSuspend \/ FinishDone

Writer == AlarmDone \/ WriteDone \/ ResumeParent

\* The threads of the executor run what can run, time passes, and gRPC
\* completes every operation.  The client need not do anything.
FairServer == WF_vars(Main) /\ WF_vars(Writer) /\ WF_vars(AlarmExpires)

-----------------------------------------------------------------------------
(* Properties. *)

(***************************************************************************)
(* The subroutine captures the coroutine's locals and its context by       *)
(* reference: it runs only while the coroutine holds its task, and it has  *)
(* ended before Finish, so no Write is outstanding then.                   *)
(***************************************************************************)
SubroutineInScope ==
  /\ Running => subroutine /\ (main = "read" \/ Joining)
  /\ subroutine <=> writer # "none"

\* A message is not changed while the subroutine that writes it runs: the two
\* may be on different threads.
MessageStable == [][Running => message' = message]_vars

\* async_lib.hpp:155: the subroutine's end found no parent, and nobody will resume
\* the coroutine that awaits it.
LostWakeup == join \in {"asked", "stored", "waits"} /\ writer = "over"

\* A call that is cancelled does not keep its coroutine: it ends, whatever it
\* and its subroutine were doing, unless the wakeup is lost.
CancelledCallEnds == cancelled ~> main \in {"done", "undefined"} \/ LostWakeup

\* README.md: the task calling StartSubroutine makes sure that it completes, by
\* awaiting it.  The subroutine that a coroutine awaits ends some day.
JoinReturns == Joining ~> ~Joining \/ LostWakeup
=============================================================================
