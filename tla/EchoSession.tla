---------------------------- MODULE EchoSession ----------------------------
(***************************************************************************)
(* The client's BidirectionalStreamEcho (async_grpc/client/main.cpp) with  *)
(* the server's coroutine of BidirectionalEcho: the client starts a        *)
(* subroutine that reads, writes a message, start and (after an alarm)     *)
(* stop, closes its side of the stream, cancels the call and awaits the    *)
(* subroutine.  A session may also be that of another client, which does   *)
(* to the stream what it likes.                                            *)
(***************************************************************************)
EXTENDS BidirectionalEcho

CONSTANTS
  Greeting,   \* the message the client sends
  MayBreak    \* whether the connection may be lost

ASSUME GreetingAssumption == Greeting \in Messages \ Invalid
ASSUME MayBreakAssumption == MayBreak \in BOOLEAN

VARIABLES
  client,    \* what the client's coroutine awaits; "undefined" as in BidirectionalEcho
  reader     \* what its subroutine awaits

sessionVars == <<vars, client, reader>>

\* In the order of the function; then the end after a failure, and who does not
\* run it.
ClientPoints == {"call", "message", "start", "alarm", "stop", "close", "cancel", "join",
                 "asked", "stored", "waits", "done", "abandoned", "undefined", "other"}

SessionTypeOK ==
  /\ TypeOK
  /\ client \in ClientPoints
  /\ reader \in {"none", "read", "ended", "over", "collected"}
  /\ client \in {"call", "other"} => reader = "none"

SessionInit == Init /\ client \in {"call", "other"} /\ reader = "none"

Goes(from, to) == client = from /\ client' = to

\* The coroutine ends, perhaps with a thread behind that resumed it earlier.
GoesToEnd(place) == client' \in {place, "undefined"}

\* The operations that succeed only while the call is there.
NeedsCall == {"call", "message", "start", "stop", "close"}

\* CallBidirectionalStream, and StartSubroutine(startRead()).
CallMade ==
  /\ Goes("call", "message") /\ ~cancelled
  /\ reader' = "read"
  /\ UNCHANGED vars

\* async_grpc.hpp:111: another thread took the tag and resumes the coroutine
\* before await_suspend has stored the call: the coroutine finds none and ends,
\* and the call is cancelled with its context.
CallMissed ==
  /\ client = "call" /\ GoesToEnd("abandoned")
  /\ cancelled' = TRUE
  /\ UNCHANGED <<inbox, closed, handler, reader>>

Wrote(from, to, cmd) == Goes(from, to) /\ Send(cmd) /\ UNCHANGED reader

\* Mutant: the first command is already start.
WriteStartFirst == Wrote("message", "start", [kind |-> "start"])

\* Mutant: the command start is forgotten.
StartForgotten == Goes("start", "alarm") /\ UNCHANGED <<vars, reader>>

WriteMessage == Wrote("message", "start", [kind |-> "message", msg |-> Greeting])
WriteStart   == Wrote("start", "alarm", [kind |-> "start"])
WriteStop    == Wrote("stop", "close", [kind |-> "stop"])

Waited == Goes("alarm", "stop") /\ UNCHANGED <<vars, reader>>

\* WritesDone is answered: the server may see the end of the stream from here.
Close == Goes("close", "cancel") /\ WritesDone /\ UNCHANGED reader

\* Mutant: the client does not cancel its call.
NoCancel == Goes("cancel", "join") /\ UNCHANGED <<vars, reader>>

\* context.TryCancel(), of a call that may be cancelled already.
TryCancel ==
  /\ Goes("cancel", "join")
  /\ cancelled' = TRUE
  /\ UNCHANGED <<inbox, closed, handler, reader>>

\* An operation fails: the coroutine ends there, and its readTask with it.
Abandon ==
  /\ client \in NeedsCall /\ (cancelled \/ sentStatus # "none")
  /\ GoesToEnd("abandoned")
  /\ UNCHANGED <<vars, reader>>

\* The reader's Read fails once the call is over; until then each response it
\* gets makes it read again.
ReaderEnds ==
  /\ reader = "read" /\ (cancelled \/ main = "done") /\ client # "undefined"
  /\ reader' = "ended"
  /\ client' \in {client, "undefined"}
  /\ UNCHANGED vars

\* co_await std::move(readTask), after which the coroutine ends.
Collected == reader' = "collected" /\ GoesToEnd("done")

\* As AwaitReady of the server, of the client's reader.
Collect ==
  /\ client = "join"
  /\ \/ reader = "over" /\ Collected
     \/ reader = "ended" /\ client' = "undefined" /\ UNCHANGED reader
     \/ reader = "read" /\ client' = "asked" /\ UNCHANGED reader
  /\ UNCHANGED vars

\* As AwaitSuspend of the server.
CollectSuspends ==
  /\ Goes("asked", "stored") \/ Goes("stored", "waits")
  /\ UNCHANGED <<vars, reader>>

\* As ResumeParent of the server.
ReaderResumes ==
  /\ reader = "ended" /\ client # "undefined"
  /\ \/ client = "waits" /\ Collected
     \/ client = "stored" /\ client' = "undefined" /\ UNCHANGED reader
     \/ client \notin {"stored", "waits"} /\ reader' = "over" /\ UNCHANGED client
  /\ UNCHANGED vars

\* The session is not that of BidirectionalStreamEcho.
Other == client = "other" /\ Client /\ UNCHANGED <<client, reader>>

\* The connection is lost: for both sides the call is cancelled.
Break == MayBreak /\ Cancel /\ UNCHANGED <<client, reader>>

ClientStep ==
  \/ CallMade \/ CallMissed \/ WriteMessage \/ WriteStart \/ Waited \/ WriteStop
  \/ Close \/ TryCancel \/ Abandon \/ Collect \/ CollectSuspends

ReaderStep == ReaderEnds \/ ReaderResumes

ServerStep == (Main \/ Writer \/ AlarmExpires) /\ UNCHANGED <<client, reader>>

SessionNext == ClientStep \/ ReaderStep \/ Other \/ ServerStep \/ Break

SessionSpec == SessionInit /\ [][SessionNext]_sessionVars

\* As in BidirectionalEcho; the client's threads run what can run too.
FairSession ==
  /\ SessionSpec /\ FairServer
  /\ WF_sessionVars(ClientStep) /\ WF_sessionVars(ReaderStep)

-----------------------------------------------------------------------------
(* Properties. *)

\* As LostWakeup, of the client: the end of its reader found no parent.
ReaderLost == client \in {"asked", "stored", "waits"} /\ reader = "over"

\* The session ends on both sides, although stop may come too late for the
\* alarm: the cancellation that follows reaches the server's subroutine.  The
\* one thing that can keep a side is that the end of its subroutine is lost.
SessionEnds ==
  \/ client = "other"
  \/ <>[](/\ client \in {"done", "abandoned", "undefined"} \/ ReaderLost
          /\ main \in {"done", "undefined"} \/ LostWakeup)

\* The client's script never breaks the server's protocol: no command of it is
\* refused, however the two interleave.
NothingRefused == client # "other" => statusOk

-----------------------------------------------------------------------------
(* Why nothing is refused. *)

\* The commands of BidirectionalStreamEcho, in the order it writes them.
Script == <<[kind |-> "message", msg |-> Greeting], [kind |-> "start"], [kind |-> "stop"]>>

\* Where the client stands when it has written n commands.
HasWritten(n) ==
  \/ client \in {"abandoned", "undefined"}
  \/ client \in {"call", "message"} /\ n = 0
  \/ client = "start" /\ n = 1
  \/ client \in {"alarm", "stop"} /\ n = 2
  \/ client \in {"close", "cancel", "join", "asked", "stored", "waits", "done"} /\ n = 3

\* What the server's coroutine is like when it has read k of them.
HasRead(k) ==
  /\ message = IF k = 0 THEN Unset ELSE Greeting
  /\ k < 2 => ~subroutine
  /\ k = 2 /\ main = "read" => subroutine
  /\ main = "stop" => k = 3

\* The commands on their way are those of the script that come next.
InScript ==
  client # "other" =>
    /\ statusOk
    /\ \E k, n \in 0..Len(Script) :
         /\ HasWritten(n) /\ HasRead(k) /\ k + Len(inbox) = n
         /\ \A i \in 1..Len(inbox) : inbox[i] = Script[k + i]

\* The inductive invariant of client/main.cpp's session with
\* echo_service_impl.cpp: the client and the server are at places of the script
\* that the stream between them accounts for.
SessionInvariant == SessionTypeOK /\ SubroutineInScope /\ InScript
=============================================================================
