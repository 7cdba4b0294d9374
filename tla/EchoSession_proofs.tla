------------------------- MODULE EchoSession_proofs -------------------------
(* Proofs about module EchoSession: client/main.cpp, echo_service_impl.cpp. *)
EXTENDS EchoSession, TLAPS

USE MessagesAssumption, MaxSentAssumption, GreetingAssumption

-----------------------------------------------------------------------------
(* Types, and the life of the server's subroutine. *)

Served == TypeOK /\ SubroutineInScope

\* What a client does to the stream changes nothing else of the server.
LEMMA StreamServed ==
  ASSUME Served, UNCHANGED handler, inbox' \in Seq(Commands), Len(inbox') <= MaxSent,
         closed' \in BOOLEAN, cancelled' \in BOOLEAN
  PROVE  Served'
BY DEF Served, TypeOK, SubroutineInScope, Running, Joining, handler

LEMMA SendServed ==
  ASSUME Served, NEW cmd \in Commands, Send(cmd) PROVE Served'
<1>1. inbox' \in Seq(Commands) /\ Len(inbox') <= MaxSent
  BY DEF Send, Served, TypeOK
<1>2. QED  BY <1>1, StreamServed DEF Send, Served, TypeOK

LEMMA CommandParts ==
  /\ \A cmd \in Commands : cmd.kind = "message" => cmd.msg \in Messages
  /\ [kind |-> "message", msg |-> Greeting] \in Commands
  /\ [kind |-> "start"] \in Commands /\ [kind |-> "stop"] \in Commands
BY DEF Commands

\* What ReadCommand does to the handler, for a command of each kind.
LEMMA ReadCommandServed ==
  ASSUME Served, ReadCommand PROVE Served'
<1> USE DEF Served, TypeOK, SubroutineInScope, Running, Joining
<1>1. Head(inbox) \in Commands /\ inbox' \in Seq(Commands) /\ Len(inbox') <= MaxSent
  BY DEF ReadCommand
<1>2. main = "read" /\ UNCHANGED <<closed, cancelled>>
  BY DEF ReadCommand
<1>3. CASE Refuse
  BY <1>1, <1>2, <1>3 DEF Refuse, Leave, Finish, Await, CancelAlarm
<1>4. CASE Head(inbox).kind = "message" /\ OnMessage(Head(inbox).msg)
  <2>1. Head(inbox).msg \in Messages
    BY <1>1, <1>4, CommandParts
  <2>2. QED  BY <1>1, <1>2, <1>3, <1>4, <2>1 DEF OnMessage
<1>5. CASE OnStart
  BY <1>1, <1>2, <1>3, <1>5 DEF OnStart, StartAlarm
<1>6. CASE OnStop
  BY <1>1, <1>2, <1>3, <1>6 DEF OnStop, Await, CancelAlarm
<1>7. QED  BY <1>4, <1>5, <1>6 DEF ReadCommand

LEMMA ServerServed ==
  ASSUME Served, Main \/ Writer \/ AlarmExpires PROVE Served'
<1> USE DEF Served, TypeOK, SubroutineInScope, Running, Joining, stream
<1>1. CASE ReadCommand
  BY <1>1, ReadCommandServed
<1>2. CASE ReadEnds
  BY <1>2 DEF ReadEnds, Leave, Finish, Await, CancelAlarm
<1>3. CASE AwaitReady
  BY <1>3 DEF AwaitReady, Joined, Finish, Overtaken, held
<1>4. CASE AwaitSuspend
  BY <1>4 DEF AwaitSuspend, held
<1>5. CASE FinishDone
  BY <1>5 DEF FinishDone, Overtaken, held
<1>6. CASE AlarmDone
  BY <1>6 DEF AlarmDone, End, Overtaken
<1>7. CASE WriteDone
  BY <1>7 DEF WriteDone, AfterWrite, StartAlarm, End, Overtaken
<1>8. CASE ResumeParent
  <2>1. CASE join = "waits" /\ Joined
    BY <1>8, <2>1 DEF ResumeParent, Joined, Finish
  <2>2. CASE join = "stored" /\ Overtaken /\ UNCHANGED held
    BY <1>8, <2>2 DEF ResumeParent, Overtaken, held
  <2>3. CASE writer' = "over" /\ UNCHANGED <<main, join, subroutine, sentStatus>>
    BY <1>8, <2>3 DEF ResumeParent
  <2>4. QED  BY <1>8, <2>1, <2>2, <2>3 DEF ResumeParent
<1>9. CASE AlarmExpires
  BY <1>9 DEF AlarmExpires
<1>10. QED
  BY <1>1, <1>2, <1>3, <1>4, <1>5, <1>6, <1>7, <1>8, <1>9 DEF Main, Writer

\* The client and its reader keep to their points, and the server to its own.
LEMMA SessionServed ==
  ASSUME SessionTypeOK, SubroutineInScope, [SessionNext]_sessionVars
  PROVE  SessionTypeOK' /\ SubroutineInScope'
<1>0. Served
  BY DEF Served, SessionTypeOK
<1>1. Served'
  <2>1. CASE ServerStep
    BY <1>0, <2>1, ServerServed DEF ServerStep
  <2>2. ASSUME NEW cmd \in Commands, Send(cmd) PROVE Served'
    BY <1>0, <2>2, SendServed
  <2>3. CASE UNCHANGED handler /\ UNCHANGED inbox /\ closed' \in BOOLEAN /\ cancelled' \in BOOLEAN
    BY <1>0, <2>3, StreamServed DEF Served, TypeOK
  <2>4. TypeOK
    BY DEF SessionTypeOK
  <2>5. CASE ClientStep
    <3>1. CASE WriteMessage \/ WriteStart \/ WriteStop
      BY <3>1, <2>2, CommandParts DEF WriteMessage, WriteStart, WriteStop, Wrote
    <3>2. CASE CallMade \/ Waited \/ Abandon \/ Collect \/ CollectSuspends
      BY <3>2, <2>3, <2>4 DEF CallMade, Waited, Abandon, Collect, CollectSuspends, vars, stream, handler, TypeOK
    <3>3. CASE CallMissed \/ Close \/ TryCancel
      BY <3>3, <2>3, <2>4 DEF CallMissed, Close, TryCancel, WritesDone, TypeOK
    <3>4. QED  BY <2>5, <3>1, <3>2, <3>3 DEF ClientStep
  <2>6. CASE ReaderStep \/ UNCHANGED sessionVars
    BY <2>6, <2>3, <2>4 DEF ReaderStep, ReaderEnds, ReaderResumes, sessionVars, vars, stream, handler, TypeOK
  <2>7. CASE Other \/ Break
    BY <2>7, <2>2, <2>3, <2>4 DEF Other, Break, Client, WritesDone, Cancel, TypeOK
  <2>8. QED  BY <2>1, <2>5, <2>6, <2>7 DEF SessionNext
<1>2. /\ client' \in ClientPoints /\ reader' \in {"none", "read", "ended", "over", "collected"}
      /\ client' \in {"call", "other"} => reader' = "none"
  BY DEF SessionTypeOK, ClientPoints, SessionNext, sessionVars, ClientStep, ReaderStep,
         ReaderEnds, ReaderResumes, Other, ServerStep, Break, CallMade, CallMissed, WriteMessage,
         WriteStart, WriteStop, Wrote, Waited, Close, TryCancel, Abandon, Collect,
         CollectSuspends, Collected, Goes, GoesToEnd
<1>3. QED  BY <1>1, <1>2 DEF Served, SessionTypeOK

-----------------------------------------------------------------------------
(* The script: what the client wrote, what is on its way, what was read. *)

ScriptFrom(k, q) == \A i \in 1..Len(q) : q[i] = Script[k + i]

InScriptAt(k, n) ==
  /\ HasWritten(n) /\ HasRead(k) /\ k + Len(inbox) = n /\ ScriptFrom(k, inbox)

LEMMA ScriptParts ==
  /\ Len(Script) = 3
  /\ Script[1] = [kind |-> "message", msg |-> Greeting]
  /\ Script[2] = [kind |-> "start"] /\ Script[3] = [kind |-> "stop"]
  /\ Script[1].kind = "message" /\ Script[1].msg = Greeting
  /\ Script[2].kind = "start" /\ Script[3].kind = "stop"
BY DEF Script

LEMMA InScriptSays ==
  /\ InScript <=> (client # "other" => statusOk /\ \E k, n \in 0..3 : InScriptAt(k, n))
  /\ InScript' <=> (client' # "other" => statusOk' /\ \E k, n \in 0..3 : InScriptAt(k, n)')
BY ScriptParts DEF InScript, InScriptAt, ScriptFrom

\* A step that leaves the stream's commands and the message alone keeps the
\* script, when it takes the client and the server only to where they may be.
LEMMA ScriptKept ==
  ASSUME InScript, inbox \in Seq(Commands), UNCHANGED <<inbox, message>>,
         client' # "other" => client # "other" /\ (statusOk => statusOk'),
         \A k, n \in 0..3 : HasWritten(n) /\ HasRead(k) => HasWritten(n)' /\ HasRead(k)'
  PROVE  InScript'
<1> SUFFICES ASSUME client' # "other" PROVE InScript'
  BY DEF InScript
<1>1. PICK k \in 0..3, n \in 0..3 : InScriptAt(k, n)
  BY InScriptSays
<1>2. InScriptAt(k, n)' /\ statusOk'
  BY <1>1 DEF InScriptAt, ScriptFrom, InScript, Script
<1>3. QED  BY <1>2, InScriptSays

\* The client writes the command that comes next.
LEMMA ScriptWritten ==
  ASSUME SessionTypeOK, InScript, NEW m \in 1..3, Send(Script[m]),
         client \notin {"other", "abandoned", "undefined"}, HasWritten(m - 1), HasWritten(m)'
  PROVE  InScript'
<1> USE DEF SessionTypeOK, TypeOK
<1>1. PICK k \in 0..3, n \in 0..3 : InScriptAt(k, n)
  BY InScriptSays
<1>2. n = m - 1
  BY <1>1 DEF InScriptAt, HasWritten
<1>3. Len(inbox') = Len(inbox) + 1 /\ k + Len(inbox') = m
  BY <1>1, <1>2 DEF InScriptAt, Send
<1>4. ASSUME NEW i \in 1..Len(inbox') PROVE inbox'[i] = Script[k + i]
  BY <1>1, <1>2, <1>3, <1>4 DEF InScriptAt, ScriptFrom, Send
<1>5. HasRead(k)' /\ statusOk'
  BY <1>1 DEF InScriptAt, HasRead, Send, handler, InScript
<1>6. InScriptAt(k, m)'
  BY <1>3, <1>4, <1>5 DEF InScriptAt, ScriptFrom, Script
<1>7. QED  BY <1>5, <1>6, InScriptSays

\* The server reads the command that comes next, and takes it.
LEMMA ScriptTaken ==
  ASSUME SessionTypeOK, SubroutineInScope, InScript, ReadCommand, client # "other",
         UNCHANGED client
  PROVE  InScript'
<1> USE DEF SessionTypeOK, TypeOK
<1>1. PICK k \in 0..3, n \in 0..3 : InScriptAt(k, n)
  BY InScriptSays
<1>2. /\ main = "read" /\ inbox' = Tail(inbox) /\ Len(inbox) > 0
      /\ k + 1 \in 1..3 /\ k + 1 + Len(inbox') = n
  BY <1>1 DEF ReadCommand, InScriptAt
<1>3. Head(inbox) = Script[k + 1]
  BY <1>1, <1>2 DEF InScriptAt, ScriptFrom
<1>4. ASSUME NEW i \in 1..Len(inbox') PROVE inbox'[i] = Script[k + 1 + i]
  BY <1>1, <1>2, <1>4 DEF InScriptAt, ScriptFrom
<1>5. HasRead(k + 1)' /\ statusOk'
  <2>1. HasRead(k) /\ statusOk
    BY <1>1, InScriptSays DEF InScriptAt
  <2>2. CASE k = 0
    <3>1. OnMessage(Greeting) /\ ~subroutine
      BY <1>3, <2>1, <2>2, ScriptParts DEF ReadCommand, HasRead
    <3>2. QED  BY <1>2, <2>1, <2>2, <3>1 DEF OnMessage, HasRead
  <2>3. CASE k = 1
    <3>1. OnStart /\ ~subroutine /\ message = Greeting
      BY <1>3, <2>1, <2>3, ScriptParts DEF ReadCommand, HasRead
    <3>2. message \notin Invalid \cup {Unset}
      BY <3>1
    <3>3. subroutine' = TRUE /\ UNCHANGED <<main, statusOk, message>>
      BY <3>1, <3>2 DEF OnStart, StartAlarm
    <3>4. QED  BY <1>2, <2>1, <2>3, <3>1, <3>3 DEF HasRead
  <2>4. CASE k = 2
    <3>1. OnStop /\ subroutine /\ message = Greeting
      BY <1>2, <1>3, <2>1, <2>4, ScriptParts DEF ReadCommand, HasRead
    <3>2. QED  BY <1>2, <2>1, <2>4, <3>1 DEF OnStop, Await, HasRead
  <2>5. QED  BY <1>2, <2>2, <2>3, <2>4
<1>6. HasWritten(n)'
  BY <1>1 DEF InScriptAt, HasWritten
<1>7. InScriptAt(k + 1, n)'
  BY <1>2, <1>4, <1>5, <1>6 DEF InScriptAt, ScriptFrom, Script
<1>8. \E j, m \in 0..3 : InScriptAt(j, m)'
  <2>1. k + 1 \in 0..3
    BY <1>2
  <2>2. QED  BY <1>7, <2>1
<1>9. QED  BY <1>5, <1>8, InScriptSays

LEMMA InitSession == SessionInit => SessionInvariant
<1> SUFFICES ASSUME SessionInit PROVE SessionInvariant
  OBVIOUS
<1>0. <<>> \in Seq(Commands) /\ Len(<<>>) <= MaxSent
  OBVIOUS
<1>1. SessionTypeOK /\ SubroutineInScope
  BY <1>0 DEF SessionInit, Init, SessionTypeOK, TypeOK, ClientPoints, SubroutineInScope, Running,
         Joining
<1>2. client # "other" => InScriptAt(0, 0)
  BY DEF SessionInit, Init, InScriptAt, HasWritten, HasRead, ScriptFrom
<1>3. InScript
  BY <1>2, InScriptSays DEF SessionInit, Init
<1>4. QED  BY <1>1, <1>3 DEF SessionInvariant

LEMMA StepSession == SessionInvariant /\ [SessionNext]_sessionVars => SessionInvariant'
<1> SUFFICES ASSUME SessionInvariant, [SessionNext]_sessionVars PROVE SessionInvariant'
  OBVIOUS
<1> USE DEF SessionInvariant
<1>1. SessionTypeOK' /\ SubroutineInScope'
  BY SessionServed
<1>t. inbox \in Seq(Commands) /\ client \in ClientPoints
  BY DEF SessionTypeOK, TypeOK
<1>2. ASSUME UNCHANGED <<inbox, message, statusOk, subroutine, main>>,
             client' = client \/ client' \in {"abandoned", "undefined"}
                \/ <<client, client'>> \in {<<"call", "message">>, <<"alarm", "stop">>,
                     <<"close", "cancel">>, <<"cancel", "join">>, <<"join", "asked">>,
                     <<"asked", "stored">>, <<"stored", "waits">>, <<"join", "done">>,
                     <<"waits", "done">>},
             client' # "other" => client # "other"
      PROVE  InScript'
  BY <1>2, <1>t, ScriptKept DEF HasWritten, HasRead
<1>3. InScript'
  <2>1. CASE WriteMessage
    BY <2>1, ScriptParts, ScriptWritten DEF WriteMessage, Wrote, Goes, HasWritten
  <2>2. CASE WriteStart
    BY <2>2, ScriptParts, ScriptWritten DEF WriteStart, Wrote, Goes, HasWritten
  <2>3. CASE WriteStop
    BY <2>3, ScriptParts, ScriptWritten DEF WriteStop, Wrote, Goes, HasWritten
  <2>4. CASE CallMade \/ Waited \/ Collect \/ CollectSuspends \/ Abandon
    BY <2>4, <1>2 DEF CallMade, Waited, Collect, CollectSuspends, Collected, Abandon, Goes,
                      GoesToEnd, NeedsCall, vars, stream
  <2>5. CASE CallMissed \/ Close \/ TryCancel \/ Break
    BY <2>5, <1>2 DEF CallMissed, Close, TryCancel, WritesDone, Break, Cancel,
                      Goes, GoesToEnd, handler, vars, stream
  <2>10. CASE ReaderStep
    <3>1. client # "other"
      BY <2>10 DEF ReaderStep, ReaderEnds, ReaderResumes, SessionTypeOK
    <3>2. QED
      BY <2>10, <3>1, <1>2 DEF ReaderStep, ReaderEnds, ReaderResumes, Collected, GoesToEnd,
                               vars, stream
  <2>6. CASE Other
    BY <2>6 DEF Other, InScript
  <2>7. CASE ServerStep
    <3>1. CASE client = "other"
      BY <2>7, <3>1 DEF ServerStep, InScript
    <3>2. CASE client # "other" /\ ReadCommand
      BY <2>7, <3>2, ScriptTaken DEF ServerStep
    <3>3. CASE AlarmExpires \/ AlarmDone \/ WriteDone \/ AwaitSuspend \/ FinishDone
      <4>1. /\ UNCHANGED <<inbox, message, statusOk, subroutine, client>>
            /\ main' \in {main, "done", "undefined"}
        BY <2>7, <3>3 DEF ServerStep, AlarmExpires, AlarmDone, WriteDone, AfterWrite, StartAlarm,
           End, Overtaken, AwaitSuspend, FinishDone, held, stream
      <4>2. QED  BY <4>1, <1>t, ScriptKept DEF HasWritten, HasRead
    <3>4. CASE ReadEnds
      <4>1. /\ UNCHANGED <<inbox, message, statusOk, subroutine, client>>
            /\ main' \in {"leave", "finish"}
        BY <2>7, <3>4 DEF ServerStep, ReadEnds, Leave, Finish, Await, stream
      <4>2. QED  BY <4>1, <1>t, ScriptKept DEF HasWritten, HasRead
    <3>5. CASE AwaitReady \/ ResumeParent
      <4>1. UNCHANGED <<inbox, message, statusOk, client>>
        BY <2>7, <3>5 DEF ServerStep, AwaitReady, ResumeParent, stream
      <4>2. CASE Joined
        <5>1. /\ ~subroutine' /\ subroutine
              /\ (main = "stop" /\ main' = "read") \/ main' = "finish"
          BY <3>5, <4>2 DEF AwaitReady, ResumeParent, Joined, Finish, SubroutineInScope
        <5>2. QED  BY <4>1, <5>1, <1>t, ScriptKept DEF HasWritten, HasRead
      <4>3. CASE main' \in {main, "undefined"} /\ UNCHANGED subroutine
        BY <4>1, <4>3, <1>t, ScriptKept DEF HasWritten, HasRead
      <4>4. QED
        BY <3>5, <4>2, <4>3 DEF AwaitReady, ResumeParent, Overtaken, held
    <3>6. QED  BY <2>7, <3>1, <3>2, <3>3, <3>4, <3>5 DEF ServerStep, Main, Writer
  <2>8. CASE UNCHANGED sessionVars
    BY <2>8, <1>2 DEF sessionVars, vars, stream
  <2>9. QED
    BY <2>1, <2>2, <2>3, <2>4, <2>5, <2>6, <2>7, <2>8, <2>10 DEF SessionNext, ClientStep
<1>4. QED  BY <1>1, <1>3

\* The invariant of the session holds in every reachable state, types included,
\* whatever the messages are and however many commands may be on their way.
THEOREM SessionInvariance == SessionSpec => []SessionInvariant
  BY InitSession, StepSession, PTL DEF SessionSpec

\* echo_service_impl.cpp:112: the subroutine runs only while the coroutine whose
\* locals it captures holds its task.
THEOREM SubroutineStaysInScope == SessionSpec => []SubroutineInScope
<1>1. SessionInvariant => SubroutineInScope
  BY DEF SessionInvariant
<1>2. QED  BY <1>1, SessionInvariance, PTL

\* client/main.cpp:180: no command of BidirectionalStreamEcho is refused.
THEOREM ScriptNotRefused == SessionSpec => []NothingRefused
<1>1. SessionInvariant => NothingRefused
  BY DEF SessionInvariant, InScript, NothingRefused
<1>2. QED  BY <1>1, SessionInvariance, PTL

\* echo_service_impl.cpp:80: whatever the client sends, the message does not
\* change while the subroutine that writes it runs.
THEOREM MessageStays == SessionSpec => MessageStable
<1>1. SessionInvariant /\ [SessionNext]_sessionVars => [Running => message' = message]_vars
  <2> SUFFICES ASSUME SessionInvariant, SessionNext \/ UNCHANGED sessionVars, Running
               PROVE  message' = message
    OBVIOUS
  <2>1. subroutine
    BY DEF SessionInvariant, SubroutineInScope
  <2>2. CASE ServerStep
    BY <2>1, <2>2 DEF ServerStep, Main, Writer, AlarmExpires, AlarmDone, WriteDone, ReadEnds,
       AwaitReady, AwaitSuspend, ResumeParent, FinishDone, ReadCommand, OnMessage, OnStart,
       OnStop, Refuse
  <2>3. CASE ClientStep \/ ReaderStep \/ Break \/ UNCHANGED sessionVars
    BY <2>3 DEF ClientStep, CallMade, CallMissed, WriteMessage, WriteStart, WriteStop, Wrote,
       Send, Waited, Close, WritesDone, TryCancel, Abandon, Collect, CollectSuspends, ReaderStep,
       ReaderEnds, ReaderResumes, Break, Cancel, handler, vars, sessionVars
  <2>4. CASE Other
    BY <2>4 DEF Other, Client, Send, WritesDone, Cancel, handler
  <2>5. QED  BY <2>2, <2>3, <2>4 DEF SessionNext
<1>2. QED  BY <1>1, SessionInvariance, PTL DEF SessionSpec, MessageStable
=============================================================================
