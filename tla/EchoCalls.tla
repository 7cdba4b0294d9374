----------------------------- MODULE EchoCalls -----------------------------
(***************************************************************************)
(* The echo rpcs that are no dialogue: UnaryEcho (as a command retried     *)
(* with DefaultRetryPolicy, in NestedEcho not), ClientStreamEcho and       *)
(* ServerStreamEcho.  The client's coroutine is one of                     *)
(* async_grpc/client/main.cpp, the handlers are those of                   *)
(* async_grpc/server/echo_service_impl.cpp, and between them is a gRPC     *)
(* stream that may break at any moment, keeping of what was on its way     *)
(* only a beginning.  A step is one awaited operation.                     *)
(***************************************************************************)
EXTENDS Naturals, Sequences, SequencesExt

CONSTANTS
  Words,     \* the messages of the client; a single request carries the first
  Retries,   \* how many delays DefaultRetryPolicy has
  MaxUInt,   \* the largest count (2^32 - 1 in the code)
  Window     \* bound: messages on their way in one direction

ASSUME WordsAssumption   == Words \in Seq({Words[i] : i \in DOMAIN Words}) \ {<<>>}
ASSUME RetriesAssumption == Retries \in Nat
ASSUME MaxUIntAssumption == MaxUInt \in Nat \ {0}
ASSUME WindowAssumption  == Window \in Nat \ {0}

VARIABLES
  rpc, count,   \* the kind of call, and the count field of its request
  client,       \* what the client's coroutine awaits
  tries,        \* the calls it made, the last of which is under way
  sent,         \* how many messages it wrote
  got,          \* the words, or the numbers, it received
  status,       \* the status of the last call that was finished
  calls,        \* each call: its stream and its handler
  server        \* how far the destruction of the server has got

vars == <<rpc, count, client, tries, sent, got, status, calls, server>>
command == <<rpc, count>>

Attempts == 1..(Retries + 1)

NoCall == [up |-> <<>>, closed |-> FALSE, down |-> <<>>, cancelled |-> FALSE,
           handler |-> "none", heard |-> <<>>, n |-> 0]

Init ==
  /\ rpc \in {"nested", "unary", "clientStream", "serverStream"}
  /\ count \in IF rpc = "serverStream" THEN 0..MaxUInt ELSE {0}
  /\ client = "start" /\ tries = 0 /\ sent = 0 /\ got = <<>> /\ status = "none"
  /\ calls = [c \in Attempts |-> NoCall]
  /\ server = "serving"

-----------------------------------------------------------------------------
(* The client. *)

call == calls[tries]

Unary == rpc \in {"nested", "unary"}

\* A server that stops takes no new call.
NewCall(requests, done) ==
  /\ tries' = tries + 1
  /\ calls' = [calls EXCEPT ![tries + 1] =
       IF server = "serving" THEN [@ EXCEPT !.up = requests, !.closed = done]
                             ELSE [@ EXCEPT !.cancelled = TRUE, !.handler = "done"]]

CallUnary        == Unary /\ NewCall(<<Words[1]>>, TRUE) /\ client' = "finish"
CallClientStream == rpc = "clientStream" /\ NewCall(<<>>, FALSE) /\ client' = "call"
CallServerStream == rpc = "serverStream" /\ NewCall(<<Words[1]>>, TRUE) /\ client' = "call"

Call ==
  /\ client = "start"
  /\ CallUnary \/ CallClientStream \/ CallServerStream
  /\ UNCHANGED <<command, sent, got, status>>

CallMade ==
  /\ client = "call" /\ ~call.cancelled
  /\ client' = IF rpc = "clientStream" THEN "send" ELSE "read"
  /\ UNCHANGED <<command, tries, sent, got, status, calls>>

\* Another thread took the tag and resumes the coroutine before await_suspend
\* has stored the call: the coroutine finds none and ends, with its context.
CallMissed ==
  /\ client = "call"
  /\ client' = "abandoned"
  /\ calls' = [calls EXCEPT ![tries].cancelled = TRUE]
  /\ UNCHANGED <<command, tries, sent, got, status>>

\* An operation fails, because the call is dead.
Abandon ==
  /\ client \in {"call", "send", "close"} /\ call.cancelled
  /\ client' = "abandoned"
  /\ UNCHANGED <<command, tries, sent, got, status, calls>>

Write ==
  /\ client = "send" /\ ~call.cancelled /\ Len(call.up) < Window
  /\ calls' = [calls EXCEPT ![tries].up = Append(@, Words[sent + 1])]
  /\ sent' = sent + 1
  /\ client' = IF sent' = Len(Words) THEN "close" ELSE "send"
  /\ UNCHANGED <<command, tries, got, status>>

\* Mutant: the client goes on to Finish without ending its stream.
FinishOnly ==
  /\ client = "close" /\ ~call.cancelled
  /\ client' = "finish"
  /\ UNCHANGED <<command, tries, sent, got, status, calls>>

WritesDone ==
  /\ client = "close" /\ ~call.cancelled
  /\ calls' = [calls EXCEPT ![tries].closed = TRUE]
  /\ client' = "finish"
  /\ UNCHANGED <<command, tries, sent, got, status>>

\* Read gives a response.  Past the largest count the client has seen enough
\* (a bound: such a call never ends).
Read ==
  /\ client = "read" /\ call.down # <<>> /\ ~Head(call.down).last
  /\ Len(got) <= MaxUInt
  /\ got' = got \o Head(call.down).body
  /\ calls' = [calls EXCEPT ![tries].down = Tail(@)]
  /\ UNCHANGED <<command, client, tries, sent, status>>

\* Nothing more will come.
Over == IF call.down = <<>> THEN call.cancelled ELSE Head(call.down).last

ReadEnds ==
  /\ client = "read" /\ Over
  /\ client' = "finish"
  /\ UNCHANGED <<command, tries, sent, got, status, calls>>

\* Mutant: the policy counts one retry too few.
RetriesOneLess(s) == s = "UNAVAILABLE" /\ tries < Retries

\* DefaultRetryPolicy: retried is what is UNAVAILABLE, while there are delays.
ShouldRetry(s) == s = "UNAVAILABLE" /\ tries < Retries + 1

\* Finish gives the server's response and status, or the status of a dead call.
Finish ==
  /\ client = "finish" /\ Over
  /\ IF call.down # <<>>
       THEN /\ status' = "OK"
            /\ got' = got \o Head(call.down).body
            /\ calls' = [calls EXCEPT ![tries].down = Tail(@)]
       ELSE /\ status' \in {"UNAVAILABLE", "other"}
            /\ UNCHANGED <<got, calls>>
  /\ client' = IF rpc = "unary" /\ ShouldRetry(status') THEN "delay" ELSE "done"
  /\ UNCHANGED <<command, tries, sent>>

\* The delay is over: the loop of AutoRetryUnary makes another call.
Retry ==
  /\ client = "delay" /\ client' = "start"
  /\ UNCHANGED <<command, tries, sent, got, status, calls>>

\* "quit" shuts the client's queue down: unless the coroutine has nothing left
\* to await, gRPC ends the process when it enqueues its next operation.
Quit ==
  /\ client \in {"call", "send", "close", "read", "delay"} \/ (client = "finish" /\ rpc = "unary")
  /\ client' = "quit"
  /\ calls' = [calls EXCEPT ![tries].cancelled = TRUE]
  /\ UNCHANGED <<command, tries, sent, got, status>>

-----------------------------------------------------------------------------
(* The server, with a handler for each call c. *)

\* What handler c does to its call; the client is not touched.
Handles(c, r) == calls' = [calls EXCEPT ![c] = r]

\* A message to the client, of a call that may be dead.
Sending(r, body, last) ==
  IF r.cancelled THEN r ELSE [r EXCEPT !.down = Append(@, [body |-> body, last |-> last])]

\* Finish(response), or Finish() of a server stream; the status is OK.
Finished(r, body) == [Sending(r, body, TRUE) EXCEPT !.handler = "finish"]

\* Mutant: the loop ends one response early.
NumberShort(r, n) ==
  IF n < count THEN [r EXCEPT !.n = n, !.handler = "alarm"] ELSE Finished(r, <<>>)

\* The head of the loop of ServerStreamEchoImpl: an alarm, or Finish.
Number(r, n) ==
  IF n <= count THEN [r EXCEPT !.n = n, !.handler = "alarm"] ELSE Finished(r, <<>>)

\* UnaryEchoImpl, and the beginning of ServerStreamEchoImpl, with the request.
AcceptUnary(c) ==
  /\ Unary /\ calls[c].up # <<>>
  /\ Handles(c, Finished([calls[c] EXCEPT !.up = <<>>], calls[c].up))

AcceptServerStream(c) ==
  /\ rpc = "serverStream" /\ calls[c].up # <<>>
  /\ Handles(c, Number([calls[c] EXCEPT !.up = <<>>], 1))

AcceptClientStream(c) ==
  /\ rpc = "clientStream"
  /\ Handles(c, [calls[c] EXCEPT !.handler = "read"])

\* gRPC hands the call to a listener, which spawns the handler.
Accept(c) ==
  /\ c <= tries /\ calls[c].handler = "none"
  /\ AcceptUnary(c) \/ AcceptServerStream(c) \/ AcceptClientStream(c)

ReadRequest(c) ==
  /\ calls[c].handler = "read" /\ calls[c].up # <<>>
  /\ Handles(c, [calls[c] EXCEPT !.heard = Append(@, Head(calls[c].up)), !.up = Tail(@)])

\* The stream has ended, or the call is dead: the handler does not know which,
\* and replies what it has heard.
NoMoreRequests(c) ==
  /\ calls[c].handler = "read" /\ calls[c].up = <<>>
  /\ calls[c].closed \/ calls[c].cancelled
  /\ Handles(c, Finished(calls[c], calls[c].heard))

AlarmExpires(c) ==
  /\ calls[c].handler = "alarm"
  /\ Handles(c, [calls[c] EXCEPT !.handler = "write"])

\* Write is done, well or not, and n is incremented.
WriteDone(c) ==
  /\ calls[c].handler = "write"
  /\ calls[c].cancelled \/ Len(calls[c].down) < Window
  /\ LET n == calls[c].n IN
       Handles(c, Number(Sending(calls[c], <<n>>, FALSE), (n + 1) % (MaxUInt + 1)))

FinishDone(c) ==
  /\ calls[c].handler = "finish"
  /\ Handles(c, [calls[c] EXCEPT !.handler = "done"])

\* A call dies; what has arrived can still be read.
Cut(c) ==
  \E i \in 0..Len(calls[c].up), j \in 0..Len(calls[c].down) :
    Handles(c, [calls[c] EXCEPT !.cancelled = TRUE,
                  !.up = SubSeq(@, 1, i), !.down = SubSeq(@, 1, j)])

\* The connection is lost.
Break(c) == c <= tries /\ ~calls[c].cancelled /\ Cut(c) /\ UNCHANGED server

-----------------------------------------------------------------------------
(* The end of the server program, whose destructor follows its            *)
(* Shutdown(deadline).                                                    *)

Live(c) == c <= tries /\ calls[c].handler # "done"

\* From here gRPC gives the listeners no new call.
Stop == server = "serving" /\ server' = "stopping" /\ UNCHANGED calls

\* What no listener has taken by then is refused.
Refuse(c) ==
  /\ server # "serving" /\ c <= tries /\ calls[c].handler = "none"
  /\ Handles(c, [calls[c] EXCEPT !.cancelled = TRUE, !.handler = "done"])

\* The deadline has passed: gRPC cancels the calls that are left.
Deadline ==
  /\ server = "stopping" /\ server' = "cancelled"
  /\ IF tries # 0 /\ ~call.cancelled THEN Cut(tries) ELSE UNCHANGED calls

\* Shutdown returns, and ~Server shuts the queues down.
CloseQueues ==
  /\ \/ server = "cancelled"
     \/ server = "stopping" /\ \A c \in Attempts : ~Live(c)
  /\ server' = "closed" /\ UNCHANGED calls

\* A handler of a cancelled call goes on, to an operation on a queue that is
\* shut down: gRPC ends the process.
Die(c) ==
  /\ server = "closed" /\ Live(c) /\ calls[c].handler # "finish"
  /\ server' = "dead" /\ UNCHANGED calls

-----------------------------------------------------------------------------

ClientStep ==
  /\ \/ Call \/ CallMade \/ CallMissed \/ Abandon \/ Write \/ WritesDone
     \/ Read \/ ReadEnds \/ Finish \/ Retry
  /\ UNCHANGED server

ClientSide == <<command, client, tries, sent, got, status>>

\* The steps that await another operation need a queue that is open.
HandlerStep(c) ==
  /\ \/ server # "dead" /\ (FinishDone(c) \/ Refuse(c)) /\ UNCHANGED server
     \/ /\ server \notin {"closed", "dead"} /\ UNCHANGED server
        /\ \/ Accept(c) \/ ReadRequest(c) \/ NoMoreRequests(c)
           \/ AlarmExpires(c) \/ WriteDone(c)
     \/ Die(c)
  /\ UNCHANGED ClientSide

ServerEnds == (Stop \/ Deadline \/ CloseQueues) /\ UNCHANGED ClientSide

Next ==
  \/ ClientStep \/ (Quit /\ UNCHANGED server)
  \/ \E c \in Attempts : HandlerStep(c)
  \/ ServerEnds
  \/ \E c \in Attempts : Break(c) /\ UNCHANGED ClientSide

Spec == Init /\ [][Next]_vars

\* Threads run what can run, alarms expire, and gRPC completes each operation.
FairSpec == Spec /\ WF_vars(ClientStep) /\ \A c \in Attempts : WF_vars(HandlerStep(c))

-----------------------------------------------------------------------------
(* Properties. *)

\* What the client should get.
Echo ==
  CASE Unary -> <<Words[1]>>
    [] rpc = "clientStream" -> Words
    [] rpc = "serverStream" -> [n \in 1..count |-> n]

\* The loop over n never ends when no n exceeds the count.
Endless == rpc = "serverStream" /\ count = MaxUInt

(***************************************************************************)
(* echo_service_impl.cpp: a client that is told OK has got exactly what it *)
(* sent, or all the numbers up to its count; any other one a beginning of  *)
(* it.  The handlers do not look at the results of Read, Write and Alarm,  *)
(* so a broken stream looks to them like one that ended well.              *)
(***************************************************************************)
EchoFaithful ==
  ~Endless => /\ status = "OK" => got = Echo
              /\ IsPrefix(got, Echo)

\* client.cpp, DefaultRetryPolicy: the client reports UNAVAILABLE for a unary
\* call only after every retry, and makes no call beyond them; no other
\* command is ever repeated.
AttemptsUsed ==
  /\ tries <= IF rpc = "unary" THEN Retries + 1 ELSE 1
  /\ rpc = "unary" /\ client = "done" /\ status = "UNAVAILABLE" => tries = Retries + 1

\* Client and handlers end, the handlers of earlier attempts and of abandoned
\* calls included, wherever the stream breaks and whenever the server stops.
CallsEnd ==
  Endless \/ <>[](/\ client \in {"done", "abandoned", "quit"}
                  /\ server # "dead" =>
                       \A c \in Attempts : calls[c].handler \in {"none", "done"})

-----------------------------------------------------------------------------
(* Why the echo is faithful. *)

Word   == {Words[i] : i \in DOMAIN Words}
Bodies == Seq(Word \cup Nat)
Answer == [body : Bodies, last : BOOLEAN]

CallType ==
  [up : Seq(Word), closed : BOOLEAN, down : Seq(Answer), cancelled : BOOLEAN,
   heard : Seq(Word), n : 0..MaxUInt,
   handler : {"none", "read", "alarm", "write", "finish", "done"}]

TypeOK ==
  /\ rpc \in {"nested", "unary", "clientStream", "serverStream"}
  /\ count \in 0..MaxUInt
  /\ client \in {"start", "call", "send", "close", "read", "finish", "delay",
                 "done", "abandoned", "quit"}
  /\ tries \in 0..(Retries + 1)
  /\ sent \in 0..Len(Words)
  /\ got \in Bodies
  /\ status \in {"none", "OK", "UNAVAILABLE", "other"}
  /\ calls \in [Attempts -> CallType]
  /\ server \in {"serving", "stopping", "cancelled", "closed", "dead"}

\* Only a unary command comes back to its start, while it has retries.
ClientOK ==
  /\ client = "start" => tries = 0 \/ (rpc = "unary" /\ tries <= Retries)
  /\ client = "delay" => rpc = "unary" /\ tries <= Retries
  /\ client # "start" => tries # 0
  /\ client = "call" => ~Unary
  /\ client = "send" => rpc = "clientStream" /\ sent < Len(Words)
  /\ client = "close" => sent = Len(Words)
  /\ rpc = "clientStream" /\ client \in {"start", "call"} => sent = 0
  /\ client = "read" => rpc = "serverStream"

CallsOK == \A c \in Attempts : c > tries => calls[c] = NoCall

Replies == {<<>>, <<[body |-> Echo, last |-> TRUE]>>}

\* The words that the handler has heard and those on their way are the words sent.
InOrder(r) ==
  /\ r.closed => sent = Len(Words)
  /\ ~r.cancelled =>
       /\ Len(r.heard) + Len(r.up) = sent
       /\ \A i \in 1..Len(r.heard) : r.heard[i] = Words[i]
       /\ \A i \in 1..Len(r.up) : r.up[i] = Words[Len(r.heard) + i]

\* A single reply is the whole echo, or does not arrive.
ReplyOK(r) ==
  /\ r.down \in Replies
  /\ r.handler \in {"none", "read"} => r.down = <<>>
  /\ r.handler \notin {"alarm", "write"}
  /\ Unary => r.up \in {<<>>, <<Words[1]>>} /\ r.handler # "read"

RepliesOK ==
  rpc # "serverStream" =>
    /\ (got = Echo /\ client = "done") \/ (got = <<>> /\ status # "OK")
    /\ \A c \in Attempts : ReplyOK(calls[c])
    /\ rpc = "clientStream" => \A c \in 1..tries : InOrder(calls[c])

Finite == rpc = "serverStream" /\ ~Endless

\* The i-th response on its way: the number after those received, or the end.
NumberOrEnd(m, i, length) ==
  IF m.last THEN i = length /\ m.body = <<>> /\ Len(got) + i = count + 1
            ELSE m.body = <<Len(got) + i>> /\ Len(got) + i <= count

\* Each response is the next number, and only when all were sent comes the end.
NumberOK(r) ==
  /\ \A i \in 1..Len(r.down) : NumberOrEnd(r.down[i], i, Len(r.down))
  /\ r.handler # "read"
  /\ r.handler = "none" => r.down = <<>> /\ got = <<>>
  /\ r.handler \in {"alarm", "write"} =>
       /\ r.n \in 1..count
       /\ ~r.cancelled => /\ Len(got) + Len(r.down) = r.n - 1
                          /\ \A i \in 1..Len(r.down) : ~r.down[i].last

NumbersOK ==
  Finite =>
    /\ Len(got) <= count /\ \A i \in 1..Len(got) : got[i] = i
    /\ status = "OK" => Len(got) = count
    /\ tries = 0 => got = <<>>
    /\ \A c \in 1..tries : NumberOK(calls[c])

\* The inductive invariant of the calls of client/main.cpp to
\* echo_service_impl.cpp: what is received, on its way and still to be sent
\* makes up the echo, as long as the call lives.
EchoInvariant == TypeOK /\ ClientOK /\ CallsOK /\ AttemptsUsed /\ RepliesOK /\ NumbersOK

-----------------------------------------------------------------------------
(* Why the calls end. *)

\* The handler of a client stream hears no more than was sent.
HeardOK ==
  rpc = "clientStream" =>
    \A c \in Attempts : Len(calls[c].heard) + Len(calls[c].up) <= sent

\* The operations that are before the handler of call r, at most.
HandlerWork(r) ==
  CASE r.handler = "none"   -> 2 * count + Len(Words) + 5
    [] r.handler = "read"   -> Len(Words) - Len(r.heard) + 2
    [] r.handler = "alarm"  -> 2 * (count - r.n) + 4
    [] r.handler = "write"  -> 2 * (count - r.n) + 3
    [] r.handler = "finish" -> 1
    [] r.handler = "done"   -> 0

\* Those that are before the client in its present call, at most.
ThisCall ==
  CASE client = "call"   -> Len(Words) + count + 5
    [] client = "send"   -> Len(Words) - sent + 4
    [] client = "close"  -> 4
    [] client = "read"   -> count - Len(got) + 4
    [] client = "finish" -> 3
    [] client = "delay"  -> 1
    [] OTHER             -> 0

\* The same, with the calls it may still make.
ClientWork == (Retries + 1 - tries) * (Len(Words) + count + 6) + ThisCall

(***************************************************************************)
(* Unless the count is the largest, everything that the client or a        *)
(* handler does uses up some of its work, and nothing that another does,   *)
(* a lost connection and the end of the server included, gives it more.    *)
(***************************************************************************)
EchoesAreBounded ==
  [][~Endless =>
       /\ ClientWork \in Nat
       /\ IF ClientStep \/ Quit THEN ClientWork' < ClientWork ELSE UNCHANGED ClientWork
       /\ \A c \in Attempts :
            /\ HandlerWork(calls[c]) \in Nat
            /\ HandlerWork(calls'[c]) <= HandlerWork(calls[c])
            /\ HandlerStep(c) => Die(c) \/ HandlerWork(calls'[c]) < HandlerWork(calls[c])
    ]_vars
=============================================================================
