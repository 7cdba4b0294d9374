-------------------------- MODULE EchoCalls_proofs --------------------------
(* Theorems about EchoCalls, for all messages, counts and retries. *)
EXTENDS EchoCalls, TLAPS

Servers == {"serving", "stopping", "cancelled", "closed", "dead"}

-----------------------------------------------------------------------------
(* Sequences. *)

\* What is cut off at a place is a beginning of the same type.
LEMMA CutSequence ==
  ASSUME NEW S, NEW s \in Seq(S), NEW i \in 0..Len(s)
  PROVE  /\ SubSeq(s, 1, i) \in Seq(S)
         /\ Len(SubSeq(s, 1, i)) = i
         /\ \A j \in 1..i : SubSeq(s, 1, i)[j] = s[j]
OBVIOUS

\* Equal elements, no more of them: a prefix.
LEMMA PrefixByElements ==
  ASSUME NEW S, NEW s \in Seq(S), NEW t \in Seq(S), Len(s) <= Len(t),
         \A i \in 1..Len(s) : s[i] = t[i]
  PROVE  IsPrefix(s, t)
<1>1. /\ SubSeq(s, 1, Len(s)) \in Seq(S) /\ Len(SubSeq(s, 1, Len(s))) = Len(s)
      /\ \A i \in 1..Len(s) : SubSeq(s, 1, Len(s))[i] = s[i]
  BY CutSequence
<1>2. /\ SubSeq(t, 1, Len(s)) \in Seq(S) /\ Len(SubSeq(t, 1, Len(s))) = Len(s)
      /\ \A i \in 1..Len(s) : SubSeq(t, 1, Len(s))[i] = t[i]
  BY CutSequence
<1>. QED  BY <1>1, <1>2 DEF IsPrefix

LEMMA SameSequence ==
  ASSUME NEW S, NEW s \in Seq(S), NEW t \in Seq(S), Len(s) = Len(t),
         \A i \in 1..Len(s) : s[i] = t[i]
  PROVE  s = t
OBVIOUS

LEMMA SmallSequences ==
  ASSUME NEW S
  PROVE  /\ <<>> \in Seq(S) /\ Len(<<>>) = 0
         /\ \A s \in Seq(S) : Len(s) = 0 => s = <<>>
         /\ \A e \in S : /\ <<e>> \in Seq(S) /\ Len(<<e>>) = 1 /\ <<e>>[1] = e
                         /\ Append(<<>>, e) = <<e>>
OBVIOUS

LEMMA Appended ==
  ASSUME NEW S, NEW s \in Seq(S), NEW e \in S
  PROVE  /\ Append(s, e) \in Seq(S) /\ Len(s) \in Nat
         /\ Len(Append(s, e)) = Len(s) + 1 /\ Append(s, e)[Len(s) + 1] = e
         /\ \A i \in 1..Len(s) : Append(s, e)[i] = s[i]
OBVIOUS

LEMMA HeadAndTail ==
  ASSUME NEW S, NEW s \in Seq(S), s # <<>>
  PROVE  /\ Len(s) \in Nat \ {0} /\ Head(s) = s[1] /\ Head(s) \in S
         /\ Tail(s) \in Seq(S) /\ Len(Tail(s)) = Len(s) - 1
         /\ \A i \in 1..Len(Tail(s)) : Tail(s)[i] = s[i + 1]
OBVIOUS

LEMMA Joined ==
  ASSUME NEW S, NEW s \in Seq(S), NEW t \in Seq(S)
  PROVE  /\ s \o t \in Seq(S) /\ s \o <<>> = s
         /\ \A e \in S : s \o <<e>> = Append(s, e)
OBVIOUS

LEMMA NoOverflow ==
  ASSUME NEW a \in Nat, NEW b \in Nat, a < b
  PROVE  a % b = a
OBVIOUS

\* The words and the numbers that make up an echo.
LEMMA WordsAreWords == Words \in Seq(Word) /\ Words[1] \in Word /\ Len(Words) \in Nat \ {0}
  BY WordsAssumption DEF Word

LEMMA EchoType ==
  ASSUME TypeOK
  PROVE  /\ Unary => Echo = <<Words[1]>>
         /\ rpc = "clientStream" => Echo = Words
         /\ rpc = "serverStream" => Echo = [n \in 1..count |-> n]
         /\ Echo \in Bodies
<1>1. Unary => Echo = <<Words[1]>>
  BY DEF Echo, Unary
<1>2. rpc = "clientStream" => Echo = Words
  BY DEF Echo, Unary
<1>3. rpc = "serverStream" => Echo = [n \in 1..count |-> n]
  BY DEF Echo, Unary
<1>4. Unary \/ rpc = "clientStream" \/ rpc = "serverStream"
  BY DEF TypeOK, Unary
<1>5. <<Words[1]>> \in Bodies /\ Words \in Bodies
  BY WordsAreWords DEF Bodies
<1>6. [n \in 1..count |-> n] \in Bodies
  BY DEF TypeOK, Bodies
<1>. QED  BY <1>1, <1>2, <1>3, <1>4, <1>5, <1>6

-----------------------------------------------------------------------------
(* One call at a time. *)

LEMMA NoCallType ==
  /\ NoCall \in CallType
  /\ NoCall.up = <<>> /\ NoCall.down = <<>> /\ NoCall.heard = <<>> /\ NoCall.handler = "none"
  /\ ~NoCall.closed /\ ~NoCall.cancelled
<1>. <<>> \in Seq(Word) /\ <<>> \in Seq(Answer)
  BY SmallSequences
<1>. QED  BY MaxUIntAssumption DEF NoCall, CallType

LEMMA Fields ==
  ASSUME NEW r \in CallType
  PROVE  /\ r.up \in Seq(Word) /\ r.heard \in Seq(Word) /\ r.down \in Seq(Answer)
         /\ r.closed \in BOOLEAN /\ r.cancelled \in BOOLEAN /\ r.n \in 0..MaxUInt
BY DEF CallType

LEMMA BeginToRead ==
  ASSUME NEW r \in CallType
  PROVE  LET q == [r EXCEPT !.handler = "read"] IN
         /\ q \in CallType /\ q.handler = "read"
         /\ q.up = r.up /\ q.down = r.down /\ q.heard = r.heard
         /\ q.closed = r.closed /\ q.cancelled = r.cancelled /\ q.n = r.n
BY DEF CallType

LEMMA Lengths ==
  ASSUME EchoInvariant
  PROVE  Len(got) \in Nat /\ count \in Nat /\ count <= MaxUInt /\ sent \in Nat
BY DEF EchoInvariant, TypeOK, Bodies

LEMMA EmptyFields == <<>> \in Seq(Word) /\ <<>> \in Seq(Answer) /\ <<>> \in Bodies
BY SmallSequences DEF Bodies

LEMMA WithoutRequest ==
  ASSUME NEW r \in CallType
  PROVE  LET q == [r EXCEPT !.up = <<>>] IN
         /\ q \in CallType /\ q.up = <<>> /\ q.down = r.down /\ q.heard = r.heard
         /\ q.closed = r.closed /\ q.cancelled = r.cancelled
BY EmptyFields DEF CallType

\* A message of one answer.
LEMMA OneAnswer ==
  ASSUME NEW b \in Bodies, NEW last \in BOOLEAN
  PROVE  [body |-> b, last |-> last] \in Answer
BY DEF Answer

\* A step that changes one call, and neither client nor command.
LEMMA OneCall ==
  ASSUME EchoInvariant, UNCHANGED ClientSide, server' \in Servers,
         NEW c \in Attempts, c <= tries, NEW r \in CallType, Handles(c, r),
         rpc # "serverStream" => ReplyOK(r),
         rpc = "clientStream" => InOrder(r),
         Finite => NumberOK(r)
  PROVE  EchoInvariant'
<1>. USE DEF ClientSide, command
<1>1. TypeOK'
  BY DEF EchoInvariant, TypeOK, Handles, Servers
<1>2. calls'[c] = r /\ \A d \in Attempts \ {c} : calls'[d] = calls[d]
  BY DEF EchoInvariant, TypeOK, Handles
<1>3. ClientOK' /\ AttemptsUsed'
  BY DEF EchoInvariant, ClientOK, AttemptsUsed, Unary
<1>4. CallsOK'
  BY <1>2 DEF EchoInvariant, TypeOK, CallsOK, Attempts
<1>5. Echo' = Echo /\ Replies' = Replies /\ Unary' = Unary /\ Finite' = Finite
  BY DEF Echo, Replies, Unary, Finite, Endless
<1>6. RepliesOK'
  <2>1. \A d \in Attempts : rpc # "serverStream" => ReplyOK(calls'[d])
    BY <1>2 DEF EchoInvariant, RepliesOK
  <2>2. \A d \in 1..tries : rpc = "clientStream" => InOrder(calls'[d])
    BY <1>2, RetriesAssumption DEF EchoInvariant, RepliesOK, TypeOK, Attempts
  <2>. QED  BY <1>5, <2>1, <2>2 DEF EchoInvariant, RepliesOK, ReplyOK, InOrder
<1>7. NumbersOK'
  <2>1. \A d \in 1..tries : Finite => NumberOK(calls'[d])
    BY <1>2, RetriesAssumption DEF EchoInvariant, NumbersOK, TypeOK, Attempts
  <2>. QED  BY <1>5, <2>1 DEF EchoInvariant, NumbersOK, NumberOK, NumberOrEnd
<1>. QED  BY <1>1, <1>3, <1>4, <1>6, <1>7 DEF EchoInvariant

\* What the invariant says of a call that was made.
LEMMA MadeCall ==
  ASSUME EchoInvariant, NEW c \in Attempts, c <= tries
  PROVE  /\ calls[c] \in CallType
         /\ c \in 1..tries
         /\ rpc # "serverStream" => ReplyOK(calls[c])
         /\ rpc = "clientStream" => InOrder(calls[c])
         /\ Finite => NumberOK(calls[c])
BY DEF EchoInvariant, TypeOK, RepliesOK, NumbersOK, Attempts

\* A handler acts on calls that were made.
LEMMA HandledIsMade ==
  ASSUME EchoInvariant, NEW c \in Attempts, calls[c].handler # "none"
  PROVE  c <= tries
BY DEF EchoInvariant, CallsOK, TypeOK, Attempts, NoCall

\* A beginning of a sequence of at most one element.
LEMMA CutSmall ==
  ASSUME NEW S, NEW e \in S, NEW s \in Seq(S), s \in {<<>>, <<e>>},
         NEW t \in Seq(S), Len(t) <= Len(s), \A i \in 1..Len(t) : t[i] = s[i]
  PROVE  t \in {<<>>, <<e>>}
<1>1. CASE Len(t) = 0
  BY <1>1, SmallSequences
<1>2. CASE Len(t) # 0
  <2>1. s = <<e>> /\ Len(s) = 1 /\ Len(t) = 1
    BY <1>2, SmallSequences
  <2>. QED  BY <2>1, SameSequence
<1>. QED  BY <1>1, <1>2

LEMMA CutKeeps ==
  ASSUME EchoInvariant, UNCHANGED ClientSide, server' \in Servers,
         NEW c \in Attempts, c <= tries, Cut(c)
  PROVE  EchoInvariant'
<1>1. PICK r \in CallType : r = calls[c]
  BY MadeCall
<1>2. PICK q \in CallType :
        /\ Handles(c, q)
        /\ q.cancelled /\ q.handler = r.handler /\ q.n = r.n
        /\ q.closed = r.closed /\ q.heard = r.heard
        /\ Len(q.up) <= Len(r.up) /\ \A k \in 1..Len(q.up) : q.up[k] = r.up[k]
        /\ Len(q.down) <= Len(r.down) /\ \A k \in 1..Len(q.down) : q.down[k] = r.down[k]
  <2>1. PICK i \in 0..Len(r.up), j \in 0..Len(r.down) :
          Handles(c, [r EXCEPT !.cancelled = TRUE, !.up = SubSeq(@, 1, i), !.down = SubSeq(@, 1, j)])
    BY <1>1 DEF Cut
  <2>2. /\ SubSeq(r.up, 1, i) \in Seq(Word) /\ Len(SubSeq(r.up, 1, i)) = i
        /\ \A k \in 1..i : SubSeq(r.up, 1, i)[k] = r.up[k]
    BY Fields, CutSequence
  <2>3. /\ SubSeq(r.down, 1, j) \in Seq(Answer) /\ Len(SubSeq(r.down, 1, j)) = j
        /\ \A k \in 1..j : SubSeq(r.down, 1, j)[k] = r.down[k]
    BY Fields, CutSequence
  <2>. DEFINE q == [r EXCEPT !.cancelled = TRUE, !.up = SubSeq(@, 1, i), !.down = SubSeq(@, 1, j)]
  <2>4. /\ q \in CallType
        /\ q.cancelled /\ q.up = SubSeq(r.up, 1, i) /\ q.down = SubSeq(r.down, 1, j)
        /\ q.handler = r.handler /\ q.n = r.n /\ q.closed = r.closed /\ q.heard = r.heard
    BY <2>2, <2>3 DEF CallType
  <2>5. Len(r.up) \in Nat /\ Len(r.down) \in Nat
    BY Fields
  <2>6. Handles(c, q)
    BY <2>1
  <2>. HIDE DEF q
  <2>. QED  BY <2>2, <2>3, <2>4, <2>5, <2>6
<1>3. r.down = <<>> => q.down = <<>>
  BY <1>2, Fields, SmallSequences
<1>4. ASSUME rpc # "serverStream" PROVE ReplyOK(q)
  <2>1. ReplyOK(r)
    BY <1>1, <1>4, MadeCall
  <2>2. q.down \in Replies
    <3>1. [body |-> Echo, last |-> TRUE] \in Answer
      BY EchoType, OneAnswer DEF EchoInvariant
    <3>2. r.down \in Replies
      BY <2>1 DEF ReplyOK
    <3>. QED  BY <1>2, <3>1, <3>2, Fields, CutSmall DEF Replies
  <2>3. Unary => q.up \in {<<>>, <<Words[1]>>}
    <3>1. Unary => r.up \in {<<>>, <<Words[1]>>}
      BY <2>1 DEF ReplyOK
    <3>. QED  BY <1>2, <3>1, Fields, CutSmall, WordsAreWords
  <2>. QED  BY <1>2, <1>3, <2>1, <2>2, <2>3 DEF ReplyOK
<1>5. rpc = "clientStream" => InOrder(q)
  BY <1>1, <1>2, MadeCall DEF InOrder
<1>6. ASSUME Finite PROVE NumberOK(q)
  <2>1. NumberOK(r)
    BY <1>1, <1>6, MadeCall
  <2>2. Len(r.down) \in Nat /\ Len(q.down) \in Nat
    BY Fields
  <2>3. ASSUME NEW k \in 1..Len(q.down) PROVE NumberOrEnd(q.down[k], k, Len(q.down))
    <3>1. k \in 1..Len(r.down) /\ q.down[k] = r.down[k]
      BY <1>2, <2>2
    <3>2. NumberOrEnd(r.down[k], k, Len(r.down))
      BY <2>1, <3>1 DEF NumberOK
    <3>3. CASE r.down[k].last
      <4>1. k = Len(q.down)
        BY <1>2, <2>2, <3>2, <3>3 DEF NumberOrEnd
      <4>. QED  BY <3>1, <3>2, <3>3, <4>1 DEF NumberOrEnd
    <3>4. CASE ~r.down[k].last
      BY <3>1, <3>2, <3>4 DEF NumberOrEnd
    <3>. QED  BY <3>3, <3>4
  <2>. QED  BY <1>2, <1>3, <2>1, <2>3 DEF NumberOK
<1>. QED  BY <1>2, <1>4, <1>5, <1>6, OneCall

-----------------------------------------------------------------------------
(* The handlers. *)

\* The handler of a single reply finishes its call, of which it says Echo if
\* the call is still there.
LEMMA ReplyKeeps ==
  ASSUME EchoInvariant, UNCHANGED ClientSide, server' \in Servers,
         NEW c \in Attempts, c <= tries, rpc # "serverStream",
         NEW r \in CallType, r.down = <<>>, r.up = <<>>,
         NEW body, ~r.cancelled => body = Echo,
         rpc = "clientStream" => InOrder(r),
         Handles(c, Finished(r, body))
  PROVE  EchoInvariant'
<1>1. PICK q \in CallType :
        /\ Handles(c, q) /\ q.down \in Replies
        /\ q.up = <<>> /\ q.handler = "finish"
        /\ q.cancelled = r.cancelled /\ q.closed = r.closed /\ q.heard = r.heard
  <2>. DEFINE q == Finished(r, body)
  <2>1. CASE r.cancelled
    <3>1. q = [r EXCEPT !.handler = "finish"]
      BY <2>1 DEF Finished, Sending
    <3>. QED  BY <3>1 DEF CallType, Replies
  <2>2. CASE ~r.cancelled
    <3>1. PICK answer \in Answer : answer = [body |-> Echo, last |-> TRUE]
      BY EchoType, OneAnswer DEF EchoInvariant
    <3>2. <<answer>> \in Seq(Answer) /\ Append(<<>>, answer) = <<answer>> /\ <<answer>> \in Replies
      BY <3>1, SmallSequences DEF Replies
    <3>3. q = [[r EXCEPT !.down = <<answer>>] EXCEPT !.handler = "finish"]
      BY <2>2, <3>1, <3>2 DEF Finished, Sending
    <3>. HIDE DEF q
    <3>4. q \in CallType /\ q.down = <<answer>> /\ q.up = <<>> /\ q.handler = "finish"
          /\ q.cancelled = r.cancelled /\ q.closed = r.closed /\ q.heard = r.heard
      BY <3>2, <3>3 DEF CallType
    <3>. QED  BY <3>2, <3>4 DEF q
  <2>. QED  BY <2>1, <2>2
<1>2. ReplyOK(q)
  BY <1>1 DEF ReplyOK
<1>3. rpc = "clientStream" => InOrder(q)
  BY <1>1 DEF InOrder
<1>. QED  BY <1>1, <1>2, <1>3, OneCall DEF Finite

\* The head of the loop that counts up to count.
LEMMA NumberKeeps ==
  ASSUME EchoInvariant, UNCHANGED ClientSide, server' \in Servers,
         NEW c \in Attempts, c <= tries, rpc = "serverStream",
         NEW r \in CallType, NEW n \in 0..MaxUInt, Handles(c, Number(r, n)),
         Finite => /\ n \in 1..(count + 1)
                   /\ \A i \in 1..Len(r.down) : NumberOrEnd(r.down[i], i, Len(r.down))
                   /\ ~r.cancelled => /\ Len(got) + Len(r.down) = n - 1
                                      /\ \A i \in 1..Len(r.down) : ~r.down[i].last
  PROVE  EchoInvariant'
<1>0. count \in Nat /\ Len(r.down) \in Nat
  BY Fields DEF EchoInvariant, TypeOK
<1>1. CASE n <= count
  <2>1. PICK q \in CallType : /\ Handles(c, q) /\ q.n = n /\ q.handler = "alarm"
                              /\ q.down = r.down /\ q.cancelled = r.cancelled
    <3>. DEFINE q == [r EXCEPT !.n = n, !.handler = "alarm"]
    <3>1. q \in CallType /\ q.n = n /\ q.handler = "alarm" /\ q.down = r.down
          /\ q.cancelled = r.cancelled
      BY DEF CallType
    <3>. QED  BY <1>1, <3>1 DEF Number
  <2>2. Finite => NumberOK(q)
    BY <1>0, <1>1, <2>1 DEF NumberOK
  <2>. QED  BY <2>1, <2>2, OneCall
<1>2. CASE ~(n <= count) /\ r.cancelled
  <2>1. PICK q \in CallType : Handles(c, q) /\ q.handler = "finish" /\ q.down = r.down
    <3>. DEFINE q == [r EXCEPT !.handler = "finish"]
    <3>1. q \in CallType /\ q.handler = "finish" /\ q.down = r.down
      BY DEF CallType
    <3>. QED  BY <1>2, <3>1 DEF Number, Finished, Sending
  <2>2. Finite => NumberOK(q)
    BY <2>1 DEF NumberOK
  <2>. QED  BY <2>1, <2>2, OneCall
<1>3. CASE ~(n <= count) /\ ~r.cancelled
  <2>1. PICK end \in Answer : end = [body |-> <<>>, last |-> TRUE] /\ end.last /\ end.body = <<>>
    BY EmptyFields, OneAnswer
  <2>2. PICK q \in CallType : Handles(c, q) /\ q.handler = "finish" /\ q.down = Append(r.down, end)
    <3>1. PICK d \in Seq(Answer) : d = Append(r.down, end)
      BY Fields, Appended
    <3>. DEFINE q == [[r EXCEPT !.down = d] EXCEPT !.handler = "finish"]
    <3>2. q \in CallType /\ q.handler = "finish" /\ q.down = d
      BY DEF CallType
    <3>3. Handles(c, q)
      BY <1>3, <2>1, <3>1 DEF Number, Finished, Sending
    <3>. QED  BY <3>1, <3>2, <3>3
  <2>3. ASSUME Finite PROVE NumberOK(q)
    <3>1. /\ Len(q.down) = Len(r.down) + 1 /\ q.down[Len(r.down) + 1] = end
          /\ \A i \in 1..Len(r.down) : q.down[i] = r.down[i]
      BY <2>2, Fields, Appended
    <3>2. n = count + 1 /\ Len(got) + Len(r.down) = count
      BY <1>0, <1>3, <2>3, Lengths
    <3>3. ASSUME NEW i \in 1..Len(q.down) PROVE NumberOrEnd(q.down[i], i, Len(q.down))
      <4>1. CASE i = Len(r.down) + 1
        <5>1. Len(got) + i = count + 1
          BY <1>0, <3>2, <4>1, Lengths
        <5>. QED  BY <2>1, <3>1, <4>1, <5>1 DEF NumberOrEnd
      <4>2. CASE i # Len(r.down) + 1
        <5>1. i \in 1..Len(r.down) /\ q.down[i] = r.down[i]
          BY <1>0, <3>1, <4>2
        <5>2. NumberOrEnd(r.down[i], i, Len(r.down)) /\ ~r.down[i].last
          BY <1>3, <2>3, <5>1
        <5>. QED  BY <5>1, <5>2 DEF NumberOrEnd
      <4>. QED  BY <4>1, <4>2
    <3>. QED  BY <2>2, <3>3 DEF NumberOK
  <2>. QED  BY <2>2, <2>3, OneCall
<1>. QED  BY <1>1, <1>2, <1>3

LEMMA AcceptKeeps ==
  ASSUME EchoInvariant, UNCHANGED ClientSide, server' \in Servers,
         NEW c \in Attempts, Accept(c)
  PROVE  EchoInvariant'
<1>1. PICK r \in CallType : r = calls[c] /\ c <= tries /\ r.handler = "none"
  BY MadeCall DEF Accept
<1>2. CASE AcceptUnary(c)
  <2>1. rpc # "serverStream" /\ rpc # "clientStream" /\ Unary
    BY <1>2 DEF AcceptUnary, Unary
  <2>2. r.down = <<>> /\ r.up = <<Words[1]>>
    BY <1>1, <1>2, <2>1, MadeCall DEF AcceptUnary, ReplyOK
  <2>3. PICK q \in CallType : q = [r EXCEPT !.up = <<>>] /\ q.up = <<>> /\ q.down = r.down
    BY WithoutRequest
  <2>4. Echo = r.up
    BY <2>1, <2>2, EchoType DEF EchoInvariant
  <2>. QED  BY <1>1, <1>2, <2>1, <2>2, <2>3, <2>4, ReplyKeeps DEF AcceptUnary
<1>3. CASE AcceptServerStream(c)
  <2>1. rpc = "serverStream"
    BY <1>3 DEF AcceptServerStream
  <2>2. PICK q \in CallType : q = [r EXCEPT !.up = <<>>] /\ q.down = r.down
    BY WithoutRequest
  <2>3. Handles(c, Number(q, 1))
    BY <1>1, <1>3, <2>2 DEF AcceptServerStream
  <2>4. 1 \in 0..MaxUInt
    BY MaxUIntAssumption
  <2>5. ASSUME Finite
        PROVE  /\ 1 \in 1..(count + 1)
               /\ q.down = <<>> /\ Len(got) + Len(q.down) = 1 - 1
    <3>1. NumberOK(r)
      BY <1>1, <2>5, MadeCall
    <3>. QED  BY <1>1, <2>2, <3>1, SmallSequences DEF NumberOK, EchoInvariant, TypeOK
  <2>. QED  BY <1>1, <2>1, <2>3, <2>4, <2>5, NumberKeeps
<1>4. CASE AcceptClientStream(c)
  <2>1. rpc = "clientStream"
    BY <1>4 DEF AcceptClientStream
  <2>2. PICK q \in CallType :
          /\ q = [r EXCEPT !.handler = "read"]
          /\ q.up = r.up /\ q.down = r.down /\ q.cancelled = r.cancelled
          /\ q.heard = r.heard /\ q.closed = r.closed /\ q.handler = "read"
    BY BeginToRead
  <2>3. ReplyOK(r) /\ InOrder(r)
    BY <1>1, <2>1, MadeCall
  <2>4. ReplyOK(q) /\ InOrder(q)
    <3>1. ReplyOK(q)
      BY <1>1, <2>1, <2>2, <2>3 DEF ReplyOK, Unary
    <3>2. InOrder(q)
      BY <2>2, <2>3 DEF InOrder
    <3>. QED  BY <3>1, <3>2
  <2>5. Handles(c, q)
    BY <1>1, <1>4, <2>2 DEF AcceptClientStream
  <2>. QED  BY <1>1, <2>1, <2>2, <2>4, <2>5, OneCall DEF Finite
<1>. QED  BY <1>2, <1>3, <1>4 DEF Accept

LEMMA ReadRequestKeeps ==
  ASSUME EchoInvariant, UNCHANGED ClientSide, server' \in Servers,
         NEW c \in Attempts, ReadRequest(c)
  PROVE  EchoInvariant'
<1>1. PICK r \in CallType : r = calls[c] /\ c <= tries /\ r.handler = "read" /\ r.up # <<>>
  BY MadeCall, HandledIsMade DEF ReadRequest
<1>2. ~Finite /\ ~Unary /\ (rpc # "serverStream" => rpc = "clientStream")
  BY <1>1, MadeCall DEF NumberOK, ReplyOK, Unary, Finite, EchoInvariant, TypeOK
<1>3. PICK q \in CallType :
        /\ Handles(c, q)
        /\ q.heard = Append(r.heard, Head(r.up)) /\ q.up = Tail(r.up)
        /\ q.down = r.down /\ q.cancelled = r.cancelled /\ q.closed = r.closed
        /\ q.handler = "read"
  <2>1. PICK h \in Seq(Word), u \in Seq(Word) : h = Append(r.heard, Head(r.up)) /\ u = Tail(r.up)
    BY <1>1, Fields, HeadAndTail, Appended
  <2>. DEFINE q == [r EXCEPT !.heard = h, !.up = u]
  <2>2. /\ q \in CallType /\ q.heard = h /\ q.up = u /\ q.down = r.down
        /\ q.cancelled = r.cancelled /\ q.closed = r.closed /\ q.handler = r.handler
    BY DEF CallType
  <2>3. Handles(c, q)
    BY <1>1, <2>1 DEF ReadRequest
  <2>. QED  BY <1>1, <2>1, <2>2, <2>3
<1>4. rpc # "serverStream" => ReplyOK(q)
  BY <1>1, <1>2, <1>3, MadeCall DEF ReplyOK
<1>5. ASSUME rpc = "clientStream" PROVE InOrder(q)
  <2>1. InOrder(r)
    BY <1>1, <1>5, MadeCall
  <2>2. /\ Len(r.heard) \in Nat /\ Len(r.up) \in Nat \ {0}
        /\ Len(q.heard) = Len(r.heard) + 1 /\ Len(q.up) = Len(r.up) - 1
        /\ \A i \in 1..Len(r.heard) : q.heard[i] = r.heard[i]
        /\ q.heard[Len(r.heard) + 1] = r.up[1]
        /\ \A i \in 1..Len(q.up) : q.up[i] = r.up[i + 1]
    BY <1>1, <1>3, Fields, HeadAndTail, Appended
  <2>3. PICK h \in Nat, u \in Nat : /\ Len(r.heard) = h /\ Len(q.heard) = h + 1
                                     /\ Len(q.up) = u /\ Len(r.up) = u + 1
    BY <2>2, Fields
  <2>4. ASSUME ~q.cancelled PROVE /\ Len(q.heard) + Len(q.up) = sent
                                  /\ \A i \in 1..Len(q.heard) : q.heard[i] = Words[i]
                                  /\ \A i \in 1..Len(q.up) : q.up[i] = Words[Len(q.heard) + i]
    <3>1. /\ Len(r.heard) + Len(r.up) = sent
          /\ \A i \in 1..Len(r.heard) : r.heard[i] = Words[i]
          /\ \A i \in 1..Len(r.up) : r.up[i] = Words[Len(r.heard) + i]
      BY <1>3, <2>1, <2>4 DEF InOrder
    <3>2. ASSUME NEW i \in 1..Len(q.heard) PROVE q.heard[i] = Words[i]
      <4>1. CASE i \in 1..Len(r.heard)
        BY <2>2, <3>1, <4>1
      <4>2. CASE i = Len(r.heard) + 1
        BY <2>2, <3>1, <4>2
      <4>. QED  BY <2>2, <4>1, <4>2
    <3>3. ASSUME NEW i \in 1..Len(q.up) PROVE q.up[i] = Words[Len(q.heard) + i]
      <4>1. i + 1 \in 1..Len(r.up) /\ Len(r.heard) + (i + 1) = Len(q.heard) + i
        <5>1. i \in 1..u
          BY <2>3
        <5>2. i + 1 \in 1..(u + 1) /\ h + (i + 1) = (h + 1) + i
          BY <5>1
        <5>. QED  BY <2>3, <5>2
      <4>2. q.up[i] = r.up[i + 1] /\ r.up[i + 1] = Words[Len(r.heard) + (i + 1)]
        BY <2>2, <3>1, <4>1
      <4>. QED  BY <4>1, <4>2
    <3>4. Len(q.heard) + Len(q.up) = sent
      <4>1. Len(r.heard) + Len(r.up) = sent
        BY <3>1
      <4>2. h + (u + 1) = (h + 1) + u
        OBVIOUS
      <4>. QED  BY <2>3, <4>1, <4>2
    <3>. QED  BY <3>2, <3>3, <3>4
  <2>. QED  BY <1>3, <2>1, <2>4 DEF InOrder
<1>. QED  BY <1>1, <1>2, <1>3, <1>4, <1>5, OneCall

LEMMA NoMoreRequestsKeeps ==
  ASSUME EchoInvariant, UNCHANGED ClientSide, server' \in Servers, rpc # "serverStream",
         NEW c \in Attempts, NoMoreRequests(c)
  PROVE  EchoInvariant'
<1>1. PICK r \in CallType : /\ r = calls[c] /\ c <= tries /\ r.handler = "read" /\ r.up = <<>>
                            /\ r.closed \/ r.cancelled
  BY MadeCall, HandledIsMade DEF NoMoreRequests
<1>2. rpc = "clientStream" /\ ReplyOK(r) /\ InOrder(r)
  BY <1>1, MadeCall DEF ReplyOK, Unary, EchoInvariant, TypeOK
<1>3. r.down = <<>>
  BY <1>1, <1>2 DEF ReplyOK
<1>4. ASSUME ~r.cancelled PROVE r.heard = Echo
  <2>1. Len(r.heard) = Len(Words) /\ \A i \in 1..Len(r.heard) : r.heard[i] = Words[i]
    BY <1>1, <1>2, <1>4, Fields, SmallSequences DEF InOrder
  <2>. QED  BY <1>2, <2>1, Fields, SameSequence, WordsAreWords, EchoType DEF EchoInvariant
<1>. QED  BY <1>1, <1>2, <1>3, <1>4, ReplyKeeps DEF NoMoreRequests

LEMMA AlarmExpiresKeeps ==
  ASSUME EchoInvariant, UNCHANGED ClientSide, server' \in Servers,
         NEW c \in Attempts, AlarmExpires(c)
  PROVE  EchoInvariant'
<1>1. PICK r \in CallType : r = calls[c] /\ c <= tries /\ r.handler = "alarm"
  BY MadeCall, HandledIsMade DEF AlarmExpires
<1>2. rpc = "serverStream"
  BY <1>1, MadeCall DEF ReplyOK
<1>3. PICK q \in CallType : /\ Handles(c, q) /\ q.handler = "write" /\ q.n = r.n
                            /\ q.down = r.down /\ q.cancelled = r.cancelled
  <2>. DEFINE q == [r EXCEPT !.handler = "write"]
  <2>1. q \in CallType /\ q.handler = "write" /\ q.n = r.n /\ q.down = r.down
        /\ q.cancelled = r.cancelled
    BY DEF CallType
  <2>. QED  BY <1>1, <2>1 DEF AlarmExpires
<1>4. ASSUME Finite PROVE NumberOK(q)
  <2>1. NumberOK(r)
    BY <1>1, <1>4, MadeCall
  <2>. QED  BY <1>1, <1>3, <2>1 DEF NumberOK
<1>. QED  BY <1>1, <1>2, <1>3, <1>4, OneCall

LEMMA WriteDoneKeeps ==
  ASSUME EchoInvariant, UNCHANGED ClientSide, server' \in Servers,
         NEW c \in Attempts, WriteDone(c)
  PROVE  EchoInvariant'
<1>1. PICK r \in CallType : r = calls[c] /\ c <= tries /\ r.handler = "write"
  BY MadeCall, HandledIsMade DEF WriteDone
<1>2. rpc = "serverStream"
  BY <1>1, MadeCall DEF ReplyOK
<1>3. PICK m \in Answer : m = [body |-> <<r.n>>, last |-> FALSE] /\ ~m.last /\ m.body = <<r.n>>
  <2>1. <<r.n>> \in Bodies
    BY Fields, SmallSequences DEF Bodies
  <2>. QED  BY <2>1, OneAnswer
<1>4. PICK q \in CallType : /\ q = Sending(r, <<r.n>>, FALSE) /\ q.cancelled = r.cancelled
                            /\ q.down = IF r.cancelled THEN r.down ELSE Append(r.down, m)
  <2>1. CASE r.cancelled
    BY <2>1 DEF Sending
  <2>2. CASE ~r.cancelled
    <3>1. PICK d \in Seq(Answer) : d = Append(r.down, m)
      BY Fields, Appended
    <3>. DEFINE q == [r EXCEPT !.down = d]
    <3>2. q \in CallType /\ q.cancelled = r.cancelled /\ q.down = d
      BY DEF CallType
    <3>. QED  BY <1>3, <2>2, <3>1, <3>2 DEF Sending
  <2>. QED  BY <2>1, <2>2
<1>. DEFINE n == (r.n + 1) % (MaxUInt + 1)
<1>5. n \in 0..MaxUInt
  BY Fields, MaxUIntAssumption
<1>6. Handles(c, Number(q, n))
  BY <1>1, <1>4 DEF WriteDone
<1>7. ASSUME Finite
      PROVE  /\ n \in 1..(count + 1)
             /\ \A i \in 1..Len(q.down) : NumberOrEnd(q.down[i], i, Len(q.down))
             /\ ~q.cancelled => /\ Len(got) + Len(q.down) = n - 1
                                /\ \A i \in 1..Len(q.down) : ~q.down[i].last
  <2>1. NumberOK(r) /\ r.n \in 1..count
    BY <1>1, <1>7, MadeCall DEF NumberOK
  <2>2. n = r.n + 1
    <3>1. count < MaxUInt
      BY <1>7, Lengths, MaxUIntAssumption DEF Finite, Endless
    <3>. QED  BY <2>1, <3>1, Lengths, MaxUIntAssumption, NoOverflow
  <2>3. count \in Nat /\ Len(got) \in Nat /\ Len(r.down) \in Nat
    BY Fields DEF EchoInvariant, TypeOK, Bodies
  <2>4. CASE r.cancelled
    <3>1. n \in 1..(count + 1)
      BY <2>1, <2>2, <2>3
    <3>2. q.down = r.down /\ q.cancelled
      BY <1>4, <2>4
    <3>. QED  BY <2>1, <3>1, <3>2 DEF NumberOK
  <2>5. CASE ~r.cancelled
    <3>1. /\ Len(q.down) = Len(r.down) + 1 /\ q.down[Len(r.down) + 1] = m
          /\ \A i \in 1..Len(r.down) : q.down[i] = r.down[i]
      <4>1. q.down = Append(r.down, m)
        BY <1>4, <2>5
      <4>. QED  BY <4>1, Fields, Appended
    <3>2. Len(got) + Len(r.down) = r.n - 1 /\ \A i \in 1..Len(r.down) : ~r.down[i].last
      BY <1>1, <2>1, <2>5 DEF NumberOK
    <3>3. ASSUME NEW i \in 1..Len(q.down)
          PROVE  NumberOrEnd(q.down[i], i, Len(q.down)) /\ ~q.down[i].last
      <4>1. CASE i = Len(r.down) + 1
        <5>1. Len(got) + i = r.n
          <6>1. Len(got) + Len(r.down) = r.n - 1 /\ r.n \in Nat
            BY <2>1, <2>3, <3>2
          <6>. QED  BY <2>3, <4>1, <6>1
        <5>. QED  BY <1>3, <2>1, <3>1, <4>1, <5>1 DEF NumberOrEnd
      <4>2. CASE i # Len(r.down) + 1
        <5>1. i \in 1..Len(r.down) /\ q.down[i] = r.down[i] /\ ~r.down[i].last
          BY <2>3, <3>1, <3>2, <4>2
        <5>2. NumberOrEnd(r.down[i], i, Len(r.down))
          BY <2>1, <5>1 DEF NumberOK
        <5>. QED  BY <5>1, <5>2 DEF NumberOrEnd
      <4>. QED  BY <4>1, <4>2
    <3>4. n \in 1..(count + 1) /\ Len(got) + Len(q.down) = n - 1
      <4>1. Len(got) + Len(r.down) = r.n - 1 /\ Len(q.down) = Len(r.down) + 1
        BY <3>1, <3>2
      <4>2. r.n \in 1..count
        BY <2>1
      <4>3. Len(got) + Len(q.down) = r.n
        BY <2>3, <4>1, <4>2
      <4>4. r.n + 1 \in 1..(count + 1) /\ r.n = (r.n + 1) - 1
        BY <2>3, <4>2
      <4>. QED  BY <2>2, <4>3, <4>4
    <3>. QED  BY <3>3, <3>4
  <2>. QED  BY <2>4, <2>5
<1>. QED  BY <1>1, <1>2, <1>4, <1>5, <1>6, <1>7, NumberKeeps

\* A step of the handler that leaves alone what is on its way.
LEMMA EndKeeps ==
  ASSUME EchoInvariant, UNCHANGED ClientSide, server' \in Servers,
         NEW c \in Attempts, FinishDone(c) \/ Refuse(c)
  PROVE  EchoInvariant'
<1>1. PICK r \in CallType : r = calls[c] /\ c <= tries
  BY MadeCall, HandledIsMade DEF FinishDone, Refuse
<1>2. PICK q \in CallType : /\ Handles(c, q) /\ q.handler = "done" /\ q.down = r.down /\ q.up = r.up
                            /\ q.heard = r.heard /\ q.closed = r.closed
                            /\ ~q.cancelled => ~r.cancelled
  <2>1. CASE FinishDone(c)
    <3>. DEFINE q == [r EXCEPT !.handler = "done"]
    <3>1. /\ q \in CallType /\ q.handler = "done" /\ q.down = r.down /\ q.up = r.up
          /\ q.heard = r.heard /\ q.closed = r.closed /\ q.cancelled = r.cancelled
      BY DEF CallType
    <3>. QED  BY <1>1, <2>1, <3>1 DEF FinishDone
  <2>2. CASE Refuse(c)
    <3>. DEFINE q == [r EXCEPT !.cancelled = TRUE, !.handler = "done"]
    <3>1. /\ q \in CallType /\ q.handler = "done" /\ q.down = r.down /\ q.up = r.up
          /\ q.heard = r.heard /\ q.closed = r.closed /\ q.cancelled
      BY DEF CallType
    <3>. QED  BY <1>1, <2>2, <3>1 DEF Refuse
  <2>. QED  BY <2>1, <2>2
<1>3. rpc # "serverStream" => ReplyOK(q)
  BY <1>1, <1>2, MadeCall DEF ReplyOK
<1>4. ASSUME rpc = "clientStream" PROVE InOrder(q)
  <2>1. InOrder(r)
    BY <1>1, <1>4, MadeCall
  <2>. QED  BY <1>2, <2>1 DEF InOrder
<1>5. ASSUME Finite PROVE NumberOK(q)
  <2>1. NumberOK(r)
    BY <1>1, <1>5, MadeCall
  <2>. QED  BY <1>2, <2>1 DEF NumberOK
<1>. QED  BY <1>1, <1>2, <1>3, <1>4, <1>5, OneCall

-----------------------------------------------------------------------------
(* The client. *)

Clients == {"start", "call", "send", "close", "read", "finish", "delay",
            "done", "abandoned", "quit"}

\* The call under way is one that was made.
LEMMA PresentCall ==
  ASSUME EchoInvariant, tries # 0
  PROVE  /\ tries \in Attempts /\ call \in CallType
         /\ rpc # "serverStream" => ReplyOK(call)
         /\ rpc = "clientStream" => InOrder(call) /\ tries = 1
         /\ rpc = "serverStream" => tries = 1
         /\ Finite => NumberOK(call)
<1>1. tries \in Attempts /\ tries <= tries
  BY RetriesAssumption DEF EchoInvariant, TypeOK, Attempts
<1>2. rpc # "unary" => tries = 1
  BY DEF EchoInvariant, TypeOK, AttemptsUsed
<1>. QED  BY <1>1, <1>2, MadeCall DEF call

\* A step of the client on the call under way, before anything is received.
LEMMA ClientCall ==
  ASSUME EchoInvariant, UNCHANGED <<command, tries, got, status, server>>,
         client # "done", client' \in Clients, sent' \in 0..Len(Words), tries # 0,
         NEW r \in CallType, Handles(tries, r),
         rpc # "serverStream" => ReplyOK(r),
         rpc = "clientStream" => InOrder(r)',
         Finite => NumberOK(r),
         ClientOK', AttemptsUsed'
  PROVE  EchoInvariant'
<1>. USE DEF command
<1>0. tries \in Attempts /\ (rpc = "clientStream" => tries = 1)
  BY PresentCall
<1>1. TypeOK'
  BY <1>0 DEF EchoInvariant, TypeOK, Handles, Clients
<1>2. calls'[tries] = r /\ \A d \in Attempts \ {tries} : calls'[d] = calls[d]
  BY <1>0 DEF EchoInvariant, TypeOK, Handles
<1>4. CallsOK'
  BY <1>2 DEF EchoInvariant, TypeOK, CallsOK, Attempts
<1>5. Echo' = Echo /\ Replies' = Replies /\ Unary' = Unary /\ Finite' = Finite
  BY DEF Echo, Replies, Unary, Finite, Endless
<1>6. RepliesOK'
  <2>1. \A d \in Attempts : rpc # "serverStream" => ReplyOK(calls'[d])
    BY <1>2 DEF EchoInvariant, RepliesOK
  <2>2. rpc = "clientStream" => \A d \in 1..tries : calls'[d] = r
    BY <1>0, <1>2
  <2>3. rpc # "serverStream" => got = <<>> /\ status # "OK"
    BY DEF EchoInvariant, RepliesOK
  <2>. QED  BY <1>5, <2>1, <2>2, <2>3 DEF RepliesOK, ReplyOK, InOrder
<1>7. NumbersOK'
  <2>1. \A d \in 1..tries : Finite => NumberOK(calls'[d])
    BY <1>2, RetriesAssumption DEF EchoInvariant, NumbersOK, TypeOK, Attempts
  <2>. QED  BY <1>5, <2>1 DEF EchoInvariant, NumbersOK, NumberOK, NumberOrEnd
<1>. QED  BY <1>1, <1>4, <1>6, <1>7 DEF EchoInvariant

\* A step after which the client awaits something else, and that is all.
LEMMA ClientGoesOn ==
  ASSUME EchoInvariant, UNCHANGED <<command, tries, sent, got, status, calls, server>>,
         client # "done", client' \in Clients, tries # 0, ClientOK', AttemptsUsed'
  PROVE  EchoInvariant'
<1>1. tries \in Attempts /\ call \in CallType
  BY PresentCall
<1>2. Handles(tries, call)
  BY <1>1 DEF Handles, call, EchoInvariant, TypeOK
<1>3. InOrder(call) => InOrder(call)'
  BY DEF InOrder, call
<1>4. sent' \in 0..Len(Words)
  BY DEF EchoInvariant, TypeOK
<1>5. PICK r \in CallType : r = call
  BY <1>1
<1>6. rpc = "clientStream" => InOrder(r)'
  <2>1. rpc = "clientStream" => InOrder(r)
    BY <1>5, PresentCall
  <2>. QED  BY <2>1 DEF InOrder
<1>. QED  BY <1>1, <1>2, <1>4, <1>5, <1>6, PresentCall, ClientCall

\* The call is given up.
LEMMA GivenUp ==
  ASSUME EchoInvariant, UNCHANGED <<command, tries, sent, got, status, server>>,
         client # "done", client' \in {"abandoned", "quit"}, tries # 0,
         calls' = [calls EXCEPT ![tries].cancelled = TRUE]
  PROVE  EchoInvariant'
<1>1. PICK r \in CallType : r = call
  BY PresentCall
<1>2. PICK q \in CallType :
        /\ Handles(tries, q) /\ q.cancelled
        /\ q.up = r.up /\ q.down = r.down /\ q.heard = r.heard
        /\ q.closed = r.closed /\ q.handler = r.handler /\ q.n = r.n
  <2>. DEFINE q == [r EXCEPT !.cancelled = TRUE]
  <2>1. /\ q \in CallType /\ q.cancelled
        /\ q.up = r.up /\ q.down = r.down /\ q.heard = r.heard
        /\ q.closed = r.closed /\ q.handler = r.handler /\ q.n = r.n
    BY DEF CallType
  <2>2. Handles(tries, q)
    BY <1>1 DEF Handles, call
  <2>. QED  BY <2>1, <2>2
<1>3. rpc # "serverStream" => ReplyOK(q)
  BY <1>1, <1>2, PresentCall DEF ReplyOK
<1>4. ASSUME rpc = "clientStream" PROVE InOrder(q)'
  <2>1. InOrder(r)
    BY <1>1, <1>4, PresentCall
  <2>. QED  BY <1>2, <2>1 DEF InOrder
<1>5. ASSUME Finite PROVE NumberOK(q)
  <2>1. NumberOK(r)
    BY <1>1, <1>5, PresentCall
  <2>. QED  BY <1>2, <2>1 DEF NumberOK
<1>6. ClientOK' /\ AttemptsUsed' /\ client' \in Clients /\ sent' \in 0..Len(Words)
  BY DEF EchoInvariant, TypeOK, ClientOK, AttemptsUsed, Clients, command
<1>. QED  BY <1>2, <1>3, <1>4, <1>5, <1>6, ClientCall

LEMMA CallKeeps ==
  ASSUME EchoInvariant, Call, UNCHANGED server
  PROVE  EchoInvariant'
<1>. USE DEF command
<1>1. PICK requests \in Seq(Word), done \in BOOLEAN :
        /\ NewCall(requests, done)
        /\ requests \in {<<>>, <<Words[1]>>}
        /\ rpc = "clientStream" => requests = <<>> /\ ~done
        /\ client' \in {"call", "finish"} /\ (rpc = "clientStream" => client' = "call")
        /\ client' = "call" => ~Unary
  BY WordsAreWords, SmallSequences DEF Call, CallUnary, CallClientStream, CallServerStream, Unary
<1>2. /\ client = "start" /\ (tries = 0 \/ (rpc = "unary" /\ tries <= Retries))
      /\ (rpc = "clientStream" => sent = 0) /\ UNCHANGED <<rpc, count, sent, got, status>>
  BY DEF Call, EchoInvariant, ClientOK
<1>3. tries' = tries + 1 /\ tries' \in Attempts /\ tries \in Nat
  BY <1>1, <1>2, RetriesAssumption DEF NewCall, Attempts, EchoInvariant, TypeOK
<1>4. calls[tries'] = NoCall
  BY <1>3 DEF EchoInvariant, CallsOK
<1>5. PICK q \in CallType :
        /\ calls' = [calls EXCEPT ![tries'] = q]
        /\ q.down = <<>> /\ q.heard = <<>> /\ q.handler \in {"none", "done"}
        /\ q.up \in {<<>>, <<Words[1]>>}
        /\ rpc = "clientStream" => q.up = <<>> /\ ~q.closed
  <2>1. CASE server = "serving"
    <3>. DEFINE q == [NoCall EXCEPT !.up = requests, !.closed = done]
    <3>1. /\ q \in CallType /\ q.down = <<>> /\ q.heard = <<>> /\ q.handler = "none"
          /\ q.up = requests /\ q.closed = done
      BY NoCallType DEF CallType
    <3>. QED  BY <1>1, <1>3, <1>4, <2>1, <3>1 DEF NewCall, EchoInvariant, TypeOK
  <2>2. CASE server # "serving"
    <3>. DEFINE q == [NoCall EXCEPT !.cancelled = TRUE, !.handler = "done"]
    <3>1. /\ q \in CallType /\ q.down = <<>> /\ q.heard = <<>> /\ q.handler = "done"
          /\ q.up = <<>> /\ ~q.closed
      BY NoCallType DEF CallType
    <3>. QED  BY <1>3, <1>4, <1>1, <2>2, <3>1 DEF NewCall, EchoInvariant, TypeOK
  <2>. QED  BY <2>1, <2>2
<1>6. calls'[tries'] = q /\ \A d \in Attempts \ {tries'} : calls'[d] = calls[d]
  BY <1>3, <1>5 DEF EchoInvariant, TypeOK
<1>7. TypeOK'
  BY <1>1, <1>2, <1>3, <1>5 DEF EchoInvariant, TypeOK, Attempts
<1>8. ClientOK' /\ AttemptsUsed'
  BY <1>1, <1>2, <1>3, RetriesAssumption DEF EchoInvariant, TypeOK, ClientOK, AttemptsUsed, Unary
<1>9. CallsOK'
  BY <1>3, <1>6 DEF EchoInvariant, CallsOK, Attempts
<1>10. Echo' = Echo /\ Replies' = Replies /\ Unary' = Unary /\ Finite' = Finite
  BY <1>2 DEF Echo, Replies, Unary, Finite, Endless
<1>11. RepliesOK'
  <2>. SUFFICES ASSUME rpc # "serverStream" PROVE RepliesOK'
    BY <1>2 DEF RepliesOK
  <2>1. got = <<>> /\ status # "OK" /\ \A d \in Attempts : ReplyOK(calls[d])
    BY <1>2 DEF EchoInvariant, RepliesOK
  <2>2. ReplyOK(q)
    BY <1>5 DEF ReplyOK, Replies
  <2>3. \A d \in Attempts : ReplyOK(calls'[d])
    BY <1>6, <2>1, <2>2
  <2>4. rpc = "clientStream" => tries' = 1 /\ InOrder(q)
    BY <1>2, <1>3, <1>5, SmallSequences DEF InOrder
  <2>5. \A d \in Attempts : ReplyOK(calls[d])'
    BY <1>10, <2>3 DEF ReplyOK
  <2>6. ASSUME rpc = "clientStream", NEW d \in 1..tries' PROVE InOrder(calls[d])'
    <3>1. d = tries'
      BY <2>4, <2>6
    <3>2. calls'[d] = q
      BY <1>6, <3>1
    <3>3. InOrder(q)
      BY <2>4, <2>6
    <3>. QED  BY <1>2, <3>2, <3>3 DEF InOrder
  <2>. QED  BY <1>2, <2>1, <2>5, <2>6 DEF RepliesOK
<1>12. NumbersOK'
  <2>. SUFFICES ASSUME Finite PROVE NumbersOK'
    BY <1>10 DEF NumbersOK
  <2>1. /\ Len(got) <= count /\ (\A i \in 1..Len(got) : got[i] = i)
        /\ (status = "OK" => Len(got) = count) /\ (tries = 0 => got = <<>>)
    BY DEF EchoInvariant, NumbersOK
  <2>2. tries = 0 /\ tries' = 1 /\ got = <<>>
    BY <1>2, <1>3, <2>1 DEF Finite
  <2>3. NumberOK(q)
    BY <1>5, <2>2, SmallSequences DEF NumberOK
  <2>4. \A d \in 1..tries' : NumberOK(calls[d])'
    <3>1. \A d \in 1..1 : d = 1
      OBVIOUS
    <3>. QED  BY <1>2, <1>6, <2>2, <2>3, <3>1 DEF NumberOK, NumberOrEnd
  <2>. QED  BY <1>2, <2>1, <2>2, <2>4 DEF NumbersOK
<1>. QED  BY <1>7, <1>8, <1>9, <1>11, <1>12 DEF EchoInvariant

LEMMA WriteKeeps ==
  ASSUME EchoInvariant, Write, UNCHANGED server
  PROVE  EchoInvariant'
<1>. USE DEF command
<1>1. /\ client = "send" /\ ~call.cancelled /\ UNCHANGED <<rpc, count, tries, got, status>>
      /\ tries # 0 /\ rpc = "clientStream" /\ sent \in Nat /\ sent < Len(Words)
      /\ sent' = sent + 1 /\ client' = IF sent' = Len(Words) THEN "close" ELSE "send"
  BY DEF Write, EchoInvariant, ClientOK, TypeOK
<1>2. PICK r \in CallType : r = call /\ ReplyOK(r) /\ InOrder(r) /\ tries = 1
  BY <1>1, PresentCall
<1>3. PICK q \in CallType :
        /\ Handles(tries, q) /\ q.up = Append(r.up, Words[sent + 1])
        /\ q.down = r.down /\ q.heard = r.heard /\ q.closed = r.closed
        /\ q.handler = r.handler /\ ~q.cancelled
  <2>1. PICK u \in Seq(Word) : u = Append(r.up, Words[sent + 1])
    <3>1. Words[sent + 1] \in Word
      <4>1. sent + 1 \in 1..Len(Words)
        BY <1>1, WordsAreWords
      <4>. QED  BY <4>1, WordsAreWords
    <3>. QED  BY <3>1, Fields, Appended
  <2>. DEFINE q == [r EXCEPT !.up = u]
  <2>2. /\ q \in CallType /\ q.up = u /\ q.down = r.down /\ q.heard = r.heard
        /\ q.closed = r.closed /\ q.handler = r.handler /\ q.cancelled = r.cancelled
    BY DEF CallType
  <2>3. Handles(tries, q)
    BY <1>2, <2>1 DEF Write, Handles, call
  <2>. QED  BY <1>1, <1>2, <2>1, <2>2, <2>3
<1>4. ReplyOK(q)
  BY <1>1, <1>2, <1>3 DEF ReplyOK, Unary
<1>5. /\ Len(r.heard) + Len(r.up) = sent /\ ~r.closed
      /\ \A i \in 1..Len(r.heard) : r.heard[i] = Words[i]
      /\ \A i \in 1..Len(r.up) : r.up[i] = Words[Len(r.heard) + i]
  <2>1. ~r.cancelled
    BY <1>1, <1>2
  <2>2. ~r.closed
    <3>1. sent # Len(Words)
      BY <1>1, WordsAreWords
    <3>. QED  BY <1>2, <3>1 DEF InOrder
  <2>. QED  BY <1>2, <2>1, <2>2 DEF InOrder
<1>6. PICK h \in Nat, u \in Nat : /\ Len(r.heard) = h /\ Len(r.up) = u /\ Len(q.up) = u + 1
                                 /\ q.up[u + 1] = Words[sent + 1]
                                 /\ \A i \in 1..u : q.up[i] = r.up[i]
  <2>1. Words[sent + 1] \in Word
    BY <1>1, WordsAreWords
  <2>2. r.up \in Seq(Word) /\ Len(r.heard) \in Nat
    BY Fields
  <2>3. /\ Len(r.up) \in Nat /\ Len(q.up) = Len(r.up) + 1
        /\ q.up[Len(r.up) + 1] = Words[sent + 1]
        /\ \A i \in 1..Len(r.up) : q.up[i] = r.up[i]
    BY <1>3, <2>1, <2>2, Appended
  <2>. QED  BY <2>2, <2>3
<1>7. InOrder(q)'
  <2>1. h + u = sent
    BY <1>5, <1>6
  <2>2. ASSUME NEW i \in 1..(u + 1) PROVE q.up[i] = Words[h + i]
    <3>1. CASE i = u + 1
      <4>1. h + i = sent + 1
        BY <2>1, <3>1, <1>1
      <4>. QED  BY <1>6, <3>1, <4>1
    <3>2. CASE i # u + 1
      <4>1. i \in 1..u
        BY <3>2
      <4>. QED  BY <1>5, <1>6, <4>1
    <3>. QED  BY <3>1, <3>2
  <2>3. h + (u + 1) = sent'
    BY <1>1, <2>1
  <2>. QED  BY <1>3, <1>5, <1>6, <2>2, <2>3 DEF InOrder
<1>8. ClientOK' /\ AttemptsUsed' /\ client' \in Clients /\ sent' \in 0..Len(Words)
  BY <1>1, WordsAreWords DEF EchoInvariant, ClientOK, AttemptsUsed, Clients
<1>. QED  BY <1>1, <1>3, <1>4, <1>7, <1>8, ClientCall DEF Finite, Write

LEMMA WritesDoneKeeps ==
  ASSUME EchoInvariant, WritesDone, UNCHANGED server
  PROVE  EchoInvariant'
<1>. USE DEF command
<1>1. /\ client = "close" /\ client' = "finish" /\ UNCHANGED <<rpc, count, tries, sent, got, status>>
      /\ tries # 0 /\ sent = Len(Words)
  BY DEF WritesDone, EchoInvariant, ClientOK
<1>2. PICK r \in CallType : r = call
  BY <1>1, PresentCall
<1>3. PICK q \in CallType :
        /\ Handles(tries, q) /\ q.up = r.up /\ q.down = r.down /\ q.heard = r.heard
        /\ q.handler = r.handler /\ q.cancelled = r.cancelled /\ q.n = r.n
  <2>. DEFINE q == [r EXCEPT !.closed = TRUE]
  <2>1. /\ q \in CallType /\ q.up = r.up /\ q.down = r.down /\ q.heard = r.heard
        /\ q.handler = r.handler /\ q.cancelled = r.cancelled /\ q.n = r.n
    BY DEF CallType
  <2>2. Handles(tries, q)
    BY <1>2 DEF WritesDone, Handles, call
  <2>. QED  BY <2>1, <2>2
<1>4. rpc # "serverStream" => ReplyOK(q)
  BY <1>1, <1>2, <1>3, PresentCall DEF ReplyOK
<1>5. ASSUME rpc = "clientStream" PROVE InOrder(q)'
  <2>1. InOrder(r)
    BY <1>1, <1>2, <1>5, PresentCall
  <2>. QED  BY <1>1, <1>3, <2>1 DEF InOrder
<1>6. ASSUME Finite PROVE NumberOK(q)
  <2>1. NumberOK(r)
    BY <1>1, <1>2, <1>6, PresentCall
  <2>. QED  BY <1>3, <2>1 DEF NumberOK
<1>7. ClientOK' /\ AttemptsUsed' /\ client' \in Clients /\ sent' \in 0..Len(Words)
  BY <1>1, WordsAreWords DEF EchoInvariant, ClientOK, AttemptsUsed, Clients
<1>. QED  BY <1>1, <1>3, <1>4, <1>5, <1>6, <1>7, ClientCall

\* The head of the answers on their way was received.
LEMMA Received ==
  ASSUME EchoInvariant, UNCHANGED <<command, tries, sent, server>>, tries # 0,
         client \notin {"done"}, client' \in Clients, ClientOK', AttemptsUsed',
         call.down # <<>>, got' = got \o Head(call.down).body,
         calls' = [calls EXCEPT ![tries].down = Tail(@)],
         rpc = "serverStream" \/ Head(call.down).last,
         IF Head(call.down).last THEN status' = "OK" /\ client' = "done" ELSE status' = status
  PROVE  EchoInvariant'
<1>. USE DEF command
<1>1. PICK r \in CallType : r = call /\ r.down # <<>>
  BY PresentCall
<1>2. PICK m \in Answer : m = Head(r.down) /\ m = r.down[1]
  BY <1>1, Fields, HeadAndTail
<1>3. PICK q \in CallType :
        /\ Handles(tries, q) /\ q.down = Tail(r.down) /\ q.up = r.up /\ q.heard = r.heard
        /\ q.closed = r.closed /\ q.handler = r.handler /\ q.cancelled = r.cancelled /\ q.n = r.n
  <2>1. PICK d \in Seq(Answer) : d = Tail(r.down)
    BY <1>1, Fields, HeadAndTail
  <2>. DEFINE q == [r EXCEPT !.down = d]
  <2>2. /\ q \in CallType /\ q.down = d /\ q.up = r.up /\ q.heard = r.heard
        /\ q.closed = r.closed /\ q.handler = r.handler /\ q.cancelled = r.cancelled /\ q.n = r.n
    BY DEF CallType
  <2>3. Handles(tries, q)
    BY <1>1, <2>1 DEF Handles, call
  <2>. QED  BY <2>1, <2>2, <2>3
<1>4. PICK l \in Nat : /\ Len(r.down) = l + 1 /\ Len(q.down) = l
                       /\ \A i \in 1..l : q.down[i] = r.down[i + 1]
  <2>1. /\ Len(r.down) \in Nat \ {0} /\ Len(q.down) = Len(r.down) - 1
        /\ \A i \in 1..Len(q.down) : q.down[i] = r.down[i + 1]
    BY <1>1, <1>3, Fields, HeadAndTail
  <2>. QED  BY <2>1
<1>5. tries \in Attempts /\ calls'[tries] = q /\ \A d \in Attempts \ {tries} : calls'[d] = calls[d]
  BY <1>3, PresentCall DEF EchoInvariant, TypeOK, Handles
<1>6. m.body \in Bodies /\ m.last \in BOOLEAN /\ got' = got \o m.body
  BY <1>1, <1>2 DEF Answer
<1>7. TypeOK'
  <2>1. got' \in Bodies
    <3>1. got \in Seq(Word \cup Nat) /\ m.body \in Seq(Word \cup Nat)
      BY <1>6 DEF Bodies, EchoInvariant, TypeOK
    <3>2. got \o m.body \in Seq(Word \cup Nat)
      BY <3>1, Joined
    <3>. QED  BY <1>6, <3>2 DEF Bodies
  <2>2. calls' \in [Attempts -> CallType]
    BY <1>3, <1>5 DEF Handles, EchoInvariant, TypeOK
  <2>3. status' \in {"none", "OK", "UNAVAILABLE", "other"}
    BY DEF EchoInvariant, TypeOK
  <2>. QED  BY <2>1, <2>2, <2>3 DEF EchoInvariant, TypeOK, Clients
<1>8. CallsOK'
  BY <1>5 DEF EchoInvariant, TypeOK, CallsOK, Attempts
<1>9. Echo' = Echo /\ Replies' = Replies /\ Unary' = Unary /\ Finite' = Finite
  BY DEF Echo, Replies, Unary, Finite, Endless
<1>10. RepliesOK'
  <2>. SUFFICES ASSUME rpc # "serverStream" PROVE RepliesOK'
    BY DEF RepliesOK
  <2>1. ReplyOK(r) /\ got = <<>> /\ (rpc = "clientStream" => tries = 1 /\ InOrder(r))
    BY <1>1, PresentCall DEF EchoInvariant, RepliesOK
  <2>2. r.down = <<[body |-> Echo, last |-> TRUE]>>
    BY <1>1, <2>1 DEF ReplyOK, Replies
  <2>3. m.body = Echo /\ m.last /\ l = 0 /\ q.down = <<>>
    <3>1. m = [body |-> Echo, last |-> TRUE] /\ Len(r.down) = 1
      BY <1>2, <2>2
    <3>2. l = 0
      <4>1. l + 1 = 1
        BY <1>4, <3>1
      <4>. QED  BY <4>1
    <3>3. q.down = <<>>
      BY <1>4, <3>2, Fields, SmallSequences
    <3>. QED  BY <3>1, <3>2, <3>3
  <2>4. got' = Echo /\ client' = "done"
    BY <1>1, <1>2, <1>6, <2>1, <2>3 DEF Bodies
  <2>5. ReplyOK(q)
    BY <1>3, <2>1, <2>3 DEF ReplyOK, Replies
  <2>6. \A d \in Attempts : ReplyOK(calls'[d])
    BY <1>5, <2>5 DEF EchoInvariant, RepliesOK
  <2>7. \A d \in Attempts : ReplyOK(calls[d])'
    BY <1>9, <2>6 DEF ReplyOK
  <2>8. ASSUME rpc = "clientStream", NEW d \in 1..tries' PROVE InOrder(calls[d])'
    <3>1. d = tries
      BY <2>1, <2>8
    <3>2. calls'[d] = q
      BY <1>5, <3>1
    <3>3. InOrder(r)
      BY <2>1, <2>8
    <3>4. InOrder(q)'
      BY <1>3, <3>3 DEF InOrder
    <3>. QED  BY <3>2, <3>4 DEF InOrder
  <2>. QED  BY <1>9, <2>4, <2>7, <2>8 DEF RepliesOK
<1>11. NumbersOK'
  <2>. SUFFICES ASSUME Finite PROVE NumbersOK'
    BY <1>9 DEF NumbersOK
  <2>1. NumberOK(r) /\ tries = 1
    BY <1>1, PresentCall DEF Finite
  <2>2. PICK g \in Nat : /\ Len(got) = g /\ g <= count /\ count \in Nat
                         /\ \A i \in 1..g : got[i] = i
    BY Lengths DEF EchoInvariant, NumbersOK
  <2>3. /\ NumberOrEnd(m, 1, l + 1)
        /\ \A i \in 1..l : NumberOrEnd(q.down[i], i + 1, l + 1)
    <3>1. 1 \in 1..(l + 1) /\ \A i \in 1..l : i + 1 \in 1..(l + 1)
      OBVIOUS
    <3>. QED  BY <1>2, <1>4, <2>1, <3>1 DEF NumberOK
  <2>4. CASE m.last
    <3>1. l = 0 /\ m.body = <<>> /\ g = count
      BY <2>2, <2>3, <2>4 DEF NumberOrEnd
    <3>2. q.down = <<>>
      BY <1>4, <3>1, Fields, SmallSequences
    <3>3. got' = got
      <4>1. got \in Seq(Word \cup Nat)
        BY DEF Bodies, EchoInvariant, TypeOK
      <4>. QED  BY <1>6, <3>1, <4>1, Joined
    <3>4. q.handler \notin {"none", "read"} /\ (q.handler \in {"alarm", "write"} => q.cancelled /\ q.n \in 1..count)
      <4>1. 1 \in 1..Len(r.down) /\ r.down[1].last
        BY <1>2, <1>4, <2>4
      <4>. QED  BY <1>1, <1>3, <2>1, <4>1 DEF NumberOK
    <3>5. NumberOK(q)'
      BY <3>2, <3>3, <3>4, SmallSequences DEF NumberOK
    <3>6. ASSUME NEW d \in 1..tries' PROVE NumberOK(calls[d])'
      <4>1. calls'[d] = q
        BY <1>5, <2>1
      <4>. QED  BY <3>5, <4>1 DEF NumberOK, NumberOrEnd
    <3>. QED  BY <2>1, <2>2, <3>1, <3>3, <3>6 DEF NumbersOK
  <2>5. CASE ~m.last
    <3>1. m.body = <<g + 1>> /\ g + 1 <= count
      BY <2>2, <2>3, <2>5 DEF NumberOrEnd
    <3>2. /\ Len(got') = g + 1 /\ got'[g + 1] = g + 1 /\ \A i \in 1..g : got'[i] = i
      <4>1. got \in Seq(Word \cup Nat) /\ g + 1 \in Word \cup Nat
        BY <2>2 DEF Bodies, EchoInvariant, TypeOK
      <4>2. got' = Append(got, g + 1)
        BY <1>6, <3>1, <4>1, Joined
      <4>. QED  BY <2>2, <4>1, <4>2, Appended
    <3>3. ASSUME NEW i \in 1..(g + 1) PROVE got'[i] = i
      <4>1. i \in 1..g \/ i = g + 1
        BY <2>2
      <4>. QED  BY <3>2, <4>1
    <3>4. ASSUME NEW i \in 1..l PROVE NumberOrEnd(q.down[i], i, l)'
      <4>1. NumberOrEnd(q.down[i], i + 1, l + 1)
        BY <2>3
      <4>2. Len(got) + (i + 1) = Len(got') + i /\ (i + 1 = l + 1 => i = l)
        <5>1. g + (i + 1) = (g + 1) + i /\ (i + 1 = l + 1 => i = l)
          BY <2>2
        <5>. QED  BY <2>2, <3>2, <5>1
      <4>. QED  BY <4>1, <4>2 DEF NumberOrEnd
    <3>5. q.handler \notin {"none", "read"}
      BY <1>1, <1>3, <2>1 DEF NumberOK
    <3>6. ASSUME q.handler \in {"alarm", "write"}
          PROVE  /\ q.n \in 1..count
                 /\ ~q.cancelled => /\ Len(got') + Len(q.down) = q.n - 1
                                    /\ \A i \in 1..Len(q.down) : ~q.down[i].last
      <4>1. q.n \in 1..count
        BY <1>3, <2>1, <3>6 DEF NumberOK
      <4>2. ASSUME ~q.cancelled PROVE g + (l + 1) = q.n - 1 /\ \A i \in 1..(l + 1) : ~r.down[i].last
        BY <1>3, <1>4, <2>1, <2>2, <3>6, <4>2 DEF NumberOK
      <4>3. ~q.cancelled => (g + 1) + l = q.n - 1
        BY <4>2
      <4>4. \A i \in 1..l : i + 1 \in 1..(l + 1)
        OBVIOUS
      <4>5. ~q.cancelled => \A i \in 1..l : ~q.down[i].last
        BY <1>4, <4>2, <4>4
      <4>. QED  BY <1>4, <3>2, <4>1, <4>3, <4>5
    <3>7. NumberOK(q)'
      BY <1>4, <3>4, <3>5, <3>6 DEF NumberOK
    <3>8. ASSUME NEW d \in 1..tries' PROVE NumberOK(calls[d])'
      <4>1. calls'[d] = q
        BY <1>5, <2>1
      <4>. QED  BY <3>7, <4>1 DEF NumberOK, NumberOrEnd
    <3>9. status' # "OK"
      <4>1. Len(got) # count
        BY <2>2, <3>1
      <4>. QED  BY <1>1, <1>2, <2>5, <4>1 DEF EchoInvariant, NumbersOK
    <3>. QED  BY <2>1, <2>2, <3>1, <3>2, <3>3, <3>8, <3>9 DEF NumbersOK
  <2>. QED  BY <1>6, <2>4, <2>5
<1>. QED  BY <1>7, <1>8, <1>10, <1>11 DEF EchoInvariant

LEMMA ReadKeeps ==
  ASSUME EchoInvariant, Read, UNCHANGED server
  PROVE  EchoInvariant'
<1>1. client = "read" /\ rpc = "serverStream" /\ tries # 0
  BY DEF Read, EchoInvariant, ClientOK
<1>2. ClientOK' /\ AttemptsUsed' /\ client' \in Clients
  BY <1>1 DEF Read, EchoInvariant, ClientOK, AttemptsUsed, Clients, command
<1>. QED  BY <1>1, <1>2, Received DEF Read

LEMMA FinishKeeps ==
  ASSUME EchoInvariant, Finish, UNCHANGED server
  PROVE  EchoInvariant'
<1>. USE DEF command
<1>1. /\ client = "finish" /\ Over /\ tries # 0 /\ tries \in Nat
      /\ UNCHANGED <<rpc, count, tries, sent>> /\ client' \in {"delay", "done"}
      /\ client' = "delay" <=> rpc = "unary" /\ ShouldRetry(status')
  BY DEF Finish, EchoInvariant, ClientOK, TypeOK
<1>2. ClientOK' /\ AttemptsUsed' /\ client' \in Clients
  BY <1>1, RetriesAssumption
     DEF EchoInvariant, TypeOK, ClientOK, AttemptsUsed, Clients, ShouldRetry
<1>3. CASE call.down # <<>>
  <2>1. Head(call.down).last /\ status' = "OK" /\ client' = "done"
    BY <1>1, <1>3 DEF Finish, Over, ShouldRetry
  <2>. QED  BY <1>1, <1>2, <1>3, <2>1, Received DEF Finish
<1>4. CASE call.down = <<>>
  <2>1. UNCHANGED <<got, calls>> /\ status' \in {"UNAVAILABLE", "other"}
    BY <1>4 DEF Finish
  <2>2. TypeOK'
    BY <1>1, <2>1 DEF EchoInvariant, TypeOK
  <2>3. CallsOK'
    BY <1>1, <2>1 DEF EchoInvariant, CallsOK
  <2>4. RepliesOK'
    <3>1. rpc # "serverStream" => got = <<>>
      BY <1>1 DEF EchoInvariant, RepliesOK
    <3>. QED  BY <1>1, <2>1, <3>1 DEF EchoInvariant, RepliesOK, ReplyOK, Replies, Echo, Unary, InOrder
  <2>5. NumbersOK'
    BY <1>1, <2>1 DEF EchoInvariant, NumbersOK, NumberOK, NumberOrEnd, Finite, Endless
  <2>. QED  BY <1>2, <2>2, <2>3, <2>4, <2>5 DEF EchoInvariant
<1>. QED  BY <1>3, <1>4

LEMMA ClientKeeps ==
  ASSUME EchoInvariant, ClientStep
  PROVE  EchoInvariant'
<1>. USE DEF command
<1>1. CASE Call
  BY <1>1, CallKeeps DEF ClientStep
<1>2. CASE CallMade
  <2>1. ClientOK' /\ AttemptsUsed' /\ client' \in Clients /\ client # "done" /\ tries # 0
    <3>1. client = "call" /\ tries # 0 /\ UNCHANGED <<rpc, count, tries, sent, status>>
          /\ client' = IF rpc = "clientStream" THEN "send" ELSE "read"
      BY <1>2 DEF CallMade, EchoInvariant, ClientOK
    <3>2. rpc = "clientStream" => sent = 0 /\ 0 < Len(Words)
      BY <3>1, WordsAreWords DEF EchoInvariant, ClientOK
    <3>3. rpc \in {"clientStream", "serverStream"}
      BY <3>1 DEF EchoInvariant, TypeOK, ClientOK, Unary
    <3>. QED  BY <3>1, <3>2, <3>3 DEF EchoInvariant, ClientOK, AttemptsUsed, Clients, Unary
  <2>. QED  BY <1>2, <2>1, ClientGoesOn DEF CallMade, ClientStep
<1>3. CASE CallMissed
  <2>1. tries # 0
    BY <1>3 DEF CallMissed, EchoInvariant, ClientOK
  <2>. QED  BY <1>3, <2>1, GivenUp DEF CallMissed, ClientStep
<1>4. CASE Abandon
  <2>1. ClientOK' /\ AttemptsUsed' /\ client' \in Clients /\ client # "done" /\ tries # 0
    BY <1>4 DEF Abandon, EchoInvariant, ClientOK, AttemptsUsed, Clients
  <2>. QED  BY <1>4, <2>1, ClientGoesOn DEF Abandon, ClientStep
<1>5. CASE Write
  BY <1>5, WriteKeeps DEF ClientStep
<1>6. CASE WritesDone
  BY <1>6, WritesDoneKeeps DEF ClientStep
<1>7. CASE Read
  BY <1>7, ReadKeeps DEF ClientStep
<1>8. CASE ReadEnds
  <2>1. ClientOK' /\ AttemptsUsed' /\ client' \in Clients /\ client # "done" /\ tries # 0
    BY <1>8 DEF ReadEnds, EchoInvariant, ClientOK, AttemptsUsed, Clients
  <2>. QED  BY <1>8, <2>1, ClientGoesOn DEF ReadEnds, ClientStep
<1>9. CASE Finish
  BY <1>9, FinishKeeps DEF ClientStep
<1>10. CASE Retry
  <2>1. ClientOK' /\ AttemptsUsed' /\ client' \in Clients /\ client # "done" /\ tries # 0
    BY <1>10 DEF Retry, EchoInvariant, ClientOK, AttemptsUsed, Clients
  <2>. QED  BY <1>10, <2>1, ClientGoesOn DEF Retry, ClientStep
<1>. QED  BY <1>1, <1>2, <1>3, <1>4, <1>5, <1>6, <1>7, <1>8, <1>9, <1>10 DEF ClientStep

LEMMA QuitKeeps ==
  ASSUME EchoInvariant, Quit, UNCHANGED server
  PROVE  EchoInvariant'
<1>1. tries # 0 /\ client # "done"
  BY DEF Quit, EchoInvariant, ClientOK
<1>. QED  BY <1>1, GivenUp DEF Quit

-----------------------------------------------------------------------------
(* Handlers, and the server's end. *)

\* A step that changes neither client nor calls.
LEMMA ServerOnly ==
  ASSUME EchoInvariant, UNCHANGED ClientSide, UNCHANGED calls, server' \in Servers
  PROVE  EchoInvariant'
<1>. USE DEF ClientSide, command
<1>1. TypeOK'
  BY DEF EchoInvariant, TypeOK, Servers
<1>2. ClientOK' /\ CallsOK' /\ AttemptsUsed'
  BY DEF EchoInvariant, ClientOK, CallsOK, AttemptsUsed, Unary
<1>3. RepliesOK'
  BY DEF EchoInvariant, RepliesOK, ReplyOK, Replies, Echo, Unary, InOrder
<1>4. NumbersOK'
  BY DEF EchoInvariant, NumbersOK, NumberOK, NumberOrEnd, Finite, Endless
<1>. QED  BY <1>1, <1>2, <1>3, <1>4 DEF EchoInvariant

LEMMA HandlerKeeps ==
  ASSUME EchoInvariant, NEW c \in Attempts, HandlerStep(c)
  PROVE  EchoInvariant'
<1>0. UNCHANGED ClientSide /\ server' \in Servers
  BY DEF HandlerStep, Die, EchoInvariant, TypeOK, Servers
<1>1. CASE FinishDone(c) \/ Refuse(c)
  BY <1>0, <1>1, EndKeeps
<1>2. CASE Accept(c)
  BY <1>0, <1>2, AcceptKeeps
<1>3. CASE ReadRequest(c)
  BY <1>0, <1>3, ReadRequestKeeps
<1>4. CASE NoMoreRequests(c)
  <2>1. CASE rpc # "serverStream"
    BY <1>0, <1>4, <2>1, NoMoreRequestsKeeps
  <2>2. CASE rpc = "serverStream"
    <3>1. PICK r \in CallType : r = calls[c] /\ c <= tries /\ r.handler = "read"
      BY <1>4, MadeCall, HandledIsMade DEF NoMoreRequests
    <3>2. ~Finite
      BY <3>1, MadeCall DEF NumberOK
    <3>3. PICK q \in CallType : Handles(c, q)
      <4>1. PICK h \in Bodies : h = r.heard
        <5>1. r.heard \in Seq(Word)
          BY Fields
        <5>. QED  BY <5>1 DEF Bodies
      <4>2. [body |-> h, last |-> TRUE] \in Answer
        BY OneAnswer
      <4>3. Append(r.down, [body |-> h, last |-> TRUE]) \in Seq(Answer)
        BY <4>2, Fields, Appended
      <4>4. Finished(r, h) \in CallType
        BY <4>3 DEF Finished, Sending, CallType
      <4>. QED  BY <1>4, <3>1, <4>1, <4>4 DEF NoMoreRequests
    <3>. QED  BY <1>0, <2>2, <3>1, <3>2, <3>3, OneCall
  <2>. QED  BY <2>1, <2>2
<1>5. CASE AlarmExpires(c)
  BY <1>0, <1>5, AlarmExpiresKeeps
<1>6. CASE WriteDone(c)
  BY <1>0, <1>6, WriteDoneKeeps
<1>7. CASE Die(c)
  BY <1>0, <1>7, ServerOnly DEF Die
<1>. QED  BY <1>1, <1>2, <1>3, <1>4, <1>5, <1>6, <1>7 DEF HandlerStep

LEMMA ServerEndKeeps ==
  ASSUME EchoInvariant, ServerEnds
  PROVE  EchoInvariant'
<1>1. UNCHANGED ClientSide /\ server' \in Servers
  BY DEF ServerEnds, Stop, Deadline, CloseQueues, Servers
<1>2. CASE UNCHANGED calls
  BY <1>1, <1>2, ServerOnly
<1>3. CASE Deadline /\ tries # 0 /\ Cut(tries)
  <2>1. tries \in Attempts /\ tries <= tries
    BY <1>3, RetriesAssumption DEF EchoInvariant, TypeOK, Attempts
  <2>. QED  BY <1>1, <1>3, <2>1, CutKeeps
<1>. QED  BY <1>2, <1>3 DEF ServerEnds, Stop, Deadline, CloseQueues

LEMMA BreakKeeps ==
  ASSUME EchoInvariant, NEW c \in Attempts, Break(c), UNCHANGED ClientSide
  PROVE  EchoInvariant'
<1>1. server' \in Servers /\ c <= tries /\ Cut(c)
  BY DEF Break, EchoInvariant, TypeOK, Servers
<1>. QED  BY <1>1, CutKeeps

-----------------------------------------------------------------------------
(* The theorems. *)

LEMMA EchoInit == Init => EchoInvariant
<1>. SUFFICES ASSUME Init PROVE EchoInvariant
  OBVIOUS
<1>1. tries = 0 /\ sent = 0 /\ got = <<>> /\ status = "none" /\ client = "start"
      /\ \A c \in Attempts : calls[c] = NoCall
  BY DEF Init
<1>2. got \in Bodies /\ Len(got) = 0
  BY <1>1, SmallSequences DEF Bodies
<1>3. count \in 0..MaxUInt
  BY MaxUIntAssumption DEF Init
<1>4. TypeOK
  BY <1>2, <1>3, NoCallType, WordsAreWords, RetriesAssumption DEF Init, TypeOK
<1>5. ClientOK /\ CallsOK /\ AttemptsUsed
  BY <1>1, RetriesAssumption DEF ClientOK, CallsOK, AttemptsUsed
<1>6. RepliesOK
  BY <1>1, NoCallType DEF RepliesOK, ReplyOK, Replies
<1>7. NumbersOK
  BY <1>1, <1>2, <1>3 DEF NumbersOK, Finite, Endless
<1>. QED  BY <1>4, <1>5, <1>6, <1>7 DEF EchoInvariant

LEMMA EchoStep == EchoInvariant /\ [Next]_vars => EchoInvariant'
<1>. SUFFICES ASSUME EchoInvariant, [Next]_vars PROVE EchoInvariant'
  OBVIOUS
<1>1. CASE ClientStep
  BY <1>1, ClientKeeps
<1>2. CASE Quit /\ UNCHANGED server
  BY <1>2, QuitKeeps
<1>3. CASE \E c \in Attempts : HandlerStep(c)
  BY <1>3, HandlerKeeps
<1>4. CASE ServerEnds
  BY <1>4, ServerEndKeeps
<1>5. CASE \E c \in Attempts : Break(c) /\ UNCHANGED ClientSide
  BY <1>5, BreakKeeps
<1>6. CASE UNCHANGED vars
  <2>1. server' \in Servers
    BY <1>6 DEF vars, EchoInvariant, TypeOK, Servers
  <2>. QED  BY <1>6, <2>1, ServerOnly DEF vars, ClientSide, command
<1>. QED  BY <1>1, <1>2, <1>3, <1>4, <1>5, <1>6 DEF Next

\* What the client has received, what is on its way and what the handler has
\* still to send make up the echo, for as long as the call lives.
THEOREM EchoInvariance == Spec => []EchoInvariant
<1>. QED  BY EchoInit, EchoStep, PTL DEF Spec

\* The default retry policy is used up and not exceeded, whatever the number of
\* its delays, and no command but the unary echo is repeated.
THEOREM RetriesUsed == Spec => []AttemptsUsed
<1>1. EchoInvariant => AttemptsUsed
  BY DEF EchoInvariant
<1>. QED  BY <1>1, EchoInvariance, PTL

\* A client that is told OK has got all of the echo, and any other a beginning
\* of it, for all messages and counts, wherever the connection breaks and
\* whenever the server stops.
THEOREM EchoIsFaithful == Spec => []EchoFaithful
<1>1. ASSUME EchoInvariant, ~Endless PROVE (status = "OK" => got = Echo) /\ IsPrefix(got, Echo)
  <2>0. TypeOK /\ got \in Bodies /\ Echo \in Bodies
    BY <1>1, EchoType DEF EchoInvariant, TypeOK
  <2>1. CASE rpc # "serverStream"
    <3>1. got = Echo \/ (got = <<>> /\ status # "OK")
      BY <1>1, <2>1 DEF EchoInvariant, RepliesOK
    <3>2. IsPrefix(got, Echo)
      <4>1. Len(got) \in Nat /\ Len(Echo) \in Nat /\ (got = <<>> => Len(got) = 0)
        BY <2>0 DEF Bodies
      <4>2. Len(got) <= Len(Echo) /\ \A i \in 1..Len(got) : got[i] = Echo[i]
        BY <3>1, <4>1
      <4>. QED  BY <2>0, <4>2, PrefixByElements DEF Bodies
    <3>. QED  BY <3>1, <3>2
  <2>2. CASE rpc = "serverStream"
    <3>1. Echo = [n \in 1..count |-> n] /\ count \in Nat /\ Len(Echo) = count
          /\ \A i \in 1..count : Echo[i] = i
      BY <1>1, <2>0, <2>2, EchoType, Lengths
    <3>2. /\ Len(got) \in Nat /\ Len(got) <= count /\ \A i \in 1..Len(got) : got[i] = i
          /\ status = "OK" => Len(got) = count
      BY <1>1, <2>2, Lengths DEF EchoInvariant, NumbersOK, Finite
    <3>3. \A i \in 1..Len(got) : got[i] = Echo[i]
      BY <3>1, <3>2
    <3>4. IsPrefix(got, Echo)
      BY <2>0, <3>1, <3>2, <3>3, PrefixByElements DEF Bodies
    <3>5. status = "OK" => got = Echo
      BY <2>0, <3>1, <3>2, <3>3, SameSequence DEF Bodies
    <3>. QED  BY <3>4, <3>5
  <2>. QED  BY <2>1, <2>2
<1>2. EchoInvariant => EchoFaithful
  BY <1>1 DEF EchoFaithful
<1>. QED  BY <1>2, EchoInvariance, PTL

-----------------------------------------------------------------------------
(* Why the calls end. *)

\* What the invariants say of the work: where a handler is, and how far.
LEMMA HandlerPlace ==
  ASSUME EchoInvariant, ~Endless, NEW c \in Attempts
  PROVE  /\ calls[c] \in CallType
         /\ calls[c].handler = "read" => rpc = "clientStream"
         /\ calls[c].handler \in {"alarm", "write"} =>
              rpc = "serverStream" /\ calls[c].n \in 1..count /\ count < MaxUInt
<1>1. calls[c] \in CallType
  BY DEF EchoInvariant, TypeOK
<1>2. CASE calls[c].handler \in {"read", "alarm", "write"}
  <2>1. c <= tries
    BY <1>2, HandledIsMade
  <2>2. CASE rpc = "serverStream"
    <3>1. Finite /\ count < MaxUInt
      BY <2>2, Lengths, MaxUIntAssumption DEF Finite, Endless
    <3>. QED  BY <1>1, <2>1, <2>2, <3>1, MadeCall DEF NumberOK
  <2>3. CASE rpc # "serverStream"
    <3>1. ReplyOK(calls[c])
      BY <2>1, <2>3, MadeCall
    <3>. QED  BY <1>1, <1>2, <2>3, <3>1 DEF ReplyOK, Unary, EchoInvariant, TypeOK
  <2>. QED  BY <2>2, <2>3
<1>. QED  BY <1>1, <1>2

LEMMA WorkEnds ==
  ASSUME NEW r
  PROVE  /\ r.handler = "finish" => HandlerWork(r) = 1
         /\ r.handler = "done"   => HandlerWork(r) = 0
BY DEF HandlerWork

LEMMA WorkNone ==
  ASSUME NEW r, r.handler = "none", NEW l, l = Len(Words), NEW k, k = count
  PROVE  HandlerWork(r) = 2 * k + l + 5
BY DEF HandlerWork

LEMMA WorkReads ==
  ASSUME NEW r, r.handler = "read", NEW l, l = Len(Words), NEW w, w = Len(r.heard)
  PROVE  HandlerWork(r) = l - w + 2
BY DEF HandlerWork

LEMMA WorkNumbers ==
  ASSUME NEW r, NEW k, k = count, NEW n, n = r.n
  PROVE  /\ r.handler = "alarm" => HandlerWork(r) = 2 * (k - n) + 4
         /\ r.handler = "write" => HandlerWork(r) = 2 * (k - n) + 3
BY DEF HandlerWork

LEMMA HeardIsBounded ==
  ASSUME EchoInvariant, HeardOK, ~Endless, NEW c \in Attempts, calls[c].handler = "read",
         NEW l \in Nat, l = Len(Words), NEW w \in Nat, w = Len(calls[c].heard)
  PROVE  w <= l
<1>1. Len(calls[c].heard) + Len(calls[c].up) <= sent
  BY HandlerPlace DEF HeardOK
<1>2. sent \in 0..Len(Words)
  BY DEF EchoInvariant, TypeOK
<1>3. PICK u \in Nat : u = Len(calls[c].up)
  BY HandlerPlace, Fields
<1>4. w + u <= sent /\ sent \in 0..l
  BY <1>1, <1>2, <1>3
<1>. QED  BY <1>4

LEMMA HandlerWorkType ==
  ASSUME EchoInvariant, HeardOK, ~Endless, NEW c \in Attempts
  PROVE  HandlerWork(calls[c]) \in Nat
<1>1. PICK r \in CallType : r = calls[c]
  BY HandlerPlace
<1>2. PICK l \in Nat, w \in Nat, k \in Nat : l = Len(Words) /\ w = Len(r.heard) /\ k = count
  BY Fields, WordsAreWords, Lengths
<1>3. r.handler \in {"none", "read", "alarm", "write", "finish", "done"}
  BY DEF CallType
<1>4. CASE r.handler = "none"
  <2>1. HandlerWork(r) = 2 * k + l + 5
    BY <1>2, <1>4, WorkNone
  <2>. QED  BY <1>1, <2>1
<1>5. CASE r.handler = "read"
  <2>1. HandlerWork(r) = l - w + 2
    BY <1>2, <1>5, WorkReads
  <2>2. w <= l
    BY <1>1, <1>2, <1>5, HeardIsBounded
  <2>. QED  BY <1>1, <2>1, <2>2
<1>6. CASE r.handler \in {"alarm", "write"}
  <2>1. PICK n \in 1..k : n = r.n
    BY <1>1, <1>2, <1>6, HandlerPlace
  <2>2. HandlerWork(r) \in {2 * (k - n) + 4, 2 * (k - n) + 3}
    BY <1>2, <1>6, <2>1, WorkNumbers
  <2>. QED  BY <1>1, <2>2
<1>7. CASE r.handler \in {"finish", "done"}
  BY <1>1, <1>7, WorkEnds
<1>. QED  BY <1>3, <1>4, <1>5, <1>6, <1>7

\* The answer of a handler leaves alone what it heard.
LEMMA FinishedFields ==
  ASSUME NEW r \in CallType, NEW body
  PROVE  /\ Finished(r, body).handler = "finish"
         /\ Finished(r, body).heard = r.heard /\ Finished(r, body).up = r.up
<1>1. CASE r.cancelled
  BY <1>1 DEF Finished, Sending, CallType
<1>2. CASE ~r.cancelled
  BY <1>2 DEF Finished, Sending, CallType
<1>. QED  BY <1>1, <1>2

LEMMA NumberFields ==
  ASSUME NEW r \in CallType, NEW n
  PROVE  IF n <= count THEN Number(r, n).handler = "alarm" /\ Number(r, n).n = n
                       ELSE Number(r, n).handler = "finish"
<1>1. CASE n <= count
  BY <1>1 DEF Number, CallType
<1>2. CASE ~(n <= count)
  BY <1>2, FinishedFields DEF Number
<1>. QED  BY <1>1, <1>2

LEMMA SendingType ==
  ASSUME NEW r \in CallType, NEW body \in Bodies, NEW last \in BOOLEAN
  PROVE  Sending(r, body, last) \in CallType
<1>1. CASE r.cancelled
  BY <1>1 DEF Sending
<1>2. CASE ~r.cancelled
  <2>1. PICK d \in Seq(Answer) : d = Append(r.down, [body |-> body, last |-> last])
    BY OneAnswer, Fields, Appended
  <2>2. Sending(r, body, last) = [r EXCEPT !.down = d]
    BY <1>2, <2>1 DEF Sending
  <2>. QED  BY <2>2 DEF CallType
<1>. QED  BY <1>1, <1>2

\* A handler changes its own call.
LEMMA HandledCall ==
  ASSUME EchoInvariant, NEW c \in Attempts, NEW q, Handles(c, q)
  PROVE  calls'[c] = q /\ \A d \in Attempts : d # c => calls'[d] = calls[d]
BY DEF Handles, EchoInvariant, TypeOK

\* The handler takes its call: it has less work than before, whichever it is.
LEMMA AcceptWorks ==
  ASSUME EchoInvariant, ~Endless, NEW c \in Attempts, Accept(c), UNCHANGED ClientSide
  PROVE  HandlerWork(calls'[c]) < HandlerWork(calls[c])
<1>0. UNCHANGED <<rpc, count>>
  BY DEF ClientSide, command
<1>1. PICK r \in CallType : r = calls[c] /\ r.handler = "none"
  BY HandlerPlace DEF Accept
<1>2. PICK l \in Nat, k \in Nat : l = Len(Words) /\ k = count
  BY WordsAreWords, Lengths
<1>3. HandlerWork(r) = 2 * k + l + 5
  BY <1>1, <1>2, WorkNone
<1>4. PICK p \in CallType : p = [r EXCEPT !.up = <<>>]
  BY WithoutRequest
<1>5. CASE AcceptUnary(c)
  <2>1. calls'[c] = Finished(p, r.up)
    BY <1>1, <1>4, <1>5, HandledCall DEF AcceptUnary
  <2>2. HandlerWork(calls'[c]) = 1
    BY <2>1, FinishedFields, WorkEnds
  <2>. QED  BY <1>1, <1>3, <2>2
<1>6. CASE AcceptServerStream(c)
  <2>1. calls'[c] = Number(p, 1)
    BY <1>1, <1>4, <1>6, HandledCall DEF AcceptServerStream
  <2>2. CASE 1 <= count
    <3>1. calls'[c].handler = "alarm" /\ calls'[c].n = 1
      BY <2>1, <2>2, NumberFields
    <3>2. HandlerWork(calls'[c]) = 2 * (k - 1) + 4
      BY <1>2, <3>1, WorkNumbers
    <3>. QED  BY <1>1, <1>3, <3>2
  <2>3. CASE ~(1 <= count)
    <3>1. HandlerWork(calls'[c]) = 1
      BY <2>1, <2>3, NumberFields, WorkEnds
    <3>. QED  BY <1>1, <1>3, <3>1
  <2>. QED  BY <2>2, <2>3
<1>7. CASE AcceptClientStream(c)
  <2>1. calls'[c] = [r EXCEPT !.handler = "read"]
    BY <1>1, <1>7, HandledCall DEF AcceptClientStream
  <2>2. calls'[c].handler = "read" /\ calls'[c].heard = r.heard
    BY <2>1, BeginToRead
  <2>3. PICK w \in Nat : w = Len(r.heard)
    BY Fields
  <2>4. HandlerWork(calls'[c]) = l - w + 2
    BY <1>2, <2>2, <2>3, WorkReads
  <2>. QED  BY <1>1, <1>3, <2>4
<1>. QED  BY <1>5, <1>6, <1>7 DEF Accept

LEMMA ReadRequestWorks ==
  ASSUME EchoInvariant, ~Endless, NEW c \in Attempts, ReadRequest(c), UNCHANGED ClientSide
  PROVE  /\ HandlerWork(calls'[c]) < HandlerWork(calls[c])
         /\ Len(calls'[c].heard) + Len(calls'[c].up) = Len(calls[c].heard) + Len(calls[c].up)
<1>1. PICK r \in CallType : r = calls[c] /\ r.handler = "read" /\ r.up # <<>>
  BY HandlerPlace DEF ReadRequest
<1>2. PICK l \in Nat, w \in Nat : l = Len(Words) /\ w = Len(r.heard)
  BY WordsAreWords, Fields
<1>t. PICK u : u = Tail(r.up)
  OBVIOUS
<1>3. PICK v \in Nat : u = Tail(r.up) /\ Len(u) = v /\ Len(r.up) = v + 1
  <2>1. Len(r.up) \in Nat \ {0} /\ Tail(r.up) \in Seq(Word) /\ Len(Tail(r.up)) = Len(r.up) - 1
    BY <1>1, Fields, HeadAndTail
  <2>2. PICK n \in Nat \ {0} : n = Len(r.up)
    BY <2>1
  <2>3. n - 1 \in Nat /\ n = (n - 1) + 1
    OBVIOUS
  <2>. QED  BY <1>t, <2>1, <2>2, <2>3
<1>4. PICK h : h = Append(r.heard, Head(r.up)) /\ Len(h) = w + 1
  <2>1. PICK e \in Word, s \in Seq(Word) : e = Head(r.up) /\ s = r.heard
    BY <1>1, Fields, HeadAndTail
  <2>2. Len(Append(s, e)) = Len(s) + 1
    BY Appended
  <2>. QED  BY <1>2, <2>1, <2>2
<1>5. calls'[c] = [r EXCEPT !.heard = h, !.up = u]
  BY <1>1, <1>3, <1>4, HandledCall DEF ReadRequest
<1>6. calls'[c].handler = "read" /\ calls'[c].heard = h /\ calls'[c].up = u
  BY <1>1, <1>5 DEF CallType
<1>7. HandlerWork(r) = l - w + 2
  BY <1>1, <1>2, WorkReads
<1>8. HandlerWork(calls'[c]) = l - (w + 1) + 2
  <2>1. w + 1 = Len(calls'[c].heard)
    BY <1>4, <1>6
  <2>. QED  BY <1>2, <1>6, <2>1, WorkReads
<1>9. Len(calls'[c].heard) + Len(calls'[c].up) = (w + 1) + v
  BY <1>3, <1>4, <1>6
<1>10. Len(calls[c].heard) + Len(calls[c].up) = w + (v + 1)
  BY <1>1, <1>2, <1>3
<1>11. HandlerWork(calls'[c]) < HandlerWork(r)
  BY <1>7, <1>8
<1>12. (w + 1) + v = w + (v + 1)
  OBVIOUS
<1>13. HandlerWork(calls'[c]) < HandlerWork(calls[c])
  BY <1>1, <1>11
<1>. QED  BY <1>9, <1>10, <1>12, <1>13

LEMMA NoMoreRequestsWorks ==
  ASSUME EchoInvariant, HeardOK, ~Endless, NEW c \in Attempts, NoMoreRequests(c),
         UNCHANGED ClientSide
  PROVE  HandlerWork(calls'[c]) < HandlerWork(calls[c])
<1>1. PICK r \in CallType : r = calls[c] /\ r.handler = "read"
  BY HandlerPlace DEF NoMoreRequests
<1>2. calls'[c] = Finished(r, r.heard)
  BY <1>1, HandledCall DEF NoMoreRequests
<1>3. HandlerWork(calls'[c]) = 1
  BY <1>2, FinishedFields, WorkEnds
<1>4. PICK l \in Nat, w \in Nat : l = Len(Words) /\ w = Len(r.heard)
  BY WordsAreWords, Fields
<1>5. HandlerWork(r) = l - w + 2
  BY <1>1, <1>4, WorkReads
<1>6. w <= l
  BY <1>1, <1>4, HeardIsBounded
<1>. QED  BY <1>1, <1>3, <1>5, <1>6

LEMMA AlarmExpiresWorks ==
  ASSUME EchoInvariant, ~Endless, NEW c \in Attempts, AlarmExpires(c), UNCHANGED ClientSide
  PROVE  HandlerWork(calls'[c]) < HandlerWork(calls[c])
<1>0. UNCHANGED count
  BY DEF ClientSide, command
<1>1. PICK r \in CallType : r = calls[c] /\ r.handler = "alarm" /\ r.n \in 1..count
  BY HandlerPlace DEF AlarmExpires
<1>2. calls'[c] = [r EXCEPT !.handler = "write"]
  BY <1>1, HandledCall DEF AlarmExpires
<1>3. calls'[c].handler = "write" /\ calls'[c].n = r.n
  BY <1>2 DEF CallType
<1>4. PICK k \in Nat, n \in Nat : k = count /\ n = r.n
  BY <1>1, Lengths
<1>5. HandlerWork(r) = 2 * (k - n) + 4
  BY <1>1, <1>4, WorkNumbers
<1>6. HandlerWork(calls'[c]) = 2 * (k - n) + 3
  BY <1>3, <1>4, WorkNumbers
<1>. QED  BY <1>1, <1>5, <1>6

\* n is incremented without overflow, as the count is not the largest.
LEMMA WriteDoneWorks ==
  ASSUME EchoInvariant, ~Endless, NEW c \in Attempts, WriteDone(c), UNCHANGED ClientSide
  PROVE  HandlerWork(calls'[c]) < HandlerWork(calls[c])
<1>1. PICK r \in CallType : /\ r = calls[c] /\ r.handler = "write"
                            /\ r.n \in 1..count /\ count < MaxUInt
  BY HandlerPlace DEF WriteDone
<1>2. PICK k \in Nat, m \in Nat, n \in Nat :
        k = count /\ m = r.n /\ n = m + 1 /\ m <= k
  BY <1>1, Lengths
<1>3. (r.n + 1) % (MaxUInt + 1) = n
  BY <1>1, <1>2, MaxUIntAssumption, NoOverflow
<1>4. PICK q \in CallType : q = Sending(r, <<r.n>>, FALSE)
  <2>1. <<r.n>> \in Bodies
    BY Fields, SmallSequences DEF Bodies
  <2>. QED  BY <2>1, SendingType
<1>5. calls'[c] = Number(q, n)
  BY <1>1, <1>3, <1>4, HandledCall DEF WriteDone
<1>6. HandlerWork(r) = 2 * (k - m) + 3
  BY <1>1, <1>2, WorkNumbers
<1>7. CASE n <= count
  <2>1. calls'[c].handler = "alarm" /\ calls'[c].n = n
    BY <1>5, <1>7, NumberFields
  <2>2. HandlerWork(calls'[c]) = 2 * (k - n) + 4
    BY <1>2, <2>1, WorkNumbers
  <2>. QED  BY <1>1, <1>2, <1>6, <2>2
<1>8. CASE ~(n <= count)
  <2>1. HandlerWork(calls'[c]) = 1
    BY <1>5, <1>8, NumberFields, WorkEnds
  <2>. QED  BY <1>1, <1>2, <1>6, <2>1
<1>. QED  BY <1>7, <1>8

LEMMA EndWorks ==
  ASSUME EchoInvariant, ~Endless, NEW c \in Attempts, FinishDone(c) \/ Refuse(c),
         UNCHANGED ClientSide
  PROVE  HandlerWork(calls'[c]) < HandlerWork(calls[c])
<1>1. PICK r \in CallType : r = calls[c]
  BY HandlerPlace
<1>2. PICK k \in Nat, l \in Nat : k = count /\ l = Len(Words)
  BY WordsAreWords, Lengths
<1>3. CASE FinishDone(c)
  <2>1. calls'[c] = [r EXCEPT !.handler = "done"] /\ r.handler = "finish"
    BY <1>1, <1>3, HandledCall DEF FinishDone
  <2>2. calls'[c].handler = "done"
    BY <2>1 DEF CallType
  <2>3. HandlerWork(calls'[c]) = 0
    BY <2>2, WorkEnds
  <2>4. HandlerWork(r) = 1
    BY <2>1, WorkEnds
  <2>. QED  BY <1>1, <2>3, <2>4
<1>4. CASE Refuse(c)
  <2>1. calls'[c] = [r EXCEPT !.cancelled = TRUE, !.handler = "done"] /\ r.handler = "none"
    BY <1>1, <1>4, HandledCall DEF Refuse
  <2>2. calls'[c].handler = "done"
    BY <2>1 DEF CallType
  <2>3. HandlerWork(r) = 2 * k + l + 5
    BY <1>2, <2>1, WorkNone
  <2>. QED  BY <1>1, <2>2, <2>3, WorkEnds
<1>. QED  BY <1>3, <1>4

\* Every step of a handler uses up some of its work, and of no other's.
LEMMA HandlerStepWorks ==
  ASSUME EchoInvariant, HeardOK, ~Endless, NEW c \in Attempts, HandlerStep(c), ~Die(c)
  PROVE  /\ HandlerWork(calls'[c]) < HandlerWork(calls[c])
         /\ \A d \in Attempts : d # c => calls'[d] = calls[d]
<1>1. UNCHANGED ClientSide
  BY DEF HandlerStep
<1>2. FinishDone(c) \/ Refuse(c) \/ Accept(c) \/ ReadRequest(c) \/ NoMoreRequests(c)
      \/ AlarmExpires(c) \/ WriteDone(c)
  BY DEF HandlerStep
<1>3. PICK q : Handles(c, q)
  BY <1>2 DEF FinishDone, Refuse, Accept, AcceptUnary, AcceptServerStream, AcceptClientStream,
     ReadRequest, NoMoreRequests, AlarmExpires, WriteDone
<1>4. \A d \in Attempts : d # c => calls'[d] = calls[d]
  BY <1>3, HandledCall
<1>. QED  BY <1>1, <1>2, <1>4, AcceptWorks, ReadRequestWorks, NoMoreRequestsWorks,
        AlarmExpiresWorks, WriteDoneWorks, EndWorks

\* A call that dies keeps its handler, which has as much to do as before.
LEMMA CutWorks ==
  ASSUME EchoInvariant, NEW c \in Attempts, Cut(c)
  PROVE  \A d \in Attempts :
           /\ calls'[d].handler = calls[d].handler /\ calls'[d].n = calls[d].n
           /\ calls'[d].heard = calls[d].heard
           /\ Len(calls'[d].up) <= Len(calls[d].up)
<1>1. PICK r \in CallType : r = calls[c]
  BY DEF EchoInvariant, TypeOK
<1>2. PICK i \in 0..Len(r.up), j \in 0..Len(r.down) :
        Handles(c, [r EXCEPT !.cancelled = TRUE, !.up = SubSeq(@, 1, i), !.down = SubSeq(@, 1, j)])
  BY <1>1 DEF Cut
<1>3. PICK u, d : /\ u = SubSeq(r.up, 1, i) /\ d = SubSeq(r.down, 1, j) /\ Len(u) = i
  BY Fields, CutSequence
<1>4. calls'[c] = [r EXCEPT !.cancelled = TRUE, !.up = u, !.down = d]
  BY <1>2, <1>3, HandledCall
<1>5. /\ calls'[c].handler = r.handler /\ calls'[c].n = r.n /\ calls'[c].heard = r.heard
      /\ calls'[c].up = u
  BY <1>4 DEF CallType
<1>6. Len(u) <= Len(r.up) /\ \A k \in Attempts : Len(calls[k].up) <= Len(calls[k].up)
  <2>1. Len(r.up) \in Nat /\ \A k \in Attempts : Len(calls[k].up) \in Nat
    BY Fields DEF EchoInvariant, TypeOK
  <2>. QED  BY <1>3, <2>1
<1>. QED  BY <1>1, <1>2, <1>5, <1>6, HandledCall

\* What the client does to the calls: it makes them and adds to what is sent.
LEMMA ClientOnCalls ==
  ASSUME EchoInvariant, ClientStep \/ Quit
  PROVE  /\ sent' \in Nat /\ sent <= sent' /\ UNCHANGED <<rpc, count>>
         /\ \A d \in Attempts :
              /\ calls'[d].n = calls[d].n /\ calls'[d].heard = calls[d].heard
              /\ \/ calls'[d].handler = calls[d].handler
                 \/ calls[d].handler = "none" /\ calls'[d].handler = "done"
              /\ rpc = "clientStream" => Len(calls'[d].up) + sent <= Len(calls[d].up) + sent'
<1>0. /\ sent \in Nat /\ sent <= sent /\ calls \in [Attempts -> CallType]
      /\ \A d \in Attempts : Len(calls[d].up) \in Nat
      /\ \A d \in Attempts : Len(calls[d].up) + sent <= Len(calls[d].up) + sent
  <2>1. sent \in Nat /\ calls \in [Attempts -> CallType]
    BY DEF EchoInvariant, TypeOK
  <2>2. \A d \in Attempts : Len(calls[d].up) \in Nat
    BY <2>1, Fields
  <2>. QED  BY <2>1, <2>2
<1>1. CASE Call
  <2>1. client = "start" /\ UNCHANGED <<rpc, count, sent>>
    BY <1>1 DEF Call, command
  <2>2. PICK requests \in Seq(Word), done \in BOOLEAN :
          NewCall(requests, done) /\ (rpc = "clientStream" => requests = <<>>)
    BY <1>1, WordsAreWords, SmallSequences
       DEF Call, CallUnary, CallClientStream, CallServerStream, Unary
  <2>3. PICK t \in Attempts : t = tries + 1 /\ t > tries
    <3>1. tries + 1 \in Attempts /\ tries + 1 > tries
      BY <2>1, RetriesAssumption DEF EchoInvariant, TypeOK, ClientOK, Attempts
    <3>. QED  BY <3>1
  <2>4. calls[t] = NoCall
    BY <2>3 DEF EchoInvariant, CallsOK
  <2>5. PICK q : /\ calls' = [calls EXCEPT ![t] = q] /\ q.n = NoCall.n /\ q.heard = NoCall.heard
                 /\ q.handler = "none" \/ q.handler = "done"
                 /\ rpc = "clientStream" => q.up = NoCall.up
    <3>1. CASE server = "serving"
      <4>1. calls' = [calls EXCEPT ![t] = [NoCall EXCEPT !.up = requests, !.closed = done]]
        BY <1>0, <2>2, <2>3, <2>4, <3>1 DEF NewCall
      <4>2. PICK q : q = [NoCall EXCEPT !.up = requests, !.closed = done]
        OBVIOUS
      <4>3. q.n = NoCall.n /\ q.heard = NoCall.heard /\ q.handler = "none" /\ q.up = requests
        BY <4>2, NoCallType DEF CallType
      <4>. QED  BY <2>2, <4>1, <4>2, <4>3, NoCallType
    <3>2. CASE server # "serving"
      <4>1. calls' = [calls EXCEPT ![t] = [NoCall EXCEPT !.cancelled = TRUE, !.handler = "done"]]
        BY <1>0, <2>2, <2>3, <2>4, <3>2 DEF NewCall
      <4>2. PICK q : q = [NoCall EXCEPT !.cancelled = TRUE, !.handler = "done"]
        OBVIOUS
      <4>3. q.n = NoCall.n /\ q.heard = NoCall.heard /\ q.handler = "done" /\ q.up = NoCall.up
        BY <4>2, NoCallType DEF CallType
      <4>. QED  BY <4>1, <4>2, <4>3
    <3>. QED  BY <3>1, <3>2
  <2>6. calls'[t] = q /\ \A d \in Attempts : d # t => calls'[d] = calls[d]
    BY <1>0, <2>5
  <2>. QED  BY <1>0, <2>1, <2>4, <2>5, <2>6, NoCallType
<1>2. CASE UNCHANGED calls /\ UNCHANGED <<command, sent>>
  BY <1>0, <1>2 DEF command
<1>3. CASE CallMissed \/ WritesDone \/ Read \/ Quit \/ (Finish /\ call.down # <<>>)
  <2>1. tries # 0 /\ UNCHANGED <<rpc, count, sent>>
    BY <1>3 DEF CallMissed, WritesDone, Read, Quit, Finish, command, EchoInvariant, ClientOK
  <2>2. PICK t \in Attempts, r \in CallType : t = tries /\ r = calls[t]
    BY <2>1, PresentCall, <1>0
  <2>3. PICK q : /\ calls' = [calls EXCEPT ![t] = q]
                 /\ q.n = r.n /\ q.heard = r.heard /\ q.handler = r.handler /\ q.up = r.up
    <3>1. CASE CallMissed \/ Quit
      <4>1. calls' = [calls EXCEPT ![t] = [r EXCEPT !.cancelled = TRUE]]
        BY <2>2, <3>1 DEF CallMissed, Quit
      <4>2. PICK q : q = [r EXCEPT !.cancelled = TRUE]
        OBVIOUS
      <4>3. q.n = r.n /\ q.heard = r.heard /\ q.handler = r.handler /\ q.up = r.up
        BY <4>2 DEF CallType
      <4>. QED  BY <4>1, <4>2, <4>3
    <3>2. CASE WritesDone
      <4>1. calls' = [calls EXCEPT ![t] = [r EXCEPT !.closed = TRUE]]
        BY <2>2, <3>2 DEF WritesDone
      <4>2. PICK q : q = [r EXCEPT !.closed = TRUE]
        OBVIOUS
      <4>3. q.n = r.n /\ q.heard = r.heard /\ q.handler = r.handler /\ q.up = r.up
        BY <4>2 DEF CallType
      <4>. QED  BY <4>1, <4>2, <4>3
    <3>3. CASE Read \/ (Finish /\ call.down # <<>>)
      <4>1. PICK down : down = Tail(r.down)
        OBVIOUS
      <4>2. calls' = [calls EXCEPT ![t] = [r EXCEPT !.down = down]]
        BY <2>2, <3>3, <4>1 DEF Read, Finish
      <4>3. PICK q : q = [r EXCEPT !.down = down]
        OBVIOUS
      <4>4. q.n = r.n /\ q.heard = r.heard /\ q.handler = r.handler /\ q.up = r.up
        BY <4>3 DEF CallType
      <4>. QED  BY <4>2, <4>3, <4>4
    <3>. QED  BY <1>3, <3>1, <3>2, <3>3
  <2>4. calls'[t] = q /\ \A d \in Attempts : d # t => calls'[d] = calls[d]
    BY <1>0, <2>3
  <2>. QED  BY <1>0, <2>1, <2>2, <2>3, <2>4
<1>4. CASE Write
  <2>1. tries # 0 /\ UNCHANGED <<rpc, count>> /\ sent' = sent + 1 /\ sent < Len(Words)
    BY <1>4 DEF Write, command, EchoInvariant, ClientOK
  <2>2. PICK t \in Attempts, r \in CallType : t = tries /\ r = calls[t]
    BY <2>1, PresentCall, <1>0
  <2>3. PICK u : u = Append(r.up, Words[sent + 1]) /\ Len(u) = Len(r.up) + 1
    <3>1. sent + 1 \in 1..Len(Words)
      BY <1>0, <2>1, WordsAreWords
    <3>2. Words[sent + 1] \in Word
      BY <3>1, WordsAreWords
    <3>3. PICK w \in Word : w = Words[sent + 1]
      BY <3>2
    <3>4. r.up \in Seq(Word)
      BY Fields
    <3>5. Len(Append(r.up, w)) = Len(r.up) + 1
      BY <3>4, Appended
    <3>. QED  BY <3>3, <3>5
  <2>4. calls' = [calls EXCEPT ![t] = [r EXCEPT !.up = u]]
    BY <1>4, <2>2, <2>3 DEF Write
  <2>5. PICK q : q = [r EXCEPT !.up = u]
    OBVIOUS
  <2>6. q.n = r.n /\ q.heard = r.heard /\ q.handler = r.handler /\ q.up = u
    BY <2>5 DEF CallType
  <2>7. calls'[t] = q /\ \A d \in Attempts : d # t => calls'[d] = calls[d]
    BY <1>0, <2>4, <2>5
  <2>8. \A d \in Attempts : Len(calls'[d].up) + sent <= Len(calls[d].up) + sent'
    <3>1. Len(calls'[t].up) = Len(calls[t].up) + 1 /\ Len(calls[t].up) \in Nat
      BY <1>0, <2>2, <2>3, <2>6, <2>7
    <3>2. \A d \in Attempts : d # t => calls'[d].up = calls[d].up /\ Len(calls[d].up) \in Nat
      BY <1>0, <2>7
    <3>3. ASSUME NEW d \in Attempts PROVE Len(calls'[d].up) + sent <= Len(calls[d].up) + sent'
      <4>1. PICK k \in Nat : k = Len(calls[d].up)
        BY <1>0
      <4>2. Len(calls'[d].up) = k \/ Len(calls'[d].up) = k + 1
        BY <3>1, <3>2, <4>1
      <4>3. PICK s \in Nat : s = sent /\ s + 1 = sent'
        BY <1>0, <2>1
      <4>4. k + s <= k + (s + 1) /\ (k + 1) + s <= k + (s + 1)
        OBVIOUS
      <4>. QED  BY <4>1, <4>2, <4>3, <4>4
    <3>. QED  BY <3>3
  <2>9. sent' \in Nat /\ sent <= sent'
    BY <1>0, <2>1
  <2>10. \A d \in Attempts : /\ calls'[d].n = calls[d].n /\ calls'[d].heard = calls[d].heard
                            /\ calls'[d].handler = calls[d].handler
    BY <2>2, <2>6, <2>7
  <2>. QED  BY <2>1, <2>8, <2>9, <2>10
<1>. QED  BY <1>1, <1>2, <1>3, <1>4
     DEF ClientStep, CallMade, Abandon, ReadEnds, Finish, Retry, command

\* A handler of a client stream hears what was on its way, and nothing else.
LEMMA HandlerHears ==
  ASSUME EchoInvariant, rpc = "clientStream", NEW c \in Attempts, HandlerStep(c)
  PROVE  \A d \in Attempts :
           Len(calls'[d].heard) + Len(calls'[d].up) = Len(calls[d].heard) + Len(calls[d].up)
<1>1. ~Endless /\ ~Unary /\ UNCHANGED ClientSide
  BY DEF Endless, Unary, HandlerStep
<1>2. CASE UNCHANGED calls
  BY <1>2
<1>3. ASSUME NEW q, Handles(c, q), q.heard = calls[c].heard, q.up = calls[c].up
      PROVE  \A d \in Attempts :
               Len(calls'[d].heard) + Len(calls'[d].up) = Len(calls[d].heard) + Len(calls[d].up)
  BY <1>3, HandledCall
<1>4. PICK r \in CallType : r = calls[c]
  BY HandlerPlace, <1>1
<1>5. CASE FinishDone(c)
  <2>1. PICK q : q = [r EXCEPT !.handler = "done"]
    OBVIOUS
  <2>2. Handles(c, q) /\ q.heard = r.heard /\ q.up = r.up
    BY <1>4, <1>5, <2>1 DEF FinishDone, CallType
  <2>. QED  BY <1>3, <1>4, <2>2
<1>6. CASE Refuse(c)
  <2>1. PICK q : q = [r EXCEPT !.cancelled = TRUE, !.handler = "done"]
    OBVIOUS
  <2>2. Handles(c, q) /\ q.heard = r.heard /\ q.up = r.up
    BY <1>4, <1>6, <2>1 DEF Refuse, CallType
  <2>. QED  BY <1>3, <1>4, <2>2
<1>7. CASE Accept(c)
  <2>1. AcceptClientStream(c)
    BY <1>1, <1>7 DEF Accept, AcceptUnary, AcceptServerStream
  <2>2. PICK q : q = [r EXCEPT !.handler = "read"]
    OBVIOUS
  <2>3. Handles(c, q) /\ q.heard = r.heard /\ q.up = r.up
    BY <1>4, <2>1, <2>2, BeginToRead DEF AcceptClientStream
  <2>. QED  BY <1>3, <1>4, <2>3
<1>8. CASE ReadRequest(c)
  <2>1. PICK q : Handles(c, q)
    BY <1>8 DEF ReadRequest
  <2>2. \A d \in Attempts : d # c => calls'[d] = calls[d]
    BY <2>1, HandledCall
  <2>. QED  BY <1>1, <1>8, <2>2, ReadRequestWorks
<1>9. CASE NoMoreRequests(c)
  <2>1. PICK q : q = Finished(r, r.heard)
    OBVIOUS
  <2>2. Handles(c, q) /\ q.heard = r.heard /\ q.up = r.up
    BY <1>4, <1>9, <2>1, FinishedFields DEF NoMoreRequests
  <2>. QED  BY <1>3, <1>4, <2>2
<1>10. ~AlarmExpires(c) /\ ~WriteDone(c)
  BY <1>1, HandlerPlace DEF AlarmExpires, WriteDone
<1>11. Die(c) => UNCHANGED calls
  BY DEF Die
<1>. QED  BY <1>2, <1>5, <1>6, <1>7, <1>8, <1>9, <1>10, <1>11 DEF HandlerStep

\* A connection is lost, or the server ends: either cuts a call or none.
LEMMA OthersCut ==
  ASSUME EchoInvariant, ServerEnds \/ \E c \in Attempts : Break(c) /\ UNCHANGED ClientSide
  PROVE  UNCHANGED ClientSide /\ (UNCHANGED calls \/ \E c \in Attempts : Cut(c))
<1>1. CASE ServerEnds
  <2>1. tries # 0 => tries \in Attempts
    BY PresentCall
  <2>. QED  BY <1>1, <2>1 DEF ServerEnds, Stop, Deadline, CloseQueues
<1>2. CASE \E c \in Attempts : Break(c) /\ UNCHANGED ClientSide
  BY <1>2 DEF Break
<1>. QED  BY <1>1, <1>2

LEMMA HeardStep == EchoInvariant /\ HeardOK /\ [Next]_vars => HeardOK'
<1>. SUFFICES ASSUME EchoInvariant, HeardOK, [Next]_vars, rpc' = "clientStream",
                     NEW c \in Attempts
              PROVE  Len(calls'[c].heard) + Len(calls'[c].up) <= sent'
  BY DEF HeardOK
<1>0. EchoInvariant'
  BY EchoStep
<1>1. PICK h \in Nat, u \in Nat, s \in Nat :
        h = Len(calls[c].heard) /\ u = Len(calls[c].up) /\ s = sent
  <2>1. calls[c] \in CallType /\ sent \in Nat
    BY Lengths DEF EchoInvariant, TypeOK
  <2>. QED  BY <2>1, Fields
<1>2. PICK i \in Nat, v \in Nat, w \in Nat :
        i = Len(calls'[c].heard) /\ v = Len(calls'[c].up) /\ w = sent'
  <2>1. calls'[c] \in CallType /\ sent' \in Nat
    BY <1>0, WordsAreWords DEF EchoInvariant, TypeOK
  <2>. QED  BY <2>1, Fields
<1>3. rpc = "clientStream" => h + u <= s
  BY <1>1 DEF HeardOK
<1>4. CASE ClientStep \/ Quit
  <2>1. rpc = "clientStream" /\ i = h /\ v + s <= u + w
    BY <1>1, <1>2, <1>4, ClientOnCalls
  <2>. QED  BY <1>2, <1>3, <2>1
<1>5. CASE UNCHANGED ClientSide /\ UNCHANGED calls
  <2>1. rpc = "clientStream" /\ i = h /\ v = u /\ w = s
    BY <1>1, <1>2, <1>5 DEF ClientSide, command
  <2>. QED  BY <1>2, <1>3, <2>1
<1>6. CASE UNCHANGED ClientSide /\ \E d \in Attempts : Cut(d)
  <2>1. rpc = "clientStream" /\ i = h /\ v <= u /\ w = s
    BY <1>1, <1>2, <1>6, CutWorks DEF ClientSide, command
  <2>. QED  BY <1>2, <1>3, <2>1
<1>7. CASE \E d \in Attempts : HandlerStep(d)
  <2>1. rpc = "clientStream" /\ w = s
    BY <1>1, <1>2, <1>7 DEF HandlerStep, ClientSide, command
  <2>2. i + v = h + u
    BY <1>1, <1>2, <1>7, <2>1, HandlerHears
  <2>. QED  BY <1>2, <1>3, <2>1, <2>2
<1>8. CASE UNCHANGED vars
  BY <1>5, <1>8 DEF vars, ClientSide, command
<1>. QED  BY <1>4, <1>5, <1>6, <1>7, <1>8, OthersCut DEF Next

LEMMA HeardInvariance == Spec => []HeardOK
<1>1. Init => HeardOK
  <2>. SUFFICES ASSUME Init, NEW c \in Attempts
                PROVE  Len(calls[c].heard) + Len(calls[c].up) <= sent
    BY DEF HeardOK
  <2>1. calls[c].heard = <<>> /\ calls[c].up = <<>> /\ sent = 0
    BY NoCallType DEF Init, NoCall
  <2>2. calls[c] = NoCall
    BY DEF Init
  <2>3. Len(<<>>) = 0
    BY SmallSequences
  <2>. QED  BY <2>1, <2>3
<1>. QED  BY <1>1, EchoInvariance, HeardStep, PTL DEF Spec

\* What is before the client in each of its places, now and after a step.
LEMMA ThisCallIs ==
  ASSUME NEW l, l = Len(Words), NEW k, k = count, NEW s, s = sent, NEW g, g = Len(got)
  PROVE  /\ client = "call"   => ThisCall = l + k + 5
         /\ client = "send"   => ThisCall = l - s + 4
         /\ client = "close"  => ThisCall = 4
         /\ client = "read"   => ThisCall = k - g + 4
         /\ client = "finish" => ThisCall = 3
         /\ client = "delay"  => ThisCall = 1
         /\ client \in {"start", "done", "abandoned", "quit"} => ThisCall = 0
BY DEF ThisCall

LEMMA ThisCallThen ==
  ASSUME NEW l, l = Len(Words), NEW k, k = count', NEW s, s = sent', NEW g, g = Len(got')
  PROVE  /\ client' = "call"   => ThisCall' = l + k + 5
         /\ client' = "send"   => ThisCall' = l - s + 4
         /\ client' = "close"  => ThisCall' = 4
         /\ client' = "read"   => ThisCall' = k - g + 4
         /\ client' = "finish" => ThisCall' = 3
         /\ client' = "delay"  => ThisCall' = 1
         /\ client' \in {"start", "done", "abandoned", "quit"} => ThisCall' = 0
BY DEF ThisCall

LEMMA ThisCallType ==
  ASSUME EchoInvariant, ~Endless
  PROVE  ThisCall \in 0..(Len(Words) + count + 5)
<1>1. PICK l \in Nat, k \in Nat, s \in Nat, g \in Nat :
        l = Len(Words) /\ k = count /\ s = sent /\ g = Len(got)
  BY WordsAreWords, Lengths
<1>2. client \in {"start", "call", "send", "close", "read", "finish", "delay",
                  "done", "abandoned", "quit"}
  BY DEF EchoInvariant, TypeOK
<1>3. CASE client = "send"
  <2>1. s < l
    BY <1>1, <1>3 DEF EchoInvariant, ClientOK
  <2>2. ThisCall = l - s + 4
    BY <1>1, <1>3, ThisCallIs
  <2>. QED  BY <1>1, <2>1, <2>2
<1>4. CASE client = "read"
  <2>1. g <= k
    BY <1>1, <1>4 DEF EchoInvariant, ClientOK, NumbersOK, Finite
  <2>2. ThisCall = k - g + 4
    BY <1>1, <1>4, ThisCallIs
  <2>. QED  BY <1>1, <2>1, <2>2
<1>5. CASE client \notin {"send", "read"}
  <2>1. ThisCall \in {l + k + 5, 4, 3, 1, 0}
    BY <1>1, <1>2, <1>5, ThisCallIs
  <2>. QED  BY <1>1, <2>1
<1>. QED  BY <1>3, <1>4, <1>5

LEMMA ThisCallNext ==
  (EchoInvariant /\ ~Endless => ThisCall \in 0..(Len(Words) + count + 5))'
<1>1. EchoInvariant /\ ~Endless => ThisCall \in 0..(Len(Words) + count + 5)
  BY ThisCallType
<1>. QED  BY <1>1, PTL

\* A response is one number more, and not one too many.
LEMMA ReadNumber ==
  ASSUME EchoInvariant, ~Endless, Read
  PROVE  Len(got') = Len(got) + 1 /\ Len(got) + 1 <= count
<1>1. client = "read" /\ rpc = "serverStream" /\ tries # 0 /\ Finite
  BY DEF Read, EchoInvariant, ClientOK, Finite
<1>2. PICK r \in CallType : r = call /\ NumberOK(r)
  BY <1>1, PresentCall
<1>3. r.down \in Seq(Answer) /\ r.down # <<>>
  BY <1>2, Fields DEF Read
<1>4. Len(r.down) \in Nat \ {0} /\ Head(r.down) = r.down[1]
  BY <1>3, HeadAndTail
<1>5. 1 \in 1..Len(r.down)
  BY <1>4
<1>6. NumberOrEnd(r.down[1], 1, Len(r.down))
  BY <1>2, <1>5 DEF NumberOK
<1>7. ~Head(r.down).last /\ got' = got \o Head(r.down).body
  BY <1>2 DEF Read
<1>8. Head(r.down).body = <<Len(got) + 1>> /\ Len(got) + 1 <= count
  BY <1>4, <1>6, <1>7 DEF NumberOrEnd
<1>9. got \in Seq(Word \cup Nat) /\ Len(got) + 1 \in Nat
  BY Lengths DEF EchoInvariant, TypeOK, Bodies
<1>10. PICK e \in Word \cup Nat : e = Len(got) + 1
  BY <1>9
<1>11. got \o <<e>> = Append(got, e) /\ Len(Append(got, e)) = Len(got) + 1
  BY <1>9, Joined, Appended
<1>12. got' = got \o <<e>>
  BY <1>7, <1>8, <1>10
<1>. QED  BY <1>8, <1>11, <1>12

\* Each operation of a call leaves less of it.
LEMMA ThisCallShrinks ==
  ASSUME EchoInvariant, ~Endless, ClientStep \/ Quit, ~Call
  PROVE  ThisCall' < ThisCall /\ UNCHANGED <<count, tries>>
<1>0. UNCHANGED <<count, tries>>
  BY DEF ClientStep, Quit, CallMade, CallMissed, Abandon, Write, WritesDone, Read, ReadEnds,
     Finish, Retry, command
<1>1. PICK l \in Nat, k \in Nat, s \in Nat, g \in Nat :
        l = Len(Words) /\ k = count /\ s = sent /\ g = Len(got)
  BY WordsAreWords, Lengths
<1>2. PICK t, h : t = sent' /\ h = Len(got')
  OBVIOUS
<1>3. k = count'
  BY <1>0, <1>1
<1>. USE <1>0, <1>1, <1>2, <1>3, ThisCallIs, ThisCallThen
<1>4. CASE CallMade
  <2>1. client = "call" /\ client' \in {"send", "read"} /\ t = s /\ h = g
    BY <1>4 DEF CallMade
  <2>2. ThisCall = l + k + 5
    BY <2>1
  <2>3. CASE client' = "send"
    <3>1. ThisCall' = l - s + 4
      BY <2>1, <2>3
    <3>. QED  BY <2>2, <3>1
  <2>4. CASE client' = "read"
    <3>1. ThisCall' = k - g + 4
      BY <2>1, <2>4
    <3>. QED  BY <2>2, <3>1
  <2>. QED  BY <2>1, <2>3, <2>4
<1>6. CASE CallMissed \/ Abandon \/ Quit
  <2>1. /\ client' \in {"abandoned", "quit"}
        /\ client \in {"call", "send", "close", "read", "finish", "delay"}
    BY <1>6 DEF CallMissed, Abandon, Quit
  <2>2. ThisCall' = 0
    BY <2>1
  <2>3. client = "send" => s < l
    BY DEF EchoInvariant, ClientOK
  <2>4. client = "read" => g <= k
    BY DEF EchoInvariant, ClientOK, NumbersOK, Finite
  <2>5. ThisCall > 0
    <3>1. CASE client = "send"
      <4>1. ThisCall = l - s + 4
        BY <3>1
      <4>. QED  BY <2>3, <3>1, <4>1
    <3>2. CASE client = "read"
      <4>1. ThisCall = k - g + 4
        BY <3>2
      <4>. QED  BY <2>4, <3>2, <4>1
    <3>3. CASE client \notin {"send", "read"}
      <4>1. ThisCall \in {l + k + 5, 4, 3, 1}
        BY <2>1, <3>3
      <4>. QED  BY <4>1
    <3>. QED  BY <3>1, <3>2, <3>3
  <2>. QED  BY <2>2, <2>5
<1>7. CASE Write
  <2>1. client = "send" /\ t = s + 1 /\ s < l
    BY <1>7 DEF Write, EchoInvariant, ClientOK
  <2>2. client' = "close" \/ client' = "send"
    BY <1>7 DEF Write
  <2>3. ThisCall = l - s + 4
    BY <2>1
  <2>4. ThisCall' \in {l - t + 4, 4}
    BY <2>2
  <2>. QED  BY <2>1, <2>3, <2>4
<1>8. CASE WritesDone
  <2>1. client = "close" /\ client' = "finish"
    BY <1>8 DEF WritesDone
  <2>2. ThisCall = 4 /\ ThisCall' = 3
    BY <2>1
  <2>. QED  BY <2>2
<1>9. CASE Read
  <2>1. client = "read" /\ client' = "read" /\ h = g + 1
    BY <1>9, ReadNumber DEF Read
  <2>2. ThisCall = k - g + 4 /\ ThisCall' = k - h + 4
    BY <2>1
  <2>. QED  BY <2>1, <2>2
<1>10. CASE ReadEnds
  <2>1. client = "read" /\ client' = "finish"
    BY <1>10 DEF ReadEnds
  <2>2. g <= k
    BY <2>1 DEF EchoInvariant, ClientOK, NumbersOK, Finite
  <2>3. ThisCall = k - g + 4 /\ ThisCall' = 3
    BY <2>1
  <2>. QED  BY <2>2, <2>3
<1>11. CASE Finish
  <2>1. client = "finish" /\ client' \in {"delay", "done"}
    BY <1>11 DEF Finish
  <2>2. ThisCall = 3
    BY <2>1
  <2>3. ThisCall' \in {1, 0}
    BY <2>1
  <2>. QED  BY <2>2, <2>3
<1>12. CASE Retry
  <2>1. client = "delay" /\ client' = "start"
    BY <1>12 DEF Retry
  <2>2. ThisCall = 1 /\ ThisCall' = 0
    BY <2>1
  <2>. QED  BY <2>2
<1>. QED  BY <1>4, <1>6, <1>7, <1>8, <1>9, <1>10, <1>11, <1>12 DEF ClientStep

LEMMA LessOfThisCall ==
  ASSUME NEW a \in Nat, NEW b \in Nat, NEW x \in Int, NEW y \in Int, y < x
  PROVE  a * b + y < a * b + x
<1>1. PICK p \in Int : p = a * b
  OBVIOUS
<1>. QED  BY <1>1

LEMMA OneCallLess ==
  ASSUME NEW a \in Nat, NEW b \in Nat, NEW y \in Int, y < b
  PROVE  a * b + y < (a + 1) * b
<1>1. PICK p \in Int : p = a * b
  OBVIOUS
<1>2. (a + 1) * b = a * b + b
  OBVIOUS
<1>. QED  BY <1>1, <1>2

LEMMA ClientWorkType ==
  ASSUME EchoInvariant, ~Endless
  PROVE  /\ ClientWork \in Nat /\ Retries + 1 - tries \in Nat
         /\ Len(Words) + count + 6 \in Nat
<1>1. PICK l \in Nat, k \in Nat : l = Len(Words) /\ k = count
  BY WordsAreWords, Lengths
<1>2. PICK w \in Nat : w = ThisCall
  <2>1. ThisCall \in 0..(l + k + 5)
    BY <1>1, ThisCallType
  <2>. QED  BY <2>1
<1>3. PICK a \in Nat : a = Retries + 1 - tries
  <2>1. tries \in 0..(Retries + 1)
    BY DEF EchoInvariant, TypeOK
  <2>. QED  BY <2>1, RetriesAssumption
<1>4. ClientWork = a * (l + k + 6) + w
  BY <1>1, <1>2, <1>3 DEF ClientWork
<1>5. a * (l + k + 6) \in Nat
  OBVIOUS
<1>6. Len(Words) + count + 6 \in Nat
  BY <1>1
<1>. QED  BY <1>2, <1>3, <1>4, <1>5, <1>6

\* Everything the client does uses up some of its work.
LEMMA ClientWorks ==
  ASSUME EchoInvariant, ~Endless, ClientStep \/ Quit, EchoInvariant', ~Endless'
  PROVE  ClientWork' < ClientWork
<1>1. PICK l \in Nat, k \in Nat, a \in Nat, w \in Int :
        l = Len(Words) /\ k = count /\ a = Retries + 1 - tries /\ w = ThisCall
  <2>1. Len(Words) \in Nat /\ count \in Nat
    BY WordsAreWords, Lengths
  <2>2. ThisCall \in Int
    BY <2>1, ThisCallType
  <2>. QED  BY <2>1, <2>2, ClientWorkType
<1>2. ClientWork = a * (l + k + 6) + w
  BY <1>1 DEF ClientWork
<1>3. CASE ~Call
  <2>1. PICK x : x = ThisCall'
    OBVIOUS
  <2>2. x < w /\ UNCHANGED <<count, tries>>
    BY <1>1, <1>3, <2>1, ThisCallShrinks
  <2>3. ClientWork' = a * (l + k + 6) + x
    BY <1>1, <2>1, <2>2 DEF ClientWork
  <2>4. x \in Int
    <3>1. ThisCall' \in 0..(l + k + 5)
      BY <1>1, <2>2, ThisCallNext
    <3>. QED  BY <2>1, <3>1
  <2>. QED  BY <1>2, <2>2, <2>3, <2>4, LessOfThisCall
<1>4. CASE Call
  <2>1. client = "start" /\ client' \in {"call", "finish"} /\ UNCHANGED count /\ tries' = tries + 1
    BY <1>4 DEF Call, CallUnary, CallClientStream, CallServerStream, NewCall, command
  <2>2. w = 0
    BY <1>1, <2>1, ThisCallIs
  <2>3. PICK y : y = ThisCall'
    OBVIOUS
  <2>4. y \in {l + k + 5, 3}
    BY <1>1, <2>1, <2>3, ThisCallThen
  <2>5. PICK b \in Nat : b = Retries + 1 - (tries + 1) /\ a = b + 1
    <3>1. tries + 1 \in 0..(Retries + 1) /\ tries \in Nat
      BY <2>1, RetriesAssumption DEF EchoInvariant, TypeOK
    <3>. QED  BY <1>1, <3>1, RetriesAssumption
  <2>6. ClientWork' = b * (l + k + 6) + y
    BY <1>1, <2>1, <2>3, <2>5 DEF ClientWork
  <2>7. y \in Int /\ y < l + k + 6
    BY <2>4
  <2>8. b * (l + k + 6) + y < (b + 1) * (l + k + 6)
    BY <2>7, OneCallLess
  <2>9. (b + 1) * (l + k + 6) + 0 = (b + 1) * (l + k + 6)
    <3>1. (b + 1) * (l + k + 6) \in Nat
      OBVIOUS
    <3>. QED  BY <3>1
  <2>. QED  BY <1>2, <2>2, <2>5, <2>6, <2>8, <2>9
<1>. QED  BY <1>3, <1>4

\* What a step of any kind makes of the work of a handler.
LEMMA SameWork ==
  ASSUME NEW q, NEW r, q.handler = r.handler, q.n = r.n, q.heard = r.heard
  PROVE  HandlerWork(q) = HandlerWork(r)
BY DEF HandlerWork

LEMMA NoHandlerGains ==
  ASSUME EchoInvariant, HeardOK, ~Endless, [Next]_vars, NEW c \in Attempts
  PROVE  HandlerWork(calls'[c]) <= HandlerWork(calls[c])
<1>1. PICK w \in Nat : w = HandlerWork(calls[c])
  BY HandlerWorkType
<1>. SUFFICES \/ HandlerWork(calls'[c]) = w \/ HandlerWork(calls'[c]) = 0
             \/ HandlerWork(calls'[c]) < HandlerWork(calls[c])
  <2>1. PICK v : v = HandlerWork(calls'[c])
    OBVIOUS
  <2>. QED  BY <1>1, <2>1
<1>3. CASE ClientStep \/ Quit
  BY <1>1, <1>3, ClientOnCalls, SameWork, WorkEnds
<1>4. CASE UNCHANGED calls
  BY <1>1, <1>4
<1>5. CASE \E d \in Attempts : Cut(d)
  BY <1>1, <1>5, CutWorks, SameWork
<1>6. CASE \E d \in Attempts : HandlerStep(d)
  <2>1. PICK d \in Attempts : HandlerStep(d)
    BY <1>6
  <2>2. CASE Die(d)
    BY <1>4, <2>2 DEF Die
  <2>3. CASE ~Die(d)
    BY <1>1, <2>1, <2>3, HandlerStepWorks
  <2>. QED  BY <2>2, <2>3
<1>. QED  BY <1>3, <1>4, <1>5, <1>6, OthersCut DEF Next, vars

\* Whatever the messages, the counts short of the largest and the retries, the
\* client and each handler come to an end of their operations: each thing they
\* do uses up some of what is left, and nothing that befalls them adds to it.
THEOREM EchoesBounded == Spec => EchoesAreBounded
<1>1. ASSUME EchoInvariant, EchoInvariant', HeardOK, [Next]_vars, ~Endless
      PROVE  /\ ClientWork \in Nat
             /\ IF ClientStep \/ Quit THEN ClientWork' < ClientWork ELSE UNCHANGED ClientWork
             /\ \A c \in Attempts :
                  /\ HandlerWork(calls[c]) \in Nat
                  /\ HandlerWork(calls'[c]) <= HandlerWork(calls[c])
                  /\ HandlerStep(c) => Die(c) \/ HandlerWork(calls'[c]) < HandlerWork(calls[c])
  <2>1. ClientWork \in Nat
    BY <1>1, ClientWorkType
  <2>2. ASSUME ClientStep \/ Quit PROVE ClientWork' < ClientWork
    <3>1. ~Endless'
      BY <1>1, <2>2, ClientOnCalls DEF Endless
    <3>. QED  BY <1>1, <2>2, <3>1, ClientWorks
  <2>3. ASSUME ~(ClientStep \/ Quit) PROVE UNCHANGED ClientWork
    <3>1. UNCHANGED ClientSide
      BY <1>1, <2>3, OthersCut DEF Next, HandlerStep, vars, ClientSide, command
    <3>. QED  BY <3>1 DEF ClientSide, command, ClientWork, ThisCall
  <2>4. ASSUME NEW c \in Attempts
        PROVE  /\ HandlerWork(calls[c]) \in Nat
               /\ HandlerWork(calls'[c]) <= HandlerWork(calls[c])
               /\ HandlerStep(c) => Die(c) \/ HandlerWork(calls'[c]) < HandlerWork(calls[c])
    BY <1>1, HandlerWorkType, NoHandlerGains, HandlerStepWorks
  <2>. QED  BY <2>1, <2>2, <2>3, <2>4
<1>2. EchoInvariant /\ EchoInvariant' /\ HeardOK /\ [Next]_vars =>
        [~Endless =>
           /\ ClientWork \in Nat
           /\ IF ClientStep \/ Quit THEN ClientWork' < ClientWork ELSE UNCHANGED ClientWork
           /\ \A c \in Attempts :
                /\ HandlerWork(calls[c]) \in Nat
                /\ HandlerWork(calls'[c]) <= HandlerWork(calls[c])
                /\ HandlerStep(c) => Die(c) \/ HandlerWork(calls'[c]) < HandlerWork(calls[c])
        ]_vars
  BY <1>1
<1>. QED  BY <1>2, EchoInvariance, HeardInvariance, PTL DEF Spec, EchoesAreBounded
=============================================================================
