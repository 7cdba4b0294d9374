---------------------------- MODULE InputHandler ----------------------------
(***************************************************************************)
(* The InputHandler of game/main.cpp: its thread waits to be asked, reads  *)
(* a line from the terminal and sets a promise; the game's thread asks     *)
(* with GetString, looks each frame whether the line is there, and asks    *)
(* again.  The condition variable has no predicate, and who notifies it    *)
(* does not hold the mutex, so only the waiting thread ever locks that.    *)
(***************************************************************************)
EXTENDS Naturals, Sequences

CONSTANTS
  MaxLines,      \* bound: lines that are typed
  MaxSpurious    \* bound: times the condition variable wakes its thread unasked

ASSUME MaxLinesAssumption    == MaxLines \in Nat
ASSUME MaxSpuriousAssumption == MaxSpurious \in Nat

VARIABLES
  game,       \* where the game's thread stands
  thread,     \* where the InputHandler's thread stands
  ready,      \* m_ready
  stop,       \* a stop of m_thread was requested
  value,      \* the line that m_promise was set to, 0 if to none
  read,       \* lines read from the terminal: the n-th is the number n
  processed,  \* the lines the game got
  spurious    \* spurious wakeups so far

vars == <<game, thread, ready, stop, value, read, processed, spurious>>

(***************************************************************************)
(* The game's thread constructs the handler, in GetString is about to      *)
(* renew the promise or to notify, goes through its frames, in the         *)
(* destructor is about to request the stop, to notify or to join, is over. *)
(***************************************************************************)
GamePoints == {"construct", "renew", "notify", "frame", "stop", "wake", "join", "over"}

\* The other is about to test its loop's condition, to set m_ready, to wait;
\* waits, is woken, reads, is about to set the promise, ended, or terminated
\* the program: a promise that is set twice throws, and nobody catches it.
ThreadPoints == {"test", "ready", "wait", "waiting", "woken", "read", "set",
                 "ended", "terminated"}

TypeOK ==
  /\ game \in GamePoints /\ thread \in ThreadPoints
  /\ ready \in BOOLEAN /\ stop \in BOOLEAN
  /\ value \in 0..read /\ read \in 0..MaxLines
  /\ processed \in Seq(1..MaxLines) /\ Len(processed) <= read
  /\ spurious \in 0..MaxSpurious

Init ==
  /\ game = "construct" /\ thread = "test"
  /\ ready = FALSE /\ stop = FALSE
  /\ value = 0 /\ read = 0 /\ processed = <<>>
  /\ spurious = 0

GameGoes(from, to)   == game = from /\ game' = to
ThreadGoes(from, to) == thread = from /\ thread' = to

-----------------------------------------------------------------------------
(* The game's thread. *)

\* while (!m_ready); and then Game's constructor calls GetString.
Constructed ==
  /\ ready /\ GameGoes("construct", "renew")
  /\ UNCHANGED <<thread, ready, stop, value, read, processed, spurious>>

\* Mutant: the promise is not renewed.
KeepPromise == UNCHANGED value

\* m_promise = std::promise<std::string>()
NewPromise == value' = 0

Renew ==
  /\ GameGoes("renew", "notify")
  /\ NewPromise
  /\ UNCHANGED <<thread, ready, stop, read, processed, spurious>>

\* m_cv.notify_one(): a thread that does not wait yet does not notice.
NotifyOne == thread' = IF thread = "waiting" THEN "woken" ELSE thread

\* GetString notifies, and returns the future of the promise.
Ask ==
  /\ GameGoes("notify", "frame")
  /\ NotifyOne
  /\ UNCHANGED <<ready, stop, value, read, processed, spurious>>

\* Game::Update finds the future ready: the entities process the line, and the
\* next one is asked for; or it is "quit", and the Game is destroyed.
TakeLine ==
  /\ value # 0
  /\ GameGoes("frame", "renew") \/ GameGoes("frame", "stop")
  /\ processed' = Append(processed, value)
  /\ UNCHANGED <<thread, ready, stop, value, read, spurious>>

\* Mutant: the destructor does not request the stop.
NotStopped ==
  /\ GameGoes("stop", "wake")
  /\ UNCHANGED <<thread, ready, stop, value, read, processed, spurious>>

\* ~InputHandler: request_stop, notify_one, and then the thread is joined.
RequestStop ==
  /\ GameGoes("stop", "wake")
  /\ stop' = TRUE
  /\ UNCHANGED <<thread, ready, value, read, processed, spurious>>

Wake ==
  /\ GameGoes("wake", "join")
  /\ NotifyOne
  /\ UNCHANGED <<ready, stop, value, read, processed, spurious>>

Join ==
  /\ thread = "ended" /\ GameGoes("join", "over")
  /\ UNCHANGED <<thread, ready, stop, value, read, processed, spurious>>

-----------------------------------------------------------------------------
(* LaunchThread. *)

\* while (!stop.stop_requested())
Test ==
  /\ ThreadGoes("test", IF stop THEN "ended" ELSE "ready")
  /\ UNCHANGED <<game, ready, stop, value, read, processed, spurious>>

SetReady ==
  /\ ThreadGoes("ready", "wait")
  /\ ready' = TRUE
  /\ UNCHANGED <<game, stop, value, read, processed, spurious>>

\* Mutant: the thread goes on without having been asked.
WaitForNobody == ThreadGoes("wait", "woken")

\* m_cv.wait(lock)
Block == ThreadGoes("wait", "waiting")

Wait == Block /\ UNCHANGED <<game, ready, stop, value, read, processed, spurious>>

\* It may return although nobody notified.
WakeUnasked ==
  /\ spurious < MaxSpurious /\ ThreadGoes("waiting", "woken")
  /\ spurious' = spurious + 1
  /\ UNCHANGED <<game, ready, stop, value, read, processed>>

\* if (!stop.stop_requested())
Woken ==
  /\ ThreadGoes("woken", IF stop THEN "test" ELSE "read")
  /\ UNCHANGED <<game, ready, stop, value, read, processed, spurious>>

\* std::getline(std::cin, input)
ReadLine ==
  /\ read < MaxLines /\ ThreadGoes("read", "set")
  /\ read' = read + 1
  /\ UNCHANGED <<game, ready, stop, value, processed, spurious>>

\* m_promise.set_value(std::move(input)), whatever promise that is by now.
SetValue ==
  /\ ThreadGoes("set", IF value = 0 THEN "test" ELSE "terminated")
  /\ value' = IF value = 0 THEN read ELSE value
  /\ UNCHANGED <<game, ready, stop, read, processed, spurious>>

-----------------------------------------------------------------------------

GameStep == Constructed \/ Renew \/ Ask \/ TakeLine \/ RequestStop \/ Wake \/ Join

ThreadStep ==
  Test \/ SetReady \/ Wait \/ WakeUnasked \/ Woken \/ ReadLine \/ SetValue

Next == thread # "terminated" /\ (GameStep \/ ThreadStep)

Spec == Init /\ [][Next]_vars

-----------------------------------------------------------------------------
(* Properties. *)

\* The game got line n.
Got(n) == \E i \in DOMAIN processed : processed[i] = n

\* The game gets the lines in the order they were typed, none of them twice,
\* whatever the wakeups: a promise hands over one line.
InOrder ==
  \A i, j \in DOMAIN processed : i < j => processed[i] < processed[j]

(***************************************************************************)
(* As long as no wakeup was spurious, no line that was read is lost: the   *)
(* game got it, or its promise holds it, or the thread is about to set it  *)
(* to a promise that has no line yet.  So the promise is never renewed     *)
(* over a line, nor set twice, however the two threads interleave.         *)
(***************************************************************************)
NothingLost ==
  spurious = 0 =>
    /\ \A n \in 1..read : Got(n) \/ n = value \/ (thread = "set" /\ n = read)
    /\ thread = "set" => value = 0
    /\ thread # "terminated"

-----------------------------------------------------------------------------
(* Why they hold. *)

\* The promise has a line that the game did not get yet.
Held == value # 0 /\ game \in {"construct", "notify", "frame"}

One(condition) == IF condition THEN 1 ELSE 0

\* Whatever was read later is a greater number.
LinesOrdered ==
  /\ Len(processed) + One(Held) + One(thread = "set") <= read
  /\ \A i \in DOMAIN processed :
       /\ processed[i] <= read
       /\ Held => processed[i] < value
       /\ thread = "set" => processed[i] < read
  /\ thread = "set" => value < read

\* Without spurious wakeups the thread does something only while the game, in
\* its frames, waits for a line, or when the game is over.
OnlyWhenAsked ==
  /\ thread \in {"read", "set"} => game = "frame" /\ value = 0
  /\ thread = "woken" => stop \/ (game = "frame" /\ value = 0)
  /\ stop <=> game \in {"wake", "join", "over"}
  /\ game \in {"construct", "notify"} => value = 0
  /\ game \in {"renew", "stop", "wake", "join", "over"} => value = 0 \/ Got(value)

\* The inductive invariant: the game's thread and its input thread take turns,
\* and the promise is what one hands to the other.
InputInvariant ==
  /\ TypeOK /\ InOrder /\ LinesOrdered /\ NothingLost
  /\ spurious = 0 => OnlyWhenAsked
=============================================================================
