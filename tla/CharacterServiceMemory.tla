----------------------- MODULE CharacterServiceMemory -----------------------
(***************************************************************************)
(* What a CharacterService promises to the game, taken from the service    *)
(* that keeps the player in memory (game/character_service_memory.cpp):    *)
(* every operation a coroutine calls is one atomic step on the player, and *)
(* returns the value it has put there.                                     *)
(***************************************************************************)
EXTENDS Integers

CONSTANTS
  Calls,    \* the coroutines that call the service
  Amount,   \* the xp given by one GiveXp
  Nothing   \* no value

VARIABLES
  player,                   \* m_player
  returned,                 \* what co_return hands to the caller, who has not yet gone on
  given, leveled, reset     \* the calls whose GiveXp, LevelUp, Reset was done

vars == <<player, returned, given, leveled, reset>>

NewPlayer == [level |-> 1, xp |-> 0]

\* What the operations do to a player.
Rewarded(p)  == [p EXCEPT !.xp = @ + Amount]
LeveledUp(p) == [level |-> p.level + 1, xp |-> 0]

Init ==
  /\ player = NewPlayer
  /\ returned = [c \in Calls |-> Nothing]
  /\ given = {} /\ leveled = {} /\ reset = {}

GiveXp(c) ==
  /\ c \notin given /\ given' = given \cup {c}
  /\ player' = Rewarded(player)
  /\ returned' = [returned EXCEPT ![c] = player'.xp]
  /\ UNCHANGED <<leveled, reset>>

LevelUp(c) ==
  /\ c \notin leveled /\ leveled' = leveled \cup {c}
  /\ player' = LeveledUp(player)
  /\ returned' = [returned EXCEPT ![c] = player'.level]
  /\ UNCHANGED <<given, reset>>

Reset(c) ==
  /\ c \notin reset /\ reset' = reset \cup {c}
  /\ player' = NewPlayer
  /\ UNCHANGED <<returned, given, leveled>>

\* The caller takes what was returned to it.
GoesOn(c) ==
  /\ returned[c] # Nothing /\ returned' = [returned EXCEPT ![c] = Nothing]
  /\ UNCHANGED <<player, given, leveled, reset>>

Next == \E c \in Calls : GiveXp(c) \/ LevelUp(c) \/ Reset(c) \/ GoesOn(c)

Spec == Init /\ [][Next]_vars
=============================================================================
