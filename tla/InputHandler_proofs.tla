------------------------- MODULE InputHandler_proofs -------------------------
(* Theorems about InputHandler, for every number of lines and of spurious    *)
(* wakeups.                                                                  *)
EXTENDS InputHandler, TLAPS

LEMMA InitInvariant == Init => InputInvariant
<1> SUFFICES ASSUME Init PROVE InputInvariant
  OBVIOUS
<1>1. TypeOK
  <2>1. 0 \in 0..MaxLines /\ 0 \in 0..MaxSpurious /\ 0 \in 0..0
    BY MaxLinesAssumption, MaxSpuriousAssumption
  <2>2. <<>> \in Seq(1..MaxLines) /\ Len(<<>>) <= 0
    OBVIOUS
  <2>3. QED  BY <2>1, <2>2 DEF Init, TypeOK, GamePoints, ThreadPoints
<1>2. processed = <<>> /\ DOMAIN processed = {}
  BY DEF Init
<1>3. InOrder /\ LinesOrdered /\ NothingLost /\ OnlyWhenAsked
  BY <1>2 DEF Init, InOrder, LinesOrdered, NothingLost, OnlyWhenAsked, Held, One
<1>4. QED  BY <1>1, <1>3 DEF InputInvariant

\* The steps that touch neither the lines nor the promise.
LEMMA QuietInvariant ==
  ASSUME InputInvariant, TypeOK',
         UNCHANGED <<value, read, processed>>,
         spurious' = 0 => spurious = 0,
         Held' => Held,
         thread' = "set" => thread = "set",
         thread' = "terminated" => thread = "terminated",
         spurious' = 0 /\ thread = "set" => thread' = "set",
         spurious' = 0 => OnlyWhenAsked'
  PROVE  InputInvariant'
<1> USE DEF InputInvariant
<1>1. InOrder'
  BY DEF InOrder
<1>2. LinesOrdered'
  <2>1. /\ One(Held') \in Nat /\ One(Held) \in Nat /\ One(Held') <= One(Held)
        /\ One(thread' = "set") \in Nat /\ One(thread = "set") \in Nat
        /\ One(thread' = "set") <= One(thread = "set")
    BY DEF One
  <2>2. Len(processed) \in Nat /\ read \in Nat
    BY DEF TypeOK
  <2>3. Len(processed) + One(Held') + One(thread' = "set") <= read
    BY <2>1, <2>2 DEF LinesOrdered
  <2>4. QED  BY <2>3 DEF LinesOrdered
<1>3. NothingLost'
  BY DEF NothingLost, Got, TypeOK
<1>4. QED  BY <1>1, <1>2, <1>3

(***************************************************************************)
(* Renewing the promise, taking a line, reading one and setting the        *)
(* promise are the steps the invariant is about.                           *)
(***************************************************************************)
LEMMA RenewInvariant == InputInvariant /\ Renew => InputInvariant'
<1> SUFFICES ASSUME InputInvariant, Renew PROVE InputInvariant'
  OBVIOUS
<1> USE DEF InputInvariant, Renew, NewPromise, GameGoes
<1>1. TypeOK'
  BY DEF TypeOK, GamePoints
<1>2. InOrder'
  BY DEF InOrder
<1>3. LinesOrdered'
  BY DEF LinesOrdered, Held, One, TypeOK
<1>4. NothingLost'
  BY DEF NothingLost, OnlyWhenAsked, Got, TypeOK
<1>5. spurious' = 0 => OnlyWhenAsked'
  BY DEF OnlyWhenAsked, TypeOK
<1>6. QED  BY <1>1, <1>2, <1>3, <1>4, <1>5

LEMMA TakeLineInvariant == InputInvariant /\ TakeLine => InputInvariant'
<1> SUFFICES ASSUME InputInvariant, TakeLine PROVE InputInvariant'
  OBVIOUS
<1> USE DEF InputInvariant
<1>g. game = "frame" /\ game' \in {"renew", "stop"} /\ value # 0
  BY DEF TakeLine, GameGoes
<1>u. UNCHANGED <<thread, ready, stop, value, read, spurious>>
  BY DEF TakeLine
<1>h. Held /\ ~Held'
  BY <1>g, <1>u DEF Held
<1>t. value \in 1..read /\ read \in Nat /\ read <= MaxLines /\ processed \in Seq(1..MaxLines)
  BY <1>g, MaxLinesAssumption DEF TypeOK
<1>p. /\ processed' = Append(processed, value)
      /\ Len(processed') = Len(processed) + 1
      /\ DOMAIN processed' = DOMAIN processed \cup {Len(processed) + 1}
      /\ \A i \in DOMAIN processed : processed'[i] = processed[i]
      /\ processed'[Len(processed) + 1] = value
      /\ Len(processed) + 1 \notin DOMAIN processed
  BY <1>t DEF TakeLine
<1>d. \A i \in DOMAIN processed' : i # Len(processed) + 1 => i \in DOMAIN processed /\ i < Len(processed) + 1
  BY <1>p, <1>t
<1>l. Len(processed) + 1 + One(thread = "set") <= read
  BY <1>h, <1>t DEF LinesOrdered, One
<1>1. TypeOK'
  <2>1. processed' \in Seq(1..MaxLines)
    BY <1>t, <1>p, MaxLinesAssumption
  <2>2. Len(processed') <= read'
    BY <1>l, <1>p, <1>u, <1>t DEF One
  <2>3. QED  BY <2>1, <2>2, <1>g, <1>u DEF TypeOK, GamePoints
<1>o. \A i \in DOMAIN processed : processed[i] < value
  BY <1>h DEF LinesOrdered
<1>2. InOrder'
  <2> SUFFICES ASSUME NEW i \in DOMAIN processed', NEW j \in DOMAIN processed', i < j
               PROVE  processed'[i] < processed'[j]
    BY DEF InOrder
  <2>1. i \in DOMAIN processed
    BY <1>p, <1>d, <1>t
  <2>2. CASE j = Len(processed) + 1
    BY <2>1, <2>2, <1>o, <1>p
  <2>3. CASE j # Len(processed) + 1
    BY <2>1, <2>3, <1>d, <1>p DEF InOrder
  <2>4. QED  BY <2>2, <2>3
<1>3. LinesOrdered'
  <2>1. Len(processed') + One(Held') + One((thread = "set")') <= read'
    BY <1>h, <1>l, <1>p, <1>u, <1>t DEF One
  <2>2. thread = "set" => value < read
    BY DEF LinesOrdered
  <2>3. ASSUME NEW i \in DOMAIN processed'
        PROVE  processed'[i] <= read /\ (thread = "set" => processed'[i] < read)
    <3>1. CASE i = Len(processed) + 1
      BY <3>1, <1>p, <1>t, <2>2
    <3>2. CASE i # Len(processed) + 1
      BY <3>2, <1>d, <1>p DEF LinesOrdered
    <3>3. QED  BY <3>1, <3>2
  <2>4. QED  BY <2>1, <2>2, <2>3, <1>h, <1>u DEF LinesOrdered
<1>v. Got(value)' /\ \A n : Got(n) => Got(n)'
  BY <1>p, <1>u DEF Got
<1>4. NothingLost'
  BY <1>u, <1>v DEF NothingLost, Got
<1>5. spurious' = 0 => OnlyWhenAsked'
  BY <1>g, <1>u, <1>v DEF OnlyWhenAsked
<1>6. QED  BY <1>1, <1>2, <1>3, <1>4, <1>5

LEMMA ReadLineInvariant == InputInvariant /\ ReadLine => InputInvariant'
<1> SUFFICES ASSUME InputInvariant, ReadLine PROVE InputInvariant'
  OBVIOUS
<1> USE DEF InputInvariant, ReadLine, ThreadGoes
<1>t. read \in Nat /\ value \in 0..read /\ Len(processed) \in Nat
  BY DEF TypeOK
<1>1. TypeOK'
  BY MaxLinesAssumption DEF TypeOK, ThreadPoints
<1>2. InOrder'
  BY DEF InOrder
<1>3. LinesOrdered'
  <2>1. \A i \in DOMAIN processed : processed[i] \in Nat
    BY MaxLinesAssumption DEF TypeOK
  <2>2. QED  BY <1>t, <2>1 DEF LinesOrdered, Held, One
<1>4. NothingLost'
  BY <1>t DEF NothingLost, OnlyWhenAsked, Got
<1>5. spurious' = 0 => OnlyWhenAsked'
  BY DEF OnlyWhenAsked, Got
<1>6. QED  BY <1>1, <1>2, <1>3, <1>4, <1>5

LEMMA SetValueInvariant == InputInvariant /\ SetValue => InputInvariant'
<1> SUFFICES ASSUME InputInvariant, SetValue PROVE InputInvariant'
  OBVIOUS
<1> USE DEF InputInvariant, SetValue, ThreadGoes
<1>t. read \in Nat /\ value \in 0..read /\ Len(processed) \in Nat
  BY DEF TypeOK
<1>1. TypeOK'
  BY <1>t DEF TypeOK, ThreadPoints
<1>2. InOrder'
  BY DEF InOrder
<1>3. LinesOrdered'
  <2>1. \A i \in DOMAIN processed : processed[i] < read
    BY DEF LinesOrdered
  <2>2. QED  BY <1>t, <2>1 DEF LinesOrdered, Held, One
<1>4. NothingLost'
  BY <1>t DEF NothingLost, OnlyWhenAsked, Got
<1>5. spurious' = 0 => OnlyWhenAsked'
  BY DEF OnlyWhenAsked, NothingLost, Got
<1>6. QED  BY <1>1, <1>2, <1>3, <1>4, <1>5

-----------------------------------------------------------------------------

LEMMA StepInvariant == InputInvariant /\ [Next]_vars => InputInvariant'
<1> SUFFICES ASSUME InputInvariant, [Next]_vars PROVE InputInvariant'
  OBVIOUS
<1>t. TypeOK
  BY DEF InputInvariant
<1>a. spurious = 0 => OnlyWhenAsked
  BY DEF InputInvariant
<1> USE DEF GameGoes, ThreadGoes, GamePoints, ThreadPoints
<1>1. CASE Constructed
  <2>1. TypeOK'  BY <1>1, <1>t DEF Constructed, TypeOK
  <2>2. spurious' = 0 => OnlyWhenAsked'
    BY <1>1, <1>a DEF Constructed, OnlyWhenAsked, Got
  <2>3. QED  BY <1>1, <2>1, <2>2, QuietInvariant DEF Constructed, Held
<1>2. CASE Renew  BY <1>2, RenewInvariant
<1>3. CASE Ask
  <2>1. TypeOK'  BY <1>3, <1>t DEF Ask, NotifyOne, TypeOK
  <2>2. spurious' = 0 => OnlyWhenAsked'
    BY <1>3, <1>a DEF Ask, NotifyOne, OnlyWhenAsked, Got
  <2>3. QED  BY <1>3, <2>1, <2>2, QuietInvariant DEF Ask, NotifyOne, Held
<1>4. CASE TakeLine  BY <1>4, TakeLineInvariant
<1>5. CASE RequestStop
  <2>1. TypeOK'  BY <1>5, <1>t DEF RequestStop, TypeOK
  <2>2. spurious' = 0 => OnlyWhenAsked'
    BY <1>5, <1>a DEF RequestStop, OnlyWhenAsked, Got
  <2>3. QED  BY <1>5, <2>1, <2>2, QuietInvariant DEF RequestStop, Held
<1>6. CASE Wake
  <2>1. TypeOK'  BY <1>6, <1>t DEF Wake, NotifyOne, TypeOK
  <2>2. spurious' = 0 => OnlyWhenAsked'
    BY <1>6, <1>a DEF Wake, NotifyOne, OnlyWhenAsked, Got
  <2>3. QED  BY <1>6, <2>1, <2>2, QuietInvariant DEF Wake, NotifyOne, Held
<1>7. CASE Join
  <2>1. TypeOK'  BY <1>7, <1>t DEF Join, TypeOK
  <2>2. spurious' = 0 => OnlyWhenAsked'
    BY <1>7, <1>a DEF Join, OnlyWhenAsked, Got
  <2>3. QED  BY <1>7, <2>1, <2>2, QuietInvariant DEF Join, Held
<1>8. CASE Test \/ SetReady \/ Wait
  <2>1. TypeOK'  BY <1>8, <1>t DEF Test, SetReady, Wait, Block, TypeOK
  <2>2. spurious' = 0 => OnlyWhenAsked'
    BY <1>8, <1>a DEF Test, SetReady, Wait, Block, OnlyWhenAsked, Got
  <2>3. QED
    BY <1>8, <2>1, <2>2, QuietInvariant DEF Test, SetReady, Wait, Block, Held
<1>9. CASE WakeUnasked
  <2>1. TypeOK' /\ spurious' # 0
    BY <1>9, <1>t, MaxSpuriousAssumption DEF WakeUnasked, TypeOK
  <2>2. QED  BY <1>9, <2>1, QuietInvariant DEF WakeUnasked, Held
<1>10. CASE Woken
  <2>1. TypeOK'  BY <1>10, <1>t DEF Woken, TypeOK
  <2>2. spurious' = 0 => OnlyWhenAsked'
    BY <1>10, <1>a DEF Woken, OnlyWhenAsked, Got
  <2>3. QED  BY <1>10, <2>1, <2>2, QuietInvariant DEF Woken, Held
<1>11. CASE ReadLine  BY <1>11, ReadLineInvariant
<1>12. CASE SetValue  BY <1>12, SetValueInvariant
<1>13. CASE UNCHANGED vars
  <2>1. TypeOK'  BY <1>13, <1>t DEF vars, TypeOK
  <2>2. spurious' = 0 => OnlyWhenAsked'
    BY <1>13, <1>a DEF vars, OnlyWhenAsked, Got
  <2>3. QED  BY <1>13, <2>1, <2>2, QuietInvariant DEF vars, Held
<1>14. QED
  BY <1>1, <1>2, <1>3, <1>4, <1>5, <1>6, <1>7, <1>8, <1>9, <1>10, <1>11, <1>12,
     <1>13 DEF Next, GameStep, ThreadStep

(***************************************************************************)
(* The lines reach the game in order and none twice; and while no wakeup   *)
(* is spurious, no line that InputHandler's thread reads is lost and no    *)
(* promise is set twice.                                                   *)
(***************************************************************************)
THEOREM LinesDelivered == Spec => [](InOrder /\ NothingLost)
<1>1. InputInvariant => InOrder /\ NothingLost
  BY DEF InputInvariant
<1>2. QED  BY InitInvariant, StepInvariant, <1>1, PTL DEF Spec

\* The variables keep their types, and the two threads take turns as
\* InputInvariant says.
THEOREM InputInvariance == Spec => []InputInvariant
  BY InitInvariant, StepInvariant, PTL DEF Spec

\* game/main.cpp, GetString and the thread: whatever the wakeups, the lines that
\* the game gets are in the order they were typed.
THEOREM LinesInOrder == Spec => []InOrder
<1>1. InOrder /\ NothingLost => InOrder
  OBVIOUS
<1>2. QED  BY <1>1, LinesDelivered, PTL
=============================================================================
