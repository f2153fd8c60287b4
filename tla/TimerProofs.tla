----------------------------- MODULE TimerProofs -----------------------------
(***************************************************************************)
(* Proofs about module Timer, for every size of the timer and of a byte    *)
(* and every latch time that TimerAssumption allows.                       *)
(***************************************************************************)
EXTENDS Timer, TLAPS

\* The remainder by b is below b, and is the number itself if that is.
LEMMA ModBelow ==
  ASSUME NEW a \in Nat, NEW b \in Nat \ {0}
  PROVE  a % b \in 0 .. b - 1 /\ (a < b => a % b = a)
BY SMT

\* A number below c * b has a quotient by b below c.
LEMMA DivBelow ==
  ASSUME NEW a \in Nat, NEW b \in Nat \ {0}, NEW c \in Nat, a < c * b
  PROVE  a \div b \in 0 .. c - 1
BY SMT

\* What the assumption says of the constants, as plain arithmetic.
LEMMA Constants ==
  /\ TOP \in Nat \ {0} /\ BYTE \in Nat \ {0, 1} /\ MaxSlack \in Nat
  /\ LatchTicks \in Nat \ {0} /\ LatchTicks <= TOP
  /\ 2 * MaxSlack < TOP
  /\ Initial % BYTE \in 0 .. BYTE - 1
  /\ Initial \div BYTE \in 0 .. BYTE - 1
<1>1. /\ TOP \in Nat \ {0} /\ BYTE \in Nat \ {0, 1} /\ MaxSlack \in Nat
      /\ LatchTicks \in Nat \ {0} /\ LatchTicks <= TOP
      /\ 2 * MaxSlack < TOP
  BY TimerAssumption, SMT DEF LatchTicks
<1>2. Initial \in Nat /\ Initial < BYTE * BYTE
  BY TimerAssumption, <1>1, SMT
<1>3. Initial % BYTE \in 0 .. BYTE - 1
  BY <1>1, <1>2, ModBelow, SMT
<1>4. Initial \div BYTE \in 0 .. BYTE - 1
  BY <1>1, <1>2, DivBelow, SMT
<1> QED
  BY <1>1, <1>3, <1>4

-----------------------------------------------------------------------------
\* Every variable of the timer has its type: every step stays in the range of
\* a byte, of TCNT1 and of the history.
THEOREM TypeCorrect == Spec => []TypeOK
<1>1. Init => TypeOK
  <2> SUFFICES ASSUME Init
               PROVE  TypeOK
    OBVIOUS
  <2>1. tov \in BOOLEAN /\ raced \in BOOLEAN
    BY Zenon DEF Init
  <2> QED
    BY <2>1, Constants, SMT DEF Init, TypeOK, Places, Nothing, Unread
<1>2. TypeOK /\ [Next]_vars => TypeOK'
  <2> SUFFICES ASSUME TypeOK, [Next]_vars
               PROVE  TypeOK'
    OBVIOUS
  <2> USE Constants DEF TypeOK, Places, timer
  <2>1. CASE Tick
    <3>1. tcnt + 1 \in Nat /\ TOP \in Nat \ {0}
      BY SMT
    <3>2. (tcnt + 1) % TOP \in 0 .. TOP - 1
      BY <3>1, ModBelow, Zenon
    <3>3. tcnt' \in 0 .. TOP - 1 /\ tov' \in BOOLEAN /\ raced' \in BOOLEAN
      BY <2>1, <3>2, Zenon DEF Tick
    <3> QED
      BY <2>1, <3>3, SMT DEF Tick
  <2>2. CASE TIMER1_OVF_vect
    <3>1. lo' \in 0 .. BYTE - 1 /\ (hi + 1) % BYTE \in 0 .. BYTE - 1
      BY <2>2, ModBelow, SMT DEF TIMER1_OVF_vect
    <3>2. tov' \in BOOLEAN /\ raced' \in BOOLEAN
      BY <2>2, Zenon DEF TIMER1_OVF_vect
    <3> QED
      BY <2>2, <3>1, <3>2, SMT DEF TIMER1_OVF_vect
  <2>3. CASE begin
    BY <2>3, SMT DEF begin, Step
  <2>4. CASE CallShow
    BY <2>4, SMT DEF CallShow, Step, Nothing, Unread
  <2>5. CASE LoadTcnt
    BY <2>5, SMT DEF LoadTcnt, Step, Unread
  <2>6. CASE LoadLo
    BY <2>6, SMT DEF LoadLo, Step, Unread
  <2>7. CASE LoadHi
    BY <2>7, SMT DEF LoadHi, Step, Unread
  <2>8. CASE Poll
    BY <2>8, SMT DEF Poll, Step, Nothing, Unread
  <2>9. CASE EndData
    BY <2>9, SMT DEF EndData, Step
  <2>10. CASE ClearLo
    <3>1. raced' \in BOOLEAN
      BY <2>10, Zenon DEF ClearLo
    <3> QED
      BY <2>10, <3>1, SMT DEF ClearLo, Step
  <2>11. CASE ClearHi
    BY <2>11, SMT DEF ClearHi, Step
  <2>12. CASE ZeroTcnt
    BY <2>12, SMT DEF ZeroTcnt, Step
  <2>13. CASE UNCHANGED vars
    BY <2>13, SMT DEF vars
  <2> QED
    BY <2>1, <2>2, <2>3, <2>4, <2>5, <2>6, <2>7, <2>8, <2>9, <2>10, <2>11, <2>12, <2>13
    DEF Next, show, reset_timer
<1> QED
  BY <1>1, <1>2, PTL DEF Spec

-----------------------------------------------------------------------------
(***************************************************************************)
(* The latch time. Until the interrupt hits reset_timer() half way, the    *)
(* timer shows no more time than has passed since the last bit, and        *)
(* neither does what micros() has loaded from it.                          *)
(***************************************************************************)

\* What the timer shows is not ahead of the time since the last bit.
TimerBehind == lo = 0 /\ hi = 0 /\ ~tov /\ tcnt <= since

\* Neither is what has been loaded from it.
LoadedBehind == got.tcnt <= since /\ got.lo <= 0 /\ got.hi <= 0

LatchInv ==
  /\ pc \in {"clearHi", "zeroTcnt"} /\ ~raced => lo = 0
  /\ pc = "zeroTcnt" /\ ~raced => hi = 0
  /\ pc = "start" => since = LatchTicks
  /\ pc \in {"idle", "micros", "data"} /\ ~raced /\ since < LatchTicks => TimerBehind
  /\ pc = "micros" /\ ~raced /\ since < LatchTicks => LoadedBehind

(***************************************************************************)
(* The stores of reset_timer(). So few ticks pass between them that the    *)
(* interrupt hits at most one of the two gaps, once.                       *)
(***************************************************************************)

ResetInv ==
  /\ tov => tcnt = 0
  /\ pc \in {"clearHi", "zeroTcnt"} =>
       IF raced
       THEN /\ lo = 1
            /\ ~tov
            /\ tcnt <= slack + (IF pc = "clearHi" THEN 0 ELSE MaxSlack)
       ELSE lo = 0
  /\ pc = "zeroTcnt" => hi = 0

-----------------------------------------------------------------------------
\* Below the top, a tick adds one and raises no flag; the flag means 0.
LEMMA TickCounts ==
  ASSUME TypeOK, Tick
  PROVE  /\ tcnt + 1 < TOP => tcnt' = tcnt + 1 /\ ~tov'
         /\ tov' => tcnt' = 0
<1>1. tcnt' = (tcnt + 1) % TOP /\ (tov' => tcnt' = 0) /\ (tcnt' # 0 => ~tov')
  BY Zenon DEF Tick
<1>2. tcnt \in Nat /\ TOP \in Nat \ {0}
  BY Constants, SMT DEF TypeOK
<1>3. tcnt + 1 < TOP => tcnt' = tcnt + 1
  <2>1. tcnt + 1 \in Nat
    BY <1>2, SMT
  <2>2. tcnt + 1 < TOP => (tcnt + 1) % TOP = tcnt + 1
    BY <1>2, <2>1, ModBelow, Zenon
  <2> QED
    BY <1>1, <2>2, Zenon
<1>4. tcnt' = tcnt + 1 => tcnt' # 0
  BY <1>2, SMT
<1> QED
  BY <1>1, <1>3, <1>4, Zenon

\* A poll that lets the data start has seen the latch time on the timer, so
\* it has elapsed: the heart of the argument.
LEMMA PollHonest ==
  ASSUME TypeOK, LatchInv, Poll, pc' = "data", ~raced
  PROVE  since = LatchTicks
<1>1. pc = "micros" /\ Loaded /\ canShow
  BY SMT DEF Poll, Step
<1>2. SUFFICES ASSUME since < LatchTicks
               PROVE  FALSE
  BY Constants, SMT DEF TypeOK
<1>3. LoadedBehind
  BY <1>1, <1>2, Zenon DEF LatchInv
<1>4. got.tcnt \in Nat /\ got.lo = 0 /\ got.hi = 0 /\ got.tcnt <= since
  BY <1>1, <1>3, Constants, SMT DEF TypeOK, LoadedBehind, Loaded, Unread
<1>5. micros = got.tcnt \div TPM
  BY <1>4, Constants, SMT DEF micros
<1>6. got.tcnt < LatchMicros * TPM /\ TPM \in Nat \ {0} /\ LatchMicros \in Nat
  BY <1>2, <1>4, TimerAssumption, SMT DEF LatchTicks, TypeOK
<1>7. got.tcnt \div TPM \in 0 .. LatchMicros - 1
  BY <1>4, <1>6, DivBelow
<1> QED
  BY <1>1, <1>5, <1>6, <1>7, SMT DEF canShow

\* LatchInv is inductive, given the types.
LEMMA LatchInductive == TypeOK /\ LatchInv /\ [Next]_vars => LatchInv'
<1> SUFFICES ASSUME TypeOK, LatchInv, [Next]_vars
             PROVE  LatchInv'
  OBVIOUS
<1> USE Constants DEF TypeOK, LatchInv, TimerBehind, LoadedBehind, Places, timer, Unread
<1>1. CASE Tick
  <2>1. /\ pc' = pc /\ lo' = lo /\ hi' = hi /\ got' = got /\ raced' = raced /\ ~tov
        /\ pc # "start"
        /\ since' = IF since < LatchTicks THEN since + 1 ELSE since
    BY <1>1, Zenon DEF Tick
  <2>2. tcnt + 1 < TOP => tcnt' = tcnt + 1 /\ ~tov'
    BY <1>1, TickCounts
  <2>3. since' < LatchTicks => since < LatchTicks /\ since' = since + 1
    BY <2>1, SMT
  <2>4. pc \in {"idle", "micros", "data"} /\ ~raced /\ since' < LatchTicks
           => lo = 0 /\ hi = 0 /\ ~tov' /\ tcnt' <= since'
    BY <2>2, <2>3, SMT
  <2>5. pc = "micros" /\ ~raced /\ since' < LatchTicks
           => got.tcnt <= since' /\ got.lo <= 0 /\ got.hi <= 0
    BY <2>3, SMT
  <2> QED
    BY <2>1, <2>4, <2>5, Zenon
<1>2. CASE TIMER1_OVF_vect
  <2>1. /\ pc' = pc /\ got' = got /\ since' = since /\ tov
        /\ raced' = (raced \/ pc \in {"clearHi", "zeroTcnt"})
    BY <1>2, Zenon DEF TIMER1_OVF_vect
  <2>2. ~raced' => ~raced /\ pc \notin {"clearHi", "zeroTcnt"}
    BY <2>1, Zenon
  <2> QED
    BY <2>1, <2>2, Zenon
<1>3. CASE begin
  BY <1>3, SMT DEF begin, Step
<1>4. CASE CallShow
  BY <1>4, SMT DEF CallShow, Step, Nothing
<1>5. CASE LoadTcnt
  BY <1>5, SMT DEF LoadTcnt, Step
<1>6. CASE LoadLo
  BY <1>6, SMT DEF LoadLo, Step
<1>7. CASE LoadHi
  BY <1>7, SMT DEF LoadHi, Step
<1>8. CASE Poll
  BY <1>8, SMT DEF Poll, Step, Nothing
<1>9. CASE EndData
  BY <1>9, SMT DEF EndData, Step
<1>10. CASE ClearLo
  BY <1>10, SMT DEF ClearLo, Step
<1>11. CASE ClearHi
  BY <1>11, SMT DEF ClearHi, Step
<1>12. CASE ZeroTcnt
  BY <1>12, SMT DEF ZeroTcnt, Step
<1>13. CASE UNCHANGED vars
  BY <1>13, SMT DEF vars
<1> QED
  BY <1>1, <1>2, <1>3, <1>4, <1>5, <1>6, <1>7, <1>8, <1>9, <1>10, <1>11, <1>12, <1>13
  DEF Next, show, reset_timer

\* The latch time is kept after every reset_timer() that the interrupt has
\* not hit half way, although it may split the loads of every poll.
THEOREM LatchKept == Spec => LatchHeldUnlessRaced
<1>1. Init => LatchInv
  BY SMT DEF Init, LatchInv
<1>2. TypeOK /\ LatchInv /\ [Next]_vars => LatchInv'
  BY LatchInductive
<1>3. TypeOK /\ LatchInv /\ [Next]_vars => [raced \/ LatchHeldStep]_vars
  BY PollHonest, Zenon DEF LatchHeldStep
<1> QED
  BY <1>1, <1>2, <1>3, TypeCorrect, PTL DEF Spec, LatchHeldUnlessRaced

-----------------------------------------------------------------------------
\* ResetInv is inductive, given the types.
LEMMA ResetInductive == TypeOK /\ ResetInv /\ [Next]_vars => ResetInv'
<1> SUFFICES ASSUME TypeOK, ResetInv, [Next]_vars
             PROVE  ResetInv'
  OBVIOUS
<1> USE Constants DEF TypeOK, ResetInv, Places, timer
<1>1. CASE Tick
  <2>1. /\ pc' = pc /\ lo' = lo /\ hi' = hi /\ raced' = raced /\ ~tov
        /\ pc \in {"idle", "data"} \/ slack < MaxSlack
        /\ slack' = IF pc \in {"idle", "data"} THEN 0 ELSE slack + 1
    BY <1>1, Zenon DEF Tick
  <2>2. (tcnt + 1 < TOP => tcnt' = tcnt + 1 /\ ~tov') /\ (tov' => tcnt' = 0)
    BY <1>1, TickCounts
  <2>3. pc \in {"clearHi", "zeroTcnt"} /\ raced =>
          /\ ~tov'
          /\ tcnt' <= slack' + (IF pc = "clearHi" THEN 0 ELSE MaxSlack)
    BY <2>1, <2>2, SMT
  <2> QED
    BY <2>1, <2>2, <2>3, Zenon
<1>2. CASE TIMER1_OVF_vect
  <2>1. /\ pc' = pc /\ tcnt' = tcnt /\ slack' = slack /\ tov /\ ~tov'
        /\ lo' = (lo + 1) % BYTE
        /\ hi' = IF lo' = 0 THEN (hi + 1) % BYTE ELSE hi
        /\ raced' = (raced \/ pc \in {"clearHi", "zeroTcnt"})
    BY <1>2, Zenon DEF TIMER1_OVF_vect
  <2>2. CASE pc \in {"clearHi", "zeroTcnt"}
    <3>1. tcnt = 0 /\ lo = 0 /\ raced'
      BY <2>1, <2>2, Zenon
    <3>2. 1 % BYTE = 1
      <4>1. 1 \in Nat /\ BYTE \in Nat \ {0} /\ 1 < BYTE
        BY SMT
      <4> QED
        BY <4>1, ModBelow, Zenon
    <3>3. lo' = 1 /\ hi' = hi
      <4>1. lo + 1 = 1
        BY <3>1, SMT
      <4>2. lo' = 1
        BY <2>1, <3>2, <4>1, Zenon
      <4> QED
        BY <2>1, <4>2, SMT
    <3>4. tcnt' <= slack' + (IF pc' = "clearHi" THEN 0 ELSE MaxSlack)
      BY <2>1, <3>1, SMT
    <3> QED
      BY <2>1, <3>1, <3>3, <3>4, Zenon
  <2> QED
    BY <2>1, <2>2, Zenon
<1>3. CASE begin
  BY <1>3, SMT DEF begin, Step
<1>4. CASE CallShow
  BY <1>4, SMT DEF CallShow, Step
<1>5. CASE LoadTcnt
  BY <1>5, SMT DEF LoadTcnt, Step
<1>6. CASE LoadLo
  BY <1>6, SMT DEF LoadLo, Step
<1>7. CASE LoadHi
  BY <1>7, SMT DEF LoadHi, Step
<1>8. CASE Poll
  BY <1>8, SMT DEF Poll, Step
<1>9. CASE EndData
  BY <1>9, SMT DEF EndData, Step
<1>10. CASE ClearLo
  BY <1>10, SMT DEF ClearLo, Step
<1>11. CASE ClearHi
  BY <1>11, SMT DEF ClearHi, Step
<1>12. CASE ZeroTcnt
  BY <1>12, SMT DEF ZeroTcnt, Step
<1>13. CASE UNCHANGED vars
  BY <1>13, SMT DEF vars
<1> QED
  BY <1>1, <1>2, <1>3, <1>4, <1>5, <1>6, <1>7, <1>8, <1>9, <1>10, <1>11, <1>12, <1>13
  DEF Next, show, reset_timer

\* reset_timer() leaves a count of at most one overflow, and of none unless
\* the interrupt hit it half way: no carry reaches the high byte.
THEOREM ResetLeavesLittle == Spec => ResetLeavesAtMostOne
<1>1. Init => ResetInv
  BY SMT DEF Init, ResetInv
<1>2. TypeOK /\ ResetInv /\ [Next]_vars => ResetInv'
  BY ResetInductive
<1>3. TypeOK /\ ResetInv => [ZeroTcnt => hi = 0 /\ lo <= 1 /\ (lo = 1 => raced)]_vars
  BY SMT DEF ZeroTcnt, Step, ResetInv, TypeOK
<1> QED
  BY <1>1, <1>2, <1>3, TypeCorrect, PTL DEF Spec, ResetLeavesAtMostOne
-----------------------------------------------------------------------------
(***************************************************************************)
(* The length of the hold-off. From the load of a value below the latch    *)
(* time to the end of the poll only a few accesses pass, and the timer is  *)
(* no further on than they take; if it overflows meanwhile, it is less.    *)
(***************************************************************************)

\* The loads of the overflow count that a call of micros() has made.
Reads == (IF got.lo = Unread THEN 0 ELSE 1) + (IF got.hi = Unread THEN 0 ELSE 1)

HoldOffInv ==
  pc = "micros" /\ got.tcnt # Unread /\ got.tcnt < LatchTicks =>
    tcnt < LatchTicks + Reads * MaxSlack + slack

\* The numbers that a poll is about.
LEMMA PollFacts ==
  ASSUME TypeOK
  PROVE  /\ tcnt \in Nat /\ slack \in Nat /\ slack <= MaxSlack
         /\ MaxSlack \in Nat /\ LatchTicks \in Nat
         /\ got.tcnt \in {Unread} \cup Nat
         /\ Reads \in 0 .. 2
BY Constants, SMT DEF TypeOK, Unread, Reads

\* A poll fails only for a value that it has loaded below the latch time.
LEMMA PollFails ==
  ASSUME TypeOK, Poll, pc' # "data"
  PROVE  got.tcnt \in Nat /\ got.tcnt < LatchTicks
<1>1. ~canShow /\ Loaded
  BY Zenon DEF Poll, Step
<1>2. /\ got.tcnt \in Nat /\ got.lo \in Nat /\ got.hi \in Nat
      /\ TOP \in Nat /\ BYTE \in Nat /\ TPM \in Nat \ {0} /\ LatchMicros \in Nat
  BY <1>1, Constants, TimerAssumption, SMT DEF TypeOK, Loaded, Unread
<1> DEFINE rest == (got.lo + got.hi * BYTE) * TOP
<1>3. rest \in Nat
  BY <1>2, SMT
<1>4. micros = (got.tcnt + rest) \div TPM
  BY DEF micros
<1> HIDE DEF rest
<1>5. (got.tcnt + rest) \div TPM < LatchMicros
  BY <1>1, <1>2, <1>3, <1>4, SMT DEF canShow
<1>6. got.tcnt + rest < LatchMicros * TPM
  BY <1>2, <1>3, <1>5, TimerAssumption, SMT
<1> QED
  BY <1>2, <1>3, <1>6, SMT DEF LatchTicks

\* HoldOffInv is inductive, given the types.
LEMMA HoldOffInductive == TypeOK /\ HoldOffInv /\ [Next]_vars => HoldOffInv'
<1> SUFFICES ASSUME TypeOK, HoldOffInv, [Next]_vars,
                    pc' = "micros", got'.tcnt # Unread, got'.tcnt < LatchTicks
             PROVE  tcnt' < LatchTicks + Reads' * MaxSlack + slack'
  BY Zenon DEF HoldOffInv
<1> USE PollFacts
<1>1. CASE Tick
  <2>1. pc = "micros" /\ got' = got /\ slack' = slack + 1 /\ tcnt' = (tcnt + 1) % TOP
    BY <1>1, SMT DEF Tick
  <2>2. tcnt' <= tcnt + 1
    BY <2>1, Constants, SMT
  <2>3. tcnt < LatchTicks + Reads * MaxSlack + slack /\ Reads' = Reads
    BY <2>1, Zenon DEF HoldOffInv, Reads
  <2>4. tcnt' \in Nat /\ Reads * MaxSlack \in Nat
    BY <2>1, Constants, SMT
  <2> QED
    BY <2>1, <2>2, <2>3, <2>4, SMT
<1>2. CASE TIMER1_OVF_vect \/ UNCHANGED vars
  <2>1. pc = "micros" /\ got' = got /\ slack' = slack /\ tcnt' = tcnt
    BY <1>2, Zenon DEF TIMER1_OVF_vect, vars, timer
  <2> QED
    BY <2>1, Zenon DEF HoldOffInv, Reads
<1>3. CASE LoadTcnt
  <2>1. slack' = 0 /\ tcnt' = tcnt /\ got'.tcnt = tcnt
    BY <1>3, SMT DEF LoadTcnt, Step, timer, TypeOK
  <2>2. Reads' \in 0 .. 2
    BY <1>3, SMT DEF LoadTcnt, Reads, TypeOK
  <2>3. Reads' * MaxSlack \in Nat
    BY <2>2, SMT
  <2> QED
    BY <2>1, <2>3, SMT
<1>4. CASE LoadLo \/ LoadHi
  <2>1. pc = "micros" /\ slack' = 0 /\ tcnt' = tcnt
    BY <1>4, Zenon DEF LoadLo, LoadHi, Step, timer
  <2>2. got'.tcnt = got.tcnt /\ Reads' = Reads + 1
    BY <1>4, Constants, SMT DEF LoadLo, LoadHi, Reads, Unread, TypeOK
  <2>3. tcnt < LatchTicks + Reads * MaxSlack + slack
    BY <2>1, <2>2, Zenon DEF HoldOffInv
  <2>4. (Reads + 1) * MaxSlack = Reads * MaxSlack + MaxSlack /\ Reads * MaxSlack \in Nat
    BY SMT
  <2> QED
    BY <2>1, <2>2, <2>3, <2>4, SMT
<1>5. CASE CallShow \/ Poll
  <2>1. got' = Nothing
    BY <1>5, Zenon DEF CallShow, Poll
  <2> QED
    BY <2>1, SMT DEF Nothing
<1>6. CASE begin \/ EndData \/ reset_timer
  <2>1. pc' # "micros"
    BY <1>6, SMT DEF begin, EndData, reset_timer, ClearLo, ClearHi, ZeroTcnt, Step
  <2> QED
    BY <2>1
<1> QED
  BY <1>1, <1>2, <1>3, <1>4, <1>5, <1>6, Zenon DEF Next, show

\* A poll that fails finds the timer hardly past the latch time.
LEMMA PollFailsEarly ==
  ASSUME TypeOK, HoldOffInv, Poll, pc' = "micros"
  PROVE  tcnt < LatchTicks + 3 * MaxSlack
<1>1. pc = "micros" /\ pc' # "data"
  BY SMT DEF Poll, Step
<1>2. got.tcnt \in Nat /\ got.tcnt < LatchTicks
  BY <1>1, PollFails
<1>3. tcnt < LatchTicks + Reads * MaxSlack + slack
  BY <1>1, <1>2, SMT DEF HoldOffInv, Unread
<1>4. Reads * MaxSlack <= 2 * MaxSlack
  BY PollFacts, SMT
<1> QED
  BY <1>3, <1>4, PollFacts, SMT

\* A poll of show() fails only in the first ticks after a reset or an overflow
\* of the timer, for every count and every tearing of its loads.
THEOREM HoldOffIsShort == Spec => HoldOffShort
<1>1. Init => HoldOffInv
  BY SMT DEF Init, HoldOffInv
<1>2. TypeOK /\ HoldOffInv /\ [Next]_vars => HoldOffInv'
  BY HoldOffInductive
<1>3. TypeOK /\ HoldOffInv
        => [Poll /\ pc' = "micros" => tcnt < LatchTicks + 3 * MaxSlack]_vars
  BY PollFailsEarly, Zenon
<1> QED
  BY <1>1, <1>2, <1>3, TypeCorrect, PTL DEF Spec, HoldOffShort
=============================================================================
