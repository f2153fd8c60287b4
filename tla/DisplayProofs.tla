---------------------------- MODULE DisplayProofs ----------------------------
(***************************************************************************)
(* Proofs about module Display: the race in reset_timer() costs the        *)
(* running light no frame, and the main loop none that the strip lacks.    *)
(***************************************************************************)
EXTENDS Display, TimerProofs

\* What the assumption says of the constants, as plain arithmetic.
LEMMA DisplayConstants ==
  /\ TURNS \in Nat /\ MaxPackets \in Nat
  /\ LoopTicks \in Nat /\ DataTicks \in Nat /\ QuietTicks \in Nat
  /\ LatchTicks + LoopTicks + DataTicks + 10 * MaxSlack < TOP
  /\ LatchTicks <= QuietTicks
BY DisplayAssumption, SMT

-----------------------------------------------------------------------------
(***************************************************************************)
(* Display is Timer with its environment: each step is one of Timer, or    *)
(* leaves it alone, so that what is proved of Timer holds.                 *)
(***************************************************************************)
LEMMA StepsAsTimer == [DisplayNext]_displayVars => [Next]_vars
<1> SUFFICES ASSUME [DisplayNext]_displayVars
             PROVE  Next \/ UNCHANGED vars
  BY Zenon
<1>1. CASE Time \/ Overflow \/ Begin
  BY <1>1, Zenon DEF Time, Overflow, Begin, Next
<1>2. CASE LightTurn \/ Refresh
  BY <1>2, Zenon DEF LightTurn, Refresh, Next
<1>3. CASE Polls \/ Access
  BY <1>3, Zenon DEF Polls, Access, Next, show
<1>4. CASE LightEnds \/ Packet
  BY <1>4, Zenon DEF LightEnds, Packet
<1>5. CASE UNCHANGED displayVars
  BY <1>5, Zenon DEF displayVars
<1> QED
  BY <1>1, <1>2, <1>3, <1>4, <1>5, Zenon DEF DisplayNext, Display

\* Display implements Timer.
THEOREM DisplayIsTimer == DisplaySpec => Spec
<1>1. DisplayInit => Init
  BY Zenon DEF DisplayInit
<1>2. [DisplayNext]_displayVars => [Next]_vars
  BY StepsAsTimer
<1> QED
  BY <1>1, <1>2, PTL DEF DisplaySpec, Spec

-----------------------------------------------------------------------------
\* Where main does not stand in a loop or in a frame, no ticks are counted.
LEMMA LimitIs ==
  /\ Limit \in Nat
  /\ pc = "data" => Limit = DataTicks
  /\ pc # "data" => Limit = LoopTicks
BY DisplayConstants, SMT DEF Limit

LEMMA LimitWillBe == Limit' \in Nat
BY DisplayConstants, SMT DEF Limit

\* Every variable keeps its type, those of Timer included.
THEOREM DisplayTypeCorrect == DisplaySpec => []DisplayTypeOK
<1>1. DisplayInit /\ TypeOK => DisplayTypeOK
  <2> SUFFICES ASSUME DisplayInit, TypeOK
               PROVE  DisplayTypeOK
    OBVIOUS
  <2>1. booting \in BOOLEAN /\ drawn \in Pictures /\ held \in Pictures /\ shown \in Pictures
    BY Zenon DEF DisplayInit
  <2>2. /\ turn \in 0 .. TURNS /\ spent \in 0 .. Limit /\ calm \in 0 .. QuietTicks
        /\ packets \in 0 .. MaxPackets
    BY LimitIs, DisplayConstants, SMT DEF DisplayInit
  <2> QED
    BY <2>1, <2>2, Zenon DEF DisplayTypeOK
<1>2. TypeOK' /\ DisplayTypeOK /\ [DisplayNext]_displayVars => DisplayTypeOK'
  <2> SUFFICES ASSUME TypeOK', DisplayTypeOK, [DisplayNext]_displayVars
               PROVE  DisplayTypeOK'
    OBVIOUS
  <2> USE DEF DisplayTypeOK, light, strip
  <2>1. CASE Time
    <3>1. /\ turn' = turn /\ booting' = booting /\ drawn' = drawn /\ held' = held
          /\ packets' = packets /\ shown' \in Pictures /\ pc' = pc
      BY <2>1, Zenon DEF Time, Tick
    <3>2. Limit' = Limit
      BY <3>1, SMT DEF Limit
    <3>3. spent' \in 0 .. Limit'
      BY <2>1, <3>2, LimitIs, SMT DEF Time
    <3>4. calm' \in 0 .. QuietTicks
      BY <2>1, DisplayConstants, SMT DEF Time
    <3> QED
      BY <3>1, <3>3, <3>4, Zenon
  <2>2. CASE Overflow
    <3>1. /\ turn' = turn /\ booting' = booting /\ drawn' = drawn /\ held' = held
          /\ packets' = packets /\ shown' = shown /\ spent' = spent /\ calm' = calm
          /\ pc' = pc
      BY <2>2, Zenon DEF Overflow, TIMER1_OVF_vect
    <3>2. Limit' = Limit
      BY <3>1, SMT DEF Limit
    <3> QED
      BY <3>1, <3>2, Zenon
  <2>3. ASSUME Begin \/ LightTurn \/ LightEnds \/ Refresh \/ Polls \/ Access
        PROVE  DisplayTypeOK'
    <3>1. spent' = 0 /\ packets' = packets
      BY <2>3, Zenon DEF Begin, LightTurn, LightEnds, Refresh, Polls, Access
    <3>2. spent' \in 0 .. Limit'
      BY <3>1, LimitWillBe, SMT
    <3>3. drawn' \in Pictures /\ held' \in Pictures /\ shown' \in Pictures
          /\ booting' \in BOOLEAN
      BY <2>3, Zenon DEF Begin, LightTurn, LightEnds, Refresh, Polls, Access
    <3>4. turn' \in 0 .. TURNS /\ calm' \in 0 .. QuietTicks
      BY <2>3, DisplayConstants, SMT
      DEF Begin, LightTurn, LightEnds, Refresh, Polls, Access
    <3> QED
      BY <3>1, <3>2, <3>3, <3>4, Zenon
  <2>4. CASE Packet
    <3>1. /\ turn' = turn /\ booting' = booting /\ drawn' \in Pictures /\ held' = held
          /\ shown' = shown /\ spent' = spent /\ calm' = 0 /\ pc' = pc
      BY <2>4, Zenon DEF Packet, vars
    <3>2. Limit' = Limit
      BY <3>1, SMT DEF Limit
    <3>3. calm' \in 0 .. QuietTicks /\ packets' \in 0 .. MaxPackets
      BY <2>4, <3>1, DisplayConstants, SMT DEF Packet
    <3> QED
      BY <3>1, <3>2, <3>3, Zenon
  <2>5. CASE UNCHANGED displayVars
    <3>1. /\ turn' = turn /\ booting' = booting /\ drawn' = drawn /\ held' = held
          /\ packets' = packets /\ shown' = shown /\ spent' = spent /\ calm' = calm
          /\ pc' = pc
      BY <2>5, Zenon DEF displayVars, vars
    <3>2. Limit' = Limit
      BY <3>1, SMT DEF Limit
    <3> QED
      BY <3>1, <3>2, Zenon
  <2> QED
    BY <2>1, <2>2, <2>3, <2>4, <2>5, Zenon DEF DisplayNext, Display
<1> QED
  BY <1>1, <1>2, DisplayIsTimer, TypeCorrect, PTL DEF DisplaySpec

-----------------------------------------------------------------------------
(***************************************************************************)
(* The running light. From one reset_timer() to the next, the timer counts *)
(* the rest of a turn, the wait for the latch time and a frame, which is   *)
(* less than one overflow. A poll fails only for a value below the latch   *)
(* time, and what passes after the load of that value is bounded too.      *)
(***************************************************************************)

\* The loads that a call of micros() has made.
Loads == Reads + (IF got.tcnt = Unread THEN 0 ELSE 1)

\* The timer when a call of micros() begins, at most.
Wait == LoopTicks + LatchTicks + 3 * MaxSlack

LightInv ==
  booting =>
    /\ ~tov
    /\ ~raced
    /\ pc = "start"    => tcnt = 0
    /\ pc = "idle"     => tcnt <= spent
    /\ pc = "micros"   => tcnt <= Wait + Loads * MaxSlack + slack
    /\ pc = "micros" /\ got.tcnt # Unread => tcnt <= got.tcnt + Reads * MaxSlack + slack
    /\ pc = "data"     => tcnt <= Wait + 4 * MaxSlack + spent
    /\ pc = "clearLo"  => tcnt <= Wait + 4 * MaxSlack + DataTicks + slack
    /\ pc = "clearHi"  => tcnt <= Wait + 5 * MaxSlack + DataTicks + slack
    /\ pc = "zeroTcnt" => tcnt <= Wait + 6 * MaxSlack + DataTicks + slack

\* The numbers the argument is about.
LEMMA Facts ==
  ASSUME DisplayTypeOK
  PROVE  /\ tcnt \in Nat /\ slack \in Nat /\ spent \in Nat /\ slack <= MaxSlack
         /\ got.tcnt \in {Unread} \cup Nat
         /\ Reads \in 0 .. 2 /\ Loads \in 0 .. 3 /\ Reads <= Loads
         /\ Wait \in Nat /\ MaxSlack \in Nat
         /\ pc = "data" => spent <= DataTicks
         /\ pc = "idle" => spent <= LoopTicks
BY Constants, DisplayConstants, LimitIs, SMT
DEF DisplayTypeOK, TypeOK, Unread, Reads, Loads, Wait

\* As long as LightInv holds, the timer is one tick at least below its top
\* whenever it may count.
LEMMA LightBelowTop ==
  ASSUME DisplayTypeOK, LightInv, booting, Time
  PROVE  tcnt + 1 < TOP
<1>1. /\ pc = "idle" => spent < LoopTicks
      /\ pc = "data" => spent < DataTicks
      /\ pc \notin {"idle", "data"} => slack < MaxSlack
      /\ pc # "start" /\ pc \in Places
  BY LimitIs, SMT DEF Time, Tick, Limited, DisplayTypeOK, TypeOK
<1>2. /\ tcnt \in Nat /\ slack \in Nat /\ spent \in Nat /\ Loads \in 0 .. 3 /\ MaxSlack \in Nat
      /\ LoopTicks \in Nat /\ LatchTicks \in Nat /\ DataTicks \in Nat /\ TOP \in Nat
      /\ LatchTicks + LoopTicks + DataTicks + 10 * MaxSlack < TOP
      /\ LatchTicks > 0
  BY Facts, Constants, DisplayConstants, SMT
<1>3. Loads * MaxSlack <= 3 * MaxSlack
  BY <1>2, SMT
<1> QED
  BY <1>1, <1>2, <1>3, SMT DEF LightInv, Wait, Places

\* LightInv is inductive, given the types.
LEMMA LightInductive ==
  DisplayTypeOK /\ DisplayTypeOK' /\ LightInv /\ [DisplayNext]_displayVars => LightInv'
<1> SUFFICES ASSUME DisplayTypeOK, DisplayTypeOK', LightInv, [DisplayNext]_displayVars, booting'
             PROVE  LightInv'
  BY Zenon DEF LightInv
<1>0. booting
  BY Zenon DEF DisplayNext, Display, Time, Overflow, Begin, LightTurn, LightEnds, Refresh,
    Polls, Access, Packet, light, displayVars
<1> USE <1>0
<1>1. CASE Time
  <2>1. tcnt' = tcnt + 1 /\ ~tov'
    BY <1>1, LightBelowTop, TickCounts, Zenon DEF Time, DisplayTypeOK
  <2>2. /\ pc' = pc /\ got' = got /\ raced' = raced
        /\ slack' = IF pc \in {"idle", "data"} THEN 0 ELSE slack + 1
        /\ pc \in {"idle", "data"} => spent' = spent + 1
        /\ pc # "start"
    BY <1>1, Zenon DEF Time, Tick, Limited
  <2>3. Reads' = Reads /\ Loads' = Loads
    BY <2>2, Zenon DEF Reads, Loads
  <2>4. /\ tcnt \in Nat /\ slack \in Nat /\ spent \in Nat /\ got.tcnt \in {Unread} \cup Nat
        /\ Wait \in Nat /\ Loads * MaxSlack \in Nat /\ Reads * MaxSlack \in Nat
        /\ DataTicks \in Nat /\ MaxSlack \in Nat
    BY Facts, DisplayConstants, SMT
  <2> QED
    BY <2>1, <2>2, <2>3, <2>4, SMT DEF LightInv, Wait
<1>2. CASE Overflow
  BY <1>2, Zenon DEF Overflow, TIMER1_OVF_vect, LightInv
<1>3. CASE Begin
  BY <1>3, SMT DEF Begin, begin, Step, LightInv, timer
<1>4. CASE LightTurn
  <2>1. /\ pc = "idle" /\ pc' = "micros" /\ slack' = 0 /\ got' = Nothing /\ raced' = raced
        /\ tcnt' = tcnt /\ tov' = tov
    BY <1>4, Zenon DEF LightTurn, CallShow, Step, timer
  <2>2. got'.tcnt = Unread /\ Loads' = 0
    BY <2>1, SMT DEF Loads, Reads, Nothing
  <2>3. tcnt <= LoopTicks
    BY <2>1, Facts, DisplayConstants, SMT DEF LightInv
  <2>4. tcnt' <= Wait' + Loads' * MaxSlack + slack'
    BY <2>1, <2>2, <2>3, Facts, Constants, DisplayConstants, SMT DEF Wait
  <2> QED
    BY <2>1, <2>2, <2>4, SMT DEF LightInv
<1>5. CASE LoadTcnt
  <2>1. /\ pc = "micros" /\ pc' = "micros" /\ slack' = 0 /\ got.tcnt = Unread
        /\ got' = [got EXCEPT !.tcnt = tcnt] /\ tcnt' = tcnt /\ tov' = tov /\ raced' = raced
    BY <1>5, Zenon DEF LoadTcnt, Step, timer
  <2>2. got'.tcnt = tcnt /\ Loads' = Loads + 1 /\ Reads' = Reads /\ tcnt # Unread
    BY <2>1, Facts, SMT DEF Loads, Reads, Unread, DisplayTypeOK, TypeOK
  <2>3. (Loads + 1) * MaxSlack = Loads * MaxSlack + MaxSlack /\ Reads * MaxSlack >= 0
    BY Facts, SMT
  <2>4. tcnt' <= Wait + Loads' * MaxSlack + slack'
    BY <2>1, <2>2, <2>3, Facts, SMT DEF LightInv
  <2>5. tcnt' <= got'.tcnt + Reads' * MaxSlack + slack'
    BY <2>1, <2>2, <2>3, Facts, SMT
  <2> QED
    BY <2>1, <2>4, <2>5, SMT DEF LightInv, Wait
<1>6. CASE LoadLo \/ LoadHi
  <2>1. /\ pc = "micros" /\ pc' = "micros" /\ slack' = 0
        /\ tcnt' = tcnt /\ tov' = tov /\ raced' = raced
    BY <1>6, Zenon DEF LoadLo, LoadHi, Step, timer
  <2>2. got'.tcnt = got.tcnt /\ Loads' = Loads + 1 /\ Reads' = Reads + 1
    BY <1>6, Constants, SMT DEF LoadLo, LoadHi, Loads, Reads, Unread, DisplayTypeOK, TypeOK
  <2>3. /\ (Loads + 1) * MaxSlack = Loads * MaxSlack + MaxSlack
        /\ (Reads + 1) * MaxSlack = Reads * MaxSlack + MaxSlack
    BY Facts, SMT
  <2>4. tcnt' <= Wait + Loads' * MaxSlack + slack'
    BY <2>1, <2>2, <2>3, Facts, SMT DEF LightInv
  <2>5. got'.tcnt # Unread => tcnt' <= got'.tcnt + Reads' * MaxSlack + slack'
    BY <2>1, <2>2, <2>3, Facts, SMT DEF LightInv
  <2> QED
    BY <2>1, <2>4, <2>5, SMT DEF LightInv, Wait
<1>7. CASE Polls
  <2>1. /\ pc = "micros" /\ pc' \in {"micros", "data"} /\ slack' = 0 /\ spent' = 0
        /\ got' = Nothing /\ tcnt' = tcnt /\ tov' = tov /\ raced' = raced
    BY <1>7, Zenon DEF Polls, Poll, Step, timer
  <2>2. got'.tcnt = Unread /\ Loads' = 0
    BY <2>1, SMT DEF Loads, Reads, Nothing
  <2>3. Loads * MaxSlack <= 3 * MaxSlack /\ Reads * MaxSlack <= 2 * MaxSlack
    BY Facts, SMT
  <2>4. CASE pc' = "data"
    <3>1. tcnt' <= Wait + 4 * MaxSlack + spent'
      BY <2>1, <2>3, Facts, SMT DEF LightInv
    <3> QED
      BY <2>1, <2>4, <3>1, SMT DEF LightInv, Wait
  <2>5. CASE pc' = "micros"
    <3>1. got.tcnt \in Nat /\ got.tcnt < LatchTicks
      BY <1>7, <2>5, PollFails DEF Polls, DisplayTypeOK
    <3>2. got.tcnt # Unread
      BY <3>1, SMT DEF Unread
    <3>3. tcnt <= got.tcnt + Reads * MaxSlack + slack
      BY <2>1, <3>2, Zenon DEF LightInv
    <3>4. tcnt' <= Wait + Loads' * MaxSlack + slack'
      BY <2>1, <2>2, <2>3, <3>1, <3>3, Facts, Constants, DisplayConstants, SMT DEF Wait
    <3> QED
      BY <2>1, <2>2, <2>5, <3>4, SMT DEF LightInv, Wait
  <2> QED
    BY <2>1, <2>4, <2>5, Zenon
<1>8. CASE EndData
  <2>1. /\ pc = "data" /\ pc' = "clearLo" /\ slack' = 0
        /\ tcnt' = tcnt /\ tov' = tov /\ raced' = raced
    BY <1>8, Zenon DEF EndData, Step, timer
  <2>2. tcnt' <= Wait + 4 * MaxSlack + DataTicks + slack'
    BY <2>1, Facts, DisplayConstants, SMT DEF LightInv
  <2> QED
    BY <2>1, <2>2, SMT DEF LightInv, Wait
<1>9. CASE ClearLo \/ ClearHi
  <2>1. /\ \/ pc = "clearLo" /\ pc' = "clearHi"
           \/ pc = "clearHi" /\ pc' = "zeroTcnt"
        /\ slack' = 0 /\ tcnt' = tcnt /\ tov' = tov
    BY <1>9, SMT DEF ClearLo, ClearHi, Step
  <2>2. /\ pc' = "clearHi" => tcnt' <= Wait + 5 * MaxSlack + DataTicks + slack'
        /\ pc' = "zeroTcnt" => tcnt' <= Wait + 6 * MaxSlack + DataTicks + slack'
    BY <2>1, Facts, DisplayConstants, SMT DEF LightInv
  <2>3. ~tov /\ ~raced
    BY Zenon DEF LightInv
  <2>4. ~tov' /\ ~raced'
    <3>1. tov' = tov /\ (raced' = FALSE \/ raced' = raced)
      BY <1>9, Zenon DEF ClearLo, ClearHi
    <3> QED
      BY <2>3, <3>1
  <2> QED
    BY <2>1, <2>2, <2>4, SMT DEF LightInv, Wait
<1>10. CASE ZeroTcnt
  <2>1. pc' = "idle" /\ tcnt' = 0 /\ tov' = tov /\ raced' = raced
    BY <1>10, Zenon DEF ZeroTcnt, Step
  <2> QED
    BY <2>1, SMT DEF LightInv, DisplayTypeOK
<1>11. CASE LightEnds \/ Refresh \/ Packet
  BY <1>11, Zenon DEF LightEnds, Refresh, Packet
<1>12. CASE UNCHANGED displayVars
  BY <1>12, SMT DEF displayVars, vars, timer, LightInv, Reads, Loads, Wait
<1> QED
  BY <1>1, <1>2, <1>3, <1>4, <1>5, <1>6, <1>7, <1>8, <1>9, <1>10, <1>11, <1>12, Zenon
  DEF DisplayNext, Display, Access, reset_timer

\* A frame of the running light starts after its latch time, and the timer
\* does not overflow.
LEMMA LightSafe ==
  ASSUME DisplayTypeOK, LatchInv, LightInv, booting
  PROVE  LatchHeldStep /\ ~TIMER1_OVF_vect
<1>1. ~raced /\ ~tov
  BY Zenon DEF LightInv
<1>2. LatchHeldStep
  BY <1>1, PollHonest, Zenon DEF LatchHeldStep, DisplayTypeOK
<1> QED
  BY <1>1, <1>2, Zenon DEF TIMER1_OVF_vect

\* The invariants hold of Display.
LEMMA LightInvariant == DisplaySpec => [](DisplayTypeOK /\ LatchInv /\ LightInv)
<1>1. DisplayInit => LatchInv /\ LightInv
  <2> SUFFICES ASSUME DisplayInit
               PROVE  LatchInv /\ LightInv
    OBVIOUS
  <2>1. Init
    BY Zenon DEF DisplayInit
  <2> QED
    BY <2>1, SMT DEF Init, LatchInv, LightInv
<1>2. TypeOK /\ LatchInv /\ [DisplayNext]_displayVars => LatchInv'
  BY StepsAsTimer, LatchInductive
<1>3. DisplayTypeOK /\ DisplayTypeOK' /\ LightInv /\ [DisplayNext]_displayVars => LightInv'
  BY LightInductive
<1>4. DisplayTypeOK => TypeOK
  BY Zenon DEF DisplayTypeOK
<1> QED
  BY <1>1, <1>2, <1>3, <1>4, DisplayTypeCorrect, PTL DEF DisplaySpec

\* No frame of the running light comes too early for the strip, for every
\* timer that does not overflow in one turn of it.
THEOREM LightIsSafe == DisplaySpec => LightNeverRaced
<1>1. DisplayTypeOK /\ LatchInv /\ LightInv
        => [booting => LatchHeldStep /\ ~TIMER1_OVF_vect]_displayVars
  BY LightSafe, Zenon
<1> QED
  BY <1>1, LightInvariant, PTL DEF LightNeverRaced

-----------------------------------------------------------------------------
(***************************************************************************)
(* The main loop. What the strip holds is what is drawn, unless a packet   *)
(* has come since; and the quiet time after a packet is longer than the    *)
(* latch time, so that the next frame is taken whatever the timer shows.   *)
(***************************************************************************)
HeldInv ==
  /\ pc \in {"data", "clearLo", "clearHi", "zeroTcnt"} => held = drawn
  /\ ~booting /\ pc = "idle" /\ since < LatchTicks => held = drawn \/ calm <= since
  /\ ~booting /\ pc = "micros" /\ since < LatchTicks => held = drawn
  /\ ~booting => pc # "start"

\* HeldInv is inductive, given the invariants of the running light.
LEMMA HeldInductive ==
  DisplayTypeOK /\ LatchInv /\ LightInv /\ HeldInv /\ [DisplayNext]_displayVars => HeldInv'
<1> SUFFICES ASSUME DisplayTypeOK, LatchInv, LightInv, HeldInv, [DisplayNext]_displayVars
             PROVE  HeldInv'
  OBVIOUS
<1>0. /\ since \in Nat /\ calm \in Nat /\ QuietTicks \in Nat /\ LatchTicks \in Nat
      /\ LatchTicks <= QuietTicks
  BY Constants, DisplayConstants, SMT DEF DisplayTypeOK, TypeOK
<1> USE <1>0 DEF HeldInv, light, strip
<1>1. CASE Time
  <2>1. /\ pc' = pc /\ booting' = booting /\ held' = held /\ drawn' = drawn
        /\ since' = (IF since < LatchTicks THEN since + 1 ELSE since)
        /\ calm' = (IF booting \/ calm = QuietTicks THEN calm ELSE calm + 1)
    BY <1>1, Zenon DEF Time, Tick
  <2>2. since' < LatchTicks => since < LatchTicks /\ since' = since + 1
    BY <2>1, SMT
  <2>3. calm <= since /\ since' < LatchTicks => calm' <= since'
    BY <2>1, <2>2, SMT
  <2> QED
    BY <2>1, <2>2, <2>3, Zenon
<1>2. CASE Overflow
  BY <1>2, Zenon DEF Overflow, TIMER1_OVF_vect
<1>3. CASE Begin
  <2>1. pc = "start" /\ pc' = "idle" /\ booting' = booting
    BY <1>3, Zenon DEF Begin, begin, Step
  <2> QED
    BY <2>1, SMT
<1>4. CASE LightTurn
  <2>1. pc' = "micros" /\ booting'
    BY <1>4, Zenon DEF LightTurn, CallShow, Step
  <2> QED
    BY <2>1, SMT
<1>5. CASE LightEnds
  <2>1. pc = "idle" /\ pc' = "idle" /\ calm' = 0 /\ since' = since
    BY <1>5, Zenon DEF LightEnds, vars
  <2> QED
    BY <2>1, SMT
<1>6. CASE Packet
  <2>1. pc = "idle" /\ pc' = "idle" /\ calm' = 0 /\ since' = since
    BY <1>6, Zenon DEF Packet, vars
  <2> QED
    BY <2>1, SMT
<1>7. CASE Refresh
  <2>1. /\ pc = "idle" /\ pc' = "micros" /\ ~booting /\ calm = QuietTicks
        /\ since' = since /\ held' = held /\ drawn' = drawn
    BY <1>7, Zenon DEF Refresh, CallShow, Step
  <2>2. since < LatchTicks => held = drawn
    BY <2>1, SMT
  <2> QED
    BY <2>1, <2>2, SMT
<1>8. CASE Polls
  <2>1. /\ pc = "micros" /\ pc' \in {"micros", "data"} /\ since' = since
        /\ booting' = booting /\ drawn' = drawn
        /\ held' = IF pc' = "data" /\ since = LatchTicks THEN drawn ELSE held
    BY <1>8, Zenon DEF Polls, Poll, Step
  <2>2. since <= LatchTicks
    BY SMT DEF DisplayTypeOK, TypeOK
  <2>3. pc' = "data" /\ booting => since = LatchTicks
    BY <1>8, LightSafe, Zenon DEF Polls, LatchHeldStep
  <2>4. pc' = "data" => held' = drawn'
    BY <2>1, <2>2, <2>3, SMT
  <2> QED
    BY <2>1, <2>4, SMT
<1>9. CASE Access
  <2>1. /\ booting' = booting /\ held' = held /\ drawn' = drawn /\ calm' = calm
    BY <1>9, Zenon DEF Access
  <2>2. CASE LoadTcnt \/ LoadLo \/ LoadHi
    <3>1. pc = "micros" /\ pc' = "micros" /\ since' = since
      BY <2>2, Zenon DEF LoadTcnt, LoadLo, LoadHi, Step
    <3> QED
      BY <2>1, <3>1, SMT
  <2>3. CASE EndData \/ ClearLo \/ ClearHi
    <3>1. /\ pc \in {"data", "clearLo", "clearHi"}
          /\ pc' \in {"clearLo", "clearHi", "zeroTcnt"}
      BY <2>3, SMT DEF EndData, ClearLo, ClearHi, Step
    <3> QED
      BY <2>1, <3>1, SMT
  <2>4. CASE ZeroTcnt
    <3>1. pc = "zeroTcnt" /\ pc' = "idle" /\ since' = since
      BY <2>4, Zenon DEF ZeroTcnt, Step
    <3> QED
      BY <2>1, <3>1, SMT
  <2> QED
    BY <1>9, <2>2, <2>3, <2>4, Zenon DEF Access, reset_timer
<1>10. CASE UNCHANGED displayVars
  BY <1>10, Zenon DEF displayVars, vars
<1> QED
  BY <1>1, <1>2, <1>3, <1>4, <1>5, <1>6, <1>7, <1>8, <1>9, <1>10, Zenon
  DEF DisplayNext, Display

\* A frame that the strip ignores is the one it holds: the race costs nothing
\* that can be seen, for every quiet time that is longer than the latch time.
THEOREM NothingLost == DisplaySpec => LostFrameIsHeld
<1>1. DisplayInit => HeldInv
  BY SMT DEF DisplayInit, Init, HeldInv
<1>2. DisplayTypeOK /\ LatchInv /\ LightInv /\ HeldInv /\ [DisplayNext]_displayVars => HeldInv'
  BY HeldInductive
<1>3. DisplayTypeOK /\ LatchInv /\ LightInv /\ HeldInv
        => [Polls /\ pc' = "data" /\ since < LatchTicks => drawn = held]_displayVars
  <2> SUFFICES ASSUME DisplayTypeOK, LatchInv, LightInv, HeldInv,
                      Polls, pc' = "data", since < LatchTicks
               PROVE  drawn = held
    BY Zenon
  <2>1. pc = "micros"
    BY Zenon DEF Polls, Poll, Step
  <2>2. since # LatchTicks
    BY Constants, SMT DEF DisplayTypeOK, TypeOK
  <2>3. ~booting
    BY <2>2, LightSafe, Zenon DEF Polls, LatchHeldStep
  <2> QED
    BY <2>1, <2>3, Zenon DEF HeldInv
<1> QED
  BY <1>1, <1>2, <1>3, LightInvariant, PTL DEF DisplaySpec, LostFrameIsHeld

-----------------------------------------------------------------------------
(***************************************************************************)
(* Display implements Screen. A frame that comes in time is sent as it is  *)
(* drawn; one that comes too early is lost, but then HeldInv says that it  *)
(* was sent before; and the strip has shown what it held when a latch time *)
(* has passed, so that nothing is overtaken.                               *)
(***************************************************************************)
ShownInv == pc # "data" /\ since = LatchTicks => shown = held

\* ShownInv is inductive, given the types.
LEMMA ShownInductive ==
  DisplayTypeOK /\ ShownInv /\ [DisplayNext]_displayVars => ShownInv'
<1> SUFFICES ASSUME DisplayTypeOK, ShownInv, [DisplayNext]_displayVars
             PROVE  ShownInv'
  OBVIOUS
<1> USE DEF ShownInv, light, strip
<1>1. CASE Time
  <2>1. /\ pc' = pc /\ held' = held
        /\ shown' = IF pc # "data" /\ since' = LatchTicks THEN held ELSE shown
    BY <1>1, Zenon DEF Time, Tick
  <2> QED
    BY <2>1, Zenon
<1>2. CASE Overflow
  BY <1>2, Zenon DEF Overflow, TIMER1_OVF_vect
<1>3. CASE Begin
  BY <1>3, SMT DEF Begin, begin, Step
<1>4. CASE LightTurn \/ Refresh
  BY <1>4, SMT DEF LightTurn, Refresh, CallShow, Step
<1>5. CASE LightEnds \/ Packet
  BY <1>5, Zenon DEF LightEnds, Packet, vars
<1>6. CASE Polls
  BY <1>6, SMT DEF Polls, Poll, Step
<1>7. CASE Access
  <2>1. CASE EndData
    BY <2>1, Constants, SMT DEF EndData
  <2>2. CASE LoadTcnt \/ LoadLo \/ LoadHi \/ reset_timer
    <3>1. pc # "data" /\ since' = since
      BY <2>2, SMT DEF LoadTcnt, LoadLo, LoadHi, reset_timer, ClearLo, ClearHi, ZeroTcnt, Step
    <3> QED
      BY <1>7, <3>1, Zenon DEF Access
  <2> QED
    BY <1>7, <2>1, <2>2, Zenon DEF Access
<1>8. CASE UNCHANGED displayVars
  BY <1>8, Zenon DEF displayVars, vars
<1> QED
  BY <1>1, <1>2, <1>3, <1>4, <1>5, <1>6, <1>7, <1>8, Zenon DEF DisplayNext, Display

\* A poll that succeeds sends what is drawn, in time or not.
LEMMA PollIsSend ==
  ASSUME DisplayTypeOK, LatchInv, LightInv, HeldInv, ShownInv, Polls
  PROVE  Abstract!Send \/ UNCHANGED Abstract!vars
<1>1. /\ pc = "micros" /\ pc' \in {"micros", "data"} /\ drawn' = drawn /\ shown' = shown
      /\ held' = IF pc' = "data" /\ since = LatchTicks THEN drawn ELSE held
  BY Zenon DEF Polls, Poll, Step
<1>2. CASE pc' = "micros"
  BY <1>1, <1>2, SMT DEF Abstract!vars
<1>3. CASE pc' = "data" /\ since = LatchTicks
  <2>1. shown = held
    BY <1>1, <1>3, SMT DEF ShownInv
  <2> QED
    BY <1>1, <1>3, <2>1, SMT DEF Abstract!Send
<1>4. CASE pc' = "data" /\ since # LatchTicks
  <2>1. since < LatchTicks
    BY <1>4, Constants, SMT DEF DisplayTypeOK, TypeOK
  <2>2. ~booting
    BY <1>4, LightSafe, Zenon DEF Polls, LatchHeldStep
  <2>3. held = drawn
    BY <1>1, <2>1, <2>2, Zenon DEF HeldInv
  <2> QED
    BY <1>1, <1>4, <2>3, SMT DEF Abstract!Send
<1> QED
  BY <1>1, <1>2, <1>3, <1>4, Zenon

\* Each step of the display is one of the screen, or hidden from it.
LEMMA StepsAsScreen ==
  DisplayTypeOK /\ LatchInv /\ LightInv /\ HeldInv /\ ShownInv /\ [DisplayNext]_displayVars
    => [Abstract!Next]_(Abstract!vars)
<1> SUFFICES ASSUME DisplayTypeOK, LatchInv, LightInv, HeldInv, ShownInv,
                    [DisplayNext]_displayVars
             PROVE  Abstract!Next \/ UNCHANGED Abstract!vars
  BY Zenon
<1> USE DEF light, strip
<1>1. CASE Time
  <2>1. /\ pc' = pc /\ held' = held /\ drawn' = drawn
        /\ shown' = IF pc # "data" /\ since' = LatchTicks THEN held ELSE shown
    BY <1>1, Zenon DEF Time, Tick
  <2>2. CASE shown' = shown
    BY <2>1, <2>2, Zenon DEF Abstract!vars
  <2>3. CASE pc # "data" /\ shown' = held
    BY <2>1, <2>3, Zenon DEF Abstract!Next, Abstract!Appear
  <2> QED
    BY <2>1, <2>2, <2>3, Zenon
<1>2. CASE Overflow \/ UNCHANGED displayVars
  BY <1>2, Zenon DEF Overflow, TIMER1_OVF_vect, displayVars, vars, Abstract!vars
<1>3. CASE Begin \/ Refresh
  <2>1. pc # "data" /\ pc' # "data" /\ UNCHANGED <<drawn, held, shown>>
    BY <1>3, SMT DEF Begin, begin, Refresh, CallShow, Step
  <2> QED
    BY <2>1, Zenon DEF Abstract!vars
<1>4. CASE LightTurn \/ Packet
  <2>1. pc # "data" /\ pc' # "data" /\ drawn' \in Pictures /\ UNCHANGED <<held, shown>>
    BY <1>4, SMT DEF LightTurn, Packet, CallShow, Step, vars
  <2> QED
    BY <2>1, Zenon DEF Abstract!Next, Abstract!Draw
<1>5. CASE LightEnds
  BY <1>5, Zenon DEF LightEnds, vars, Abstract!vars
<1>6. CASE Polls
  BY <1>6, PollIsSend, Zenon DEF Abstract!Next
<1>7. CASE Access
  <2>1. UNCHANGED <<drawn, held, shown>>
    BY <1>7, Zenon DEF Access
  <2>2. CASE EndData
    <3>1. pc = "data" /\ pc' # "data"
      BY <2>2, SMT DEF EndData, Step
    <3> QED
      BY <2>1, <3>1, Zenon DEF Abstract!Next, Abstract!Sent
  <2>3. CASE LoadTcnt \/ LoadLo \/ LoadHi \/ reset_timer
    <3>1. pc # "data" /\ pc' # "data"
      BY <2>3, SMT DEF LoadTcnt, LoadLo, LoadHi, reset_timer, ClearLo, ClearHi, ZeroTcnt, Step
    <3> QED
      BY <2>1, <3>1, Zenon DEF Abstract!vars
  <2> QED
    BY <1>7, <2>2, <2>3, Zenon DEF Access
<1> QED
  BY <1>1, <1>2, <1>3, <1>4, <1>5, <1>6, <1>7, Zenon DEF DisplayNext, Display

\* The strip and show() are a screen without frames that go astray, whatever
\* the interrupt does to reset_timer() and micros(), for every timer, latch
\* time, number of turns and set of pictures.
THEOREM DisplayIsScreen == DisplaySpec => ImplementsScreen
<1>1. DisplayInit => HeldInv /\ ShownInv /\ Abstract!Init
  <2> SUFFICES ASSUME DisplayInit
               PROVE  HeldInv /\ ShownInv /\ Abstract!Init
    OBVIOUS
  <2>1. pc = "start" /\ drawn \in Pictures /\ held = drawn /\ shown = drawn /\ booting
    BY Zenon DEF DisplayInit, Init
  <2> QED
    BY <2>1, SMT DEF HeldInv, ShownInv, Abstract!Init
<1>2. DisplayTypeOK /\ LatchInv /\ LightInv /\ HeldInv /\ [DisplayNext]_displayVars => HeldInv'
  BY HeldInductive
<1>3. DisplayTypeOK /\ ShownInv /\ [DisplayNext]_displayVars => ShownInv'
  BY ShownInductive
<1>4. DisplayTypeOK /\ LatchInv /\ LightInv /\ HeldInv /\ ShownInv /\ [DisplayNext]_displayVars
        => [Abstract!Next]_(Abstract!vars)
  BY StepsAsScreen
<1> QED
  BY <1>1, <1>2, <1>3, <1>4, LightInvariant, PTL
  DEF DisplaySpec, ImplementsScreen, Abstract!Spec
=============================================================================
