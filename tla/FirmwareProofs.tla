---------------------------- MODULE FirmwareProofs ----------------------------
(***************************************************************************)
(* Proofs about module Firmware, for every strip, every set of messages,   *)
(* every duration and every number of frames.                              *)
(***************************************************************************)
EXTENDS Firmware, TLAPS

\* The remainder by b is below b, and is the number itself if that is.
LEMMA ModBelow ==
  ASSUME NEW a \in Nat, NEW b \in Nat \ {0}
  PROVE  a % b \in 0 .. b - 1 /\ (a < b => a % b = a)
BY SMT

\* The budget of every step is a number of ticks.
LEMMA BudgetIs ==
  ASSUME NEW place
  PROVE  /\ Budget(place) \in Nat
         /\ place \notin {"boot", "data", "fetch"} => Budget(place) = 1
         /\ place = "fetch" => Budget(place) = MaxFetch
BY FirmwareAssumption, SMT DEF Budget

\* One interrupt adds at most one to the counter, and one to its low byte at
\* most; the bytes stay bytes.
LEMMA Increment ==
  ASSUME NEW l \in 0 .. BYTE - 1, NEW h \in 0 .. BYTE - 1, NEW l1, NEW h1,
         l1 = (l + 1) % BYTE, h1 = IF l1 = 0 THEN (h + 1) % BYTE ELSE h
  PROVE  /\ l1 \in 0 .. BYTE - 1 /\ h1 \in 0 .. BYTE - 1
         /\ l1 <= l + 1
         /\ l1 + h1 * BYTE <= l + h * BYTE + 1
<1>1. BYTE \in Nat \ {0} /\ l + 1 \in Nat /\ h + 1 \in Nat
  BY FirmwareAssumption, SMT
<1>2. /\ (l + 1) % BYTE \in 0 .. BYTE - 1 /\ (l + 1 < BYTE => (l + 1) % BYTE = l + 1)
      /\ (h + 1) % BYTE \in 0 .. BYTE - 1 /\ (h + 1 < BYTE => (h + 1) % BYTE = h + 1)
  BY <1>1, ModBelow
<1>3. CASE l + 1 < BYTE
  BY <1>1, <1>2, <1>3, SMT
<1>4. CASE l + 1 = BYTE
  <2>1. BYTE % BYTE = 0
    BY <1>1, SMT
  <2>2. l1 = 0 /\ h1 = (h + 1) % BYTE
    BY <1>4, <2>1
  <2>3. h + 1 = BYTE => h1 = 0
    BY <2>1, <2>2
  <2>4. h + 1 < BYTE => h1 * BYTE = h * BYTE + BYTE
    BY <1>1, <1>2, <2>2, SMT
  <2> QED
    BY <1>1, <1>2, <1>4, <2>2, <2>3, <2>4, SMT
<1> QED
  BY <1>1, <1>3, <1>4, SMT

-----------------------------------------------------------------------------
\* A message leaves a colour on every pixel.
LEMMA MessageColours ==
  ASSUME pixels \in [Pixels -> Colours], frame \in Messages
  PROVE  [n \in Pixels |-> IF n \in DOMAIN frame THEN frame[n] ELSE pixels[n]]
            \in [Pixels -> Colours]
BY FirmwareAssumption, Zenon

\* So does a turn of the running light, and it leaves no pixel on but the
\* next one.
LEMMA LightColours ==
  ASSUME pixels \in [Pixels -> Colours], i \in Nat,
         \A n \in Pixels : pixels[n] # Black => n = i
  PROVE  LET new == Set(Set(pixels, i, Black), i + 1, Red)
         IN  /\ new \in [Pixels -> Colours]
             /\ \A n \in Pixels : new[n] # Black => n = i + 1
BY FirmwareAssumption, SMT DEF Set, Pixels

\* The steps of the main program: interrupts first, and a new budget.
MainStep == main \/ FetchHangs

LEMMA MainSteps ==
  ASSUME MainStep
  PROVE  ~ocf /\ wdt # 0 /\ slack' = 0 /\ pc' \in Places
<1>1. CASE Boot \/ newPacketAvailable \/ FetchHangs
  BY <1>1, SMT DEF Boot, RunningLight, init_millis, newPacketAvailable, FetchHangs, Step, Places
<1>2. CASE Packet
  BY <1>2, SMT DEF Packet, Arm, getReceivedPacketSize, fetchPacketBlocking, Parse, setMessageToLED, StartTimer,
    ClearLo, ClearHi, Step, Places
<1>3. CASE Refresh
  BY <1>3, SMT DEF Refresh, showPixels_ms, StopTimer, StartData, EndData, Step, Places
<1> QED
  BY <1>1, <1>2, <1>3 DEF MainStep, main

-----------------------------------------------------------------------------
\* Every variable has its type, at every moment of every boot.
THEOREM TypeCorrect == Spec => []TypeOK
<1>1. Init => TypeOK
  <2> SUFFICES ASSUME Init
               PROVE  TypeOK
    OBVIOUS
  <2>1. Dark \in [Pixels -> Colours] /\ NUMPIXELS \in Nat /\ MaxFrames \in Nat /\ QUIET \in Nat
    BY FirmwareAssumption, Zenon DEF Dark
  <2>2. /\ t3 \in BOOLEAN /\ ocf \in BOOLEAN /\ fresh \in BOOLEAN /\ wdrf \in BOOLEAN
        /\ pixels \in [Pixels -> Colours] /\ strip \in [Pixels -> Colours]
        /\ rx \in Messages /\ frame \in Messages
        /\ pc \in Places /\ wdt \in {Off} \cup Nat
    BY <2>1, Zenon DEF Init, Places
  <2>3. /\ i \in 0 .. NUMPIXELS /\ arrived \in 0 .. MaxFrames /\ quiet \in 0 .. QUIET + 1
        /\ lo \in 0 .. BYTE - 1 /\ hi \in 0 .. BYTE - 1 /\ slack \in 0 .. Budget(pc)
    BY <2>1, BudgetIs, FirmwareAssumption, SMT DEF Init
  <2>4. sized \in 0 .. MaxFrames
    BY <2>1, SMT DEF Init
  <2> QED
    BY <2>2, <2>3, <2>4, Zenon DEF TypeOK
<1>2. TypeOK /\ [Next]_vars => TypeOK'
  <2> SUFFICES ASSUME TypeOK, [Next]_vars
               PROVE  TypeOK'
    OBVIOUS
  <2> USE DEF TypeOK, lights, counter, radio, packet, dog
  <2>1. CASE Tick
    <3>1. /\ pc' = pc /\ i' = i /\ pixels' = pixels /\ strip' = strip
          /\ t3' = t3 /\ lo' = lo /\ hi' = hi /\ quiet' = quiet /\ wdrf' = wdrf
          /\ rx' = rx /\ frame' = frame /\ sized' = sized
          /\ fresh' = fresh /\ arrived' = arrived
          /\ ocf' \in BOOLEAN
      BY <2>1, Zenon DEF Tick
    <3>2. slack' \in 0 .. Budget(pc')
      BY <2>1, <3>1, BudgetIs, SMT DEF Tick
    <3>3. wdt' \in {Off} \cup Nat
      BY <2>1, SMT DEF Tick, Off
    <3> QED
      BY <3>1, <3>2, <3>3, Zenon
  <2>2. CASE TIMER3_COMPA_vect
    <3>1. /\ pc' = pc /\ i' = i /\ pixels' = pixels /\ strip' = strip
          /\ t3' = t3 /\ wdt' = wdt /\ wdrf' = wdrf /\ slack' = slack
          /\ rx' = rx /\ frame' = frame /\ sized' = sized
          /\ fresh' = fresh /\ arrived' = arrived
          /\ ocf' \in BOOLEAN
      BY <2>2, Zenon DEF TIMER3_COMPA_vect
    <3>2. lo' \in 0 .. BYTE - 1 /\ hi' \in 0 .. BYTE - 1
      BY <2>2, Increment, Zenon DEF TIMER3_COMPA_vect
    <3>3. quiet' \in 0 .. QUIET + 1
      BY <2>2, FirmwareAssumption, SMT DEF TIMER3_COMPA_vect
    <3> QED
      BY <3>1, <3>2, <3>3, Zenon
  <2>3. CASE \E m \in Messages : Receive(m)
    <3>1. PICK m \in Messages : Receive(m)
      BY <2>3
    <3>2. arrived' \in 0 .. MaxFrames
      BY <3>1, FirmwareAssumption, SMT DEF Receive
    <3> QED
      BY <3>1, <3>2, Zenon DEF Receive
  <2>4. CASE WatchdogReset
    <3>1. /\ pc' \in Places /\ strip' = strip /\ t3' \in BOOLEAN /\ ocf' \in BOOLEAN
          /\ wdrf' \in BOOLEAN /\ wdt' \in {Off} \cup Nat
          /\ rx' = rx /\ frame' = frame /\ sized' = sized
          /\ fresh' \in BOOLEAN /\ arrived' = arrived
      BY <2>4, FirmwareAssumption, Zenon DEF WatchdogReset, Places
    <3>2. pixels' \in [Pixels -> Colours]
      BY <2>4, FirmwareAssumption, Zenon DEF WatchdogReset, Dark
    <3>3. /\ i' \in 0 .. NUMPIXELS /\ quiet' \in 0 .. QUIET + 1
          /\ lo' \in 0 .. BYTE - 1 /\ hi' \in 0 .. BYTE - 1 /\ slack' \in 0 .. Budget(pc')
      BY <2>4, BudgetIs, FirmwareAssumption, SMT DEF WatchdogReset
    <3> QED
      BY <3>1, <3>2, <3>3, Zenon
  <2>5. CASE MainStep
    <3>1. slack' \in 0 .. Budget(pc') /\ pc' \in Places
      BY <2>5, MainSteps, BudgetIs, SMT
    <3>2. CASE RunningLight
      <4>1. i' \in 0 .. NUMPIXELS
        BY <3>2, FirmwareAssumption, SMT DEF RunningLight
      <4>2. pixels' \in [Pixels -> Colours] /\ strip' = pixels'
        BY <3>2, FirmwareAssumption, Zenon DEF RunningLight, Set
      <4> QED
        BY <3>1, <3>2, <4>1, <4>2, Zenon DEF RunningLight
    <3>3. CASE setMessageToLED
      BY <3>1, <3>3, MessageColours, Zenon DEF setMessageToLED
    <3>4. CASE ClearLo
      <4>1. lo' \in 0 .. BYTE - 1 /\ quiet' \in 0 .. QUIET + 1
        BY <3>4, FirmwareAssumption, SMT DEF ClearLo
      <4> QED
        BY <3>1, <3>4, <4>1, Zenon DEF ClearLo
    <3>5. CASE ClearHi
      <4>1. hi' \in 0 .. BYTE - 1
        BY <3>5, FirmwareAssumption, SMT DEF ClearHi
      <4> QED
        BY <3>1, <3>5, <4>1, Zenon DEF ClearHi
    <3>6. CASE Arm
      BY <3>1, <3>6, FirmwareAssumption, Zenon DEF Arm
    <3>7. CASE Parse
      BY <3>1, <3>7, FirmwareAssumption, Zenon DEF Parse
    <3>8. CASE init_millis \/ newPacketAvailable \/ getReceivedPacketSize \/ FetchHangs
      BY <3>1, <3>8, Zenon DEF init_millis, newPacketAvailable, getReceivedPacketSize, FetchHangs
    <3>10. CASE fetchPacketBlocking
      <4>1. frame' \in Messages
        BY <3>10, Zenon DEF fetchPacketBlocking
      <4> QED
        BY <3>1, <3>10, <4>1, Zenon DEF fetchPacketBlocking
    <3>9. CASE StartTimer \/ Refresh
      BY <3>1, <3>9, Zenon DEF StartTimer, Refresh, showPixels_ms, StopTimer, StartData, EndData
    <3> QED
      BY <2>5, <3>2, <3>3, <3>4, <3>5, <3>6, <3>7, <3>8, <3>9, <3>10, Zenon
      DEF MainStep, main, Boot, Packet
  <2>6. CASE UNCHANGED vars
    BY <2>6, Zenon DEF vars
  <2> QED
    BY <2>1, <2>2, <2>3, <2>4, <2>5, <2>6, Zenon DEF Next, MainStep
<1> QED
  BY <1>1, <1>2, PTL DEF Spec

-----------------------------------------------------------------------------
\* A turn of the running light leaves no pixel on but the next one.
LEMMA LightTurn ==
  ASSUME TypeOK, RunningLightAlone, RunningLight
  PROVE  \A n \in Pixels : pixels'[n] # Black => n = i' /\ i' > 0
<1>1. pc = "boot" /\ i' = i + 1 /\ i \in Nat
  BY FirmwareAssumption, SMT DEF RunningLight, Step, TypeOK
<1>2. pixels' = Set(Set(pixels, i, Black), i + 1, Red) /\ pixels \in [Pixels -> Colours]
  BY Zenon DEF RunningLight, TypeOK
<1>3. \A n \in Pixels : n # i + 1 => pixels'[n] = Set(pixels, i, Black)[n]
  BY <1>2, Zenon DEF Set
<1>4. \A n \in Pixels : Set(pixels, i, Black)[n] = IF n = i THEN Black ELSE pixels[n]
  BY <1>2, Zenon DEF Set
<1>5. \A n \in Pixels : pixels[n] # Black => n = i
  BY <1>1, Zenon DEF RunningLightAlone
<1>6. \A n \in Pixels : pixels'[n] # Black => n = i'
  BY <1>1, <1>3, <1>4, <1>5, Zenon
<1>7. i' > 0
  BY <1>1, SMT
<1> QED
  BY <1>6, <1>7, Zenon

\* While the CPU boots, one pixel is on at most: the one the running light
\* has come to, also after a reset in the middle of it.
THEOREM LightAlone == Spec => []RunningLightAlone
<1>1. Init => RunningLightAlone
  BY Zenon DEF Init, Dark, RunningLightAlone
<1>2. TypeOK /\ RunningLightAlone /\ [Next]_vars => RunningLightAlone'
  <2> SUFFICES ASSUME TypeOK, RunningLightAlone, [Next]_vars, pc' = "boot"
               PROVE  \A n \in Pixels : pixels'[n] # Black => n = i' /\ i' > 0
    BY Zenon DEF RunningLightAlone
  <2>1. CASE RunningLight
    BY <2>1, LightTurn, Zenon
  <2>2. CASE WatchdogReset
    BY <2>2, Zenon DEF WatchdogReset, Dark
  <2>3. CASE pc = "boot" /\ pixels' = pixels /\ i' = i
    BY <2>3, Zenon DEF RunningLightAlone
  <2>4. RunningLight \/ WatchdogReset \/ (pc = "boot" /\ pixels' = pixels /\ i' = i)
    <3>1. CASE main \/ FetchHangs
      BY <3>1, SMT DEF main, Boot, Packet, Refresh, init_millis,
        newPacketAvailable, Arm, getReceivedPacketSize, fetchPacketBlocking, FetchHangs, Parse, setMessageToLED,
        StartTimer, ClearLo, ClearHi, showPixels_ms, StopTimer, StartData, EndData, Step
    <3>2. CASE Tick \/ TIMER3_COMPA_vect \/ \E m \in Messages : Receive(m)
      BY <3>2, Zenon DEF Tick, TIMER3_COMPA_vect, Receive, lights
    <3>3. CASE UNCHANGED vars
      BY <3>3, Zenon DEF vars, lights
    <3> QED
      BY <3>1, <3>2, <3>3, Zenon DEF Next
  <2> QED
    BY <2>1, <2>2, <2>3, <2>4
<1> QED
  BY <1>1, <1>2, TypeCorrect, PTL DEF Spec

-----------------------------------------------------------------------------
(***************************************************************************)
(* The quiet time. The counter never runs ahead of the interrupts since    *)
(* the last clear began; in the middle of the clear this is true of its    *)
(* low byte, since the high bytes are still the old ones.                  *)
(***************************************************************************)
QuietInv ==
  /\ pc # "clearHi" /\ quiet <= QUIET => lo + hi * BYTE <= quiet
  /\ pc = "clearHi" /\ quiet <= QUIET => lo <= quiet
  /\ pc \in {"stop", "show"} => quiet > QUIET

\* The types that the arguments below rest on.
LEMMA Numbers ==
  ASSUME TypeOK
  PROVE  /\ lo \in 0 .. BYTE - 1 /\ hi \in 0 .. BYTE - 1 /\ BYTE \in Nat \ {0, 1}
         /\ lo \in Nat /\ hi * BYTE \in Nat
         /\ quiet \in Nat /\ QUIET \in Nat /\ quiet <= QUIET + 1
BY FirmwareAssumption, SMT DEF TypeOK

\* QuietInv is inductive, given the types.
LEMMA QuietInductive == TypeOK /\ QuietInv /\ [Next]_vars => QuietInv'
<1> SUFFICES ASSUME TypeOK, QuietInv, [Next]_vars
             PROVE  QuietInv'
  OBVIOUS
<1> USE Numbers DEF QuietInv
<1>1. CASE pc' = pc /\ lo' = lo /\ hi' = hi /\ quiet' = quiet
  BY <1>1, Zenon
<1>2. CASE TIMER3_COMPA_vect
  <2>1. lo' <= lo + 1 /\ lo' + hi' * BYTE <= lo + hi * BYTE + 1
    BY <1>2, Increment, Zenon DEF TIMER3_COMPA_vect
  <2>2. lo' \in 0 .. BYTE - 1 /\ hi' \in 0 .. BYTE - 1
    BY <1>2, Increment, Zenon DEF TIMER3_COMPA_vect
  <2>3. pc' = pc /\ quiet' = IF quiet <= QUIET THEN quiet + 1 ELSE quiet
    BY <1>2, Zenon DEF TIMER3_COMPA_vect
  <2>4. lo' \in Nat /\ hi' * BYTE \in Nat
    BY <2>2, SMT
  <2>5. quiet' <= QUIET => quiet <= QUIET /\ quiet' = quiet + 1
    BY <2>3, SMT
  <2>6. pc \in {"stop", "show"} => quiet' > QUIET
    BY <2>3, SMT
  <2>7. pc # "clearHi" /\ quiet' <= QUIET => lo' + hi' * BYTE <= quiet'
    BY <2>1, <2>4, <2>5, SMT
  <2>8. pc = "clearHi" /\ quiet' <= QUIET => lo' <= quiet'
    BY <2>1, <2>4, <2>5, SMT
  <2> QED
    BY <2>3, <2>6, <2>7, <2>8, Zenon
<1>3. CASE WatchdogReset
  BY <1>3, SMT DEF WatchdogReset
<1>4. CASE ClearLo
  BY <1>4, SMT DEF ClearLo, Step
<1>5. CASE ClearHi
  BY <1>5, SMT DEF ClearHi, Step, counter
<1>6. CASE showPixels_ms
  BY <1>6, SMT DEF showPixels_ms, millis, Step, counter
<1>7. CASE Boot \/ newPacketAvailable \/ FetchHangs
  BY <1>7, SMT DEF Boot, RunningLight, init_millis, newPacketAvailable, FetchHangs,
    Step, counter
<1>8. CASE Arm \/ getReceivedPacketSize \/ fetchPacketBlocking \/ Parse \/ setMessageToLED \/ StartTimer
  BY <1>8, SMT DEF Arm, getReceivedPacketSize, fetchPacketBlocking, Parse, setMessageToLED, StartTimer, Step, counter
<1>9. CASE StopTimer \/ StartData \/ EndData
  BY <1>9, SMT DEF StopTimer, StartData, EndData, Step, counter
<1>10. CASE Tick \/ \E m \in Messages : Receive(m)
  <2>1. pc' = pc /\ lo' = lo /\ hi' = hi /\ quiet' = quiet
    BY <1>10, Zenon DEF Tick, Receive, counter
  <2> QED
    BY <1>1, <2>1
<1>11. CASE UNCHANGED vars
  <2>1. pc' = pc /\ lo' = lo /\ hi' = hi /\ quiet' = quiet
    BY <1>11, Zenon DEF vars, counter
  <2> QED
    BY <1>1, <2>1
<1> QED
  BY <1>2, <1>3, <1>4, <1>5, <1>6, <1>7, <1>8, <1>9, <1>10, <1>11, Zenon
  DEF Next, main, Packet, Refresh

\* A frame goes out only after more than QUIET interrupts since the last
\* message, although the interrupt may hit the clear of the counter.
THEOREM QuietFirst == Spec => RefreshOnlyWhenQuiet
<1>1. Init => QuietInv
  BY FirmwareAssumption, SMT DEF Init, QuietInv
<1>2. TypeOK /\ QuietInv /\ [Next]_vars => QuietInv'
  BY QuietInductive
<1>3. QuietInv => [StartData => quiet > QUIET]_vars
  BY Zenon DEF QuietInv, StartData, Step
<1> QED
  BY <1>1, <1>2, <1>3, TypeCorrect, PTL DEF Spec, RefreshOnlyWhenQuiet

-----------------------------------------------------------------------------
(***************************************************************************)
(* The timer of the milliseconds during a frame: it is stopped, and the    *)
(* interrupt that may be left over is taken before the data goes out.      *)
(***************************************************************************)
StoppedInv ==
  /\ pc \in {"show", "data"} => ~t3
  /\ pc = "data" => ~ocf

\* StoppedInv is inductive.
LEMMA StoppedInductive == TypeOK /\ StoppedInv /\ [Next]_vars => StoppedInv'
<1> SUFFICES ASSUME TypeOK, StoppedInv, [Next]_vars
             PROVE  StoppedInv'
  OBVIOUS
<1>1. CASE Tick
  BY <1>1, Zenon DEF Tick, StoppedInv
<1>2. CASE TIMER3_COMPA_vect
  BY <1>2, Zenon DEF TIMER3_COMPA_vect, StoppedInv
<1>3. CASE StopTimer
  BY <1>3, Zenon DEF StopTimer, StoppedInv, Step
<1>4. CASE StartData
  BY <1>4, SMT DEF StartData, StoppedInv, Step, counter
<1>5. CASE main /\ ~StopTimer /\ ~StartData
  <2>1. pc' \notin {"show", "data"}
    BY <1>5, SMT DEF main, Boot, Packet, Refresh, RunningLight, init_millis,
      newPacketAvailable, Arm, getReceivedPacketSize, fetchPacketBlocking, Parse, setMessageToLED,
      StartTimer, ClearLo, ClearHi, showPixels_ms, EndData, Step
  <2> QED
    BY <2>1, Zenon DEF StoppedInv
<1>6. CASE FetchHangs
  BY <1>6, SMT DEF FetchHangs, Step, StoppedInv
<1>7. CASE WatchdogReset
  <2>1. pc' = "boot"
    BY <1>7, Zenon DEF WatchdogReset
  <2>2. pc' \notin {"show", "data"}
    BY <2>1, SMT
  <2> QED
    BY <2>2, Zenon DEF StoppedInv
<1>8. CASE UNCHANGED vars \/ \E m \in Messages : Receive(m)
  <2>1. pc' = pc /\ t3' = t3 /\ ocf' = ocf
    BY <1>8, Zenon DEF vars, counter, Receive
  <2> QED
    BY <2>1, Zenon DEF StoppedInv
<1> QED
  BY <1>1, <1>2, <1>3, <1>4, <1>5, <1>6, <1>7, <1>8, Zenon DEF Next

\* No interrupt of the millisecond timer delays the bits of a frame.
THEOREM DataUndisturbed == Spec => NoMillisInData
<1>1. Init => StoppedInv
  BY SMT DEF Init, StoppedInv
<1>2. TypeOK /\ StoppedInv /\ [Next]_vars => StoppedInv'
  BY StoppedInductive
<1>3. StoppedInv => [pc = "data" => ~TIMER3_COMPA_vect]_vars
  BY Zenon DEF StoppedInv, TIMER3_COMPA_vect
<1> QED
  BY <1>1, <1>2, <1>3, TypeCorrect, PTL DEF Spec, NoMillisInData

-----------------------------------------------------------------------------
(***************************************************************************)
(* The watchdog. It runs only from wdt_enable() to wdt_disable(), and what *)
(* main does between them takes less than its time-out.                    *)
(***************************************************************************)
WatchInv ==
  ~wdrf =>
    CASE pc = "size"   -> wdt # Off /\ wdt + slack = WDTO
      [] pc = "fetch"  -> wdt # Off /\ wdt + slack >= WDTO - 1
      [] pc = "parse"  -> wdt # Off /\ wdt + slack >= WDTO - 1 - MaxFetch
      [] pc = "hung"   -> TRUE
      [] OTHER         -> wdt = Off

\* WatchInv is inductive, given the types.
LEMMA WatchInductive == TypeOK /\ WatchInv /\ [Next]_vars => WatchInv'
<1> SUFFICES ASSUME TypeOK, WatchInv, [Next]_vars, ~wdrf'
             PROVE  CASE pc' = "size"   -> wdt' # Off /\ wdt' + slack' = WDTO
                      [] pc' = "fetch"  -> wdt' # Off /\ wdt' + slack' >= WDTO - 1
                      [] pc' = "parse"  -> wdt' # Off /\ wdt' + slack' >= WDTO - 1 - MaxFetch
                      [] pc' = "hung"   -> TRUE
                      [] OTHER          -> wdt' = Off
  BY Zenon DEF WatchInv
<1>0. /\ slack \in Nat /\ (pc = "size" => slack <= 1) /\ (pc = "fetch" => slack <= MaxFetch)
      /\ wdt \in {Off} \cup Nat
      /\ WDTO \in Nat /\ MaxFetch \in Nat
  BY BudgetIs, FirmwareAssumption, SMT DEF TypeOK
<1> USE <1>0 DEF WatchInv, Off, dog
<1>1. CASE Tick
  <2>1. /\ pc' = pc /\ wdt # 0 /\ (pc # "hung" => slack' = slack + 1)
        /\ wdt' = IF wdt = Off THEN Off ELSE wdt - 1
    BY <1>1, Zenon DEF Tick
  <2>2. ~wdrf
    BY <1>1, Zenon DEF Tick
  <2> QED
    BY <2>1, <2>2, SMT
<1>2. CASE Arm
  BY <1>2, SMT DEF Arm, Step
<1>3. CASE getReceivedPacketSize \/ fetchPacketBlocking
  BY <1>3, SMT DEF getReceivedPacketSize, fetchPacketBlocking, Step
<1>4. CASE Parse
  BY <1>4, SMT DEF Parse, Step
<1>5. CASE FetchHangs
  BY <1>5, SMT DEF FetchHangs, Step
<1>6. CASE WatchdogReset
  <2>1. pc' = "boot" /\ wdt' = Off
    BY <1>6, Zenon DEF WatchdogReset
  <2> QED
    BY <2>1, SMT
<1>7. CASE Boot \/ newPacketAvailable \/ Refresh
  BY <1>7, SMT DEF Boot, RunningLight, init_millis, newPacketAvailable, Refresh,
    showPixels_ms, StopTimer, StartData, EndData, Step
<1>8. CASE setMessageToLED \/ StartTimer \/ ClearLo \/ ClearHi
  BY <1>8, SMT DEF setMessageToLED, StartTimer, ClearLo, ClearHi, Step
<1>9. CASE UNCHANGED vars \/ TIMER3_COMPA_vect \/ \E m \in Messages : Receive(m)
  <2>1. pc' = pc /\ wdt' = wdt /\ wdrf' = wdrf /\ slack' = slack
    BY <1>9, Zenon DEF vars, TIMER3_COMPA_vect, Receive, dog
  <2> QED
    BY <2>1, Zenon
<1> QED
  BY <1>1, <1>2, <1>3, <1>4, <1>5, <1>6, <1>7, <1>8, <1>9, Zenon
  DEF Next, main, Packet

\* When a packet that does not hang is read within the time-out, with two ticks
\* to spare, the watchdog resets only a CPU that hangs, unless WDRF was left
\* set by an earlier reset.
THEOREM ResetJustified ==
  ASSUME MaxFetch + 2 < WDTO
  PROVE  Spec => ResetOnlyWhenHung
<1>1. Init => WatchInv
  BY SMT DEF Init, WatchInv
<1>2. TypeOK /\ WatchInv /\ [Next]_vars => WatchInv'
  BY WatchInductive
<1>3. TypeOK /\ WatchInv => [WatchdogReset => pc = "hung" \/ wdrf]_vars
  <2> SUFFICES ASSUME TypeOK, WatchInv, WatchdogReset, pc # "hung", ~wdrf
               PROVE  FALSE
    BY Zenon
  <2>1. /\ slack \in Nat /\ MaxFetch \in Nat /\ WDTO \in Nat
        /\ (pc = "fetch" => slack <= MaxFetch) /\ (pc \in {"size", "parse"} => slack <= 1)
    BY BudgetIs, FirmwareAssumption, SMT DEF TypeOK
  <2>2. wdt = 0
    BY Zenon DEF WatchdogReset
  <2> QED
    BY <2>1, <2>2, SMT DEF WatchInv, Off
<1> QED
  BY <1>1, <1>2, <1>3, TypeCorrect, PTL DEF Spec, ResetOnlyWhenHung
-----------------------------------------------------------------------------
(***************************************************************************)
(* The picture in the buffer. On its way through a packet main has counted *)
(* before the message is set, and counts again when the timer is started.  *)
(***************************************************************************)
PictureInv ==
  pc \in {"poll", "check", "arm", "size", "fetch", "parse", "apply", "clearLo", "clearHi"} =>
    t3 \/ strip = pixels

\* PictureInv is inductive.
LEMMA PictureInductive == PictureInv /\ [Next]_vars => PictureInv'
<1> SUFFICES ASSUME PictureInv, [Next]_vars
             PROVE  PictureInv'
  OBVIOUS
<1> USE DEF PictureInv, Step, lights, counter
<1>1. CASE Tick \/ TIMER3_COMPA_vect \/ (\E m \in Messages : Receive(m)) \/ UNCHANGED vars
  BY <1>1, Zenon DEF Tick, TIMER3_COMPA_vect, Receive, vars
<1>2. CASE WatchdogReset \/ RunningLight \/ FetchHangs
  <2>1. pc' \in {"boot", "hung"}
    BY <1>2, Zenon DEF WatchdogReset, RunningLight, FetchHangs
  <2> QED
    BY <2>1, SMT
<1>3. CASE init_millis \/ StartTimer
  BY <1>3, Zenon DEF init_millis, StartTimer
<1>4. CASE newPacketAvailable \/ Arm \/ getReceivedPacketSize \/ fetchPacketBlocking \/ Parse
  BY <1>4, SMT DEF newPacketAvailable, Arm, getReceivedPacketSize, fetchPacketBlocking, Parse
<1>5. CASE setMessageToLED
  BY <1>5, SMT DEF setMessageToLED
<1>6. CASE ClearLo \/ ClearHi
  BY <1>6, SMT DEF ClearLo, ClearHi
<1>7. CASE showPixels_ms
  BY <1>7, SMT DEF showPixels_ms
<1>8. CASE StopTimer \/ StartData
  BY <1>8, SMT DEF StopTimer, StartData
<1>9. CASE EndData
  BY <1>9, Zenon DEF EndData
<1> QED
  BY <1>1, <1>2, <1>3, <1>4, <1>5, <1>6, <1>7, <1>8, <1>9, Zenon
  DEF Next, main, Boot, Packet, Refresh

\* The strip shows the buffer, or its refresh is being waited for: no message
\* and no reset leaves a picture behind that the loop would not show.
THEOREM NoPictureForgotten == Spec => []ShownOrCounting
<1>1. Init => PictureInv
  BY SMT DEF Init, PictureInv
<1>2. PictureInv /\ [Next]_vars => PictureInv'
  BY PictureInductive
<1>3. PictureInv => ShownOrCounting
  BY SMT DEF PictureInv, ShownOrCounting
<1> QED
  BY <1>1, <1>2, <1>3, PTL DEF Spec
=============================================================================
