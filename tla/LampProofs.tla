------------------------------ MODULE LampProofs ------------------------------
(***************************************************************************)
(* Firmware implements Lamp: every step of the firmware is a step of the   *)
(* lamp, or leaves what the lamp talks about alone.                        *)
(***************************************************************************)
EXTENDS FirmwareProofs

\* What each place of main is to the lamp.
LEMMA ModeOf ==
  ASSUME NEW place
  PROVE  /\ place = "boot" <=> Mode(place) = "boot"
         /\ place \in {"arm", "size", "fetch", "hung"} <=> Mode(place) = "due"
         /\ place \in {"parse", "apply"} <=> Mode(place) = "taken"
         /\ place \notin {"boot", "arm", "size", "fetch", "hung", "parse", "apply"}
              <=> Mode(place) = "idle"
BY SMT DEF Mode

-----------------------------------------------------------------------------
\* From the first turn of the running light on, the strip shows the buffer:
\* what it showed before a reset is gone when the boot ends.
BootShown == pc = "boot" /\ i > 0 => strip = pixels

\* BootShown is inductive, given the types.
LEMMA BootShownInductive == TypeOK /\ BootShown /\ [Next]_vars => BootShown'
<1> SUFFICES ASSUME TypeOK, BootShown, [Next]_vars, pc' = "boot", i' > 0
             PROVE  strip' = pixels'
  BY Zenon DEF BootShown
<1>1. CASE RunningLight
  BY <1>1, Zenon DEF RunningLight
<1>2. CASE WatchdogReset
  BY <1>2, SMT DEF WatchdogReset
<1>3. CASE (main \/ FetchHangs) /\ ~RunningLight
  BY <1>3, SMT DEF main, Boot, Packet, Refresh, init_millis, newPacketAvailable, Arm,
    getReceivedPacketSize, fetchPacketBlocking, FetchHangs, Parse, setMessageToLED,
    StartTimer, ClearLo, ClearHi, showPixels_ms, StopTimer, StartData, EndData, Step
<1>4. CASE Tick \/ TIMER3_COMPA_vect \/ \E m \in Messages : Receive(m)
  BY <1>4, Zenon DEF Tick, TIMER3_COMPA_vect, Receive, lights, BootShown
<1>5. CASE UNCHANGED vars
  BY <1>5, Zenon DEF vars, lights, BootShown
<1> QED
  BY <1>1, <1>2, <1>3, <1>4, <1>5, Zenon DEF Next

-----------------------------------------------------------------------------
\* A turn of the running light is one of the lamp: one red pixel, or none.
LEMMA LightIsLight ==
  ASSUME TypeOK, RunningLightAlone, RunningLight
  PROVE  Abstract!Light
<1>1. pc = "boot" /\ pc' = "boot" /\ strip' = pixels' /\ UNCHANGED <<radio, packet>>
  BY Zenon DEF RunningLight, Step
<1>2. Mode(pc) = "boot" /\ Mode(pc') = Mode(pc)
  BY <1>1, ModeOf, Zenon
<1>3. pixels \in [Pixels -> Colours] /\ i \in Nat
  BY FirmwareAssumption, SMT DEF TypeOK
<1> DEFINE off == Set(pixels, i, Black)
<1>4. pixels' = Set(off, i + 1, Red)
  BY Zenon DEF RunningLight
<1>5. off = Dark
  <2>1. \A n \in Pixels : n # i => pixels[n] = Black
    BY <1>1, Zenon DEF RunningLightAlone
  <2>2. off \in [Pixels -> Colours] /\ \A n \in Pixels : off[n] = Black
    BY <1>3, <2>1, FirmwareAssumption, Zenon DEF Set
  <2> QED
    BY <2>2, Zenon DEF Dark
<1> HIDE DEF off
<1>6. pixels' \in Abstract!LightColours
  <2>1. CASE i + 1 \in Pixels
    BY <1>4, <1>5, <2>1, Zenon DEF Set, Abstract!LightColours, Abstract!Dark, Dark
  <2>2. CASE i + 1 \notin Pixels
    BY <1>4, <1>5, <2>2, Zenon DEF Set, Abstract!LightColours, Abstract!Dark, Dark
  <2> QED
    BY <2>1, <2>2
<1> QED
  BY <1>1, <1>2, <1>6, Zenon DEF Abstract!Light, radio, packet

\* The running light ends in the dark, on the strip too.
LEMMA EndIsBooted ==
  ASSUME TypeOK, RunningLightAlone, BootShown, init_millis
  PROVE  Abstract!Booted
<1>1. pc = "boot" /\ pc' = "poll" /\ UNCHANGED <<lights, rx, fresh, arrived, packet>>
  BY Zenon DEF init_millis, Step, radio
<1>2. Mode(pc) = "boot" /\ Mode(pc') = "idle"
  BY <1>1, ModeOf, SMT
<1>3. i \notin Pixels /\ i > 0
  BY FirmwareAssumption, SMT DEF init_millis, Pixels
<1>4. pixels \in [Pixels -> Colours] /\ \A n \in Pixels : pixels[n] = Black
  BY <1>1, <1>3, Zenon DEF RunningLightAlone, TypeOK
<1>5. pixels = Dark
  BY <1>4, Zenon DEF Dark
<1>6. strip = Dark
  BY <1>1, <1>3, <1>5, Zenon DEF BootShown
<1> QED
  BY <1>1, <1>2, <1>5, <1>6, Zenon DEF Abstract!Booted, Abstract!Dark, Dark, lights, packet

\* A poll that finds a frame notices it; any other changes nothing.
LEMMA PollIsNotice ==
  ASSUME TypeOK, newPacketAvailable
  PROVE  Abstract!Notice \/ UNCHANGED Abstract!vars
<1>1. pc = "poll" /\ fresh \in BOOLEAN /\ fresh' = FALSE
      /\ UNCHANGED <<lights, rx, packet>>
  BY Zenon DEF newPacketAvailable, Step, TypeOK
<1>2. Mode(pc) = "idle"
  BY <1>1, ModeOf, SMT
<1>3. CASE fresh
  <2>1. pc' = "arm"
    BY <1>3, Zenon DEF newPacketAvailable, Step
  <2>2. Mode(pc') = "due"
    BY <2>1, ModeOf, SMT
  <2> QED
    BY <1>1, <1>2, <1>3, <2>2, Zenon DEF Abstract!Notice, lights, packet
<1>4. CASE ~fresh
  <2>1. pc' = "check"
    BY <1>4, Zenon DEF newPacketAvailable, Step
  <2>2. Mode(pc') = "idle"
    BY <2>1, ModeOf, SMT
  <2> QED
    BY <1>1, <1>2, <1>4, <2>2, Zenon DEF Abstract!vars, lights, packet
<1> QED
  BY <1>3, <1>4

\* A fetch takes the frame of the radio; if it is torn, a newer frame has come
\* since the size was read, and main has not polled since.
SizedInv ==
  /\ sized <= arrived
  /\ pc = "fetch" /\ arrived # sized => fresh

\* SizedInv is inductive, given the types.
LEMMA SizedInductive == TypeOK /\ SizedInv /\ [Next]_vars => SizedInv'
<1> SUFFICES ASSUME TypeOK, SizedInv, [Next]_vars
             PROVE  SizedInv'
  OBVIOUS
<1>0. arrived \in Nat /\ sized \in Nat
  BY FirmwareAssumption, SMT DEF TypeOK
<1> USE <1>0 DEF SizedInv
<1>1. CASE \E m \in Messages : Receive(m)
  <2>1. arrived' = arrived + 1 /\ sized' = sized /\ fresh' = TRUE
    BY <1>1, Zenon DEF Receive, packet
  <2> QED
    BY <2>1, SMT
<1>2. CASE getReceivedPacketSize
  BY <1>2, SMT DEF getReceivedPacketSize, radio
<1>3. CASE newPacketAvailable
  BY <1>3, SMT DEF newPacketAvailable, Step, packet
<1>4. CASE (main \/ FetchHangs) /\ ~getReceivedPacketSize /\ ~newPacketAvailable
  BY <1>4, SMT DEF main, Boot, Packet, Refresh, RunningLight, init_millis, Arm,
    fetchPacketBlocking, FetchHangs, Parse, setMessageToLED, StartTimer, ClearLo, ClearHi,
    showPixels_ms, StopTimer, StartData, EndData, Step, radio, packet
<1>5. CASE Tick \/ TIMER3_COMPA_vect \/ UNCHANGED vars
  <2>1. pc' = pc /\ arrived' = arrived /\ sized' = sized /\ fresh' = fresh
    BY <1>5, Zenon DEF Tick, TIMER3_COMPA_vect, vars, radio, packet
  <2> QED
    BY <2>1, Zenon
<1>6. CASE WatchdogReset
  <2>1. pc' = "boot" /\ arrived' = arrived /\ sized' = sized
    BY <1>6, Zenon DEF WatchdogReset, packet
  <2> QED
    BY <2>1, SMT
<1> QED
  BY <1>1, <1>2, <1>3, <1>4, <1>5, <1>6, Zenon DEF Next

LEMMA FetchIsTake ==
  ASSUME TypeOK, SizedInv, fetchPacketBlocking
  PROVE  Abstract!Take
<1>1. pc = "fetch" /\ pc' = "parse" /\ UNCHANGED <<lights, radio>>
  BY Zenon DEF fetchPacketBlocking, Step
<1>2. Mode(pc) = "due" /\ Mode(pc') = "taken"
  BY <1>1, ModeOf, SMT
<1>3. frame' \in Messages /\ (frame' = rx \/ fresh)
  BY <1>1, Zenon DEF fetchPacketBlocking, SizedInv, TypeOK
<1> QED
  BY <1>1, <1>2, <1>3, Zenon DEF Abstract!Take, lights, radio

-----------------------------------------------------------------------------
\* The main program starts as the lamp does.
LEMMA StartsAsLamp == Init => Abstract!Init
<1> SUFFICES ASSUME Init
             PROVE  Abstract!Init
  OBVIOUS
<1>1. Mode(pc) = "boot"
  BY ModeOf, Zenon DEF Init
<1> QED
  BY <1>1, Zenon DEF Init, Abstract!Init, Abstract!Dark, Dark

\* Each of its steps is one of the lamp, or hidden from it.
LEMMA StepsAsLamp ==
  TypeOK /\ RunningLightAlone /\ BootShown /\ SizedInv /\ [Next]_vars
    => [Abstract!Next]_(Abstract!vars)
<1> SUFFICES ASSUME TypeOK, RunningLightAlone, BootShown, SizedInv, [Next]_vars
             PROVE  Abstract!Next \/ UNCHANGED Abstract!vars
  BY Zenon
<1>1. CASE RunningLight
  BY <1>1, LightIsLight, Zenon DEF Abstract!Next
<1>2. CASE init_millis
  BY <1>2, EndIsBooted, Zenon DEF Abstract!Next
<1>3. CASE newPacketAvailable
  BY <1>3, PollIsNotice, Zenon DEF Abstract!Next
<1>4. CASE fetchPacketBlocking
  BY <1>4, FetchIsTake, Zenon DEF Abstract!Next
<1>5. CASE setMessageToLED
  <2>1. Mode(pc) = "taken" /\ Mode(pc') = "idle"
    BY <1>5, ModeOf, SMT DEF setMessageToLED, Step
  <2> QED
    BY <1>5, <2>1, Zenon
    DEF setMessageToLED, Abstract!Next, Abstract!Apply, Abstract!Overlay, radio, packet
<1>6. CASE EndData
  <2>1. Mode(pc) = "idle" /\ Mode(pc') = "idle"
    BY <1>6, ModeOf, SMT DEF EndData, Step
  <2> QED
    BY <1>6, <2>1, Zenon DEF EndData, Abstract!Next, Abstract!Show, radio, packet
<1>7. CASE \E m \in Messages : Receive(m)
  <2>1. PICK m \in Messages : Receive(m)
    BY <1>7
  <2>2. Abstract!Receive(m)
    BY <2>1, Zenon DEF Receive, Abstract!Receive, lights, packet
  <2> QED
    BY <2>2, Zenon DEF Abstract!Next
<1>8. CASE WatchdogReset
  <2>1. Mode(pc') = "boot"
    BY <1>8, ModeOf, Zenon DEF WatchdogReset
  <2> QED
    BY <1>8, <2>1, Zenon
    DEF WatchdogReset, Abstract!Next, Abstract!Reset, Abstract!Dark, Dark, radio, packet
<1>9. CASE Arm \/ getReceivedPacketSize \/ FetchHangs \/ Parse \/ StartTimer \/ ClearLo
           \/ ClearHi \/ showPixels_ms \/ StopTimer \/ StartData
  <2>1. Mode(pc') = Mode(pc)
    BY <1>9, ModeOf, SMT DEF Arm, getReceivedPacketSize, FetchHangs, Parse, StartTimer,
      ClearLo, ClearHi, showPixels_ms, StopTimer, StartData, Step
  <2>2. /\ rx' = rx /\ fresh' = fresh /\ frame' = frame
        /\ pixels' = pixels /\ strip' = strip
    BY <1>9, Zenon DEF Arm, getReceivedPacketSize, FetchHangs, Parse, StartTimer,
      ClearLo, ClearHi, showPixels_ms, StopTimer, StartData, lights, radio, packet
  <2> QED
    BY <2>1, <2>2, Zenon DEF Abstract!vars
<1>10. CASE Tick \/ TIMER3_COMPA_vect \/ UNCHANGED vars
  <2>1. /\ pc' = pc /\ rx' = rx /\ fresh' = fresh /\ frame' = frame
        /\ pixels' = pixels /\ strip' = strip
    BY <1>10, Zenon DEF Tick, TIMER3_COMPA_vect, vars, lights, radio, packet
  <2> QED
    BY <2>1, Zenon DEF Abstract!vars
<1> QED
  BY <1>1, <1>2, <1>3, <1>4, <1>5, <1>6, <1>7, <1>8, <1>9, <1>10, Zenon
  DEF Next, main, Boot, Packet, Refresh

\* The firmware is a lamp, for every strip, set of messages, duration and
\* number of frames, and through every reset.
THEOREM FirmwareIsLamp == Spec => ImplementsLamp
<1>1. Init => BootShown /\ SizedInv
  BY FirmwareAssumption, SMT DEF Init, BootShown, SizedInv
<1>2. TypeOK /\ BootShown /\ [Next]_vars => BootShown'
  BY BootShownInductive
<1>3. TypeOK /\ SizedInv /\ [Next]_vars => SizedInv'
  BY SizedInductive
<1>4. Init => Abstract!Init
  BY StartsAsLamp
<1>5. TypeOK /\ RunningLightAlone /\ BootShown /\ SizedInv /\ [Next]_vars
        => [Abstract!Next]_(Abstract!vars)
  BY StepsAsLamp
<1> QED
  BY <1>1, <1>2, <1>3, <1>4, <1>5, TypeCorrect, LightAlone, PTL
  DEF Spec, ImplementsLamp, Abstract!Spec
=============================================================================
