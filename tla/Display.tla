------------------------------- MODULE Display -------------------------------
(***************************************************************************)
(* The strip as main.c drives it: its calls of show() in the running light *)
(* and in the main loop, with timer 1 and the latch time as module Timer   *)
(* models them. Is the race in reset_timer() harmful here?                 *)
(*                                                                         *)
(* A strip takes the first frame after a pause of the latch time, passes   *)
(* on - and so ignores - what follows without a pause, and shows what it   *)
(* took at the next pause.                                                 *)
(***************************************************************************)
EXTENDS Timer

CONSTANTS
  Pictures,    \* colours of all pixels
  TURNS,       \* turns of the running light: NUMPIXELS
  LoopTicks,   \* ticks that the rest of such a turn takes at most
  DataTicks,   \* ticks that the output of a frame takes at most
  QuietTicks,  \* ticks in the 200 ms that showPixels_ms waits for
  MaxPackets   \* bound: packets that arrive

\* On the AVR: 65536 ticks to an overflow, 24000 for the 9600 bits of 400
\* pixels, 600 for the latch time, some for the code around, and 400000 in
\* the quiet time.
ASSUME DisplayAssumption ==
  /\ Pictures # {} /\ TURNS \in Nat /\ MaxPackets \in Nat
  /\ LoopTicks \in Nat /\ DataTicks \in Nat /\ QuietTicks \in Nat
  /\ LatchTicks + LoopTicks + DataTicks + 10 * MaxSlack < TOP
  /\ LatchTicks <= QuietTicks

VARIABLES
  turn,       \* turns of the running light that have begun
  booting,    \* the running light is on
  drawn,      \* the picture in the driver's buffer
  held,       \* the picture the strip has taken last
  shown,      \* the picture it shows
  spent,      \* ticks in the current data or turn
  calm,       \* ticks since the last packet, up to QuietTicks
  packets     \* packets that have arrived

light == <<turn, booting>>
strip == <<held, shown>>
displayVars == <<vars, light, drawn, strip, spent, calm, packets>>

-----------------------------------------------------------------------------
\* The ticks of the places whose length Timer leaves open.
Limited == pc = "data" \/ (pc = "idle" /\ booting)

Limit == IF pc = "data" THEN DataTicks ELSE LoopTicks

\* Mutant: timer 3 has stopped for good.
TimeWithoutCalm ==
  /\ Tick
  /\ Limited => spent < Limit
  /\ spent' = IF Limited THEN spent + 1 ELSE 0
  /\ calm' = calm
  /\ shown' = IF pc # "data" /\ since' = LatchTicks THEN held ELSE shown
  /\ UNCHANGED <<light, drawn, held, packets>>

\* Time passes: milliseconds are counted until showPixels_ms has seen enough
\* of them, and at the end of the latch time the strip shows what it holds.
Time ==
  /\ Tick
  /\ Limited => spent < Limit
  /\ spent' = IF Limited THEN spent + 1 ELSE 0
  /\ calm' = IF booting \/ calm = QuietTicks THEN calm ELSE calm + 1
  /\ shown' = IF pc # "data" /\ since' = LatchTicks THEN held ELSE shown
  /\ UNCHANGED <<light, drawn, held, packets>>

Overflow ==
  /\ TIMER1_OVF_vect
  /\ UNCHANGED <<light, drawn, strip, spent, calm, packets>>

Begin ==
  /\ begin
  /\ spent' = 0
  /\ UNCHANGED <<light, drawn, strip, calm, packets>>

\* The next turn of the running light draws its picture and calls show().
LightTurn ==
  /\ booting
  /\ turn < TURNS
  /\ CallShow
  /\ turn' = turn + 1
  /\ drawn' \in Pictures
  /\ spent' = 0
  /\ UNCHANGED <<booting, strip, calm, packets>>

\* init_millis(), and the main loop.
LightEnds ==
  /\ booting
  /\ turn = TURNS
  /\ pc = "idle"
  /\ booting' = FALSE
  /\ calm' = 0
  /\ spent' = 0
  /\ UNCHANGED <<vars, turn, drawn, strip, packets>>

\* Mutant: the milliseconds are not cleared.
PacketInHaste ==
  /\ ~booting
  /\ pc = "idle"
  /\ packets < MaxPackets
  /\ packets' = packets + 1
  /\ drawn' \in Pictures
  /\ UNCHANGED <<vars, light, strip, spent, calm>>

\* A packet is drawn, and the milliseconds are counted from 0 again.
Packet ==
  /\ ~booting
  /\ pc = "idle"
  /\ packets < MaxPackets
  /\ packets' = packets + 1
  /\ drawn' \in Pictures
  /\ calm' = 0
  /\ UNCHANGED <<vars, light, strip, spent>>

\* showPixels_ms calls show(). It stops timer 3 first, so that the counter
\* stays above its limit, and the loop goes on calling show().
Refresh ==
  /\ ~booting
  /\ calm = QuietTicks
  /\ CallShow
  /\ spent' = 0
  /\ UNCHANGED <<light, drawn, strip, calm, packets>>

\* A poll that succeeds starts the frame. The strip takes it if it has had
\* its latch time.
Polls ==
  /\ Poll
  /\ held' = IF pc' = "data" /\ since = LatchTicks THEN drawn ELSE held
  /\ spent' = 0
  /\ UNCHANGED <<light, drawn, shown, calm, packets>>

\* The other accesses of show() and of reset_timer().
Access ==
  /\ LoadTcnt \/ LoadLo \/ LoadHi \/ EndData \/ reset_timer
  /\ spent' = 0
  /\ UNCHANGED <<light, drawn, strip, calm, packets>>

-----------------------------------------------------------------------------
DisplayInit ==
  /\ Init
  /\ turn = 0
  /\ booting = TRUE
  /\ drawn \in Pictures
  /\ held = drawn
  /\ shown = drawn
  /\ spent = 0
  /\ calm = 0
  /\ packets = 0

Display == LightTurn \/ LightEnds \/ Refresh \/ Polls \/ Access

DisplayNext == Time \/ Overflow \/ Begin \/ Display \/ Packet

DisplaySpec == DisplayInit /\ [][DisplayNext]_displayVars

\* The CPU and its timers do not stop, and the handler leaves the CPU to the
\* main program, which can wait in its loop for more than one overflow.
FairDisplay ==
  /\ DisplaySpec
  /\ WF_displayVars(Time)
  /\ WF_displayVars(Overflow)
  /\ WF_displayVars(Begin)
  /\ SF_displayVars(Display)

-----------------------------------------------------------------------------
\* Every variable has its type, those of Timer included.
DisplayTypeOK ==
  /\ TypeOK
  /\ turn \in 0 .. TURNS
  /\ booting \in BOOLEAN
  /\ drawn \in Pictures /\ held \in Pictures /\ shown \in Pictures
  /\ spent \in 0 .. Limit
  /\ calm \in 0 .. QuietTicks
  /\ packets \in 0 .. MaxPackets

\* No frame of the running light is lost: although its calls of show() have
\* no pause between them, timer 1 never overflows at all during the boot, so
\* that the race in reset_timer() cannot happen.
LightNeverRaced == [][booting => LatchHeldStep /\ ~TIMER1_OVF_vect]_displayVars

\* In the main loop the race does happen, and the next frame comes too early
\* for the strip; but it is one that the strip already holds, since a new
\* picture is never sent before the quiet time.
LostFrameIsHeld ==
  [][Polls /\ pc' = "data" /\ since < LatchTicks => drawn = held]_displayVars

\* The strip and show() together are a screen: every picture that main sends
\* is the one taken last from then on, although a frame may come too early
\* and be lost, and is shown before another picture is sent.
Abstract == INSTANCE Screen WITH busy <- pc = "data", sent <- held

ImplementsScreen == Abstract!Spec

\* When packets cease, the strip comes to show the last picture for good.
LastPictureShown == <>[](shown = drawn)
=============================================================================
