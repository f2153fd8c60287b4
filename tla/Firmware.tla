------------------------------- MODULE Firmware -------------------------------
(***************************************************************************)
(* The main program of the lamp: main.c, the millisecond counter it shares *)
(* with the interrupt of timer 3 (millis.c), the watchdog it arms around a *)
(* packet, and the radio it polls.                                         *)
(*                                                                         *)
(* timer2_millis has four bytes, cleared one at a time while the interrupt *)
(* may increment it; lo is the low byte and hi stands for the other three. *)
(* A tick is one period of timer 3, a millisecond. What a message does to  *)
(* the pixels is a partial function from pixels to colours (module         *)
(* MessageAdapter); how a frame is sent to the strip is in module Timer.   *)
(***************************************************************************)
EXTENDS Integers

CONSTANTS
  NUMPIXELS,   \* length of the strip: 400
  Colours,     \* colours of a pixel, Black and Red among them
  Black, Red,
  Messages,    \* effects of the messages: partial functions on the pixels
  QUIET,       \* showPixels_ms waits for more than 200 ms
  BYTE,        \* values of a byte: 256
  WDTO,        \* the watchdog's time-out while a packet is read: 120 ms
  WdtReset,    \* and the one in force after it has reset the CPU: 16 ms
  ShowTicks,   \* ticks that the output of a frame takes
  MaxFetch,    \* ticks that a fetch takes at most, unless it hangs
  MayHang,     \* whether the fetch may block forever
  BootClears,  \* whether a boot loader clears WDRF before main() runs
  MaxFrames    \* bound: frames that arrive

Pixels == 0 .. NUMPIXELS - 1
Off    == -1

ASSUME FirmwareAssumption ==
  /\ NUMPIXELS \in Nat \ {0}
  /\ Black \in Colours /\ Red \in Colours
  /\ \A m \in Messages : DOMAIN m \subseteq Pixels /\ \A n \in DOMAIN m : m[n] \in Colours
  /\ Messages # {}
  /\ QUIET \in Nat /\ BYTE \in Nat \ {0, 1}
  /\ WDTO \in Nat /\ WdtReset \in Nat /\ ShowTicks \in Nat /\ MaxFetch \in Nat
  /\ MayHang \in BOOLEAN /\ BootClears \in BOOLEAN /\ MaxFrames \in Nat

VARIABLES
  pc,               \* where the main program is
  i,                \* counter of the running light
  pixels,           \* the colours in the driver's buffer
  strip,            \* the colours the strip shows
  t3,               \* TCCR3B: timer 3 runs
  ocf,              \* OCF3A, its pending interrupt
  lo, hi,           \* timer2_millis
  rx, fresh,        \* the frame in the radio, and whether it is unseen
  arrived,          \* number of frames that have arrived
  sized,            \* how many had when main asked for the size
  frame,            \* the frame that main has fetched
  wdt, wdrf,        \* ticks left to the watchdog; WDRF, its last reset
  slack,            \* ticks since the last step of main
  quiet             \* history: interrupts since the last clear began

lights  == <<i, pixels, strip>>
counter == <<t3, ocf, lo, hi, quiet>>
radio   == <<rx, fresh, arrived>>
packet  == <<sized, frame>>
dog     == <<wdt, wdrf>>
vars    == <<pc, lights, counter, radio, packet, dog, slack>>

Dark == [n \in Pixels |-> Black]

-----------------------------------------------------------------------------
(***************************************************************************)
(* The environment of the main program.                                    *)
(***************************************************************************)

\* The ticks that fit between two steps of main: a frame and a fetch take
\* long, any other step less than a millisecond.
Budget(place) ==
  CASE place \in {"boot", "data"} -> ShowTicks
    [] place = "fetch"            -> MaxFetch
    [] OTHER                      -> 1

\* A millisecond passes. A watchdog that has run out stops everything.
Tick ==
  /\ ~ocf
  /\ wdt # 0
  /\ slack < Budget(pc) \/ pc = "hung"
  /\ slack' = IF pc = "hung" THEN slack ELSE slack + 1
  /\ ocf' = t3
  /\ wdt' = IF wdt = Off THEN Off ELSE wdt - 1
  /\ UNCHANGED <<pc, lights, t3, lo, hi, quiet, radio, packet, wdrf>>

\* Mutant: the increment of the low byte has no carry.
CountWithoutCarry ==
  /\ ocf
  /\ ocf' = FALSE
  /\ lo' = lo + 1
  /\ quiet' = IF quiet <= QUIET THEN quiet + 1 ELSE quiet
  /\ UNCHANGED <<pc, lights, t3, hi, radio, packet, dog, slack>>

\* timer2_millis++, with its carry; no other code runs meanwhile.
TIMER3_COMPA_vect ==
  /\ ocf
  /\ ocf' = FALSE
  /\ lo' = (lo + 1) % BYTE
  /\ hi' = IF lo' = 0 THEN (hi + 1) % BYTE ELSE hi
  /\ quiet' = IF quiet <= QUIET THEN quiet + 1 ELSE quiet
  /\ UNCHANGED <<pc, lights, t3, radio, packet, dog, slack>>

\* The radio holds one frame: a new one replaces it, read or not.
Receive(m) ==
  /\ arrived < MaxFrames
  /\ arrived' = arrived + 1
  /\ rx' = m
  /\ fresh' = TRUE
  /\ UNCHANGED <<pc, lights, counter, packet, dog, slack>>

\* The watchdog resets the CPU. The strip keeps its colours. The radio is set
\* up and configured again, which may drop a frame that is yet unseen. The
\* watchdog stays on, with its shortest time-out, as long as WDRF is set;
\* main() does not clear it, what runs before may.
WatchdogReset ==
  /\ wdt = 0
  /\ pc' = "boot"
  /\ i' = 0
  /\ pixels' = Dark
  /\ t3' = FALSE
  /\ ocf' = FALSE
  /\ lo' = 0
  /\ hi' = 0
  /\ quiet' = 0
  /\ slack' = 0
  /\ wdt' = IF BootClears THEN Off ELSE WdtReset
  /\ wdrf' = ~BootClears
  /\ fresh' \in {fresh, FALSE}
  /\ UNCHANGED <<strip, rx, arrived, packet>>

-----------------------------------------------------------------------------
(***************************************************************************)
(* The main program.                                                       *)
(***************************************************************************)

\* A step of main: interrupts are taken first.
Step(from, to) ==
  /\ pc = from
  /\ ~ocf
  /\ wdt # 0
  /\ pc' = to
  /\ slack' = 0

\* setPixelColorRGB ignores an index beyond the strip.
Set(p, n, c) == IF n \in Pixels THEN [p EXCEPT ![n] = c] ELSE p

\* One turn of the running light: pixel i off, the next one red, show().
RunningLight ==
  /\ Step("boot", "boot")
  /\ i < NUMPIXELS
  /\ slack = ShowTicks
  /\ pixels' = Set(Set(pixels, i, Black), i + 1, Red)
  /\ strip' = pixels'
  /\ i' = i + 1
  /\ UNCHANGED <<counter, radio, packet, dog>>

\* Mutant: the running light ends one turn early.
BootEarly ==
  /\ Step("boot", "poll")
  /\ i = NUMPIXELS - 1
  /\ t3' = TRUE
  /\ UNCHANGED <<lights, ocf, lo, hi, quiet, radio, packet, dog>>

init_millis ==
  /\ Step("boot", "poll")
  /\ i = NUMPIXELS
  /\ t3' = TRUE
  /\ UNCHANGED <<lights, ocf, lo, hi, quiet, radio, packet, dog>>

\* newPacketAvailable() tells of new data since its last call.
newPacketAvailable ==
  /\ Step("poll", IF fresh THEN "arm" ELSE "check")
  /\ fresh' = FALSE
  /\ UNCHANGED <<lights, counter, rx, arrived, packet, dog>>

\* Mutant: the watchdog is not enabled.
ArmNothing ==
  /\ Step("arm", "size")
  /\ UNCHANGED <<lights, counter, radio, packet, dog>>

\* wdt_enable().
Arm ==
  /\ Step("arm", "size")
  /\ wdt' = WDTO
  /\ UNCHANGED <<lights, counter, radio, packet, wdrf>>

\* The size of the packet that is in the radio now.
getReceivedPacketSize ==
  /\ Step("size", "fetch")
  /\ sized' = arrived
  /\ UNCHANGED <<lights, counter, radio, frame, dog>>

\* Mutant: what has been fetched counts as seen.
FetchAndForget ==
  /\ Step("fetch", "parse")
  /\ IF arrived = sized THEN frame' = rx ELSE frame' \in Messages
  /\ fresh' = FALSE
  /\ UNCHANGED <<lights, counter, rx, arrived, sized, dog>>

\* A frame that arrives after the size was read is cut at the size of the
\* other, or mixed with it: what main gets may mean anything.
fetchPacketBlocking ==
  /\ Step("fetch", "parse")
  /\ IF arrived = sized THEN frame' = rx ELSE frame' \in Messages
  /\ UNCHANGED <<lights, counter, radio, sized, dog>>

FetchHangs ==
  /\ MayHang
  /\ Step("fetch", "hung")
  /\ UNCHANGED <<lights, counter, radio, packet, dog>>

\* Mutant: wdt_reset() alone, the watchdog stays enabled.
ParseWatched ==
  /\ Step("parse", "apply")
  /\ wdt' = WDTO
  /\ UNCHANGED <<lights, counter, radio, packet, wdrf>>

\* The payload is found, and wdt_disable() called, which has no effect on a
\* watchdog that WDRF keeps on.
Parse ==
  /\ Step("parse", "apply")
  /\ wdt' = IF wdrf THEN WdtReset ELSE Off
  /\ UNCHANGED <<lights, counter, radio, packet, wdrf>>

setMessageToLED ==
  /\ Step("apply", "start")
  /\ pixels' = [n \in Pixels |-> IF n \in DOMAIN frame THEN frame[n] ELSE pixels[n]]
  /\ UNCHANGED <<i, strip, counter, radio, packet, dog>>

\* Mutant: the timer is not restarted.
StartNothing ==
  /\ Step("start", "clearLo")
  /\ UNCHANGED <<lights, counter, radio, packet, dog>>

\* TCCR3B |= ..., then timer2_millis = 0, from its low byte up.
StartTimer ==
  /\ Step("start", "clearLo")
  /\ t3' = TRUE
  /\ UNCHANGED <<lights, ocf, lo, hi, quiet, radio, packet, dog>>

ClearLo ==
  /\ Step("clearLo", "clearHi")
  /\ lo' = 0
  /\ quiet' = 0
  /\ UNCHANGED <<lights, t3, ocf, hi, radio, packet, dog>>

\* Mutant: the high bytes are forgotten.
KeepHi ==
  /\ Step("clearHi", "poll")
  /\ UNCHANGED <<lights, counter, radio, packet, dog>>

ClearHi ==
  /\ Step("clearHi", "poll")
  /\ hi' = 0
  /\ UNCHANGED <<lights, t3, ocf, lo, quiet, radio, packet, dog>>

\* millis() reads the four bytes with the interrupts off.
millis == lo + hi * BYTE

showPixels_ms ==
  /\ Step("check", IF millis > QUIET THEN "stop" ELSE "poll")
  /\ UNCHANGED <<lights, counter, radio, packet, dog>>

\* Mutant: the timer goes on.
StopNothing ==
  /\ Step("stop", "show")
  /\ UNCHANGED <<lights, counter, radio, packet, dog>>

\* TCCR3B = 0. A match in the cycle of the store is still pending after it,
\* and its interrupt is taken before show() begins.
StopTimer ==
  /\ Step("stop", "show")
  /\ t3' = FALSE
  /\ ocf' \in BOOLEAN
  /\ UNCHANGED <<lights, lo, hi, quiet, radio, packet, dog>>

\* show(): the latch time is waited for, then the data goes out.
StartData ==
  /\ Step("show", "data")
  /\ UNCHANGED <<lights, counter, radio, packet, dog>>

EndData ==
  /\ Step("data", "poll")
  /\ slack = ShowTicks
  /\ strip' = pixels
  /\ UNCHANGED <<i, pixels, counter, radio, packet, dog>>

-----------------------------------------------------------------------------
Init ==
  /\ pc = "boot"
  /\ i = 0
  /\ pixels = Dark
  /\ strip = Dark
  /\ t3 = FALSE
  /\ ocf = FALSE
  /\ lo = 0
  /\ hi = 0
  /\ rx \in Messages
  /\ fresh = FALSE
  /\ arrived = 0
  /\ sized = 0
  /\ frame = rx
  /\ wdt = Off
  /\ wdrf = FALSE
  /\ slack = 0
  /\ quiet = 0

Boot == RunningLight \/ init_millis

Packet ==
  \/ Arm
  \/ getReceivedPacketSize
  \/ fetchPacketBlocking
  \/ Parse
  \/ setMessageToLED
  \/ StartTimer
  \/ ClearLo
  \/ ClearHi

Refresh == showPixels_ms \/ StopTimer \/ StartData \/ EndData

main == Boot \/ newPacketAvailable \/ Packet \/ Refresh

Next ==
  \/ Tick
  \/ TIMER3_COMPA_vect
  \/ \E m \in Messages : Receive(m)
  \/ FetchHangs
  \/ WatchdogReset
  \/ main

Spec == Init /\ [][Next]_vars

\* The CPU and its clock do not stop; frames may cease to arrive.
FairSpec ==
  /\ Spec
  /\ WF_vars(Tick)
  /\ WF_vars(TIMER3_COMPA_vect)
  /\ WF_vars(WatchdogReset)
  /\ WF_vars(main)

-----------------------------------------------------------------------------
\* What main is doing for the lamp at a place, see module Lamp.
Mode(place) ==
  CASE place = "boot"                            -> "boot"
    [] place \in {"arm", "size", "fetch", "hung"} -> "due"
    [] place \in {"parse", "apply"}              -> "taken"
    [] OTHER                                     -> "idle"

Abstract == INSTANCE Lamp WITH
  mode <- Mode(pc), inbox <- rx, unseen <- fresh, taken <- frame, buffer <- pixels

\* The firmware does what the lamp promises: whole frames in order, one at a
\* time, none shown half way, and a torn one only if a newer one is yet to
\* come; a boot leaves the strip dark, whatever a reset left on it.
ImplementsLamp == Abstract!Spec

\* And it does not stop doing so: a frame that is noticed is read, or its
\* fetch hangs and the watchdog brings the lamp back to its loop through a
\* complete boot; what a frame changes is shown, unless frames keep coming.
LampGoesOn == Abstract!Fairness

-----------------------------------------------------------------------------
Places ==
  {"boot", "poll", "check", "stop", "show", "data",
   "arm", "size", "fetch", "hung", "parse", "apply", "start", "clearLo", "clearHi"}

\* Every variable has its type.
TypeOK ==
  /\ pc \in Places
  /\ i \in 0 .. NUMPIXELS
  /\ pixels \in [Pixels -> Colours]
  /\ strip \in [Pixels -> Colours]
  /\ t3 \in BOOLEAN /\ ocf \in BOOLEAN
  /\ lo \in 0 .. BYTE - 1 /\ hi \in 0 .. BYTE - 1
  /\ rx \in Messages /\ frame \in Messages
  /\ fresh \in BOOLEAN /\ arrived \in 0 .. MaxFrames
  /\ sized \in 0 .. MaxFrames
  /\ wdt \in {Off} \cup Nat /\ wdrf \in BOOLEAN
  /\ slack \in 0 .. Budget(pc)
  /\ quiet \in 0 .. QUIET + 1

\* The running light lights one pixel at a time and leaves the strip dark:
\* its last turn puts out the last pixel, and the next one does not exist.
RunningLightAlone ==
  pc = "boot" => \A n \in Pixels : pixels[n] # Black => n = i /\ i > 0

\* The strip is refreshed only after more than QUIET milliseconds without a
\* message, although the interrupt may hit the clear of the counter half way.
RefreshOnlyWhenQuiet == [][StartData => quiet > QUIET]_vars

\* No picture is forgotten: whenever main has nothing else to do, the strip
\* shows what the buffer holds, or the milliseconds to its refresh are being
\* counted. This is so after a boot, a packet and a refresh, each of which
\* turns the timer on or off.
ShownOrCounting == pc \in {"poll", "check"} => t3 \/ strip = pixels

\* The millisecond interrupt never delays the bits of a frame: showPixels_ms
\* stops its timer first.
NoMillisInData == [][pc = "data" => ~TIMER3_COMPA_vect]_vars

\* The watchdog resets a CPU whose fetch hangs, and no other, unless it has
\* reset it before.
ResetOnlyWhenHung == [][WatchdogReset => pc = "hung" \/ wdrf]_vars

\* When frames cease to arrive, the strip comes to show the last one for
\* good, and whatever the buffer holds besides, unless a boot ends with no
\* frame to read: a reset loses the one that was due, and may lose a newer one.
LastFrameShown ==
  [](pc = "boot" /\ i = NUMPIXELS => fresh \/ arrived = 0) =>
    <>[](strip = pixels /\ (arrived > 0 => \A n \in DOMAIN rx : strip[n] = rx[n]))

\* The running light "to visualize boot up" comes to its end: a CPU that
\* boots reaches the main loop.
BootCompletes == pc = "boot" ~> pc = "poll"
=============================================================================
