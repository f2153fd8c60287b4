# A verification of RGBIOT

RGBIOT is the firmware of a lamp: an ATmega32U4 with an 802.15.4 radio that
receives messages with the colours of single pixels and shows them on a strip of
400 WS2812 LEDs. This directory holds TLA+ modules of the firmware, the TLC
configurations that check them on small instances, and proofs of the most
important properties for all values of the constants. Paths below are relative
to the root of the repository. Each definition translates the source lines that
`PROJECT.json` names under `map`.

    tlc -workers 2 -config MCDisplay.cfg MCDisplay  # check a run
    tlapm TimerProofs.tla                           # check the proofs of a module

## The system

The program is one main loop and two interrupt handlers that share multi-byte
counters with it; a program with the debugging output over USB has one more
handler, the library's, that calls back into it. Everything is in real time,
on an 8-bit CPU with 16-bit `int`, no atomic access wider than a byte, and a
`malloc` that may fail.

| Component | State | Operations | Hard behaviour | What makes it correct |
|---|---|---|---|---|
| NeoPixel driver (`src/neo_pixel.c`, `include/neo_pixel.h`) | an `Adafruit_NeoPixel`: buffer, `numLEDs`, `numBytes`, offsets, brightness, pin, port, mask; the registers DDRF and PORTF | create, free, `begin`, `updateLength`, `updateType`, `setPin`, `setPixelColor*`, `setBrightness`, `clear`, `show`, getters | calls in any order; failed allocations; 8- and 16-bit arithmetic; a buffer that is scaled in place | buffer, counts and layout agree; no product overflows; the current pin alone is driven, and is low between frames |
| Output of a frame (`show`, `canShow`) | registers of the assembly loop | wait for the latch time, send the buffer | two levels prepared in turn, loads one byte ahead | every bit once and in order; latch time kept |
| Timer 1 (`src/Timer.c`) | TCNT1, `overflow_count` | `setup_timer`, `reset_timer`, `micros`, overflow interrupt | the interrupt between two byte accesses of main; wrap-around at 2^32 | `micros` is never ahead of time; the busy wait of `show` ends |
| Millisecond counter (`src/millis.c`) | timer 3, `timer2_millis` | `init_millis`, `millis`, compare interrupt | main clears the counter byte by byte with the interrupt on | refresh only after a quiet time |
| Main program (`src/main.c`) | place in the loop, pixels | running light, poll, fetch, apply, restart timer, refresh, watchdog | frames at any time; a fetch that blocks; resets | the last frame gets to the strip; the watchdog fires only when it must |
| Message adapter (`src/messageAdapter.c`) | position in the payload | `setMessageToLED` | payloads of odd sizes | the last entry for a pixel wins |
| Pin tables (`src/PinPortMapping.c`, `include/PinPortMapping.h`) | constants | look-ups by `setPin` | tables without PORTF, which is the port of the output | any pin works |
| Radio and MAC (`CommunicationModule`) | only headers in the repository | `newPacketAvailable`, `getReceivedPacketSize`, `fetchPacketBlocking` | one frame is held; fetch may block | not in the repository |
| Hardware setup (`src/Setup`) | - | straight-line configuration | - | - |
| USB serial (`src/LUFA-Setup`) | the CDC interface and its line encoding (LUFA's), the registers of USART1, WDRF | `setUpUsbSerial`, `usbWriteString`, `debug`, `debugSized`, `periodicUsbTask`, the callbacks for descriptors, configuration, control requests and line encoding | requests are served in an interrupt, between any two steps; the host may be slow, stop reading, or reset the bus; an interrupt without a handler | the port opens; bytes arrive in order; calls end; the USART has the settings asked for |

`main()` calls the driver (which calls `Timer.c` in `begin` and `show`), polls
the radio, hands its payloads to the message adapter, which calls
`setPixelColorRGB`. The interrupt of timer 1 shares `overflow_count` with
`micros`/`reset_timer`; the interrupt of timer 3 shares `timer2_millis` with
`millis` and the clear in `main()`. The watchdog resets all of it but the strip.
The USB serial code stands beside this: `main.c` does not call it, a
program that is being debugged may.

The list of hazards, each at its line with the properties that cover it, is in
`PROJECT.json`.

## The modules

**Timer** models `Timer.c` with the latch time of `show()`. A step of the main
program is one access to a shared byte: `LoadTcnt`, `LoadLo`, `LoadHi` are the
loads of `micros()` (in either order, as C allows), `Poll` the comparison of
`canShow()`, `ClearLo`, `ClearHi`, `ZeroTcnt` the stores of `reset_timer()`.
`Tick` is one count of TCNT1; it raises `tov` on overflow, and
`TIMER1_OVF_vect` is the handler, taken before the next access of main. `lo` and
`hi` are the two low bytes of `overflow_count`; the higher two are lost in the
product with 65536 modulo 2^32. `since` and `raced` are history variables.

**NeoPixel** models the driver object and the pin tables. A call is one step,
since no handler calls the driver. A packed colour is a record of four bytes, a
pixel type a record of its bit fields. `Allocate` (in create, `updateLength`,
`updateType`) succeeds or fails. `Scale`, `Rescaled`, `Dimmed` and `Undimmed` are
the integer expressions of the code in the widths of the AVR. Of `show()` it has
what stays on PORTF: a snapshot of the port in the table, with the pin low.

**Canvas** is the abstract specification that NeoPixel implements on strips whose
bytes can be counted: a picture with a few channels a pixel, and the level it is
dimmed to. Setting a pixel changes one colour, in one step; a new length or new
channels leave the picture black or, without memory, empty; a new order of the
colours swaps channels in all pixels alike; dimming bounds every channel and
keeps darkness and the order of the channels. The refinement mapping `Picture`
reads the buffer with the offsets in force, `Stored` is the channels, and
`getBrightness` the level; pins, output and failed bounds checks are stutters.

**PixelStream** models the assembly loop of `show()`, one bit a step: the
registers `n1` and `n2` used in turn, the early load of the next byte, the 16-bit
loop counter. A byte is the function of its bits; a pulse is the bit it stands
for, its timing in CPU cycles is abstracted.

**Display** extends Timer with what `main.c` does to it: the running light, which
calls `show()` again and again without a pause, the main loop, which calls it
again and again once the quiet time is over, and packets. It adds the strip,
which takes the first frame after a pause of the latch time, ignores what
follows without one, and shows what it took at the next pause. `spent` counts
the ticks of the output and of a turn of the light, `calm` those since the last
packet. It answers what the race in `reset_timer()` costs this program.

**Screen** is the abstract specification that Display implements: pictures are drawn
and sent one after the other, and each is shown before a new one is sent. It has no
clock and loses no frame. Under the mapping, `busy` is the output of a frame, and
what is sent is `held`, the picture the strip got last.

**MessageAdapter** models `setMessageToLED()`, one entry a step. Colour bytes
beyond the payload may be anything. `Effect` is a payload read as a partial function
from pixels to colours, which is the form messages have in Firmware and Lamp.

**Firmware** models `main()`, `showPixels_ms()`, `millis.c`, the watchdog and the
radio as `main()` uses it. `pc` is the place in the loop; each statement with an
effect on shared state is an action, the calls for the size of a packet and
for the packet separate ones: a frame that comes in between is torn, and `frame`
may be anything. A tick is a millisecond; `Budget` says how
many may pass in a step of main. The effect of a message is a partial function
from pixels to colours, which is what MessageAdapter shows of complete
payloads; the stored colours are the ones set, as `Set` of Canvas says at full
brightness, which is the one `main()` uses. `quiet` is a history variable. `Receive`, `FetchHangs` and
`WatchdogReset` model hardware and the radio, whose code is not in the repository: the radio replaces a frame that was
not read, a fetch may never return, and WDRF keeps the watchdog on after a
reset as the data sheet says. `main()` configures the radio on every boot; whether
that drops a frame that waits there unseen is left open, so `fresh` may be lost in
a `WatchdogReset`, but no frame becomes new by it. A match of timer 3 in the cycle of the store
that stops it (`StopTimer`) is still pending after it.

**Lamp** is the abstract specification that Firmware implements: no clocks,
counters or interrupts, but modes (`boot`, `idle`, `due`, `taken`), a buffer and a
strip. A boot leaves the strip dark whatever it showed before; frames are noticed,
taken and put into the buffer whole, one at a time; only the buffer is shown, and
only between two frames; a torn frame may come out as anything, but then a newer
one is still unseen; a reset may lose the frames that have not been put into the buffer. The refinement mapping is `Mode(pc)` for the mode, and
the identity on the other variables (`Abstract` in Firmware).

**UsbSerial** models `Helpers.c` and `Descriptors.c` for a program that calls
`setUpUsbSerial()` and then writes and calls `periodicUsbTask()`. Each access of
the program to shared state is a step; `LUFAConfig.h` selects
`INTERRUPT_CONTROL_ENDPOINT`, so requests of the host are served between any two
of them, and so are the seven stores of
`EVENT_CDC_Device_LineEncodingChanged` (`isr`), each a step. Bytes are numbered;
`bank` is the one bank of the data IN endpoint and `sending` that it is the host's.
A descriptor is the set of descriptors it names, and what it says of endpoints
and interfaces. The class driver of LUFA, the host and the receiver of the USART
are external, as these files use them.

**Pipe** is the abstract specification that UsbSerial implements: a pipe to the
host that holds one bank of bytes. A byte may be dropped at its entrance, if
nobody opened the other end or the host is slow; what is inside is lost only with
the connection, and is read whole and in order. The mapping is the identity on
`bank`, `sending` and the numbers of the bytes; the port is open while the
device is configured and a line encoding is set (`Stream` in UsbSerial).

`MC*` modules give the constants that a cfg cannot express, `*Proofs` modules hold
the theorems.

## What is checked

Actions whose comment begins with "Mutant" are not part of a specification: each
is a plausible mistake in the code, and the property it is listed with in
`PROJECT.json` fails when it replaces the original.

| Run | Shows |
|---|---|
| `display` | `LatchHeldUnlessRaced`: torn loads of `micros()` never start a frame early; `ResetLeavesAtMostOne`: an interrupt inside `reset_timer()` leaves one overflow at most; `HoldOffShort`: a poll fails only in the first ticks after a reset or an overflow; `HoldOffEnds`: the busy wait ends, across wrap-arounds; `LightNeverRaced`: in the running light timer 1 never overflows; `LastPictureShown`: the last picture gets to the strip; `ImplementsScreen`: to `main()` it is all a screen that shows each picture it is sent, because a frame that the race sends too early is one the strip already holds |
| `timer_latch` | violation: an interrupt inside `reset_timer()` costs the next frame its latch time |
| `neopixel` | counts and buffer agree (`BufferFits`, `StoresInBounds`), products stay within 16 bits (`NoScaleOverflow`), one pin is driven, and rests low (`OnlyPinDriven`, `LineLow`), a colour that is set is what `getPixelColor` reads, in every layout (`SetReadsBack`), and the driver is a picture whose calls change the pixels they are about and no others, with a new layout dark and no channel beyond the brightness (`ImplementsCanvas`) |
| `neopixel_readback` | violation: `getPixelColor` of a dimmed strip is not an approximation for bytes from 128 |
| `neopixel_longstrip` | violation: `numBytes` wraps around for long strips |
| `neopixel_anypin` | violation: pins above 7 do not work |
| `firmware` | whenever main polls, the strip shows the buffer or the timer of the refresh runs (`ShownOrCounting`), refreshes need a quiet time (`RefreshOnlyWhenQuiet`) and are not interrupted by the millisecond handler (`NoMillisInData`), the watchdog resets only a CPU whose fetch hangs (`ResetOnlyWhenHung`), the last frame gets to the strip, unless a reset loses it (`LastFrameShown`), and the firmware is a lamp, with one pixel on in the running light (`ImplementsLamp`), that does not stop, a hanging fetch included (`LampGoesOn`), if something before `main()` clears WDRF |
| `firmware_boot` | violation: otherwise the boot after a watchdog reset never ends (`BootCompletes`) |
| `message` | the last entry for a pixel decides (`LastEntryWins`); complete payloads overlay the pixels with one partial function (`WholeEntriesDetermine`) |
| `stream` | all bits in order, and no others (`BitsInOrder`, `WholeFrame`); one byte is read beyond the buffer (`ReadsOneBeyond`) |
| `usb` | interrupts are enabled only with the watchdog off (`WatchdogOff`); the USART is off while it changes (`OffWhileChanged`) and then has the settings asked for (`UsartAsRequested`); all bytes that got into the bank arrive (`WrittenArrives`); calls end (`CallsEnd`); the host can open the port (`PortOpens`); it is all a pipe to the host, with bytes in order and none twice (`ImplementsPipe`) |
| `usb_stray` | violation: a byte at RXD1 stops the debugging output for good (`DebuggingWorks`) |

### Bounds

- `display`: a byte has 3 values, so the
  count wraps around after 9 overflows of TCNT1; it starts two overflows before
  that, as 65530 starts six before. Latch time, output, turn and ten accesses
  together take less than an overflow (17 of 18 ticks), as on the AVR
  (some 25000 of 65536), and the quiet time is longer than one (19), as it is
  there (400000). Two turns of the light, two pictures and two packets: a picture
  that is held, a new one, and one that overtakes it. The main loop may stay idle for any
  number of overflows between two refreshes. `timer_latch` has Timer alone, with calls of
  `show()` at any time, a latch time of 6 of 9 ticks and gaps of 2.
- `neopixel`: strips of 0, 1 and 2 pixels (an index of 2 or an index kept from a
  longer strip is out of range), an RGB type at each speed and an RGBW type, a pin
  of PORTF that works and one of the tables that does not, brightness 0 and
  1 (the darkest), 128 (half) and 255 (full): the extremes, and divisors of 65536,
  where a product is nearest to its limit; bytes 0 and 255, from which
  dimming makes others. The arithmetic has its true widths. `StrayBits` is the bit of the radio's slave
  select on PORTB, which is also the bit of one of the pins.
- `neopixel_longstrip`: 21846 RGB pixels are the shortest strip that wraps around.
- `firmware`, `firmware_boot`: 3 pixels, messages that set one, two or no pixel, 3 frames (2 in
  `firmware_boot`), a quiet
  time of 2 ticks and a byte of 3 values, so that the carry into the high byte
  occurs in the quiet time, as at 256 in the real counter; the time-out of the
  watchdog is longer than the longest fetch, and after a reset shorter than the
  running light, in the order of 120 ms, some ms, 16 ms and 400 frames.
  `MaxFrames` is the one artificial bound: frames replace each other, so that
  three cover one in the radio, one in main's hands, and one on the strip.
- `message`: sizes up to two entries and an incomplete third, bytes of three
  values, strips of one or two pixels: entries for no pixel, for one twice, for
  one beyond the strip.
- `stream`: up to 3 bytes out of 3, with a loop counter of 3 bits. An empty
  buffer makes the counter wrap around.
- `usb`: banks of two bytes and texts of none, one and three, five bytes in all: a
  text that fills the bank, one that does not, one that leaves it exactly full at
  the flush, and bytes left from the text before. Two encodings that differ in
  all settings. Two resets of the bus or changes of the encoding
  (`MaxRequests`), which fall between any two steps, also of each other.
  `usb_stray`: one encoding and one byte are enough.

### Fairness

The CPU executes and its timers count: weak fairness of ticks, of the interrupt
handlers, of the watchdog and of the steps of main. In Display the steps of main
have strong fairness (`FairDisplay`), since each overflow takes the CPU from
them for a moment, and gives it back. Nothing is assumed of the arrival of
frames; they cease in `LastFrameShown` since a frame in each quiet time postpones
the refresh forever, by design. `Next` of Firmware lets time pass only as far as
main's progress allows (`Budget`), so that no step of main can be starved by ticks.

`LampGoesOn` is the fairness of Lamp, and is what Firmware's is shown to give.

In UsbSerial the CPU executes, and the program calls `periodicUsbTask()` again and
again, as `Helpers.h:20` demands; it need not write. The host owes nothing: what
needs a host that enumerates and reads has `HostListens` as a premise in the
property itself.

## What is proved

All theorems hold for every value of the constants under the modules' named
assumptions.

- **TimerProofs.** `TypeCorrect`. `LatchKept` (`LatchHeldUnlessRaced`): as long as
  the latch time has not elapsed and the reset was undisturbed, the count is 0,
  no overflow is pending and TCNT1 is at most the time elapsed, and so is
  what has been loaded (`LatchInv`); a poll that passes contradicts that. It needs
  the latch time to be below one overflow. `ResetLeavesLittle`
  (`ResetLeavesAtMostOne`): `ResetInv` bounds TCNT1 by the ticks since the
  interrupt, and two gaps cannot hold a second one. `HoldOffIsShort`
  (`HoldOffShort`): whatever the overflow count is, a poll fails only if TCNT1 was
  below the latch time when it was loaded (`PollFails`), and it has gone on by three
  accesses at most since (`HoldOffInv`), so that torn loads and wrap-arounds cannot
  prolong the wait of `show()`; that it ends needs fairness and is `HoldOffEnds`.
- **DisplayProofs.** `DisplayIsTimer`: the composition implements Timer, so
  Timer's theorems hold of it. `DisplayTypeCorrect`. `LightIsSafe` (`LightNeverRaced`):
  from reset to reset a turn of the light takes less than an overflow
  (`LightInv` bounds TCNT1 by the ticks of each place, the last few accesses by
  `MaxSlack` each), which needs the assumption that latch time, turn, output and
  ten accesses fit in `TOP`. `NothingLost` (`LostFrameIsHeld`): when a frame starts less than
  a latch time after the last one, no packet has come since that was sent
  (`HeldInv`), because a packet restarts the quiet time, which is longer.
  `DisplayIsScreen` (`ImplementsScreen`): every step of the timer, the strip and the
  program is one of Screen or a stutter; the step that starts a frame (`PollIsSend`)
  needs `HeldInv` when it comes too early, `LightInv` in the running light, and
  `ShownInv`: once a latch time has passed, the strip shows what it was sent.
- **NeoPixelProofs.** `TypeCorrect`, `StaysWithin`, `ScalesExactly` rest on one
  inductive invariant, `BrightInv`: types, and every byte at most the brightness
  in force. The types alone are not inductive, since the 16-bit product in
  `setBrightness` fits only for bytes within the old brightness;
  `RescaledFits` shows that it then fits and that the result is within the
  new one, for all 65536 pairs of levels. `DrivesOnePin` is inductive by itself;
  `LineRests` (`LineLow`) needs that the mask of a pin of PORTF is its bit,
  whatever port the table names. `LayoutClears` adds that there are no bytes
  without a buffer (`NoBytes`). `CountsTheBytes` (`BufferFits`) and
  `NeverOverruns` (`StoresInBounds`) assume `ShortStrips` - fewer than 16384
  pixels - the limit of which the run `neopixel_longstrip` shows the other side;
  their invariant is `FitsInv`. With it, `ReadsWhatIsSet` (`SetReadsBack`): no two
  channels of any two pixels share a byte (`OffsetsDiffer`, `PixelsApart`), so what
  `Store` writes is what is read (`StoreReads`; its index does not wrap around, `FirstIs`), each byte at its place
  (`ReadsAtPlaces`). `DriverIsCanvas` (`ImplementsCanvas`), under the same assumption:
  with these lemmas a stored colour is one pixel of the picture (`StoresAsCanvas`,
  at every brightness: `DimsAlike`); types of the same size differ by a swap of the
  channels, since their offsets cover the same bytes (`TypesSwap`); rescaling keeps
  the order of the bytes because it does not overflow (`RescalesInOrder`).
- **FirmwareProofs.** `TypeCorrect`, `LightAlone`, `QuietFirst`
  (`RefreshOnlyWhenQuiet`, by `QuietInv`: the counter is never ahead of the
  interrupts since the clear began, and in the middle of the clear this holds for
  its low byte), `DataUndisturbed` (`NoMillisInData`, by `StoppedInv`: the
  timer is off from the stop on, and a match left over from it is served before the data),
  `NoPictureForgotten` (`ShownOrCounting`, by `PictureInv`, which holds also while a
  packet is read: a refresh, which stops timer 3, leaves strip and buffer alike, and
  a message that tells them apart is followed by the restart),
  `ResetJustified` (`ResetOnlyWhenHung`, by `WatchInv`, assuming that a fetch
  which ends takes less than the time-out with two ticks to spare, for the
  steps around it).
- **LampProofs.** `FirmwareIsLamp` (`ImplementsLamp`): the initial state maps to an
  initial state, and each action to one of Lamp or a stutter: ticks, handlers and
  the bookkeeping of the loop stutter, the rest is Lamp's action of the mode. It
  needs `BootShown` (during the boot the strip shows the buffer after the first
  turn, and only pixel `i` is lit, so that both are dark at the end) and
  `SizedInv` (no frame has arrived since the size was read, unless one is unseen).
- **MessageAdapterProofs.** `TypeCorrect`, `AppliesInOrder` (`LastEntryWins`, with the fact that
  the position is a multiple of four) and `WholeEntriesAreEffects`
  (`WholeEntriesDetermine`), for every payload: `LastFor` is the entry that decides,
  and without one the pixel is as before, so that the call is the overlay that
  Firmware and Lamp take it for.
- **PixelStreamProofs.** `TypeCorrect`, `SendsInOrder`, `SendsAll`,
  `ReadsLittleBeyond`, by `InStep`: pointer, loop counter, number of pulses and the
  register whose turn it is determine each other.
- **UsbSerialProofs.** Lemmas say which variables each group of actions leaves
  alone (`ChipFrame`, `UsartFrame`, `HostFrame`, `TextFrame`), so that each invariant
  is shown for the few actions that touch its variables. `NoWatchdog`
  (`WatchdogOff`), by `WatchInv`: beyond the first two steps WDRF is clear, also
  when the program starts over. `TypeCorrect`. `OffFirst`
  (`OffWhileChanged`), by `OffInv`: between the first and the last store the
  control register is 0. `UsartRight` (`UsartAsRequested`), by `DoneInv`: what
  each store has left so far. `InOrderAlways` (`InOrder`), by `BankInv` and
  `OrderInv`: the numbers in the bank grow, and lie between what the host has read
  and what is next. `UsbIsPipe` (`ImplementsPipe`): each step is one of Pipe or a
  stutter (`StepAsPipe`), where `PortStep` has the steps that move no byte, and
  `BankInv` gives the room for a byte that had to wait for the host.

Five of these properties are proved but checked by no run of their own, since they
follow from a refinement that a run checks: `LostFrameIsHeld` from `ImplementsScreen`,
`RelayoutClears` and `WithinBrightness` from `ImplementsCanvas`, `RunningLightAlone`
from `ImplementsLamp`, and `InOrder` from `ImplementsPipe`. The proofs of the
refinements rest on them.

Only model-checked: the liveness properties (`HoldOffEnds`, `LastPictureShown`,
`LastFrameShown`, `LampGoesOn`, `WrittenArrives`, `CallsEnd`, `PortOpens`), which
are out of the prover's reach, and the violations.

## Disagreements with what the sources say

Each is a run that expects a violation; `PROJECT.json` quotes the lines.

1. `reset_timer()` is not atomic: an overflow inside it makes the next frame skip
   its latch time (`timer_latch`). The window is a few cycles per frame. For
   `main.c` it is harmless, as Display shows: in the running light it cannot
   happen, and in the main loop it costs a frame that the strip already holds.
   Another program that shows new colours in each frame would lose one.
2. `getPixelColor()` shifts a byte into the sign of an `int` (`neopixel_readback`).
3. `numBytes` wraps around (`neopixel_longstrip`).
4. `show()` and the pin tables disagree on the port (`neopixel_anypin`).
5. WDRF is never cleared (`firmware_boot`), unless the boot loader does.
6. The line encoding handler of the USB serial code enables the receive interrupt of
   USART1, for which there is no handler (`usb_stray`). The properties of `usb`
   have this case as an explicit exception where it matters.

Two more need no run. `show()` relies on disabled interrupts, according to its comment
(`neo_pixel.c:131-133`), but nothing disables them; `showPixels_ms()` stops
timer 3 before a refresh (`NoMillisInData`), and only timer 1 may interrupt it.
And a payload byte addresses pixels 0 to 254, of the 400 of `main.c`.

## What is not modelled

The length of pulses in CPU cycles; the radio and MAC layer behind its headers,
and the configuration of the hardware through it before the loop (straight-line
code whose effects are in a library that is not in the repository); LUFA itself, of
which UsbSerial has what `Helpers.c` relies on; the arithmetic of the baud rate
divisor, a macro of LUFA (`UBRR1` stands for the rate; a rate of 0 would
divide by zero, and rates below some 490 baud exceed the register); what
the USART makes of encodings that it cannot do; tests and build files. Getters
that return a field are left out. `delay_microseconds` only wastes time. The
driver takes `malloc` of the object itself to succeed.

By design, and so without a property: nothing is shown while messages keep
coming within 200 ms of each other.

## How the project grew, and what is left

1. Timer, NeoPixel with the pin tables, PixelStream, MessageAdapter and
   Firmware, their properties and proofs.
2. Lamp, its refinement by Firmware, checked and proved; the composition Display of
   Timer with the running light and the refresh, with its proofs; torn and hanging
   fetches in Firmware; `getPixelColor` in NeoPixel; UsbSerial with its proofs.
3. What the components promise, as abstract specifications: Canvas for the driver,
   Screen for timer, output and strip, Pipe for the USB serial code, each
   checked and proved; the bound of the busy wait; that no picture is forgotten;
   MessageAdapter's result in the form in which Firmware uses it.
4. Left: PixelStream as an implementation of an atomic output of the buffer.
   `BitsInOrder` and `WholeFrame` state what the atomic step relies on, and are
   proved.
