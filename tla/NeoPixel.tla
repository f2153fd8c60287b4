------------------------------- MODULE NeoPixel -------------------------------
(***************************************************************************)
(* The driver object of the LED strip: Adafruit_NeoPixel in neo_pixel.h    *)
(* and the functions of neo_pixel.c on it, with the pin tables of          *)
(* PinPortMapping.c. Of show() it has what is left on the port (its wait   *)
(* is in module Timer, its data in PixelStream). One object lives at a     *)
(* time; only the main program calls the driver, so a call is one step.    *)
(*                                                                         *)
(* Integers have the widths of the AVR build: int has 16 bits there. A     *)
(* packed 32-bit colour is the record of its four bytes, and a pixel type  *)
(* is the record of its bit fields.                                        *)
(***************************************************************************)
EXTENDS Integers

CONSTANTS
  Lengths,   \* strip lengths and pixel indices the application uses
  Types,     \* the pixel types it uses
  Pins,      \* the pins it uses
  Colours,   \* the values of a colour byte it uses
  Brights,   \* the brightness levels it sets
  StrayBits  \* bits set by the radio's driver in PORTB, or by chance in memory

Byte == 0 .. 255
Word == 65536

Channels == {"r", "g", "b", "w"}
Colour   == [Channels -> Colours]

\* The NEO_* constants: three bytes a pixel with the white offset equal to
\* the red one, or four bytes with four distinct offsets.
Offsets ==
  {o \in [Channels -> 0 .. 3] :
     IF o["w"] = o["r"] THEN {o["r"], o["g"], o["b"]} = 0 .. 2
                        ELSE {o["r"], o["g"], o["b"], o["w"]} = 0 .. 3}

NeoTypes == [off : Offsets, khz400 : BOOLEAN]

\* The offsets of NEO_GRB, which createNeoPixelNoParams() sets one by one.
OffsetsGRB ==
  [c \in Channels |-> CASE c = "g" -> 0 [] c = "b" -> 2 [] OTHER -> 1]

ASSUME NeoPixelAssumption ==
  /\ Lengths \subseteq 0 .. Word - 1
  /\ Types \subseteq NeoTypes
  /\ Pins \subseteq 0 .. 19
  /\ Colours \subseteq Byte
  /\ Brights \subseteq Byte
  /\ StrayBits \subseteq 0 .. 7

VARIABLES
  live,                 \* the object is allocated
  ptr,                  \* pixels is not NULL
  pixels,               \* the bytes of the buffer that pixels points to
  numLEDs, numBytes,
  off,                  \* rOffset, gOffset, bOffset, wOffset
  is800KHz,
  brightness,
  pin, begun,
  port, pinMask,        \* the register and the bit of the pin tables
  ddr, portF            \* the bits of PIXELDDRX and PIXELPORT that are 1

buffer == <<ptr, pixels, numLEDs, numBytes>>
format == <<off, is800KHz>>
output == <<pin, begun, port, pinMask, ddr, portF>>
vars   == <<live, buffer, format, brightness, output>>

-----------------------------------------------------------------------------
(***************************************************************************)
(* Arithmetic.                                                             *)
(***************************************************************************)

\* Three bytes a pixel when white shares the offset of red.
BytesPerPixel(o) == IF o["w"] = o["r"] THEN 3 ELSE 4

\* 1 << p, as the bits of an 8-bit register.
Bit(p) == IF p \in 0 .. 7 THEN {p} ELSE {}

\* The pin tables. PORTF is not in them, though it is the port that show()
\* writes to.
digitalPinToPort(p) == CASE p \in 0 .. 7 -> "D" [] p \in 8 .. 13 -> "B" [] OTHER -> "C"

digitalPinToBitMask(p) ==
  CASE p \in 0 .. 7 -> {p} [] p \in 8 .. 13 -> {p - 8} [] OTHER -> {p - 14}

\* The bits that may be read through the pointer port. Nothing sets one in
\* PORTC or PORTD; an object made without a pin has a pointer to anywhere.
Snapshot == IF port \in {"C", "D"} THEN {{}} ELSE SUBSET StrayBits

\* (c * brightness) >> 8 in a 16-bit int, stored in a byte.
Dimmed(c) ==
  IF brightness = 0 THEN c ELSE ((c * brightness) % Word) \div 256

Dec(x) == (x + 255) % 256

\* Mutant: 65536 instead of 65535 for the brightest level.
ScaleTooHigh(br, b) ==
  IF Dec(br) = 0 THEN 0
  ELSE IF b = 255 THEN Word \div Dec(br)
  ELSE (((b + 1) % 256) * 256 - 1) \div Dec(br)

\* The factor setBrightness(b) multiplies the stored bytes by, 8.8 fixed
\* point, when the stored brightness is br.
Scale(br, b) ==
  IF Dec(br) = 0 THEN 0
  ELSE IF b = 255 THEN 65535 \div Dec(br)
  ELSE (((b + 1) % 256) * 256 - 1) \div Dec(br)

\* (c * scale) >> 8: int times uint16_t is a 16-bit product.
Rescaled(c, scale) == ((c * scale) % Word) \div 256

\* Long division of a 32-bit word by a byte, both in base 256, from the most
\* significant digit.
LongDivide(word, d) ==
  LET rem[k \in 0 .. 4] ==
        IF k = 0 THEN 0 ELSE (rem[k - 1] * 256 + word[k]) % d
  IN  [k \in 1 .. 4 |-> (rem[k - 1] * 256 + word[k]) \div d]

\* (uint32_t)(p << 8) / brightness of getPixelColor: p << 8 is a 16-bit int,
\* so the conversion to uint32_t extends its sign.
Undimmed(p, br) ==
  LET sign == IF p >= 128 THEN 255 ELSE 0
  IN  LongDivide(<<sign, sign, p, 0>>, br)

getBrightness == Dec(brightness)

-----------------------------------------------------------------------------
(***************************************************************************)
(* Allocation.                                                             *)
(***************************************************************************)

\* Mutant: the length is set although malloc fails.
AllocateOrNot(n, o) ==
  LET bytes == (n * BytesPerPixel(o)) % Word
  IN  /\ ptr' \in BOOLEAN
      /\ pixels' = [i \in IF ptr' THEN 0 .. bytes - 1 ELSE {} |-> 0]
      /\ numLEDs' = n
      /\ numBytes' = IF ptr' THEN bytes ELSE 0

\* Mutant: the bytes of the old buffer are kept, as realloc does.
Reallocate(n, o) ==
  LET bytes == (n * BytesPerPixel(o)) % Word
  IN  /\ ptr' = TRUE
      /\ pixels' = [i \in 0 .. bytes - 1 |-> IF i \in DOMAIN pixels THEN pixels[i] ELSE 0]
      /\ numLEDs' = n
      /\ numBytes' = bytes

\* updateLength() for the offsets o: n * bytes-per-pixel is a uint16_t, and
\* malloc succeeds or fails. (malloc(0) may return a block, too.)
Allocate(n, o) ==
  LET bytes == (n * BytesPerPixel(o)) % Word
  IN  \/ /\ ptr' = TRUE
         /\ pixels' = [i \in 0 .. bytes - 1 |-> 0]
         /\ numLEDs' = n
         /\ numBytes' = bytes
      \/ /\ ptr' = FALSE
         /\ pixels' = [i \in {} |-> 0]
         /\ numLEDs' = 0
         /\ numBytes' = 0

\* The fields are set one by one; brightness 0 means no scaling.
createNeoPixel(n, p, t) ==
  /\ ~live
  /\ live' = TRUE
  /\ off' = t.off
  /\ is800KHz' = ~t.khz400
  /\ Allocate(n, t.off)
  /\ brightness' = 0
  /\ begun' = FALSE
  /\ pin' = p
  /\ port' = digitalPinToPort(p)
  /\ pinMask' = digitalPinToBitMask(p)
  /\ UNCHANGED <<ddr, portF>>

\* The fields port and pinMask are left as malloc() returns them.
createNeoPixelNoParams ==
  /\ ~live
  /\ live' = TRUE
  /\ off' = OffsetsGRB
  /\ is800KHz' = TRUE
  /\ ptr' = FALSE
  /\ pixels' = [i \in {} |-> 0]
  /\ numLEDs' = 0
  /\ numBytes' = 0
  /\ brightness' = 0
  /\ begun' = FALSE
  /\ pin' = -1
  /\ port' = "unset"
  /\ pinMask' \in SUBSET StrayBits
  /\ UNCHANGED <<ddr, portF>>

freeNeoPixel ==
  /\ live
  /\ live' = FALSE
  /\ ddr' = IF pin >= 0 THEN ddr \ Bit(pin) ELSE ddr
  /\ UNCHANGED <<buffer, format, brightness, pin, begun, port, pinMask, portF>>

updateLength(n) ==
  /\ live
  /\ Allocate(n, off)
  /\ UNCHANGED <<live, format, brightness, output>>

\* Mutant: the buffer is never reallocated.
updateTypeOnly(t) ==
  /\ live
  /\ off' = t.off
  /\ is800KHz' = ~t.khz400
  /\ UNCHANGED <<live, buffer, brightness, output>>

\* The buffer is reallocated when the bytes per pixel change.
updateType(t) ==
  /\ live
  /\ off' = t.off
  /\ is800KHz' = ~t.khz400
  /\ IF ptr /\ BytesPerPixel(t.off) # BytesPerPixel(off)
     THEN Allocate(numLEDs, t.off)
     ELSE UNCHANGED buffer
  /\ UNCHANGED <<live, brightness, output>>

-----------------------------------------------------------------------------
(***************************************************************************)
(* The output pin.                                                         *)
(***************************************************************************)

begin ==
  /\ live
  /\ begun' = TRUE
  /\ ddr' = IF pin >= 0 THEN ddr \cup Bit(pin) ELSE ddr
  /\ portF' = IF pin >= 0 THEN portF \ Bit(pin) ELSE portF
  /\ UNCHANGED <<live, buffer, format, brightness, pin, port, pinMask>>

\* Mutant: the old pin stays an output.
addPin(p) ==
  /\ live
  /\ pin' = p
  /\ port' = digitalPinToPort(p)
  /\ pinMask' = digitalPinToBitMask(p)
  /\ ddr' = IF begun THEN ddr \cup Bit(p) ELSE ddr
  /\ portF' = IF begun THEN portF \ Bit(p) ELSE portF
  /\ UNCHANGED <<live, buffer, format, brightness, begun>>

\* Mutant: the new pin keeps its level.
setPinOnly(p) ==
  /\ live
  /\ pin' = p
  /\ port' = digitalPinToPort(p)
  /\ pinMask' = digitalPinToBitMask(p)
  /\ ddr' = IF begun THEN (IF pin >= 0 THEN ddr \ Bit(pin) ELSE ddr) \cup Bit(p) ELSE ddr
  /\ UNCHANGED <<live, buffer, format, brightness, begun, portF>>

setPin(p) ==
  /\ live
  /\ pin' = p
  /\ port' = digitalPinToPort(p)
  /\ pinMask' = digitalPinToBitMask(p)
  /\ ddr' = LET kept == IF begun /\ pin >= 0 THEN ddr \ Bit(pin) ELSE ddr
            IN  IF begun THEN kept \cup Bit(p) ELSE kept
  /\ portF' = IF begun THEN portF \ Bit(p) ELSE portF
  /\ UNCHANGED <<live, buffer, format, brightness, begun>>

\* The data goes out: each pulse writes all of PORTF, and the last level
\* written is the snapshot with the bit of the pin low.
show ==
  /\ live
  /\ ptr
  /\ portF' \in {bits \ pinMask : bits \in Snapshot}
  /\ UNCHANGED <<live, buffer, format, brightness, pin, begun, port, pinMask, ddr>>

-----------------------------------------------------------------------------
(***************************************************************************)
(* Colours.                                                                *)
(***************************************************************************)

\* The index of the first byte of pixel n, a product of 16 bits.
First(n) == (n * BytesPerPixel(off)) % Word

\* Mutant: white is stored last.
StoreWhiteLast(n, c) ==
  [pixels EXCEPT ![First(n) + off["r"]] = Dimmed(c["r"]),
                 ![First(n) + off["g"]] = Dimmed(c["g"]),
                 ![First(n) + off["b"]] = Dimmed(c["b"]),
                 ![First(n) + off["w"]] = Dimmed(c["w"])]

\* Store the scaled colour c in pixel n. On a strip without white, red goes
\* to the same byte after white and replaces it.
Store(n, c) ==
  [pixels EXCEPT ![First(n) + off["w"]] = Dimmed(c["w"]),
                 ![First(n) + off["r"]] = Dimmed(c["r"]),
                 ![First(n) + off["g"]] = Dimmed(c["g"]),
                 ![First(n) + off["b"]] = Dimmed(c["b"])]

SetPixel(n, c) ==
  /\ live
  /\ pixels' = IF n < numLEDs THEN Store(n, c) ELSE pixels
  /\ UNCHANGED <<live, ptr, numLEDs, numBytes, format, brightness, output>>

\* Only red, green and blue are passed: white is 0.
setPixelColorRGB(n, c) == SetPixel(n, [c EXCEPT !["w"] = 0])

setPixelColorRGBW(n, c) == SetPixel(n, c)

\* c is the packed colour, unpacked byte by byte.
setPixelColor32Bit(n, c) == SetPixel(n, c)

\* The channels that a pixel has, and their places in a packed colour, the
\* most significant byte first.
Stored == IF BytesPerPixel(off) = 4 THEN Channels ELSE Channels \ {"w"}

Place(c) == CASE c = "w" -> 1 [] c = "r" -> 2 [] c = "g" -> 3 [] c = "b" -> 4

\* What getPixelColor reads of channel c of pixel n in the buffer bytes, as a
\* word of four bytes.
ReadChannel(bytes, n, c) ==
  LET p == bytes[First(n) + off[c]]
  IN  IF brightness = 0 THEN <<0, 0, 0, p>> ELSE Undimmed(p, brightness)

\* The packed colour is the "or" of those words, each shifted to its place:
\* here, each of its bytes is the set of the bytes that are or-ed.
getPixelColor(bytes, n) ==
  [k \in 1 .. 4 |->
     IF n < numLEDs
     THEN {ReadChannel(bytes, n, c)[4 - Place(c) + k] : c \in {d \in Stored : k <= Place(d)}}
     ELSE {0}]

\* Mutant: the stored brightness does not roll over.
setBrightnessWide(b) ==
  /\ live
  /\ brightness' = b + 1
  /\ UNCHANGED <<live, buffer, format, output>>

setBrightness(b) ==
  /\ live
  /\ LET scale == Scale(brightness, b)
     IN  pixels' = IF (b + 1) % 256 # brightness
                   THEN [i \in DOMAIN pixels |-> Rescaled(pixels[i], scale)]
                   ELSE pixels
  /\ brightness' = (b + 1) % 256
  /\ UNCHANGED <<live, ptr, numLEDs, numBytes, format, output>>

clear ==
  /\ live
  /\ pixels' = [i \in DOMAIN pixels |-> 0]
  /\ UNCHANGED <<live, ptr, numLEDs, numBytes, format, brightness, output>>

-----------------------------------------------------------------------------
Init ==
  /\ live = FALSE
  /\ ptr = FALSE
  /\ pixels = [i \in {} |-> 0]
  /\ numLEDs = 0
  /\ numBytes = 0
  /\ off = OffsetsGRB
  /\ is800KHz = TRUE
  /\ brightness = 0
  /\ pin = -1
  /\ begun = FALSE
  /\ port = "unset"
  /\ pinMask = {}
  /\ ddr = {}
  /\ portF = {}

Next ==
  \/ \E n \in Lengths, p \in Pins, t \in Types : createNeoPixel(n, p, t)
  \/ createNeoPixelNoParams
  \/ freeNeoPixel
  \/ \E n \in Lengths : updateLength(n)
  \/ \E t \in Types : updateType(t)
  \/ begin
  \/ \E p \in Pins : setPin(p)
  \/ show
  \/ \E n \in Lengths, c \in Colour :
       \/ setPixelColorRGB(n, c)
       \/ setPixelColorRGBW(n, c)
       \/ setPixelColor32Bit(n, c)
  \/ \E b \in Brights : setBrightness(b)
  \/ clear

Spec == Init /\ [][Next]_vars

-----------------------------------------------------------------------------
\* Every variable has its type.
TypeOK ==
  /\ live \in BOOLEAN
  /\ ptr \in BOOLEAN
  /\ numLEDs \in 0 .. Word - 1
  /\ numBytes \in 0 .. Word - 1
  /\ pixels \in [0 .. numBytes - 1 -> Byte]
  /\ off \in Offsets
  /\ is800KHz \in BOOLEAN
  /\ brightness \in Byte
  /\ pin \in -1 .. 127
  /\ begun \in BOOLEAN
  /\ port \in {"B", "C", "D", "unset"}
  /\ pinMask \in SUBSET (0 .. 7)
  /\ ddr \in SUBSET (0 .. 7)
  /\ portF \in SUBSET (0 .. 7)

\* numBytes is 3 or 4 bytes for each LED, whatever sequence of length and
\* type changes and failed allocations led here (updateLength, updateType).
BufferFits ==
  /\ numBytes = numLEDs * BytesPerPixel(off)
  /\ ~ptr => numLEDs = 0

\* A pixel the bounds check of setPixelColor* lets through lies in the
\* buffer, with all its channels.
StoresInBounds ==
  live => \A n \in 0 .. numLEDs - 1, c \in Channels :
            First(n) + off[c] \in DOMAIN pixels

\* No stored byte is brighter than the brightness in force allows, after any
\* sequence of setPixelColor* and setBrightness: later rescalings rely on it.
WithinBrightness == \A i \in DOMAIN pixels : pixels[i] <= getBrightness

\* The product c * scale in setBrightness never exceeds its 16 bits, for any
\* level that may be set next.
NoScaleOverflow ==
  \A i \in DOMAIN pixels : \A b \in Byte : pixels[i] * Scale(brightness, b) < Word

\* The driver turns on the output of the current pin alone, and only after
\* begin(): the pin of a freed or re-pinned strip is an input again.
OnlyPinDriven ==
  ddr = IF live /\ begun /\ pin >= 0 THEN Bit(pin) ELSE {}

\* Between two frames the data line is low, also on a pin whose bit in PORTF
\* was set by the snapshot of another port for another pin: a line left high
\* would garble the first bit of the next frame (begin, setPin, show).
LineLow == live /\ begun /\ pin \in 0 .. 7 => pin \notin portF

\* The bit that show() toggles is an output: the code works "with any pin" of
\* the pin tables, as show() says.
WorksWithAnyPin == live /\ begun /\ pin >= 0 => pinMask \subseteq ddr

\* Whenever the number of pixels or the bytes of a pixel change, all the bytes
\* are 0: none is taken over from where it belonged to another pixel. (A
\* change of the order of the colours alone keeps the bytes, and so swaps
\* colours.)
RelayoutClears ==
  [][numLEDs' # numLEDs \/ BytesPerPixel(off') # BytesPerPixel(off)
       => \A i \in DOMAIN pixels' : pixels'[i] = 0]_vars

\* A colour that is set at full brightness is read back exactly, on both kinds
\* of strips, and no other pixel reads differently: setPixelColor* and
\* getPixelColor agree on the layout, which updateType changes in between, and
\* the byte that red and white share on a strip without white is red's.
SetReadsBack ==
  live /\ brightness = 0 =>
    \A n, m \in 0 .. numLEDs - 1, c \in Colour :
      LET read == getPixelColor(Store(n, c), m)
      IN  IF m = n THEN \A d \in Stored : read[Place(d)] \subseteq {0, c[d]} /\ c[d] \in read[Place(d)]
                   ELSE read = getPixelColor(pixels, m)

\* What getPixelColor makes of a stored byte of a dimmed strip is a byte, the
\* approximation of the original value that its comment promises.
ReadsBackAByte ==
  brightness # 0 =>
    \A i \in DOMAIN pixels :
      Undimmed(pixels[i], brightness) = <<0, 0, 0, (pixels[i] * 256) \div brightness>>

\* The bytes of the buffer read as a picture.
Picture ==
  [n \in 0 .. numLEDs - 1 |->
     [c \in Stored |-> pixels[n * BytesPerPixel(off) + off[c]]]]

Abstract ==
  INSTANCE Canvas WITH
    Shades <- Colours, channels <- Stored, picture <- Picture, level <- getBrightness

\* The driver is a picture, dimmed: each call changes the colours of the pixels
\* it is about in one step and no others, whatever the offsets of the type, the
\* byte that red and white share and the order of the calls (setPixelColor*,
\* setBrightness, updateLength, updateType).
ImplementsCanvas == Abstract!Spec
=============================================================================
