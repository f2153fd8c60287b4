---------------------------- MODULE MessageAdapter ----------------------------
(***************************************************************************)
(* setMessageToLED() of messageAdapter.c: a payload is a list of entries   *)
(* of four bytes, the number of a pixel (counted from 1, 0 for none) and   *)
(* its colour. The function walks through it four bytes at a time and does *)
(* not look whether the last entry is complete: the colour bytes that it   *)
(* reads beyond the payload may be any (they are other bytes of the frame  *)
(* or of the stack).                                                       *)
(*                                                                         *)
(* The strip is not dimmed in this program, so setPixelColorRGB() stores   *)
(* the three bytes as they are (module NeoPixel).                          *)
(***************************************************************************)
EXTENDS Integers

CONSTANTS
  BYTE,      \* values of a byte: 256
  Sizes,     \* sizes of a payload: at most 255, the size is a uint8_t
  Strips,    \* lengths of a strip
  Shown      \* colours that its pixels may have before the call

Byte   == 0 .. BYTE - 1
Colour == [1 .. 3 -> Byte]

ASSUME MessageAdapterAssumption ==
  /\ BYTE \in Nat \ {0, 1}
  /\ Sizes \subseteq Nat
  /\ Strips \subseteq Nat \ {0}
  /\ Shown \subseteq Colour

VARIABLES
  size, payload,   \* the payload, indexed from 0
  i,               \* the first byte of the next entry
  numLEDs,         \* length of the strip
  before,          \* history: the pixels when the function was called
  pixels           \* the colours in the driver's buffer

call == <<size, payload, numLEDs, before>>
vars == <<call, i, pixels>>

-----------------------------------------------------------------------------
\* The entry at byte k is for pixel n.
Addresses(k, n) == payload[k] = n + 1

\* Mutant: the colour starts at the number of the pixel.
ColoursFrom(k) ==
  {c \in Colour : \A d \in 1 .. 3 : k + d - 1 < size => c[d] = payload[k + d - 1]}

\* The colours that may be read from the entry at byte k.
ColoursAt(k) ==
  {c \in Colour : \A d \in 1 .. 3 : k + d < size => c[d] = payload[k + d]}

\* payload[i] == 0: no pixel.
Skip ==
  /\ i < size
  /\ payload[i] = 0
  /\ i' = i + 4
  /\ UNCHANGED <<call, pixels>>

\* Mutant: pixels are counted from 0.
EntryFromZero ==
  /\ i < size
  /\ payload[i] # 0
  /\ i' = i + 4
  /\ \E c \in ColoursAt(i) :
       pixels' = [n \in DOMAIN pixels |-> IF payload[i] = n THEN c ELSE pixels[n]]
  /\ UNCHANGED call

\* Mutant: setPixelColorRGB stores beyond the strip.
EntryBeyond ==
  /\ i < size
  /\ payload[i] # 0
  /\ i' = i + 4
  /\ \E c \in ColoursAt(i) :
       pixels' = [n \in DOMAIN pixels \cup {payload[i] - 1} |->
                    IF Addresses(i, n) THEN c ELSE pixels[n]]
  /\ UNCHANGED call

\* setPixelColorRGB(p, payload[i]-1, ...), which ignores a pixel that the
\* strip does not have.
Entry ==
  /\ i < size
  /\ payload[i] # 0
  /\ i' = i + 4
  /\ \E c \in ColoursAt(i) :
       pixels' = [n \in DOMAIN pixels |-> IF Addresses(i, n) THEN c ELSE pixels[n]]
  /\ UNCHANGED call

\* The function has returned.
Return ==
  /\ i >= size
  /\ UNCHANGED vars

Init ==
  /\ size \in Sizes
  /\ payload \in [0 .. size - 1 -> Byte]
  /\ i = 0
  /\ numLEDs \in Strips
  /\ before \in [0 .. numLEDs - 1 -> Shown]
  /\ pixels = before

Next == Skip \/ Entry \/ Return

Spec == Init /\ [][Next]_vars

-----------------------------------------------------------------------------
\* Every variable has its type.
TypeOK ==
  /\ size \in Sizes
  /\ payload \in [0 .. size - 1 -> Byte]
  /\ i \in Nat
  /\ numLEDs \in Strips
  /\ before \in [0 .. numLEDs - 1 -> Colour]
  /\ pixels \in [0 .. numLEDs - 1 -> Colour]

\* The entries for pixel n among those walked through.
EntriesFor(n) == {k \in 0 .. size - 1 : k < i /\ k % 4 = 0 /\ Addresses(k, n)}

\* A pixel has the colour of the last entry for it, or its old one if there
\* is none: setMessageToLED applies the entries in order, whole or not.
LastEntryWins ==
  \A n \in 0 .. numLEDs - 1 :
    \/ EntriesFor(n) = {} /\ pixels[n] = before[n]
    \/ \E k \in EntriesFor(n) :
         /\ \A j \in EntriesFor(n) : j <= k
         /\ pixels[n] \in ColoursAt(k)

\* The last entry for pixel n.
LastFor(n) == CHOOSE k \in EntriesFor(n) : \A j \in EntriesFor(n) : j <= k

\* The payload read as a partial function from pixels to colours.
Effect ==
  [n \in {m \in 0 .. numLEDs - 1 : EntriesFor(m) # {}} |->
     [d \in 1 .. 3 |-> payload[LastFor(n) + d]]]

\* A payload of whole entries leaves no choice: setMessageToLED overlays the
\* pixels with the partial function that it stands for, and changes no other.
\* Modules Firmware and Lamp take a message to be this function.
WholeEntriesDetermine ==
  size % 4 = 0 =>
    pixels = [n \in 0 .. numLEDs - 1 |->
                IF n \in DOMAIN Effect THEN Effect[n] ELSE before[n]]
=============================================================================
