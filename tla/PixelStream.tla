----------------------------- MODULE PixelStream -----------------------------
(***************************************************************************)
(* The data output of show() in neo_pixel.c: hand-tuned assembly code that *)
(* sends the bytes of the buffer to the strip, most significant bit first. *)
(* A bit is a high pulse, long for a 1 and short for a 0: n1 and n2 are    *)
(* the level of the pin in the second part of the pulse, of this bit and   *)
(* of the next in turn, since there is no time to compute the level in the *)
(* bit that needs it. The next byte is loaded while the last bit of a byte *)
(* is sent, also after the last byte of the buffer.                        *)
(*                                                                         *)
(* One step sends one bit. A byte is the function of its bits.             *)
(***************************************************************************)
EXTENDS Integers

CONSTANTS
  WORD,      \* values of the loop counter: 65536
  Lengths,   \* values of numBytes
  Bytes      \* the bytes the buffer and the memory after it may hold

Bit  == {0, 1}
Byte == [0 .. 7 -> Bit]

ASSUME PixelStreamAssumption ==
  /\ WORD \in Nat \ {0, 1}
  /\ Lengths \subseteq 0 .. WORD - 1
  /\ Bytes \subseteq Byte /\ Bytes # {}

Idle == -1

VARIABLES
  numBytes, pixels,  \* the buffer, indexed from 0
  bit,               \* the bit that is sent next, or Idle
  b,                 \* the byte that is being sent
  n1, n2,            \* the pin in the second part of a pulse: 1 is high
  count, ptr,        \* bytes left; the next byte
  level,             \* the bit that the last pulse stands for
  sent               \* history: the number of pulses of this frame

buffer    == <<numBytes, pixels>>
registers == <<b, n1, n2, count, ptr>>
vars      == <<buffer, bit, registers, level, sent>>

\* What may be loaded from address p: beyond the buffer, any byte.
Loaded(p) == IF p < numBytes THEN {pixels[p]} ELSE Bytes

-----------------------------------------------------------------------------
\* Between two frames the application changes the buffer.
Draw ==
  /\ bit = Idle
  /\ numBytes' \in Lengths
  /\ pixels' \in [0 .. numBytes' - 1 -> Bytes]
  /\ sent' = 0
  /\ UNCHANGED <<bit, registers, level>>

\* Mutant: the pointer stays at the first byte.
StartAtZero ==
  /\ bit = Idle
  /\ count' = numBytes
  /\ b' \in Loaded(0)
  /\ ptr' = 0
  /\ n1' = b'[7]
  /\ n2' = 0
  /\ bit' = 7
  /\ sent' = 0
  /\ UNCHANGED <<buffer, level>>

\* The loop counter, the first byte, and the level of its first bit. n2 is
\* replaced before it is used.
Start ==
  /\ bit = Idle
  /\ count' = numBytes
  /\ b' \in Loaded(0)
  /\ ptr' = 1
  /\ n1' = b'[7]
  /\ n2' = 0
  /\ bit' = 7
  /\ sent' = 0
  /\ UNCHANGED <<buffer, level>>

\* Mutant: n2 is not set low first.
SendOddStuck ==
  /\ bit \in {1, 3, 5, 7}
  /\ level' = n1
  /\ n2' = IF n2 = 1 THEN 1 ELSE b[bit - 1]
  /\ bit' = bit - 1
  /\ sent' = sent + 1
  /\ UNCHANGED <<buffer, b, n1, count, ptr>>

\* out n1, and n2 made ready for the next bit.
SendOdd ==
  /\ bit \in {1, 3, 5, 7}
  /\ level' = n1
  /\ n2' = b[bit - 1]
  /\ bit' = bit - 1
  /\ sent' = sent + 1
  /\ UNCHANGED <<buffer, b, n1, count, ptr>>

\* out n2, and n1 made ready for the next bit.
SendEven ==
  /\ bit \in {2, 4, 6}
  /\ level' = n2
  /\ n1' = b[bit - 1]
  /\ bit' = bit - 1
  /\ sent' = sent + 1
  /\ UNCHANGED <<buffer, b, n2, count, ptr>>

\* Mutant: the counter does not wrap.
SendLastBelowZero ==
  /\ bit = 0
  /\ level' = n2
  /\ count' = count - 1
  /\ b' \in Loaded(ptr)
  /\ ptr' = ptr + 1
  /\ n1' = b'[7]
  /\ bit' = IF count' = 0 THEN Idle ELSE 7
  /\ sent' = sent + 1
  /\ UNCHANGED <<buffer, n2>>

\* Mutant: the counter is tested before it is decremented.
SendOneMore ==
  /\ bit = 0
  /\ level' = n2
  /\ count' = (count - 1) % WORD
  /\ b' \in Loaded(ptr)
  /\ ptr' = ptr + 1
  /\ n1' = b'[7]
  /\ bit' = IF count = 0 THEN Idle ELSE 7
  /\ sent' = sent + 1
  /\ UNCHANGED <<buffer, n2>>

\* sbiw count, 1; out n2; ld byte, ptr+; n1 made ready; brne headF.
SendLast ==
  /\ bit = 0
  /\ level' = n2
  /\ count' = (count - 1) % WORD
  /\ b' \in Loaded(ptr)
  /\ ptr' = ptr + 1
  /\ n1' = b'[7]
  /\ bit' = IF count' = 0 THEN Idle ELSE 7
  /\ sent' = sent + 1
  /\ UNCHANGED <<buffer, n2>>

-----------------------------------------------------------------------------
Init ==
  /\ numBytes \in Lengths
  /\ pixels \in [0 .. numBytes - 1 -> Bytes]
  /\ bit = Idle
  /\ b \in Bytes
  /\ n1 = 0
  /\ n2 = 0
  /\ count = 0
  /\ ptr = 0
  /\ level = 0
  /\ sent = 0

Send == SendOdd \/ SendEven \/ SendLast

Next == Draw \/ Start \/ Send

Spec == Init /\ [][Next]_vars

-----------------------------------------------------------------------------
\* Every variable has its type.
TypeOK ==
  /\ numBytes \in Lengths
  /\ pixels \in [0 .. numBytes - 1 -> Byte]
  /\ bit \in Idle .. 7
  /\ b \in Byte
  /\ n1 \in Bit /\ n2 \in Bit
  /\ count \in 0 .. WORD - 1
  /\ ptr \in Nat
  /\ level \in Bit
  /\ sent \in Nat

\* Pulse number k of a frame stands for bit 7 - k % 8 of byte k \div 8: the
\* two levels that are prepared in turn never mix two bits or two bytes up.
BitsInOrder ==
  [][Send /\ numBytes # 0 =>
       /\ sent \div 8 \in DOMAIN pixels
       /\ level' = pixels[sent \div 8][7 - (sent % 8)]]_vars

\* A frame has every bit of the buffer and none besides.
WholeFrame ==
  [][Send /\ bit' = Idle /\ numBytes # 0 => sent' = 8 * numBytes]_vars

\* The next address stays in step with the loop counter, and the byte right
\* after the buffer is the only one read beyond it.
ReadsOneBeyond ==
  bit # Idle /\ numBytes # 0 => ptr <= numBytes /\ ptr + count = numBytes + 1
=============================================================================
