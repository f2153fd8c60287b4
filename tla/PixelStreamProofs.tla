-------------------------- MODULE PixelStreamProofs --------------------------
(***************************************************************************)
(* Proofs about module PixelStream, for every buffer and every width of    *)
(* the loop counter that can hold its length.                              *)
(***************************************************************************)
EXTENDS PixelStream, TLAPS

\* What the assumption says of a length and of a byte.
LEMMA Constants ==
  /\ WORD \in Nat \ {0, 1}
  /\ \A n \in Lengths : n \in Nat /\ n < WORD
  /\ \A v \in Bytes : v \in Byte
BY PixelStreamAssumption, SMT

\* The counter goes down by one, and from 0 to the top of its range.
LEMMA CountDown ==
  ASSUME NEW c \in 0 .. WORD - 1
  PROVE  /\ (c - 1) % WORD \in 0 .. WORD - 1
         /\ c > 0 => (c - 1) % WORD = c - 1
BY Constants, SMT

\* What is loaded is a byte, and within the buffer it is the one there.
LEMMA LoadedIs ==
  ASSUME TypeOK, NEW p \in Nat, NEW v \in Loaded(p)
  PROVE  v \in Byte /\ (p < numBytes => v = pixels[p])
BY Constants, SMT DEF Loaded, TypeOK

-----------------------------------------------------------------------------
\* Every variable of the output has its type, also for an empty buffer.
THEOREM TypeCorrect == Spec => []TypeOK
<1>1. Init => TypeOK
  <2> SUFFICES ASSUME Init
               PROVE  TypeOK
    OBVIOUS
  <2>1. pixels \in [0 .. numBytes - 1 -> Byte]
    BY Constants, SMT DEF Init
  <2> QED
    BY <2>1, Constants, SMT DEF Init, TypeOK, Idle, Bit
<1>2. TypeOK /\ [Next]_vars => TypeOK'
  <2> SUFFICES ASSUME TypeOK, [Next]_vars
               PROVE  TypeOK'
    OBVIOUS
  <2> USE Constants DEF TypeOK, Idle, buffer, registers
  <2>1. CASE Draw
    <3>1. pixels' \in [0 .. numBytes' - 1 -> Byte]
      BY <2>1, SMT DEF Draw
    <3> QED
      BY <2>1, <3>1, SMT DEF Draw
  <2>2. CASE Start
    <3>1. b' \in Byte
      BY <2>2, LoadedIs, SMT DEF Start
    <3> QED
      BY <2>2, <3>1, SMT DEF Start, Byte, Bit
  <2>3. CASE SendOdd
    BY <2>3, SMT DEF SendOdd, Byte
  <2>4. CASE SendEven
    BY <2>4, SMT DEF SendEven, Byte
  <2>5. CASE SendLast
    <3>1. b' \in Byte
      BY <2>5, LoadedIs, SMT DEF SendLast
    <3>2. count' \in 0 .. WORD - 1
      BY <2>5, CountDown, SMT DEF SendLast
    <3> QED
      BY <2>5, <3>1, <3>2, SMT DEF SendLast, Byte
  <2>6. CASE UNCHANGED vars
    BY <2>6, SMT DEF vars
  <2> QED
    BY <2>1, <2>2, <2>3, <2>4, <2>5, <2>6 DEF Next, Send
<1> QED
  BY <1>1, <1>2, PTL DEF Spec

-----------------------------------------------------------------------------
(***************************************************************************)
(* Where the output is: ptr is one ahead of the byte that is sent, the     *)
(* number of pulses so far gives that byte and the bit in it, and the      *)
(* register whose turn it is holds that bit.                               *)
(***************************************************************************)
InStep ==
  /\ ptr \in 1 .. numBytes
  /\ ptr + count = numBytes + 1
  /\ sent = 8 * (ptr - 1) + (7 - bit)
  /\ b = pixels[ptr - 1]
  /\ bit \in {1, 3, 5, 7} => n1 = b[bit]
  /\ bit \in {0, 2, 4, 6} => n2 = b[bit]

StreamInv == bit # Idle /\ numBytes # 0 => InStep

\* The pulse that is sent next is the right one.
LEMMA NextPulse ==
  ASSUME TypeOK, StreamInv, Send, numBytes # 0
  PROVE  /\ sent \div 8 = ptr - 1
         /\ sent % 8 = 7 - bit
         /\ ptr - 1 \in 0 .. numBytes - 1
         /\ level' = pixels[ptr - 1][bit]
<1> USE DEF TypeOK, Idle
<1>1. bit \in 0 .. 7
  BY SMT DEF Send, SendOdd, SendEven, SendLast
<1>2. InStep
  BY <1>1, SMT DEF StreamInv
<1>3. ptr - 1 \in Nat /\ sent = 8 * (ptr - 1) + (7 - bit) /\ ptr \in 1 .. numBytes
  BY <1>2, Constants, SMT DEF InStep
<1>4. sent \div 8 = ptr - 1 /\ sent % 8 = 7 - bit
  BY <1>1, <1>3, SMT
<1>5. level' = b[bit]
  BY <1>2, SMT DEF InStep, Send, SendOdd, SendEven, SendLast
<1> QED
  BY <1>2, <1>3, <1>4, <1>5, Constants, SMT DEF InStep

\* StreamInv is inductive, given the types.
LEMMA StreamInductive == TypeOK /\ StreamInv /\ [Next]_vars => StreamInv'
<1> SUFFICES ASSUME TypeOK, StreamInv, [Next]_vars, bit' # Idle, numBytes' # 0
             PROVE  InStep'
  BY Zenon DEF StreamInv, Idle
<1> USE Constants DEF TypeOK, Idle, buffer, registers
<1>1. CASE Draw
  BY <1>1, SMT DEF Draw
<1>2. CASE Start
  <2>1. numBytes \in Nat \ {0} /\ b' \in Loaded(0)
    BY <1>2, SMT DEF Start
  <2>2. b' = pixels[0]
    BY <2>1, LoadedIs, SMT
  <2> QED
    BY <1>2, <2>1, <2>2, SMT DEF Start, InStep
<1>3. CASE SendOdd
  BY <1>3, SMT DEF SendOdd, StreamInv, InStep
<1>4. CASE SendEven
  BY <1>4, SMT DEF SendEven, StreamInv, InStep
<1>5. CASE SendLast
  <2>1. InStep /\ bit = 0 /\ bit' = 7 /\ count' # 0
    BY <1>5, SMT DEF SendLast, StreamInv
  <2>2. count' = count - 1 /\ ptr' = ptr + 1 /\ sent' = sent + 1
    BY <1>5, <2>1, CountDown, SMT DEF SendLast, InStep
  <2>3. ptr < numBytes
    BY <2>1, <2>2, SMT DEF InStep
  <2>4. b' = pixels[ptr]
    <3>1. b' \in Loaded(ptr) /\ ptr \in Nat
      BY <1>5, SMT DEF SendLast
    <3> QED
      BY <2>3, <3>1, LoadedIs, Zenon
  <2>5. ptr' \in 1 .. numBytes' /\ ptr' + count' = numBytes' + 1
    <3>1. numBytes' = numBytes
      BY <1>5, Zenon DEF SendLast
    <3>2. numBytes \in Nat /\ ptr \in Nat /\ count \in Nat
      BY SMT
    <3>3. ptr + count = numBytes + 1
      BY <2>1, Zenon DEF InStep
    <3> HIDE DEF TypeOK
    <3> QED
      BY <2>2, <2>3, <3>1, <3>2, <3>3, SMT
  <2>6. sent' = 8 * (ptr' - 1) + (7 - bit')
    BY <2>1, <2>2, SMT DEF InStep
  <2>7. ptr' - 1 = ptr
    BY <2>2, SMT
  <2>8. b' = pixels'[ptr' - 1]
    BY <1>5, <2>4, <2>7, Zenon DEF SendLast
  <2>9. bit' \in {1, 3, 5, 7} => n1' = b'[bit']
    BY <1>5, <2>1, Zenon DEF SendLast
  <2>10. bit' \notin {0, 2, 4, 6}
    BY <2>1, SMT
  <2> QED
    BY <2>5, <2>6, <2>8, <2>9, <2>10, Zenon DEF InStep
<1>6. CASE UNCHANGED vars
  BY <1>6, SMT DEF vars, StreamInv, InStep
<1> QED
  BY <1>1, <1>2, <1>3, <1>4, <1>5, <1>6 DEF Next, Send

\* StreamInv holds throughout.
LEMMA Streams == Spec => []StreamInv
<1>1. Init => StreamInv
  BY SMT DEF Init, StreamInv
<1>2. TypeOK /\ StreamInv /\ [Next]_vars => StreamInv'
  BY StreamInductive
<1> QED
  BY <1>1, <1>2, TypeCorrect, PTL DEF Spec

\* The code sends exactly the bits of the buffer in order: each pulse stands
\* for the bit whose turn it is.
THEOREM SendsInOrder == Spec => BitsInOrder
<1>1. TypeOK /\ StreamInv =>
        [Send /\ numBytes # 0 =>
           /\ sent \div 8 \in DOMAIN pixels
           /\ level' = pixels[sent \div 8][7 - (sent % 8)]]_vars
  <2> SUFFICES ASSUME TypeOK, StreamInv, Send, numBytes # 0
               PROVE  /\ sent \div 8 \in DOMAIN pixels
                      /\ level' = pixels[sent \div 8][7 - (sent % 8)]
    BY Zenon
  <2>1. bit \in Int /\ DOMAIN pixels = 0 .. numBytes - 1
    BY SMT DEF TypeOK, Idle
  <2>2. 7 - (7 - bit) = bit
    BY <2>1, SMT
  <2> QED
    BY <2>1, <2>2, NextPulse, Zenon
<1> QED
  BY <1>1, Streams, TypeCorrect, PTL DEF BitsInOrder

\* A frame ends after the last bit of the buffer, and not before.
THEOREM SendsAll == Spec => WholeFrame
<1>1. TypeOK /\ StreamInv =>
        [Send /\ bit' = Idle /\ numBytes # 0 => sent' = 8 * numBytes]_vars
  <2> SUFFICES ASSUME TypeOK, StreamInv, Send, bit' = Idle, numBytes # 0
               PROVE  sent' = 8 * numBytes
    BY Zenon
  <2>1. SendLast
    BY SMT DEF Send, SendOdd, SendEven, Idle
  <2>2. InStep /\ bit = 0 /\ count' = 0 /\ sent' = sent + 1
    BY <2>1, SMT DEF SendLast, StreamInv, Idle
  <2>3. count' = count - 1
    BY <2>1, <2>2, CountDown, Constants, SMT DEF SendLast, InStep, TypeOK
  <2> QED
    BY <2>2, <2>3, Constants, SMT DEF InStep, TypeOK
<1> QED
  BY <1>1, Streams, TypeCorrect, PTL DEF WholeFrame

\* The code reads one byte beyond the buffer at most.
THEOREM ReadsLittleBeyond == Spec => []ReadsOneBeyond
<1>1. TypeOK /\ StreamInv => ReadsOneBeyond
  BY Constants, SMT DEF StreamInv, InStep, ReadsOneBeyond, TypeOK
<1> QED
  BY <1>1, Streams, TypeCorrect, PTL
=============================================================================
