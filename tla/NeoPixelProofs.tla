---------------------------- MODULE NeoPixelProofs ----------------------------
(***************************************************************************)
(* Proofs about module NeoPixel, for all lengths, types, pins, colours and *)
(* brightness levels.                                                      *)
(***************************************************************************)
EXTENDS NeoPixel, TLAPS

(***************************************************************************)
(* Arithmetic.                                                             *)
(***************************************************************************)

\* A quotient times its divisor does not exceed the dividend.
LEMMA DivTimes ==
  ASSUME NEW a \in Nat, NEW d \in Nat \ {0}
  PROVE  a \div d \in Nat /\ d * (a \div d) <= a
BY SMT

\* A product grows with its first factor.
LEMMA TimesMonotone ==
  ASSUME NEW a \in Nat, NEW d \in Nat, NEW q \in Nat, a <= d
  PROVE  a * q \in Nat /\ a * q <= d * q
BY SMT

\* The brightness that is stored is one above the one it stands for.
LEMMA DecIs ==
  /\ \A x \in Byte : Dec(x) = IF x = 0 THEN 255 ELSE x - 1
  /\ \A b \in Byte : (b + 1) % 256 \in Byte /\ Dec((b + 1) % 256) = b
BY SMT DEF Dec, Byte

\* A colour that is stored is not brighter than the brightness in force.
LEMMA DimmedFits ==
  ASSUME NEW c \in Byte, brightness \in Byte
  PROVE  Dimmed(c) \in 0 .. Dec(brightness)
<1>1. CASE brightness = 0
  BY <1>1, DecIs, SMT DEF Dimmed, Byte
<1>2. CASE brightness # 0
  <2>1. c * brightness \in Nat /\ c * brightness <= 255 * brightness
    BY TimesMonotone, SMT DEF Byte
  <2>2. Dimmed(c) = (c * brightness) \div 256
    BY <1>2, <2>1, SMT DEF Dimmed, Byte, Word
  <2>3. (c * brightness) \div 256 \in 0 .. brightness - 1
    BY <1>2, <2>1, SMT DEF Byte
  <2> QED
    BY <1>2, <2>2, <2>3, DecIs
<1> QED
  BY <1>1, <1>2

\* A multiple of a quotient is bounded by the dividend when the factor is
\* bounded by the divisor.
LEMMA QuotientFits ==
  ASSUME NEW top \in Nat, NEW d \in Nat \ {0}, NEW c \in Nat, c <= d
  PROVE  c * (top \div d) \in Nat /\ c * (top \div d) <= top
<1>1. top \div d \in Nat /\ d * (top \div d) <= top
  BY DivTimes
<1>2. ASSUME NEW q \in Nat, d * q <= top
      PROVE  c * q \in Nat /\ c * q <= top
  <2>1. c * q \in Nat /\ c * q <= d * q
    BY TimesMonotone
  <2> QED
    BY <1>2, <2>1, SMT
<1> QED
  BY <1>1, <1>2, Zenon

\* The high byte of a product that is bounded by b and a byte of fraction.
LEMMA HighByteFits ==
  ASSUME NEW b \in 0 .. 255, NEW p \in Nat, p <= b * 256 + 255
  PROVE  p \in 0 .. Word - 1 /\ (p % Word) \div 256 \in 0 .. b
<1>1. p <= Word - 1 /\ Word \in Nat
  BY SMT DEF Word
<1>3. p \in 0 .. Word - 1
  BY <1>1, SMT
<1>4. p % Word = p
  BY <1>1, SMT DEF Word
<1>2. p \div 256 \in 0 .. b
  BY SMT
<1> QED
  BY <1>2, <1>3, <1>4, Zenon

\* Rescaling a byte that respects the old brightness gives one that respects
\* the new one, without an overflow: the bound that the scale is made for.
LEMMA RescaledFits ==
  ASSUME NEW br \in Byte, NEW b \in Byte, NEW c \in 0 .. Dec(br)
  PROVE  /\ c * Scale(br, b) \in 0 .. Word - 1
         /\ Rescaled(c, Scale(br, b)) \in 0 .. b
<1>1. b \in 0 .. 255 /\ Dec(br) \in Nat
  <2>1. Dec(br) \in 0 .. 255
    BY DecIs, SMT DEF Byte
  <2> QED
    BY <2>1, SMT DEF Byte
<1>2. c \in Nat /\ c <= Dec(br)
  BY <1>1, SMT
<1>3. ASSUME NEW s, c * s \in Nat, c * s <= b * 256 + 255
      PROVE  c * s \in 0 .. Word - 1 /\ Rescaled(c, s) \in 0 .. b
  BY <1>1, <1>3, HighByteFits, Zenon DEF Rescaled
<1>4. CASE Dec(br) = 0
  <2>1. Scale(br, b) = 0
    BY <1>4 DEF Scale
  <2>2. c * 0 \in Nat /\ c * 0 <= b * 256 + 255
    BY <1>1, <1>2, SMT
  <2> QED
    BY <1>3, <2>1, <2>2, Zenon
<1>5. CASE Dec(br) # 0 /\ b = 255
  <2> DEFINE top == 65535
  <2>1. Scale(br, b) = top \div Dec(br)
    BY <1>5 DEF Scale
  <2>2. top = b * 256 + 255 /\ top \in Nat
    BY <1>5, SMT
  <2> HIDE DEF top
  <2>3. Dec(br) \in Nat \ {0}
    BY <1>1, <1>5, SMT
  <2>4. c * (top \div Dec(br)) \in Nat /\ c * (top \div Dec(br)) <= top
    BY <1>2, <2>2, <2>3, QuotientFits, ZenonT(40)
  <2> QED
    BY <1>3, <2>1, <2>2, <2>4, Zenon
<1>6. CASE Dec(br) # 0 /\ b # 255
  <2> DEFINE top == ((b + 1) % 256) * 256 - 1
  <2>1. Scale(br, b) = top \div Dec(br)
    BY <1>6 DEF Scale
  <2>2. top = b * 256 + 255 /\ top \in Nat
    BY <1>1, <1>6, SMT
  <2> HIDE DEF top
  <2>3. Dec(br) \in Nat \ {0}
    BY <1>1, <1>6, SMT
  <2>4. c * (top \div Dec(br)) \in Nat /\ c * (top \div Dec(br)) <= top
    BY <1>2, <2>2, <2>3, QuotientFits, Zenon
  <2> QED
    BY <1>3, <2>1, <2>2, <2>4, Zenon
<1> QED
  BY <1>4, <1>5, <1>6, Zenon

-----------------------------------------------------------------------------
(***************************************************************************)
(* Pixel types.                                                            *)
(***************************************************************************)

\* The offsets of a type lie within a pixel.
LEMMA OffsetsFit ==
  ASSUME NEW o \in Offsets
  PROVE  /\ o \in [Channels -> 0 .. 3]
         /\ BytesPerPixel(o) \in {3, 4}
         /\ \A c \in Channels : o[c] < BytesPerPixel(o)
<1>1. o \in [Channels -> 0 .. 3]
  BY DEF Offsets
<1>2. CASE o["w"] = o["r"]
  <2>1. {o["r"], o["g"], o["b"]} = 0 .. 2
    BY <1>2 DEF Offsets
  <2>2. o["r"] \in 0 .. 2 /\ o["g"] \in 0 .. 2 /\ o["b"] \in 0 .. 2
    BY <2>1, Zenon
  <2> QED
    BY <1>1, <1>2, <2>2, SMT DEF BytesPerPixel, Channels
<1>3. CASE o["w"] # o["r"]
  BY <1>1, <1>3, SMT DEF BytesPerPixel
<1> QED
  BY <1>2, <1>3, Zenon

\* The offsets that createNeoPixelNoParams() sets are those of a type.
LEMMA DefaultType == OffsetsGRB \in Offsets
<1>1. OffsetsGRB \in [Channels -> 0 .. 3]
  BY SMT DEF OffsetsGRB, Channels
<1>2. /\ OffsetsGRB["r"] = 1 /\ OffsetsGRB["g"] = 0 /\ OffsetsGRB["b"] = 2
      /\ OffsetsGRB["w"] = 1
  BY SMT DEF OffsetsGRB, Channels
<1>3. {OffsetsGRB["r"], OffsetsGRB["g"], OffsetsGRB["b"]} = 0 .. 2
  <2>1. \A k : k \in 0 .. 2 <=> k = 1 \/ k = 0 \/ k = 2
    BY SMT
  <2> QED
    BY <1>2, <2>1, Zenon
<1>4. OffsetsGRB["w"] = OffsetsGRB["r"]
  BY <1>2, Zenon
<1> QED
  BY <1>1, <1>3, <1>4, Zenon DEF Offsets

\* The fields of the types that the application uses.
LEMMA TypeFields ==
  ASSUME NEW t \in Types
  PROVE  t.off \in Offsets /\ (~t.khz400) \in BOOLEAN
BY NeoPixelAssumption DEF NeoTypes

-----------------------------------------------------------------------------
(***************************************************************************)
(* Type correctness.                                                       *)
(***************************************************************************)

\* The type of the buffer.
BufferOK ==
  /\ ptr \in BOOLEAN
  /\ numLEDs \in 0 .. Word - 1
  /\ numBytes \in 0 .. Word - 1
  /\ pixels \in [0 .. numBytes - 1 -> Byte]

\* The type of the fields and registers of the pin.
PinsOK ==
  /\ pin \in -1 .. 127
  /\ begun \in BOOLEAN
  /\ port \in {"B", "C", "D", "unset"}
  /\ pinMask \in SUBSET (0 .. 7)
  /\ ddr \in SUBSET (0 .. 7)
  /\ portF \in SUBSET (0 .. 7)

\* An allocation leaves a buffer of zero bytes.
LEMMA AllocateGives ==
  ASSUME NEW n \in 0 .. Word - 1, NEW o \in Offsets, Allocate(n, o)
  PROVE  BufferOK' /\ \A i \in DOMAIN pixels' : pixels'[i] = 0
<1> DEFINE bytes == (n * BytesPerPixel(o)) % Word
<1>1. bytes \in 0 .. Word - 1
  <2>1. n \in Nat /\ Word \in Nat \ {0}
    BY SMT DEF Word
  <2>2. BytesPerPixel(o) \in Nat
    BY OffsetsFit, SMT
  <2>3. n * BytesPerPixel(o) \in Nat
    BY <2>1, <2>2, SMT
  <2> HIDE DEF Word
  <2>4. \A x \in Nat : x % Word \in 0 .. Word - 1
    BY <2>1, SMT
  <2> QED
    BY <2>3, <2>4, Zenon
<1>2. 0 \in Byte /\ 0 \in 0 .. Word - 1 /\ 0 .. 0 - 1 = {}
  BY SMT DEF Byte, Word
<1>3. CASE /\ ptr' = TRUE
           /\ pixels' = [i \in 0 .. bytes - 1 |-> 0]
           /\ numLEDs' = n
           /\ numBytes' = bytes
  BY <1>1, <1>2, <1>3, Zenon DEF BufferOK
<1>4. CASE /\ ptr' = FALSE
           /\ pixels' = [i \in {} |-> 0]
           /\ numLEDs' = 0
           /\ numBytes' = 0
  BY <1>2, <1>4, Zenon DEF BufferOK
<1> QED
  BY <1>3, <1>4, Zenon DEF Allocate

\* A function stays one into S when one value is replaced by a member of S.
LEMMA ExceptGives ==
  ASSUME NEW D, NEW S, NEW f \in [D -> S], NEW i, NEW x \in S
  PROVE  [f EXCEPT ![i] = x] \in [D -> S]
OBVIOUS

\* The buffer stays a function into any set that holds the dimmed channels.
LEMMA StoreGives ==
  ASSUME NEW n, NEW c \in [Channels -> Byte], NEW D, NEW S,
         pixels \in [D -> S], \A x \in Byte : Dimmed(x) \in S
  PROVE  Store(n, c) \in [D -> S]
<1> DEFINE at(ch) == First(n) + off[ch]
           p1 == [pixels EXCEPT ![at("w")] = Dimmed(c["w"])]
           p2 == [p1 EXCEPT ![at("r")] = Dimmed(c["r"])]
           p3 == [p2 EXCEPT ![at("g")] = Dimmed(c["g"])]
           p4 == [p3 EXCEPT ![at("b")] = Dimmed(c["b"])]
<1>1. /\ Dimmed(c["w"]) \in S /\ Dimmed(c["r"]) \in S
      /\ Dimmed(c["g"]) \in S /\ Dimmed(c["b"]) \in S
  <2>1. "r" \in Channels /\ "g" \in Channels /\ "b" \in Channels /\ "w" \in Channels
    BY Zenon DEF Channels
  <2> QED
    BY <2>1, Zenon
<1>2. Store(n, c) = p4
  BY DEF Store
<1> HIDE DEF at
<1>3. p1 \in [D -> S]
  BY <1>1, ExceptGives, Zenon
<1> HIDE DEF p1
<1>4. p2 \in [D -> S]
  BY <1>1, <1>3, ExceptGives, Zenon
<1> HIDE DEF p2
<1>5. p3 \in [D -> S]
  BY <1>1, <1>4, ExceptGives, Zenon
<1> HIDE DEF p3
<1>6. p4 \in [D -> S]
  BY <1>1, <1>5, ExceptGives, Zenon
<1> QED
  BY <1>2, <1>6, Zenon

\* The bytes of the buffer are within the brightness in force.
PixelsFit == pixels \in [0 .. numBytes - 1 -> 0 .. Dec(brightness)]

\* The inductive invariant behind the type and the brightness: scaling needs
\* the bytes to respect the old level in order to keep the new one.
BrightInv == TypeOK /\ PixelsFit

\* The constants are values of the types of the variables they are put in.
LEMMA ConstantsFit ==
  /\ \A n \in Lengths : n \in 0 .. Word - 1
  /\ \A p \in Pins : p \in -1 .. 127
  /\ -1 \in -1 .. 127
  /\ \A p : Bit(p) \in SUBSET (0 .. 7)
  /\ \A c \in Colour : c \in [Channels -> Byte] /\ [c EXCEPT !["w"] = 0] \in [Channels -> Byte]
  /\ \A b \in Brights : b \in Byte
  /\ \A bits \in SUBSET StrayBits : bits \in SUBSET (0 .. 7)
  /\ 0 \in Byte
<1>1. 0 \in Byte
  BY SMT DEF Byte
<1>2. \A p \in 0 .. 19 : p \in -1 .. 127
  BY SMT
<1>3. -1 \in -1 .. 127
  BY SMT
<1>4. \A c \in [Channels -> Byte] : [c EXCEPT !["w"] = 0] \in [Channels -> Byte]
  BY <1>1, ExceptGives, Zenon
<1>5. \A c \in Colour : c \in [Channels -> Byte]
  BY NeoPixelAssumption, SMT DEF Colour
<1>6. \A p : Bit(p) \in SUBSET (0 .. 7)
  BY Zenon DEF Bit
<1> QED
  BY <1>1, <1>2, <1>3, <1>4, <1>5, <1>6, NeoPixelAssumption, Zenon

\* What the pin tables hold.
LEMMA PinTables ==
  ASSUME NEW p \in Pins
  PROVE  /\ digitalPinToPort(p) \in {"B", "C", "D", "unset"}
         /\ digitalPinToBitMask(p) \in SUBSET (0 .. 7)
         /\ p \in 0 .. 7 => digitalPinToBitMask(p) = {p}
<1>1. digitalPinToPort(p) \in {"B", "C", "D", "unset"}
  <2>1. CASE p \in 0 .. 7
    BY <2>1, Zenon DEF digitalPinToPort
  <2>2. CASE p \notin 0 .. 7 /\ p \in 8 .. 13
    BY <2>2, Zenon DEF digitalPinToPort
  <2>3. CASE p \notin 0 .. 7 /\ p \notin 8 .. 13
    BY <2>3, Zenon DEF digitalPinToPort
  <2> QED
    BY <2>1, <2>2, <2>3, Zenon
<1>2. CASE p \in 0 .. 7
  <2>1. p \notin 8 .. 13
    BY <1>2, SMT
  <2>2. digitalPinToBitMask(p) = {p}
    BY <1>2, <2>1, Zenon DEF digitalPinToBitMask
  <2> QED
    BY <1>1, <1>2, <2>2, Zenon
<1>3. CASE p \notin 0 .. 7 /\ p \in 8 .. 13
  <2>1. digitalPinToBitMask(p) = {p - 8}
    BY <1>3, Zenon DEF digitalPinToBitMask
  <2>2. p - 8 \in 0 .. 7
    BY <1>3, SMT
  <2> QED
    BY <1>1, <1>3, <2>1, <2>2, Zenon
<1>4. CASE p \notin 0 .. 7 /\ p \notin 8 .. 13
  <2>1. digitalPinToBitMask(p) = {p - 14}
    BY <1>4, Zenon DEF digitalPinToBitMask
  <2>2. p \in 0 .. 19
    BY NeoPixelAssumption
  <2>3. p - 14 \in 0 .. 7
    BY <1>4, <2>2, SMT
  <2> QED
    BY <1>1, <1>4, <2>1, <2>3, Zenon
<1> QED
  BY <1>2, <1>3, <1>4, Zenon

\* The bits of a snapshot are bits of a port.
LEMMA SnapshotFits == \A bits \in Snapshot : bits \in SUBSET (0 .. 7)
BY ConstantsFit, Zenon DEF Snapshot

\* A buffer of zero bytes respects every brightness.
LEMMA ZerosFit ==
  ASSUME BufferOK', brightness' \in Byte, \A i \in DOMAIN pixels' : pixels'[i] = 0
  PROVE  PixelsFit'
<1>1. 0 \in 0 .. Dec(brightness')
  BY DecIs, SMT DEF Byte
<1>2. \A D, S, T, f : f \in [D -> S] /\ (\A i \in DOMAIN f : f[i] \in T) => f \in [D -> T]
  BY Zenon
<1>3. pixels' \in [0 .. numBytes' - 1 -> Byte]
  BY Zenon DEF BufferOK
<1>4. \A i \in DOMAIN pixels' : pixels'[i] \in 0 .. Dec(brightness')
  BY <1>1, Zenon
<1> QED
  BY <1>2, <1>3, <1>4, Zenon DEF PixelsFit

\* The empty buffer of an object that has none.
LEMMA EmptyBuffer ==
  ASSUME ptr' = FALSE, pixels' = [i \in {} |-> 0], numLEDs' = 0, numBytes' = 0
  PROVE  BufferOK' /\ \A i \in DOMAIN pixels' : pixels'[i] = 0
<1>1. 0 \in 0 .. Word - 1 /\ 0 .. 0 - 1 = {}
  BY SMT DEF Word
<1> QED
  BY <1>1, Zenon DEF BufferOK

\* The bytes stored for a colour respect the brightness.
LEMMA StoreFits ==
  ASSUME BrightInv, NEW n, NEW c \in [Channels -> Byte]
  PROVE  /\ Store(n, c) \in [0 .. numBytes - 1 -> Byte]
         /\ Store(n, c) \in [0 .. numBytes - 1 -> 0 .. Dec(brightness)]
<1>1. \A x \in Byte : Dimmed(x) \in 0 .. Dec(brightness)
  BY DimmedFits, Zenon DEF BrightInv, TypeOK
<1>2. 0 .. Dec(brightness) \subseteq Byte
  <2>1. \A x \in Byte : 0 .. Dec(x) \subseteq Byte
    BY DecIs, SMT DEF Byte
  <2> QED
    BY <2>1, Zenon DEF BrightInv, TypeOK
<1>3. \A x \in Byte : Dimmed(x) \in Byte
  BY <1>1, <1>2, Zenon
<1> QED
  BY <1>1, <1>3, StoreGives, Zenon DEF BrightInv, TypeOK, PixelsFit

\* The invariant after a step, from its parts.
LEMMA BrightParts ==
  ASSUME live' \in BOOLEAN, BufferOK', off' \in Offsets, is800KHz' \in BOOLEAN,
         brightness' \in Byte, PinsOK', PixelsFit'
  PROVE  BrightInv'
BY Zenon DEF BrightInv, TypeOK, BufferOK, PinsOK

\* A step that leaves the buffer and the brightness alone.
LEMMA BufferKept ==
  ASSUME BrightInv, UNCHANGED <<buffer, brightness>>
  PROVE  BufferOK' /\ PixelsFit' /\ brightness' \in Byte
BY Zenon DEF BrightInv, TypeOK, BufferOK, PixelsFit, buffer

\* An allocation, at a brightness that is kept or set to 0.
LEMMA BufferAllocated ==
  ASSUME BrightInv, NEW n \in 0 .. Word - 1, NEW o \in Offsets, Allocate(n, o),
         brightness' \in Byte
  PROVE  BufferOK' /\ PixelsFit'
BY AllocateGives, ZerosFit, Zenon

\* A pixel is stored.
LEMMA BufferStored ==
  ASSUME BrightInv, NEW n, NEW c \in [Channels -> Byte], SetPixel(n, c)
  PROVE  BrightInv'
<1>1. pixels' = Store(n, c) \/ pixels' = pixels
  BY Zenon DEF SetPixel
<1>2. UNCHANGED <<live, ptr, numLEDs, numBytes, format, brightness, output>>
  BY Zenon DEF SetPixel
<1>3. /\ pixels' \in [0 .. numBytes - 1 -> Byte]
      /\ pixels' \in [0 .. numBytes - 1 -> 0 .. Dec(brightness)]
  BY <1>1, StoreFits, ZenonT(40) DEF BrightInv, TypeOK, PixelsFit
<1>4. PixelsFit' /\ pixels' \in [0 .. numBytes' - 1 -> Byte]
  BY <1>2, <1>3, Zenon DEF PixelsFit
<1> QED
  BY <1>2, <1>4, Zenon DEF BrightInv, TypeOK, format, output

\* The stored bytes follow the brightness.
LEMMA BufferRescaled ==
  ASSUME BrightInv, NEW b \in Byte, setBrightness(b)
  PROVE  BrightInv'
<1>1. brightness \in Byte /\ pixels \in [0 .. numBytes - 1 -> 0 .. Dec(brightness)]
  BY Zenon DEF BrightInv, TypeOK, PixelsFit
<1>2. UNCHANGED <<live, ptr, numLEDs, numBytes, format, output>>
  BY Zenon DEF setBrightness
<1>3. brightness' = (b + 1) % 256
  BY Zenon DEF setBrightness
<1>4. brightness' \in Byte /\ Dec(brightness') = b
  BY <1>3, DecIs, Zenon
<1>5. pixels' \in [0 .. numBytes - 1 -> 0 .. b]
  <2>1. CASE brightness' = brightness
    <3>1. pixels' = pixels
      BY <1>3, <2>1, Zenon DEF setBrightness
    <3> QED
      BY <1>1, <1>4, <2>1, <3>1, Zenon
  <2>2. CASE brightness' # brightness
    <3>1. pixels' = [i \in DOMAIN pixels |-> Rescaled(pixels[i], Scale(brightness, b))]
      BY <1>3, <2>2, Zenon DEF setBrightness
    <3>2. DOMAIN pixels = 0 .. numBytes - 1
      BY <1>1, Zenon
    <3>3. \A i \in 0 .. numBytes - 1 :
            Rescaled(pixels[i], Scale(brightness, b)) \in 0 .. b
      BY <1>1, RescaledFits, Zenon
    <3> QED
      BY <3>1, <3>2, <3>3, Zenon
  <2> QED
    BY <2>1, <2>2, Zenon
<1>6. pixels' \in [0 .. numBytes' - 1 -> Byte]
  <2>1. \A x \in Byte : 0 .. x \subseteq Byte
    BY SMT DEF Byte
  <2>2. \A D, S, T, f : f \in [D -> S] /\ S \subseteq T => f \in [D -> T]
    BY Zenon
  <2> QED
    BY <1>2, <1>5, <2>1, <2>2, Zenon
<1>7. PixelsFit'
  BY <1>2, <1>4, <1>5, Zenon DEF PixelsFit
<1> QED
  BY <1>2, <1>4, <1>6, <1>7, Zenon DEF BrightInv, TypeOK, format, output

\* The invariant holds before the first object is created.
LEMMA BrightInit == Init => BrightInv
<1> SUFFICES ASSUME Init PROVE BrightInv
  OBVIOUS
<1>1. 0 \in 0 .. Word - 1 /\ 0 .. 0 - 1 = {} /\ 0 \in Byte /\ -1 \in -1 .. 127
  BY SMT DEF Word, Byte
<1>2. off \in Offsets
  BY DefaultType, Zenon DEF Init
<1>3. pixels \in [0 .. numBytes - 1 -> Byte] /\ PixelsFit
  BY <1>1, Zenon DEF Init, PixelsFit
<1> QED
  BY <1>1, <1>2, <1>3, Zenon DEF Init, BrightInv, TypeOK

\* Every call keeps the invariant.
LEMMA BrightStep == BrightInv /\ [Next]_vars => BrightInv'
<1> SUFFICES ASSUME BrightInv, [Next]_vars PROVE BrightInv'
  OBVIOUS
<1>1. /\ live \in BOOLEAN /\ BufferOK /\ off \in Offsets /\ is800KHz \in BOOLEAN
      /\ brightness \in Byte /\ PinsOK /\ PixelsFit
  BY Zenon DEF BrightInv, TypeOK, BufferOK, PinsOK
<1>0. ASSUME UNCHANGED output PROVE PinsOK'
  BY <1>1, <1>0, Zenon DEF PinsOK, output
<1>2. CASE \E n \in Lengths, p \in Pins, t \in Types : createNeoPixel(n, p, t)
  <2>1. PICK n \in Lengths, p \in Pins, t \in Types : createNeoPixel(n, p, t)
    BY <1>2
  <2>2. n \in 0 .. Word - 1 /\ p \in -1 .. 127 /\ 0 \in Byte
    BY ConstantsFit, Zenon
  <2>3. t.off \in Offsets /\ (~t.khz400) \in BOOLEAN
    BY TypeFields
  <2>4. Allocate(n, t.off) /\ brightness' \in Byte
    BY <2>1, <2>2, Zenon DEF createNeoPixel
  <2>5. BufferOK' /\ PixelsFit'
    BY <2>2, <2>3, <2>4, BufferAllocated, Zenon
  <2>6. PinsOK'
    BY <1>1, <2>1, <2>2, PinTables, Zenon DEF createNeoPixel, PinsOK
  <2> QED
    BY <1>1, <2>1, <2>3, <2>4, <2>5, <2>6, BrightParts, Zenon DEF createNeoPixel
<1>3. CASE createNeoPixelNoParams
  <2>1. BufferOK' /\ \A i \in DOMAIN pixels' : pixels'[i] = 0
    BY <1>3, EmptyBuffer, Zenon DEF createNeoPixelNoParams
  <2>2. brightness' \in Byte /\ PinsOK'
    BY <1>1, <1>3, ConstantsFit, Zenon DEF createNeoPixelNoParams, PinsOK
  <2>3. PixelsFit'
    BY <2>1, <2>2, ZerosFit, Zenon
  <2> QED
    BY <1>1, <1>3, <2>1, <2>2, <2>3, DefaultType, BrightParts, Zenon
    DEF createNeoPixelNoParams
<1>4. CASE freeNeoPixel
  <2>1. BufferOK' /\ PixelsFit' /\ brightness' \in Byte
    BY <1>4, BufferKept, Zenon DEF freeNeoPixel
  <2>2. PinsOK'
    BY <1>1, <1>4, Zenon DEF freeNeoPixel, PinsOK
  <2> QED
    BY <1>1, <1>4, <2>1, <2>2, BrightParts, Zenon DEF freeNeoPixel, format
<1>5. CASE \E n \in Lengths : updateLength(n)
  <2>1. PICK n \in Lengths : updateLength(n)
    BY <1>5
  <2>2. n \in 0 .. Word - 1
    BY ConstantsFit, Zenon
  <2>3. Allocate(n, off) /\ brightness' \in Byte
    BY <1>1, <2>1, Zenon DEF updateLength
  <2>4. BufferOK' /\ PixelsFit'
    BY <1>1, <2>2, <2>3, BufferAllocated, Zenon
  <2> QED
    BY <1>0, <1>1, <2>1, <2>3, <2>4, BrightParts, Zenon DEF updateLength, format
<1>6. CASE \E t \in Types : updateType(t)
  <2>1. PICK t \in Types : updateType(t)
    BY <1>6
  <2>2. t.off \in Offsets /\ (~t.khz400) \in BOOLEAN
    BY TypeFields
  <2>3. brightness' \in Byte /\ UNCHANGED brightness
    BY <1>1, <2>1, Zenon DEF updateType
  <2>4. Allocate(numLEDs, t.off) \/ UNCHANGED buffer
    BY <2>1, Zenon DEF updateType
  <2>5. BufferOK' /\ PixelsFit'
    <3>1. CASE Allocate(numLEDs, t.off)
      BY <1>1, <2>2, <2>3, <3>1, BufferAllocated, Zenon DEF BufferOK
    <3>2. CASE UNCHANGED buffer
      BY <2>3, <3>2, BufferKept, Zenon
    <3> QED
      BY <2>4, <3>1, <3>2, Zenon
  <2> QED
    BY <1>0, <1>1, <2>1, <2>2, <2>3, <2>5, BrightParts, Zenon DEF updateType
<1>7. CASE begin
  <2>1. BufferOK' /\ PixelsFit' /\ brightness' \in Byte
    BY <1>7, BufferKept, Zenon DEF begin
  <2>2. PinsOK'
    BY <1>1, <1>7, ConstantsFit, Zenon DEF begin, PinsOK
  <2> QED
    BY <1>1, <1>7, <2>1, <2>2, BrightParts, Zenon DEF begin, format
<1>8. CASE \E p \in Pins : setPin(p)
  <2>1. PICK p \in Pins : setPin(p)
    BY <1>8
  <2>2. BufferOK' /\ PixelsFit' /\ brightness' \in Byte
    BY <2>1, BufferKept, Zenon DEF setPin
  <2>3. PinsOK'
    BY <1>1, <2>1, ConstantsFit, PinTables, Zenon DEF setPin, PinsOK
  <2> QED
    BY <1>1, <2>1, <2>2, <2>3, BrightParts, Zenon DEF setPin, format
<1>9. CASE \E n \in Lengths, c \in Colour :
             \/ setPixelColorRGB(n, c)
             \/ setPixelColorRGBW(n, c)
             \/ setPixelColor32Bit(n, c)
  <2>1. PICK n \in Lengths, c \in Colour :
           SetPixel(n, [c EXCEPT !["w"] = 0]) \/ SetPixel(n, c)
    BY <1>9, Zenon DEF setPixelColorRGB, setPixelColorRGBW, setPixelColor32Bit
  <2>2. c \in [Channels -> Byte] /\ [c EXCEPT !["w"] = 0] \in [Channels -> Byte]
    BY ConstantsFit, Zenon
  <2> QED
    BY <2>1, <2>2, BufferStored, Zenon
<1>10. CASE \E b \in Brights : setBrightness(b)
  BY <1>10, BufferRescaled, ConstantsFit, Zenon
<1>11. CASE clear
  <2>1. pixels' = [i \in 0 .. numBytes - 1 |-> 0] /\ brightness' \in Byte
    BY <1>1, <1>11, Zenon DEF clear, BufferOK
  <2>2. BufferOK' /\ \A i \in DOMAIN pixels' : pixels'[i] = 0
    BY <1>1, <1>11, <2>1, ConstantsFit, ZenonT(40) DEF clear, BufferOK
  <2>3. PixelsFit'
    BY <2>1, <2>2, ZerosFit, Zenon
  <2> QED
    BY <1>0, <1>1, <1>11, <2>1, <2>2, <2>3, BrightParts, Zenon DEF clear, format
<1>12. CASE show
  <2>1. BufferOK' /\ PixelsFit' /\ brightness' \in Byte
    BY <1>12, BufferKept, Zenon DEF show
  <2>2. PinsOK'
    BY <1>1, <1>12, SnapshotFits, ZenonT(40) DEF show, PinsOK
  <2> QED
    BY <1>1, <1>12, <2>1, <2>2, BrightParts, Zenon DEF show, format
<1>13. CASE UNCHANGED vars
  BY <1>13, Zenon
  DEF vars, buffer, format, output, BrightInv, TypeOK, PixelsFit
<1> QED
  BY <1>2, <1>3, <1>4, <1>5, <1>6, <1>7, <1>8, <1>9, <1>10, <1>11, <1>12, <1>13, Zenon
  DEF Next

\* The variables of the driver have their types.
THEOREM TypeCorrect == Spec => []TypeOK
<1>1. BrightInv => TypeOK
  BY Zenon DEF BrightInv
<1> QED
  BY <1>1, BrightInit, BrightStep, PTL DEF Spec

\* No stored byte is ever brighter than the brightness in force allows.
THEOREM StaysWithin == Spec => []WithinBrightness
<1>1. BrightInv => WithinBrightness
  <2> SUFFICES ASSUME BrightInv, NEW i \in DOMAIN pixels
               PROVE  pixels[i] <= getBrightness
    BY Zenon DEF WithinBrightness
  <2>1. pixels[i] \in 0 .. Dec(brightness)
    BY Zenon DEF BrightInv, PixelsFit
  <2> QED
    BY <2>1, SMT DEF getBrightness
<1> QED
  BY <1>1, BrightInit, BrightStep, PTL DEF Spec

\* The 16-bit product of setBrightness never overflows.
THEOREM ScalesExactly == Spec => []NoScaleOverflow
<1>1. BrightInv => NoScaleOverflow
  <2> SUFFICES ASSUME BrightInv, NEW i \in DOMAIN pixels, NEW b \in Byte
               PROVE  pixels[i] * Scale(brightness, b) < Word
    BY Zenon DEF NoScaleOverflow
  <2>1. pixels[i] \in 0 .. Dec(brightness) /\ brightness \in Byte
    BY Zenon DEF BrightInv, PixelsFit, TypeOK
  <2>2. pixels[i] * Scale(brightness, b) \in 0 .. Word - 1
    BY <2>1, RescaledFits, Zenon
  <2>3. \A x \in 0 .. Word - 1 : x < Word
    BY SMT DEF Word
  <2> QED
    BY <2>2, <2>3, Zenon
<1> QED
  BY <1>1, BrightInit, BrightStep, PTL DEF Spec

-----------------------------------------------------------------------------
(***************************************************************************)
(* The output pin.                                                         *)
(***************************************************************************)

\* The driver drives its current pin alone, and only after begin().
THEOREM DrivesOnePin == Spec => []OnlyPinDriven
<1>1. Init => OnlyPinDriven
  BY Zenon DEF Init, OnlyPinDriven
<1>2. OnlyPinDriven /\ [Next]_vars => OnlyPinDriven'
  <2> SUFFICES ASSUME OnlyPinDriven, [Next]_vars PROVE OnlyPinDriven'
    OBVIOUS
  <2>1. \A p \in Pins : p >= 0
    BY NeoPixelAssumption, SMT
  <2>2. CASE UNCHANGED <<live, output>>
    BY <2>2, Zenon DEF OnlyPinDriven, output
  <2>14. CASE show
    BY <2>14, Zenon DEF show, OnlyPinDriven
  <2>3. CASE \E n \in Lengths, p \in Pins, t \in Types : createNeoPixel(n, p, t)
    BY <2>3 DEF createNeoPixel, OnlyPinDriven
  <2>4. CASE createNeoPixelNoParams
    BY <2>4 DEF createNeoPixelNoParams, OnlyPinDriven
  <2>5. CASE freeNeoPixel
    BY <2>5 DEF freeNeoPixel, OnlyPinDriven
  <2>6. CASE begin
    BY <2>6 DEF begin, OnlyPinDriven
  <2>7. CASE \E p \in Pins : setPin(p)
    BY <2>1, <2>7 DEF setPin, OnlyPinDriven
  <2>8. CASE UNCHANGED vars
    BY <2>2, <2>8, Zenon DEF vars
  <2>9. CASE \E n \in Lengths : updateLength(n)
    BY <2>2, <2>9, Zenon DEF updateLength
  <2>10. CASE \E t \in Types : updateType(t)
    BY <2>2, <2>10, Zenon DEF updateType
  <2>11. CASE \E n \in Lengths, c \in Colour :
                \/ setPixelColorRGB(n, c)
                \/ setPixelColorRGBW(n, c)
                \/ setPixelColor32Bit(n, c)
    BY <2>2, <2>11, Zenon
    DEF setPixelColorRGB, setPixelColorRGBW, setPixelColor32Bit, SetPixel
  <2>12. CASE \E b \in Brights : setBrightness(b)
    BY <2>2, <2>12, Zenon DEF setBrightness
  <2>13. CASE clear
    BY <2>2, <2>13, Zenon DEF clear
  <2> QED
    BY <2>3, <2>4, <2>5, <2>6, <2>7, <2>8, <2>9, <2>10, <2>11, <2>12, <2>13, <2>14, Zenon
    DEF Next
<1> QED
  BY <1>1, <1>2, PTL DEF Spec

\* The mask of a pin of PORTF is its own bit, whatever port the table has it
\* in: the reason why show() leaves the line low.
LineInv == LineLow /\ (live /\ pin \in 0 .. 7 => pinMask = {pin})

\* The data line is low between two frames.
THEOREM LineRests == Spec => []LineLow
<1>1. Init => LineInv
  BY Zenon DEF Init, LineInv, LineLow
<1>2. LineInv /\ [Next]_vars => LineInv'
  <2> SUFFICES ASSUME LineInv, [Next]_vars PROVE LineInv'
    OBVIOUS
  <2>1. CASE UNCHANGED <<live, output>>
    BY <2>1, Zenon DEF LineInv, LineLow, output
  <2>2. CASE \E n \in Lengths, p \in Pins, t \in Types : createNeoPixel(n, p, t)
    BY <2>2, PinTables, Zenon DEF createNeoPixel, LineInv, LineLow
  <2>3. CASE createNeoPixelNoParams
    <3>1. -1 \notin 0 .. 7
      BY SMT
    <3> QED
      BY <2>3, <3>1, Zenon DEF createNeoPixelNoParams, LineInv, LineLow
  <2>4. CASE freeNeoPixel
    BY <2>4, Zenon DEF freeNeoPixel, LineInv, LineLow
  <2>5. CASE begin
    <3>1. \A p \in 0 .. 7 : p >= 0
      BY SMT
    <3> QED
      BY <2>5, <3>1, Zenon DEF begin, LineInv, LineLow, Bit
  <2>6. CASE \E p \in Pins : setPin(p)
    <3>1. PICK p \in Pins : setPin(p)
      BY <2>6
    <3>2. p \in 0 .. 7 => pinMask' = {p}
      BY <3>1, PinTables, Zenon DEF setPin
    <3>3. begun' /\ p \in 0 .. 7 => p \notin portF'
      BY <3>1, Zenon DEF setPin, Bit
    <3> QED
      BY <3>1, <3>2, <3>3, Zenon DEF setPin, LineInv, LineLow
  <2>7. CASE show
    <3>1. pin' = pin /\ pinMask' = pinMask /\ live' = live
      BY <2>7, Zenon DEF show
    <3>2. \A p : pinMask = {p} => p \notin portF'
      BY <2>7, Zenon DEF show
    <3> QED
      BY <3>1, <3>2, Zenon DEF LineInv, LineLow
  <2>8. \/ \E n \in Lengths : updateLength(n)
        \/ \E t \in Types : updateType(t)
        \/ \E n \in Lengths, c \in Colour :
             \/ setPixelColorRGB(n, c)
             \/ setPixelColorRGBW(n, c)
             \/ setPixelColor32Bit(n, c)
        \/ \E b \in Brights : setBrightness(b)
        \/ clear
        \/ UNCHANGED vars
        => UNCHANGED <<live, output>>
    BY Zenon DEF updateLength, updateType, setPixelColorRGB, setPixelColorRGBW,
       setPixelColor32Bit, SetPixel, setBrightness, clear, vars
  <2> QED
    BY <2>1, <2>2, <2>3, <2>4, <2>5, <2>6, <2>7, <2>8, Zenon DEF Next
<1>3. LineInv => LineLow
  BY Zenon DEF LineInv
<1> QED
  BY <1>1, <1>2, <1>3, PTL DEF Spec

-----------------------------------------------------------------------------
(***************************************************************************)
(* The buffer.                                                             *)
(***************************************************************************)

\* Without a buffer there are no bytes, and so none that a change of type
\* could give to another pixel.
NoBytes == ~ptr => numBytes = 0

\* An allocation sets numBytes to 0 exactly when it fails.
LEMMA AllocateNoBytes ==
  ASSUME NEW n, NEW o, Allocate(n, o)
  PROVE  NoBytes'
BY DEF Allocate, NoBytes

\* NoBytes is kept by every call.
LEMMA NoBytesStep == NoBytes /\ [Next]_vars => NoBytes'
<1> SUFFICES ASSUME NoBytes, [Next]_vars PROVE NoBytes'
  OBVIOUS
<1>1. CASE UNCHANGED <<ptr, numBytes>>
  BY <1>1, Zenon DEF NoBytes
<1>2. CASE \E n, o : Allocate(n, o)
  BY <1>2, AllocateNoBytes, Zenon
<1>3. CASE createNeoPixelNoParams
  BY <1>3, Zenon DEF createNeoPixelNoParams, NoBytes
<1> QED
  BY <1>1, <1>2, <1>3, Zenon
  DEF Next, vars, buffer, createNeoPixel, freeNeoPixel, updateLength, updateType,
      begin, setPin, show, setPixelColorRGB, setPixelColorRGBW,
      setPixelColor32Bit, SetPixel, setBrightness, clear

\* When the layout of the buffer changes, all of its bytes are 0.
THEOREM LayoutClears == Spec => RelayoutClears
<1> DEFINE Zero == \A i \in DOMAIN pixels' : pixels'[i] = 0
           Kept == numLEDs' = numLEDs /\ BytesPerPixel(off') = BytesPerPixel(off)
<1>1. ASSUME BrightInv, NoBytes, [Next]_vars
      PROVE  Kept \/ Zero
  <2>1. /\ BufferOK /\ off \in Offsets /\ numLEDs \in 0 .. Word - 1
    BY <1>1, Zenon DEF BrightInv, TypeOK, BufferOK
  <2>2. CASE \E n \in 0 .. Word - 1, o \in Offsets : Allocate(n, o)
    BY <2>2, AllocateGives, Zenon
  <2>3. CASE UNCHANGED <<numLEDs, off>>
    BY <2>3, Zenon
  <2>4. CASE \E n \in Lengths, p \in Pins, t \in Types : createNeoPixel(n, p, t)
    BY <2>2, <2>4, ConstantsFit, TypeFields, Zenon DEF createNeoPixel
  <2>5. CASE createNeoPixelNoParams
    BY <2>5, EmptyBuffer, Zenon DEF createNeoPixelNoParams
  <2>6. CASE \E n \in Lengths : updateLength(n)
    BY <2>1, <2>2, <2>6, ConstantsFit, Zenon DEF updateLength
  <2>7. CASE \E t \in Types : updateType(t)
    <3>1. PICK t \in Types : updateType(t)
      BY <2>7
    <3>2. CASE ptr /\ BytesPerPixel(t.off) # BytesPerPixel(off)
      BY <2>1, <2>2, <3>1, <3>2, TypeFields, Zenon DEF updateType
    <3>3. CASE ~ptr
      <4>1. pixels' = pixels
        BY <3>1, <3>3, Zenon DEF updateType, buffer
      <4>2. numBytes = 0 /\ pixels \in [0 .. numBytes - 1 -> Byte]
        BY <1>1, <2>1, <3>3, Zenon DEF NoBytes, BufferOK
      <4>3. 0 .. 0 - 1 = {}
        BY SMT
      <4> QED
        BY <4>1, <4>2, <4>3, Zenon
    <3>4. CASE BytesPerPixel(t.off) = BytesPerPixel(off)
      BY <3>1, <3>4, Zenon DEF updateType, buffer
    <3> QED
      BY <3>2, <3>3, <3>4, Zenon
  <2>8. \/ freeNeoPixel
        \/ begin
        \/ \E p \in Pins : setPin(p)
        \/ show
        \/ \E n \in Lengths, c \in Colour :
             \/ setPixelColorRGB(n, c)
             \/ setPixelColorRGBW(n, c)
             \/ setPixelColor32Bit(n, c)
        \/ \E b \in Brights : setBrightness(b)
        \/ clear
        \/ UNCHANGED vars
        => UNCHANGED <<numLEDs, off>>
    BY Zenon DEF freeNeoPixel, begin, setPin, show, setPixelColorRGB, setPixelColorRGBW,
       setPixelColor32Bit, SetPixel, setBrightness, clear, vars, buffer, format
  <2> QED
    BY <1>1, <2>3, <2>4, <2>5, <2>6, <2>7, <2>8, Zenon DEF Next
<1>2. ASSUME BrightInv, NoBytes, [Next]_vars
      PROVE  [numLEDs' # numLEDs \/ BytesPerPixel(off') # BytesPerPixel(off)
                => \A i \in DOMAIN pixels' : pixels'[i] = 0]_vars
  BY <1>1, <1>2, Zenon
<1>3. Init => NoBytes
  BY Zenon DEF Init, NoBytes
<1> QED
  BY <1>2, <1>3, BrightInit, BrightStep, NoBytesStep, PTL DEF Spec, RelayoutClears

\* What the driver is safe for: strips short enough for their bytes to be
\* counted in a uint16_t. LongStrip shows what happens to the others.
ShortStrips == \A n \in Lengths : n * 4 < Word

\* The strip is one of those, or has no pixel; its bytes are all there.
FitsInv == BrightInv /\ numLEDs \in Lengths \cup {0} /\ BufferFits

\* An allocation for a short strip, or one that fails, keeps the invariant.
LEMMA AllocateFits ==
  ASSUME ShortStrips, NEW n \in Lengths \cup {0}, NEW o \in Offsets, off' = o,
         Allocate(n, o)
  PROVE  numLEDs' \in Lengths \cup {0} /\ BufferFits'
<1>1. BytesPerPixel(o) \in {3, 4}
  BY OffsetsFit
<1>2. (n * BytesPerPixel(o)) % Word = n * BytesPerPixel(o)
  <2>1. n \in Nat /\ n * 4 < Word
    <3>1. \A m \in Lengths : m \in Nat
      <4>1. \A m \in 0 .. Word - 1 : m \in Nat
        BY SMT
      <4> QED
        BY <4>1, ConstantsFit, Zenon
    <3>2. 0 \in Nat /\ 0 * 4 < Word
      BY SMT DEF Word
    <3> QED
      BY <3>1, <3>2, Zenon DEF ShortStrips
  <2>2. n * BytesPerPixel(o) \in Nat /\ n * BytesPerPixel(o) < Word
    BY <1>1, <2>1, SMT DEF Word
  <2>3. \A x \in Nat : x < Word => x % Word = x
    BY SMT DEF Word
  <2> QED
    BY <2>2, <2>3, Zenon
<1>3. 0 * BytesPerPixel(o) = 0
  BY <1>1, SMT
<1> QED
  BY <1>2, <1>3, Zenon DEF Allocate, BufferFits

\* FitsInv is kept by every call.
LEMMA FitsStep ==
  ASSUME ShortStrips
  PROVE  FitsInv /\ [Next]_vars => FitsInv'
<1> SUFFICES ASSUME FitsInv, [Next]_vars PROVE FitsInv'
  OBVIOUS
<1> DEFINE Fits == numLEDs' \in Lengths \cup {0} /\ BufferFits'
<1>1. BrightInv' /\ off \in Offsets
  BY BrightStep, Zenon DEF FitsInv, BrightInv, TypeOK
<1>2. CASE UNCHANGED <<buffer, off>>
  BY <1>1, <1>2, Zenon DEF FitsInv, BufferFits, buffer
<1>3. CASE \E n \in Lengths \cup {0}, o \in Offsets : off' = o /\ Allocate(n, o)
  BY <1>1, <1>3, AllocateFits, Zenon DEF FitsInv
<1>4. CASE \E n \in Lengths, p \in Pins, t \in Types : createNeoPixel(n, p, t)
  BY <1>3, <1>4, TypeFields, Zenon DEF createNeoPixel
<1>5. CASE createNeoPixelNoParams
  <2>1. BytesPerPixel(OffsetsGRB) \in {3, 4}
    BY DefaultType, OffsetsFit
  <2>2. 0 * BytesPerPixel(OffsetsGRB) = 0
    BY <2>1, SMT
  <2> QED
    BY <1>1, <1>5, <2>2, Zenon DEF createNeoPixelNoParams, FitsInv, BufferFits
<1>6. CASE \E n \in Lengths : updateLength(n)
  <2>1. PICK n \in Lengths : updateLength(n)
    BY <1>6
  <2>2. off' = off /\ Allocate(n, off)
    BY <2>1, Zenon DEF updateLength, format
  <2> QED
    BY <1>1, <1>3, <2>2, Zenon
<1>7. CASE \E t \in Types : updateType(t)
  <2>1. PICK t \in Types : updateType(t)
    BY <1>7
  <2>2. t.off \in Offsets /\ off' = t.off /\ numLEDs \in Lengths \cup {0}
    BY <2>1, TypeFields, Zenon DEF updateType, FitsInv
  <2>3. CASE ptr /\ BytesPerPixel(t.off) # BytesPerPixel(off)
    BY <1>3, <2>1, <2>2, <2>3, Zenon DEF updateType
  <2>4. CASE ptr /\ BytesPerPixel(t.off) = BytesPerPixel(off)
    <3>1. UNCHANGED buffer
      BY <2>1, <2>4, Zenon DEF updateType
    <3> QED
      BY <1>1, <2>2, <2>4, <3>1, Zenon DEF FitsInv, BufferFits, buffer
  <2>5. CASE ~ptr
    <3>1. UNCHANGED buffer
      BY <2>1, <2>5, Zenon DEF updateType
    <3>2. BytesPerPixel(off) \in {3, 4} /\ BytesPerPixel(off') \in {3, 4}
      BY <1>1, <2>2, OffsetsFit
    <3>3. numLEDs = 0 /\ numBytes = numLEDs * BytesPerPixel(off)
      BY <2>5, Zenon DEF FitsInv, BufferFits
    <3>4. 0 * BytesPerPixel(off) = 0 /\ 0 * BytesPerPixel(off') = 0
      BY <3>2, SMT
    <3>5. numLEDs' = 0 /\ numBytes' = numLEDs' * BytesPerPixel(off')
      BY <3>1, <3>3, <3>4, Zenon DEF buffer
    <3> QED
      BY <1>1, <3>5, Zenon DEF FitsInv, BufferFits
  <2> QED
    BY <2>3, <2>4, <2>5, Zenon
<1>8. \/ freeNeoPixel
      \/ begin
      \/ \E p \in Pins : setPin(p)
      \/ show
      \/ \E n \in Lengths, c \in Colour :
           \/ setPixelColorRGB(n, c)
           \/ setPixelColorRGBW(n, c)
           \/ setPixelColor32Bit(n, c)
      \/ \E b \in Brights : setBrightness(b)
      \/ clear
      \/ UNCHANGED vars
      => UNCHANGED <<ptr, numLEDs, numBytes, off>>
  BY Zenon DEF freeNeoPixel, begin, setPin, show, setPixelColorRGB, setPixelColorRGBW,
     setPixelColor32Bit, SetPixel, setBrightness, clear, vars, buffer, format
<1>9. CASE UNCHANGED <<ptr, numLEDs, numBytes, off>>
  BY <1>1, <1>9, Zenon DEF FitsInv, BufferFits
<1> QED
  BY <1>4, <1>5, <1>6, <1>7, <1>8, <1>9, Zenon DEF Next

\* FitsInv holds at first.
LEMMA FitsInit == Init => FitsInv
<1>1. \A o \in Offsets : 0 * BytesPerPixel(o) = 0
  <2>1. \A x \in {3, 4} : 0 * x = 0
    BY SMT
  <2> QED
    BY <2>1, OffsetsFit, Zenon
<1> QED
  BY <1>1, BrightInit, DefaultType, Zenon DEF Init, FitsInv, BufferFits

\* On short strips numBytes is what the pixels need.
THEOREM CountsTheBytes ==
  ASSUME ShortStrips
  PROVE  Spec => []BufferFits
<1>1. FitsInv => BufferFits
  BY Zenon DEF FitsInv
<1>2. FitsInv /\ [Next]_vars => FitsInv'
  BY FitsStep
<1> QED
  BY <1>1, <1>2, FitsInit, PTL DEF Spec

\* What fits in a word is left alone by a 16-bit store.
LEMMA WordFits ==
  ASSUME NEW k \in 0 .. Word - 1
  PROVE  k % Word = k
<1>1. k \in Int /\ 0 <= k /\ k < 65536
  BY DEF Word
<1> QED
  BY <1>1, SMTT(30) DEF Word

\* On short strips, the index of a pixel does not wrap around.
LEMMA FirstIs ==
  ASSUME FitsInv, NEW n \in 0 .. numLEDs - 1
  PROVE  First(n) = n * BytesPerPixel(off)
<1>1. /\ off \in Offsets /\ numLEDs \in 0 .. Word - 1
      /\ numBytes \in 0 .. Word - 1
      /\ numBytes = numLEDs * BytesPerPixel(off)
  BY Zenon DEF FitsInv, BrightInv, TypeOK, BufferFits
<1>2. BytesPerPixel(off) \in {3, 4}
  BY <1>1, OffsetsFit, Zenon
<1>3. numLEDs \in Nat /\ n \in Nat /\ n <= numLEDs - 1
  BY <1>1, SMT
<1> DEFINE p == n * BytesPerPixel(off)
<1>4. p \in Nat /\ p <= numBytes
  BY <1>1, <1>2, <1>3, SMT
<1>5. First(n) = p % Word
  BY Zenon DEF First
<1> HIDE DEF p
<1>6. p \in 0 .. Word - 1
  <2>1. Word \in Nat
    BY SMT DEF Word
  <2>2. numBytes <= Word - 1
    BY <1>1, <2>1, SMT
  <2>3. p <= Word - 1
    BY <1>1, <1>4, <2>1, <2>2, SMT
  <2> QED
    BY <1>4, <2>1, <2>3, SMT
<1>7. First(n) = p
  BY <1>5, <1>6, WordFits, Zenon
<1> QED
  BY <1>7 DEF p

\* On short strips, no setPixelColor* writes outside the buffer.
THEOREM NeverOverruns ==
  ASSUME ShortStrips
  PROVE  Spec => []StoresInBounds
<1>1. FitsInv => StoresInBounds
  <2> SUFFICES ASSUME FitsInv, NEW n \in 0 .. numLEDs - 1, NEW c \in Channels
               PROVE  First(n) + off[c] \in DOMAIN pixels
    BY Zenon DEF StoresInBounds
  <2>1. /\ off \in Offsets /\ numLEDs \in 0 .. Word - 1
        /\ pixels \in [0 .. numBytes - 1 -> Byte]
        /\ numBytes = numLEDs * BytesPerPixel(off)
    BY Zenon DEF FitsInv, BrightInv, TypeOK, BufferFits
  <2>2. BytesPerPixel(off) \in {3, 4} /\ off[c] \in 0 .. 3 /\ off[c] < BytesPerPixel(off)
    BY <2>1, OffsetsFit, Zenon
  <2>3. numLEDs \in Nat /\ n \in Nat /\ n <= numLEDs - 1
    BY <2>1, SMT
  <2>4. n * BytesPerPixel(off) + off[c] \in 0 .. numBytes - 1
    BY <2>1, <2>2, <2>3, SMT
  <2> QED
    BY <2>1, <2>4, FirstIs, Zenon
<1>2. FitsInv /\ [Next]_vars => FitsInv'
  BY FitsStep
<1> QED
  BY <1>1, <1>2, FitsInit, PTL DEF Spec
-----------------------------------------------------------------------------
(***************************************************************************)
(* Reading back what was set.                                              *)
(***************************************************************************)

\* Where channel d of pixel n is in the buffer.
At(n, d) == n * BytesPerPixel(off) + off[d]

\* The channels of a pixel of a type with offsets o.
StoredOf(o) == IF BytesPerPixel(o) = 4 THEN Channels ELSE Channels \ {"w"}

\* No two channels that a pixel has share a byte, and each byte has one.
LEMMA OffsetsDiffer ==
  ASSUME NEW o \in Offsets
  PROVE  /\ \A d, e \in StoredOf(o) : d # e => o[d] # o[e]
         /\ \A k \in 0 .. BytesPerPixel(o) - 1 : \E d \in StoredOf(o) : o[d] = k
<1>1. o \in [Channels -> 0 .. 3]
  BY OffsetsFit
<1>2. CASE o["w"] = o["r"]
  <2>1. {o["r"], o["g"], o["b"]} = 0 .. 2
    BY <1>2, Zenon DEF Offsets
  <2>2. 0 \in 0 .. 2 /\ 1 \in 0 .. 2 /\ 2 \in 0 .. 2
    BY SMT
  <2>3. /\ 0 = o["r"] \/ 0 = o["g"] \/ 0 = o["b"]
        /\ 1 = o["r"] \/ 1 = o["g"] \/ 1 = o["b"]
        /\ 2 = o["r"] \/ 2 = o["g"] \/ 2 = o["b"]
    BY <2>1, <2>2, Zenon
  <2>4. StoredOf(o) = {"r", "g", "b"} /\ BytesPerPixel(o) = 3
    BY <1>2, SMT DEF StoredOf, BytesPerPixel, Channels
  <2>5. \A d, e \in StoredOf(o) : d # e => o[d] # o[e]
    BY <2>3, <2>4, SMT
  <2>6. \A k \in 0 .. 3 - 1 : k = 0 \/ k = 1 \/ k = 2
    BY SMT
  <2>7. "r" \in StoredOf(o) /\ "g" \in StoredOf(o) /\ "b" \in StoredOf(o)
    BY <2>4
  <2>8. \A k \in 0 .. 3 - 1 : \E d \in StoredOf(o) : o[d] = k
    BY <2>3, <2>6, <2>7, Zenon
  <2> QED
    BY <2>4, <2>5, <2>8, Zenon
<1>3. CASE o["w"] # o["r"]
  <2>1. {o["r"], o["g"], o["b"], o["w"]} = 0 .. 3
    BY <1>3, Zenon DEF Offsets
  <2>2. 0 \in 0 .. 3 /\ 1 \in 0 .. 3 /\ 2 \in 0 .. 3 /\ 3 \in 0 .. 3
    BY SMT
  <2>3. /\ 0 = o["r"] \/ 0 = o["g"] \/ 0 = o["b"] \/ 0 = o["w"]
        /\ 1 = o["r"] \/ 1 = o["g"] \/ 1 = o["b"] \/ 1 = o["w"]
        /\ 2 = o["r"] \/ 2 = o["g"] \/ 2 = o["b"] \/ 2 = o["w"]
        /\ 3 = o["r"] \/ 3 = o["g"] \/ 3 = o["b"] \/ 3 = o["w"]
    BY <2>1, <2>2, Zenon
  <2>4. StoredOf(o) = {"r", "g", "b", "w"} /\ BytesPerPixel(o) = 4
    BY <1>3, SMT DEF StoredOf, BytesPerPixel, Channels
  <2>5. \A d, e \in StoredOf(o) : d # e => o[d] # o[e]
    BY <2>3, <2>4, SMT
  <2>6. \A k \in 0 .. 4 - 1 : k = 0 \/ k = 1 \/ k = 2 \/ k = 3
    BY SMT
  <2>7. /\ "r" \in StoredOf(o) /\ "g" \in StoredOf(o) /\ "b" \in StoredOf(o)
        /\ "w" \in StoredOf(o)
    BY <2>4
  <2>8. \A k \in 0 .. 4 - 1 : \E d \in StoredOf(o) : o[d] = k
    BY <2>3, <2>6, <2>7, Zenon
  <2> QED
    BY <2>4, <2>5, <2>8, Zenon
<1> QED
  BY <1>2, <1>3

\* A channel of a pixel is in the buffer, and apart from those of all others.
LEMMA PixelsApart ==
  ASSUME FitsInv, NEW n \in 0 .. numLEDs - 1, NEW m \in 0 .. numLEDs - 1,
         NEW d \in Channels, NEW e \in Channels
  PROVE  /\ At(n, d) \in 0 .. numBytes - 1
         /\ m # n => At(m, d) # At(n, e)
         /\ At(n, d) = At(n, e) => off[d] = off[e]
<1>1. /\ off \in Offsets /\ numLEDs \in 0 .. Word - 1
      /\ numBytes = numLEDs * BytesPerPixel(off)
  BY Zenon DEF FitsInv, BrightInv, TypeOK, BufferFits
<1>2. /\ BytesPerPixel(off) \in {3, 4}
      /\ off[d] \in 0 .. 3 /\ off[d] < BytesPerPixel(off)
      /\ off[e] \in 0 .. 3 /\ off[e] < BytesPerPixel(off)
  BY <1>1, OffsetsFit, Zenon
<1>3. numLEDs \in Nat /\ n \in Nat /\ n <= numLEDs - 1 /\ m \in Nat
  BY <1>1, SMT
<1> DEFINE B == BytesPerPixel(off)
<1>4. numBytes = numLEDs * B /\ At(n, d) = n * B + off[d] /\ At(n, e) = n * B + off[e]
      /\ At(m, d) = m * B + off[d]
  BY <1>1 DEF At
<1> HIDE DEF B
<1>5. B \in {3, 4} /\ off[d] < B /\ off[e] < B
  BY <1>2 DEF B
<1> QED
  BY <1>2, <1>3, <1>4, <1>5, SMT

\* After a colour is stored, a channel that the pixel has is that of the colour,
\* dimmed, and those of the other pixels are as before.
LEMMA StoreReads ==
  ASSUME FitsInv, NEW n \in 0 .. numLEDs - 1, NEW m \in 0 .. numLEDs - 1,
         NEW c \in [Channels -> Byte], NEW d \in Stored
  PROVE  Store(n, c)[At(m, d)] = IF m = n THEN Dimmed(c[d]) ELSE pixels[At(m, d)]
<1> DEFINE p1 == [pixels EXCEPT ![At(n, "w")] = Dimmed(c["w"])]
           p2 == [p1 EXCEPT ![At(n, "r")] = Dimmed(c["r"])]
           p3 == [p2 EXCEPT ![At(n, "g")] = Dimmed(c["g"])]
           p4 == [p3 EXCEPT ![At(n, "b")] = Dimmed(c["b"])]
<1>1. Store(n, c) = p4
  BY FirstIs, Zenon DEF Store, At
<1>2. /\ off \in Offsets /\ pixels \in [0 .. numBytes - 1 -> Byte]
      /\ d \in {"r", "g", "b", "w"} /\ d \in Channels
      /\ "r" \in Stored /\ "g" \in Stored /\ "b" \in Stored
      /\ "r" \in Channels /\ "g" \in Channels /\ "b" \in Channels /\ "w" \in Channels
  BY Zenon DEF FitsInv, BrightInv, TypeOK, Stored, Channels
<1>3. At(m, d) \in DOMAIN pixels
  BY <1>2, PixelsApart, Zenon
<1>4. p4[At(m, d)] = IF At(m, d) = At(n, "b") THEN Dimmed(c["b"])
                     ELSE IF At(m, d) = At(n, "g") THEN Dimmed(c["g"])
                     ELSE IF At(m, d) = At(n, "r") THEN Dimmed(c["r"])
                     ELSE IF At(m, d) = At(n, "w") THEN Dimmed(c["w"])
                     ELSE pixels[At(m, d)]
  <2> HIDE DEF p3
  <2>1. DOMAIN p1 = DOMAIN pixels /\ DOMAIN p2 = DOMAIN pixels /\ DOMAIN p3 = DOMAIN pixels
    BY DEF p3
  <2>2. p4[At(m, d)] = IF At(m, d) = At(n, "b") THEN Dimmed(c["b"]) ELSE p3[At(m, d)]
    BY <1>3, <2>1
  <2>3. p3[At(m, d)] = IF At(m, d) = At(n, "g") THEN Dimmed(c["g"]) ELSE p2[At(m, d)]
    BY <1>3, <2>1 DEF p3
  <2>4. p2[At(m, d)] = IF At(m, d) = At(n, "r") THEN Dimmed(c["r"]) ELSE p1[At(m, d)]
    BY <1>3, <2>1
  <2>5. p1[At(m, d)] = IF At(m, d) = At(n, "w") THEN Dimmed(c["w"]) ELSE pixels[At(m, d)]
    BY <1>3, <2>1
  <2> QED
    BY <2>2, <2>3, <2>4, <2>5, Zenon
<1> HIDE DEF p4
<1>5. CASE m # n
  <2>1. \A e \in Channels : At(m, d) # At(n, e)
    BY <1>2, <1>5, PixelsApart, Zenon
  <2> QED
    BY <1>1, <1>2, <1>4, <1>5, <2>1
<1>6. CASE m = n
  <2>1. \A e \in Stored : e # d => At(n, d) # At(n, e)
    <3>1. \A e \in Stored : e \in Channels
      BY Zenon DEF Stored
    <3>2. \A e \in Stored : e # d => off[d] # off[e]
      BY <1>2, OffsetsDiffer, Zenon DEF Stored, StoredOf
    <3> QED
      BY <1>2, <3>1, <3>2, PixelsApart, Zenon
  <2> QED
    BY <1>1, <1>2, <1>4, <1>6, <2>1
<1> QED
  BY <1>5, <1>6

\* What getPixelColor makes of channels at full brightness: their bytes, each
\* at its place, among zeros.
LEMMA ReadsAtPlaces ==
  ASSUME FitsInv, brightness = 0, NEW n \in 0 .. numLEDs - 1, n < numLEDs,
         NEW bytes, NEW d \in Stored
  PROVE  /\ bytes[At(n, d)] \in getPixelColor(bytes, n)[Place(d)]
         /\ getPixelColor(bytes, n)[Place(d)] \subseteq {0, bytes[At(n, d)]}
<1>1. \A e \in Stored : Place(e) \in 1 .. 4 /\ (Place(e) = Place(d) => e = d)
  BY SMT DEF Place, Stored, Channels
<1> DEFINE Reads(e) == ReadChannel(bytes, n, e)[4 - Place(e) + Place(d)]
<1>2. getPixelColor(bytes, n)[Place(d)] = {Reads(e) : e \in {x \in Stored : Place(d) <= Place(x)}}
  BY <1>1, Zenon DEF getPixelColor
<1>3. \A e : ReadChannel(bytes, n, e) = <<0, 0, 0, bytes[At(n, e)]>>
  BY FirstIs, Zenon DEF ReadChannel, At
<1>4. \A p : \A k \in 1 .. 4 : <<0, 0, 0, p>>[k] = IF k = 4 THEN p ELSE 0
  BY SMT
<1>5. ASSUME NEW e \in Stored, Place(d) <= Place(e)
      PROVE  Reads(e) = IF e = d THEN bytes[At(n, d)] ELSE 0
  <2>1. 4 - Place(e) + Place(d) \in 1 .. 4 /\ (4 - Place(e) + Place(d) = 4 <=> e = d)
    BY <1>1, <1>5, SMT
  <2> DEFINE k == 4 - Place(e) + Place(d)
  <2>2. Reads(e) = <<0, 0, 0, bytes[At(n, e)]>>[k]
    BY <1>3, Zenon
  <2> HIDE DEF k, Reads
  <2>3. k \in 1 .. 4 /\ (k = 4 <=> e = d)
    BY <2>1 DEF k
  <2>4. <<0, 0, 0, bytes[At(n, e)]>>[k] = IF k = 4 THEN bytes[At(n, e)] ELSE 0
    BY <1>4, <2>3, Zenon
  <2> QED
    BY <2>2, <2>3, <2>4, Zenon
<1>6. Place(d) <= Place(d)
  BY <1>1, SMT
<1> HIDE DEF Reads
<1> QED
  BY <1>2, <1>5, <1>6, Zenon

\* On short strips, the colour that is set at full brightness is the one that
\* is read, in every layout, and no other pixel reads differently.
THEOREM ReadsWhatIsSet ==
  ASSUME ShortStrips
  PROVE  Spec => []SetReadsBack
<1>1. FitsInv => SetReadsBack
  <2> SUFFICES ASSUME FitsInv, brightness = 0,
                      NEW n \in 0 .. numLEDs - 1, NEW m \in 0 .. numLEDs - 1, NEW c \in Colour
               PROVE  LET read == getPixelColor(Store(n, c), m)
                      IN  IF m = n
                          THEN \A d \in Stored : /\ read[Place(d)] \subseteq {0, c[d]}
                                                 /\ c[d] \in read[Place(d)]
                          ELSE read = getPixelColor(pixels, m)
    BY Zenon DEF SetReadsBack
  <2>1. c \in [Channels -> Byte] /\ m < numLEDs
    <3>1. numLEDs \in 0 .. Word - 1
      BY Zenon DEF FitsInv, BrightInv, TypeOK
    <3>2. m < numLEDs
      BY <3>1, SMT DEF Word
    <3> QED
      BY <3>2, ConstantsFit, Zenon DEF Colour
  <2>2. \A d \in Stored : Store(n, c)[At(m, d)] = IF m = n THEN c[d] ELSE pixels[At(m, d)]
    <3>1. \A x : Dimmed(x) = x
      BY Zenon DEF Dimmed
    <3> QED
      BY <2>1, <3>1, StoreReads
  <2>3. CASE m = n
    BY <2>1, <2>2, <2>3, ReadsAtPlaces, Zenon
  <2>4. CASE m # n
    <3>1. \A d \in Stored : ReadChannel(Store(n, c), m, d) = ReadChannel(pixels, m, d)
      BY <2>2, <2>4, FirstIs, Zenon DEF ReadChannel, At
    <3>2. \A k \in 1 .. 4 :
            {ReadChannel(Store(n, c), m, d)[4 - Place(d) + k] : d \in {x \in Stored : k <= Place(x)}}
              = {ReadChannel(pixels, m, d)[4 - Place(d) + k] : d \in {x \in Stored : k <= Place(x)}}
      BY <3>1, Zenon
    <3>3. getPixelColor(Store(n, c), m) = getPixelColor(pixels, m)
      BY <3>2, Zenon DEF getPixelColor
    <3> QED
      BY <2>4, <3>3, Zenon
  <2> QED
    BY <2>3, <2>4
<1>2. FitsInv /\ [Next]_vars => FitsInv'
  BY FitsStep
<1> QED
  BY <1>1, <1>2, FitsInit, PTL DEF Spec

-----------------------------------------------------------------------------
(***************************************************************************)
(* The driver as a picture.                                                *)
(***************************************************************************)

\* The bytes of N pixels of a type with offsets o, read as a picture.
PictureOf(bytes, N, o) ==
  [n \in 0 .. N - 1 |-> [c \in StoredOf(o) |-> bytes[n * BytesPerPixel(o) + o[c]]]]

\* The channels of a pixel are those that a canvas may have.
LEMMA ChannelsOf ==
  ASSUME NEW o \in Offsets
  PROVE  /\ StoredOf(o) \subseteq Channels
         /\ \/ BytesPerPixel(o) = 3 /\ StoredOf(o) = Abstract!RGB
            \/ BytesPerPixel(o) = 4 /\ StoredOf(o) = Abstract!RGBW
         /\ Abstract!RGB # Abstract!RGBW
<1>1. BytesPerPixel(o) \in {3, 4}
  BY OffsetsFit
<1>2. /\ Channels = {"r", "g", "b", "w"}
      /\ Abstract!RGB = {"r", "g", "b"}
      /\ Abstract!RGBW = Abstract!RGB \cup {"w"}
  BY Zenon DEF Channels, Abstract!RGB, Abstract!RGBW
<1>3. "w" \notin {"r", "g", "b"}
  BY SMT
<1>4. Channels = Abstract!RGBW /\ Channels \ {"w"} = Abstract!RGB
  BY <1>2, <1>3, SMT
<1>5. Abstract!RGB # Abstract!RGBW
  BY <1>2, <1>3, Zenon
<1>6. CASE BytesPerPixel(o) = 3
  <2>1. BytesPerPixel(o) # 4
    BY <1>6, SMT
  <2> QED
    BY <1>4, <1>5, <1>6, <2>1, Zenon DEF StoredOf
<1>7. CASE BytesPerPixel(o) = 4
  BY <1>4, <1>5, <1>7, Zenon DEF StoredOf
<1>8. Abstract!RGB \subseteq Channels
  BY <1>2, Zenon
<1> QED
  BY <1>1, <1>4, <1>5, <1>6, <1>7, <1>8, Zenon

\* The channels of the pixels lie in the buffer.
LEMMA InBuffer ==
  ASSUME NEW o \in Offsets, NEW N \in Nat, NEW n \in 0 .. N - 1, NEW c \in Channels
  PROVE  n * BytesPerPixel(o) + o[c] \in 0 .. N * BytesPerPixel(o) - 1
<1>1. /\ BytesPerPixel(o) \in {3, 4} /\ o[c] \in 0 .. 3 /\ o[c] < BytesPerPixel(o)
  BY OffsetsFit, Zenon
<1> QED
  BY <1>1, SMT

\* Zero bytes are black pixels.
LEMMA ZerosAreBlack ==
  ASSUME NEW o \in Offsets, NEW N \in Nat, NEW bytes,
         DOMAIN bytes = 0 .. N * BytesPerPixel(o) - 1, \A k \in DOMAIN bytes : bytes[k] = 0
  PROVE  PictureOf(bytes, N, o) = Abstract!Black(0 .. N - 1, StoredOf(o))
<1>1. \A n \in 0 .. N - 1, c \in StoredOf(o) : bytes[n * BytesPerPixel(o) + o[c]] = 0
  BY InBuffer, ChannelsOf, Zenon
<1>2. \A n \in 0 .. N - 1 :
        [c \in StoredOf(o) |-> bytes[n * BytesPerPixel(o) + o[c]]] = [c \in StoredOf(o) |-> 0]
  BY <1>1, Zenon
<1> QED
  BY <1>2, Zenon DEF PictureOf, Abstract!Black

\* The picture of the driver, before and after a step.
LEMMA PictureIs ==
  /\ Picture = PictureOf(pixels, numLEDs, off) /\ Stored = StoredOf(off)
  /\ Picture' = PictureOf(pixels', numLEDs', off') /\ Stored' = StoredOf(off')
BY Zenon DEF Picture, PictureOf, Stored, StoredOf

\* What the steps of the driver keep, as the facts that the canvas needs.
LEMMA FitsGives ==
  ASSUME FitsInv
  PROVE  /\ live \in BOOLEAN /\ off \in Offsets /\ brightness \in Byte
         /\ numLEDs \in Lengths \cup {0} /\ numLEDs \in Nat
         /\ numBytes = numLEDs * BytesPerPixel(off)
         /\ pixels \in [0 .. numBytes - 1 -> 0 .. Dec(brightness)]
         /\ ~ptr => numLEDs = 0
<1>1. \A n \in 0 .. Word - 1 : n \in Nat
  BY SMT
<1> QED
  BY <1>1, Zenon DEF FitsInv, BrightInv, TypeOK, PixelsFit, BufferFits

\* The same facts after a step.
LEMMA FitsGivesNext ==
  ASSUME FitsInv'
  PROVE  /\ off' \in Offsets /\ numLEDs' \in Lengths \cup {0} /\ numLEDs' \in Nat
         /\ numBytes' = numLEDs' * BytesPerPixel(off')
         /\ DOMAIN pixels' = 0 .. numBytes' - 1
         /\ pixels' \in [0 .. numBytes' - 1 -> 0 .. Dec(brightness')]
<1>1. \A n \in 0 .. Word - 1 : n \in Nat
  BY SMT
<1> QED
  BY <1>1, Zenon DEF FitsInv, BrightInv, TypeOK, PixelsFit, BufferFits

\* A buffer of zeros is black.
LEMMA BlackNext ==
  ASSUME FitsInv', \A k \in DOMAIN pixels' : pixels'[k] = 0
  PROVE  Picture' = Abstract!Black(0 .. numLEDs' - 1, Stored')
BY FitsGivesNext, ZerosAreBlack, PictureIs, Zenon

\* An allocation leaves the pixels black, or none.
LEMMA AllocateBlackens ==
  ASSUME FitsInv', NEW n \in Lengths \cup {0}, Allocate(n, off')
  PROVE  /\ Picture' = Abstract!Black(0 .. numLEDs' - 1, Stored')
         /\ numLEDs' = n \/ numLEDs' = 0
<1>1. \A k \in DOMAIN pixels' : pixels'[k] = 0
  BY Zenon DEF Allocate
<1>2. numLEDs' = n \/ numLEDs' = 0
  BY Zenon DEF Allocate
<1> QED
  BY <1>1, <1>2, BlackNext, Zenon

\* Two types with as many bytes a pixel differ by a swap of the channels.
LEMMA TypesSwap ==
  ASSUME NEW o \in Offsets, NEW q \in Offsets, BytesPerPixel(q) = BytesPerPixel(o)
  PROVE  \E swap \in [StoredOf(o) -> StoredOf(o)] :
           /\ \A c, d \in StoredOf(o) : swap[c] = swap[d] => c = d
           /\ \A c \in StoredOf(o) : o[swap[c]] = q[c]
<1> DEFINE swap == [c \in StoredOf(o) |-> CHOOSE d \in StoredOf(o) : o[d] = q[c]]
<1>1. StoredOf(q) = StoredOf(o)
  BY Zenon DEF StoredOf
<1>2. \A c \in StoredOf(o) : q[c] \in 0 .. BytesPerPixel(o) - 1
  <2>1. \A c \in StoredOf(o) : c \in Channels
    BY Zenon DEF StoredOf
  <2>2. BytesPerPixel(q) \in {3, 4} /\ \A c \in Channels : q[c] \in 0 .. 3 /\ q[c] < BytesPerPixel(q)
    BY OffsetsFit, Zenon
  <2> QED
    BY <2>1, <2>2, SMT
<1>3. \A c \in StoredOf(o) : swap[c] \in StoredOf(o) /\ o[swap[c]] = q[c]
  BY <1>2, OffsetsDiffer, Zenon
<1>4. swap \in [StoredOf(o) -> StoredOf(o)]
  BY <1>3, Zenon
<1> HIDE DEF swap
<1>5. \A c, d \in StoredOf(o) : swap[c] = swap[d] => c = d
  <2>1. \A c, d \in StoredOf(o) : c # d => q[c] # q[d]
    BY <1>1, OffsetsDiffer, Zenon
  <2> QED
    BY <1>3, <2>1, Zenon
<1> QED
  BY <1>3, <1>4, <1>5, Zenon

\* A colour is dimmed as on the canvas: the 16 bits of the product are enough,
\* and a stored brightness of 0 is full brightness.
LEMMA DimsAlike ==
  ASSUME brightness \in Byte, NEW x \in Byte
  PROVE  Dimmed(x) = Abstract!Dimmed(x)
<1>1. Abstract!Dimmed(x) = (x * (Dec(brightness) + 1)) \div 256
  BY Zenon DEF Abstract!Dimmed, getBrightness
<1>2. CASE brightness = 0
  <2>1. Dec(brightness) = 255
    BY <1>2, DecIs, Zenon
  <2>2. (x * (255 + 1)) \div 256 = x
    BY SMT DEF Byte
  <2> QED
    BY <1>1, <1>2, <2>1, <2>2 DEF Dimmed
<1>3. CASE brightness # 0
  <2>1. Dec(brightness) + 1 = brightness
    BY <1>3, DecIs, SMT DEF Byte
  <2>2. x * brightness \in Nat /\ x * brightness <= 255 * brightness
    BY TimesMonotone, SMT DEF Byte
  <2>3. Dimmed(x) = (x * brightness) \div 256
    BY <1>3, <2>2, SMT DEF Dimmed, Byte, Word
  <2> QED
    BY <1>1, <2>1, <2>3, Zenon
<1> QED
  BY <1>2, <1>3

\* Rescaling keeps darkness, and the order of the bytes.
LEMMA RescalesInOrder ==
  ASSUME NEW br \in Byte, NEW b \in Byte, NEW x \in 0 .. Dec(br), NEW y \in 0 .. Dec(br)
  PROVE  /\ x = 0 => Rescaled(x, Scale(br, b)) = 0
         /\ x <= y => Rescaled(x, Scale(br, b)) <= Rescaled(y, Scale(br, b))
<1>1. Dec(br) \in 0 .. 255
  BY DecIs, SMT DEF Byte
<1>2. x \in Nat /\ y \in Nat
  BY <1>1, SMT
<1>3. Scale(br, b) \in Nat
  <2>1. CASE Dec(br) = 0
    BY <2>1 DEF Scale
  <2>2. CASE Dec(br) # 0
    <3>1. Dec(br) \in Nat \ {0}
      BY <1>1, <2>2, SMT
    <3>2. ((b + 1) % 256) * 256 - 1 \in Nat \/ b = 255
      BY SMT DEF Byte
    <3>3. 65535 \in Nat
      BY SMT
    <3>4. \A top \in Nat : top \div Dec(br) \in Nat
      BY <3>1, DivTimes, Zenon
    <3>5. CASE b = 255
      <4> DEFINE top == 65535
      <4>1. Scale(br, b) = top \div Dec(br) /\ top \in Nat
        BY <2>2, <3>3, <3>5 DEF Scale
      <4> HIDE DEF top
      <4> QED
        BY <3>4, <4>1, Zenon
    <3>6. CASE b # 255
      <4>1. Scale(br, b) = (((b + 1) % 256) * 256 - 1) \div Dec(br)
        BY <2>2, <3>6 DEF Scale
      <4> QED
        BY <3>2, <3>4, <3>6, <4>1, Zenon
    <3> QED
      BY <3>5, <3>6
  <2> QED
    BY <2>1, <2>2
<1> DEFINE s == Scale(br, b)
<1>4. x * s \in 0 .. Word - 1 /\ y * s \in 0 .. Word - 1
  BY RescaledFits, Zenon
<1>5. s \in Nat
  BY <1>3
<1> HIDE DEF s
<1>6. Rescaled(x, s) = (x * s) \div 256 /\ Rescaled(y, s) = (y * s) \div 256
  <2>1. \A k \in 0 .. Word - 1 : k % Word = k
    BY WordFits, Zenon
  <2> QED
    BY <1>4, <2>1, Zenon DEF Rescaled
<1>7. x <= y => x * s <= y * s
  BY <1>2, <1>5, TimesMonotone, Zenon
<1>8. \A j, k \in Nat : j <= k => j \div 256 <= k \div 256
  BY SMT
<1>9. x * s \in Nat /\ y * s \in Nat
  BY <1>2, <1>5, SMT
<1>10. x = 0 => (x * s) \div 256 = 0
  BY <1>5, SMT
<1> QED
  BY <1>6, <1>7, <1>8, <1>9, <1>10, Zenon DEF s

\* A stored colour sets one pixel of the picture.
LEMMA StoresAsCanvas ==
  ASSUME FitsInv, live, NEW n \in 0 .. Word - 1,
         NEW c \in [Channels -> Byte], \A d \in Channels : c[d] \in Colours \cup {0},
         SetPixel(n, c)
  PROVE  Abstract!Set \/ UNCHANGED Abstract!vars
<1>1. UNCHANGED <<live, numLEDs, off, brightness>>
  BY Zenon DEF SetPixel, format
<1>2. /\ off \in Offsets /\ brightness \in Byte /\ numLEDs \in Nat
  BY FitsGives, Zenon
<1>3. UNCHANGED <<Stored, getBrightness>>
  BY <1>1, Zenon DEF Stored, getBrightness
<1>4. CASE ~(n < numLEDs)
  <2>1. pixels' = pixels
    BY <1>4, Zenon DEF SetPixel
  <2> QED
    BY <1>1, <1>3, <2>1, PictureIs, Zenon DEF Abstract!vars
<1>5. CASE n < numLEDs
  <2> DEFINE colour == [d \in Stored |-> c[d]]
  <2>1. n \in 0 .. numLEDs - 1 /\ pixels' = Store(n, c)
    <3>1. n \in 0 .. numLEDs - 1
      BY <1>2, <1>5, SMT DEF Word
    <3> QED
      BY <1>5, <3>1, Zenon DEF SetPixel
  <2>2. \A d \in Stored : d \in Channels
    BY Zenon DEF Stored
  <2>3. colour \in [Stored -> Colours \cup {0}]
    BY <2>2, Zenon
  <2>4. \A m \in 0 .. numLEDs - 1, d \in Stored :
          pixels'[At(m, d)] = IF m = n THEN Abstract!Dimmed(colour[d]) ELSE pixels[At(m, d)]
    <3>1. \A d \in Stored : Dimmed(c[d]) = Abstract!Dimmed(c[d])
      BY <1>2, <2>2, DimsAlike, Zenon
    <3>2. \A m \in 0 .. numLEDs - 1, d \in Stored :
            Store(n, c)[At(m, d)] = IF m = n THEN Dimmed(c[d]) ELSE pixels[At(m, d)]
      BY <2>1, StoreReads
    <3> QED
      BY <2>1, <3>1, <3>2, Zenon
  <2> HIDE DEF colour
  <2>5. Picture = [m \in 0 .. numLEDs - 1 |-> [d \in Stored |-> pixels[At(m, d)]]]
    BY Zenon DEF Picture, At
  <2>6. Picture' = [m \in 0 .. numLEDs - 1 |-> [d \in Stored |-> pixels'[At(m, d)]]]
    BY <1>1, <1>3, PictureIs, Zenon DEF PictureOf, At
  <2>7. \A m \in 0 .. numLEDs - 1 :
          [d \in Stored |-> pixels'[At(m, d)]]
            = IF m = n THEN [d \in Stored |-> Abstract!Dimmed(colour[d])]
                       ELSE [d \in Stored |-> pixels[At(m, d)]]
    BY <2>4, Zenon
  <2>8. Picture' = [Picture EXCEPT ![n] = [d \in Stored |-> Abstract!Dimmed(colour[d])]]
    BY <2>1, <2>5, <2>6, <2>7
  <2>9. n \in DOMAIN Picture
    BY <2>1, <2>5, Zenon
  <2> QED
    BY <1>1, <1>3, <2>3, <2>8, <2>9, Zenon DEF Abstract!Set
<1> QED
  BY <1>4, <1>5

\* A new brightness dims the picture.
LEMMA RescalesAsCanvas ==
  ASSUME FitsInv, FitsInv', NEW b \in Byte, setBrightness(b)
  PROVE  Abstract!Dim
<1>1. live /\ UNCHANGED <<live, numLEDs, numBytes, off>> /\ brightness' = (b + 1) % 256
  BY Zenon DEF setBrightness, format
<1>2. /\ off \in Offsets /\ brightness \in Byte /\ numLEDs \in Nat
      /\ numBytes = numLEDs * BytesPerPixel(off)
      /\ pixels \in [0 .. numBytes - 1 -> 0 .. Dec(brightness)]
  BY FitsGives, Zenon
<1>3. getBrightness' = b /\ b \in 0 .. 255
  BY <1>1, DecIs, Zenon DEF getBrightness, Byte
<1>4. Stored' = Stored /\ \A d \in Stored : d \in Channels
  BY <1>1, Zenon DEF Stored
<1>5. \A n \in 0 .. numLEDs - 1, d \in Stored : At(n, d) \in 0 .. numBytes - 1
  BY <1>2, <1>4, InBuffer, Zenon DEF At
<1>6. /\ Picture = [n \in 0 .. numLEDs - 1 |-> [d \in Stored |-> pixels[At(n, d)]]]
      /\ Picture' = [n \in 0 .. numLEDs - 1 |-> [d \in Stored |-> pixels'[At(n, d)]]]
  BY <1>1, <1>4, PictureIs, Zenon DEF PictureOf, At, Picture
<1>7. pixels' \in [0 .. numBytes - 1 -> 0 .. b]
  BY <1>1, <1>3, FitsGivesNext, Zenon DEF getBrightness
<1>8. Picture' \in [DOMAIN Picture -> [Stored' -> 0 .. getBrightness']]
  BY <1>3, <1>4, <1>5, <1>6, <1>7, Zenon
<1>9. CASE brightness' = brightness
  <2>1. pixels' = pixels
    BY <1>1, <1>9, Zenon DEF setBrightness
  <2>2. Picture' = Picture
    BY <1>6, <2>1, Zenon
  <2> QED
    BY <1>1, <1>3, <1>4, <1>8, <2>2, Zenon DEF Abstract!Dim
<1>10. CASE brightness' # brightness
  <2>1. getBrightness' # getBrightness
    <3>1. \A x, y \in Byte : Dec(x) = Dec(y) => x = y
      BY SMT DEF Dec, Byte
    <3>2. brightness' \in Byte
      BY <1>1, DecIs, Zenon
    <3> QED
      BY <1>2, <1>10, <3>1, <3>2, Zenon DEF getBrightness
  <2>2. \A k \in 0 .. numBytes - 1 : pixels'[k] = Rescaled(pixels[k], Scale(brightness, b))
    BY <1>1, <1>2, <1>10, Zenon DEF setBrightness
  <2>3. \A j, k \in 0 .. numBytes - 1 :
          /\ pixels[j] = 0 => pixels'[j] = 0
          /\ pixels[j] <= pixels[k] => pixels'[j] <= pixels'[k]
    <3>1. \A j \in 0 .. numBytes - 1 : pixels[j] \in 0 .. Dec(brightness)
      BY <1>2, Zenon
    <3>2. \A x, y \in 0 .. Dec(brightness) :
            /\ x = 0 => Rescaled(x, Scale(brightness, b)) = 0
            /\ x <= y => Rescaled(x, Scale(brightness, b)) <= Rescaled(y, Scale(brightness, b))
      BY <1>2, RescalesInOrder, Zenon
    <3> QED
      BY <2>2, <3>1, <3>2, Zenon
  <2>4. \A n, m \in DOMAIN Picture, c, d \in Stored :
          /\ Picture[n][c] = 0 => Picture'[n][c] = 0
          /\ Picture[n][c] <= Picture[m][d] => Picture'[n][c] <= Picture'[m][d]
    BY <1>5, <1>6, <2>3, Zenon
  <2> QED
    BY <1>1, <1>3, <1>4, <1>8, <2>1, <2>4, Zenon DEF Abstract!Dim
<1> QED
  BY <1>9, <1>10

\* A new type swaps the channels, or leaves the pixels black, or none.
LEMMA RetypesAsCanvas ==
  ASSUME FitsInv, FitsInv', NEW t \in Types, updateType(t)
  PROVE  Abstract!Reorder \/ Abstract!Rechannel \/ UNCHANGED Abstract!vars
<1>1. live /\ UNCHANGED <<live, brightness>> /\ off' = t.off
  BY Zenon DEF updateType
<1>2. /\ off \in Offsets /\ off' \in Offsets /\ numLEDs \in Lengths \cup {0}
      /\ ~ptr => numLEDs = 0
  BY FitsGives, FitsGivesNext, Zenon
<1>3. UNCHANGED getBrightness
  BY <1>1, Zenon DEF getBrightness
<1>4. DOMAIN Picture = 0 .. numLEDs - 1 /\ 0 .. 0 - 1 = {}
  BY SMT DEF Picture
<1>5. CASE BytesPerPixel(off') = BytesPerPixel(off)
  <2>1. UNCHANGED <<pixels, numLEDs>>
    BY <1>1, <1>5, Zenon DEF updateType, buffer
  <2>2. Stored' = Stored
    BY <1>5, Zenon DEF Stored
  <2>3. PICK swap \in [Stored -> Stored] :
          /\ \A c, d \in Stored : swap[c] = swap[d] => c = d
          /\ \A c \in Stored : off[swap[c]] = off'[c]
    <3>1. Stored = StoredOf(off)
      BY PictureIs, Zenon
    <3>2. \E swap \in [StoredOf(off) -> StoredOf(off)] :
            /\ \A c, d \in StoredOf(off) : swap[c] = swap[d] => c = d
            /\ \A c \in StoredOf(off) : off[swap[c]] = off'[c]
      BY <1>2, <1>5, TypesSwap
    <3> QED
      BY <3>1, <3>2
  <2>4. Picture = [n \in 0 .. numLEDs - 1 |->
                     [c \in Stored |-> pixels[n * BytesPerPixel(off) + off[c]]]]
    BY Zenon DEF Picture
  <2>5. Picture' = [n \in 0 .. numLEDs - 1 |->
                      [c \in Stored |-> pixels[n * BytesPerPixel(off) + off'[c]]]]
    BY <1>5, <2>1, <2>2, PictureIs, Zenon DEF PictureOf
  <2>6. \A n \in 0 .. numLEDs - 1 :
          [c \in Stored |-> pixels[n * BytesPerPixel(off) + off'[c]]]
            = [c \in Stored |-> Picture[n][swap[c]]]
    BY <2>3, <2>4, Zenon
  <2>7. Picture' = [n \in DOMAIN Picture |-> [c \in Stored |-> Picture[n][swap[c]]]]
    BY <1>4, <2>5, <2>6, Zenon
  <2> QED
    BY <1>1, <1>3, <2>2, <2>3, <2>7, Zenon DEF Abstract!Reorder
<1>6. CASE BytesPerPixel(off') # BytesPerPixel(off)
  <2>1. Stored' \in {Abstract!RGB, Abstract!RGBW} \ {Stored}
    BY <1>2, <1>6, ChannelsOf, PictureIs, Zenon
  <2>2. \E P \in {DOMAIN Picture, {}} : Picture' = Abstract!Black(P, Stored')
    <3>1. CASE ptr
      <4>1. Allocate(numLEDs, off')
        BY <1>1, <1>6, <3>1, Zenon DEF updateType
      <4>2. /\ Picture' = Abstract!Black(0 .. numLEDs' - 1, Stored')
            /\ numLEDs' = numLEDs \/ numLEDs' = 0
        BY <1>2, <4>1, AllocateBlackens, Zenon
      <4> QED
        BY <1>4, <4>2, Zenon
    <3>2. CASE ~ptr
      <4>1. numLEDs' = 0
        BY <1>2, <3>2, Zenon DEF updateType, buffer
      <4>2. Picture' = [n \in {} |-> [c \in Stored' |-> 0]]
        BY <1>4, <4>1, PictureIs, Zenon DEF PictureOf
      <4> QED
        BY <4>2, Zenon DEF Abstract!Black
    <3> QED
      BY <3>1, <3>2
  <2> QED
    BY <1>1, <1>3, <2>1, <2>2, Zenon DEF Abstract!Rechannel
<1> QED
  BY <1>5, <1>6

\* Every call is a step of the canvas, or none of its business.
LEMMA StepAsCanvas ==
  ASSUME FitsInv, FitsInv', [Next]_vars
  PROVE  [Abstract!Next]_(Abstract!vars)
<1>1. /\ live \in BOOLEAN /\ off \in Offsets /\ brightness \in Byte /\ 0 .. 0 - 1 = {}
  BY FitsGives, SMT
<1>2. CASE UNCHANGED <<live, pixels, numLEDs, off, brightness>>
  BY <1>2, PictureIs, Zenon DEF Abstract!vars, getBrightness
<1>3. CASE \E n \in Lengths, p \in Pins, t \in Types : createNeoPixel(n, p, t)
  <2>1. PICK n \in Lengths, t \in Types :
          /\ ~live /\ live' = TRUE /\ off' = t.off /\ brightness' = 0 /\ Allocate(n, off')
    BY <1>3, Zenon DEF createNeoPixel
  <2>2. getBrightness' = 255 /\ Stored' \in {Abstract!RGB, Abstract!RGBW}
    BY <2>1, DecIs, ConstantsFit, FitsGivesNext, ChannelsOf, PictureIs, Zenon DEF getBrightness
  <2>3. \E N \in Lengths \cup {0} : Picture' = Abstract!Black(Abstract!PixelsOf(N), Stored')
    BY <2>1, AllocateBlackens, Zenon DEF Abstract!PixelsOf
  <2> QED
    BY <2>1, <2>2, <2>3, Zenon DEF Abstract!Next, Abstract!New
<1>4. CASE createNeoPixelNoParams
  <2>1. ~live /\ live' = TRUE /\ brightness' = 0 /\ numLEDs' = 0
        /\ pixels' = [k \in {} |-> 0]
    BY <1>4, Zenon DEF createNeoPixelNoParams
  <2>2. getBrightness' = 255 /\ Stored' \in {Abstract!RGB, Abstract!RGBW}
    BY <2>1, DecIs, ConstantsFit, FitsGivesNext, ChannelsOf, PictureIs, Zenon DEF getBrightness
  <2>3. Picture' = Abstract!Black(Abstract!PixelsOf(0), Stored')
    BY <2>1, BlackNext, Zenon DEF Abstract!PixelsOf
  <2> QED
    BY <2>1, <2>2, <2>3, Zenon DEF Abstract!Next, Abstract!New
<1>5. CASE freeNeoPixel
  <2>1. UNCHANGED <<Stored, Picture, getBrightness>>
    BY <1>5, PictureIs, Zenon DEF freeNeoPixel, buffer, format, getBrightness
  <2> QED
    BY <1>5, <2>1, Zenon DEF freeNeoPixel, Abstract!Next, Abstract!Free
<1>6. CASE \E n \in Lengths : updateLength(n)
  <2>1. PICK n \in Lengths :
          live /\ live' = live /\ off' = off /\ brightness' = brightness /\ Allocate(n, off')
    BY <1>6, Zenon DEF updateLength, format
  <2>2. UNCHANGED <<Stored, getBrightness>>
    BY <2>1, PictureIs, Zenon DEF getBrightness
  <2>3. \E N \in Lengths \cup {0} : Picture' = Abstract!Black(Abstract!PixelsOf(N), Stored)
    BY <2>1, <2>2, AllocateBlackens, Zenon DEF Abstract!PixelsOf
  <2> QED
    BY <2>1, <2>2, <2>3, Zenon DEF Abstract!Next, Abstract!Resize
<1>7. CASE \E t \in Types : updateType(t)
  BY <1>7, RetypesAsCanvas, Zenon DEF Abstract!Next
<1>8. CASE \E n \in Lengths, c \in Colour :
             \/ setPixelColorRGB(n, c)
             \/ setPixelColorRGBW(n, c)
             \/ setPixelColor32Bit(n, c)
  <2>1. PICK n \in Lengths, c \in Colour :
           SetPixel(n, [c EXCEPT !["w"] = 0]) \/ SetPixel(n, c)
    BY <1>8, Zenon DEF setPixelColorRGB, setPixelColorRGBW, setPixelColor32Bit
  <2>2. n \in 0 .. Word - 1 /\ live
    BY <2>1, ConstantsFit, Zenon DEF SetPixel
  <2>3. /\ c \in [Channels -> Byte] /\ [c EXCEPT !["w"] = 0] \in [Channels -> Byte]
        /\ \A d \in Channels : c[d] \in Colours \cup {0}
        /\ \A d \in Channels : [c EXCEPT !["w"] = 0][d] \in Colours \cup {0}
    BY ConstantsFit, Zenon DEF Colour
  <2>4. Abstract!Set \/ UNCHANGED Abstract!vars
    BY <2>1, <2>2, <2>3, StoresAsCanvas, Zenon
  <2> QED
    BY <2>4, Zenon DEF Abstract!Next
<1>9. CASE \E b \in Brights : setBrightness(b)
  BY <1>9, RescalesAsCanvas, ConstantsFit, Zenon DEF Abstract!Next
<1>10. CASE clear
  <2>1. live /\ UNCHANGED <<live, numLEDs, off, brightness>>
        /\ pixels' = [k \in DOMAIN pixels |-> 0]
    BY <1>10, Zenon DEF clear, format
  <2>2. UNCHANGED <<Stored, getBrightness>> /\ DOMAIN Picture = 0 .. numLEDs - 1
    BY <2>1, PictureIs, Zenon DEF getBrightness, PictureOf
  <2>3. Picture' = Abstract!Black(DOMAIN Picture, Stored)
    BY <2>1, <2>2, BlackNext, Zenon
  <2> QED
    BY <2>1, <2>2, <2>3, Zenon DEF Abstract!Next, Abstract!Clear
<1>11. begin \/ (\E p \in Pins : setPin(p)) \/ show \/ UNCHANGED vars
         => UNCHANGED <<live, pixels, numLEDs, off, brightness>>
  BY Zenon DEF begin, setPin, show, vars, buffer, format
<1> QED
  BY <1>2, <1>3, <1>4, <1>5, <1>6, <1>7, <1>8, <1>9, <1>10, <1>11, Zenon DEF Next

\* On short strips the driver keeps the promise of the canvas: whatever the
\* lengths, the types, the colours, the levels and the order of the calls, a
\* call changes the pixels it is about, all their channels at once, and no
\* others.
THEOREM DriverIsCanvas ==
  ASSUME ShortStrips
  PROVE  Spec => ImplementsCanvas
<1>1. Init => Abstract!Init
  <2> SUFFICES ASSUME Init PROVE Abstract!Init
    OBVIOUS
  <2>1. off \in Offsets /\ 0 .. 0 - 1 = {}
    BY DefaultType, SMT DEF Init
  <2>2. BytesPerPixel(off) = 3
    BY SMT DEF Init, OffsetsGRB, Channels, BytesPerPixel
  <2>3. Stored = Abstract!RGB
    BY <2>1, <2>2, ChannelsOf, PictureIs, SMT
  <2>4. Picture = [n \in {} |-> [c \in Stored |-> 0]]
    BY <2>1, Zenon DEF Init, Picture
  <2>5. getBrightness = 255
    BY DecIs, ConstantsFit, Zenon DEF Init, getBrightness
  <2> QED
    BY <2>3, <2>4, <2>5, Zenon DEF Init, Abstract!Init, Abstract!Black
<1>2. FitsInv /\ FitsInv' /\ [Next]_vars => [Abstract!Next]_(Abstract!vars)
  BY StepAsCanvas
<1>3. FitsInv /\ [Next]_vars => FitsInv'
  BY FitsStep
<1> QED
  BY <1>1, <1>2, <1>3, FitsInit, PTL DEF Spec, ImplementsCanvas, Abstract!Spec
=============================================================================
