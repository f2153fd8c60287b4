------------------------- MODULE MessageAdapterProofs -------------------------
(***************************************************************************)
(* Proofs about module MessageAdapter, for every payload and every strip.  *)
(***************************************************************************)
EXTENDS MessageAdapter, TLAPS

\* Every variable has its type, and the walk stays on whole entries.
Walk == i % 4 = 0

LEMMA Types == Spec => [](TypeOK /\ Walk)
<1>1. Init => TypeOK /\ Walk
  <2> SUFFICES ASSUME Init
               PROVE  TypeOK /\ Walk
    OBVIOUS
  <2>1. before \in [0 .. numLEDs - 1 -> Colour]
    BY MessageAdapterAssumption, SMT DEF Init
  <2> QED
    BY <2>1, SMT DEF Init, TypeOK, Walk
<1>2. TypeOK /\ Walk /\ [Next]_vars => (TypeOK /\ Walk)'
  <2> SUFFICES ASSUME TypeOK, Walk, [Next]_vars
               PROVE  (TypeOK /\ Walk)'
    OBVIOUS
  <2>1. CASE Skip
    BY <2>1, SMT DEF Skip, TypeOK, Walk, call
  <2>2. CASE Entry
    <3>1. PICK c \in ColoursAt(i) :
            pixels' = [n \in DOMAIN pixels |-> IF Addresses(i, n) THEN c ELSE pixels[n]]
      BY <2>2 DEF Entry
    <3>2. c \in Colour
      BY <3>1 DEF ColoursAt
    <3>3. pixels' \in [0 .. numLEDs - 1 -> Colour]
      BY <3>1, <3>2, SMT DEF TypeOK
    <3> QED
      BY <2>2, <3>3, SMT DEF Entry, TypeOK, Walk, call
  <2>3. CASE UNCHANGED vars
    BY <2>3, SMT DEF vars, call, TypeOK, Walk
  <2> QED
    BY <2>1, <2>2, <2>3 DEF Next, Return
<1> QED
  BY <1>1, <1>2, PTL DEF Spec

\* The walk through a payload of any size and contents keeps the types of its
\* position and of the colours.
THEOREM TypeCorrect == Spec => []TypeOK
<1>1. TypeOK /\ Walk => TypeOK
  OBVIOUS
<1> QED
  BY <1>1, Types, PTL

-----------------------------------------------------------------------------
\* One step walks past exactly one entry, the one at byte i.
LEMMA OneEntryMore ==
  ASSUME TypeOK, Walk, i < size, i' = i + 4, UNCHANGED call, NEW n
  PROVE  EntriesFor(n)' = EntriesFor(n) \cup (IF Addresses(i, n) THEN {i} ELSE {})
<1>1. size \in Nat /\ i \in Nat
  BY MessageAdapterAssumption, SMT DEF TypeOK
<1>2. \A k \in 0 .. size - 1 : k < i + 4 /\ k % 4 = 0 <=> (k < i /\ k % 4 = 0) \/ k = i
  BY <1>1, SMT DEF Walk
<1>3. i \in 0 .. size - 1
  BY <1>1, SMT
<1> QED
  BY <1>2, <1>3, Zenon DEF EntriesFor, Addresses, call

\* The colour of pixel n is the one that LastEntryWins gives it.
Won(n) ==
  \/ EntriesFor(n) = {} /\ pixels[n] = before[n]
  \/ \E k \in EntriesFor(n) :
       /\ \A j \in EntriesFor(n) : j <= k
       /\ pixels[n] \in ColoursAt(k)

\* After the entries walked through, a pixel has the colour of the last one
\* for it, whatever the payload.
THEOREM AppliesInOrder == Spec => []LastEntryWins
<1>1. Init => LastEntryWins
  <2> SUFFICES ASSUME Init, NEW n \in 0 .. numLEDs - 1
               PROVE  EntriesFor(n) = {} /\ pixels[n] = before[n]
    BY Zenon DEF LastEntryWins
  <2>1. \A k \in 0 .. size - 1 : ~(k < i)
    BY MessageAdapterAssumption, SMT DEF Init
  <2> QED
    BY <2>1, Zenon DEF Init, EntriesFor
<1>2. TypeOK /\ Walk /\ LastEntryWins /\ [Next]_vars => LastEntryWins'
  <2> SUFFICES ASSUME TypeOK, Walk, LastEntryWins, [Next]_vars,
                      NEW n \in 0 .. numLEDs' - 1
               PROVE  Won(n)'
    BY Zenon DEF LastEntryWins, Won
  <2>1. numLEDs' = numLEDs /\ before' = before /\ payload' = payload /\ size' = size
    BY Zenon DEF Next, Skip, Entry, Return, call, vars
  <2>2. Won(n)
    BY <2>1, Zenon DEF LastEntryWins, Won
  <2>3. \A k : ColoursAt(k)' = ColoursAt(k)
    BY <2>1, Zenon DEF ColoursAt
  <2>4. \A k \in EntriesFor(n) : k \in Nat /\ k <= i
    BY MessageAdapterAssumption, SMT DEF EntriesFor, TypeOK
  <2>5. CASE Skip
    <3>1. EntriesFor(n)' = EntriesFor(n) \cup (IF Addresses(i, n) THEN {i} ELSE {})
      BY <2>5, OneEntryMore, Zenon DEF Skip
    <3>2. n \in Nat
      BY <2>1, MessageAdapterAssumption, SMT DEF TypeOK
    <3>3. ~Addresses(i, n)
      BY <2>5, <3>2, SMT DEF Skip, Addresses
    <3>4. EntriesFor(n)' = EntriesFor(n) /\ pixels' = pixels
      BY <2>5, <3>1, <3>3, Zenon DEF Skip
    <3> QED
      BY <2>1, <2>2, <2>3, <3>4, Zenon DEF Won
  <2>6. CASE Entry
    <3>1. EntriesFor(n)' = EntriesFor(n) \cup (IF Addresses(i, n) THEN {i} ELSE {})
      BY <2>6, OneEntryMore, Zenon DEF Entry
    <3>2. PICK c \in ColoursAt(i) :
            pixels' = [m \in DOMAIN pixels |-> IF Addresses(i, m) THEN c ELSE pixels[m]]
      BY <2>6, Zenon DEF Entry
    <3>3. pixels'[n] = IF Addresses(i, n) THEN c ELSE pixels[n]
      BY <2>1, <3>2, Zenon DEF TypeOK
    <3>4. CASE Addresses(i, n)
      <4>1. PICK e : e = i
        OBVIOUS
      <4>2. e \in EntriesFor(n)' /\ pixels'[n] \in ColoursAt(e)'
        BY <2>3, <3>1, <3>2, <3>3, <3>4, <4>1, Zenon
      <4>3. e <= e
        BY <4>1, SMT DEF TypeOK
      <4>4. \A j \in EntriesFor(n)' : j <= e
        BY <2>4, <3>1, <3>4, <4>1, <4>3, Zenon
      <4> QED
        BY <4>2, <4>4, Zenon DEF Won
    <3>5. CASE ~Addresses(i, n)
      <4>1. EntriesFor(n)' = EntriesFor(n) /\ pixels'[n] = pixels[n]
        BY <3>1, <3>3, <3>5, Zenon
      <4> QED
        BY <2>1, <2>2, <2>3, <4>1, Zenon DEF Won
    <3> QED
      BY <3>4, <3>5
  <2>7. CASE UNCHANGED vars
    <3>1. EntriesFor(n)' = EntriesFor(n) /\ pixels' = pixels
      BY <2>7, Zenon DEF vars, call, EntriesFor, Addresses
    <3> QED
      BY <2>1, <2>2, <2>3, <3>1, Zenon DEF Won
  <2> QED
    BY <2>5, <2>6, <2>7 DEF Next, Return
<1> QED
  BY <1>1, <1>2, Types, PTL DEF Spec

\* The last of the entries for a pixel is the one that LastFor chooses.
LEMMA LastIs ==
  ASSUME TypeOK, NEW n, NEW k \in EntriesFor(n), \A j \in EntriesFor(n) : j <= k
  PROVE  LastFor(n) = k
<1>1. LastFor(n) \in EntriesFor(n) /\ \A j \in EntriesFor(n) : j <= LastFor(n)
  BY Zenon DEF LastFor
<1>2. LastFor(n) <= k /\ k <= LastFor(n)
  BY <1>1, Zenon
<1>3. \A j \in EntriesFor(n) : j \in Nat
  BY MessageAdapterAssumption, SMT DEF EntriesFor, TypeOK
<1>4. LastFor(n) \in Nat /\ k \in Nat
  BY <1>1, <1>3, Zenon
<1> QED
  BY <1>2, <1>4, SMT

\* With whole entries alone, LastEntryWins leaves no choice: the payload is a
\* partial function from pixels to colours, and the call overlays them.
THEOREM WholeEntriesAreEffects == Spec => []WholeEntriesDetermine
<1>1. TypeOK /\ LastEntryWins => WholeEntriesDetermine
  <2> DEFINE New(n) == IF n \in DOMAIN Effect THEN Effect[n] ELSE before[n]
  <2> SUFFICES ASSUME TypeOK, LastEntryWins, size % 4 = 0
               PROVE  pixels = [n \in 0 .. numLEDs - 1 |-> New(n)]
    BY Zenon DEF WholeEntriesDetermine
  <2>1. ASSUME NEW n \in 0 .. numLEDs - 1
        PROVE  pixels[n] = New(n)
    <3>1. CASE EntriesFor(n) = {}
      <4>1. n \notin DOMAIN Effect
        BY <3>1, Zenon DEF Effect
      <4>2. pixels[n] = before[n]
        BY <2>1, <3>1, Zenon DEF LastEntryWins
      <4> QED
        BY <4>1, <4>2, Zenon
    <3>2. CASE EntriesFor(n) # {}
      <4>1. PICK k \in EntriesFor(n) :
              (\A j \in EntriesFor(n) : j <= k) /\ pixels[n] \in ColoursAt(k)
        BY <2>1, <3>2, Zenon DEF LastEntryWins
      <4>2. size \in Nat /\ k \in Nat /\ k < size /\ k % 4 = 0
        BY MessageAdapterAssumption, SMT DEF EntriesFor, TypeOK
      <4>3. \A d \in 1 .. 3 : k + d < size
        BY <4>2, SMT
      <4>4. pixels[n] \in Colour /\ \A d \in 1 .. 3 : pixels[n][d] = payload[k + d]
        BY <4>1, <4>3, Zenon DEF ColoursAt
      <4>5. pixels[n] = [d \in 1 .. 3 |-> payload[k + d]]
        BY <4>4, SMT DEF Colour
      <4>6. n \in DOMAIN Effect /\ Effect[n] = [d \in 1 .. 3 |-> payload[LastFor(n) + d]]
        BY <3>2, Zenon DEF Effect
      <4>7. LastFor(n) = k
        BY <4>1, LastIs, Zenon
      <4> QED
        BY <4>5, <4>6, <4>7, Zenon
    <3> QED
      BY <3>1, <3>2
  <2> HIDE DEF New
  <2>2. pixels \in [0 .. numLEDs - 1 -> Colour]
    BY Zenon DEF TypeOK
  <2> QED
    BY <2>1, <2>2, Zenon
<1> QED
  BY <1>1, AppliesInOrder, Types, PTL
=============================================================================
