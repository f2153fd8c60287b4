---------------------------- MODULE MCPixelStream ----------------------------
(* TLC instance of PixelStream: bytes that tell all the bits of a byte and *)
(* their order apart.                                                       *)
EXTENDS PixelStream

Low    == [k \in 0 .. 7 |-> 0]
High   == [k \in 0 .. 7 |-> 1]
Mixed  == [k \in 0 .. 7 |-> IF k \in {0, 2, 3, 6} THEN 1 ELSE 0]
MCBytes == {Low, High, Mixed}
=============================================================================
