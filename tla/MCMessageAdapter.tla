--------------------------- MODULE MCMessageAdapter ---------------------------
(* TLC instance of MessageAdapter: every payload of up to two entries and a *)
(* broken third over bytes of three values, on a strip of one or two pixels. *)
EXTENDS MessageAdapter

OneColour == {[k \in 1 .. 3 |-> k - 1]}
=============================================================================
