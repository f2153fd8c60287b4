------------------------------ MODULE MCNeoPixel ------------------------------
(* TLC instances of NeoPixel: one RGB and one RGBW type of the header. *)
EXTENDS NeoPixel

NEO_GRB  == [off |-> [r |-> 1, g |-> 0, b |-> 2, w |-> 1], khz400 |-> FALSE]
NEO_RGB  == [off |-> [r |-> 0, g |-> 1, b |-> 2, w |-> 0], khz400 |-> TRUE]
NEO_WRGB == [off |-> [r |-> 1, g |-> 2, b |-> 3, w |-> 0], khz400 |-> FALSE]

TwoTypes == {NEO_GRB, NEO_WRGB}
AllTypes == {NEO_GRB, NEO_RGB, NEO_WRGB}
=============================================================================
