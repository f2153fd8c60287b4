------------------------------ MODULE MCFirmware ------------------------------
(* TLC instances of Firmware: a short strip, and messages that set one pixel, *)
(* two pixels or none.                                                        *)
EXTENDS Firmware, TLC

CONSTANTS blue

MCColours  == {Black, Red, blue}
MCMessages == {0 :> blue, (0 :> Red) @@ (1 :> blue), [n \in {} |-> blue]}
=============================================================================
