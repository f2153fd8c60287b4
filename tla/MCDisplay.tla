------------------------------ MODULE MCDisplay ------------------------------
(* TLC instances of Display: two pictures, and a timer that overflows a few   *)
(* times in the life of a picture.                                            *)
EXTENDS Display
=============================================================================
