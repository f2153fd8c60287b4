------------------------------- MODULE MCTimer -------------------------------
(* TLC instances of Timer: the timer overflows after a few ticks, and a few *)
(* overflows wrap the count.                                                *)
EXTENDS Timer
=============================================================================
