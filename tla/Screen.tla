-------------------------------- MODULE Screen --------------------------------
(***************************************************************************)
(* What main.c takes its strip for: a screen that shows what it is sent.   *)
(* The program draws and sends pictures, one after the other. There is no  *)
(* clock, no latch time and no frame that goes astray: each picture that   *)
(* is sent is shown before another one is sent. Module Display implements  *)
(* this specification.                                                     *)
(***************************************************************************)
CONSTANT Pictures   \* colours of all pixels

VARIABLES
  busy,    \* a picture is being sent
  drawn,   \* the picture in the driver's buffer
  sent,    \* the last picture sent
  shown    \* the picture that can be seen

vars == <<busy, drawn, sent, shown>>

Init ==
  /\ busy = FALSE
  /\ drawn \in Pictures
  /\ sent = drawn
  /\ shown = drawn

\* Nothing is drawn while a picture is being sent.
Draw ==
  /\ ~busy
  /\ drawn' \in Pictures
  /\ UNCHANGED <<busy, sent, shown>>

\* What is drawn is sent, all the same if it has been sent before. A new
\* picture does not overtake the last one.
Send ==
  /\ ~busy
  /\ drawn = sent \/ shown = sent
  /\ sent' = drawn
  /\ busy' = TRUE
  /\ UNCHANGED <<drawn, shown>>

Sent ==
  /\ busy
  /\ busy' = FALSE
  /\ UNCHANGED <<drawn, sent, shown>>

Appear ==
  /\ ~busy
  /\ shown' = sent
  /\ UNCHANGED <<busy, drawn, sent>>

Next == Draw \/ Send \/ Sent \/ Appear

Spec == Init /\ [][Next]_vars
===============================================================================
