--------------------------------- MODULE Lamp ---------------------------------
(***************************************************************************)
(* What the lamp promises, without clocks, counters or interrupts: it      *)
(* boots with a running light that leaves the strip dark, then takes       *)
(* frames one at a time, puts the whole of each into a buffer, and shows   *)
(* the buffer between two frames. A frame that is overtaken while it is    *)
(* read may come out as any message, but then a newer one is unseen.       *)
(* Module Firmware implements this specification.                          *)
(***************************************************************************)
CONSTANTS
  Pixels, Black, Red,
  Messages   \* effects of the messages: partial functions on the pixels

VARIABLES
  mode,      \* "boot", "idle", "due": a frame is to be read, "taken": it is
  inbox,     \* the last frame received
  unseen,    \* it has not been noticed
  taken,     \* the last frame read
  buffer,    \* the colours to show
  strip      \* the colours shown

vars == <<mode, inbox, unseen, taken, buffer, strip>>

Dark == [n \in Pixels |-> Black]

\* The colours of the running light: one red pixel, or none.
LightColours == {Dark} \cup {[Dark EXCEPT ![n] = Red] : n \in Pixels}

\* The pixels that a message names get its colours, the others keep theirs.
Overlay(m, colours) ==
  [n \in Pixels |-> IF n \in DOMAIN m THEN m[n] ELSE colours[n]]

-----------------------------------------------------------------------------
Init ==
  /\ mode = "boot"
  /\ inbox \in Messages
  /\ unseen = FALSE
  /\ taken = inbox
  /\ buffer = Dark
  /\ strip = Dark

\* A frame replaces the one before, noticed or not.
Receive(m) ==
  /\ inbox' = m
  /\ unseen' = TRUE
  /\ UNCHANGED <<mode, taken, buffer, strip>>

Light ==
  /\ mode = "boot"
  /\ buffer' \in LightColours
  /\ strip' = buffer'
  /\ UNCHANGED <<mode, inbox, unseen, taken>>

\* The running light is over, and has left nothing of what an earlier boot
\* showed.
Booted ==
  /\ mode = "boot"
  /\ buffer = Dark /\ strip = Dark
  /\ mode' = "idle"
  /\ UNCHANGED <<inbox, unseen, taken, buffer, strip>>

Notice ==
  /\ mode = "idle"
  /\ unseen
  /\ mode' = "due"
  /\ unseen' = FALSE
  /\ UNCHANGED <<inbox, taken, buffer, strip>>

Take ==
  /\ mode = "due"
  /\ taken' \in Messages
  /\ taken' = inbox \/ unseen
  /\ mode' = "taken"
  /\ UNCHANGED <<inbox, unseen, buffer, strip>>

Apply ==
  /\ mode = "taken"
  /\ buffer' = Overlay(taken, buffer)
  /\ mode' = "idle"
  /\ UNCHANGED <<inbox, unseen, taken, strip>>

Show ==
  /\ mode = "idle"
  /\ strip' = buffer
  /\ UNCHANGED <<mode, inbox, unseen, taken, buffer>>

\* A reset forgets the buffer, but not the strip. A frame that was due is
\* lost, and one that is unseen may be.
Reset ==
  /\ mode' = "boot"
  /\ buffer' = Dark
  /\ unseen' \in {unseen, FALSE}
  /\ UNCHANGED <<inbox, taken, strip>>

GiveUp == mode = "due" /\ Reset

Next ==
  \/ \E m \in Messages : Receive(m)
  \/ Light
  \/ Booted
  \/ Notice
  \/ Take
  \/ Apply
  \/ Show
  \/ Reset

Spec == Init /\ [][Next]_vars

\* The lamp does not stop: it boots, notices and reads frames or gives up,
\* and shows what it has put into its buffer.
Fairness ==
  /\ WF_vars(Light \/ Booted)
  /\ WF_vars(Notice)
  /\ WF_vars(Take \/ GiveUp)
  /\ WF_vars(Apply)
  /\ WF_vars(Show)
=============================================================================
