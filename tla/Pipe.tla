--------------------------------- MODULE Pipe ---------------------------------
(***************************************************************************)
(* What the stream of setUpUsbSerial() is to a program that writes to it:  *)
(* a pipe to the host that holds a few bytes. Numbered bytes go in at one  *)
(* end and come out at the other, in packets. A byte may be lost before it *)
(* goes in, if the port is not open or the host is yet to read a packet;   *)
(* once in, it is lost only with the connection. Module UsbSerial          *)
(* implements this specification.                                          *)
(***************************************************************************)
EXTENDS Naturals, Sequences

CONSTANT Size   \* bytes that the pipe holds

VARIABLES
  open,     \* the host has opened the port
  next,     \* the byte that is written next
  inside,   \* the bytes in the pipe, the oldest first
  due,      \* they are the host's to read
  last      \* the last byte that the host has read

vars == <<open, next, inside, due, last>>

Init ==
  /\ open = FALSE
  /\ next = 1
  /\ inside = <<>>
  /\ due = FALSE
  /\ last = 0

Open ==
  /\ open' = TRUE
  /\ UNCHANGED <<next, inside, due, last>>

\* The connection is cut, and what is inside is lost now or later.
Cut ==
  /\ open' = FALSE
  /\ inside' \in {inside, <<>>}
  /\ due' \in {due, FALSE}
  /\ UNCHANGED <<next, last>>

Put ==
  /\ ~due
  /\ Len(inside) < Size
  /\ inside' = Append(inside, next)
  /\ next' = next + 1
  /\ UNCHANGED <<open, due, last>>

\* A byte that finds the port closed, or the host slow, is dropped.
Drop ==
  /\ ~open \/ due
  /\ next' = next + 1
  /\ UNCHANGED <<open, inside, due, last>>

HandOver ==
  /\ ~due
  /\ due' = TRUE
  /\ UNCHANGED <<open, next, inside, last>>

\* The host reads all that is inside, or an empty packet.
Read ==
  /\ due
  /\ due' = FALSE
  /\ inside' = <<>>
  /\ last' = IF inside = <<>> THEN last ELSE inside[Len(inside)]
  /\ UNCHANGED <<open, next>>

Next == Open \/ Cut \/ Put \/ Drop \/ HandOver \/ Read

Spec == Init /\ [][Next]_vars
===============================================================================
