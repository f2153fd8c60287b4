----------------------------- MODULE MCUsbSerial -----------------------------
(* TLC instances of UsbSerial: what most terminals ask for, and a setting     *)
(* with all the other bits.                                                   *)
EXTENDS UsbSerial

\* 115200 8N1 and 9600 7O2.
TwoEncodings ==
  {[baud |-> 115200, stop |-> 0, parity |-> 0, bits |-> 8],
   [baud |-> 9600, stop |-> 2, parity |-> 1, bits |-> 7]}

OneEncoding == {[baud |-> 115200, stop |-> 0, parity |-> 0, bits |-> 8]}
=============================================================================
