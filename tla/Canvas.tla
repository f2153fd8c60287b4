-------------------------------- MODULE Canvas --------------------------------
(***************************************************************************)
(* What the driver object of the strip promises to a program that draws    *)
(* with it: a picture, one colour for each pixel, and the level that the   *)
(* picture is dimmed to. There are no bytes, no offsets and no buffer in   *)
(* it. Module NeoPixel implements it on strips whose bytes can be counted. *)
(***************************************************************************)
EXTENDS Integers

CONSTANTS
  Lengths,   \* the lengths of a strip
  Shades     \* the values of a channel that the program sets

RGB  == {"r", "g", "b"}
RGBW == RGB \cup {"w"}

VARIABLES
  live,      \* there is an object
  channels,  \* the channels of its pixels
  picture,   \* the value of each channel of each pixel
  level      \* the brightness in force: 255 is full

vars == <<live, channels, picture, level>>

-----------------------------------------------------------------------------
\* The pixels of a strip of N pixels.
PixelsOf(N) == 0 .. N - 1

\* A black picture of pixels P with channels S.
Black(P, S) == [n \in P |-> [c \in S |-> 0]]

\* The value of a channel that is set to x, at the level in force.
Dimmed(x) == (x * (level + 1)) \div 256

\* A new object is black and bright. It has no pixel when no memory is left,
\* or when no length is given.
New ==
  /\ ~live
  /\ live' = TRUE
  /\ channels' \in {RGB, RGBW}
  /\ \E N \in Lengths \cup {0} : picture' = Black(PixelsOf(N), channels')
  /\ level' = 255

Free ==
  /\ live
  /\ live' = FALSE
  /\ UNCHANGED <<channels, picture, level>>

\* A change of the length leaves nothing of the picture.
Resize ==
  /\ live
  /\ \E N \in Lengths \cup {0} : picture' = Black(PixelsOf(N), channels)
  /\ UNCHANGED <<live, channels, level>>

\* Nor does a change of the channels. The length is kept, if memory is left.
Rechannel ==
  /\ live
  /\ channels' \in {RGB, RGBW} \ {channels}
  /\ \E P \in {DOMAIN picture, {}} : picture' = Black(P, channels')
  /\ UNCHANGED <<live, level>>

\* A change of the order of the colours swaps channels, in every pixel alike.
Reorder ==
  /\ live
  /\ \E swap \in [channels -> channels] :
       /\ \A c, d \in channels : swap[c] = swap[d] => c = d
       /\ picture' = [n \in DOMAIN picture |-> [c \in channels |-> picture[n][swap[c]]]]
  /\ UNCHANGED <<live, channels, level>>

\* One pixel gets a colour and no other pixel changes.
Set ==
  /\ live
  /\ \E n \in DOMAIN picture, colour \in [channels -> Shades \cup {0}] :
       picture' = [picture EXCEPT ![n] = [c \in channels |-> Dimmed(colour[c])]]
  /\ UNCHANGED <<live, channels, level>>

\* A new level bounds every channel. Channels that are off stay off, and none
\* gets brighter than one that it was not brighter than.
Dim ==
  /\ live
  /\ level' \in 0 .. 255
  /\ picture' \in [DOMAIN picture -> [channels -> 0 .. level']]
  /\ \A n, m \in DOMAIN picture, c, d \in channels :
       /\ picture[n][c] = 0 => picture'[n][c] = 0
       /\ picture[n][c] <= picture[m][d] => picture'[n][c] <= picture'[m][d]
  /\ level' = level => picture' = picture
  /\ UNCHANGED <<live, channels>>

Clear ==
  /\ live
  /\ picture' = Black(DOMAIN picture, channels)
  /\ UNCHANGED <<live, channels, level>>

Init ==
  /\ live = FALSE
  /\ channels = RGB
  /\ picture = Black({}, RGB)
  /\ level = 255

Next ==
  \/ Set \/ Dim \/ Clear
  \/ New \/ Free \/ Resize \/ Rechannel \/ Reorder

Spec == Init /\ [][Next]_vars
=============================================================================
