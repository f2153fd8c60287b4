SPECIFICATION Spec
CONSTANTS
  Lengths = {0, 1}
  Types <- TwoTypes
  Pins = {5}
  Colours = {0, 255}
  Brights = {127, 254}
  StrayBits = {4}
INVARIANT ReadsBackAByte
