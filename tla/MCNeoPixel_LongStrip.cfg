SPECIFICATION Spec
CONSTANTS
  Lengths = {1, 21846}
  Types <- TwoTypes
  Pins = {5}
  Colours = {0, 255}
  Brights = {255}
  StrayBits = {4}
INVARIANT BufferFits
