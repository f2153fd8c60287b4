SPECIFICATION Spec
CONSTANTS
  Lengths = {0, 1}
  Types <- TwoTypes
  Pins = {5, 13}
  Colours = {0, 255}
  Brights = {255}
  StrayBits = {4}
INVARIANT WorksWithAnyPin
