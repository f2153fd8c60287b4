SPECIFICATION Spec
CONSTANTS
  Lengths = {0, 1, 2}
  Types <- AllTypes
  Pins = {4, 13}
  Colours = {0, 255}
  Brights = {0, 1, 128, 255}
  StrayBits = {4}
INVARIANTS TypeOK NoScaleOverflow BufferFits StoresInBounds OnlyPinDriven LineLow SetReadsBack
PROPERTY ImplementsCanvas
