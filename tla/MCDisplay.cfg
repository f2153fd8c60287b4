SPECIFICATION FairDisplay
CONSTANTS
  TOP = 18
  BYTE = 3
  Initial = 7
  TPM = 2
  LatchMicros = 2
  MaxSlack = 1
  Pictures = {a, b}
  TURNS = 2
  LoopTicks = 1
  DataTicks = 2
  QuietTicks = 19
  MaxPackets = 2
INVARIANT DisplayTypeOK
PROPERTIES LatchHeldUnlessRaced ResetLeavesAtMostOne HoldOffShort HoldOffEnds LightNeverRaced LastPictureShown ImplementsScreen
