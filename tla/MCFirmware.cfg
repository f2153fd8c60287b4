SPECIFICATION FairSpec
CONSTANTS
  NUMPIXELS = 3
  Black = Black
  Red = Red
  blue = blue
  Colours <- MCColours
  Messages <- MCMessages
  QUIET = 2
  BYTE = 3
  WDTO = 5
  WdtReset = 2
  ShowTicks = 1
  MaxFetch = 2
  MayHang = TRUE
  BootClears = TRUE
  MaxFrames = 3
INVARIANTS TypeOK ShownOrCounting
PROPERTIES RefreshOnlyWhenQuiet NoMillisInData ResetOnlyWhenHung LastFrameShown ImplementsLamp LampGoesOn
