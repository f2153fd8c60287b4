SPECIFICATION FairSpec
CONSTANTS
  TOP = 9
  BYTE = 3
  Initial = 7
  TPM = 2
  LatchMicros = 3
  MaxSlack = 2
PROPERTY LatchHeld
