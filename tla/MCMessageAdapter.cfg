SPECIFICATION Spec
CONSTANTS
  BYTE = 3
  Sizes = {0, 1, 3, 4, 8, 9}
  Strips = {1, 2}
  Shown <- OneColour
INVARIANTS TypeOK LastEntryWins WholeEntriesDetermine
