SPECIFICATION Spec
CONSTANTS
  WORD = 8
  Lengths = {0, 1, 2, 3}
  Bytes <- MCBytes
INVARIANTS TypeOK ReadsOneBeyond
PROPERTIES BitsInOrder WholeFrame
