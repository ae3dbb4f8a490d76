SPECIFICATION AtaSpec
CONSTANTS
  Readers = {r1, r2, r3}
  Blocks = {b1, b2}
  Nil = Nil
  MaxReads = 2
  DriveMayFail = FALSE
INVARIANTS
  RightBlock
  HeadIsServed
PROPERTIES
  ReadReturns
CHECK_DEADLOCK FALSE
