SPECIFICATION Spec
CONSTANTS
  Printers = {p1, p2}
  Chars = {c1, c2}
  NoChar = NoChar
  Size = 3
  MaxChars = 6
INVARIANTS
  NothingLost
PROPERTIES
  AllSent
  ImplementsChannel
CHECK_DEADLOCK FALSE
