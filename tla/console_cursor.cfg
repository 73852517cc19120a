CONSTANTS
  Proc = {p1, p2}
  Printers = {p1}
  SCREEN_X = 2
  SCREEN_Y = 3
  INPUT_BUF = 3
  WORD = 8
  Size = {1, 3}
  MaxText = 2
  Text <- Strings
  MaxKeys = 3
  p1 = p1
  p2 = p2
SPECIFICATION Spec
INVARIANTS NoCursorPanic
CHECK_DEADLOCK FALSE
