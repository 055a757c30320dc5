SPECIFICATION MCSpec
CONSTANTS
  Source = {1, 2, 3}
  Dest = {1, 2, 3}
  Size = {1, 2}
  MaxPush = 5
INVARIANTS SizesAdd
PROPERTIES Implements
CHECK_DEADLOCK FALSE
