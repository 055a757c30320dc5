SPECIFICATION Spec
CONSTANTS
  None = None
  NonceMod = 7
  MaxTime = 9
  Minute = 3
  MaxWrites <- Writes
  MaxFaults = 2
  MaxTries = 6
INVARIANTS Heals OneWay
PROPERTY NonceGrows
CHECK_DEADLOCK FALSE
