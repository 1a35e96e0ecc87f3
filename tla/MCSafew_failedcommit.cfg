\* No crash; crc.tmp cannot be created.
CONSTANTS
  Chunks = {1}
  MaxWrites = 2
  MaxPast = 4
  CrcModes = {TRUE}
  Faults = {"crcopen"}
  CrashAt = {}
SPECIFICATION Spec
INVARIANT PreviousOrNew
