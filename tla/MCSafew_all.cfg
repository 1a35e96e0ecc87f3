\* With and without CRC: every call may fail, a crash may come anywhere.
CONSTANTS
  Chunks = {1}
  MaxWrites = 2
  MaxPast = 4
  CrcModes = {TRUE, FALSE}
  Faults <- FaultNames
  CrashAt <- Anywhere
SPECIFICATION Spec
INVARIANTS NeverTorn PreviousOrNewOutsideWindows CommittedIsDurable
           RefusedIsPrevious CheckLeavesPairOrNothing
