\* Four nanoseconds in a microsecond and so on: 64 in a second.
\* Timeouts above 7 are those whose product with K does not fit 32.
CONSTANTS
  K = 4
  UintMod = 32
  Horizon = 3
  Readings = {0, 1, 3, 4, 17, 63}
  Deltas <- MCDeltas
  ClockOffsets = {0, 7, 130}
  Instants = {0, 1, 6, 19}
  Timeouts = {1, 2, 7, 8, 9, 16, 31}
  Advances = {1, 2, 3, 7}
SPECIFICATION TimeSpec
INVARIANT TimeoutInMilliseconds
