\* Pools: two threads and a forked process; requests below, at and above what a
\* pool can hold, from the first seed era and from the last before it wraps.
\* Calls: int of 6 bits and size_t of 7, every count, refused or not.
\* Integers: two of all types in a buffer that cannot take two of 64 bits.
\* Clocks: four nanoseconds in a microsecond and so on, 64 in a second.
CONSTANTS
  Threads = {t1, t2}
  Child = c
  Lens = {1, 3, 4}
  BufLen = 6
  KeyLen = 2
  BlockLen = 4
  EraMod = 16
  InitEras = {1, 15}
  MaxCalls = 4
  MaxSeeds = 4
  t1 = t1
  t2 = t2
  c = c
  IntMax = 63
  SizeMax = 127
  Maxima <- MCMaxima
  Draws <- MCDraws
  TextCalls <- MCTextCalls
  ShuffleCalls <- MCShuffleCalls
  FetchLens = {0, 1, 3, 4}
  Types <- MCTypes
  Values <- MCValues
  Foreign <- MCForeign
  Fills <- MCFills
  Capacity = 16
  MaxValues = 2
  K = 4
  UintMod = 32
  Horizon = 3
  Readings = {0, 1, 3, 4, 17, 63}
  Deltas <- MCDeltas
  ClockOffsets = {0, 7, 130}
  Instants = {0, 1, 6, 19}
  Timeouts = {1, 2, 7, 8, 9, 16, 31}
  Advances = {1, 2, 3, 7}
SPECIFICATION AllSpec
SYMMETRY Symmetry
INVARIANTS NoByteTwice BacktrackingProtection UnseededNeverServes
           DrawIsFair StringAsPromised ShuffleIsFair FetchFills ReadsWhatWasWritten
           ArithmeticExact DeadlineAsAsked RealtimeIsClose
PROPERTY ReseedTakesEffect
