\* Two producers, blocking and not, any socket call may fail.
CONSTANTS
  Producers = {p1, p2}
  p1 = p1
  p2 = p2
  Messages = {m1, m2}
  m1 = m1
  m2 = m2
  Sizes = {0, 2}
  SockCap = 3
  Errors = TRUE
SPECIFICATION FairSpec
INVARIANTS NoLeak StreamHasNoGap
PROPERTY BegunIsFinished
