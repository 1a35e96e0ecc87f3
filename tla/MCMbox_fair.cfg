\* Two producers, blocking and not; sizes 0, PIPE_BUF and above are refused.
CONSTANTS
  Producers = {p1, p2}
  p1 = p1
  p2 = p2
  Messages <- MCMessages
  Sizes = {0, 2, 3, 4, 5}
  PIPE_BUF = 4
  PipeCap = 7
  Timeouts = {0, 1, 3}
  INT_MAX = 2
SPECIFICATION FairSpec
INVARIANT RefusedOnlyIfRaced
PROPERTIES ImplementsMailbox BlockedPushReturns
