\* Two producers and a consumer that peeks once each time the descriptor is
\* readable, fairly scheduled; a ring of 8 bytes.
CONSTANTS
  DYNMBOX_MAX_SIZE = 4
  Producers = {p1, p2}
  Messages <- MCMessagesTight
  MaxSizes = {4}
  PipeCap = 4
  Policy = "once"
  p1 = p1
  p2 = p2
SPECIFICATION FairSpec
INVARIANTS NotificationBalance SleepersAreWoken ReadableMeansMessage
PROPERTIES RefusedOnlyWhenOccupied BlockedPushReturns QueuedIsDelivered
