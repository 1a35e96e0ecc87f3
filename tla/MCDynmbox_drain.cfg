\* One producer, and a consumer that on a readable descriptor peeks until
\* -EAGAIN: push_notify, outside the mutex, may come after the message was read.
CONSTANTS
  DYNMBOX_MAX_SIZE = 5
  Producers = {p1}
  Messages <- MCMessagesPair
  MaxSizes = {5}
  PipeCap = 3
  Policy = "drain"
  p1 = p1
SPECIFICATION Spec
INVARIANT ReadableMeansMessage
