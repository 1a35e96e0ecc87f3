\* One producer, a consumer that peeks whenever it likes; a ring of 9 bytes.
CONSTANTS
  DYNMBOX_MAX_SIZE = 5
  Producers = {p1}
  Messages <- MCMessages
  MaxSizes = {2, 5, 6}
  PipeCap = 3
  Policy = "any"
  p1 = p1
SPECIFICATION Spec
INVARIANTS TypeOK NoLeak FramesMatchRing AssertionsHold
PROPERTY ImplementsMailbox
