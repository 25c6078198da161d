SPECIFICATION Spec
CONSTANTS
  MaxCalls = 3
  LplBlocks = 2
  PollMs = 2500
  Junk = junk
  Heap = heap
  Kinds <- MCKinds
  Adverts <- MCAdverts
INVARIANT ReplyComplete
CHECK_DEADLOCK FALSE
