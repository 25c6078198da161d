SPECIFICATION Spec
CONSTANTS
  MaxCalls = 3
  LplBlocks = 2
  PollMs = 2500
  Junk = junk
  Heap = heap
  Kinds <- MCKinds
  Adverts <- MCAdverts
INVARIANTS
  TypeOK
  StatusIsOwn
  NeverMixed
  ReplyIsOwn
PROPERTIES
  MailboxStable
  CallReturns
  ImplementsRpc
CHECK_DEADLOCK FALSE
