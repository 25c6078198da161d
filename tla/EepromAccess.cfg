SPECIFICATION Spec
CONSTANTS
  Banks = {0, 1}
  Pages = {0, 1}
  UpperStart = 4
  MemEnd = 12
  PageBytes = 4
  ChunkBytes = 3
  Junk = junk
  Data <- MCData
  Factory <- MCFactory
  Requests <- MCRequests
INVARIANTS
  TypeOK
  ReadExact
  WriteComplete
PROPERTIES
  WriteFootprint
  CallReturns
  ImplementsStore
