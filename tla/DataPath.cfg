SPECIFICATION Spec
CONSTANTS
  NLanes = 2
  MaxPolls = 2
  MaxTunePolls = 2
  AppSels = {17}
  Tunings = {1}
  Mixed = mixed
  PathOf <- MCPairs
INVARIANTS
  TypeOK
  DeactivatedOnSuccess
  ConfigHeldDown
  NoSilentDarkLane
  ConfiguredIsActive
PROPERTIES
  OwnLaneOnly
  OperationReturns
