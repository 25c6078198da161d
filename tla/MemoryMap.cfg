SPECIFICATION Spec
CONSTANTS
  Bit6 = "FreezeDone"
  MaxPolls = 2
  MaxFailures = 2
  NSamples = 2
  NInstances = 2
  Nibbles = {0, 1}
  Unknown = unknown
  NGroups = 2
  Modules <- MCPaged
INVARIANTS
  TypeOK
  NoMissingPage
  SnapshotConsistent
  HeldIsFrozen
  MaskHeld
PROPERTIES
  AnswersTrue
