SPECIFICATION Spec
CONSTANTS
  NLanes = 4
  MaxCalls = 2
  Groups <- MCGroups
  Fills <- MCFills
  LaneMasks <- MCLaneMasks
  Targets <- MCTargets
  Patterns <- MCPatterns
  BertBlocks <- MCBertBlocks
  Powers <- MCPowers
  BitErrors <- MCBitErrors
  Passwords <- MCPasswords
  Texts <- MCTexts
INVARIANTS TypeOK PatternsSupported
PROPERTIES ImplementsSettings AppliedWhole
CHECK_DEADLOCK FALSE
