SPECIFICATION Spec
CONSTANTS
  NLanes = 4
  MaxCalls = 2
  Groups <- FilterOnly
  Fills <- MCFills
  LaneMasks <- MCLaneMasks
  Targets <- MCTargets
  Patterns <- MCPatterns
  BertBlocks <- MCBertBlocks
  Powers <- MCPowers
  BitErrors <- MCBitErrors
  Passwords <- MCPasswords
  Texts <- MCTexts
PROPERTY ImplementsSettings
CHECK_DEADLOCK FALSE
