SPECIFICATION Spec
CONSTANTS
  RplLens <- MCRplLens
  Garbage <- MCGarbage
  HostBits <- MCHostBits
  MediaBits <- MCMediaBits
  CertCounts <- MCCertCounts
  CertLens <- MCCertLens
  BufSize <- MCBufSize
  Identifiers <- MCIdentifiers
  FlatIds <- MCFlatIds
  Chars <- MCCarried
  JsonUnread <- AllUnread
  TextModes <- BertOnly
INVARIANT DocumentComplete
CHECK_DEADLOCK FALSE
