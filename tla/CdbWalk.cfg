SPECIFICATION Spec
CONSTANTS
  RplLens <- MCRplLens
  Garbage <- MCGarbageReserved
  HostBits <- MCHostBits
  MediaBits <- MCMediaBits
  CertCounts <- MCCertCounts
  CertLens <- MCCertLens
  BufSize <- MCBufSize
  Identifiers <- MCIdentifiers
  FlatIds <- MCFlatIds
  Chars <- MCCarried
  JsonUnread <- HandledUnread
  TextModes <- BertOnly
PROPERTY QueryReturns
CHECK_DEADLOCK FALSE
