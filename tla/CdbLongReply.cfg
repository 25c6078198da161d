SPECIFICATION Spec
CONSTANTS
  RplLens <- MCRplLens
  Garbage <- MCGarbage
  HostBits <- MCHostBits
  MediaBits <- MCMediaBits
  CertCounts <- MCCertCounts
  CertLens <- MCCertLens
  BufSize <- MCBufSize
  Identifiers <- MCIdentifiers
  FlatIds <- MCFlatIds
  Chars <- MCCarried
  JsonUnread <- HandledUnread
  TextModes <- BertOnly
INVARIANT WithinBuffer
CHECK_DEADLOCK FALSE
