SPECIFICATION Spec
CONSTANTS
  FileSizes = {0, 1, 2, 5, 6, 7}
  MaxFileSize = 6
  BlockSize = 2
  MaxDownloads = 3
  Erased = erased
INVARIANTS
  TypeOK
  DownloadedExact
PROPERTIES
  WritesInOwnSession
  DownloadReturns
CHECK_DEADLOCK FALSE
