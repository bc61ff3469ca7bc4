CONSTANTS
  Requests <- ListRequests
  HeaderMax = 11
  Dirs <- SomeDirs
  ListStart = 3
  FileSizes = {0, 3, 4}
  Garbage = {0, 1}
  SockBuf = 3
  ReadMax = 2
  Width = 2
  Base = 3
SPECIFICATION Spec
CHECK_DEADLOCK FALSE
INVARIANT ListingFits
