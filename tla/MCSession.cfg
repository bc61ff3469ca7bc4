CONSTANTS
  Requests <- SomeRequests
  HeaderMax = 11
  Dirs <- SomeDirs
  ListStart = 3
  FileSizes = {0, 3, 4}
  Garbage = {0, 1}
  SockBuf = 3
  ReadMax = 2
  Width = 2
  Base = 3
SPECIFICATION FairSpec
CHECK_DEADLOCK FALSE
INVARIANT TypeOK
INVARIANT HeaderExact
INVARIANT DownloadIntact
INVARIANT ListIntact
INVARIANT ComplaintsHaveACause
INVARIANT NamesRegistered
PROPERTY JudgesWholeLines
PROPERTY OverrunNeedsLongName
PROPERTY SessionEnds
