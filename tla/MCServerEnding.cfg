CONSTANTS
  c1 = c1
  c2 = c2
  c3 = c3
  f = f
  s1 = s1
  s2 = s2
  None = None
  Conns = {c1, c2}
  Names = {f}
  Subs = {}
  Requests <- Endings
  SizeBytes = 1
  ReadMax = 2
  FdLimit = 3
SPECIFICATION FairSpec
CHECK_DEADLOCK FALSE
PROPERTY ReleasedWhenDone
