CONSTANTS
  c1 = c1
  c2 = c2
  c3 = c3
  n1 = n1
  s1 = s1
  Before <- SomeBefore
  Clients = {c1, c2, c3}
  Lines <- SomeLines
  Names = {n1}
  Subs = {s1}
  Main = main
  None = None
  MaxFailures = 1
SPECIFICATION FairSpec
CHECK_DEADLOCK FALSE
INVARIANT TypeOK
INVARIANT UploadIsRouted
INVARIANT GetFindsUpload
INVARIANT DeletionHolds
PROPERTY TakesTurns
PROPERTY ClientsEnd
