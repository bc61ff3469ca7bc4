CONSTANTS
  c1 = c1
  c2 = c2
  c3 = c3
  f = f
  s1 = s1
  s2 = s2
  None = None
  Conns = {c1, c2, c3}
  Names = {f}
  Subs = {s1, s2}
  Requests <- Routed
  SizeBytes = 1
  ReadMax = 2
  FdLimit = 3
SPECIFICATION Spec
CHECK_DEADLOCK FALSE
SYMMETRY Symmetric
INVARIANTS
  TypeOK
  DispatchSound
  RedirectsGoToRegistered
