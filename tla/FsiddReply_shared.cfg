SPECIFICATION Spec
CONSTANTS
  c1 = c1
  c2 = c2
  p1 = p1
  p2 = p2
  e1 = e1
  e2 = e2
  None = None
  Run = Run
  Conns <- TwoConns
  Creators <- TwoConns
  Paths <- TwoPaths
  FsidOf <- MCFsidOf
  ApiErrors <- TwoErrors
INVARIANTS
  SameFsid
CHECK_DEADLOCK FALSE
