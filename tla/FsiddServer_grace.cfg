SPECIFICATION Spec
CONSTANTS
  c1 = c1
  c2 = c2
  None = None
  Conns <- OneConn
  MaxSends = 1
INVARIANTS
  GracePeriod
