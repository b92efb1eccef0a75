SPECIFICATION FairSpec
CONSTANTS
  c1 = c1
  c2 = c2
  None = None
  Conns <- MCConns
  MaxSends = 2
INVARIANTS
  TypeOK
  NoneLeftBehind
  NoCommandEscapes
PROPERTIES
  StopsWhenTold
