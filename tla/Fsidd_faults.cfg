SPECIFICATION Spec
CONSTANTS
  i1 = i1
  i2 = i2
  c1 = c1
  c2 = c2
  p1 = p1
  p2 = p2
  None = None
  Instances <- MCInstances
  Conns = {c1, c2}
  Owner <- OneEach
  Paths = {p1, p2}
  MaxInt32 = 2
  UseCache = TRUE
  Faults = {"Retryable", "Fatal", "Lost", "Deadline", "Crash"}
SYMMETRY Symmetry
INVARIANTS
  ErrorsMeanWhatTheySay
  CacheCoherent
  TypeOK
  ItemsAgree
  Dense
  AnswersAgree
PROPERTIES
  MappingsAreForever
  ImplementsRegistry
