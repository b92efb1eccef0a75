SPECIFICATION Spec
CONSTANTS
  i1 = i1
  i2 = i2
  e1 = e1
  e2 = e2
  w1 = w1
  w2 = w2
  None = None
  Instances <- TwoInstances
  Enis <- TwoEnis
  Workers <- OneWorker
  Faults = {"Timeout"}
INVARIANTS
  DnsReflectsEnis
CHECK_DEADLOCK FALSE
