CONSTANTS
  p1 = p1
  loop = loop
  Producers <- MCProducers
  LoopThread = loop
  Lengths <- MCLengths
  MaxBytes = 2
  RecvCap = 1
  MaxInbound = 1
  Teardown = TRUE
SPECIFICATION Spec
INVARIANT BufferedDataIsArmed
