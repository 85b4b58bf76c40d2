\* Every way a call can fail: copies to and from user space, signals, reads of
\* zero bytes.  The device may wedge (ReadZero), so the system may stop.
SPECIFICATION Spec
CONSTANTS
  p1 = p1
  p2 = p2
  c1 = c1
  Producers <- TwoProducers
  Consumers <- OneConsumer
  ScullSize = 2
  ZeroReads = TRUE
  MaxFaults = 2
  MaxInterrupts = 1
SYMMETRY ProdSym
CHECK_DEADLOCK FALSE
INVARIANTS
  TypeOK
  MutexKept
  TokensConserved
  RingConsistent
  WindowIntact
  OpenersCounted
