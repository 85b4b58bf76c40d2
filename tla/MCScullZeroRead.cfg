\* A read of zero bytes returns with sem taken.
SPECIFICATION Spec
CONSTANTS
  p1 = p1
  p2 = p2
  c1 = c1
  Producers <- TwoProducers
  Consumers <- OneConsumer
  ScullSize = 2
  ZeroReads = TRUE
  MaxFaults = 0
  MaxInterrupts = 0
CHECK_DEADLOCK FALSE
INVARIANT MutexFreeWhenNobodyInside
