\* No failing copies and no zero-byte reads; signals interrupt the waits.
SPECIFICATION FairSpec
CONSTANTS
  p1 = p1
  p2 = p2
  c1 = c1
  Producers <- TwoProducers
  Consumers <- OneConsumer
  ScullSize = 2
  ZeroReads = FALSE
  MaxFaults = 0
  MaxInterrupts = 1
PROPERTIES
  DeviceIsFifo
  EveryCallReturns
  ItemsKeepFlowing
