\* Two processes of two pages; the programs end, but ticks may go on for ever.
SPECIFICATION Spec
VIEW MCView
CONSTANTS
  NumProcs = 2
  PTSize = 2
  Policies <- AllPolicies
  TopBit = 2
  Settings <- MCSettings
  InstrTime = 1
  CsTime = 1
  MaxReqTicks = 1
INVARIANTS
  TypeOK
  BlockedForOnePage
  FramesSound
  TlbAgrees
  WritesKept
  IoAsLogged
  DaemonAdvice
