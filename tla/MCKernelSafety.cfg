\* Two processes, all four schedulers, both devices.  The kernel exits, so the
\* system stops.
SPECIFICATION Spec
CONSTANTS
  p1 = p1
  p2 = p2
  p3 = p3
  NoProc = NoProc
  Procs <- TwoProcs
  InitProc = p1
  Policies <- AllPolicies
  TopLevel = 1
  LevelQuanta <- TwoLevelQuanta
  Quantum = 2
  DefaultPriority = 2
  Devices <- BothDevices
  Priorities <- MCPriorities
  MaxSpurious = 1
  MaxLost = 1
  MaxDevSig = 3
CHECK_DEADLOCK FALSE
INVARIANTS
  TypeOK
  QuantumFair
  Placement
  BlockedWaits
  NoWakeupLost
  FailuresExplained
  ExitLeavesNobodyBlocked
  TicketsMatch
