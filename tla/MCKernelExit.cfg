\* The kernel exits while a process is still ready.
SPECIFICATION Spec
CONSTANTS
  p1 = p1
  p2 = p2
  p3 = p3
  NoProc = NoProc
  Procs <- TwoProcs
  InitProc = p1
  Policies <- AllPolicies
  TopLevel = 1
  LevelQuanta <- TwoLevelQuanta
  Quantum = 2
  DefaultPriority = 2
  Devices <- BlockDevice
  Priorities <- MCPriorities
  MaxSpurious = 0
  MaxLost = 0
  MaxDevSig = 3
CHECK_DEADLOCK FALSE
INVARIANT ExitMeansFinished
