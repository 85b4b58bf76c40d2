\* Three processes under round robin, one device, whose signal may get lost.
\* The kernel exits, so the system stops.
SPECIFICATION FairSpec
CONSTANTS
  p1 = p1
  p2 = p2
  p3 = p3
  NoProc = NoProc
  Procs <- ThreeProcs
  InitProc = p1
  Policies <- RoundRobin
  TopLevel = 1
  LevelQuanta <- TwoLevelQuanta
  Quantum = 2
  DefaultPriority = 2
  Devices <- BlockDevice
  Priorities <- MCPriorities
  MaxSpurious = 0
  MaxLost = 1
  MaxDevSig = 2
CHECK_DEADLOCK FALSE
PROPERTIES
  BlockedIsUnblocked
  ReadyRuns
