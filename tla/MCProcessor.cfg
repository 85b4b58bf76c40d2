\* Three processes; the kernel stops when all have ended.
SPECIFICATION Spec
CONSTANTS
  p1 = p1
  p2 = p2
  p3 = p3
  NoProc = NoProc
  Procs <- ThreeProcs
  Text <- ManyTexts
  InitText = "main"
  Value <- MCValue
SYMMETRY Symmetry
CHECK_DEADLOCK FALSE
INVARIANT NoStrayFlags
PROPERTIES
  ProgramOrder
  EndsAsAlone
