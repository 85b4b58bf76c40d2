\* Two processes under any scheduler: one is preempted and comes back.
SPECIFICATION Spec
CONSTANTS
  p1 = p1
  p2 = p2
  p3 = p3
  NoProc = NoProc
  Procs <- TwoProcs
  Text <- TwoTexts
  InitText = "main"
  Value <- MCValue
CHECK_DEADLOCK FALSE
INVARIANT ValueIsOwn
