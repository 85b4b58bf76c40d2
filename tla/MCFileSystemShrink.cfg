SPECIFICATION Spec
CONSTANTS
  NumInodes = 3
  NumBlocks = 3
  PerBlock = 4
  MaxDirectBlocks = 2
  HopThresh = 2
  Names = {1, 2, 3}
  Subdirs = {1}
  Inner = {2}
  Commands = {"create", "link", "unlink"}
  MaxContent = 0
INVARIANT UsedIsTaken
CHECK_DEADLOCK FALSE
VIEW ReadLater
