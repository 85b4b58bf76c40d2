SPECIFICATION Spec
CONSTANTS
  NumInodes = 3
  NumBlocks = 4
  PerBlock = 2
  MaxDirectBlocks = 2
  HopThresh = 2
  Names = {1, 2, 3}
  Subdirs = {1}
  Inner = {2}
  Commands = {"create", "mkdir", "link", "symlink", "unlink", "fsck"}
  MaxContent = 3
INVARIANTS
  TypeOK
  SoundUnlessHarmed
  FsckRepairs
  LosesAtMostOne
  KeepsPromise
  BlocksKept
PROPERTIES
  FsckKeepsClean
  FsckLosesNothing
VIEW ReadLater
