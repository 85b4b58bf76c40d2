\* IDs 1 .. 5: the process IDs of the kernel start at 1 (kernel.cpp:12).
SPECIFICATION Spec
CONSTANTS
  BaseID = 1
  MaxID = 5
INVARIANTS
  TypeOK
  Partition
PROPERTY PoolPromise
