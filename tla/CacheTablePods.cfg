\* Pods "a", which may start again, and "b", containers in which the service is
\* process 1.  Each has one connection, which a failed copy may keep for good.
CONSTANTS
  Pod = {"a", "b"}
  Copy = {1, 2, 3}
  Home <- ThreeHomes
  Pid <- OnePid
  Size <- ThreeSizes
  FlushSize = 2
  Batch = 1
  ReadSize = 2
  PoolSize = 1
  MaxBoots <- Boots
SPECIFICATION Spec
INVARIANTS TypeOK SeenWhole BufferBounded
PROPERTIES NobodyDrops Settles
CHECK_DEADLOCK FALSE
