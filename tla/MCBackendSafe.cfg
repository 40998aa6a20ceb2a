CONSTANTS
  n1 = n1  n2 = n2  None = None
  Names = {n1, n2}  Rank <- WalkRank  Bios = {n2}
  PoolSize = 2  Requested = {1}
  MaxCommands = 2  MaxStarts = 1
SPECIFICATION Spec
INVARIANTS BackendTypeOK NoOrphans InstancesLast
PROPERTIES StrayOnlyIfCancelled
CHECK_DEADLOCK FALSE
