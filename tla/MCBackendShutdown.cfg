CONSTANTS
  n1 = n1  n2 = n2  None = None
  Names = {n1, n2}  Rank <- WalkRank  Bios = {n2}
  PoolSize = 0  Requested = {1}
  MaxCommands = 2  MaxStarts = 0
SPECIFICATION FairSpec
PROPERTIES ServerExits
CHECK_DEADLOCK FALSE
