CONSTANTS
  c1 = c1  c2 = c2  a = a  b = b  g1 = g1  g2 = g2  g3 = g3  g4 = g4  g5 = g5
  None = None  NoName = NoName  BadName = BadName  NoIP = NoIP  BadIP = BadIP
  Clients = {c1, c2}  Mortal = {c1}  Impatient = {c1}
  Names <- ManyNames  NameOrder <- ManyOrder  NameCount = 7  PoolSize = 4
  Requests <- CreateStop  Disks <- EmptyDisk  MaxDisk = 0
  MaxTrans = 2  MaxLines = 0  ResultCap = 1  MaxSignals = 2
  Systemd = TRUE  Hung = {}
SPECIFICATION Spec
INVARIANTS NoPanic
CHECK_DEADLOCK FALSE
