CONSTANTS
  c1 = c1  c2 = c2  a = a  b = b  g1 = g1  g2 = g2  g3 = g3  g4 = g4  g5 = g5
  None = None  NoName = NoName  BadName = BadName  NoIP = NoIP  BadIP = BadIP
  Clients = {c1, c2}  Mortal = {}  Impatient = {}
  Names <- ManyNames  NameOrder <- ManyOrder  NameCount = 7  PoolSize = 4
  Requests <- LifeRequests  Disks <- EmptyDisk  MaxDisk = 0
  MaxTrans = 3  MaxLines = 1  ResultCap = 1  MaxSignals = 1
  Systemd = TRUE  Hung = {}
SPECIFICATION Spec
SYMMETRY ClientSymmetry
INVARIANTS TypeOK NoPanic LiveRegistered BackendExclusive TimerMeansIdle
  TruthfulResult WorkIsCancellable
PROPERTIES RegistryStep KeepsPromise
CHECK_DEADLOCK FALSE
