CONSTANTS
  r1 = r1  r2 = r2  r3 = r3  x = x  y = y  None = None  BadURL = BadURL
  Requesters = {r1, r2, r3}  Files = {x}  Xz = {}  Failing = {x}  Cached = {x}
  Fickle = {r1, r2, r3}  MaxUpdates = 2  MaxRestarts = 1
SPECIFICATION Spec
SYMMETRY RequesterSymmetry
INVARIANTS DownloadTypeOK OneWriter WorkIsKnown
PROPERTIES OkMeansWhole KeepsDownloads
CHECK_DEADLOCK FALSE
