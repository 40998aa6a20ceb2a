CONSTANTS
  r1 = r1  r2 = r2  r3 = r3  x = x  y = y  None = None  BadURL = BadURL
  Requesters = {r1, r2}  Files = {x, y}  Xz = {x}  Failing = {x}  Cached = {y}
  Fickle = {r1, r2}  MaxUpdates = 1  MaxRestarts = 0
SPECIFICATION FairSpec
PROPERTIES RequestEnds UncancelledReturns
CHECK_DEADLOCK FALSE
