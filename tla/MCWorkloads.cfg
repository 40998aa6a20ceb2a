CONSTANTS
  a = a  b = b  c = c  u = u  None = None
  Names = {a, b, c, u}  URLs = {u}
  Inputs <- AllInputs
  MaxDepth = 5  MaxStarts = 2  MaxLines = 5
SPECIFICATION Spec
INVARIANTS WorkloadTypeOK SplitIsRight NearestValueWins ListsComplete CustomWins
  FinishedIsLast DiesForCause StateReadable
CHECK_DEADLOCK FALSE
