SPECIFICATION Spec
CONSTANTS
  Tasks = {a1}
  CommandLine = {}
  Rows = {r1}
  None = None
  Polite = TRUE
  MaxUpdates = 1
INVARIANT FailureKeepsRows
