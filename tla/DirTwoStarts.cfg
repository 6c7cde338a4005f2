SPECIFICATION Spec
CONSTANTS
  Serves = {s1}
  Ids = {i}
  Dialers = {q}
  MaxRuns = 1
  Nothing = Nothing
INVARIANTS KeyAlwaysStable
