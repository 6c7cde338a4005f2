SPECIFICATION Spec
CONSTANTS
  Serves = {s1}
  Ids = {i}
  Dialers = {q}
  MaxRuns = 2
  Nothing = Nothing
INVARIANTS TypeOK KeyStable NeverHalfWritten CanBeFound ServedWithKeys
PROPERTIES SettledKeysStay
