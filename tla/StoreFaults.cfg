SPECIFICATION Spec
CONSTANTS
  Keys = {k}
  VersionIDs = {v1, v2, v3}
  NoVersion = NoVersion
  MaxVersions = 2
  Threads = {t1, t2}
  NoThread = NoThread
  Blocks = 1
  FirstPathName <- MCDistinct
  Ops = {"WriteVersion", "WriteVersionRaw", "RollbackTo", "RollbackLatest", "Delete", "DeleteVersion"}
  Faults = {"source", "io", "crash"}
INVARIANTS TypeOK Exclusive StoreInv IndexesOK ListedVersionsComplete
PROPERTIES ImplementsVersionLog
SYMMETRY MCSymmetry
