SPECIFICATION Spec
CONSTANTS
  Keys = {"k", "l"}
  VersionIDs = {v1, v2}
  NoVersion = NoVersion
  MaxVersions = 0
  Threads = {t1, t2}
  NoThread = NoThread
  Blocks = 1
  FirstPathName <- MCColliding
  Ops = {"WriteVersion", "RollbackTo", "Delete", "DeleteVersion"}
  Faults = {}
PROPERTIES KeysIndependent
