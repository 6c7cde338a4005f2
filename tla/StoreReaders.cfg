SPECIFICATION FairSpec
CONSTANTS
  Keys = {"k", "l"}
  VersionIDs = {v1, v2, v3}
  NoVersion = NoVersion
  MaxVersions = 2
  Threads = {t1, t2}
  NoThread = NoThread
  Blocks = 1
  FirstPathName <- MCDistinct
  Ops = {"WriteVersion", "ReadVersion", "RollbackTo", "Delete", "DeleteVersion"}
  Faults = {}
INVARIANTS RollbackFaithful SeqsIncrease CompleteWhenFree
PROPERTIES ReadsComplete KeysIndependent EveryCallReturns
