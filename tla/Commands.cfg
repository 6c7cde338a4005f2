SPECIFICATION FairSpec
CONSTANTS
  q1 = q1
  q2 = q2
  Cmds = {q1, q2}
  Keys = {"k"}
  VersionIDs = {v1, v2, v3}
  NoVersion = NoVersion
  MaxVersions = 0
  Blocks = 1
  MaxRuns = 2
  Nobody = Nobody
  Ops <- MCOps
  Mishaps = {"kill", "slow"}
INVARIANTS TypeOK VersionsWholeAndKept OkMeansStored NotRunningMeansNothingDone GracefulStop GetWholeOrError AliasesKept
PROPERTIES HandlersEnd
CHECK_DEADLOCK FALSE
