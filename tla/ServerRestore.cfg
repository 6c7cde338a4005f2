SPECIFICATION Spec
CONSTANTS
  n1 = n1
  n2 = n2
  n3 = n3
  c1 = c1
  c2 = c2
  c3 = c3
  Nodes = {n1, n2, n3}
  Keys = {k}
  VersionIDs = {v1}
  NoVersion = NoVersion
  MaxVersions = 0
  Clients = {c1, c2, c3}
  At <- MCThree
  Nobody = Nobody
  Blocks = 1
  ReplicationFactor = 0
  Ops <- MCEach
  Faults = {"net"}
INVARIANTS ConfirmedReplicas
SYMMETRY MCPeers
