SPECIFICATION Spec
CONSTANTS
  NoMesh = NoMesh
  NoSet = NoSet
  NoConfig = NoConfig
  NoWork = NoWork
  OpWork = OpWork
  Mesh <- TwoMeshes
  Cluster <- OneCluster
  Set <- OneSet
  Config <- Configs
  Namespace <- Namespaces
  SetOf <- SameSet
  CpNs <- OwnNamespaces
  OpNs <- Elsewhere
  KeyRank <- MeshRank
  ClusterRank <- OneRank
  Existing <- OneExists
  Home <- OneHome
  WorkLag = FALSE
  Quotas <- WithdrawQuotas
INVARIANTS
  RestClean
CHECK_DEADLOCK FALSE
