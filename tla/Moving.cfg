SPECIFICATION Spec
CONSTANTS
  NoMesh = NoMesh
  NoSet = NoSet
  NoConfig = NoConfig
  NoWork = NoWork
  OpWork = OpWork
  Mesh <- TwoMeshes
  Cluster <- OneCluster
  Set <- TwoSets
  Config <- Configs
  Namespace <- Namespaces
  SetOf <- OwnSets
  CpNs <- SameNamespace
  OpNs <- Elsewhere
  KeyRank <- MeshRank
  ClusterRank <- OneRank
  Existing <- TwoMeshes
  Home <- OneHome
  WorkLag = FALSE
  Quotas <- MovingQuotas
INVARIANTS
  SettledStays
  RestProvisioned
  RestClean
CHECK_DEADLOCK FALSE
