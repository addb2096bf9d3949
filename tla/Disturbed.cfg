SPECIFICATION Spec
CONSTANTS
  NoMesh = NoMesh
  NoSet = NoSet
  NoConfig = NoConfig
  NoWork = NoWork
  OpWork = OpWork
  Mesh <- TwoMeshes
  Cluster <- OneCluster
  Set <- OneSet
  Config <- Configs
  Namespace <- Namespaces
  SetOf <- SameSet
  CpNs <- OwnNamespaces
  OpNs <- Elsewhere
  KeyRank <- MeshRank
  ClusterRank <- OneRank
  Existing <- TwoMeshes
  Home <- OneHome
  WorkLag = FALSE
  Quotas <- DisturbedQuotas
INVARIANTS
  NamespaceHasOwner
  RestProvisioned
  RestClean
  RestReady
PROPERTIES
  ImplementsTenancy
CHECK_DEADLOCK FALSE
