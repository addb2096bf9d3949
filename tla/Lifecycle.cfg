SPECIFICATION Spec
CONSTANTS
  NoMesh = NoMesh
  NoSet = NoSet
  NoConfig = NoConfig
  NoWork = NoWork
  OpWork = OpWork
  Mesh <- TwoMeshes
  Cluster <- OneCluster
  Set <- OneSet
  Config <- Configs
  Namespace <- Namespaces
  SetOf <- SameSet
  CpNs <- OwnNamespaces
  OpNs <- Clashing
  KeyRank <- MeshRank
  ClusterRank <- OneRank
  Existing <- OneExists
  Home <- OneHome
  WorkLag = FALSE
  Quotas <- LifecycleQuotas
INVARIANTS
  TypeOK
  SettledStays
  RestRefusedForCause
PROPERTIES
  ObservedAdvances
CHECK_DEADLOCK FALSE
