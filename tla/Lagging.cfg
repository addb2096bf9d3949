SPECIFICATION Spec
CONSTANTS
  NoMesh = NoMesh
  NoSet = NoSet
  NoConfig = NoConfig
  NoWork = NoWork
  OpWork = OpWork
  Mesh <- TwoMeshes
  Cluster <- TwoClusters
  Set <- OneSet
  Config <- Configs
  Namespace <- Namespaces
  SetOf <- SameSet
  CpNs <- OwnNamespaces
  OpNs <- Elsewhere
  KeyRank <- MeshRank
  ClusterRank <- TwoRanks
  Existing <- OneExists
  Home <- TwoHomes
  WorkLag = TRUE
  Quotas <- LaggingQuotas
INVARIANTS
  RestReady
PROPERTIES
  ObservedAdvances
CHECK_DEADLOCK FALSE
