SPECIFICATION FairSpec
CONSTANTS
  NoMesh = NoMesh
  NoSet = NoSet
  NoConfig = NoConfig
  NoWork = NoWork
  OpWork = OpWork
  Mesh <- TwoMeshes
  Cluster <- OneCluster
  Set <- OneSet
  Config <- OneConfig
  Namespace <- Namespaces
  SetOf <- SameSet
  CpNs <- SameNamespace
  OpNs <- OneElsewhere
  KeyRank <- MeshRank
  ClusterRank <- OneRank
  Existing <- TwoMeshes
  Home <- OneHome
  WorkLag = FALSE
  Quotas <- ProgressQuotas
PROPERTIES
  DeletionCompletes
  EventuallyProvisioned
  RefusalLifted
CHECK_DEADLOCK FALSE
