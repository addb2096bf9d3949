SPECIFICATION FairSpec
CONSTANTS
  NoMesh = NoMesh
  NoSet = NoSet
  NoCert = NoCert
  NoSecret = NoSecret
  NoWork = NoWork
  NoIssuer = "none"
  Mesh <- Meshes
  Cluster <- OneCluster
  Set <- OneSet
  Tenant <- Tenants
  Setting <- Issuers
  SetOf <- SameSet
  NsOf <- OwnNs
  ClusterRank <- OneRank
  Existing <- Meshes
  Given <- AllRoot
  Home <- OneHome
  Quotas <- NoQuotas
PROPERTIES
  EventuallyTrusted
CHECK_DEADLOCK FALSE
