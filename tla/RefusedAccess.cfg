SPECIFICATION Spec
CONSTANTS
  NoMesh = NoMesh
  NoSet = NoSet
  NoAccount = NoAccount
  Mesh <- Meshes
  Cluster <- Clusters
  Set <- OneSet
  Tenant <- OneTenant
  Setting <- Validity
  SetOf <- SameSet
  NsOf <- SameNs
  ClusterRank <- Ranks
  Existing <- OneExists
  Given <- AllDay
  Home <- OneInSet
  Lateness <- Exact
  Quotas <- ClashQuotas
INVARIANTS
  RestRevoked
CHECK_DEADLOCK FALSE
