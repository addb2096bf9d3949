SPECIFICATION Spec
CONSTANTS
  NoMesh = NoMesh
  NoSet = NoSet
  NoAccount = NoAccount
  Mesh <- Meshes
  Cluster <- Clusters
  Set <- OneSet
  Tenant <- OneTenant
  Setting <- Validity
  SetOf <- SameSet
  NsOf <- SameNs
  ClusterRank <- Ranks
  Existing <- OneExists
  Given <- AllDay
  Home <- OneInSet
  Lateness <- Lags
  Quotas <- DiscoveryQuotas
INVARIANTS
  TypeOK
  AccountsOwned
  RestAccounts
  RestBundle
  RestBinding
  RestUnbound
CHECK_DEADLOCK FALSE
