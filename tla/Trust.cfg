SPECIFICATION FairSpec
CONSTANTS
  NoMesh = NoMesh
  NoSet = NoSet
  NoCert = NoCert
  NoSecret = NoSecret
  NoWork = NoWork
  NoIssuer = "none"
  Mesh <- Meshes
  Cluster <- Clusters
  Set <- TwoSets
  Tenant <- Tenants
  Setting <- Issuers
  SetOf <- OwnSets
  NsOf <- OwnNs
  ClusterRank <- Ranks
  Existing <- Meshes
  Given <- AllRoot
  Home <- OneInSet
  Quotas <- TrustQuotas
INVARIANTS
  TypeOK
  CacertsOwned
  CaOfItsMesh
  RestTrusted
  RestCertificates
  RestCacerts
PROPERTIES
  EventuallyTrusted
CHECK_DEADLOCK FALSE
