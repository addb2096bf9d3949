-------------------------------- MODULE MCTrust --------------------------------
(***************************************************************************)
(* Instances of TrustDistribution for TLC: two meshes, each in a namespace *)
(* of its own, with a set each (two clusters, one of which they pass on)   *)
(* or one set.                                                             *)
(***************************************************************************)
EXTENDS TrustDistribution, TLC

Meshes   == {"a", "b"}
OneMesh  == {"a"}
TwoSets  == {"x", "y"}
OneSet   == {"x"}
OwnSets  == "a" :> "x" @@ "b" :> "y"
SameSet  == [m \in Meshes |-> "x"]
Tenants  == {"ta", "tb"}
OwnNs    == "a" :> "ta" @@ "b" :> "tb"
Clusters == {"c1", "c2"}
Ranks    == "c1" :> 1 @@ "c2" :> 2
OneInSet == "c1" :> "x" @@ "c2" :> NoSet
OneCluster == {"c1"}
OneRank    == [c \in OneCluster |-> 1]
OneHome    == [c \in OneCluster |-> "x"]
Issuers    == {"root", "next", "none"}
AllRoot    == [m \in Meshes |-> "root"]

Allow(f) == [k \in Disturbance |-> IF k \in DOMAIN f THEN f[k] ELSE 0]

TrustQuotas == {Allow([move |-> 1, crash |-> 1]),
                Allow([move |-> 1, fail |-> 1]),
                Allow([move |-> 1, delete |-> 1]),
                Allow([edit |-> 1, renew |-> 1]),
                Allow([set |-> 1, clash |-> 1]),
                Allow([delete |-> 1, fail |-> 1])}
NoQuotas    == {Allow([fail |-> 0])}
=============================================================================
