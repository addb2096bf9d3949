-------------------------------- MODULE MCMesh --------------------------------
(***************************************************************************)
(* Instances of MeshRefinement for TLC: two meshes in one set or in a set   *)
(* each, one or two clusters, two operator configurations.                  *)
(***************************************************************************)
EXTENDS MeshRefinement, TLC

TwoMeshes == {"a", "b"}
OneExists == {"a"}
MeshRank  == "a" :> 1 @@ "b" :> 2
OneSet    == {"x"}
SameSet   == [m \in TwoMeshes |-> "x"]
TwoSets   == {"x", "y"}
OwnSets   == "a" :> "x" @@ "b" :> "y"

OneCluster  == {"c1"}
OneHome     == [c \in OneCluster |-> "x"]
OneRank     == [c \in OneCluster |-> 1]
TwoClusters == {"c1", "c2"}
TwoHomes    == [c \in TwoClusters |-> "x"]
TwoRanks    == "c1" :> 1 @@ "c2" :> 2

OneConfig     == {"stable"}
Configs       == {"stable", "next"}
Namespaces    == {"ns-a", "ns-b", "operators"}
OwnNamespaces == "a" :> "ns-a" @@ "b" :> "ns-b"
SameNamespace == [m \in TwoMeshes |-> "ns-a"]
Elsewhere     == [g \in Configs |-> "operators"]
OneElsewhere  == [g \in OneConfig |-> "operators"]
\* Configuration "next" puts the operator into b's control plane namespace.
Clashing      == "stable" :> "operators" @@ "next" :> "ns-b"

Allow(f) == [k \in Disturbance |-> IF k \in DOMAIN f THEN f[k] ELSE 0]

LifecycleQuotas == {Allow([create |-> 1, edit |-> 1, delete |-> 1]),
                    Allow([create |-> 1, withdraw |-> 1])}
DisturbedQuotas == {Allow([crash |-> 1, fail |-> 1, delete |-> 1]),
                    Allow([tamper |-> 1, install |-> 1]),
                    Allow([set |-> 1, delete |-> 1]),
                    Allow([delete |-> 2, lost |-> 1])}
MovingQuotas    == {Allow([move |-> 2]),
                    Allow([move |-> 1, set |-> 1]),
                    Allow([move |-> 1, delete |-> 1])}
LaggingQuotas   == {Allow([install |-> 2, fail |-> 1]),
                    Allow([crash |-> 1, edit |-> 1])}
ProgressQuotas  == {Allow([tamper |-> 1]),
                    Allow([delete |-> 1, fail |-> 1])}
WithdrawQuotas  == {Allow([create |-> 1, delete |-> 1, withdraw |-> 1])}
DeleteQuotas    == {Allow([delete |-> 1])}
UpgradeQuotas   == {Allow([edit |-> 1, install |-> 2])}
=============================================================================
