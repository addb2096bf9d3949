------------------------------ MODULE MCDiscovery ------------------------------
(***************************************************************************)
(* Instances of EndpointDiscovery for TLC: two meshes of one namespace and *)
(* one set, of which one exists; two clusters, one of them in the set.     *)
(***************************************************************************)
EXTENDS EndpointDiscovery, TLC

Meshes    == {"a", "b"}
OneExists == {"a"}
OneSet    == {"x"}
SameSet   == [m \in Meshes |-> "x"]
OneTenant == {"t"}
SameNs    == [m \in Meshes |-> "t"]
Clusters  == {"c1", "c2"}
Ranks     == "c1" :> 1 @@ "c2" :> 2
OneInSet  == "c1" :> "x" @@ "c2" :> NoSet
Validity  == {"day", "week"}
AllDay    == [m \in OneExists |-> "day"]

Allow(f) == [k \in Disturbance |-> IF k \in DOMAIN f THEN f[k] ELSE 0]

Lags == {{}, {"account"}, {"secret"}, {"bundle"}, {"binding"}}
Exact == {{}}
DiscoveryQuotas == {Allow([create |-> 1, delete |-> 2]),
                    Allow([create |-> 1, withdraw |-> 1]),
                    Allow([edit |-> 1, renew |-> 1, crash |-> 1]),
                    Allow([clash |-> 2, move |-> 1]),
                    Allow([url |-> 1, set |-> 1]),
                    Allow([edit |-> 1, delete |-> 1]),
                    Allow([move |-> 2, fail |-> 1]),
                    Allow([delete |-> 1, fail |-> 1, move |-> 1])}
ClashQuotas     == {Allow([clash |-> 1, move |-> 1])}
=============================================================================
