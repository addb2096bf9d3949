------------------------------- MODULE MeshFrame -------------------------------
(***************************************************************************)
(* What trust distribution and endpoint discovery have in common: the      *)
(* meshes, clusters and sets they read, the worker that takes a mesh from  *)
(* the workqueue and works along its clusters, and the world that changes  *)
(* all of these.  TrustDistribution and EndpointDiscovery extend this      *)
(* module with the objects each of them keeps; MeshController has the rest *)
(* of the same reconcile.                                                  *)
(*                                                                         *)
(* Abstractions.  Of a mesh's spec only the part that the extending module *)
(* is about is kept (Setting), and whether the spec is one that validate   *)
(* refuses.  Status writes and annotation patches are MeshController's:    *)
(* all they do here is to trigger further reconciles, and nothing below    *)
(* relies on one.  Reads of the caches with no call between them are one   *)
(* step.                                                                   *)
(***************************************************************************)
EXTENDS Naturals

CONSTANTS
  Mesh,         \* MultiClusterMesh objects
  Cluster,      \* ManagedClusters
  Set,          \* ManagedClusterSets
  Tenant,       \* namespaces of the hub
  Setting,      \* values of the part of the spec that matters
  SetOf,        \* spec.clusterSet of each mesh
  NsOf,         \* metadata.namespace of each mesh
  ClusterRank,  \* rank of each cluster's name in string order
  Existing,     \* meshes that exist, finalizer and all, when the run starts
  Given,        \* the setting each of them starts with
  Home,         \* the clusterset label each cluster starts with
  Quotas,       \* mixes of disturbances: how often each may happen in a run
  NoMesh, NoSet \* "none" values

\* create, delete, edit, clash: a mesh (clash: an edit that validate refuses, or
\* the end of it); withdraw: delete a mesh without finalizer; move: relabel a
\* cluster; url: its API endpoint comes or goes; set: create or delete a set;
\* renew: a token or CA is replaced; fail: an API call; crash: a restart.
Disturbance == {"create", "delete", "withdraw", "edit", "clash", "move", "url", "set",
                "renew", "fail", "crash"}

MeshRecord == [phase : {"none", "live", "deleting", "gone"}, fin : BOOLEAN,
               setting : Setting, clash : BOOLEAN, rv : Nat]
ClusterRecord == [set : Set \union {NoSet}, url : BOOLEAN]

ASSUME FrameAssumption ==
  /\ SetOf \in [Mesh -> Set] /\ NsOf \in [Mesh -> Tenant]
  /\ ClusterRank \in [Cluster -> Nat]
  /\ \A c, d \in Cluster : c # d => ClusterRank[c] # ClusterRank[d]
  /\ Existing \subseteq Mesh
  /\ Home \in [Cluster -> Set \union {NoSet}]
  /\ Setting # {} /\ Given \in [Existing -> Setting]
  /\ Quotas \subseteq [Disturbance -> Nat]
  /\ NoMesh \notin Mesh /\ NoSet \notin Set

VARIABLES
  mesh, cluster, sets,        \* API: meshes, clusters, the sets that exist
  meshC, clusterC, setsC,     \* the controller's caches of them
  meshEv, clusterEv, setEv,   \* objects with an undelivered watch event
  queue,                      \* the workqueue
  budget,                     \* disturbances left
  pc, cur, my,                \* the worker's next step, its mesh, its copy of it
  clusters,                   \* the clusters of the mesh's set, as it listed them
  todo,                       \* those whose objects are still to be ensured
  doomed                      \* clusters whose listed objects are to be deleted

worldVars  == <<mesh, cluster, sets>>
cacheVars  == <<meshC, clusterC, setsC>>
eventVars  == <<meshEv, clusterEv, setEv>>
jobVars    == <<cur, my, clusters, todo, doomed>>
outerVars  == <<worldVars, cacheVars, eventVars, budget>>
frameVars  == <<outerVars, queue, pc, jobVars>>

FrameTypeOK ==
  /\ mesh \in [Mesh -> MeshRecord] /\ meshC \in [Mesh -> MeshRecord]
  /\ cluster \in [Cluster -> ClusterRecord] /\ clusterC \in [Cluster -> ClusterRecord]
  /\ sets \subseteq Set /\ setsC \subseteq Set
  /\ meshEv \subseteq Mesh /\ clusterEv \subseteq Cluster /\ setEv \subseteq Set
  /\ queue \subseteq Mesh /\ budget \in [Disturbance -> Nat]
  /\ cur \in Mesh \union {NoMesh} /\ (pc # "idle" => cur \in Mesh)
  /\ my \in MeshRecord
  /\ clusters \subseteq Cluster /\ todo \subseteq Cluster /\ doomed \subseteq Cluster

AnySetting == CHOOSE s \in Setting : TRUE
Blank == [phase |-> "none", fin |-> FALSE, setting |-> AnySetting, clash |-> FALSE, rv |-> 0]
Gone  == [Blank EXCEPT !.phase = "gone"]

FrameInit ==
  /\ mesh = [m \in Mesh |-> IF m \in Existing
               THEN [Blank EXCEPT !.phase = "live", !.fin = TRUE, !.setting = Given[m]]
               ELSE Blank]
  /\ cluster = [c \in Cluster |-> [set |-> Home[c], url |-> TRUE]]
  /\ sets = Set
  /\ meshC = mesh /\ clusterC = cluster /\ setsC = sets
  /\ meshEv = {} /\ clusterEv = {} /\ setEv = {}
  /\ queue = Existing /\ budget \in Quotas
  /\ pc = "idle" /\ cur = NoMesh /\ my = Blank
  /\ clusters = {} /\ todo = {} /\ doomed = {}

Spend(kind) ==
  /\ budget[kind] > 0
  /\ budget' = [budget EXCEPT ![kind] = @ - 1]

-----------------------------------------------------------------------------
(* The worker *)

\* forEachMeshInClusterSet: the cached, non-deleting meshes of a set.
Targeting(s) == {m \in Mesh : meshC[m].phase = "live" /\ SetOf[m] = s}

\* getClustersFromSet: none if the set is not found.
SetMembers(s) == IF s \in setsC THEN {c \in Cluster : clusterC[c].set = s} ELSE {}

Deletion == my.phase = "deleting"

Settle ==
  /\ pc' = "idle" /\ cur' = NoMesh /\ my' = Blank
  /\ clusters' = {} /\ todo' = {} /\ doomed' = {}

Done    == Settle /\ UNCHANGED queue
Requeue == Settle /\ queue' = queue \union {cur}

\* Not there, nothing to clean up, or refused by validate.
TakeNothing(m) ==
  /\ pc = "idle" /\ m \in queue
  /\ \/ meshC[m].phase \in {"none", "gone"}
     \/ meshC[m].phase = "deleting" /\ ~meshC[m].fin
     \/ meshC[m].phase = "live" /\ meshC[m].fin /\ meshC[m].clash
  /\ queue' = queue \ {m}
  /\ UNCHANGED <<outerVars, pc, jobVars>>

WriteMesh(m, record) ==
  /\ mesh' = [mesh EXCEPT ![m] = record]
  /\ meshEv' = meshEv \union {m}

\* The first reconcile adds the finalizer, unless the copy is outdated.
TakeUnfinalized(m) ==
  /\ pc = "idle" /\ m \in queue
  /\ meshC[m].phase = "live" /\ ~meshC[m].fin
  /\ \/ /\ meshC[m].rv = mesh[m].rv /\ mesh[m].phase = "live"
        /\ WriteMesh(m, [mesh[m] EXCEPT !.fin = TRUE, !.rv = @ + 1])
        /\ queue' = queue \ {m}
     \/ /\ meshC[m].rv # mesh[m].rv \/ mesh[m].phase # "live"
        /\ UNCHANGED <<mesh, meshEv, queue>>
  /\ UNCHANGED <<cluster, sets, cacheVars, clusterEv, setEv, budget, pc, jobVars>>

\* An accepted mesh: its clusters are listed and worked along at step each;
\* without any the worker goes on at step after.
TakeLive(m, each, after) ==
  /\ pc = "idle" /\ m \in queue
  /\ meshC[m].phase = "live" /\ meshC[m].fin /\ ~meshC[m].clash
  /\ queue' = queue \ {m}
  /\ cur' = m /\ my' = meshC[m]
  /\ clusters' = SetMembers(SetOf[m]) /\ todo' = clusters'
  /\ pc' = IF clusters' = {} THEN after ELSE each
  /\ UNCHANGED <<outerVars, doomed>>

TakeDeleting(m, first) ==
  /\ pc = "idle" /\ m \in queue
  /\ meshC[m].phase = "deleting" /\ meshC[m].fin
  /\ queue' = queue \ {m}
  /\ cur' = m /\ my' = meshC[m] /\ pc' = first
  /\ UNCHANGED <<outerVars, clusters, todo, doomed>>

\* The clusters are visited in the order of their names.
Visiting(c) == c \in todo /\ \A d \in todo : ClusterRank[c] <= ClusterRank[d]

\* The next cluster is begun at step each; the last one is followed by after.
Advance(c, each, after) ==
  /\ todo' = todo \ {c}
  /\ pc' = IF todo' = {} THEN after ELSE each

GoTo(step) == pc' = step /\ UNCHANGED <<queue, jobVars>>

\* What to delete has been listed: work it off at step each, then after.
Doom(listed, each, after) ==
  /\ doomed' = listed
  /\ pc' = IF listed = {} THEN after ELSE each
  /\ UNCHANGED <<queue, cur, my, clusters, todo>>

Spare(c, each, after) ==
  /\ doomed' = doomed \ {c}
  /\ pc' = IF doomed' = {} THEN after ELSE each
  /\ UNCHANGED <<queue, cur, my, clusters, todo>>

\* Removing the finalizer lets the mesh go, if the worker's copy is current.
Release ==
  /\ pc = "release"
  /\ \/ my.rv = mesh[cur].rv /\ WriteMesh(cur, Gone) /\ Done
     \/ my.rv # mesh[cur].rv /\ Requeue /\ UNCHANGED <<mesh, meshEv>>
  /\ UNCHANGED <<cluster, sets, cacheVars, clusterEv, setEv, budget>>

\* Any API call of a reconcile fails; the request is retried.
Fail ==
  /\ pc # "idle" /\ Spend("fail") /\ Requeue
  /\ UNCHANGED <<worldVars, cacheVars, eventVars>>

FrameCrash ==
  /\ Spend("crash") /\ Settle
  /\ meshC' = mesh /\ clusterC' = cluster /\ setsC' = sets
  /\ meshEv' = {} /\ clusterEv' = {} /\ setEv' = {}
  /\ queue' = {m \in Mesh : mesh[m].phase \in {"live", "deleting"}}
  /\ UNCHANGED worldVars

-----------------------------------------------------------------------------
(* Watch delivery *)

SyncMesh(m) ==
  /\ m \in meshEv
  /\ meshC' = [meshC EXCEPT ![m] = mesh[m]]
  /\ meshEv' = meshEv \ {m}
  /\ queue' = queue \union {m}
  /\ UNCHANGED <<worldVars, clusterC, setsC, clusterEv, setEv, budget, pc, jobVars>>

\* Mutant: a cluster's event reaches only the meshes of its new set.
SyncClusterNew(c) ==
  /\ c \in clusterEv
  /\ clusterC' = [clusterC EXCEPT ![c] = cluster[c]]
  /\ clusterEv' = clusterEv \ {c}
  /\ queue' = queue \union Targeting(cluster[c].set)
  /\ UNCHANGED <<worldVars, meshC, setsC, meshEv, setEv, budget, pc, jobVars>>

\* findMeshesForCluster, for the old and the new version of the cluster.
SyncCluster(c) ==
  /\ c \in clusterEv
  /\ clusterC' = [clusterC EXCEPT ![c] = cluster[c]]
  /\ clusterEv' = clusterEv \ {c}
  /\ queue' = queue \union Targeting(clusterC[c].set) \union Targeting(cluster[c].set)
  /\ UNCHANGED <<worldVars, meshC, setsC, meshEv, setEv, budget, pc, jobVars>>

SyncSet(s) ==
  /\ s \in setEv
  /\ setsC' = IF s \in sets THEN setsC \union {s} ELSE setsC \ {s}
  /\ setEv' = setEv \ {s}
  /\ queue' = queue \union Targeting(s)
  /\ UNCHANGED <<worldVars, meshC, clusterC, meshEv, clusterEv, budget, pc, jobVars>>

FrameDelivery ==
  \/ \E m \in Mesh : SyncMesh(m)
  \/ \E c \in Cluster : SyncCluster(c)
  \/ \E s \in Set : SyncSet(s)

-----------------------------------------------------------------------------
(* Users and administrators *)

UserWrites(m, record) ==
  /\ WriteMesh(m, [record EXCEPT !.rv = mesh[m].rv + 1])
  /\ UNCHANGED <<cluster, sets, cacheVars, clusterEv, setEv, queue, pc, jobVars>>

CreateMesh(m) ==
  /\ mesh[m].phase = "none" /\ Spend("create")
  /\ \E setting \in Setting :
       UserWrites(m, [Blank EXCEPT !.phase = "live", !.setting = setting])

DeleteMesh(m) ==
  /\ mesh[m].phase = "live" /\ mesh[m].fin /\ Spend("delete")
  /\ UserWrites(m, [mesh[m] EXCEPT !.phase = "deleting"])

WithdrawMesh(m) ==
  /\ mesh[m].phase = "live" /\ ~mesh[m].fin /\ Spend("withdraw")
  /\ UserWrites(m, Gone)

EditMesh(m) ==
  /\ mesh[m].phase \in {"live", "deleting"}
  /\ \/ Spend("edit") /\ \E setting \in Setting \ {mesh[m].setting} :
                           UserWrites(m, [mesh[m] EXCEPT !.setting = setting])
     \/ Spend("clash") /\ UserWrites(m, [mesh[m] EXCEPT !.clash = ~@])

WriteCluster(c, record) ==
  /\ cluster' = [cluster EXCEPT ![c] = record]
  /\ clusterEv' = clusterEv \union {c}
  /\ UNCHANGED <<mesh, sets, cacheVars, meshEv, setEv, queue, pc, jobVars>>

ChangeCluster(c) ==
  \/ Spend("move") /\ \E s \in (Set \union {NoSet}) \ {cluster[c].set} :
                        WriteCluster(c, [cluster[c] EXCEPT !.set = s])
  \/ Spend("url") /\ WriteCluster(c, [cluster[c] EXCEPT !.url = ~@])

ChangeSet(s) ==
  /\ Spend("set")
  /\ sets' = IF s \in sets THEN sets \ {s} ELSE sets \union {s}
  /\ setEv' = setEv \union {s}
  /\ UNCHANGED <<mesh, cluster, cacheVars, meshEv, clusterEv, queue, pc, jobVars>>

FrameUsers ==
  \/ \E m \in Mesh : CreateMesh(m) \/ DeleteMesh(m) \/ WithdrawMesh(m) \/ EditMesh(m)
  \/ \E c \in Cluster : ChangeCluster(c)
  \/ \E s \in Set : ChangeSet(s)

\* A mesh that is there and accepted, and the clusters it is for.
Accepted(m) == mesh[m].phase = "live" /\ ~mesh[m].clash
ClustersOf(s) == IF s \in sets THEN {c \in Cluster : cluster[c].set = s} ELSE {}

FrameAtRest == pc = "idle" /\ queue = {} /\ meshEv = {} /\ clusterEv = {} /\ setEv = {}
=============================================================================
