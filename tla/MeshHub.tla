------------------------------- MODULE MeshHub -------------------------------
(***************************************************************************)
(* The hub cluster as the MultiClusterMesh controller sees it: the API     *)
(* objects it reads and writes, and the informer caches through which it   *)
(* reads them.  The controller itself is MeshController; users, spokes,    *)
(* watch delivery and crashes are MeshSystem.                              *)
(*                                                                         *)
(* Abstractions.  A mesh is identified by its name and has one             *)
(* incarnation (its UID).  spec.clusterSet and the control plane namespace *)
(* are immutable (CEL rules), so they are constants of the mesh; the whole *)
(* of spec.operator is one member of Config, whose install namespace is    *)
(* OpNs.  A ManifestWork keeps its labels and the part of its payload and  *)
(* feedback that the controller looks at.  Of a watch stream only the last *)
(* undelivered version of an object is kept.                               *)
(***************************************************************************)
EXTENDS Naturals

CONSTANTS
  Mesh,         \* MultiClusterMesh objects
  Cluster,      \* ManagedClusters
  Set,          \* ManagedClusterSets
  Config,       \* values of spec.operator
  Namespace,    \* control plane and operator namespaces
  SetOf,        \* spec.clusterSet of each mesh
  CpNs,         \* GetControlPlaneNamespace() of each mesh
  OpNs,         \* spec.operator.namespace of each configuration
  KeyRank,      \* rank of each mesh's namespace/name in string order
  ClusterRank,  \* rank of each cluster's name in string order
  Existing,     \* meshes that exist, finalizer and all, when the run starts
  Home,         \* the clusterset label each cluster starts with
  WorkLag,      \* may the ManifestWork caches trail the API server?
  Quotas,       \* mixes of disturbances: how often each may happen in a run
  OpWork,       \* the name OperatorManifestWorkName
  NoMesh, NoSet, NoConfig, NoWork   \* "none" values

\* create, delete, edit: a mesh; withdraw: delete a mesh that has no finalizer
\* yet; move: relabel a cluster; set: create, delete or change a set; tamper:
\* with a work; install: a spoke reports; fail: an API call; lost: an annotation
\* patch to a peer; crash: the controller restarts.
Disturbance == {"create", "delete", "withdraw", "edit", "move", "set", "tamper",
                "install", "fail", "lost", "crash"}

\* The works of a cluster: the shared operator work and one control plane
\* namespace work (ManifestWorkNameCPNSPrefix + namespace) per such namespace.
WorkName == {CpNs[m] : m \in Mesh} \union {OpWork}
Spot == Cluster \X WorkName

SelectorState == {"absent", "exclusive", "other"}

Reason == {"None", "AllClustersReady", "ClustersNotReady", "ReconcileError",
           "NamespaceConflict", "OperatorConfigConflict"}

\* The Ready condition: its reason (which decides its status) and its
\* observedGeneration.
Condition == [reason : Reason, obs : Nat]

MeshRecord == [phase : {"none", "live", "deleting", "gone"}, fin : BOOLEAN,
               op : Config \union {NoConfig}, gen : Nat, ready : Condition]

\* set, owner: the clusterset and mesh-name labels.  op: the Subscription in
\* the operator work.  csv: the configuration whose installedCSV the work's
\* status feedback reports.  dying: deletionTimestamp is set.
WorkRecord == [set : Set, owner : Mesh \union {NoMesh},
               op : Config \union {NoConfig}, csv : Config \union {NoConfig},
               dying : BOOLEAN]
Work == WorkRecord \union {NoWork}

ASSUME ConstantsAssumption ==
  /\ SetOf \in [Mesh -> Set]
  /\ CpNs \in [Mesh -> Namespace]
  /\ OpNs \in [Config -> Namespace]
  /\ KeyRank \in [Mesh -> Nat]
  /\ \A m, o \in Mesh : m # o => KeyRank[m] # KeyRank[o]
  /\ ClusterRank \in [Cluster -> Nat]
  /\ \A c, d \in Cluster : c # d => ClusterRank[c] # ClusterRank[d]
  /\ Existing \subseteq Mesh
  /\ Home \in [Cluster -> Set \union {NoSet}]
  /\ WorkLag \in BOOLEAN
  /\ Quotas \subseteq [Disturbance -> Nat]
  /\ NoMesh \notin Mesh /\ NoSet \notin Set /\ NoConfig \notin Config
  /\ NoWork \notin WorkRecord /\ OpWork \notin Namespace

VARIABLES
  mesh,      \* API: the mesh objects
  ts,        \* API: creationTimestamp of each mesh, in whole seconds
  clock,     \* API: the current second
  member,    \* API: the clusterset label of each cluster
  cset,      \* API: each ManagedClusterSet and its selector type
  work,      \* API: the ManifestWorks, by <<cluster, name>>
  meshC, memberC, csetC,  \* the controller-runtime cache of the first three
  workC,     \* the controller-runtime cache of works (used if WorkLag)
  workL,     \* the lister behind WorkApplier, a second cache (if WorkLag)
  meshEv, memberEv, csetEv, \* objects with an undelivered watch event
  workEv,    \* clusters with an undelivered ManifestWork watch event
  queue,     \* the controller's workqueue
  budget     \* disturbances left

apiVars   == <<mesh, ts, clock, member, cset, work>>
cacheVars == <<meshC, memberC, csetC, workC, workL>>
eventVars == <<meshEv, memberEv, csetEv, workEv>>
hubVars   == <<apiVars, cacheVars, eventVars, queue, budget>>

HubTypeOK ==
  /\ mesh \in [Mesh -> MeshRecord] /\ meshC \in [Mesh -> MeshRecord]
  /\ ts \in [Mesh -> Nat] /\ clock \in Nat
  /\ member \in [Cluster -> Set \union {NoSet}]
  /\ memberC \in [Cluster -> Set \union {NoSet}]
  /\ cset \in [Set -> SelectorState] /\ csetC \in [Set -> SelectorState]
  /\ work \in [Spot -> Work] /\ workC \in [Spot -> Work] /\ workL \in [Spot -> Work]
  /\ meshEv \subseteq Mesh /\ memberEv \subseteq Cluster
  /\ csetEv \subseteq Set /\ workEv \subseteq Cluster
  /\ queue \subseteq Mesh
  /\ budget \in [Disturbance -> Nat]

Unset == [reason |-> "None", obs |-> 0]
Blank == [phase |-> "none", fin |-> FALSE, op |-> NoConfig, gen |-> 0, ready |-> Unset]
Gone  == [Blank EXCEPT !.phase = "gone"]
NewMesh(op) == [phase |-> "live", fin |-> FALSE, op |-> op, gen |-> 1, ready |-> Unset]

\* A controller starting against a hub where the Existing meshes were
\* finalized by an earlier run but nothing has been provisioned for them.
HubInit ==
  /\ \E op \in [Existing -> Config] :
       mesh = [m \in Mesh |-> IF m \in Existing
                                THEN [NewMesh(op[m]) EXCEPT !.fin = TRUE] ELSE Blank]
  /\ ts = [m \in Mesh |-> 0] /\ clock = 0
  /\ member = Home
  /\ cset = [s \in Set |-> "exclusive"]
  /\ work = [p \in Spot |-> NoWork]
  /\ meshC = mesh /\ memberC = member /\ csetC = cset /\ workC = work /\ workL = work
  /\ meshEv = {} /\ memberEv = {} /\ csetEv = {} /\ workEv = {}
  /\ queue = Existing
  /\ budget \in Quotas

-----------------------------------------------------------------------------
Spend(kind) ==
  /\ budget[kind] > 0
  /\ budget' = [budget EXCEPT ![kind] = @ - 1]

\* What a List or Get of ManifestWorks returns, from either cache.
Cached == IF WorkLag THEN workC ELSE work
Listed == IF WorkLag THEN workL ELSE work

PutWork(p, w) ==
  /\ work' = [work EXCEPT ![p] = w]
  /\ workEv' = workEv \union {p[1]}

KeepWork == UNCHANGED <<work, workEv>>

\* forEachMeshInClusterSet: the cached, non-deleting meshes of a set.
Targeting(s) == {m \in Mesh : meshC[m].phase = "live" /\ SetOf[m] = s}

\* isOlderMesh
Older(a, b) == \/ ts[a] < ts[b]
               \/ ts[a] = ts[b] /\ KeyRank[a] < KeyRank[b]

\* The clusters a set has in the caches (getClustersFromSet, when it returns).
SetMembers(s) == IF csetC[s] = "exclusive" THEN {c \in Cluster : memberC[c] = s} ELSE {}

\* The works a mesh wants on a cluster: buildOperatorManifestWork and
\* buildControlPlaneNamespaceManifestWork.
OperatorWork(m, op) ==
  [set |-> SetOf[m], owner |-> NoMesh, op |-> op, csv |-> NoConfig, dying |-> FALSE]
NamespaceWork(m) ==
  [set |-> SetOf[m], owner |-> m, op |-> NoConfig, csv |-> NoConfig, dying |-> FALSE]

\* ManifestWorkEqual: labels and spec, not status or metadata.
SameWork(a, b) == a.set = b.set /\ a.owner = b.owner /\ a.op = b.op

\* The merge patch replaces labels and spec and leaves the rest.
Patched(w, want) ==
  [set |-> want.set, owner |-> want.owner, op |-> want.op, csv |-> w.csv, dying |-> w.dying]

\* WorkApplier.Apply when it succeeds: create, skip or patch, decided on the
\* lister's copy.  A create that loses to an existing object changes nothing.
Applied(p, want) ==
  LET seen == Listed[p] IN
    \/ seen = NoWork /\ work[p] = NoWork /\ PutWork(p, want)
    \/ seen = NoWork /\ work[p] # NoWork /\ KeepWork
    \/ seen # NoWork /\ SameWork(seen, want) /\ KeepWork
    \/ /\ seen # NoWork /\ ~SameWork(seen, want) /\ work[p] = seen
       /\ PutWork(p, Patched(seen, want))

\* WorkApplier.Apply when the API server refuses: AlreadyExists, or a patch of
\* a version (or an object) that is no longer there.
ApplyRefused(p, want) ==
  LET seen == Listed[p] IN
    \/ seen = NoWork /\ work[p] # NoWork
    \/ seen # NoWork /\ ~SameWork(seen, want) /\ work[p] # seen

\* WorkApplier.Delete: by name, NotFound ignored; the object goes once the
\* agent has removed its finalizer.
Deleted(p) ==
  IF work[p] # NoWork /\ ~work[p].dying
    THEN PutWork(p, [work[p] EXCEPT !.dying = TRUE])
    ELSE KeepWork
=============================================================================
