---------------------------- MODULE MeshController ----------------------------
(***************************************************************************)
(* The reconciler of MultiClusterMesh objects (pkg/hub/mesh/controller.go): *)
(* one worker takes a mesh from the workqueue and runs Reconcile on it, one *)
(* API call or one read of the caches per step, so that watch events, user  *)
(* edits and spoke agents interleave between any two of its calls.          *)
(*                                                                         *)
(* Calls on objects this module does not carry (ManagedServiceAccounts,     *)
(* Certificates, Placements, ...) appear only through Fail: any of them may *)
(* end a reconcile early at the point where it stands.                      *)
(***************************************************************************)
EXTENDS MeshHub

VARIABLES
  pc,        \* what the worker does next
  cur,       \* the mesh being reconciled
  my,        \* the copy of it that Reconcile got from the cache
  stale,     \* has the API object changed since that copy's version?
  clusters,  \* the clusters of its set, as listed by this reconcile
  todo,      \* those whose works are still to be applied
  doomed,    \* the works listed for deletion and not deleted yet
  verdict,   \* the reason the Ready condition is about to be given
  settled    \* history: <<c, m>> when m's works on c were put in place with
             \* every cache involved up to date, and nobody but m's users,
             \* c's administrators or an older mesh has interfered since

workerVars == <<pc, cur, my, stale, clusters, todo, doomed, verdict>>
vars == <<hubVars, workerVars, settled>>

Applying == {"namespace", "operator"}
Cleaning == {"listOwned", "deleteOwned", "listShared", "deleteShared"}
Step == {"idle", "validate", "inventory"} \union Applying \union Cleaning
          \union {"determine", "status", "trigger", "release"}

ControllerTypeOK ==
  /\ pc \in Step /\ cur \in Mesh \union {NoMesh}
  /\ (pc # "idle" => cur \in Mesh)
  /\ my \in MeshRecord /\ stale \in BOOLEAN
  /\ clusters \subseteq Cluster /\ todo \subseteq Cluster
  /\ doomed \subseteq Spot /\ verdict \in Reason
  /\ settled \subseteq Cluster \X Mesh

ControllerInit ==
  /\ pc = "idle" /\ cur = NoMesh /\ my = Blank /\ stale = FALSE
  /\ clusters = {} /\ todo = {} /\ doomed = {} /\ verdict = "None"
  /\ settled = {}

Rest ==
  /\ pc' = "idle" /\ cur' = NoMesh /\ my' = Blank /\ stale' = FALSE
  /\ clusters' = {} /\ todo' = {} /\ doomed' = {} /\ verdict' = "None"

\* Reconcile returns an error: the request goes back, rate limited.
Requeue == Rest /\ queue' = queue \union {cur}
Done    == Rest /\ UNCHANGED queue

\* A write of mesh objects: each gets a new version and a watch event.
WriteMeshes(new, written) ==
  /\ mesh' = new
  /\ meshEv' = meshEv \union written

Deletion == my.phase = "deleting"

-----------------------------------------------------------------------------
(* Reconcile: fetch the mesh, dispatch on deletion and on the finalizer *)

\* The copy is gone, or deleting with nothing to clean up: nothing to do.
TakeNothing(m) ==
  /\ pc = "idle" /\ m \in queue
  /\ \/ meshC[m].phase \in {"none", "gone"}
     \/ meshC[m].phase = "deleting" /\ ~meshC[m].fin
  /\ queue' = queue \ {m}
  /\ UNCHANGED <<apiVars, cacheVars, eventVars, budget, workerVars, settled>>

\* A mesh seen for the first time only gets its finalizer; the Update fails
\* if the copy is not the current version.
TakeUnfinalized(m) ==
  /\ pc = "idle" /\ m \in queue
  /\ meshC[m].phase = "live" /\ ~meshC[m].fin
  /\ \/ /\ m \notin meshEv
        /\ WriteMeshes([mesh EXCEPT ![m].fin = TRUE], {m})
        /\ queue' = queue \ {m}
     \/ /\ m \in meshEv
        /\ UNCHANGED <<mesh, meshEv, queue>>
  /\ UNCHANGED <<ts, clock, member, cset, work, cacheVars, memberEv, csetEv, workEv,
                 budget, workerVars, settled>>

Take(m) ==
  /\ pc = "idle" /\ m \in queue
  /\ meshC[m].phase \in {"live", "deleting"} /\ meshC[m].fin
  /\ queue' = queue \ {m}
  /\ cur' = m /\ my' = meshC[m] /\ stale' = (m \in meshEv)
  /\ pc' = IF meshC[m].phase = "deleting" THEN "listOwned" ELSE "validate"
  /\ UNCHANGED <<apiVars, cacheVars, eventVars, budget, clusters, todo, doomed, verdict,
                 settled>>

\* The normal path meets an error: the Ready condition will say so.
GiveUp ==
  /\ pc' = "status" /\ verdict' = "ReconcileError"
  /\ clusters' = {} /\ todo' = {} /\ doomed' = {}
  /\ UNCHANGED <<cur, my, stale, queue>>

\* Mutant: an error of handleDeletion is swallowed and the finalizer removed.
AbandonAndRelease ==
  IF Deletion
    THEN /\ pc' = "release" /\ doomed' = {}
         /\ UNCHANGED <<cur, my, stale, clusters, todo, verdict, queue>>
    ELSE GiveUp

\* Mutant: an error of handleDeletion is not returned, so nothing retries.
AbandonAndForget == IF Deletion THEN Done ELSE GiveUp

Abandon == IF Deletion THEN Requeue ELSE GiveUp

\* Any API call of the current step fails.
Fail ==
  /\ pc \notin {"idle", "trigger"} /\ Spend("fail")
  /\ IF pc = "status" THEN Requeue ELSE Abandon
  /\ UNCHANGED <<apiVars, cacheVars, eventVars, settled>>

-----------------------------------------------------------------------------
(* validate *)

\* Mutant: only control plane namespaces are compared.
ObjectionToNamespace(other) == IF CpNs[cur] = CpNs[other] THEN {"NamespaceConflict"} ELSE {}

\* Why the mesh must be refused on account of another mesh of its set.
Objection(other) ==
  IF CpNs[cur] = CpNs[other] THEN {"NamespaceConflict"}
  ELSE IF my.op # meshC[other].op THEN {"OperatorConfigConflict"}
  ELSE {}

Objections ==
  UNION {Objection(o) : o \in {p \in Targeting(SetOf[cur]) : p # cur /\ ~Older(cur, p)}}

Refusals ==
  IF CpNs[cur] = OpNs[my.op] THEN {"NamespaceConflict"} ELSE Objections

Validate ==
  /\ pc = "validate"
  /\ \/ /\ Refusals = {}
        /\ pc' = "inventory" /\ UNCHANGED verdict
     \/ \E reason \in Refusals : pc' = "status" /\ verdict' = reason
  /\ UNCHANGED <<hubVars, cur, my, stale, clusters, todo, doomed, settled>>

-----------------------------------------------------------------------------
(* doReconcile: per cluster, in name order, the two works *)

Inventory ==
  /\ pc = "inventory"
  /\ IF csetC[SetOf[cur]] = "other"
       THEN GiveUp
       ELSE /\ clusters' = SetMembers(SetOf[cur])
            /\ todo' = clusters'
            /\ pc' = IF clusters' = {} THEN "listOwned" ELSE "namespace"
            /\ UNCHANGED <<cur, my, stale, doomed, verdict, queue>>
  /\ UNCHANGED <<apiVars, cacheVars, eventVars, budget, settled>>

First(c) == c \in todo /\ \A d \in todo : ClusterRank[c] <= ClusterRank[d]

\* An older mesh may take a cluster over from a younger one it conflicts with.
Displaced(c, conflicting) ==
  {s \in settled : s[1] = c /\ s[2] # cur /\ Older(cur, s[2]) /\ s[2] \in conflicting}

ApplyNamespace(c) ==
  /\ pc = "namespace" /\ First(c)
  /\ \/ /\ Applied(<<c, CpNs[cur]>>, NamespaceWork(cur))
        /\ pc' = "operator"
        /\ settled' = settled \ Displaced(c, {o \in Mesh : CpNs[o] = CpNs[cur]})
        /\ UNCHANGED <<cur, my, stale, clusters, todo, doomed, verdict, queue>>
     \/ /\ ApplyRefused(<<c, CpNs[cur]>>, NamespaceWork(cur))
        /\ GiveUp /\ KeepWork /\ UNCHANGED settled
  /\ UNCHANGED <<mesh, ts, clock, member, cset, cacheVars, meshEv, memberEv, csetEv, budget>>

\* Among works w, mesh m's are on cluster c, as its spec wants them and not
\* being deleted.
InPlace(w, c, m) ==
  /\ w[<<c, OpWork>>] # NoWork /\ ~w[<<c, OpWork>>].dying
  /\ SameWork(w[<<c, OpWork>>], OperatorWork(m, mesh[m].op))
  /\ w[<<c, CpNs[m]>>] # NoWork /\ ~w[<<c, CpNs[m]>>].dying
  /\ SameWork(w[<<c, CpNs[m]>>], NamespaceWork(m))

\* The reconcile acts on the current mesh, label and set, and the caches that
\* other reconciles will read show them too.
UpToDate(c) ==
  /\ cur \notin meshEv /\ mesh[cur].phase = "live" /\ my.gen = mesh[cur].gen
  /\ c \notin memberEv /\ member[c] = SetOf[cur]
  /\ SetOf[cur] \notin csetEv /\ cset[SetOf[cur]] = "exclusive"

ApplyOperator(c) ==
  /\ pc = "operator" /\ First(c)
  /\ \/ /\ Applied(<<c, OpWork>>, OperatorWork(cur, my.op))
        /\ todo' = todo \ {c}
        /\ pc' = IF todo' = {} THEN "listOwned" ELSE "namespace"
        /\ settled' = (settled \ Displaced(c, {o \in Mesh : mesh[o].op # my.op}))
                        \union (IF UpToDate(c) /\ InPlace(work', c, cur) THEN {<<c, cur>>} ELSE {})
        /\ UNCHANGED <<cur, my, stale, clusters, doomed, verdict, queue>>
     \/ /\ ApplyRefused(<<c, OpWork>>, OperatorWork(cur, my.op))
        /\ GiveUp /\ KeepWork /\ UNCHANGED settled
  /\ UNCHANGED <<mesh, ts, clock, member, cset, cacheVars, meshEv, memberEv, csetEv, budget>>

-----------------------------------------------------------------------------
(* Cleanup, shared by doReconcile and handleDeletion.  With clusters = {}    *)
(* cleanupMeshOwnedManifestWorks is what handleDeletion calls.              *)

AfterCleanup == IF Deletion THEN "trigger" ELSE "determine"

\* cleanupMeshOwnedManifestWorks: by mesh-name label, off the mesh's clusters.
ListOwned ==
  /\ pc = "listOwned"
  /\ doomed' = {p \in Spot : /\ Cached[p] # NoWork /\ Cached[p].owner = cur
                             /\ p[1] \notin clusters}
  /\ pc' = IF doomed' = {} THEN "listShared" ELSE "deleteOwned"
  /\ UNCHANGED <<hubVars, cur, my, stale, clusters, todo, verdict, settled>>

\* Mutant: meshes being deleted count as active.
NeededByDeleting ==
  IF \A m \in Mesh : SetOf[m] = SetOf[cur] => meshC[m].phase \notin {"live", "deleting"}
    THEN {} ELSE SetMembers(SetOf[cur])

\* getMeshEnabledClusters
Needed == IF Targeting(SetOf[cur]) = {} THEN {} ELSE SetMembers(SetOf[cur])

\* Mutant: the works are not selected by clusterset.
ListAllManaged ==
  /\ pc = "listShared"
  /\ doomed' = {p \in Spot : Cached[p] # NoWork /\ p[1] \notin Needed}
  /\ pc' = IF doomed' = {} THEN AfterCleanup ELSE "deleteShared"
  /\ UNCHANGED <<hubVars, cur, my, stale, clusters, todo, verdict, settled>>

\* cleanupManifestWorks: by clusterset label, off the clusters any mesh needs.
\* Listing the set's clusters is refused for an unsupported selector.
ListShared ==
  /\ pc = "listShared"
  /\ IF Targeting(SetOf[cur]) # {} /\ csetC[SetOf[cur]] = "other"
       THEN Abandon
       ELSE /\ doomed' = {p \in Spot : /\ Cached[p] # NoWork /\ Cached[p].set = SetOf[cur]
                                       /\ p[1] \notin Needed}
            /\ pc' = IF doomed' = {} THEN AfterCleanup ELSE "deleteShared"
            /\ UNCHANGED <<cur, my, stale, clusters, todo, verdict, queue>>
  /\ UNCHANGED <<apiVars, cacheVars, eventVars, budget, settled>>

DeleteListed ==
  /\ pc \in {"deleteOwned", "deleteShared"}
  /\ \E p \in doomed :
       /\ Deleted(p)
       /\ doomed' = doomed \ {p}
  /\ pc' = IF doomed' # {} THEN pc
           ELSE IF pc = "deleteOwned" THEN "listShared" ELSE AfterCleanup
  /\ UNCHANGED <<mesh, ts, clock, member, cset, cacheVars, meshEv, memberEv, csetEv,
                 queue, budget, cur, my, stale, clusters, todo, verdict, settled>>

-----------------------------------------------------------------------------
(* determineStatus and the status write *)

\* Mutant: one installed operator makes the mesh ready.
DetermineFromAny ==
  /\ pc = "determine"
  /\ verdict' = IF \E c \in clusters : Cached[<<c, OpWork>>] # NoWork /\ Cached[<<c, OpWork>>].csv # NoConfig
                  THEN "AllClustersReady" ELSE "ClustersNotReady"
  /\ pc' = "status"
  /\ UNCHANGED <<hubVars, cur, my, stale, clusters, todo, doomed, settled>>

\* Mutant: a mesh with no clusters counts as ready.
DetermineFromNone ==
  /\ pc = "determine"
  /\ verdict' = IF \A c \in clusters : Cached[<<c, OpWork>>] # NoWork /\ Cached[<<c, OpWork>>].csv # NoConfig
                  THEN "AllClustersReady" ELSE "ClustersNotReady"
  /\ pc' = "status"
  /\ UNCHANGED <<hubVars, cur, my, stale, clusters, todo, doomed, settled>>

\* Every cluster's operator work must be there; Ready says whether all of
\* them report an installedCSV.
Determine ==
  /\ pc = "determine"
  /\ IF \E c \in clusters : Cached[<<c, OpWork>>] = NoWork
       THEN GiveUp
       ELSE /\ verdict' = IF clusters # {} /\ \A c \in clusters : Cached[<<c, OpWork>>].csv # NoConfig
                            THEN "AllClustersReady" ELSE "ClustersNotReady"
            /\ pc' = "status"
            /\ UNCHANGED <<cur, my, stale, clusters, todo, doomed, queue>>
  /\ UNCHANGED <<apiVars, cacheVars, eventVars, budget, settled>>

\* Mutant: the condition carries no observedGeneration at all.
ReadyUnversioned == [reason |-> verdict]

\* Mutant: refusals and errors do not record the generation they are about.
ReadyOnSuccess ==
  [reason |-> verdict,
   obs |-> IF verdict \in {"AllClustersReady", "ClustersNotReady"} THEN my.gen ELSE 0]

NewReady == [reason |-> verdict, obs |-> my.gen]

FinishReconcile == IF verdict = "ReconcileError" THEN Requeue ELSE Done

\* SetStatusCondition keeps observedGeneration current, and determineStatus
\* rebuilt the per-cluster conditions with new transition times if it ran.
StatusChanged == NewReady # my.ready \/ clusters # {}

\* The status goes onto the cache's latest copy (RetryOnConflict): refused for
\* as long as that copy is not the current version, or is gone.  A write that
\* changes only transition times makes a new version or, within the same
\* second, none.
WriteStatus ==
  /\ pc = "status"
  /\ \/ /\ ~StatusChanged
        /\ FinishReconcile
        /\ UNCHANGED <<mesh, meshEv>>
     \/ /\ StatusChanged
        /\ IF cur \in meshEv \/ meshC[cur].phase = "gone"
             THEN Requeue /\ UNCHANGED <<mesh, meshEv>>
             ELSE /\ \/ WriteMeshes([mesh EXCEPT ![cur].ready = NewReady], {cur})
                     \/ mesh[cur].ready = NewReady /\ UNCHANGED <<mesh, meshEv>>
                  /\ FinishReconcile
  /\ UNCHANGED <<ts, clock, member, cset, work, cacheVars, memberEv, csetEv, workEv,
                 budget, settled>>

-----------------------------------------------------------------------------
(* The rest of handleDeletion *)

\* Mutant: the readiness test is inverted.
ReadyPeers == {o \in Targeting(SetOf[cur]) :
                 o # cur /\ meshC[o].ready.reason = "AllClustersReady"}

Peers == {o \in Targeting(SetOf[cur]) :
            o # cur /\ meshC[o].ready.reason # "AllClustersReady"}

\* triggerReconcileForNotReadyMeshes: an annotation patch gives each peer a
\* new version.  A failed patch is only logged.
Trigger ==
  /\ pc = "trigger"
  /\ \E reached \in SUBSET Peers :
       /\ IF reached = Peers THEN UNCHANGED budget ELSE Spend("lost")
       /\ meshEv' = meshEv \union {o \in reached : mesh[o].phase \in {"live", "deleting"}}
  /\ pc' = "release"
  /\ UNCHANGED <<apiVars, cacheVars, memberEv, csetEv, workEv, queue,
                 cur, my, stale, clusters, todo, doomed, verdict, settled>>

\* Removing the finalizer lets the object go; refused unless the copy taken
\* at the start is still the current version.
Release ==
  /\ pc = "release"
  /\ \/ /\ ~stale
        /\ WriteMeshes([mesh EXCEPT ![cur] = Gone], {cur})
        /\ Done
     \/ /\ stale
        /\ Requeue /\ UNCHANGED <<mesh, meshEv>>
  /\ UNCHANGED <<ts, clock, member, cset, work, cacheVars, memberEv, csetEv, workEv,
                 budget, settled>>

Controller ==
  \/ \E m \in Mesh : TakeNothing(m) \/ TakeUnfinalized(m) \/ Take(m)
  \/ Fail \/ Validate \/ Inventory
  \/ \E c \in Cluster : ApplyNamespace(c) \/ ApplyOperator(c)
  \/ ListOwned \/ ListShared \/ DeleteListed
  \/ Determine \/ WriteStatus \/ Trigger \/ Release
=============================================================================
