---------------------------- MODULE MeshProperties ----------------------------
(***************************************************************************)
(* What makes the controller correct.                                      *)
(***************************************************************************)
EXTENDS MeshSystem

\* Every variable keeps its type.
TypeOK == HubTypeOK /\ ControllerTypeOK

-----------------------------------------------------------------------------
(* While anything may happen *)

\* What a mesh has put in place on a cluster stays in place, with the mesh's
\* current operator configuration, until the mesh, the cluster or the set is
\* changed or an older mesh it conflicts with takes over.  No reconcile of
\* another mesh - of this set or another, working from caches that trail the
\* API or interrupted by errors and restarts - overwrites or deletes it.
SettledStays == \A s \in settled : InPlace(work, s[1], s[2])

\* A control plane namespace is on a cluster (or about to be) only while its
\* mesh exists and carries the finalizer: no order of deletion, stale caches,
\* errors and restarts leaves one behind that nobody will clean up.
NamespaceHasOwner ==
  \A p \in Spot :
    (work[p] # NoWork /\ ~work[p].dying /\ work[p].owner # NoMesh)
      => mesh[work[p].owner].phase \in {"live", "deleting"} /\ mesh[work[p].owner].fin

\* The Ready condition of a mesh never goes back to an older generation.
ObservedAdvances ==
  [][\A m \in Mesh : mesh'[m].phase # "gone" => mesh'[m].ready.obs >= mesh[m].ready.obs]_vars

-----------------------------------------------------------------------------
(* Once nothing is left to deliver, to reconcile or to finish *)

AtRest ==
  /\ pc = "idle" /\ queue = {}
  /\ meshEv = {} /\ memberEv = {} /\ csetEv = {} /\ workEv = {}
  /\ Listed = work
  /\ \A p \in Spot : work[p] # NoWork => ~work[p].dying

ClustersOf(s) == IF cset[s] = "exclusive" THEN {c \in Cluster : member[c] = s} ELSE {}

Refused(m) == mesh[m].ready.reason \in {"NamespaceConflict", "OperatorConfigConflict"}

\* At rest every live mesh was refused for a conflict or has both its works on
\* every cluster of its set.
RestProvisioned ==
  AtRest => \A m \in Mesh : mesh[m].phase = "live" =>
    Refused(m) \/ \A c \in ClustersOf(SetOf[m]) : InPlace(work, c, m)

\* At rest a work is on a cluster only if the cluster is in the set the work
\* was made for and a live mesh of that set exists: "when a cluster is no
\* longer needed by any mesh in its ClusterSet, the operator ManifestWork is
\* removed" (docs/design.md).
RestClean ==
  AtRest => \A p \in Spot : work[p] # NoWork =>
    /\ p[1] \in ClustersOf(work[p].set)
    /\ \E m \in Mesh : mesh[m].phase = "live" /\ SetOf[m] = work[p].set

\* At rest nothing is left on the spokes of a deleted mesh: "Deleting the mesh
\* deletes the namespace and everything in it on the spoke" (docs/design.md).
RestNamespaceRemoved ==
  AtRest => \A p \in Spot : (work[p] # NoWork /\ work[p].owner # NoMesh)
              => mesh[work[p].owner].phase = "live"

\* At rest the Ready condition of every live mesh that is not refused is about
\* its current generation, and True exactly if it has clusters and all of them
\* report an installed operator.
RestReady ==
  AtRest => \A m \in Mesh : (mesh[m].phase = "live" /\ ~Refused(m)) =>
    /\ mesh[m].ready.obs = mesh[m].gen
    /\ mesh[m].ready.reason = "AllClustersReady" <=>
         /\ ClustersOf(SetOf[m]) # {}
         /\ \A c \in ClustersOf(SetOf[m]) : work[<<c, OpWork>>] # NoWork /\ work[<<c, OpWork>>].csv # NoConfig

HasCause(m) ==
  \/ CpNs[m] = OpNs[mesh[m].op]
  \/ \E o \in Mesh \ {m} :
       /\ mesh[o].phase = "live" /\ SetOf[o] = SetOf[m] /\ Older(o, m)
       /\ CpNs[o] = CpNs[m] \/ mesh[o].op # mesh[m].op

\* At rest a live mesh is refused only for a conflict that still exists.
RestRefusedForCause ==
  AtRest => \A m \in Mesh : (mesh[m].phase = "live" /\ Refused(m)) => HasCause(m)

-----------------------------------------------------------------------------
(* Progress.  The worker never stops in the middle of a reconcile; the         *)
(* workqueue is first in, first out, so that a mesh waiting in it is taken     *)
(* however often others come back; watches deliver; agents finish deletions.   *)
(* Nobody is obliged to disturb the system.                                    *)

Working ==
  \/ Validate \/ Inventory
  \/ \E c \in Cluster : ApplyNamespace(c) \/ ApplyOperator(c)
  \/ ListOwned \/ ListShared \/ DeleteListed
  \/ Determine \/ WriteStatus \/ Trigger \/ Release

Fairness ==
  /\ WF_vars(Working)
  /\ \A m \in Mesh : SF_vars(Take(m) \/ TakeUnfinalized(m) \/ TakeNothing(m))
  /\ \A m \in Mesh : WF_vars(SyncMesh(m))
  /\ \A c \in Cluster : WF_vars(SyncMember(c)) /\ WF_vars(SyncWork(c)) /\ WF_vars(SyncLister(c))
  /\ \A s \in Set : WF_vars(SyncSet(s))
  /\ \A p \in Spot : WF_vars(AgentFinish(p))

FairSpec == Spec /\ Fairness

\* A mesh that is being deleted eventually goes: the finalizer is not held
\* for ever by retries, conflicts or the reconciles of other meshes.
DeletionCompletes ==
  \A m \in Mesh : mesh[m].phase = "deleting" ~> mesh[m].phase = "gone"

\* A mesh that is not refused eventually has its works on each of its
\* clusters, and keeps them.
EventuallyProvisioned ==
  \A m \in Mesh : <>[](mesh[m].phase = "live" /\ ~Refused(m)
                         => \A c \in ClustersOf(SetOf[m]) : InPlace(work, c, m))

\* A conflict that has gone away does not keep a mesh refused: "should unblock
\* the newer mesh when the older mesh is deleted" (test/integration).
RefusalLifted ==
  \A m \in Mesh : <>[](mesh[m].phase = "live" /\ Refused(m) => HasCause(m))

-----------------------------------------------------------------------------
(* What the repository says and the code does not keep *)

\* "all clusters have confirmed operator installation" (AllClustersReady): a
\* mesh that reports Ready for its current generation has the operator of that
\* generation's configuration installed wherever its works are in place.
ReadyConfirmsInstall ==
  \A s \in settled :
    (mesh[s[2]].ready = [reason |-> "AllClustersReady", obs |-> mesh[s[2]].gen])
      => work[<<s[1], OpWork>>].csv = mesh[s[2]].op
=============================================================================
