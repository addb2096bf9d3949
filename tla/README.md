# Verification of the multicluster-mesh-addon controller

TLA+ models of the hub controller of multicluster-mesh-addon, the TLC
configurations that check them and TLAPS proofs about them. Everything below
refers to the Go code under `src/`; line numbers are those of this commit.

## 1. The system

The addon is one controller-runtime reconciler on an Open Cluster Management
hub. A user creates a `MultiClusterMesh` that names a `ManagedClusterSet`; the
controller installs a service mesh operator and a control plane namespace on
every cluster of the set by writing `ManifestWork`s, which agents on the spoke
clusters carry out and report about.

| Component | Where | State it keeps | Operations |
|---|---|---|---|
| Reconciler, mesh lifecycle | `pkg/hub/mesh/controller.go` 161-342, 404-465, 514-664 | none in memory; finalizer and status of the mesh, operator and control plane namespace `ManifestWork`s | `Reconcile`, `validate`, `doReconcile`, `cleanupMeshOwnedManifestWorks`, `cleanupManifestWorks`, `handleDeletion`, `triggerReconcileForNotReadyMeshes`, `determineStatus`, status write |
| Watches, caches, workqueue | 78-144, 344-401 | informer caches, queue of meshes | map functions from clusters, sets, works, certificates, secrets, service accounts to meshes |
| ManifestWork applier | sdk-go, used at 85-109 | a lister fed by its own informer, a memo of what was applied | `Apply`, `Delete` |
| Trust distribution | 291-309, 467-512, 771-785, 797-870, 894-910 | `Certificate`s, issued `Secret`s, cacerts `ManifestWork`s | ensure, delete for removed clusters, delete all |
| Endpoint discovery | `endpoint_discovery.go`, `controller.go` 939-1017 | `ManagedServiceAccount`s, token secrets, one `ManifestWorkReplicaSet` and `Placement` per mesh, `ManagedClusterSetBinding` | ensure, clean up, build remote secrets |
| Mesh status | `types.go` 44-76, 203-280 | Ready condition, per-cluster conditions | `SetReadyCondition`, `SetClusterCondition` |
| API rules | `types.go`, the CRD | immutability of `clusterSet` and control plane namespace, defaults | enforced by the API server |
| Process | `src/main.go` | leader lease | start, restart, fail-over |
| Key and version helpers, generated code, charts, tests | | none | |

**How they interact.** The reconciler never talks to a spoke and keeps nothing
between two reconciles. It reads informer caches and writes to the API server;
every write comes back as a watch event, which updates a cache and may enqueue
meshes. There are *two* caches of ManifestWorks: the manager's, which the
reconciler lists and gets from, and the lister of a separate informer, from
which `WorkApplier.Apply` decides between create, patch and skip. Meshes of one
ClusterSet share the operator work of each cluster: the oldest mesh decides its
content, a younger mesh that disagrees is *refused* (NamespaceConflict or
OperatorConfigConflict), and the work is removed when no mesh of the set is
left. A refused mesh is looked at again only when something enqueues it; a
deletion therefore patches an annotation on its not-ready peers.

**What is hard.** Every read may be stale. Another mesh, a user, an
administrator, an agent, a restart or a failing call may come between any two
API calls of a reconcile. Clean-up lists are taken first and worked off later.
Event mappings use caches that trail the object that changed. Refusals and
deletions depend on creation order with ties in the same second. Each of these,
with its line and the properties aimed at it, is in `PROJECT.json` under
`hazards`.

**What makes each component correct.**

- *Lifecycle*: accepted meshes never undo each other's works; at rest every
  accepted mesh is provisioned on exactly the clusters of its set and nothing
  else is left; a namespace never outlives the mesh that can clean it up;
  deletions end; refusals end with their cause; the Ready condition is truthful
  at rest and never goes back a generation.
- *Trust distribution*: a cluster carries the current CA of its mesh and of no
  other, and no CA that nobody will take away; Certificates go with the issuer
  or the cluster.
- *Endpoint discovery*: no service account outlives its mesh; at rest accounts
  have the validity asked for, the remote secrets are those of the clusters with
  a token, as last rotated; accounts of clusters that left are gone; the binding
  exists while a mesh of the namespace needs it.
- *Applier*: what Apply reported as applied is what the API has, or some later
  event leads to another Apply.
- *Status details*: an unchanged cluster keeps its transition time; a reconcile
  that changes nothing writes nothing.

## 2. Modules

    MeshHub            constants, API objects, caches, WorkApplier
      MeshController   the worker: Reconcile, one call or cache read per step
        MeshSystem     watch delivery, users, administrators, agents, crashes; Next, Spec
          MeshProperties   invariants, action property, fairness, liveness
            MeshRefinement   MeshSystem as a MeshTenancy (INSTANCE ... WITH)
              MCMesh         constants for TLC
              MeshTenancyProofs (with MeshOwnershipProofs)
            MeshTypeProofs
              MeshOwnershipProofs
              MeshStatusProofs
                MeshSettledProofs (with MeshOwnershipProofs)
    MeshTenancy        the abstract promise: who may hold a control plane namespace where

    MeshFrame          meshes, clusters and sets; taking a mesh, walking its clusters,
                       deletion, failures, crashes, watches, users
      FrameProofs      what the two proof modules below share
      EndpointDiscovery    accounts, tokens, replica set, binding, placement
        MCDiscovery        constants for TLC
        DiscoveryProofs
      TrustDistribution    Certificates, Secrets, cacerts works
        MCTrust            constants for TLC
        TrustProofs

One reconcile of the code does all of it in turn: namespace and operator work,
service account, Certificate and cacerts work per cluster, then the clean-ups,
binding, placement and replica set. The three parts share the meshes, clusters
and sets they read and the way a reconcile begins, fails and ends, and none
reads what another writes; so each has a machine of its own, in which the calls
of the other parts are at most the failures that end a reconcile early.
`MeshSystem` has validation, the status and the lag of the ManifestWork caches
in detail. `MeshFrame` says of validation only whether the spec is one that is
refused, and leaves out status and annotation writes: all they do to the other
two parts is to cause reconciles, and nothing there relies on one.

**State and code of `MeshSystem`.** `mesh`, `member`, `cset`, `work` are the API server's
objects. `meshC`, `memberC`, `csetC` are what the manager's cache shows of the
first three; a set `meshEv`, `memberEv`, `csetEv`, `workEv` holds the objects
with an undelivered event. `workC` and `workL` are the two ManifestWork caches;
they follow `work` at once if `WorkLag = FALSE` and trail it independently if
`WorkLag = TRUE`. `queue` is the workqueue. The worker has `pc` (what it does
next), `cur` and `my` (the mesh it took and its cached copy), `stale` (has the
API object a newer version), `clusters`, `todo`, `doomed` (what it listed) and
`verdict` (the Ready reason to write). `settled` is a history variable: the
pairs of cluster and mesh whose two works were put in place with every cache
involved up to date and which no user, administrator or older conflicting mesh
has touched since.

**Its actions and code.**

| Action | Code |
|---|---|
| `TakeNothing`, `TakeUnfinalized`, `Take` | `Reconcile` 161-187: not found or nothing to clean up; add the finalizer; dispatch |
| `Validate` | `validate` 228-262; the choice among several objecting meshes is left open, as the list order is |
| `Inventory` | `getClustersFromSet` 632-664 |
| `ApplyNamespace`, `ApplyOperator` | the loop 272-285, per cluster in name order, each one call of `Apply` |
| `ListOwned`, `ListShared`, `DeleteListed` | `cleanupMeshOwnedManifestWorks` 514-536 and `cleanupManifestWorks` 442-465, list first, then one delete per step |
| `Determine`, `WriteStatus` | `determineStatus` 558-588, the status write 210-223 with its retry on conflict |
| `Trigger`, `Release` | `triggerReconcileForNotReadyMeshes` 539-556, finalizer removal 433-438 |
| `Fail` | any API call of the current step fails: the normal path records ReconcileError and is retried, a deletion is retried |
| `SyncMesh`, `SyncMember`, `SyncSet`, `SyncWork`, `SyncLister` | the watches 112-144 with their map functions 360-401; a cluster event maps its old and its new version |
| `Crash` | `main.go` 136-176: the process goes, informers list again, all meshes are enqueued; the applier's lister may still be empty |
| `CreateMesh`, `DeleteMesh`, `WithdrawMesh`, `EditOperator`, `MoveCluster`, `ChangeSet`, `Tamper`, `AgentFinish`, `AgentReport` | the world around the controller, from how the code uses it (external) |

A write of an object whose copy is not the current version is refused, as the
API server's optimistic concurrency does; the model tells by an undelivered
event (`TakeUnfinalized`, `WriteStatus`) or by `stale` (`Release`).

**`MeshTenancy`** knows of each mesh only the phase of its life and of each spot -
a cluster and a namespace name - which mesh holds it. `MeshRefinement` maps a
namespace ManifestWork that is not being deleted to its mesh's holding the spot.

**`MeshFrame`.** `mesh`, `cluster`, `sets` with caches `meshC`, `clusterC`,
`setsC` and undelivered events as above; of a spec it keeps the part the
extending module is about (`setting`: token validity or issuer) and whether it
is refused (`clash`). A resource version `rv` decides whether a write of a mesh
is accepted. The worker lists its clusters into `clusters`, works `todo` off in
name order and what it listed for deletion as `doomed`.

| Action | Code |
|---|---|
| `TakeNothing`, `TakeUnfinalized`, `TakeLive`, `TakeDeleting` | `Reconcile` 161-197: nothing to do or refused, add the finalizer, accepted with its clusters listed, deletion 404-410 |
| `Release`, `Fail`, `FrameCrash` | 432-438; any failing call; `main.go` 136-176 |
| `SyncMesh`, `SyncCluster`, `SyncSet` | the watches 112-123, 370-388 |
| `CreateMesh`, `DeleteMesh`, `WithdrawMesh`, `EditMesh`, `ChangeCluster`, `ChangeSet` | external |

**`EndpointDiscovery`.** `account` (validity, and the token its status refers
to), `token` (does the Secret exist, which token), `bundle` (the remote secrets
in a mesh's replica set), `binding`, `placement`. A Get reads `accountC`,
`tokenC`, `bundleC` or `bindingC` if that kind is in `late`, the API otherwise;
only accounts have a watch.

| Action | Code |
|---|---|
| `EnsureAccount` | `endpoint_discovery.go` 31-60, 104-121: create or update what the cache shows; refused if that is not current |
| `ListAccounts`, `DeleteAccount` | 62-102: off the mesh's clusters, or all when it is deleted |
| `EnsureBinding`, `EnsurePlacement` | `controller.go` 949-1017 |
| `EnsureBundle` | 123-230: collect the tokens of the clusters with an endpoint, CreateOrUpdate the replica set |
| `Unbind` | 975-996 |
| `SyncAccount`; `SyncToken`, `SyncBundle`, `SyncBinding` | 787-795; copies that catch up and tell nobody |
| `AgentIssue`, `AgentReport`, `AgentRevoke`, `Collect` | the managed-serviceaccount agent and garbage collection (external) |

**`TrustDistribution`.** `cert` and `secret` by namespace and cluster, because
`getCacertsName` names them after the cluster alone; `cacerts`, one work per
cluster, because its name is a constant. A CA is known by the mesh and issuer it
was issued for and a serial number.

| Action | Code |
|---|---|
| `EnsureCert`, `EnsureCacerts` | `controller.go` 802-870, 894-910 |
| `ListCerts`, `DeleteCert` | 301-309, 467-512 |
| `ListOwned`, `ListShared`, `DeleteWork` | the same clean-ups as in `MeshController`, for the cacerts work |
| `SyncCert`, `SyncSecret`, `SyncWork` | 114, 771-785, 390-401 |
| `Issue`, `Renew`, `AgentFinish`, `Collect` | cert-manager, work agent, garbage collection (external) |

**Abstractions.** A mesh is known by its name and has one incarnation.
`spec.clusterSet` and the control plane namespace are immutable and so are
constants; `spec.operator` is one member of `Config` with an install namespace.
A ManifestWork has its set and mesh labels, the Subscription, the reported
installedCSV (as the configuration it was reported for) and a deletion mark;
the network label in a namespace work is left out. Of a watch stream the last
undelivered version of an object is kept; the works of one cluster share an
event. Consecutive reads of caches with no API call between them are one step
(`Inventory`, `ListShared`, `Determine`). The periodic resync of informers (10
hours) is left out, so what the properties say is achieved without it. Status
writes may or may not make a new version when only transition times differ.

In `EndpointDiscovery` an account that changes is recognised by its content, not
by a resource version; a mesh without a replica set is not told from one with an
empty one; of a cluster's API endpoint it keeps only whether there is one.
In `TrustDistribution` the ManifestWork caches are exact (their lag is
`MeshSystem`'s subject), and a Certificate is its owner and its issuer.

## 3. Properties

| Property | Says |
|---|---|
| `TypeOK` | every variable keeps its type |
| `SettledStays` | what an accepted mesh put in place stays, with its current operator configuration, until its user, its cluster's or set's administrator or an older conflicting mesh interferes: no reconcile of another mesh overwrites or deletes it |
| `NamespaceHasOwner` | a namespace work that is not being deleted has a mesh that exists and carries the finalizer |
| `ObservedAdvances` | the Ready condition never goes back a generation (action property) |
| `RestProvisioned` | at rest, each live mesh is refused or has both works on every cluster of its set |
| `RestClean` | at rest, a work is only on clusters of the set it was made for, and that set has a live mesh |
| `RestNamespaceRemoved` | at rest, no namespace work of a mesh that is gone |
| `RestReady` | at rest, Ready is about the current generation and True exactly if there are clusters and all report an installation |
| `RestRefusedForCause` | at rest, only a mesh with a standing conflict is refused |
| `DeletionCompletes`, `EventuallyProvisioned`, `RefusalLifted` | the same as progress, under fairness |
| `ImplementsTenancy` | every behaviour of the system is one of `MeshTenancy`: only a mesh that is there takes ground, and it is gone only when it has left all of it |
| `AccountsOwned` | a service account's mesh exists and carries the finalizer (accounts read without lag) |
| `RestAccounts` | at rest, an accepted mesh has accounts on exactly its clusters, with the validity it asks for now, whatever lags |
| `RestBundle` | at rest, its remote secrets are those of its reachable clusters, with the tokens as last rotated |
| `RestBinding` | at rest, binding and placement are there while needed (bindings read without lag) |
| `RestUnbound` | at rest, no binding without a live mesh of its namespace and set, unless deletions and withdrawals are mixed |
| `CacertsOwned` | a cacerts work that is not being deleted has a mesh that exists and carries the finalizer |
| `CaOfItsMesh` | if meshes do not share a namespace, no cluster gets a CA under another mesh's name |
| `RestTrusted` | if meshes do not share a namespace, at rest each cluster of an accepted mesh with an issuer carries its current CA of that issuer |
| `RestCertificates` | at rest, a Certificate belongs to a live mesh; if that is accepted, it names an issuer and has the cluster. A refused mesh keeps its Certificates (see 5) |
| `RestCacerts` | at rest, a cacerts work belongs to a live mesh, and is on a cluster of that mesh's set if some mesh of the set is accepted. If all are refused works stay on clusters that left (see 5) |
| `EventuallyTrusted` | under fairness, `RestTrusted`'s conclusion is reached and kept |
| `RestRevoked` | a refused mesh, too, has no accounts on clusters that left (documented; not kept, see 5) |
| `ReadyConfirmsInstall` | Ready for the current generation means that generation's operator is installed (documented; not kept, see 5) |

*At rest* means that no event, request, lagging cache or dying work is left. The
safety form is used because it needs no fairness and yields short traces; the
liveness runs check that the conclusions are reached and kept.

**Fairness** (`FairSpec`). The worker does not stop inside a reconcile (weak
fairness of its steps: every call returns, with a result or an error). The
workqueue is first in first out, so that a queued mesh is taken however often
others come back: strong fairness per mesh, since taking is disabled whenever
the worker is busy. Watches deliver and agents finish deletions (weak, per
object). Nothing obliges users, administrators, tampering, failures or reports
to happen. `TrustDistribution`'s `Fairness` is the same; besides, cert-manager
issues what is asked for and the garbage collector collects.

## 4. Runs

The runs of the first part use `MCMesh`, the others `MCDiscovery` and `MCTrust`. A run explores every mix of `Quotas` it is given; each
quota says how often each disturbance may happen. Disturbances are the only
unbounded thing in the model (generations and the clock grow only with them),
so the quotas are the only bound; watch delivery, retries, stale reads and the
interleaving of the worker with everything else are not bounded. Two meshes are
enough for every rule of the code that relates meshes (it relates pairs); the
second cluster matters only for partial progress and readiness of some but not
all, which `Lagging` covers. Deadlock is not checked because the system does
come to rest.

| Run | Instance | Disturbances, alternatives separated by `/` | Shows |
|---|---|---|---|
| `lifecycle` | two meshes of one set, one cluster, b created during the run; one configuration clashes with b's namespace | create, edit, delete / create, withdraw | who is refused and released; accepted meshes keep what they have; conditions do not go back |
| `disturbed` | two meshes of one set, one cluster | crash, fail, delete / tamper, install / set, delete / delete twice, lost | nothing orphaned (also by two deletions at once), at rest provisioned, clean and truthfully reported |
| `moving` | two sets with a mesh each, same control plane namespace, one cluster | move twice / move, set / move, delete | the cluster's works end up with the set that has it; the two meshes never undo settled works |
| `lagging` | one set, two clusters, both work caches lag | install twice, fail / crash, edit | Ready still ends truthful and never goes back |
| `progress` | two meshes with the same control plane namespace, one cluster, one configuration | tamper / delete, fail | deletions complete, works are repaired, refusals are lifted |
| `discovery` | two meshes of one namespace and set, one created during the run; two clusters, one of them in the set; no cache late, or accounts, Secrets, replica sets or bindings | create, delete twice / create, withdraw / edit, renew, crash / refuse and accept, move / endpoint, set / edit, delete / move twice, fail / delete, fail, move | no account is orphaned; accounts, remote secrets, binding and placement are right at rest |
| `trust` | two meshes with a namespace and a set each, two clusters, issuers "root", "next" and none | move, crash / move, fail / move, delete / edit, renew / set, refuse / delete, fail | CAs are issued, distributed, renewed, replaced and taken away; under fairness they arrive |
| `shared_leak`, `lag_leak`, `ready_early`, `refused_access`, `shared_cacerts` | see 5 | | the disagreements below |

Each pass run takes three quarters of a minute to three minutes with two workers; 1 to 3 million
distinct states (2.2 million for `discovery`, 319 thousand for `trust`, whose
liveness takes most of the time, 91 thousand for `progress`). `disturbed` checks the refinement as well.
In `discovery` the second mesh shares namespace and set with the first, which is
where the binding is shared; in `trust` the meshes have a set each, because two
with an issuer in one set never come to rest (`shared_cacerts`), and it is a
cluster that changes hands that puts one mesh's CA in another's way. That an
accepted mesh cleans up for refused ones of its set (`RestCacerts`) is therefore
covered by the theorem, as is a tie of creation times that makes a later mesh the
older (`SettledStays`, `RestRefusedForCause`): the keys of the runs follow the order
of creation.

## 5. Where code and documents disagree

- **`shared_leak`** (`RestClean`). A mesh without a finalizer already counts as
  needing the clusters of its set (`forEachMeshInClusterSet`, 352). If another
  mesh is deleted meanwhile, the shared operator works are spared for it; if it
  is then deleted before its first reconcile, it goes at once and nobody removes
  them. `docs/design.md:196` says they are removed when no mesh needs the cluster.
- **`lag_leak`** (`RestNamespaceRemoved`). Deletion lists the mesh's works from
  a cache (518). Works that the previous reconcile created and whose events have
  not arrived are missed, the finalizer goes, and later events find no mesh.
  `docs/design.md:223` says deletion removes the namespace.
- **`ready_early`** (`ReadyConfirmsInstall`). After an edit of `spec.operator`
  the feedback about the previous Subscription still counts as installed (570),
  so the mesh is Ready for the new generation. `types.go:210` says all clusters
  have confirmed the installation.

- **`refused_access`** (`RestRevoked`). A mesh that is refused since an edit
  returns from `Reconcile` before every clean-up (191). If a cluster leaves its
  set then, the service account and its remote secrets at the peers stay.
  `docs/design.md:249` says that the account is deleted and the remote secrets
  are removed when a cluster is removed from the mesh. The same return keeps its
  Certificates, on clusters that left and after the issuer is dropped, and its
  cacerts works on clusters that left, unless another mesh of the set is accepted
  and cleans up for it; `docs/design.md:254` says that the CA bundles are cleaned
  up. `RestCertificates` and `RestCacerts` state this exception, and TLC finds
  both violated without it. That a mesh is refused late is possible in several
  ways: it edits its operator configuration, or an older one does.
- **`shared_cacerts`** (`EventuallyTrusted`). The cacerts work has one name per
  cluster (909). Two accepted meshes of one set with an issuer write it in turn,
  each write reconciles both, and neither keeps its CA on the cluster.
  `docs/design.md:188` promises each mesh a trust domain and certificates of its
  own, `docs/design.md:192` names scoped to the mesh.

Met while modelling and proving, not stated as runs. Each is a premise that a
property or a theorem below cannot do without; TLC shows the violation when it is
dropped.

- *Lagging work caches.* `SettledStays`, `RestProvisioned` and the theorems with
  `~WorkLag` do not hold: a clean-up list may name a work that has been relabelled
  for another set since; Apply may judge a tampered work unchanged on its lister's
  old copy, which `controller_test.go:314` notes as issue 109.
- *Refusals that outlive their cause* (`RestRefusedForCause`). A refused mesh is
  reconciled again only when a deletion triggers it or a work of its set changes.
  It waits for the resync if the trigger patch failed, if the older mesh was
  withdrawn before it had its finalizer, if the older mesh's configuration was
  edited and edited back before the next reconcile of it (the works never
  change), if it was edited in a set that has no clusters, or if the edit put the
  operator into the older mesh's own control plane namespace, which gets that
  mesh refused before it writes a work.
- *A mesh refused for its own configuration* (`RestClean`), its control plane
  namespace being the operator's, returns before every clean-up (231) and still
  counts as needing its set. Operator works of a deleted peer then stay on a
  cluster that leaves the set.
- *Deadlock of a deletion.* While a set has an unsupported selector and a live
  mesh, no mesh of it can be deleted (645 fails `cleanupManifestWorks`).
- *Copies without a watch.* `RestBundle` fails if the Secret's or the replica
  set's cached copy lags, `RestBinding` if the binding's does: nobody is told when
  the copy catches up.
- *A binding spared* for a mesh that is withdrawn before its first reconcile, as
  in `shared_leak`, stays (`RestUnbound`).
- *Meshes of one namespace* share the Certificate and Secret of a cluster, so that
  `CaOfItsMesh` needs its premise, and `RestTrusted` too: when a cluster moves from
  the set of one to that of the other, the first deletes the Certificate that the
  second has taken over, and the event of that goes to the first.
- The works and Secrets of a mesh that drops its issuer stay; no property is
  about them.
- *A missing default.* The CRD defaults `tokenValidity` but not the objects around
  it. The controller's write of the finalizer sends them empty, so that they are
  defaulted then; a user's later write that drops `security` or `discovery` leaves
  no validity, and `endpoint_discovery.go` 49 dereferences it. In the model every
  mesh has one.

## 6. Proofs

For all values of the constants allowed by `ConstantsAssumption`, or
`FrameAssumption` with `DiscoveryAssumption` or `TrustAssumption` (any number of
meshes, clusters, sets and configurations, any quotas):

| Theorem | Module | Assumes |
|---|---|---|
| `TypeCorrect`: `Spec => []TypeOK` | `MeshTypeProofs` | |
| `NamespacesAreOwned`: `Spec => []NamespaceHasOwner` | `MeshOwnershipProofs` | `~WorkLag` |
| `ObservedNeverGoesBack`: `Spec => ObservedAdvances` | `MeshStatusProofs` | |
| `SettledWorksStay`: `Spec => []SettledStays` | `MeshSettledProofs` | `~WorkLag` |
| `RefinesTenancy`: `Spec => ImplementsTenancy` | `MeshTenancyProofs` | `~WorkLag` |
| `DiscoveryTypes`: `Spec => []TypeOK` | `DiscoveryProofs` | |
| `AccountsAreOwned`: `Spec => []AccountsOwned` | `DiscoveryProofs` | |
| `TrustTypes`: `Spec => []TypeOK` | `TrustProofs` | |
| `CasStayWithTheirMesh`: `Spec => []CaOfItsMesh` | `TrustProofs` | |
| `CacertsAreOwned`: `Spec => []CacertsOwned` | `TrustProofs` | |
| `ReadyAtRest`: `Spec => []RestReady` | `MeshStatusProofs` | |
| `ProvisionedAtRest`: `Spec => []RestProvisioned` | `MeshStatusProofs` | `~WorkLag` |
| `CleanAtRest`: `Spec => []RestClean` | `MeshSettledProofs` | `~WorkLag`, `NoWithdrawal`, `NoClash` |
| `RefusedForCauseAtRest`: `Spec => []RestRefusedForCause` | `MeshSettledProofs` | `NoWithdrawal`, `NoEdit`, `NoLoss` |
| `AccountsAtRest`: `Spec => []RestAccounts` | `DiscoveryProofs` | |
| `BundlesAtRest`: `Spec => []RestBundle` | `DiscoveryProofs` | |
| `BindingsAtRest`: `Spec => []RestBinding` | `DiscoveryProofs` | |
| `BindingsLeave`: `Spec => []RestUnbound` | `DiscoveryProofs` | |
| `TrustedAtRest`: `Spec => []RestTrusted` | `TrustProofs` | |
| `CertificatesAtRest`: `Spec => []RestCertificates` | `TrustProofs` | |
| `CacertsAtRest`: `Spec => []RestCacerts` | `TrustProofs` | |

`NoWithdrawal`, `NoEdit` and `NoLoss` are about the quotas: no mix of disturbances
has a mesh deleted before its finalizer, an edit of `spec.operator`, a trigger
patch that is lost. `NoClash`: no configuration puts the operator into a mesh's
control plane namespace. Each excludes a violation that TLC finds and section 5
describes; the other disturbances stay, in any number and any mix. With
`RestBundle`, `RestBinding`, `RestUnbound`, `RestTrusted` and `CaOfItsMesh` the
premise is part of the property.

*Type correctness* has one step per action, resting on lemmas about the
operators that write (`Applied`, `Deleted`, `PutWork`, `UserWrites`, `Rest`).

*Ownership.* `NamespaceHasOwner` alone is not inductive: the danger is the step
that removes a finalizer, and that it is harmless depends on what the worker did
since it took the mesh. `OwnershipInv` adds `CacheTrails` (a cached live and
finalized mesh is still there; a cached deleted one is on its way out or gone),
`PathSound` (the worker's copy decides its path; on the normal path the mesh is
there, on the deletion path it and its cached copy are leaving, and the
worker keeps no cluster list) and `DeletionThorough` (all works held by the mesh
are on the list while it is worked off, and none is left afterwards). Environment
and delivery steps go through one lemma, `QuietStep`: meshes only go forward, no
mesh gains works, the cache takes what is there. `WorkLag` must be false: the
list is then complete; otherwise `lag_leak` is a counterexample.

*Status.* The worker writes the generation of the copy it took, possibly much
later, onto the cache's latest copy. `StatusInv` orders the numbers: what was
reported, the worker's copy, the cached copy, the mesh. It needs `CacheCurrent`
(no undelivered event means the cached copy is the mesh), which is why a refused
write matters, and holds with any lag.

*Settled works.* `SettledStays` fails one step after a worker that holds the wrong
list or the wrong configuration, so `SettledInv` says what every worker knows of
every settled pair. `SettledVisible`: the caches show the pair's mesh, label and
set as they are, since whoever changes one of them also ends the pair.
`WorkerRespects`: from `Validate` on, the worker's mesh is older than a settled
mesh of its set or agrees with it on the configuration and differs in the
namespace; the clusters it lists hold no settled pair of another set and all of
its own. `ListsSound`: no work of a settled pair is on a list of works to delete,
because `ListOwned` spares the clusters listed and `ListShared` those that a live
mesh of the set needs. What a step leaves alone is said once (`Undisturbed`,
`WorksKept`), and each step of the worker that could hurt has its own lemma. The
proof uses `OwnershipInv` (a mesh on its way out has settled nothing) and
`CacheCurrent`. With `~WorkLag` dropped it is false: a cleanup then works off a
list of works that trails the API server.

*Refinement.* Each step of `MeshSystem` must be one of `MeshTenancy`'s or change
nothing it sees. `OwnershipInv` supplies what the abstract guards ask for: who
writes a namespace work is there (`PathSound`), so that writing it is `Occupy`;
the mesh whose finalizer is removed, or that goes without one, has no work left
(`DeletionThorough`, `NamespaceHasOwner`), so that going is `Leave`.

*Endpoint discovery and trust distribution.* `FrameInv` (in `FrameProofs`) is
what both rest on: the types, `CacheTrails`, and `Path`: while the worker is on
the normal path the mesh is there with its finalizer, and while it is on that of
a deletion the mesh and its cached copy are leaving, so that no later reconcile
takes it for a live one. It is shown once for the frame's actions
and for every step that only goes on (`JobStep`, `JobEnd`, `QuietStep`).
`AccountsOwned` and `CacertsOwned` are not inductive either: to them
`OwnedInv` adds that all the mesh's objects are on the list while it is worked
off and none is there after it, until the finalizer goes. `AccountsOwned` needs
accounts to be read as they are (its premise); any other cache may lag.
`CaOfItsMesh` fails as soon as a Secret of one mesh is where another looks;
`CaInv` therefore says that the mesh of every Certificate, and of every Secret
in the API or in the cache, is one of the namespace it is in, from which the
premise makes it the only one.

*At rest.* That something is right *when* nothing is left to do says nothing about
the steps on the way, so each of these invariants says what is right of a mesh
already while others are busy, or who is still going to see to it. They share one
argument, in two parts.

- *Attention.* What the reconcile of a mesh is made from - the mesh, its set, the
  clusters of the set, the objects it wrote - changes only together with an event
  or with the mesh entering the queue. A mesh without either (`Calm`, and in the
  other two modules `Steady`) therefore sees after a step what it saw before it
  (`View`, `SameView`), and the caches show it what is there (`CachesCurrent`,
  `WorksCurrent`, `Copies`). This is where a missing watch, or a map function that
  looks at the new version of a cluster only, breaks the proof.
- *Progress of the worker.* While the worker is at a calm mesh, its copy of the
  mesh and its list of clusters are what the caches show (`Knows`, `JobCurrent`),
  and what it has left behind it is in place (`LeftRight`: both works on every
  cluster not in `todo`; `Ahead` for accounts and their counterparts for
  Certificates and works). A failed call puts the mesh back into the queue, so
  that nothing is claimed of it.

`CalmInv` is that for `RestReady` and `RestProvisioned`. Readiness holds with
lagging work caches, because it is about what was reported and every report that
arrives later is an event; the works themselves need `~WorkLag`. `AccountsInv`,
`BundlesInv` and `BindingsKept` do it for endpoint discovery, `CertsKept` and
`WorksKept` for trust distribution. Bundles add that an agent changes a token
before it reports it in the account (`Unsettled`, `TokensKnown`), so that the
account's event comes later than the token; CAs add that whoever overwrites or
deletes an object of a mesh leaves an event that maps to that mesh (`EventsTell`),
which is what fails when meshes share a namespace.

*Nothing stays behind.* `RestClean` is harder, because the mesh that made a work may
be gone. A *stray* is a work of a set on a cluster where no live mesh of the set,
as the caches show them, needs it. `Guarded`: while a set has strays somebody is
`Responsible`: a mesh on its way out that has yet to list them, or a live one that
has yet to reconcile and whose older peers have as well, so that whatever could
have it refused is looked at again. `WillClean` says until which point of a
reconcile that is still to come, `Listing` that the worker writes only where the
set's meshes want it or somebody is responsible. Whoever is responsible stays so
through every step that is not a list of the strays, and a failure returns the
responsibility to the queue. `RestUnbound` rests on a similar argument
(`BindingOwned`, with `OneWay` for its premise), `RestCertificates` and
`RestCacerts` on a simpler one: every Certificate and cacerts work names a mesh
that is there, and what a steady mesh does not want it has yet to list. For works
`NoStrayWorks` says it of every steady mesh of the set, not only of the one whose
label a work has, because the last clean-up of a reconcile is by set. A refused
peer may have been accepted when its reconcile began and still be writing works;
`ListKnown` says that the clusters it writes to are then those of the set.

*Refusals.* `DenialsFounded`: a live mesh that was refused, or is about to be, and
that nothing will reconcile, has a standing conflict with an older mesh that is
live, or that is on its way out and has still to trigger its peers
(`WillTrigger`). The dangerous steps are that trigger, which must reach every peer
that is refused *by then or will be* from an older copy of the leaving mesh, and
`Validate`, which judges from caches; `OperatorsKnown` says that without edits
these show configurations as they are. The proof rests on `PathInv`, the part of
`OwnershipInv` that does not mention works, and holds with any lag.

The invariants were first checked with TLC on the instances of the passing runs.
On variants of these TLC also finds what goes wrong without each premise.

Proved are thus all invariants that the passing runs check, the action property
`ObservedAdvances` and the refinement `ImplementsTenancy`. (`RestNamespaceRemoved`,
which fails with lagging work caches, is what `NamespaceHasOwner` says without
them once no deletion is under way.)
Only model-checked is what needs fairness: `DeletionCompletes`,
`EventuallyProvisioned`, `RefusalLifted`, `EventuallyTrusted`; liveness and
`ENABLED` are outside what the prover handles. `RestRefusedForCause` with one edit
in a set with a cluster (run `lifecycle`) is checked but not proved: that the
edit's works tell the refused peer depends on the order of events of three
reconciles.

## 7. Not modelled

- *Status details.* The per-cluster conditions (`types.go` 44-76, `determineStatus`)
  are data derived from the works; the code reads none of them back, so what a
  wrong one could do ends in the status. Their transition times appear as
  status writes that may or may not change something.
- *The applier's memo* of hashes and generations belongs to sdk-go, which is not
  in the repository. `MeshHub` models what the controller relies on: create,
  skip or patch by a lister that may trail. What a memo and a lagging lister can
  do together (issue 109) is listed in `hazards`.
- *Permanent failures.* Every failing call is retried and succeeds some time. A
  token Secret without its data, an unsupported selector or a missing
  `TokenValidity` that stays for ever holds up a mesh for ever; see `hazards`.
- *The periodic resync* (10 hours) would repair several of the disagreements of
  section 5, late.
- *Names.* Meshes, clusters and their objects are model values; that two meshes
  may get one account name (`msaName`) is in `hazards`.
- *Data.* The content of Subscriptions, Certificates and kubeconfigs; the network
  label. Defaults and string constraints of the API are the API server's.
- *No state or no logic*: process set-up but for restarts, key and version
  helpers, deep copies and scheme registration (generated), charts, tests.

The three parts of a reconcile are not composed into one machine: they do not
read what the others write, and the product would be out of TLC's reach. What
is worth doing next: `RestRefusedForCause` with edits of older meshes that change
a work of the set, `RestClean` with clashing configurations in terms of the meshes
that still clash at rest, the
refinement of a `MeshTenancy`-like promise for service accounts and cacerts
works, and a machine of the per-cluster conditions with transition times.
