------------------------- MODULE MeshOwnershipProofs -------------------------
(***************************************************************************)
(* Namespaces have owners, proved from an inductive invariant.  That a     *)
(* finalizer is removed only when no work of the mesh is left depends on   *)
(* what the worker has seen and done before, so the invariant says, for    *)
(* each point of a reconcile, what is known there.                         *)
(***************************************************************************)
EXTENDS MeshTypeProofs

Present(m) == mesh[m].phase \in {"live", "deleting"} /\ mesh[m].fin
Leaving == {"deleting", "gone"}

\* The works that mesh m keeps on clusters.
HeldBy(m) == {p \in Spot : work[p] # NoWork /\ ~work[p].dying /\ work[p].owner = m}

\* What a cached mesh says of the mesh itself, however old the copy is.
CacheTrails ==
  \A m \in Mesh :
    /\ (meshC[m].phase = "live" /\ meshC[m].fin) => Present(m)
    /\ meshC[m].phase \in Leaving => mesh[m].phase \in Leaving

\* The worker is on the path that its copy of the mesh calls for.
PathSound ==
  /\ pc = "idle" => clusters = {}
  /\ (pc # "idle" /\ ~Deletion) => pc \notin {"trigger", "release"} /\ Present(cur)
  /\ (pc # "idle" /\ Deletion) =>
       /\ pc \in Cleaning \union {"trigger", "release"} /\ clusters = {}
       /\ mesh[cur].phase \in Leaving /\ meshC[cur].phase \in Leaving

\* A deletion loses none of the mesh's works on the way to the finalizer.
DeletionThorough ==
  (pc # "idle" /\ Deletion) =>
    /\ pc = "deleteOwned" => HeldBy(cur) \subseteq doomed
    /\ pc \in {"listShared", "deleteShared", "trigger", "release"} => HeldBy(cur) = {}

OwnersPresent == \A m \in Mesh : HeldBy(m) # {} => Present(m)

OwnershipInv ==
  TypeOK /\ CacheTrails /\ PathSound /\ DeletionThorough /\ OwnersPresent

\* What a step does to the meshes, the works and the cache, said once: meshes
\* only go forward, no mesh gets works it did not have, the cache takes what
\* is there.
MeshesAge ==
  \A m \in Mesh : /\ Present(m) => Present(m)'
                  /\ mesh[m].phase \in Leaving => mesh'[m].phase \in Leaving
WorksShrink == \A m \in Mesh : HeldBy(m)' \subseteq HeldBy(m)
CacheCatchesUp == mesh' = mesh /\ \A m \in Mesh : meshC'[m] \in {meshC[m], mesh[m]}

LEMMA SameMeshes == ASSUME mesh' = mesh PROVE MeshesAge
BY DEF MeshesAge, Present

LEMMA SameWorks == ASSUME work' = work PROVE WorksShrink
BY DEF WorksShrink, HeldBy

LEMMA CacheStep ==
  ASSUME OwnershipInv, MeshesAge, UNCHANGED meshC \/ CacheCatchesUp
  PROVE  CacheTrails'
<1>1. CASE UNCHANGED meshC
  BY <1>1 DEF OwnershipInv, CacheTrails, MeshesAge
<1>2. CASE CacheCatchesUp
  BY <1>2 DEF OwnershipInv, CacheTrails, MeshesAge, CacheCatchesUp, Present
<1> QED
  BY <1>1, <1>2

LEMMA OwnersStep ==
  ASSUME OwnershipInv, MeshesAge, WorksShrink
  PROVE  OwnersPresent'
BY DEF OwnershipInv, OwnersPresent, MeshesAge, WorksShrink

\* Steps that the worker takes no part in.
LEMMA QuietStep ==
  ASSUME OwnershipInv, TypeOK', MeshesAge, WorksShrink,
         UNCHANGED meshC \/ CacheCatchesUp,
         UNCHANGED <<pc, cur, my, clusters, doomed>>
  PROVE  OwnershipInv'
<1>1. CacheTrails' /\ OwnersPresent'
  BY CacheStep, OwnersStep
<1>2. pc # "idle" => cur \in Mesh
  BY DEF OwnershipInv, TypeOK, ControllerTypeOK
<1>3. PathSound'
  BY <1>2 DEF OwnershipInv, PathSound, MeshesAge, CacheCatchesUp, Deletion
<1>4. DeletionThorough'
  BY <1>2 DEF OwnershipInv, DeletionThorough, WorksShrink, Deletion
<1> QED
  BY <1>1, <1>3, <1>4 DEF OwnershipInv

\* The worker ends its reconcile.
LEMMA RestStep ==
  ASSUME OwnershipInv, TypeOK', Rest, CacheTrails', OwnersPresent'
  PROVE  OwnershipInv'
BY DEF OwnershipInv, Rest, PathSound, DeletionThorough

\* The worker goes on along the normal path, where it may add works of the
\* mesh that it reconciles.
LEMMA NormalStep ==
  ASSUME OwnershipInv, TypeOK', pc # "idle", ~Deletion, MeshesAge, UNCHANGED <<meshC, cur, my>>,
         \A m \in Mesh \ {cur} : HeldBy(m)' \subseteq HeldBy(m),
         pc' \notin {"idle", "trigger", "release"}
  PROVE  OwnershipInv'
<1>1. CacheTrails'
  BY CacheStep
<1>2. cur \in Mesh /\ Present(cur)
  BY DEF OwnershipInv, PathSound, TypeOK, ControllerTypeOK
<1>3. Present(cur)'
  BY <1>2 DEF MeshesAge, Present
<1>4. OwnersPresent'
  BY <1>2, <1>3 DEF OwnershipInv, OwnersPresent, MeshesAge, Present
<1>5. PathSound' /\ DeletionThorough'
  BY <1>3 DEF PathSound, DeletionThorough, Deletion
<1> QED
  BY <1>1, <1>4, <1>5 DEF OwnershipInv

LEMMA GiveUpStep ==
  ASSUME OwnershipInv, TypeOK', pc # "idle", ~Deletion, MeshesAge, WorksShrink, UNCHANGED meshC,
         GiveUp
  PROVE  OwnershipInv'
BY NormalStep DEF GiveUp, WorksShrink

\* The worker ends a reconcile without having changed a mesh or a work.
LEMMA LeaveStep ==
  ASSUME OwnershipInv, TypeOK', Rest, MeshesAge, WorksShrink, UNCHANGED meshC
  PROVE  OwnershipInv'
BY CacheStep, OwnersStep, RestStep

LEMMA AbandonStep ==
  ASSUME OwnershipInv, TypeOK', pc # "idle", Abandon, MeshesAge, WorksShrink, UNCHANGED meshC
  PROVE  OwnershipInv'
BY GiveUpStep, LeaveStep DEF Abandon, Requeue

\* The cases of WorkApplier: only the mesh that is written for gains a work.
LEMMA AppliedHolds ==
  ASSUME TypeOK, ~WorkLag, NEW p \in Spot, NEW want \in WorkRecord, Applied(p, want),
         NEW m \in Mesh, m # want.owner
  PROVE  HeldBy(m)' \subseteq HeldBy(m)
<1>1. Listed = work
  BY DEF Listed
<1>2. CASE KeepWork
  BY <1>2 DEF KeepWork, HeldBy
<1>3. ASSUME NEW w, w.owner # m, PutWork(p, w) PROVE HeldBy(m)' \subseteq HeldBy(m)
  <2>1. work' = [work EXCEPT ![p] = w]
    BY <1>3 DEF PutWork
  <2>2. p \notin HeldBy(m)'
    BY <1>3, <2>1 DEF HeldBy, TypeOK, HubTypeOK
  <2>3. \A q \in Spot : q # p => work'[q] = work[q]
    BY <2>1 DEF TypeOK, HubTypeOK
  <2> QED
    BY <2>2, <2>3 DEF HeldBy
<1>4. Patched(work[p], want).owner = want.owner
  BY DEF Patched
<1> QED
  BY <1>1, <1>2, <1>3, <1>4 DEF Applied

\* A work that is rewritten without a new owner, or marked for deletion.
LEMMA PutWorkHolds ==
  ASSUME TypeOK, NEW p \in Spot, NEW w, PutWork(p, w),
         w = NoWork \/ w.dying \/
           (work[p] # NoWork /\ ~work[p].dying /\ w.owner = work[p].owner)
  PROVE  WorksShrink
<1>1. work' = [work EXCEPT ![p] = w]
  BY DEF PutWork
<1>2. \A q \in Spot : q # p => work'[q] = work[q]
  BY <1>1 DEF TypeOK, HubTypeOK
<1>3. work'[p] = w
  BY <1>1 DEF TypeOK, HubTypeOK
<1> QED
  BY <1>2, <1>3 DEF WorksShrink, HeldBy

LEMMA DeletedHolds ==
  ASSUME TypeOK, NEW p \in Spot, Deleted(p)
  PROVE  WorksShrink /\ \A m \in Mesh : p \notin HeldBy(m)'
<1>1. CASE work[p] # NoWork /\ ~work[p].dying
  <2>1. PutWork(p, [work[p] EXCEPT !.dying = TRUE])
    BY <1>1 DEF Deleted
  <2>2. work[p] \in WorkRecord
    BY <1>1 DEF TypeOK, HubTypeOK, Work
  <2>3. [work[p] EXCEPT !.dying = TRUE].dying
    BY <2>2 DEF WorkRecord
  <2>4. work'[p] = [work[p] EXCEPT !.dying = TRUE]
    BY <2>1 DEF PutWork, TypeOK, HubTypeOK
  <2> QED
    BY <2>1, <2>3, <2>4, PutWorkHolds DEF HeldBy
<1>2. CASE ~(work[p] # NoWork /\ ~work[p].dying)
  BY <1>2, SameWorks DEF Deleted, KeepWork, HeldBy
<1> QED
  BY <1>1, <1>2

LEMMA OwnershipInit == Init => OwnershipInv
<1> SUFFICES ASSUME Init PROVE OwnershipInv
  OBVIOUS
<1>1. TypeOK
  BY TypeInit
<1>2. CacheTrails
  BY <1>1 DEF Init, HubInit, CacheTrails, Present, Leaving, Blank, NewMesh, TypeOK, HubTypeOK
<1>3. PathSound /\ DeletionThorough
  BY DEF Init, ControllerInit, PathSound, DeletionThorough
<1>4. OwnersPresent
  BY DEF Init, HubInit, OwnersPresent, HeldBy
<1> QED
  BY <1>1, <1>2, <1>3, <1>4 DEF OwnershipInv

LEMMA OwnershipDelivery == OwnershipInv /\ Delivery => OwnershipInv'
<1> SUFFICES ASSUME OwnershipInv, Delivery PROVE OwnershipInv'
  OBVIOUS
<1>1. TypeOK /\ TypeOK'
  BY TypeDelivery DEF OwnershipInv
<1>2. mesh' = mesh /\ work' = work /\ UNCHANGED <<pc, cur, my, clusters, doomed>>
  BY DEF Delivery, SyncMesh, SyncMember, SyncSet, SyncWork, SyncLister, apiVars, workerVars
<1>3. CacheCatchesUp
  BY <1>1, <1>2 DEF Delivery, SyncMesh, SyncMember, SyncSet, SyncWork, SyncLister,
                    CacheCatchesUp, TypeOK, HubTypeOK
<1> QED
  BY <1>1, <1>2, <1>3, SameMeshes, SameWorks, QuietStep

LEMMA EnvironmentAges ==
  ASSUME TypeOK, Environment
  PROVE  MeshesAge
<1>1. ASSUME NEW m \in Mesh, NEW record \in MeshRecord, UserWrites(m, record),
             Present(m) => record.phase \in {"live", "deleting"} /\ record.fin,
             mesh[m].phase \in Leaving => record.phase \in Leaving
      PROVE  MeshesAge
  <2>1. mesh' = [mesh EXCEPT ![m] = record]
    BY <1>1 DEF UserWrites, WriteMeshes
  <2> QED
    BY <1>1, <2>1 DEF MeshesAge, Present, TypeOK, HubTypeOK
<1>2. ASSUME NEW m \in Mesh, CreateMesh(m) PROVE MeshesAge
  <2>1. PICK op \in Config : UserWrites(m, NewMesh(op))
    BY <1>2 DEF CreateMesh
  <2> QED
    BY <1>1, <1>2, <2>1, BlankTypes DEF CreateMesh, Present, Leaving
<1>3. ASSUME NEW m \in Mesh, DeleteMesh(m) PROVE MeshesAge
  <2>1. mesh[m] \in MeshRecord /\ mesh[m].gen + 1 \in Nat
    BY DEF TypeOK, HubTypeOK, MeshRecord
  <2> DEFINE record == [mesh[m] EXCEPT !.phase = "deleting", !.gen = @ + 1]
  <2>2. record \in MeshRecord /\ record.phase = "deleting" /\ record.fin = mesh[m].fin
    BY <2>1 DEF MeshRecord
  <2> QED
    BY <1>1, <1>3, <2>2 DEF DeleteMesh, Present, Leaving
<1>4. ASSUME NEW m \in Mesh, WithdrawMesh(m) PROVE MeshesAge
  BY <1>1, <1>4, BlankTypes DEF WithdrawMesh, Present, Leaving
<1>5. ASSUME NEW m \in Mesh, EditOperator(m) PROVE MeshesAge
  <2>1. PICK op \in Config : UserWrites(m, [mesh[m] EXCEPT !.op = op, !.gen = @ + 1])
    BY <1>5 DEF EditOperator
  <2>2. mesh[m] \in MeshRecord /\ mesh[m].gen + 1 \in Nat
    BY DEF TypeOK, HubTypeOK, MeshRecord
  <2> DEFINE record == [mesh[m] EXCEPT !.op = op, !.gen = @ + 1]
  <2>3. record \in MeshRecord /\ record.phase = mesh[m].phase /\ record.fin = mesh[m].fin
    BY <2>2 DEF MeshRecord
  <2> QED
    BY <1>1, <2>1, <2>3 DEF Present
<1> QED
  BY <1>2, <1>3, <1>4, <1>5, SameMeshes
  DEF Environment, MoveCluster, ChangeSet, Tamper, AgentReport, AgentFinish

LEMMA OwnershipEnvironment == OwnershipInv /\ Environment => OwnershipInv'
<1> SUFFICES ASSUME OwnershipInv, Environment PROVE OwnershipInv'
  OBVIOUS
<1> USE DEF workerVars, cacheVars
<1>1. TypeOK /\ TypeOK'
  BY TypeEnvironment DEF OwnershipInv
<1>2. ASSUME NEW m \in Mesh, CreateMesh(m) \/ DeleteMesh(m) \/ WithdrawMesh(m) \/ EditOperator(m)
      PROVE  OwnershipInv'
  <2>1. UNCHANGED <<work, meshC, pc, cur, my, clusters, doomed>>
    BY <1>2 DEF CreateMesh, DeleteMesh, WithdrawMesh, EditOperator, UserWrites
  <2> QED
    BY <1>1, <2>1, EnvironmentAges, SameWorks, QuietStep
<1>3. ASSUME NEW c \in Cluster, MoveCluster(c) PROVE OwnershipInv'
  BY <1>1, <1>3, SameMeshes, SameWorks, QuietStep DEF MoveCluster
<1>4. ASSUME NEW s \in Set, ChangeSet(s) PROVE OwnershipInv'
  BY <1>1, <1>4, SameMeshes, SameWorks, QuietStep DEF ChangeSet
<1>5. ASSUME NEW c \in Cluster, Tamper(c) PROVE OwnershipInv'
  <2>1. ASSUME NEW n \in WorkName, work[<<c, n>>] # NoWork,
               PutWork(<<c, n>>, [work[<<c, n>>] EXCEPT !.dying = TRUE])
        PROVE  WorksShrink
    <3>1. <<c, n>> \in Spot
      BY DEF Spot
    <3>2. [work[<<c, n>>] EXCEPT !.dying = TRUE].dying
      BY <1>1, <2>1, <3>1 DEF TypeOK, HubTypeOK, Work, WorkRecord
    <3> QED
      BY <1>1, <2>1, <3>1, <3>2, PutWorkHolds
  <2>2. ASSUME NEW op \in Config, work[<<c, OpWork>>] # NoWork,
               PutWork(<<c, OpWork>>, [work[<<c, OpWork>>] EXCEPT !.op = op])
        PROVE  WorksShrink
    <3>1. <<c, OpWork>> \in Spot
      BY DEF Spot, WorkName
    <3> DEFINE w == [work[<<c, OpWork>>] EXCEPT !.op = op]
    <3>2. w.dying = work[<<c, OpWork>>].dying /\ w.owner = work[<<c, OpWork>>].owner
      BY <1>1, <2>2, <3>1 DEF TypeOK, HubTypeOK, Work, WorkRecord
    <3>3. w.dying \in BOOLEAN
      BY <1>1, <2>2, <3>1 DEF TypeOK, HubTypeOK, Work, WorkRecord
    <3> QED
      BY <1>1, <2>2, <3>1, <3>2, <3>3, PutWorkHolds
  <2>3. WorksShrink
    BY <1>5, <2>1, <2>2 DEF Tamper
  <2> QED
    BY <1>1, <1>5, <2>3, SameMeshes, QuietStep DEF Tamper
<1>6. ASSUME NEW c \in Cluster, AgentReport(c) PROVE OwnershipInv'
  <2>1. <<c, OpWork>> \in Spot
    BY DEF Spot, WorkName
  <2> DEFINE w == [work[<<c, OpWork>>] EXCEPT !.csv = work[<<c, OpWork>>].op]
  <2>2. work[<<c, OpWork>>] \in WorkRecord
    BY <1>1, <1>6, <2>1 DEF AgentReport, TypeOK, HubTypeOK, Work
  <2>3. w.owner = work[<<c, OpWork>>].owner
    BY <2>2 DEF WorkRecord
  <2>4. WorksShrink
    BY <1>1, <1>6, <2>1, <2>3, PutWorkHolds DEF AgentReport
  <2> QED
    BY <1>1, <1>6, <2>4, SameMeshes, QuietStep DEF AgentReport
<1>7. ASSUME NEW p \in Spot, AgentFinish(p) PROVE OwnershipInv'
  <2>1. WorksShrink
    BY <1>1, <1>7, PutWorkHolds DEF AgentFinish
  <2> QED
    BY <1>1, <1>7, <2>1, SameMeshes, QuietStep DEF AgentFinish
<1> QED
  BY <1>2, <1>3, <1>4, <1>5, <1>6, <1>7 DEF Environment

LEMMA OwnershipCrash == OwnershipInv /\ Crash => OwnershipInv'
<1> SUFFICES ASSUME OwnershipInv, Crash PROVE OwnershipInv'
  OBVIOUS
<1>1. TypeOK'
  BY TypeCrash DEF OwnershipInv
<1>2. mesh' = mesh /\ work' = work /\ meshC' = mesh /\ Rest
  BY DEF Crash, apiVars
<1>3. CacheTrails' /\ OwnersPresent'
  BY <1>2, SameMeshes, SameWorks, OwnersStep DEF CacheTrails, Present
<1> QED
  BY <1>1, <1>2, <1>3, RestStep

\* Without lagging caches the list of a mesh's works is complete when it is
\* taken, and nothing is added to them before the finalizer goes.
LEMMA OwnershipCleanup ==
  ASSUME ~WorkLag, OwnershipInv, Deletion, ListOwned \/ ListShared \/ DeleteListed \/ Trigger
  PROVE  OwnershipInv'
<1> USE DEF apiVars, cacheVars, hubVars
<1>1. TypeOK /\ TypeOK'
  BY TypeController DEF OwnershipInv, Controller
<1>2. pc # "idle" /\ cur \in Mesh /\ clusters = {}
  BY <1>1 DEF ListOwned, ListShared, DeleteListed, Trigger, OwnershipInv, PathSound,
              TypeOK, ControllerTypeOK
<1>3. mesh' = mesh /\ MeshesAge
  BY SameMeshes DEF ListOwned, ListShared, DeleteListed, Trigger
<1>4. UNCHANGED meshC
  BY DEF ListOwned, ListShared, DeleteListed, Trigger
<1>5. ASSUME WorksShrink, UNCHANGED <<cur, my, clusters>>,
             pc' \in Cleaning \union {"trigger", "release"},
             pc' = "deleteOwned" => HeldBy(cur)' \subseteq doomed',
             pc' \in {"listShared", "deleteShared", "trigger", "release"} => HeldBy(cur)' = {}
      PROVE  OwnershipInv'
  <2>1. CacheTrails' /\ OwnersPresent'
    BY <1>3, <1>4, <1>5, CacheStep, OwnersStep
  <2>2. PathSound'
    BY <1>2, <1>3, <1>4, <1>5 DEF OwnershipInv, PathSound, Deletion, Cleaning
  <2>3. DeletionThorough'
    BY <1>5 DEF DeletionThorough, HeldBy
  <2> QED
    BY <1>1, <2>1, <2>2, <2>3 DEF OwnershipInv
<1>6. CASE ListOwned
  <2>1. work' = work /\ WorksShrink
    BY <1>6, SameWorks DEF ListOwned
  <2>2. HeldBy(cur)' \subseteq doomed'
    BY <1>2, <1>6, <2>1 DEF ListOwned, HeldBy, Cached
  <2> QED
    BY <1>5, <1>6, <2>1, <2>2 DEF ListOwned, Cleaning
<1>7. CASE ListShared
  <2>1. work' = work /\ WorksShrink
    BY <1>7, SameWorks DEF ListShared
  <2>2. CASE Abandon
    BY <1>1, <1>2, <1>3, <1>4, <2>1, <2>2, AbandonStep
  <2>3. CASE ~Abandon
    <3>1. HeldBy(cur)' = {}
      BY <1>2, <1>7, <2>1, <2>3 DEF OwnershipInv, DeletionThorough, ListShared, HeldBy
    <3> QED
      BY <1>5, <1>7, <2>1, <2>3, <3>1 DEF ListShared, AfterCleanup, Cleaning
  <2> QED
    BY <2>2, <2>3
<1>8. CASE DeleteListed
  <2>1. PICK p \in doomed : Deleted(p) /\ doomed' = doomed \ {p}
    BY <1>8 DEF DeleteListed
  <2>2. WorksShrink /\ p \notin HeldBy(cur)'
    BY <1>1, <1>2, <1>8, <2>1, DeletedHolds DEF TypeOK, ControllerTypeOK, DeleteListed, HeldBy
  <2>3. HeldBy(cur)' \subseteq HeldBy(cur)
    BY <1>2, <1>8, <2>2 DEF WorksShrink, DeleteListed, HeldBy
  <2>4. HeldBy(cur)' \subseteq doomed'
    BY <1>2, <1>8, <2>1, <2>2, <2>3 DEF OwnershipInv, DeletionThorough, DeleteListed
  <2>5. pc = "deleteShared" => HeldBy(cur)' = {}
    BY <1>2, <2>3 DEF OwnershipInv, DeletionThorough
  <2> QED
    BY <1>5, <1>8, <2>2, <2>4, <2>5 DEF DeleteListed, AfterCleanup, Cleaning
<1>9. CASE Trigger
  <2>1. work' = work /\ WorksShrink
    BY <1>9, SameWorks DEF Trigger
  <2>2. HeldBy(cur)' = {}
    BY <1>2, <1>9, <2>1 DEF OwnershipInv, DeletionThorough, Trigger, HeldBy
  <2> QED
    BY <1>5, <1>9, <2>1, <2>2 DEF Trigger
<1> QED
  BY <1>6, <1>7, <1>8, <1>9

LEMMA OwnershipController == ~WorkLag /\ OwnershipInv /\ Controller => OwnershipInv'
<1> SUFFICES ASSUME ~WorkLag, OwnershipInv, Controller PROVE OwnershipInv'
  OBVIOUS
<1> USE DEF apiVars, cacheVars, eventVars, hubVars, workerVars
<1>1. TypeOK /\ TypeOK'
  BY TypeController DEF OwnershipInv
<1>2. ASSUME NEW m \in Mesh, TakeNothing(m) PROVE OwnershipInv'
  BY <1>1, <1>2, SameMeshes, SameWorks, QuietStep DEF TakeNothing
<1>3. ASSUME NEW m \in Mesh, TakeUnfinalized(m) PROVE OwnershipInv'
  <2>1. MeshesAge
    BY <1>1, <1>3, SameMeshes
    DEF TakeUnfinalized, WriteMeshes, MeshesAge, Present, TypeOK, HubTypeOK, MeshRecord
  <2> QED
    BY <1>1, <1>3, <2>1, SameWorks, QuietStep DEF TakeUnfinalized
<1>4. ASSUME NEW m \in Mesh, Take(m) PROVE OwnershipInv'
  <2>1. CacheTrails' /\ OwnersPresent'
    BY <1>4, SameMeshes, SameWorks, CacheStep, OwnersStep DEF Take
  <2>2. clusters = {} /\ (meshC[m].phase = "live" /\ meshC[m].fin => Present(m))
        /\ (meshC[m].phase \in Leaving => mesh[m].phase \in Leaving)
    BY <1>4 DEF Take, OwnershipInv, PathSound, CacheTrails
  <2>3. PathSound' /\ DeletionThorough'
    BY <1>4, <2>2
    DEF Take, PathSound, DeletionThorough, Deletion, Present, Leaving, Cleaning
  <2> QED
    BY <1>1, <2>1, <2>3 DEF OwnershipInv
<1>5. ASSUME Fail PROVE OwnershipInv'
  <2>1. mesh' = mesh /\ work' = work /\ meshC' = meshC /\ pc # "idle"
    BY <1>5 DEF Fail
  <2> QED
    BY <1>1, <1>5, <2>1, SameMeshes, SameWorks, LeaveStep, AbandonStep DEF Fail, Requeue
<1>6. ASSUME pc \in {"validate", "inventory", "namespace", "operator", "determine", "status"}
      PROVE  ~Deletion
  BY <1>6 DEF OwnershipInv, PathSound, Cleaning
<1>7. ASSUME pc \in {"trigger", "release"} PROVE Deletion
  BY <1>7 DEF OwnershipInv, PathSound
<1>8. CASE Validate
  BY <1>1, <1>6, <1>8, SameMeshes, SameWorks, NormalStep DEF Validate, WorksShrink
<1>9. CASE Inventory
  <2>1. mesh' = mesh /\ work' = work /\ meshC' = meshC /\ pc = "inventory"
    BY <1>9 DEF Inventory
  <2>2. UNCHANGED <<cur, my>> /\ pc' \in {"status", "listOwned", "namespace"}
    BY <1>9 DEF Inventory, GiveUp
  <2> QED
    BY <1>1, <1>6, <2>1, <2>2, SameMeshes, SameWorks, NormalStep DEF WorksShrink
<1>10. ASSUME NEW c \in Cluster, ApplyNamespace(c) PROVE OwnershipInv'
  <2>1. mesh' = mesh /\ meshC' = meshC /\ pc = "namespace" /\ UNCHANGED <<cur, my>>
        /\ pc' \in {"status", "operator"}
    BY <1>10 DEF ApplyNamespace, GiveUp
  <2>2. cur \in Mesh /\ <<c, CpNs[cur]>> \in Spot /\ NamespaceWork(cur) \in WorkRecord
    BY <1>1, <2>1, WantedTypes DEF TypeOK, ControllerTypeOK, Spot, WorkName
  <2>3. NamespaceWork(cur).owner = cur
    BY DEF NamespaceWork
  <2>4. \A m \in Mesh \ {cur} : HeldBy(m)' \subseteq HeldBy(m)
    BY <1>1, <1>10, <2>2, <2>3, AppliedHolds, SameWorks
    DEF ApplyNamespace, KeepWork, WorksShrink
  <2> QED
    BY <1>1, <1>6, <2>1, <2>4, SameMeshes, NormalStep
<1>11. ASSUME NEW c \in Cluster, ApplyOperator(c) PROVE OwnershipInv'
  <2>1. mesh' = mesh /\ meshC' = meshC /\ pc = "operator" /\ UNCHANGED <<cur, my>>
        /\ pc' \in {"status", "listOwned", "namespace"}
    BY <1>11 DEF ApplyOperator, GiveUp
  <2>2. cur \in Mesh /\ <<c, OpWork>> \in Spot /\ OperatorWork(cur, my.op) \in WorkRecord
    BY <1>1, <2>1, WantedTypes DEF TypeOK, ControllerTypeOK, Spot, WorkName, MeshRecord
  <2>3. OperatorWork(cur, my.op).owner \notin Mesh
    BY ConstantsAssumption DEF OperatorWork
  <2>4. WorksShrink
    BY <1>1, <1>11, <2>2, <2>3, AppliedHolds, SameWorks
    DEF ApplyOperator, KeepWork, WorksShrink
  <2> QED
    BY <1>1, <1>6, <2>1, <2>4, SameMeshes, NormalStep DEF WorksShrink
<1>12. CASE ListOwned \/ ListShared \/ DeleteListed
  <2>1. CASE Deletion
    BY <1>12, <2>1, OwnershipCleanup
  <2>2. CASE ~Deletion
    <3>1. mesh' = mesh /\ meshC' = meshC /\ pc \in Cleaning
      BY <1>12 DEF ListOwned, ListShared, DeleteListed, Cleaning
    <3>2. WorksShrink
      BY <1>1, <1>12, SameWorks, DeletedHolds
      DEF ListOwned, ListShared, DeleteListed, TypeOK, ControllerTypeOK
    <3>3. UNCHANGED <<cur, my>> /\ pc' \notin {"idle", "trigger", "release"}
      BY <1>12, <2>2, <3>1
      DEF ListOwned, ListShared, DeleteListed, Abandon, GiveUp, AfterCleanup, Cleaning
    <3> QED
      BY <1>1, <2>2, <3>1, <3>2, <3>3, SameMeshes, NormalStep DEF WorksShrink, Cleaning
  <2> QED
    BY <2>1, <2>2
<1>13. CASE Determine
  <2>1. mesh' = mesh /\ work' = work /\ meshC' = meshC /\ pc = "determine"
        /\ UNCHANGED <<cur, my>> /\ pc' = "status"
    BY <1>13 DEF Determine, GiveUp
  <2> QED
    BY <1>1, <1>6, <2>1, SameMeshes, SameWorks, NormalStep DEF WorksShrink
<1>14. CASE WriteStatus
  <2>1. MeshesAge
    <3>1. mesh' = mesh \/ mesh' = [mesh EXCEPT ![cur].ready = NewReady]
      BY <1>14 DEF WriteStatus, WriteMeshes
    <3>2. ASSUME NEW m \in Mesh, mesh' = [mesh EXCEPT ![cur].ready = NewReady]
          PROVE  mesh'[m].phase = mesh[m].phase /\ mesh'[m].fin = mesh[m].fin
      <4>1. mesh[m] \in MeshRecord
        BY <1>1 DEF TypeOK, HubTypeOK
      <4>2. mesh'[m] = IF m = cur THEN [mesh[m] EXCEPT !.ready = NewReady] ELSE mesh[m]
        BY <1>1, <3>2 DEF TypeOK, HubTypeOK
      <4> QED
        BY <4>1, <4>2 DEF MeshRecord
    <3> QED
      BY <3>1, <3>2, SameMeshes DEF MeshesAge, Present
  <2>2. Rest /\ meshC' = meshC /\ work' = work
    BY <1>14 DEF WriteStatus, FinishReconcile, Requeue, Done
  <2> QED
    BY <1>1, <2>1, <2>2, SameWorks, LeaveStep
<1>15. CASE Trigger
  BY <1>7, <1>15, OwnershipCleanup DEF Trigger
<1>16. CASE Release
  <2>1. Rest /\ meshC' = meshC /\ work' = work /\ WorksShrink
    BY <1>16, SameWorks DEF Release, Requeue, Done
  <2>2. CASE mesh' = mesh
    BY <1>1, <2>1, <2>2, SameMeshes, LeaveStep
  <2>3. CASE mesh' = [mesh EXCEPT ![cur] = Gone]
    <3>1. Deletion /\ cur \in Mesh
      BY <1>1, <1>7, <1>16 DEF Release, TypeOK, ControllerTypeOK
    <3>2. meshC[cur].phase \in Leaving /\ HeldBy(cur) = {}
      BY <1>16, <3>1 DEF Release, OwnershipInv, PathSound, DeletionThorough
    <3>3. mesh'[cur].phase \in Leaving /\ \A m \in Mesh : m # cur => mesh'[m] = mesh[m]
      BY <1>1, <2>3, <3>1 DEF Gone, Blank, Leaving, TypeOK, HubTypeOK
    <3>4. CacheTrails'
      BY <2>1, <3>2, <3>3 DEF OwnershipInv, CacheTrails, Present, Leaving
    <3>5. OwnersPresent'
      BY <2>1, <3>1, <3>2, <3>3 DEF OwnershipInv, OwnersPresent, WorksShrink, Present
    <3> QED
      BY <1>1, <2>1, <3>4, <3>5, RestStep
  <2> QED
    BY <1>16, <2>2, <2>3 DEF Release, WriteMeshes
<1> QED
  BY <1>2, <1>3, <1>4, <1>5, <1>8, <1>9, <1>10, <1>11, <1>12, <1>13, <1>14, <1>15, <1>16
  DEF Controller

LEMMA OwnershipStutter == OwnershipInv /\ UNCHANGED vars => OwnershipInv'
<1> SUFFICES ASSUME OwnershipInv, UNCHANGED vars PROVE OwnershipInv'
  OBVIOUS
<1>1. TypeOK'
  BY DEF OwnershipInv, TypeOK, HubTypeOK, ControllerTypeOK, vars, hubVars, apiVars,
         cacheVars, eventVars, workerVars
<1> QED
  BY <1>1, SameMeshes, SameWorks, QuietStep DEF vars, hubVars, apiVars, cacheVars, workerVars

LEMMA OwnershipNext == ASSUME ~WorkLag PROVE OwnershipInv /\ [Next]_vars => OwnershipInv'
BY OwnershipStutter, OwnershipController, OwnershipDelivery, OwnershipEnvironment,
   OwnershipCrash DEF Next

-----------------------------------------------------------------------------
(* What of it does not depend on the works, and so not on how they are read *)

PathInv == TypeOK /\ CacheTrails /\ PathSound

LEMMA PathStep ==
  ASSUME PathInv, TypeOK', MeshesAge, UNCHANGED meshC \/ CacheCatchesUp,
         \/ UNCHANGED <<pc, cur, my, clusters>>
         \/ pc' = "idle" /\ clusters' = {}
         \/ /\ pc # "idle" /\ pc' # "idle" /\ UNCHANGED <<cur, my>>
            /\ IF Deletion THEN clusters' = {} /\ pc' \in Cleaning \union {"trigger", "release"}
                           ELSE pc' \notin {"trigger", "release"}
  PROVE  PathInv'
<1>1. CacheTrails'
  BY DEF PathInv, CacheTrails, MeshesAge, CacheCatchesUp, Present
<1>2. pc # "idle" => cur \in Mesh
  BY DEF PathInv, TypeOK, ControllerTypeOK
<1>3. PathSound'
  BY <1>2 DEF PathInv, PathSound, MeshesAge, CacheCatchesUp, Deletion
<1> QED
  BY <1>1, <1>3 DEF PathInv

LEMMA PathController == PathInv /\ Controller => PathInv'
<1> SUFFICES ASSUME PathInv, Controller PROVE PathInv'
  OBVIOUS
<1> USE DEF apiVars, cacheVars, hubVars, workerVars
<1>1. TypeOK /\ TypeOK' /\ UNCHANGED meshC
  BY TypeController DEF PathInv, Controller, TakeNothing, TakeUnfinalized, Take, Fail, Validate,
     Inventory, ApplyNamespace, ApplyOperator, ListOwned, ListShared, DeleteListed, Determine,
     WriteStatus, Trigger, Release
<1>2. /\ pc \in {"validate", "inventory", "determine", "status"} \union Applying => ~Deletion
      /\ pc \in {"trigger", "release"} => Deletion
      /\ pc # "idle" /\ Deletion => clusters = {}
  BY DEF PathInv, PathSound, Cleaning, Applying
<1>3. MeshesAge \/ Release
  <2>1. \A m \in Mesh : mesh[m] \in MeshRecord
    BY <1>1 DEF TypeOK, HubTypeOK
  <2>2. ASSUME mesh' # mesh, ~Release
        PROVE  \A m \in Mesh : /\ mesh'[m].phase = mesh[m].phase
                               /\ mesh[m].fin => mesh'[m].fin
    <3>1. \/ \E m \in Mesh : mesh' = [mesh EXCEPT ![m].fin = TRUE]
          \/ mesh' = [mesh EXCEPT ![cur].ready = NewReady]
      BY <2>2 DEF Controller, TakeNothing, TakeUnfinalized, Take, Fail, Validate, Inventory,
         ApplyNamespace, ApplyOperator, ListOwned, ListShared, DeleteListed, Determine,
         WriteStatus, Trigger, WriteMeshes
    <3>2. \A m \in Mesh : mesh'[m] \in {mesh[m], [mesh[m] EXCEPT !.fin = TRUE],
                                       [mesh[m] EXCEPT !.ready = NewReady]}
      BY <1>1, <3>1 DEF TypeOK, HubTypeOK
    <3> QED
      BY <2>1, <3>2 DEF MeshRecord
  <2> QED
    BY <2>2, SameMeshes DEF MeshesAge, Present
<1>4. ASSUME NEW m \in Mesh, TakeNothing(m) \/ TakeUnfinalized(m) PROVE PathInv'
  <2>1. UNCHANGED <<pc, cur, my, clusters>> /\ ~Release
    BY <1>4 DEF TakeNothing, TakeUnfinalized, Release
  <2> QED
    BY <1>1, <1>3, <2>1, PathStep
<1>5. ASSUME NEW m \in Mesh, Take(m) PROVE PathInv'
  <2>1. /\ mesh' = mesh /\ cur' = m /\ my' = meshC[m] /\ clusters' = clusters /\ pc = "idle"
        /\ meshC[m].phase \in {"live", "deleting"} /\ meshC[m].fin
        /\ pc' = IF meshC[m].phase = "deleting" THEN "listOwned" ELSE "validate"
    BY <1>5 DEF Take
  <2>2. CacheTrails'
    BY <1>1, <2>1 DEF PathInv, CacheTrails, Present
  <2>3. PathSound'
    BY <1>1, <2>1 DEF PathInv, PathSound, CacheTrails, Deletion, Present, Leaving, Cleaning
  <2> QED
    BY <1>1, <2>2, <2>3 DEF PathInv
<1>6. ASSUME Rest \/ Abandon, pc # "idle", MeshesAge PROVE PathInv'
  BY <1>1, <1>6, PathStep DEF Rest, GiveUp, Abandon, Requeue
<1>7. CASE Fail
  BY <1>6, <1>7, SameMeshes DEF Fail, Requeue
<1>8. CASE Validate
  BY <1>1, <1>2, <1>3, <1>8, PathStep DEF Validate, Release
<1>9. CASE Inventory
  BY <1>1, <1>2, <1>3, <1>9, PathStep DEF Inventory, Release, GiveUp
<1>10. ASSUME NEW c \in Cluster, ApplyNamespace(c) \/ ApplyOperator(c) PROVE PathInv'
  BY <1>1, <1>2, <1>3, <1>10, PathStep DEF ApplyNamespace, ApplyOperator, Release, GiveUp, Applying
<1>11. CASE ListOwned \/ DeleteListed
  BY <1>1, <1>2, <1>3, <1>11, PathStep DEF ListOwned, DeleteListed, Release, AfterCleanup, Cleaning
<1>12. CASE ListShared
  <2>1. CASE Abandon
    BY <1>3, <1>6, <1>12, <2>1 DEF ListShared, Release
  <2>2. CASE ~Abandon
    BY <1>1, <1>2, <1>3, <1>12, <2>2, PathStep DEF ListShared, Release, AfterCleanup, Cleaning
  <2> QED
    BY <2>1, <2>2
<1>13. CASE Determine
  BY <1>1, <1>2, <1>3, <1>13, PathStep DEF Determine, Release, GiveUp
<1>14. CASE WriteStatus
  BY <1>3, <1>6, <1>14 DEF WriteStatus, FinishReconcile, Requeue, Done, Release
<1>15. CASE Trigger
  BY <1>1, <1>2, <1>3, <1>15, PathStep DEF Trigger, Release, Cleaning
<1>16. CASE Release
  <2>1. Rest /\ cur \in Mesh /\ meshC[cur].phase \in Leaving
    BY <1>1, <1>2, <1>16 DEF Release, Requeue, Done, TypeOK, ControllerTypeOK, PathInv, PathSound
  <2>2. \A m \in Mesh : mesh'[m] = mesh[m] \/ (m = cur /\ mesh'[m] = Gone)
    BY <1>1, <1>16 DEF Release, WriteMeshes, TypeOK, HubTypeOK
  <2>3. CacheTrails'
    BY <1>1, <2>1, <2>2 DEF PathInv, CacheTrails, Present, Leaving, Gone, Blank
  <2> QED
    BY <1>1, <2>1, <2>3 DEF PathInv, PathSound, Rest
<1> QED
  BY <1>4, <1>5, <1>7, <1>8, <1>9, <1>10, <1>11, <1>12, <1>13, <1>14, <1>15, <1>16 DEF Controller

LEMMA PathNext == PathInv /\ [Next]_vars => PathInv'
<1> SUFFICES ASSUME PathInv, [Next]_vars PROVE PathInv'
  OBVIOUS
<1>1. TypeOK /\ TypeOK'
  BY TypeController, TypeDelivery, TypeEnvironment, TypeCrash
     DEF PathInv, Next, TypeOK, HubTypeOK, ControllerTypeOK, vars, hubVars, apiVars, cacheVars,
         eventVars, workerVars
<1>2. CASE Delivery
  <2>1. mesh' = mesh /\ UNCHANGED <<pc, cur, my, clusters>>
    BY <1>2 DEF Delivery, SyncMesh, SyncMember, SyncSet, SyncWork, SyncLister, apiVars, workerVars
  <2>2. CacheCatchesUp
    BY <1>1, <1>2, <2>1 DEF Delivery, SyncMesh, SyncMember, SyncSet, SyncWork, SyncLister,
                      CacheCatchesUp, TypeOK, HubTypeOK
  <2> QED
    BY <1>1, <2>1, <2>2, SameMeshes, PathStep
<1>3. CASE Environment
  <2>1. UNCHANGED <<meshC, pc, cur, my, clusters>>
    BY <1>3 DEF Environment, CreateMesh, DeleteMesh, WithdrawMesh, EditOperator, UserWrites,
         MoveCluster, Tamper, AgentReport, ChangeSet, AgentFinish, workerVars, cacheVars
  <2> QED
    BY <1>1, <1>3, <2>1, EnvironmentAges, PathStep
<1>4. CASE Crash
  BY <1>1, <1>4 DEF Crash, Rest, PathInv, PathSound, CacheTrails, Present, Leaving, apiVars
<1>5. CASE UNCHANGED vars
  BY <1>1, <1>5, SameMeshes, PathStep DEF vars, hubVars, apiVars, cacheVars, workerVars
<1> QED
  BY <1>2, <1>3, <1>4, <1>5, PathController DEF Next

\* A control plane namespace is on a cluster only while its mesh exists and
\* carries the finalizer, as long as the controller's ManifestWork caches do
\* not trail the API server (with lagging caches it is not true: see the run
\* lag_leak).
THEOREM NamespacesAreOwned == ASSUME ~WorkLag PROVE Spec => []NamespaceHasOwner
<1>1. OwnershipInv => NamespaceHasOwner
  <2> SUFFICES ASSUME OwnershipInv, NEW p \in Spot,
                      work[p] # NoWork, ~work[p].dying, work[p].owner # NoMesh
               PROVE  Present(work[p].owner)
    BY DEF NamespaceHasOwner, Present
  <2>1. work[p].owner \in Mesh
    BY DEF OwnershipInv, TypeOK, HubTypeOK, Work, WorkRecord
  <2>2. p \in HeldBy(work[p].owner)
    BY DEF HeldBy
  <2> QED
    BY <2>1, <2>2 DEF OwnershipInv, OwnersPresent
<1> QED
  BY <1>1, OwnershipInit, OwnershipNext, PTL DEF Spec
=============================================================================
