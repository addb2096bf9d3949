--------------------------- MODULE MeshStatusProofs ---------------------------
(***************************************************************************)
(* The Ready condition never goes back to an older generation, proved from *)
(* an inductive invariant that places the generation the worker is about   *)
(* to report between the one reported last and the current one, and the    *)
(* cached copy between the two as well.  And once nothing is left to do,   *)
(* an accepted mesh is provisioned and its condition tells what is there.  *)
(***************************************************************************)
EXTENDS MeshTypeProofs

\* A mesh with no undelivered event is cached as it is.
CacheCurrent == \A m \in Mesh : m \notin meshEv => meshC[m] = mesh[m]

\* Nothing is known of a mesh that was never created.
Unborn ==
  \A m \in Mesh : /\ mesh[m].phase = "none" => mesh[m] = Blank
                  /\ meshC[m].phase # "none" => mesh[m].phase # "none"

\* What was reported is no newer than the cached copy, and that one no newer
\* than the mesh.
ObservedBounded ==
  \A m \in Mesh :
    /\ mesh[m].ready.obs <= meshC[m].gen
    /\ mesh[m].phase # "gone" => meshC[m].gen <= mesh[m].gen
    /\ mesh[m].phase = "gone" => mesh[m].ready.obs = 0

\* Nor than the copy that is being reconciled, which is no newer than the
\* cached one.
WorkerObserves ==
  pc # "idle" =>
    /\ mesh[cur].phase # "none"
    /\ mesh[cur].ready.obs <= my.gen
    /\ meshC[cur].phase # "gone" => my.gen <= meshC[cur].gen
    /\ mesh[cur].phase # "gone" => my.gen <= mesh[cur].gen

StatusInv == TypeOK /\ CacheCurrent /\ Unborn /\ ObservedBounded /\ WorkerObserves

\* A step that changes no mesh and no cached mesh, and after which the worker
\* rests or goes on with the same copy.
LEMMA UnchangedStep ==
  ASSUME StatusInv, TypeOK', UNCHANGED <<mesh, meshC>>, meshEv \subseteq meshEv',
         pc' = "idle" \/ (pc # "idle" /\ UNCHANGED <<cur, my>>)
  PROVE  StatusInv'
BY DEF StatusInv, CacheCurrent, Unborn, ObservedBounded, WorkerObserves

LEMMA StatusInit == Init => StatusInv
<1> SUFFICES ASSUME Init PROVE StatusInv
  OBVIOUS
<1>1. TypeOK
  BY TypeInit
<1>2. PICK op \in [Existing -> Config] :
        mesh = [m \in Mesh |-> IF m \in Existing
                  THEN [NewMesh(op[m]) EXCEPT !.fin = TRUE] ELSE Blank]
  BY DEF Init, HubInit
<1>3. ASSUME NEW m \in Mesh
      PROVE  /\ mesh[m].ready.obs = 0 /\ mesh[m].gen \in Nat
             /\ mesh[m].phase = "none" => mesh[m] = Blank
  <2>1. CASE m \in Existing
    BY <1>2, <2>1 DEF NewMesh, Unset
  <2>2. CASE m \notin Existing
    BY <1>2, <2>2 DEF Blank, Unset
  <2> QED
    BY <2>1, <2>2
<1>4. meshC = mesh /\ pc = "idle"
  BY DEF Init, HubInit, ControllerInit
<1> QED
  BY <1>1, <1>3, <1>4 DEF StatusInv, CacheCurrent, Unborn, ObservedBounded, WorkerObserves

\* The numbers that the invariant compares.
LEMMA Numbers ==
  ASSUME TypeOK
  PROVE  /\ \A m \in Mesh : mesh[m].gen \in Nat /\ mesh[m].ready.obs \in Nat /\ meshC[m].gen \in Nat
         /\ my.gen \in Nat
BY DEF TypeOK, HubTypeOK, ControllerTypeOK, MeshRecord, Condition

LEMMA StatusDelivery == StatusInv /\ Delivery => StatusInv'
<1> SUFFICES ASSUME StatusInv, Delivery PROVE StatusInv'
  OBVIOUS
<1> USE DEF apiVars, workerVars
<1>1. TypeOK /\ TypeOK'
  BY TypeDelivery DEF StatusInv
<1>2. ASSUME NEW m \in Mesh, SyncMesh(m) PROVE StatusInv'
  <2>1. /\ UNCHANGED <<mesh, pc, cur, my>> /\ meshEv' = meshEv \ {m}
        /\ \A o \in Mesh : meshC'[o] = IF o = m THEN mesh[o] ELSE meshC[o]
    BY <1>1, <1>2 DEF SyncMesh, TypeOK, HubTypeOK
  <2>2. CacheCurrent' /\ Unborn'
    BY <2>1 DEF StatusInv, CacheCurrent, Unborn
  <2>3. mesh[m].ready.obs <= mesh[m].gen
    BY <1>1, Numbers DEF StatusInv, ObservedBounded
  <2>4. ObservedBounded'
    BY <1>1, <2>1, <2>3, Numbers DEF StatusInv, ObservedBounded
  <2>5. WorkerObserves'
    <3>1. pc # "idle" => cur \in Mesh
      BY <1>1 DEF TypeOK, ControllerTypeOK
    <3> QED
      BY <2>1, <3>1 DEF StatusInv, WorkerObserves
  <2> QED
    BY <1>1, <2>2, <2>4, <2>5 DEF StatusInv
<1>3. ASSUME NEW c \in Cluster, SyncMember(c) \/ SyncWork(c) \/ SyncLister(c) PROVE StatusInv'
  <2>1. UNCHANGED <<mesh, meshC, meshEv, pc, cur, my>>
    BY <1>3 DEF SyncMember, SyncWork, SyncLister, eventVars
  <2> QED
    BY <1>1, <2>1, UnchangedStep
<1>4. ASSUME NEW s \in Set, SyncSet(s) PROVE StatusInv'
  BY <1>1, <1>4, UnchangedStep DEF SyncSet
<1> QED
  BY <1>2, <1>3, <1>4 DEF Delivery

\* A user's write: a mesh is created, or goes, or keeps what it reported and
\* gets a newer generation.
LEMMA StatusUserWrites ==
  ASSUME StatusInv, TypeOK', NEW m \in Mesh, NEW record, UserWrites(m, record),
         record.phase # "none",
         \/ mesh[m].phase = "none" /\ record.ready.obs = 0 /\ record.gen = 1
              /\ record.phase # "gone"
         \/ mesh[m].phase # "none" /\ record = Gone
         \/ /\ mesh[m].phase \notin {"none", "gone"} /\ record.phase # "gone"
            /\ record.gen = mesh[m].gen + 1 /\ record.ready = mesh[m].ready
  PROVE  /\ StatusInv'
         /\ \A o \in Mesh :
              mesh'[o].phase # "gone" => mesh'[o].ready.obs >= mesh[o].ready.obs
<1>1. TypeOK
  BY DEF StatusInv
<1>2. \A o \in Mesh : mesh'[o] = IF o = m THEN record ELSE mesh[o]
  BY <1>1 DEF UserWrites, WriteMeshes, TypeOK, HubTypeOK
<1>3. UNCHANGED <<meshC, pc, cur, my>> /\ meshEv' = meshEv \union {m}
  BY DEF UserWrites, WriteMeshes, cacheVars
<1>4. mesh[m].phase = "none" => mesh[m].ready.obs = 0 /\ mesh[m].gen = 0
  BY DEF StatusInv, Unborn, Blank, Unset
<1>5. record = Gone => record.ready.obs = 0 /\ record.phase = "gone"
  BY DEF Gone, Blank, Unset
<1>6. CacheCurrent' /\ Unborn'
  BY <1>2, <1>3 DEF StatusInv, CacheCurrent, Unborn
<1>7. record.ready.obs <= meshC[m].gen
  BY <1>1, <1>4, <1>5, Numbers DEF StatusInv, ObservedBounded
<1>8. record.phase # "gone" => meshC[m].gen <= record.gen /\ mesh[m].gen <= record.gen
  BY <1>1, <1>4, <1>5, Numbers DEF StatusInv, ObservedBounded
<1>9. ObservedBounded'
  BY <1>2, <1>3, <1>5, <1>7, <1>8 DEF StatusInv, ObservedBounded
<1>10. WorkerObserves'
  <2> SUFFICES ASSUME pc # "idle" PROVE WorkerObserves'
    BY <1>3 DEF WorkerObserves
  <2>1. cur \in Mesh
    BY <1>1 DEF TypeOK, ControllerTypeOK
  <2>2. CASE cur # m
    BY <1>2, <1>3, <2>1, <2>2 DEF StatusInv, WorkerObserves
  <2>3. CASE cur = m
    <3>1. mesh[m].phase # "none" /\ mesh[m].ready.obs <= my.gen
      BY <2>3 DEF StatusInv, WorkerObserves
    <3>2. record.ready.obs <= my.gen
      BY <1>1, <1>5, <3>1, Numbers
    <3>3. record.phase # "gone" => my.gen <= record.gen
      BY <1>1, <1>5, <1>8, <2>3, <3>1, Numbers DEF StatusInv, WorkerObserves
    <3> QED
      BY <1>2, <1>3, <2>3, <3>2, <3>3 DEF StatusInv, WorkerObserves
  <2> QED
    BY <2>2, <2>3
<1>11. ASSUME NEW o \in Mesh, mesh'[o].phase # "gone"
       PROVE  mesh'[o].ready.obs >= mesh[o].ready.obs
  BY <1>1, <1>2, <1>4, <1>5, <1>11, Numbers
<1> QED
  BY <1>6, <1>9, <1>10, <1>11 DEF StatusInv

\* No step takes a condition back.
Advance ==
  \A m \in Mesh : mesh'[m].phase # "gone" => mesh'[m].ready.obs >= mesh[m].ready.obs

LEMMA StatusEnvironment == StatusInv /\ Environment => StatusInv' /\ Advance
<1> SUFFICES ASSUME StatusInv, Environment PROVE StatusInv' /\ Advance
  OBVIOUS
<1> USE DEF cacheVars, workerVars
<1>1. TypeOK /\ TypeOK'
  BY TypeEnvironment DEF StatusInv
<1>2. ASSUME UNCHANGED <<mesh, meshC, meshEv, pc, cur, my>> PROVE StatusInv' /\ Advance
  <2>1. StatusInv'
    BY <1>1, <1>2, UnchangedStep
  <2>2. Advance
    BY <1>1, <1>2, Numbers DEF Advance
  <2> QED
    BY <2>1, <2>2
<1>3. ASSUME NEW m \in Mesh, CreateMesh(m) PROVE StatusInv' /\ Advance
  <2>1. PICK op \in Config : UserWrites(m, NewMesh(op))
    BY <1>3 DEF CreateMesh
  <2>2. /\ NewMesh(op).phase = "live" /\ NewMesh(op).gen = 1
        /\ NewMesh(op).ready.obs = 0
    BY DEF NewMesh, Unset
  <2> QED
    BY <1>1, <1>3, <2>1, <2>2, StatusUserWrites DEF CreateMesh, Advance
<1>4. ASSUME NEW m \in Mesh, DeleteMesh(m) PROVE StatusInv' /\ Advance
  <2> DEFINE record == [mesh[m] EXCEPT !.phase = "deleting", !.gen = @ + 1]
  <2>1. mesh[m] \in MeshRecord
    BY <1>1 DEF TypeOK, HubTypeOK
  <2>2. record.phase = "deleting" /\ record.gen = mesh[m].gen + 1 /\ record.ready = mesh[m].ready
    BY <2>1 DEF MeshRecord
  <2> QED
    BY <1>1, <1>4, <2>2, StatusUserWrites DEF DeleteMesh, Advance
<1>5. ASSUME NEW m \in Mesh, WithdrawMesh(m) PROVE StatusInv' /\ Advance
  <2>1. Gone.phase = "gone"
    BY DEF Gone, Blank
  <2> QED
    BY <1>1, <1>5, <2>1, StatusUserWrites DEF WithdrawMesh, Advance
<1>6. ASSUME NEW m \in Mesh, EditOperator(m) PROVE StatusInv' /\ Advance
  <2>1. PICK op \in Config : UserWrites(m, [mesh[m] EXCEPT !.op = op, !.gen = @ + 1])
    BY <1>6 DEF EditOperator
  <2> DEFINE record == [mesh[m] EXCEPT !.op = op, !.gen = @ + 1]
  <2>2. mesh[m] \in MeshRecord
    BY <1>1 DEF TypeOK, HubTypeOK
  <2>3. record.phase = mesh[m].phase /\ record.gen = mesh[m].gen + 1
        /\ record.ready = mesh[m].ready
    BY <2>2 DEF MeshRecord
  <2> QED
    BY <1>1, <1>6, <2>1, <2>3, StatusUserWrites DEF EditOperator, Advance
<1>7. ASSUME NEW c \in Cluster, MoveCluster(c) \/ Tamper(c) \/ AgentReport(c)
      PROVE  StatusInv' /\ Advance
  BY <1>2, <1>7 DEF MoveCluster, Tamper, AgentReport
<1>8. ASSUME NEW s \in Set, ChangeSet(s) PROVE StatusInv' /\ Advance
  BY <1>2, <1>8 DEF ChangeSet
<1>9. ASSUME NEW p \in Spot, AgentFinish(p) PROVE StatusInv' /\ Advance
  BY <1>2, <1>9 DEF AgentFinish
<1> QED
  BY <1>3, <1>4, <1>5, <1>6, <1>7, <1>8, <1>9 DEF Environment

LEMMA StatusCrash == StatusInv /\ Crash => StatusInv'
<1> SUFFICES ASSUME StatusInv, Crash PROVE StatusInv'
  OBVIOUS
<1>1. TypeOK /\ TypeOK'
  BY TypeCrash DEF StatusInv
<1>2. mesh' = mesh /\ meshC' = mesh /\ pc' = "idle"
  BY DEF Crash, Rest, apiVars
<1>3. ObservedBounded'
  BY <1>1, <1>2, Numbers DEF StatusInv, ObservedBounded
<1> QED
  BY <1>1, <1>2, <1>3 DEF StatusInv, CacheCurrent, Unborn, WorkerObserves

LEMMA StatusController == StatusInv /\ Controller => StatusInv' /\ Advance
<1> SUFFICES ASSUME StatusInv, Controller PROVE StatusInv' /\ Advance
  OBVIOUS
<1> USE DEF apiVars, cacheVars, eventVars, hubVars, workerVars
<1>1. TypeOK /\ TypeOK'
  BY TypeController DEF StatusInv
<1>2. ASSUME UNCHANGED <<mesh, meshC>>, meshEv \subseteq meshEv',
             pc' = "idle" \/ (pc # "idle" /\ UNCHANGED <<cur, my>>)
      PROVE  StatusInv' /\ Advance
  <2>1. StatusInv'
    BY <1>1, <1>2, UnchangedStep
  <2>2. Advance
    BY <1>1, <1>2, Numbers DEF Advance
  <2> QED
    BY <2>1, <2>2
<1>3. ASSUME NEW m \in Mesh, TakeNothing(m) PROVE StatusInv' /\ Advance
  BY <1>2, <1>3 DEF TakeNothing
<1>4. ASSUME NEW m \in Mesh, TakeUnfinalized(m) PROVE StatusInv' /\ Advance
  <2>1. CASE mesh' = mesh /\ meshEv' = meshEv
    BY <1>2, <1>4, <2>1 DEF TakeUnfinalized
  <2>2. CASE m \notin meshEv /\ WriteMeshes([mesh EXCEPT ![m].fin = TRUE], {m})
    <3>1. mesh[m] \in MeshRecord /\ mesh[m].phase = "live"
      BY <1>1, <1>4, <2>2 DEF TakeUnfinalized, StatusInv, CacheCurrent, TypeOK, HubTypeOK
    <3>2. \A o \in Mesh : /\ mesh'[o].phase = mesh[o].phase /\ mesh'[o].ready = mesh[o].ready
                          /\ mesh'[o].gen = mesh[o].gen
                          /\ o # m => mesh'[o] = mesh[o]
      <4>1. \A o \in Mesh : mesh'[o] = IF o = m THEN [mesh[m] EXCEPT !.fin = TRUE] ELSE mesh[o]
        BY <1>1, <2>2 DEF WriteMeshes, TypeOK, HubTypeOK
      <4> QED
        BY <3>1, <4>1 DEF MeshRecord
    <3>3. meshC' = meshC /\ meshEv' = meshEv \union {m} /\ pc' = "idle"
      BY <1>4, <2>2 DEF TakeUnfinalized, WriteMeshes
    <3>4. StatusInv'
      BY <1>1, <3>1, <3>2, <3>3
      DEF StatusInv, CacheCurrent, Unborn, ObservedBounded, WorkerObserves
    <3>5. Advance
      BY <1>1, <3>2, Numbers DEF Advance
    <3> QED
      BY <3>4, <3>5
  <2> QED
    BY <1>4, <2>1, <2>2 DEF TakeUnfinalized
<1>5. ASSUME NEW m \in Mesh, Take(m) PROVE StatusInv' /\ Advance
  <2>1. UNCHANGED <<mesh, meshC, meshEv>> /\ cur' = m /\ my' = meshC[m]
        /\ meshC[m].phase \in {"live", "deleting"}
    BY <1>5 DEF Take
  <2>2. WorkerObserves'
    BY <1>1, <2>1, Numbers DEF StatusInv, Unborn, ObservedBounded, WorkerObserves
  <2>3. StatusInv'
    BY <1>1, <2>1, <2>2 DEF StatusInv, CacheCurrent, Unborn, ObservedBounded
  <2> QED
    BY <1>1, <2>1, <2>3, Numbers DEF Advance
<1>6. CASE Fail
  BY <1>2, <1>6 DEF Fail, Abandon, Requeue, Rest, GiveUp
<1>7. CASE Validate
  BY <1>2, <1>7 DEF Validate
<1>8. CASE Inventory
  BY <1>2, <1>8 DEF Inventory, GiveUp
<1>9. ASSUME NEW c \in Cluster, ApplyNamespace(c) PROVE StatusInv' /\ Advance
  BY <1>2, <1>9 DEF ApplyNamespace, GiveUp
<1>10. ASSUME NEW c \in Cluster, ApplyOperator(c) PROVE StatusInv' /\ Advance
  BY <1>2, <1>10 DEF ApplyOperator, GiveUp
<1>11. CASE ListOwned
  BY <1>2, <1>11 DEF ListOwned
<1>12. CASE ListShared
  BY <1>2, <1>12 DEF ListShared, Abandon, Requeue, Rest, GiveUp
<1>13. CASE DeleteListed
  BY <1>2, <1>13 DEF DeleteListed
<1>14. CASE Determine
  BY <1>2, <1>14 DEF Determine, GiveUp
<1>15. CASE WriteStatus
  <2>1. pc' = "idle" /\ meshC' = meshC /\ pc # "idle" /\ cur \in Mesh
    BY <1>1, <1>15
    DEF WriteStatus, FinishReconcile, Requeue, Done, Rest, TypeOK, ControllerTypeOK
  <2>2. CASE mesh' = mesh /\ meshEv' = meshEv
    BY <1>2, <2>1, <2>2
  <2>3. CASE /\ cur \notin meshEv /\ meshC[cur].phase # "gone"
             /\ WriteMeshes([mesh EXCEPT ![cur].ready = NewReady], {cur})
    <3>1. mesh[cur] \in MeshRecord /\ mesh[cur].phase # "gone" /\ mesh[cur].phase # "none"
      BY <1>1, <2>1, <2>3 DEF StatusInv, CacheCurrent, WorkerObserves, TypeOK, HubTypeOK
    <3>2. \A o \in Mesh : /\ mesh'[o].phase = mesh[o].phase /\ mesh'[o].gen = mesh[o].gen
                          /\ o # cur => mesh'[o] = mesh[o]
      <4>1. \A o \in Mesh :
              mesh'[o] = IF o = cur THEN [mesh[cur] EXCEPT !.ready = NewReady] ELSE mesh[o]
        BY <1>1, <2>3 DEF WriteMeshes, TypeOK, HubTypeOK
      <4> QED
        BY <3>1, <4>1 DEF MeshRecord
    <3>3. mesh'[cur].ready.obs = my.gen
      BY <1>1, <2>1, <2>3, <3>1 DEF WriteMeshes, NewReady, TypeOK, HubTypeOK, MeshRecord
    <3>4. mesh[cur].ready.obs <= my.gen /\ my.gen <= meshC[cur].gen
      BY <2>1, <2>3 DEF StatusInv, WorkerObserves
    <3>5. meshEv' = meshEv \union {cur}
      BY <2>3 DEF WriteMeshes
    <3>6. StatusInv'
      BY <1>1, <2>1, <3>1, <3>2, <3>3, <3>4, <3>5
      DEF StatusInv, CacheCurrent, Unborn, ObservedBounded, WorkerObserves
    <3>7. Advance
      BY <1>1, <3>2, <3>3, <3>4, Numbers DEF Advance
    <3> QED
      BY <3>6, <3>7
  <2> QED
    BY <1>15, <2>2, <2>3 DEF WriteStatus
<1>16. CASE Trigger
  BY <1>2, <1>16 DEF Trigger
<1>17. CASE Release
  <2>1. pc' = "idle" /\ meshC' = meshC /\ pc # "idle" /\ cur \in Mesh
    BY <1>1, <1>17 DEF Release, Requeue, Done, Rest, TypeOK, ControllerTypeOK
  <2>2. CASE mesh' = mesh /\ meshEv' = meshEv
    BY <1>2, <2>1, <2>2
  <2>3. CASE WriteMeshes([mesh EXCEPT ![cur] = Gone], {cur})
    <3>1. /\ \A o \in Mesh : mesh'[o] = IF o = cur THEN Gone ELSE mesh[o]
          /\ meshEv' = meshEv \union {cur}
      BY <1>1, <2>3 DEF WriteMeshes, TypeOK, HubTypeOK
    <3>2. Gone.phase = "gone" /\ Gone.ready.obs = 0
      BY DEF Gone, Blank, Unset
    <3>3. StatusInv'
      BY <1>1, <2>1, <3>1, <3>2, Numbers
      DEF StatusInv, CacheCurrent, Unborn, ObservedBounded, WorkerObserves
    <3>4. Advance
      BY <1>1, <3>1, <3>2, Numbers DEF Advance
    <3> QED
      BY <3>3, <3>4
  <2> QED
    BY <1>17, <2>2, <2>3 DEF Release
<1> QED
  BY <1>3, <1>4, <1>5, <1>6, <1>7, <1>8, <1>9, <1>10, <1>11, <1>12, <1>13, <1>14, <1>15,
     <1>16, <1>17 DEF Controller

LEMMA StatusStutter == StatusInv /\ UNCHANGED vars => StatusInv'
<1> SUFFICES ASSUME StatusInv, UNCHANGED vars PROVE StatusInv'
  OBVIOUS
<1>1. TypeOK'
  BY DEF StatusInv, TypeOK, HubTypeOK, ControllerTypeOK, vars, hubVars, apiVars,
         cacheVars, eventVars, workerVars
<1> QED
  BY <1>1, UnchangedStep DEF vars, hubVars, apiVars, cacheVars, eventVars, workerVars

\* The Ready condition of a mesh never goes back to an older generation,
\* whatever the controller's caches show.
THEOREM ObservedNeverGoesBack == Spec => ObservedAdvances
<1>1. StatusInv /\ [Next]_vars => StatusInv'
  BY StatusStutter, StatusController, StatusDelivery, StatusEnvironment, StatusCrash DEF Next
<1>2. ASSUME StatusInv, mesh' = mesh PROVE Advance
  BY <1>2, Numbers DEF StatusInv, Advance
<1>3. ASSUME StatusInv, Delivery \/ Crash PROVE mesh' = mesh
  BY <1>3 DEF Delivery, SyncMesh, SyncMember, SyncSet, SyncWork, SyncLister, Crash, apiVars
<1>4. StatusInv /\ [Next]_vars => [Advance]_vars
  BY <1>2, <1>3, StatusController, StatusEnvironment DEF Next
<1> QED
  BY <1>1, <1>4, StatusInit, PTL DEF Spec, ObservedAdvances, Advance

-----------------------------------------------------------------------------
(* At rest.  A mesh is calm when nothing is left that will make the worker  *)
(* look at it again.  Whatever changes what the reconcile of a mesh depends *)
(* on - the mesh, its set, the clusters of the set, their works - leaves an *)
(* event or enqueues the mesh, so that a mesh that is calm after a step was *)
(* calm before it and looks the same.                                       *)

\* A cluster or set with no undelivered event is cached as it is.
CachesCurrent ==
  /\ \A c \in Cluster : c \notin memberEv => memberC[c] = member[c]
  /\ \A s \in Set : s \notin csetEv => csetC[s] = cset[s]

\* So are the works of a cluster with no undelivered event.
WorksCurrent == WorkLag => \A p \in Spot : p[1] \notin workEv => workC[p] = work[p]

Calm(m) ==
  /\ m \notin queue /\ m \notin meshEv /\ mesh[m].phase = "live"
  /\ \A c \in SetMembers(SetOf[m]) : c \notin workEv

Busy(m) == pc # "idle" /\ cur = m

Installed(c) == Cached[<<c, OpWork>>] # NoWork /\ Cached[<<c, OpWork>>].csv # NoConfig

AllInstalled(m) ==
  SetMembers(SetOf[m]) # {} /\ \A c \in SetMembers(SetOf[m]) : Installed(c)

NamespaceRight(c, m) ==
  work[<<c, CpNs[m]>>] # NoWork /\ SameWork(work[<<c, CpNs[m]>>], NamespaceWork(m))

\* Both works of mesh m are on cluster c and as the mesh wants them.
Right(c, m) ==
  /\ NamespaceRight(c, m)
  /\ work[<<c, OpWork>>] # NoWork
  /\ SameWork(work[<<c, OpWork>>], OperatorWork(m, mesh[m].op))

Reported(m) ==
  /\ mesh[m].ready.obs = mesh[m].gen
  /\ ~Refused(m) => (mesh[m].ready.reason = "AllClustersReady" <=> AllInstalled(m))

\* A calm mesh that the worker is not at was reported truthfully and has its
\* works where the set's clusters are (if works are not read late).
Steady ==
  \A m \in Mesh : (Calm(m) /\ ~Busy(m)) =>
    /\ Reported(m)
    /\ WorkLag \/ Refused(m) \/ \A c \in SetMembers(SetOf[m]) : Right(c, m)

Counted == Applying \union Cleaning \union {"determine"}

Assessed == pc = "status" /\ verdict \in {"AllClustersReady", "ClustersNotReady"}

\* While nothing enqueues the mesh at work again, the worker's copy of it and
\* its list of clusters are what the caches show.
Knows(m) ==
  m \notin queue =>
    /\ my = meshC[m]
    /\ (my.phase = "live" /\ pc \in Counted) => clusters = SetMembers(SetOf[m])

\* If it is calm it is on the normal path, and what the worker has left behind
\* it is in place.
LeftRight(m) ==
  Calm(m) =>
    /\ pc \in Counted \union {"validate", "inventory", "status"}
    /\ pc = "status" => verdict # "None"
    /\ Assessed \/ pc \in Cleaning \union {"determine"} => todo = {}
    /\ Assessed => (verdict = "AllClustersReady" <=> AllInstalled(m))
    /\ ~WorkLag =>
         /\ Assessed \/ pc \in Counted => \A c \in SetMembers(SetOf[m]) \ todo : Right(c, m)
         /\ pc = "operator" => \A c \in todo : First(c) => NamespaceRight(c, m)

AtWork ==
  /\ todo \subseteq clusters
  /\ \A m \in Mesh : Busy(m) => Knows(m) /\ LeftRight(m)

CalmInv == StatusInv /\ CachesCurrent /\ WorksCurrent /\ Steady /\ AtWork

\* What a step may not do to a mesh behind its back.
View(m) ==
  /\ m \notin queue' =>
       /\ m \notin queue /\ meshC'[m] = meshC[m]
       /\ meshC[m].phase = "live" => SetMembers(SetOf[m])' = SetMembers(SetOf[m])
  /\ Calm(m)' =>
       /\ Calm(m) /\ mesh'[m] = mesh[m]
       /\ SetMembers(SetOf[m])' = SetMembers(SetOf[m])
       /\ \A c \in SetMembers(SetOf[m]), n \in WorkName :
            work'[<<c, n>>] = work[<<c, n>>] /\ Cached[<<c, n>>]' = Cached[<<c, n>>]

LEMMA Names ==
  /\ OpWork \in WorkName /\ \A m \in Mesh : CpNs[m] \in WorkName
  /\ \A s \in Set : SetMembers(s) \subseteq Cluster
  /\ \A m \in Mesh : SetOf[m] \in Set
BY ConstantsAssumption DEF WorkName, SetMembers

\* A mesh that is calm after such a step is reported, has its works and
\* shows its clusters as before.
LEMMA ViewKeeps ==
  ASSUME NEW m \in Mesh, View(m), Calm(m)'
  PROVE  /\ Calm(m) /\ SetMembers(SetOf[m])' = SetMembers(SetOf[m])
         /\ Refused(m)' <=> Refused(m)
         /\ AllInstalled(m)' <=> AllInstalled(m)
         /\ Reported(m)' <=> Reported(m)
         /\ \A c \in SetMembers(SetOf[m]) :
              /\ Right(c, m)' <=> Right(c, m)
              /\ NamespaceRight(c, m)' <=> NamespaceRight(c, m)
<1>1. /\ Calm(m) /\ mesh'[m] = mesh[m] /\ SetMembers(SetOf[m])' = SetMembers(SetOf[m])
      /\ \A c \in SetMembers(SetOf[m]), n \in WorkName :
           work'[<<c, n>>] = work[<<c, n>>] /\ Cached[<<c, n>>]' = Cached[<<c, n>>]
  BY DEF View
<1>2. Refused(m)' <=> Refused(m)
  BY <1>1 DEF Refused
<1>3. \A c \in SetMembers(SetOf[m]) : Installed(c)' <=> Installed(c)
  BY <1>1, Names DEF Installed
<1>4. AllInstalled(m)' <=> AllInstalled(m)
  BY <1>1, <1>3 DEF AllInstalled
<1>5. Reported(m)' <=> Reported(m)
  BY <1>1, <1>2, <1>4 DEF Reported
<1>6. \A c \in SetMembers(SetOf[m]) :
        /\ Right(c, m)' <=> Right(c, m)
        /\ NamespaceRight(c, m)' <=> NamespaceRight(c, m)
  BY <1>1, Names DEF Right, NamespaceRight
<1> QED
  BY <1>1, <1>2, <1>4, <1>5, <1>6

\* A mesh the worker is not at stays steady.
LEMMA SteadyStep ==
  ASSUME Steady, NEW m \in Mesh, View(m), Calm(m)', ~Busy(m)
  PROVE  /\ Reported(m)'
         /\ WorkLag \/ Refused(m)' \/ \A c \in SetMembers(SetOf[m])' : Right(c, m)'
BY ViewKeeps DEF Steady

-----------------------------------------------------------------------------
(* Which steps leave every mesh its view *)

\* A step that reads and delivers nothing: what it writes leaves an event.
LEMMA WritesView ==
  ASSUME UNCHANGED cacheVars,
         meshEv \subseteq meshEv', workEv \subseteq workEv',
         \A m \in Mesh : mesh'[m] = mesh[m] \/ m \in meshEv',
         \A c \in Cluster, n \in WorkName :
           work'[<<c, n>>] = work[<<c, n>>] \/ c \in workEv',
         NEW m \in Mesh, m \notin queue' => m \notin queue
  PROVE  View(m)
<1>1. SetMembers(SetOf[m])' = SetMembers(SetOf[m]) /\ meshC' = meshC /\ workC' = workC
  BY DEF SetMembers, cacheVars
<1>2. ASSUME Calm(m)'
      PROVE  /\ Calm(m) /\ mesh'[m] = mesh[m]
             /\ \A c \in SetMembers(SetOf[m]), n \in WorkName :
                  work'[<<c, n>>] = work[<<c, n>>] /\ Cached[<<c, n>>]' = Cached[<<c, n>>]
  <2>1. mesh'[m] = mesh[m]
    BY <1>2 DEF Calm
  <2>2. Calm(m)
    BY <1>1, <1>2, <2>1 DEF Calm
  <2>3. \A c \in SetMembers(SetOf[m]) : c \in Cluster /\ c \notin workEv'
    BY <1>1, <1>2, Names DEF Calm
  <2> QED
    BY <1>1, <2>1, <2>2, <2>3 DEF Cached
<1> QED
  BY <1>1, <1>2 DEF View

LEMMA DeliveryView ==
  ASSUME StatusInv, Delivery, NEW m \in Mesh
  PROVE  View(m)
<1> USE DEF apiVars
<1>1. TypeOK /\ CacheCurrent
  BY DEF StatusInv
<1>2. UNCHANGED <<mesh, work>> /\ queue \subseteq queue'
  BY DEF Delivery, SyncMesh, SyncMember, SyncSet, SyncWork, SyncLister
<1>3. (m \notin meshEv /\ mesh[m].phase = "live") => meshC[m].phase = "live"
  BY <1>1 DEF CacheCurrent
<1>4. ASSUME NEW o \in Mesh, SyncMesh(o) PROVE View(m)
  <2>1. SetMembers(SetOf[m])' = SetMembers(SetOf[m]) /\ workC' = workC /\ workEv' = workEv
    BY <1>4 DEF SyncMesh, SetMembers
  <2>2. o \in queue' /\ (m # o => meshC'[m] = meshC[m] /\ (m \in meshEv => m \in meshEv'))
    BY <1>1, <1>4 DEF SyncMesh, TypeOK, HubTypeOK
  <2> QED
    BY <1>2, <2>1, <2>2 DEF View, Calm, Cached
<1>5. ASSUME NEW c \in Cluster, SyncMember(c) PROVE View(m)
  <2>1. UNCHANGED <<meshC, csetC, workC, workEv, meshEv>>
    BY <1>5 DEF SyncMember
  <2>2. ASSUME m \notin queue', meshC[m].phase = "live"
        PROVE  SetMembers(SetOf[m])' = SetMembers(SetOf[m])
    <3>1. memberC[c] # SetOf[m] /\ member[c] # SetOf[m]
      BY <1>5, <2>2 DEF SyncMember, Targeting
    <3>2. \A d \in Cluster : memberC'[d] = IF d = c THEN member[c] ELSE memberC[d]
      BY <1>1, <1>5 DEF SyncMember, TypeOK, HubTypeOK
    <3> QED
      BY <2>1, <3>1, <3>2 DEF SetMembers
  <2> QED
    BY <1>2, <1>3, <2>1, <2>2 DEF View, Calm, Cached
<1>6. ASSUME NEW s \in Set, SyncSet(s) PROVE View(m)
  <2>1. UNCHANGED <<meshC, memberC, workC, workEv, meshEv>>
    BY <1>6 DEF SyncSet
  <2>2. ASSUME m \notin queue', meshC[m].phase = "live"
        PROVE  SetMembers(SetOf[m])' = SetMembers(SetOf[m])
    <3>1. SetOf[m] # s
      BY <1>6, <2>2 DEF SyncSet, Targeting
    <3>2. csetC'[SetOf[m]] = csetC[SetOf[m]]
      BY <1>1, <1>6, <3>1, Names DEF SyncSet, TypeOK, HubTypeOK
    <3> QED
      BY <2>1, <3>2 DEF SetMembers
  <2> QED
    BY <1>2, <1>3, <2>1, <2>2 DEF View, Calm, Cached
<1>7. ASSUME NEW c \in Cluster, SyncWork(c) PROVE View(m)
  <2>1. UNCHANGED <<meshC, memberC, csetC, meshEv>> /\ workEv' = workEv \ {c}
    BY <1>7 DEF SyncWork
  <2>2. SetMembers(SetOf[m])' = SetMembers(SetOf[m])
    BY <2>1 DEF SetMembers
  <2>3. ASSUME m \notin queue', meshC[m].phase = "live" PROVE c \notin SetMembers(SetOf[m])
    BY <1>7, <2>3 DEF SyncWork, Targeting, SetMembers
  <2>4. \A d \in Cluster, n \in WorkName : d # c => Cached[<<d, n>>]' = Cached[<<d, n>>]
    BY <1>1, <1>2, <1>7 DEF SyncWork, SyncedWorks, Cached, Spot, TypeOK, HubTypeOK
  <2>5. ASSUME Calm(m)'
        PROVE  /\ c \notin SetMembers(SetOf[m]) /\ Calm(m)
    BY <1>2, <1>3, <2>1, <2>2, <2>3, <2>5 DEF Calm
  <2> QED
    BY <1>2, <2>1, <2>2, <2>4, <2>5, Names DEF View
<1>8. ASSUME NEW c \in Cluster, SyncLister(c) PROVE View(m)
  <2>1. UNCHANGED <<meshC, memberC, csetC, workC, queue, meshEv, workEv>>
    BY <1>8 DEF SyncLister, eventVars
  <2> QED
    BY <1>2, <2>1 DEF View, Calm, Cached, SetMembers
<1> QED
  BY <1>4, <1>5, <1>6, <1>7, <1>8 DEF Delivery

\* So do the users, the administrators and the agents.
LEMMA EnvironmentView ==
  ASSUME TypeOK, Environment, NEW m \in Mesh
  PROVE  View(m)
<1>1. UNCHANGED cacheVars /\ UNCHANGED queue
  BY DEF Environment, CreateMesh, DeleteMesh, WithdrawMesh, EditOperator, UserWrites,
         MoveCluster, Tamper, AgentReport, ChangeSet, AgentFinish
<1>2. /\ meshEv \subseteq meshEv'
      /\ \A o \in Mesh : mesh'[o] = mesh[o] \/ o \in meshEv'
  BY DEF Environment, CreateMesh, DeleteMesh, WithdrawMesh, EditOperator, UserWrites, WriteMeshes,
         MoveCluster, Tamper, AgentReport, ChangeSet, AgentFinish, TypeOK, HubTypeOK
<1>3. /\ workEv \subseteq workEv'
      /\ \A c \in Cluster, n \in WorkName :
           work'[<<c, n>>] = work[<<c, n>>] \/ c \in workEv'
  <2>1. \A p \in Spot : \A w : PutWork(p, w) => /\ workEv \subseteq workEv'
                       /\ \A c \in Cluster, n \in WorkName :
                            work'[<<c, n>>] = work[<<c, n>>] \/ c \in workEv'
    BY DEF PutWork, TypeOK, HubTypeOK, Spot
  <2>2. \A c \in Cluster, n \in WorkName : <<c, n>> \in Spot /\ <<c, OpWork>> \in Spot
    BY Names DEF Spot
  <2>3. (\E p \in Spot : \E w : PutWork(p, w)) \/ UNCHANGED <<work, workEv>>
    BY <2>2, Names DEF Environment, CreateMesh, DeleteMesh, WithdrawMesh, EditOperator, UserWrites,
         MoveCluster, Tamper, AgentReport, ChangeSet, AgentFinish
  <2> QED
    BY <2>1, <2>3
<1> QED
  BY <1>1, <1>2, <1>3, WritesView

\* The caches of clusters, sets and works are current where no event is left.
LEMMA CurrentStep ==
  ASSUME TypeOK, CachesCurrent, WorksCurrent, [Next]_vars
  PROVE  CachesCurrent' /\ WorksCurrent'
<1> USE DEF apiVars, cacheVars, eventVars, hubVars, workerVars
<1>1. ASSUME UNCHANGED <<memberC, csetC, workC>>,
             \A c \in Cluster : c \notin memberEv' => c \notin memberEv /\ member'[c] = member[c],
             \A s \in Set : s \notin csetEv' => s \notin csetEv /\ cset'[s] = cset[s],
             \A p \in Spot : p[1] \notin workEv' => p[1] \notin workEv /\ work'[p] = work[p]
      PROVE  CachesCurrent' /\ WorksCurrent'
  BY <1>1 DEF CachesCurrent, WorksCurrent
<1>2. ASSUME NEW p \in Spot, NEW w, PutWork(p, w)
      PROVE  \A q \in Spot : q[1] \notin workEv' => q[1] \notin workEv /\ work'[q] = work[q]
  BY <1>2 DEF PutWork, TypeOK, HubTypeOK
<1>3. \A c \in Cluster, n \in WorkName :
        <<c, n>> \in Spot /\ <<c, OpWork>> \in Spot
  BY Names DEF Spot
<1>4. pc # "idle" => cur \in Mesh
  BY DEF TypeOK, ControllerTypeOK
<1>5. CASE Controller
  <2>1. UNCHANGED <<member, cset, memberEv, csetEv, memberC, csetC, workC>>
    BY <1>5 DEF Controller, TakeNothing, TakeUnfinalized, Take, Fail, Validate, Inventory,
         ApplyNamespace, ApplyOperator, ListOwned, ListShared, DeleteListed, Determine, WriteStatus,
         Trigger, Release
  <2>2. (\E p \in Spot : \E w : PutWork(p, w)) \/ UNCHANGED <<work, workEv>>
    <3>1. ASSUME NEW c \in Cluster, ApplyNamespace(c) \/ ApplyOperator(c)
          PROVE  (\E p \in Spot : \E w : PutWork(p, w)) \/ UNCHANGED <<work, workEv>>
      BY <1>3, <1>4, <3>1, Names DEF ApplyNamespace, ApplyOperator, Applied, KeepWork
    <3>2. ASSUME DeleteListed
          PROVE  (\E p \in Spot : \E w : PutWork(p, w)) \/ UNCHANGED <<work, workEv>>
      BY <3>2 DEF DeleteListed, Deleted, KeepWork, TypeOK, ControllerTypeOK
    <3>3. ASSUME NEW m \in Mesh, TakeNothing(m) \/ TakeUnfinalized(m) \/ Take(m)
          PROVE  UNCHANGED <<work, workEv>>
      BY <3>3 DEF TakeNothing, TakeUnfinalized, Take
    <3>4. ASSUME Fail \/ Validate \/ Inventory \/ ListOwned \/ ListShared \/ Determine
                   \/ WriteStatus \/ Trigger \/ Release
          PROVE  UNCHANGED <<work, workEv>>
      BY <3>4 DEF Fail, Validate, Inventory, ListOwned, ListShared, Determine, WriteStatus,
           Trigger, Release
    <3> QED
      BY <1>5, <3>1, <3>2, <3>3, <3>4 DEF Controller
  <2> QED
    BY <1>1, <1>2, <2>1, <2>2
<1>6. CASE Delivery
  <2>1. UNCHANGED <<member, cset, work>>
    BY <1>6 DEF Delivery, SyncMesh, SyncMember, SyncSet, SyncWork, SyncLister
  <2>2. CachesCurrent'
    BY <1>6, <2>1 DEF Delivery, SyncMesh, SyncMember, SyncSet, SyncWork, SyncLister, CachesCurrent,
         TypeOK, HubTypeOK
  <2>3. WorksCurrent'
    BY <1>6, <2>1 DEF Delivery, SyncMesh, SyncMember, SyncSet, SyncWork, SyncLister, SyncedWorks,
         WorksCurrent, TypeOK, HubTypeOK
  <2> QED
    BY <2>2, <2>3
<1>7. CASE Environment
  <2>1. UNCHANGED <<memberC, csetC, workC>>
    BY <1>7 DEF Environment, CreateMesh, DeleteMesh, WithdrawMesh, EditOperator, UserWrites,
         MoveCluster, Tamper, AgentReport, ChangeSet, AgentFinish
  <2>2. (\E p \in Spot : \E w : PutWork(p, w)) \/ UNCHANGED <<work, workEv>>
    BY <1>3, <1>7, Names DEF Environment, CreateMesh, DeleteMesh, WithdrawMesh, EditOperator,
         UserWrites, MoveCluster, Tamper, AgentReport, ChangeSet, AgentFinish
  <2>3. /\ \A c \in Cluster : c \notin memberEv' => c \notin memberEv /\ member'[c] = member[c]
        /\ \A s \in Set : s \notin csetEv' => s \notin csetEv /\ cset'[s] = cset[s]
    BY <1>7 DEF Environment, CreateMesh, DeleteMesh, WithdrawMesh, EditOperator, UserWrites,
         MoveCluster, Tamper, AgentReport, ChangeSet, AgentFinish, TypeOK, HubTypeOK
  <2> QED
    BY <1>1, <1>2, <2>1, <2>2, <2>3
<1>8. CASE Crash
  BY <1>8 DEF Crash, CachesCurrent, WorksCurrent
<1>9. CASE UNCHANGED vars
  BY <1>1, <1>9 DEF vars
<1> QED
  BY <1>5, <1>6, <1>7, <1>8, <1>9 DEF Next

-----------------------------------------------------------------------------
(* Steps of others, and what the worker's steps have in common *)

LEMMA CalmInit == Init => CalmInv
<1> SUFFICES ASSUME Init PROVE CalmInv
  OBVIOUS
<1>1. CachesCurrent /\ WorksCurrent /\ AtWork
  BY DEF Init, HubInit, ControllerInit, CachesCurrent, WorksCurrent, AtWork, Busy
<1>2. \A m \in Mesh : mesh[m].phase = "live" => m \in queue
  BY DEF Init, HubInit, Blank
<1> QED
  BY <1>1, <1>2, StatusInit DEF CalmInv, Steady, Calm

LEMMA QuietCalm ==
  ASSUME CalmInv, StatusInv', CachesCurrent', WorksCurrent', \A m \in Mesh : View(m),
         UNCHANGED <<pc, cur, my, clusters, todo, verdict>>
  PROVE  CalmInv'
<1>1. \A m \in Mesh : Busy(m)' <=> Busy(m)
  BY DEF Busy
<1>2. Steady'
  BY <1>1, SteadyStep DEF CalmInv, Steady
<1>3. ASSUME NEW m \in Mesh, Busy(m) PROVE Knows(m)' /\ LeftRight(m)'
  <2>1. Knows(m) /\ LeftRight(m)
    BY <1>3 DEF CalmInv, AtWork
  <2>2. Knows(m)'
    BY <2>1 DEF Knows, View
  <2>3. LeftRight(m)'
    <3> SUFFICES ASSUME Calm(m)' PROVE LeftRight(m)'
      BY DEF LeftRight
    <3> HIDE DEF View
    <3>1. \A c \in Cluster : First(c)' <=> First(c)
      BY DEF First
    <3>2. Assessed' <=> Assessed
      BY DEF Assessed
    <3>3. /\ Calm(m) /\ SetMembers(SetOf[m])' = SetMembers(SetOf[m])
          /\ AllInstalled(m)' <=> AllInstalled(m)
          /\ \A c \in SetMembers(SetOf[m]) :
               (Right(c, m)' <=> Right(c, m)) /\ (NamespaceRight(c, m)' <=> NamespaceRight(c, m))
      BY ViewKeeps
    <3>4. my.phase = "live"
      BY <2>1, <3>3 DEF Knows, Calm, CalmInv, StatusInv, CacheCurrent
    <3>5. pc = "operator" => todo \subseteq SetMembers(SetOf[m])
      BY <2>1, <3>3, <3>4 DEF Knows, Calm, CalmInv, AtWork, Counted, Applying
    <3> QED
      BY <2>1, <3>1, <3>2, <3>3, <3>5, Names DEF LeftRight
  <2> QED
    BY <2>2, <2>3
<1>4. AtWork'
  BY <1>1, <1>3 DEF CalmInv, AtWork
<1> QED
  BY <1>2, <1>4 DEF CalmInv

\* The worker goes on with its mesh.
LEMMA WorkCalm ==
  ASSUME CalmInv, StatusInv', CachesCurrent', WorksCurrent', \A m \in Mesh : View(m),
         NEW m \in Mesh, Busy(m), Busy(m)', todo' \subseteq clusters', Knows(m)', LeftRight(m)'
  PROVE  CalmInv'
<1>1. \A o \in Mesh : (Busy(o)' <=> Busy(o)) /\ (Busy(o) => o = m)
  BY DEF Busy
<1>2. Steady'
  BY <1>1, SteadyStep DEF CalmInv, Steady
<1>3. AtWork'
  BY <1>1 DEF AtWork
<1> QED
  BY <1>2, <1>3 DEF CalmInv

\* The worker ends its reconcile.
LEMMA EndCalm ==
  ASSUME CalmInv, StatusInv', CachesCurrent', WorksCurrent', \A m \in Mesh : View(m),
         NEW m \in Mesh, Busy(m), Rest,
         Calm(m)' => /\ Reported(m)'
                     /\ WorkLag \/ Refused(m)' \/ \A c \in SetMembers(SetOf[m])' : Right(c, m)'
  PROVE  CalmInv'
<1>1. \A o \in Mesh : ~Busy(o)' /\ (Busy(o) => o = m)
  BY DEF Busy, Rest
<1>2. Steady'
  BY <1>1, SteadyStep DEF CalmInv, Steady
<1>3. AtWork'
  BY <1>1 DEF AtWork, Rest
<1> QED
  BY <1>2, <1>3 DEF CalmInv

\* It meets an error.
LEMMA GiveUpCalm ==
  ASSUME CalmInv, StatusInv', CachesCurrent', WorksCurrent', \A m \in Mesh : View(m),
         NEW m \in Mesh, Busy(m), UNCHANGED meshC, GiveUp
  PROVE  CalmInv'
<1>1. Busy(m)' /\ todo' = {} /\ clusters' = {}
  BY DEF Busy, GiveUp
<1>2. Knows(m)'
  BY DEF CalmInv, AtWork, Knows, GiveUp, Counted, Applying, Cleaning
<1>3. LeftRight(m)'
  BY DEF LeftRight, GiveUp, Assessed, Counted, Applying, Cleaning
<1> QED
  BY <1>1, <1>2, <1>3, WorkCalm

LEMMA AbandonCalm ==
  ASSUME CalmInv, StatusInv', CachesCurrent', WorksCurrent', \A m \in Mesh : View(m),
         NEW m \in Mesh, Busy(m), UNCHANGED meshC, Abandon
  PROVE  CalmInv'
<1>1. CASE GiveUp
  BY <1>1, GiveUpCalm
<1>2. CASE Requeue
  <2>1. ~Calm(m)'
    BY <1>2 DEF Requeue, Calm, Busy
  <2> QED
    BY <1>2, <2>1, EndCalm DEF Requeue
<1> QED
  BY <1>1, <1>2 DEF Abandon

-----------------------------------------------------------------------------
(* The worker's steps *)

\* What the worker knows of its mesh if that is calm after the step.
LEMMA CalmCopy ==
  ASSUME CalmInv, NEW m \in Mesh, View(m), Busy(m), Calm(m)'
  PROVE  /\ Calm(m) /\ my = mesh[m] /\ my = meshC[m] /\ ~Deletion /\ LeftRight(m)
         /\ pc \in Counted => clusters = SetMembers(SetOf[m])
BY DEF View, CalmInv, AtWork, Knows, Calm, Deletion, StatusInv, CacheCurrent

LEMMA TakeCalm ==
  ASSUME CalmInv, StatusInv', CachesCurrent', WorksCurrent',
         NEW m \in Mesh, TakeNothing(m) \/ TakeUnfinalized(m) \/ Take(m)
  PROVE  CalmInv'
<1> USE DEF apiVars, cacheVars, eventVars, workerVars
<1>1. /\ pc = "idle" /\ queue \ {m} \subseteq queue' /\ UNCHANGED <<work, workEv, ts>>
      /\ UNCHANGED cacheVars /\ meshEv \subseteq meshEv'
      /\ UNCHANGED <<clusters, todo>>
  BY DEF TakeNothing, TakeUnfinalized, Take, WriteMeshes
<1>2. \A o \in Mesh : mesh'[o] = mesh[o] \/ o \in meshEv'
  BY DEF TakeNothing, TakeUnfinalized, Take, WriteMeshes, CalmInv, StatusInv, TypeOK, HubTypeOK
<1>3. \A o \in Mesh \ {m} : View(o)
  BY <1>1, <1>2, WritesView
<1>4. Calm(m)' => mesh'[m] = mesh[m] /\ meshC[m] = mesh[m] /\ mesh[m].phase = "live"
  BY <1>1, <1>2 DEF Calm, CalmInv, StatusInv, CacheCurrent
<1>5. CASE TakeNothing(m) \/ TakeUnfinalized(m)
  <2>1. ~Calm(m)'
    BY <1>4, <1>5 DEF TakeNothing, TakeUnfinalized, WriteMeshes, Calm
  <2>2. pc' = "idle"
    BY <1>1, <1>5 DEF TakeNothing, TakeUnfinalized
  <2>3. Steady'
    BY <1>1, <1>3, <2>1, <2>2, SteadyStep DEF CalmInv, Steady, Busy
  <2> QED
    BY <1>1, <2>2, <2>3 DEF CalmInv, AtWork, Busy
<1>6. CASE Take(m)
  <2>1. \A o \in Mesh : Busy(o)' => o = m
    BY <1>6 DEF Take, Busy
  <2>2. Busy(m)'
    BY <1>6 DEF Take, Busy
  <2>3. Steady'
    BY <1>1, <1>3, <2>1, <2>2, SteadyStep DEF CalmInv, Steady, Busy
  <2>4. Knows(m)'
    BY <1>1, <1>6 DEF Take, Knows, Counted, Applying, Cleaning
  <2>5. LeftRight(m)'
    BY <1>4, <1>6 DEF Take, LeftRight, Assessed, Counted, Applying, Cleaning
  <2> QED
    BY <1>1, <2>1, <2>3, <2>4, <2>5 DEF CalmInv, AtWork
<1> QED
  BY <1>5, <1>6

LEMMA PlanCalm ==
  ASSUME CalmInv, StatusInv', CachesCurrent', WorksCurrent', NEW m \in Mesh, cur = m,
         Fail \/ Validate \/ Inventory
  PROVE  CalmInv'
<1> USE DEF apiVars, cacheVars, eventVars, hubVars
<1>1. /\ UNCHANGED <<mesh, work, meshEv, workEv>> /\ UNCHANGED cacheVars /\ Busy(m)
      /\ queue \subseteq queue'
  BY DEF Fail, Abandon, Requeue, GiveUp, Validate, Inventory, Busy
<1>2. \A o \in Mesh : View(o)
  BY <1>1, WritesView
<1> HIDE DEF View
<1>3. CASE Fail
  <2>1. CASE Abandon
    BY <1>1, <1>2, <2>1, AbandonCalm
  <2>2. CASE Requeue
    <3>1. ~Calm(m)'
      BY <2>2 DEF Requeue, Calm
    <3> QED
      BY <1>1, <1>2, <2>2, <3>1, EndCalm DEF Requeue
  <2> QED
    BY <1>3, <2>1, <2>2 DEF Fail
<1>4. CASE Validate
  <2>1. /\ Busy(m)' /\ UNCHANGED <<queue, meshC, cur, my, clusters, todo>>
        /\ pc' \in {"inventory", "status"} /\ pc = "validate"
        /\ pc' = "status" => verdict' \in {"NamespaceConflict", "OperatorConfigConflict"}
    BY <1>1, <1>4 DEF Validate, Busy, Refusals, Objections, Objection
  <2>2. Knows(m)'
    BY <1>1, <2>1 DEF CalmInv, AtWork, Knows, Counted, Applying, Cleaning
  <2>3. LeftRight(m)'
    BY <2>1 DEF LeftRight, Assessed, Counted, Applying, Cleaning
  <2> QED
    BY <1>1, <1>2, <2>1, <2>2, <2>3, WorkCalm DEF CalmInv, AtWork
<1>5. CASE Inventory
  <2>1. CASE GiveUp
    BY <1>1, <1>2, <2>1, GiveUpCalm
  <2>2. CASE ~GiveUp
    <3>1. /\ Busy(m)' /\ UNCHANGED <<cur, my, queue, meshC, csetC, memberC>>
          /\ clusters' = SetMembers(SetOf[m]) /\ todo' = clusters'
          /\ pc' = IF clusters' = {} THEN "listOwned" ELSE "namespace"
      BY <1>1, <1>5, <2>2 DEF Inventory, Busy
    <3>2. SetMembers(SetOf[m])' = SetMembers(SetOf[m])
      BY <3>1 DEF SetMembers
    <3>3. Knows(m)'
      BY <1>1, <3>1, <3>2 DEF CalmInv, AtWork, Knows
    <3>4. LeftRight(m)'
      BY <3>1, <3>2 DEF LeftRight, Assessed, Counted, Applying, Cleaning
    <3> QED
      BY <1>1, <1>2, <3>1, <3>3, <3>4, WorkCalm
  <2> QED
    BY <2>1, <2>2
<1> QED
  BY <1>3, <1>4, <1>5

\* Apply leaves an event, or finds what it wants on the work it reads.
LEMMA AppliedLeaves ==
  ASSUME TypeOK, NEW p \in Spot, NEW want, Applied(p, want)
  PROVE  /\ workEv \subseteq workEv'
         /\ \A c \in Cluster, n \in WorkName :
              work'[<<c, n>>] = work[<<c, n>>] \/ c \in workEv'
         /\ \/ p[1] \in workEv'
            \/ WorkLag
            \/ work[p] # NoWork /\ SameWork(work[p], want) /\ work' = work
BY DEF Applied, PutWork, KeepWork, Listed, TypeOK, HubTypeOK, Spot

LEMMA NamespaceCalm ==
  ASSUME CalmInv, StatusInv', CachesCurrent', WorksCurrent', NEW m \in Mesh, cur = m,
         NEW c \in Cluster, ApplyNamespace(c)
  PROVE  CalmInv'
<1>1. /\ TypeOK /\ <<c, CpNs[m]>> \in Spot /\ Busy(m)
      /\ UNCHANGED <<mesh, meshEv, queue>> /\ UNCHANGED cacheVars /\ First(c)
  BY Names DEF ApplyNamespace, CalmInv, StatusInv, Spot, Busy, GiveUp
<1>2. CASE GiveUp /\ KeepWork
  <2>1. \A o \in Mesh : View(o)
    BY <1>1, <1>2, WritesView DEF KeepWork, GiveUp
  <2> QED
    BY <1>1, <1>2, <2>1, GiveUpCalm DEF cacheVars
<1>3. CASE /\ Applied(<<c, CpNs[m]>>, NamespaceWork(m)) /\ pc' = "operator"
           /\ UNCHANGED <<cur, my, stale, clusters, todo, doomed, verdict, queue>>
  <2>1. \A o \in Mesh : View(o)
    BY <1>1, <1>3, AppliedLeaves, WritesView
  <2> HIDE DEF View
  <2>2. Busy(m)' /\ pc = "namespace" /\ UNCHANGED meshC
    BY <1>1, <1>3 DEF Busy, ApplyNamespace, cacheVars
  <2>3. SetMembers(SetOf[m])' = SetMembers(SetOf[m])
    BY <1>1 DEF SetMembers, cacheVars
  <2>4. Knows(m)'
    BY <1>1, <1>3, <2>2, <2>3 DEF CalmInv, AtWork, Knows, Counted, Applying
  <2>5. LeftRight(m)'
    <3> SUFFICES ASSUME Calm(m)' PROVE LeftRight(m)'
      BY DEF LeftRight
    <3>1. /\ Calm(m) /\ LeftRight(m) /\ clusters = SetMembers(SetOf[m])
          /\ \A d \in SetMembers(SetOf[m]) : Right(d, m)' <=> Right(d, m)
      BY <1>1, <2>1, <2>2, CalmCopy, ViewKeeps DEF Counted, Applying
    <3>2. c \in SetMembers(SetOf[m]) /\ c \notin workEv'
      BY <1>1, <2>3, <3>1 DEF First, Calm, CalmInv, AtWork
    <3>3. ~WorkLag => NamespaceRight(c, m)'
      BY <1>1, <1>3, <3>2, AppliedLeaves DEF NamespaceRight
    <3>4. \A d \in todo : First(d)' => d = c
      <4>1. todo \subseteq Cluster
        BY <1>1 DEF TypeOK, ControllerTypeOK
      <4>2. \A d \in todo : First(d)' => First(d)
        BY <1>3 DEF First
      <4> QED
        BY <1>1, <4>1, <4>2, ConstantsAssumption DEF First
    <3>5. ~WorkLag => \A d \in SetMembers(SetOf[m])' \ todo' : Right(d, m)'
      BY <1>3, <2>2, <2>3, <3>1 DEF LeftRight, Counted, Applying
    <3>6. pc' = "operator" /\ todo' = todo
      BY <1>3
    <3> QED
      BY <3>3, <3>4, <3>5, <3>6 DEF LeftRight, Assessed, Counted, Applying, Cleaning
  <2> QED
    BY <1>1, <1>3, <2>1, <2>2, <2>4, <2>5, WorkCalm DEF CalmInv, AtWork
<1> QED
  BY <1>2, <1>3 DEF ApplyNamespace

LEMMA OperatorCalm ==
  ASSUME CalmInv, StatusInv', CachesCurrent', WorksCurrent', NEW m \in Mesh, cur = m,
         NEW c \in Cluster, ApplyOperator(c)
  PROVE  CalmInv'
<1>1. /\ TypeOK /\ <<c, OpWork>> \in Spot /\ Busy(m)
      /\ UNCHANGED <<mesh, meshEv, queue>> /\ UNCHANGED cacheVars /\ First(c)
  BY Names DEF ApplyOperator, CalmInv, StatusInv, Spot, Busy, GiveUp
<1>2. CASE GiveUp /\ KeepWork
  <2>1. \A o \in Mesh : View(o)
    BY <1>1, <1>2, WritesView DEF KeepWork, GiveUp
  <2> QED
    BY <1>1, <1>2, <2>1, GiveUpCalm DEF cacheVars
<1>3. CASE /\ Applied(<<c, OpWork>>, OperatorWork(m, my.op)) /\ todo' = todo \ {c}
           /\ pc' = IF todo' = {} THEN "listOwned" ELSE "namespace"
           /\ UNCHANGED <<cur, my, stale, clusters, doomed, verdict, queue>>
  <2>1. \A o \in Mesh : View(o)
    BY <1>1, <1>3, AppliedLeaves, WritesView
  <2> HIDE DEF View
  <2>2. Busy(m)' /\ pc = "operator" /\ UNCHANGED meshC
    BY <1>1, <1>3 DEF Busy, ApplyOperator, cacheVars
  <2>3. SetMembers(SetOf[m])' = SetMembers(SetOf[m])
    BY <1>1 DEF SetMembers, cacheVars
  <2>4. Knows(m)'
    BY <1>1, <1>3, <2>2, <2>3 DEF CalmInv, AtWork, Knows, Counted, Applying
  <2>5. LeftRight(m)'
    <3> SUFFICES ASSUME Calm(m)' PROVE LeftRight(m)'
      BY DEF LeftRight
    <3>1. /\ Calm(m) /\ LeftRight(m) /\ clusters = SetMembers(SetOf[m]) /\ my = mesh[m]
          /\ \A d \in SetMembers(SetOf[m]) : Right(d, m)' <=> Right(d, m)
      BY <1>1, <2>1, <2>2, CalmCopy, ViewKeeps DEF Counted, Applying
    <3>2. c \in SetMembers(SetOf[m]) /\ c \notin workEv'
      BY <1>1, <2>3, <3>1 DEF First, Calm, CalmInv, AtWork
    <3>3. ~WorkLag => Right(c, m)
      <4>1. ~WorkLag => NamespaceRight(c, m)
        BY <1>1, <2>2, <3>1 DEF LeftRight, First
      <4> QED
        BY <1>1, <1>3, <3>1, <3>2, <4>1, AppliedLeaves DEF Right
    <3>4. ~WorkLag => \A d \in SetMembers(SetOf[m])' \ todo' : Right(d, m)'
      BY <1>3, <2>2, <2>3, <3>1, <3>2, <3>3 DEF LeftRight, Counted, Applying
    <3> QED
      BY <1>3, <3>4 DEF LeftRight, Assessed, Counted, Applying, Cleaning
  <2> QED
    BY <1>1, <1>3, <2>1, <2>2, <2>4, <2>5, WorkCalm DEF CalmInv, AtWork
<1> QED
  BY <1>2, <1>3 DEF ApplyOperator

LEMMA CleanupCalm ==
  ASSUME CalmInv, StatusInv', CachesCurrent', WorksCurrent', NEW m \in Mesh, cur = m,
         ListOwned \/ ListShared \/ DeleteListed
  PROVE  CalmInv'
<1> USE DEF apiVars, cacheVars, eventVars, hubVars
<1>1. /\ TypeOK /\ Busy(m) /\ UNCHANGED <<mesh, meshEv>> /\ UNCHANGED cacheVars
      /\ pc \in Cleaning
  BY DEF ListOwned, ListShared, DeleteListed, Abandon, Requeue, GiveUp, CalmInv, StatusInv, Busy,
         Cleaning
<1>2. /\ workEv \subseteq workEv'
      /\ \A c \in Cluster, n \in WorkName : work'[<<c, n>>] = work[<<c, n>>] \/ c \in workEv'
  <2>1. CASE ListOwned \/ ListShared
    BY <2>1 DEF ListOwned, ListShared
  <2>2. CASE DeleteListed
    BY <1>1, <2>2 DEF DeleteListed, Deleted, PutWork, KeepWork, Spot, TypeOK, HubTypeOK,
       ControllerTypeOK
  <2> QED
    BY <2>1, <2>2
<1>3. queue \subseteq queue'
  BY DEF ListOwned, ListShared, DeleteListed, Abandon, Requeue, GiveUp
<1>4. \A o \in Mesh : View(o)
  BY <1>1, <1>2, <1>3, WritesView
<1> HIDE DEF View
<1>5. CASE ListShared /\ Abandon
  BY <1>1, <1>4, <1>5, AbandonCalm
<1>6. CASE ~(ListShared /\ Abandon)
  <2>1. /\ UNCHANGED <<cur, my, queue, clusters, todo, verdict>>
        /\ pc' \in Cleaning \union {AfterCleanup}
    BY <1>6 DEF ListOwned, ListShared, DeleteListed, Cleaning
  <2>2. Busy(m)' /\ UNCHANGED meshC
    BY <1>1, <2>1 DEF Busy, AfterCleanup, Cleaning
  <2>3. SetMembers(SetOf[m])' = SetMembers(SetOf[m])
    BY <1>1 DEF SetMembers
  <2>4. Knows(m)'
    BY <1>1, <2>1, <2>2, <2>3 DEF CalmInv, AtWork, Knows, Counted
  <2>5. LeftRight(m)'
    <3> SUFFICES ASSUME Calm(m)' PROVE LeftRight(m)'
      BY DEF LeftRight
    <3>1. /\ Calm(m) /\ LeftRight(m) /\ ~Deletion
          /\ \A d \in SetMembers(SetOf[m]) : Right(d, m)' <=> Right(d, m)
      BY <1>1, <1>4, CalmCopy, ViewKeeps
    <3>2. pc' \in Cleaning \union {"determine"}
      BY <2>1, <3>1 DEF AfterCleanup
    <3>3. todo = {} /\ (~WorkLag => \A d \in SetMembers(SetOf[m]) : Right(d, m))
      BY <1>1, <3>1 DEF LeftRight, Counted
    <3> QED
      BY <2>1, <2>3, <3>1, <3>2, <3>3 DEF LeftRight, Assessed, Counted, Applying, Cleaning
  <2> QED
    BY <1>1, <1>4, <2>1, <2>2, <2>4, <2>5, WorkCalm DEF CalmInv, AtWork
<1> QED
  BY <1>5, <1>6

LEMMA DetermineCalm ==
  ASSUME CalmInv, StatusInv', CachesCurrent', WorksCurrent', NEW m \in Mesh, cur = m, Determine
  PROVE  CalmInv'
<1> USE DEF apiVars, cacheVars, eventVars
<1>1. /\ Busy(m) /\ UNCHANGED <<mesh, work, meshEv, workEv, queue>> /\ UNCHANGED cacheVars
      /\ pc = "determine"
  BY DEF Determine, GiveUp, Busy
<1>2. \A o \in Mesh : View(o)
  BY <1>1, WritesView
<1> HIDE DEF View
<1>3. CASE GiveUp
  BY <1>1, <1>2, <1>3, GiveUpCalm
<1>4. CASE ~GiveUp
  <2>1. /\ UNCHANGED <<cur, my, clusters, todo>> /\ pc' = "status" /\ Busy(m)'
        /\ \A c \in clusters : Cached[<<c, OpWork>>] # NoWork
        /\ verdict' = IF clusters # {} /\ \A c \in clusters : Cached[<<c, OpWork>>].csv # NoConfig
                        THEN "AllClustersReady" ELSE "ClustersNotReady"
    BY <1>1, <1>4 DEF Determine, Busy
  <2>2. Knows(m)'
    BY <1>1, <2>1 DEF CalmInv, AtWork, Knows, Counted, Applying, Cleaning
  <2>3. LeftRight(m)'
    <3> SUFFICES ASSUME Calm(m)' PROVE LeftRight(m)'
      BY DEF LeftRight
    <3>1. /\ Calm(m) /\ LeftRight(m) /\ clusters = SetMembers(SetOf[m])
          /\ AllInstalled(m)' <=> AllInstalled(m)
          /\ SetMembers(SetOf[m])' = SetMembers(SetOf[m])
          /\ \A d \in SetMembers(SetOf[m]) : Right(d, m)' <=> Right(d, m)
      BY <1>1, <1>2, CalmCopy, ViewKeeps DEF Counted
    <3>2. verdict' = "AllClustersReady" <=> AllInstalled(m)
      BY <2>1, <3>1 DEF AllInstalled, Installed
    <3>3. todo = {} /\ (~WorkLag => \A d \in SetMembers(SetOf[m]) : Right(d, m))
      BY <1>1, <3>1 DEF LeftRight, Counted
    <3> QED
      BY <2>1, <3>1, <3>2, <3>3 DEF LeftRight, Assessed, Counted, Applying, Cleaning
  <2> QED
    BY <1>1, <1>2, <2>1, <2>2, <2>3, WorkCalm DEF CalmInv, AtWork
<1> QED
  BY <1>3, <1>4

LEMMA StatusCalm ==
  ASSUME CalmInv, StatusInv', CachesCurrent', WorksCurrent', NEW m \in Mesh, cur = m, WriteStatus
  PROVE  CalmInv'
<1>1. /\ TypeOK /\ Busy(m) /\ UNCHANGED <<work, workEv>> /\ UNCHANGED cacheVars /\ Rest
      /\ pc = "status"
  BY DEF WriteStatus, FinishReconcile, Requeue, Done, CalmInv, StatusInv, Busy
<1>2. meshEv \subseteq meshEv' /\ \A o \in Mesh : mesh'[o] = mesh[o] \/ o \in meshEv'
  BY <1>1 DEF WriteStatus, WriteMeshes, TypeOK, HubTypeOK
<1>3. \A o \in Mesh : View(o)
  BY <1>1, <1>2, WritesView DEF WriteStatus, FinishReconcile, Requeue, Done
<1>4. ASSUME Calm(m)'
      PROVE  /\ Reported(m)'
             /\ WorkLag \/ Refused(m)' \/ \A c \in SetMembers(SetOf[m])' : Right(c, m)'
  <2>1. /\ my = mesh[m] /\ LeftRight(m) /\ Calm(m)
    BY <1>1, <1>3, <1>4, CalmCopy
  <2>2. verdict # "ReconcileError" /\ (mesh[m].ready = NewReady \/ my.ready = NewReady)
    BY <1>4 DEF WriteStatus, WriteMeshes, FinishReconcile, Requeue, Calm, StatusChanged
  <2>3. mesh[m].ready.reason = verdict /\ mesh[m].ready.obs = mesh[m].gen
    BY <2>1, <2>2 DEF NewReady
  <2>4. ~Refused(m) => Assessed
    BY <1>1, <2>1, <2>2, <2>3 DEF Refused, Assessed, LeftRight, Reason, TypeOK, ControllerTypeOK
  <2>5. Reported(m)
    BY <2>1, <2>3, <2>4 DEF LeftRight, Reported
  <2>6. WorkLag \/ Refused(m) \/ \A c \in SetMembers(SetOf[m]) : Right(c, m)
    BY <2>1, <2>4 DEF LeftRight
  <2> HIDE DEF View
  <2> QED
    BY <1>3, <1>4, <2>5, <2>6, ViewKeeps
<1> QED
  BY <1>1, <1>3, <1>4, EndCalm

\* The rest of a deletion is no calm mesh's.
LEMMA FarewellCalm ==
  ASSUME CalmInv, StatusInv', CachesCurrent', WorksCurrent', NEW m \in Mesh, cur = m,
         Trigger \/ Release
  PROVE  CalmInv'
<1> USE DEF apiVars, cacheVars
<1>1. /\ TypeOK /\ Busy(m) /\ UNCHANGED <<work, workEv>> /\ UNCHANGED cacheVars
      /\ pc \in {"trigger", "release"} /\ queue \subseteq queue' /\ meshEv \subseteq meshEv'
  BY DEF Trigger, Release, WriteMeshes, Requeue, Done, CalmInv, StatusInv, Busy
<1>2. \A o \in Mesh : mesh'[o] = mesh[o] \/ o \in meshEv'
  BY <1>1 DEF Trigger, Release, WriteMeshes, TypeOK, HubTypeOK
<1>3. \A o \in Mesh : View(o)
  BY <1>1, <1>2, WritesView
<1> HIDE DEF View
<1>4. ~Calm(m)'
  BY <1>1, <1>3, CalmCopy DEF LeftRight, Counted, Applying, Cleaning
<1>5. CASE Trigger
  <2>1. /\ Busy(m)' /\ pc' = "release" /\ UNCHANGED <<my, queue, clusters, todo>>
    BY <1>1, <1>5 DEF Trigger, Busy
  <2>2. Knows(m)' /\ LeftRight(m)'
    BY <1>1, <1>4, <2>1
    DEF CalmInv, AtWork, Knows, LeftRight, Counted, Applying, Cleaning
  <2> QED
    BY <1>1, <1>3, <2>1, <2>2, WorkCalm DEF CalmInv, AtWork
<1>6. CASE Release
  <2>1. Rest
    BY <1>6 DEF Release, Requeue, Done
  <2> QED
    BY <1>1, <1>3, <1>4, <2>1, EndCalm
<1> QED
  BY <1>5, <1>6

LEMMA CalmNext == CalmInv /\ [Next]_vars => CalmInv'
<1> SUFFICES ASSUME CalmInv, [Next]_vars PROVE CalmInv'
  OBVIOUS
<1>1. StatusInv' /\ CachesCurrent' /\ WorksCurrent'
  BY CurrentStep, StatusStutter, StatusController, StatusDelivery, StatusEnvironment, StatusCrash
  DEF Next, CalmInv, StatusInv
<1>2. TypeOK /\ (pc # "idle" => cur \in Mesh)
  BY DEF CalmInv, StatusInv, TypeOK, ControllerTypeOK
<1>3. CASE Controller
  <2>1. ASSUME NEW m \in Mesh, TakeNothing(m) \/ TakeUnfinalized(m) \/ Take(m) PROVE CalmInv'
    BY <1>1, <2>1, TakeCalm
  <2>2. CASE Fail \/ Validate \/ Inventory
    BY <1>1, <1>2, <2>2, PlanCalm DEF Fail, Validate, Inventory
  <2>3. ASSUME NEW c \in Cluster, ApplyNamespace(c) PROVE CalmInv'
    BY <1>1, <1>2, <2>3, NamespaceCalm DEF ApplyNamespace
  <2>4. ASSUME NEW c \in Cluster, ApplyOperator(c) PROVE CalmInv'
    BY <1>1, <1>2, <2>4, OperatorCalm DEF ApplyOperator
  <2>5. CASE ListOwned \/ ListShared \/ DeleteListed
    BY <1>1, <1>2, <2>5, CleanupCalm DEF ListOwned, ListShared, DeleteListed
  <2>6. CASE Determine
    BY <1>1, <1>2, <2>6, DetermineCalm DEF Determine
  <2>7. CASE WriteStatus
    BY <1>1, <1>2, <2>7, StatusCalm DEF WriteStatus
  <2>8. CASE Trigger \/ Release
    BY <1>1, <1>2, <2>8, FarewellCalm DEF Trigger, Release
  <2> QED
    BY <1>3, <2>1, <2>2, <2>3, <2>4, <2>5, <2>6, <2>7, <2>8 DEF Controller
<1>4. CASE Delivery
  <2>1. \A m \in Mesh : View(m)
    BY <1>4, DeliveryView DEF CalmInv
  <2>2. UNCHANGED workerVars
    BY <1>4 DEF Delivery, SyncMesh, SyncMember, SyncSet, SyncWork, SyncLister
  <2> QED
    BY <1>1, <2>1, <2>2, QuietCalm DEF workerVars
<1>5. CASE Environment
  <2>1. \A m \in Mesh : View(m)
    BY <1>2, <1>5, EnvironmentView
  <2>2. UNCHANGED <<pc, cur, my, clusters, todo, verdict>>
    BY <1>5 DEF Environment, CreateMesh, DeleteMesh, WithdrawMesh, EditOperator, UserWrites,
         MoveCluster, Tamper, AgentReport, ChangeSet, AgentFinish, workerVars
  <2> QED
    BY <1>1, <2>1, <2>2, QuietCalm
<1>6. CASE Crash
  <2>1. \A m \in Mesh : ~Calm(m)'
    BY <1>6 DEF Crash, Calm, apiVars
  <2>2. pc' = "idle" /\ todo' = {}
    BY <1>6 DEF Crash, Rest
  <2> QED
    BY <1>1, <2>1, <2>2 DEF CalmInv, Steady, AtWork, Busy
<1>7. CASE UNCHANGED vars
  <2>1. \A m \in Mesh : View(m)
    BY <1>7 DEF View, Calm, SetMembers, Cached, vars, hubVars, apiVars, cacheVars, eventVars
  <2> QED
    BY <1>1, <1>7, <2>1, QuietCalm DEF vars, workerVars
<1> QED
  BY <1>3, <1>4, <1>5, <1>6, <1>7 DEF Next

\* At rest every mesh is calm and the caches show what there is.
LEMMA RestCalm ==
  ASSUME CalmInv, AtRest, NEW m \in Mesh, mesh[m].phase = "live"
  PROVE  /\ Calm(m) /\ ~Busy(m) /\ SetMembers(SetOf[m]) = ClustersOf(SetOf[m])
         /\ \A c \in ClustersOf(SetOf[m]), n \in WorkName : Cached[<<c, n>>] = work[<<c, n>>]
<1>1. Calm(m) /\ ~Busy(m)
  BY DEF AtRest, Calm, Busy
<1>2. SetMembers(SetOf[m]) = ClustersOf(SetOf[m])
  BY Names DEF CalmInv, CachesCurrent, AtRest, SetMembers, ClustersOf
<1>3. \A c \in ClustersOf(SetOf[m]), n \in WorkName : Cached[<<c, n>>] = work[<<c, n>>]
  BY DEF CalmInv, WorksCurrent, AtRest, Cached, ClustersOf, Spot
<1> QED
  BY <1>1, <1>2, <1>3

\* At rest the Ready condition of every live mesh that is not refused is about
\* its current generation, and True exactly if it has clusters and all of them
\* report an installed operator - also with lagging ManifestWork caches.
THEOREM ReadyAtRest == Spec => []RestReady
<1>1. CalmInv => RestReady
  <2> SUFFICES ASSUME CalmInv, AtRest, NEW m \in Mesh, mesh[m].phase = "live", ~Refused(m)
               PROVE  /\ mesh[m].ready.obs = mesh[m].gen
                      /\ mesh[m].ready.reason = "AllClustersReady" <=>
                           /\ ClustersOf(SetOf[m]) # {}
                           /\ \A c \in ClustersOf(SetOf[m]) :
                                work[<<c, OpWork>>] # NoWork /\ work[<<c, OpWork>>].csv # NoConfig
    BY DEF RestReady
  <2>1. Reported(m)
    BY RestCalm DEF CalmInv, Steady
  <2> QED
    BY <2>1, RestCalm, Names DEF Reported, AllInstalled, Installed
<1> QED
  BY <1>1, CalmInit, CalmNext, PTL DEF Spec

\* At rest every live mesh was refused for a conflict or has both its works on
\* every cluster of its set, if the caches of works follow the API at once.
THEOREM ProvisionedAtRest ==
  ASSUME ~WorkLag
  PROVE  Spec => []RestProvisioned
<1>1. CalmInv => RestProvisioned
  <2> SUFFICES ASSUME CalmInv, AtRest, NEW m \in Mesh, mesh[m].phase = "live", ~Refused(m),
                      NEW c \in ClustersOf(SetOf[m])
               PROVE  InPlace(work, c, m)
    BY DEF RestProvisioned
  <2>1. Right(c, m)
    BY RestCalm DEF CalmInv, Steady
  <2>2. ~work[<<c, OpWork>>].dying /\ ~work[<<c, CpNs[m]>>].dying
    BY <2>1, Names DEF AtRest, Right, NamespaceRight, Spot, ClustersOf
  <2> QED
    BY <2>1, <2>2 DEF InPlace, Right, NamespaceRight
<1> QED
  BY <1>1, CalmInit, CalmNext, PTL DEF Spec
=============================================================================
