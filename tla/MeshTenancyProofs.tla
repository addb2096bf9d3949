--------------------------- MODULE MeshTenancyProofs ---------------------------
(***************************************************************************)
(* The system implements MeshTenancy.  OwnershipInv says what each step    *)
(* needs to know: who writes a namespace work is present, and nothing is   *)
(* held any more by a mesh that goes.  A step that writes objects writes   *)
(* works or meshes, never both, and one of them.                           *)
(***************************************************************************)
EXTENDS MeshOwnershipProofs, MeshRefinement

TenancyStep == Tenancy!Next \/ UNCHANGED <<PhaseOf, GroundOf>>

LEMMA SamePhases ==
  ASSUME mesh' = mesh
  PROVE  PhaseOf' = PhaseOf
BY DEF PhaseOf

LEMMA SameGround ==
  ASSUME work' = work
  PROVE  GroundOf' = GroundOf
BY DEF GroundOf, Holder

LEMMA NothingWritten ==
  ASSUME mesh' = mesh, work' = work
  PROVE  TenancyStep
BY SamePhases, SameGround DEF TenancyStep

\* One work is written: somebody vacates the spot, its holder stays, or a mesh
\* that is there occupies it.
LEMMA WorkWritten ==
  ASSUME TypeOK, PhaseOf' = PhaseOf, NEW p \in Spot, NEW w, PutWork(p, w),
         \/ Holder(w) \in {NoMesh, Holder(work[p])}
         \/ \E m \in Mesh : Holder(w) = m /\ mesh[m].phase \in {"live", "deleting"} /\ p[2] = CpNs[m]
  PROVE  TenancyStep
<1>1. GroundOf' = [GroundOf EXCEPT ![p] = Holder(w)]
  <2>1. work' = [work EXCEPT ![p] = w] /\ work \in [Spot -> Work]
    BY DEF PutWork, TypeOK, HubTypeOK
  <2>2. \A q \in Spot : work'[q] = IF q = p THEN w ELSE work[q]
    BY <2>1
  <2> QED
    BY <2>2 DEF GroundOf, Holder
<1>2. CASE Holder(w) = NoMesh
  BY <1>1, <1>2 DEF TenancyStep, Tenancy!Next, Tenancy!Vacate
<1>3. CASE Holder(w) = Holder(work[p])
  BY <1>1, <1>3 DEF TenancyStep, GroundOf
<1>4. ASSUME NEW m \in Mesh, Holder(w) = m, mesh[m].phase \in {"live", "deleting"}, p[2] = CpNs[m]
      PROVE  TenancyStep
  <2>1. PhaseOf[m] \in {"live", "deleting"}
    BY <1>4 DEF PhaseOf
  <2>2. Tenancy!Occupy(m, p)
    BY <1>1, <1>4, <2>1 DEF Tenancy!Occupy
  <2> QED
    BY <2>2 DEF TenancyStep, Tenancy!Next
<1> QED
  BY <1>2, <1>3, <1>4

\* One mesh is written: it stays in its phase or goes a phase on.
LEMMA MeshWritten ==
  ASSUME TypeOK, work' = work, NEW m \in Mesh, NEW record, mesh' = [mesh EXCEPT ![m] = record],
         \/ record.phase = mesh[m].phase
         \/ mesh[m].phase = "none" /\ record.phase = "live"
         \/ mesh[m].phase = "live" /\ record.phase = "deleting"
         \/ mesh[m].phase \in {"live", "deleting"} /\ record.phase = "gone" /\ HeldBy(m) = {}
  PROVE  TenancyStep
<1>1. PhaseOf' = [PhaseOf EXCEPT ![m] = record.phase]
  <2>1. \A o \in Mesh : mesh'[o] = IF o = m THEN record ELSE mesh[o]
    BY DEF TypeOK, HubTypeOK
  <2>2. PhaseOf' = [o \in Mesh |-> IF o = m THEN record.phase ELSE mesh[o].phase]
    BY <2>1 DEF PhaseOf
  <2>3. @ = [PhaseOf EXCEPT ![m] = record.phase]
    BY DEF PhaseOf
  <2> QED
    BY <2>2, <2>3
<1>2. GroundOf' = GroundOf /\ PhaseOf[m] = mesh[m].phase
  BY SameGround DEF PhaseOf
<1>3. CASE record.phase = mesh[m].phase
  BY <1>1, <1>2, <1>3 DEF TenancyStep, PhaseOf
<1>4. CASE mesh[m].phase = "none" /\ record.phase = "live"
  BY <1>1, <1>2, <1>4 DEF TenancyStep, Tenancy!Next, Tenancy!Create
<1>5. CASE mesh[m].phase = "live" /\ record.phase = "deleting"
  BY <1>1, <1>2, <1>5 DEF TenancyStep, Tenancy!Next, Tenancy!Retire
<1>6. CASE mesh[m].phase \in {"live", "deleting"} /\ record.phase = "gone" /\ HeldBy(m) = {}
  <2>1. \A p \in Spot : GroundOf[p] # m
    BY <1>6, ConstantsAssumption DEF GroundOf, Holder, HeldBy
  <2>2. Tenancy!Leave(m)
    BY <1>1, <1>2, <1>6, <2>1 DEF Tenancy!Leave
  <2> QED
    BY <2>2 DEF TenancyStep, Tenancy!Next
<1> QED
  BY <1>3, <1>4, <1>5, <1>6

LEMMA DeletedStep ==
  ASSUME TypeOK, mesh' = mesh, NEW p \in Spot, Deleted(p)
  PROVE  TenancyStep
<1>1. CASE work[p] # NoWork /\ ~work[p].dying
  <2> DEFINE w == [work[p] EXCEPT !.dying = TRUE]
  <2>1. PutWork(p, w)
    BY <1>1 DEF Deleted
  <2>2. w \in WorkRecord /\ w.dying
    BY <1>1 DEF TypeOK, HubTypeOK, Work, WorkRecord
  <2>3. Holder(w) = NoMesh
    BY <2>2 DEF Holder
  <2> HIDE DEF w
  <2> QED
    BY <2>1, <2>3, SamePhases, WorkWritten
<1>2. CASE ~(work[p] # NoWork /\ ~work[p].dying)
  BY <1>2, NothingWritten DEF Deleted, KeepWork
<1> QED
  BY <1>1, <1>2

LEMMA TenancyInit == Init => Tenancy!Init
<1> SUFFICES ASSUME Init PROVE Tenancy!Init
  OBVIOUS
<1>1. PhaseOf \in [Mesh -> {"none", "live"}]
  BY DEF Init, HubInit, PhaseOf, NewMesh, Blank
<1>2. GroundOf = [p \in Spot |-> NoMesh]
  BY DEF Init, HubInit, GroundOf, Holder
<1> QED
  BY <1>1, <1>2 DEF Tenancy!Init

\* WorkApplier writes the work that is wanted, or gives the one that is there
\* its labels: the spot is its owner's then, unless the work is being deleted.
LEMMA AppliedStep ==
  ASSUME ~WorkLag, TypeOK, PhaseOf' = PhaseOf, mesh' = mesh,
         NEW p \in Spot, NEW want \in WorkRecord, Applied(p, want),
         want.owner # NoMesh =>
           mesh[want.owner].phase \in {"live", "deleting"} /\ p[2] = CpNs[want.owner]
  PROVE  TenancyStep
<1>1. Listed = work
  BY DEF Listed
<1>2. CASE KeepWork
  BY <1>2, NothingWritten DEF KeepWork
<1>3. ASSUME NEW w, PutWork(p, w), Holder(w) \in {NoMesh, want.owner} PROVE TenancyStep
  <2>1. want.owner \in Mesh \union {NoMesh}
    BY DEF WorkRecord
  <2> QED
    BY <1>3, <2>1, WorkWritten
<1>4. Holder(want) \in {NoMesh, want.owner}
  BY DEF Holder
<1>5. Holder(Patched(work[p], want)) \in {NoMesh, want.owner}
  BY DEF Holder, Patched
<1> QED
  BY <1>1, <1>2, <1>3, <1>4, <1>5 DEF Applied

LEMMA TenancyEnvironment == OwnershipInv /\ Environment => TenancyStep
<1> SUFFICES ASSUME OwnershipInv, Environment PROVE TenancyStep
  OBVIOUS
<1>1. TypeOK
  BY DEF OwnershipInv
<1>2. ASSUME NEW m \in Mesh, NEW record, UserWrites(m, record),
             \/ record.phase = mesh[m].phase
             \/ mesh[m].phase = "none" /\ record.phase = "live"
             \/ mesh[m].phase = "live" /\ record.phase = "deleting"
             \/ mesh[m].phase \in {"live", "deleting"} /\ record.phase = "gone" /\ HeldBy(m) = {}
      PROVE  TenancyStep
  BY <1>1, <1>2, MeshWritten DEF UserWrites, WriteMeshes
<1>3. ASSUME NEW m \in Mesh, CreateMesh(m) PROVE TenancyStep
  BY <1>2, <1>3 DEF CreateMesh, NewMesh
<1>4. ASSUME NEW m \in Mesh, DeleteMesh(m) PROVE TenancyStep
  <2> DEFINE record == [mesh[m] EXCEPT !.phase = "deleting", !.gen = @ + 1]
  <2>1. record.phase = "deleting"
    BY <1>1 DEF TypeOK, HubTypeOK, MeshRecord
  <2>2. UserWrites(m, record) /\ mesh[m].phase = "live"
    BY <1>4 DEF DeleteMesh
  <2> HIDE DEF record
  <2> QED
    BY <1>2, <2>1, <2>2
<1>5. ASSUME NEW m \in Mesh, WithdrawMesh(m) PROVE TenancyStep
  <2>1. HeldBy(m) = {}
    BY <1>5 DEF OwnershipInv, OwnersPresent, Present, WithdrawMesh
  <2> QED
    BY <1>2, <1>5, <2>1 DEF WithdrawMesh, Gone, Blank
<1>6. ASSUME NEW m \in Mesh, EditOperator(m) PROVE TenancyStep
  <2>1. PICK op \in Config : UserWrites(m, [mesh[m] EXCEPT !.op = op, !.gen = @ + 1])
    BY <1>6 DEF EditOperator
  <2> DEFINE record == [mesh[m] EXCEPT !.op = op, !.gen = @ + 1]
  <2>2. record.phase = mesh[m].phase
    BY <1>1 DEF TypeOK, HubTypeOK, MeshRecord
  <2>3. UserWrites(m, record)
    BY <2>1
  <2> HIDE DEF record
  <2> QED
    BY <1>2, <2>2, <2>3
<1>7. ASSUME NEW c \in Cluster, MoveCluster(c) PROVE TenancyStep
  BY <1>7, NothingWritten DEF MoveCluster
<1>8. ASSUME NEW s \in Set, ChangeSet(s) PROVE TenancyStep
  BY <1>8, NothingWritten DEF ChangeSet
<1>9. ASSUME NEW p \in Spot, NEW w, PutWork(p, w), mesh' = mesh,
             Holder(w) \in {NoMesh, Holder(work[p])}
      PROVE  TenancyStep
  BY <1>1, <1>9, SamePhases, WorkWritten
<1>10. ASSUME NEW c \in Cluster, Tamper(c) PROVE TenancyStep
  <2>1. ASSUME NEW n \in WorkName, work[<<c, n>>] # NoWork,
               PutWork(<<c, n>>, [work[<<c, n>>] EXCEPT !.dying = TRUE])
        PROVE  TenancyStep
    <3> DEFINE w == [work[<<c, n>>] EXCEPT !.dying = TRUE]
    <3>1. <<c, n>> \in Spot
      BY DEF Spot
    <3>2. w.dying
      BY <1>1, <2>1, <3>1 DEF TypeOK, HubTypeOK, Work, WorkRecord
    <3>3. Holder(w) = NoMesh
      BY <3>2 DEF Holder
    <3>4. PutWork(<<c, n>>, w) /\ mesh' = mesh
      BY <1>10, <2>1 DEF Tamper
    <3> HIDE DEF w
    <3> QED
      BY <1>9, <3>1, <3>3, <3>4
  <2>2. ASSUME NEW op \in Config, work[<<c, OpWork>>] # NoWork,
               PutWork(<<c, OpWork>>, [work[<<c, OpWork>>] EXCEPT !.op = op])
        PROVE  TenancyStep
    <3> DEFINE w == [work[<<c, OpWork>>] EXCEPT !.op = op]
    <3>1. <<c, OpWork>> \in Spot
      BY DEF Spot, WorkName
    <3>2. w.dying = work[<<c, OpWork>>].dying /\ w.owner = work[<<c, OpWork>>].owner
      BY <1>1, <2>2, <3>1 DEF TypeOK, HubTypeOK, Work, WorkRecord
    <3>3. Holder(w) \in {NoMesh, Holder(work[<<c, OpWork>>])}
      BY <2>2, <3>2 DEF Holder
    <3>4. PutWork(<<c, OpWork>>, w) /\ mesh' = mesh
      BY <1>10, <2>2 DEF Tamper
    <3> HIDE DEF w
    <3> QED
      BY <1>9, <3>1, <3>3, <3>4
  <2> QED
    BY <1>10, <2>1, <2>2 DEF Tamper
<1>11. ASSUME NEW c \in Cluster, AgentReport(c) PROVE TenancyStep
  <2> DEFINE w == [work[<<c, OpWork>>] EXCEPT !.csv = work[<<c, OpWork>>].op]
  <2>1. <<c, OpWork>> \in Spot
    BY DEF Spot, WorkName
  <2>2. work[<<c, OpWork>>] \in WorkRecord /\ work[<<c, OpWork>>] # NoWork
    BY <1>1, <1>11, <2>1 DEF AgentReport, TypeOK, HubTypeOK, Work
  <2>3. w.dying = work[<<c, OpWork>>].dying /\ w.owner = work[<<c, OpWork>>].owner
    BY <2>2 DEF WorkRecord
  <2>4. Holder(w) \in {NoMesh, Holder(work[<<c, OpWork>>])}
    BY <2>2, <2>3 DEF Holder
  <2>5. PutWork(<<c, OpWork>>, w) /\ mesh' = mesh
    BY <1>11 DEF AgentReport
  <2> HIDE DEF w
  <2> QED
    BY <1>9, <2>1, <2>4, <2>5
<1>12. ASSUME NEW p \in Spot, AgentFinish(p) PROVE TenancyStep
  BY <1>9, <1>12 DEF AgentFinish, Holder
<1> QED
  BY <1>3, <1>4, <1>5, <1>6, <1>7, <1>8, <1>10, <1>11, <1>12 DEF Environment

LEMMA TenancyController == ~WorkLag /\ OwnershipInv /\ Controller => TenancyStep
<1> SUFFICES ASSUME ~WorkLag, OwnershipInv, Controller PROVE TenancyStep
  OBVIOUS
<1>1. TypeOK
  BY DEF OwnershipInv
<1>2. (pc # "idle") => cur \in Mesh
  BY <1>1 DEF TypeOK, ControllerTypeOK
<1>3. ASSUME \/ \E m \in Mesh : TakeNothing(m) \/ Take(m)
             \/ Fail \/ Validate \/ Inventory \/ ListOwned \/ ListShared \/ Determine \/ Trigger
      PROVE  TenancyStep
  BY <1>3, NothingWritten DEF TakeNothing, Take, Fail, Validate, Inventory, ListOwned, ListShared,
     Determine, Trigger, apiVars, hubVars
<1>4. ASSUME NEW m \in Mesh, TakeUnfinalized(m) PROVE TenancyStep
  <2> DEFINE record == [mesh[m] EXCEPT !.fin = TRUE]
  <2>1. CASE mesh' = [mesh EXCEPT ![m].fin = TRUE]
    <3>1. mesh' = [mesh EXCEPT ![m] = record]
      BY <2>1
    <3>2. record.phase = mesh[m].phase
      BY <1>1 DEF TypeOK, HubTypeOK, MeshRecord
    <3>3. work' = work
      BY <1>4 DEF TakeUnfinalized
    <3> HIDE DEF record
    <3> QED
      BY <1>1, <3>1, <3>2, <3>3, MeshWritten
  <2>2. CASE mesh' = mesh
    BY <1>4, <2>2, NothingWritten DEF TakeUnfinalized
  <2> QED
    BY <1>4, <2>1, <2>2 DEF TakeUnfinalized, WriteMeshes
<1>5. ASSUME NEW c \in Cluster, ApplyNamespace(c) PROVE TenancyStep
  <2>1. pc = "namespace" /\ mesh' = mesh
    BY <1>5 DEF ApplyNamespace
  <2>2. CASE KeepWork
    BY <2>1, <2>2, NothingWritten DEF KeepWork
  <2>3. CASE Applied(<<c, CpNs[cur]>>, NamespaceWork(cur))
    <3>1. cur \in Mesh /\ Present(cur)
      BY <1>2, <2>1 DEF OwnershipInv, PathSound, Cleaning
    <3>2. <<c, CpNs[cur]>> \in Spot
      BY <3>1 DEF Spot, WorkName
    <3>3. NamespaceWork(cur) \in WorkRecord /\ NamespaceWork(cur).owner = cur
      BY <3>1, WantedTypes DEF NamespaceWork
    <3> QED
      BY <1>1, <2>1, <2>3, <3>1, <3>2, <3>3, SamePhases, AppliedStep DEF Present
  <2> QED
    BY <1>5, <2>2, <2>3 DEF ApplyNamespace
<1>6. ASSUME NEW c \in Cluster, ApplyOperator(c) PROVE TenancyStep
  <2>1. pc = "operator" /\ mesh' = mesh
    BY <1>6 DEF ApplyOperator
  <2>2. CASE KeepWork
    BY <2>1, <2>2, NothingWritten DEF KeepWork
  <2>3. CASE Applied(<<c, OpWork>>, OperatorWork(cur, my.op))
    <3>1. cur \in Mesh /\ my.op \in Config \union {NoConfig}
      BY <1>1, <1>2, <2>1 DEF TypeOK, ControllerTypeOK, MeshRecord
    <3>2. <<c, OpWork>> \in Spot
      BY DEF Spot, WorkName
    <3>3. OperatorWork(cur, my.op) \in WorkRecord /\ OperatorWork(cur, my.op).owner = NoMesh
      BY <3>1, WantedTypes DEF OperatorWork
    <3> QED
      BY <1>1, <2>1, <2>3, <3>2, <3>3, SamePhases, AppliedStep
  <2> QED
    BY <1>6, <2>2, <2>3 DEF ApplyOperator
<1>7. ASSUME DeleteListed PROVE TenancyStep
  <2>1. doomed \subseteq Spot
    BY <1>1 DEF TypeOK, ControllerTypeOK
  <2> QED
    BY <1>1, <1>7, <2>1, DeletedStep DEF DeleteListed
<1>8. ASSUME WriteStatus PROVE TenancyStep
  <2>1. work' = work /\ cur \in Mesh
    BY <1>2, <1>8 DEF WriteStatus
  <2>2. CASE mesh' = [mesh EXCEPT ![cur].ready = NewReady]
    <3> DEFINE record == [mesh[cur] EXCEPT !.ready = NewReady]
    <3>1. mesh' = [mesh EXCEPT ![cur] = record]
      BY <2>2
    <3>2. record.phase = mesh[cur].phase
      BY <1>1, <2>1 DEF TypeOK, HubTypeOK, MeshRecord
    <3> HIDE DEF record
    <3> QED
      BY <1>1, <2>1, <3>1, <3>2, MeshWritten
  <2>3. CASE mesh' = mesh
    BY <2>1, <2>3, NothingWritten
  <2> QED
    BY <1>8, <2>2, <2>3 DEF WriteStatus, WriteMeshes
<1>9. ASSUME Release PROVE TenancyStep
  <2>1. work' = work /\ pc = "release" /\ cur \in Mesh
    BY <1>2, <1>9 DEF Release
  <2>2. mesh[cur].phase \in Leaving /\ HeldBy(cur) = {}
    BY <2>1 DEF OwnershipInv, PathSound, DeletionThorough
  <2>3. CASE mesh' = [mesh EXCEPT ![cur] = Gone]
    BY <1>1, <2>1, <2>2, <2>3, MeshWritten DEF Gone, Blank, Leaving
  <2>4. CASE mesh' = mesh
    BY <2>1, <2>4, NothingWritten
  <2> QED
    BY <1>9, <2>3, <2>4 DEF Release, WriteMeshes
<1> QED
  BY <1>3, <1>4, <1>5, <1>6, <1>7, <1>8, <1>9 DEF Controller

\* With current ManifestWork caches the system implements MeshTenancy: what
\* the controller, spokes, users and restarts do amounts to meshes that come,
\* occupy and leave ground, and a mesh goes only when it holds none.
THEOREM RefinesTenancy == ASSUME ~WorkLag PROVE Spec => ImplementsTenancy
<1>1. OwnershipInv /\ [Next]_vars => OwnershipInv'
  BY OwnershipStutter, OwnershipController, OwnershipDelivery, OwnershipEnvironment,
     OwnershipCrash DEF Next
<1>2. OwnershipInv /\ [Next]_vars => TenancyStep
  <2> SUFFICES ASSUME OwnershipInv, [Next]_vars PROVE TenancyStep
    OBVIOUS
  <2>1. CASE Delivery
    BY <2>1, NothingWritten DEF Delivery, SyncMesh, SyncMember, SyncSet, SyncWork, SyncLister,
       apiVars
  <2>2. CASE Crash
    BY <2>2, NothingWritten DEF Crash, apiVars
  <2>3. CASE UNCHANGED vars
    BY <2>3, NothingWritten DEF vars, hubVars, apiVars
  <2> QED
    BY <2>1, <2>2, <2>3, TenancyController, TenancyEnvironment DEF Next
<1>3. OwnershipInv /\ [Next]_vars => [Tenancy!Next]_<<PhaseOf, GroundOf>>
  BY <1>2 DEF TenancyStep
<1> QED
  BY <1>1, <1>3, OwnershipInit, TenancyInit, PTL DEF Spec, ImplementsTenancy, Tenancy!Spec
=============================================================================
