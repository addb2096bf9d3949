---------------------------- MODULE MeshTypeProofs ----------------------------
(***************************************************************************)
(* Type correctness of MeshSystem, for every number of meshes, clusters,   *)
(* sets and configurations and every mix of disturbances, and the lemmas   *)
(* about the operators that write the variables.                           *)
(***************************************************************************)
EXTENDS MeshProperties, TLAPS

-----------------------------------------------------------------------------
(* The shapes of the values that steps write *)

LEMMA BlankTypes ==
  /\ Unset \in Condition /\ Blank \in MeshRecord /\ Gone \in MeshRecord
  /\ \A op \in Config : NewMesh(op) \in MeshRecord
BY DEF Unset, Blank, Gone, NewMesh, Condition, MeshRecord, Reason

LEMMA WantedTypes ==
  ASSUME NEW m \in Mesh, NEW op \in Config \union {NoConfig}
  PROVE  /\ OperatorWork(m, op) \in WorkRecord
         /\ NamespaceWork(m) \in WorkRecord
BY ConstantsAssumption DEF OperatorWork, NamespaceWork, WorkRecord

\* WorkApplier writes a work of the right type, or none.
LEMMA AppliedType ==
  ASSUME TypeOK, NEW p \in Spot, NEW want \in WorkRecord, Applied(p, want)
  PROVE  work' \in [Spot -> Work] /\ workEv' \subseteq Cluster
<1>1. p[1] \in Cluster
  BY DEF Spot
<1>2. Listed \in [Spot -> Work]
  BY DEF TypeOK, HubTypeOK, Listed
<1>3. CASE PutWork(p, want)
  BY <1>1, <1>3 DEF TypeOK, HubTypeOK, PutWork, Work
<1>4. CASE KeepWork
  BY <1>4 DEF TypeOK, HubTypeOK, KeepWork
<1>5. ASSUME Listed[p] # NoWork,
             PutWork(p, Patched(Listed[p], want))
      PROVE  work' \in [Spot -> Work] /\ workEv' \subseteq Cluster
  <2>1. Listed[p] \in WorkRecord
    BY <1>2, <1>5 DEF Work
  <2>2. Patched(Listed[p], want) \in WorkRecord
    BY <2>1 DEF WorkRecord, Patched
  <2> QED
    BY <1>1, <1>5, <2>2 DEF TypeOK, HubTypeOK, PutWork, Work
<1> QED
  BY <1>3, <1>4, <1>5 DEF Applied

LEMMA DeletedType ==
  ASSUME TypeOK, NEW p \in Spot, Deleted(p)
  PROVE  work' \in [Spot -> Work] /\ workEv' \subseteq Cluster
<1>1. p[1] \in Cluster
  BY DEF Spot
<1>2. CASE KeepWork
  BY <1>2 DEF TypeOK, HubTypeOK, KeepWork
<1>3. ASSUME work[p] # NoWork, PutWork(p, [work[p] EXCEPT !.dying = TRUE])
      PROVE  work' \in [Spot -> Work] /\ workEv' \subseteq Cluster
  <2>1. [work[p] EXCEPT !.dying = TRUE] \in Work
    BY <1>3 DEF TypeOK, HubTypeOK, Work, WorkRecord
  <2> QED
    BY <1>1, <1>3, <2>1 DEF TypeOK, HubTypeOK, PutWork
<1> QED
  BY <1>2, <1>3 DEF Deleted

\* The worker's variables after it has gone back to rest, or given up.
LEMMA RestTypes ==
  ASSUME TypeOK, settled' \subseteq Cluster \X Mesh, Rest \/ (pc # "idle" /\ GiveUp)
  PROVE  ControllerTypeOK'
BY BlankTypes DEF TypeOK, ControllerTypeOK, Rest, GiveUp, Step, Reason, Applying, Cleaning

-----------------------------------------------------------------------------
(* Type correctness *)

LEMMA TypeInit == Init => TypeOK
<1> SUFFICES ASSUME Init PROVE TypeOK
  OBVIOUS
<1>1. mesh \in [Mesh -> MeshRecord]
  <2>1. PICK op \in [Existing -> Config] :
          mesh = [m \in Mesh |-> IF m \in Existing
                    THEN [NewMesh(op[m]) EXCEPT !.fin = TRUE] ELSE Blank]
    BY DEF Init, HubInit
  <2>2. ASSUME NEW m \in Existing PROVE [NewMesh(op[m]) EXCEPT !.fin = TRUE] \in MeshRecord
    <3>1. NewMesh(op[m]) \in MeshRecord
      BY BlankTypes
    <3> QED
      BY <3>1 DEF MeshRecord
  <2> QED
    BY <2>1, <2>2, BlankTypes
<1>2. HubTypeOK
  BY <1>1, ConstantsAssumption DEF Init, HubInit, HubTypeOK, SelectorState, Work
<1>3. ControllerTypeOK
  BY BlankTypes DEF Init, ControllerInit, ControllerTypeOK, Step, Reason
<1> QED
  BY <1>2, <1>3 DEF TypeOK

LEMMA TypeController == TypeOK /\ Controller => TypeOK'
<1> SUFFICES ASSUME TypeOK, Controller PROVE TypeOK'
  OBVIOUS
<1> USE DEF TypeOK
<1> USE DEF apiVars, cacheVars, eventVars, hubVars, workerVars
<1>1. ASSUME NEW m \in Mesh, TakeNothing(m) PROVE TypeOK'
  BY <1>1 DEF TakeNothing, HubTypeOK, ControllerTypeOK
<1>2. ASSUME NEW m \in Mesh, TakeUnfinalized(m) PROVE TypeOK'
  <2>1. [mesh EXCEPT ![m].fin = TRUE] \in [Mesh -> MeshRecord]
    BY DEF HubTypeOK, MeshRecord
  <2> QED
    BY <1>2, <2>1 DEF TakeUnfinalized, WriteMeshes, HubTypeOK, ControllerTypeOK
<1>3. ASSUME NEW m \in Mesh, Take(m) PROVE TypeOK'
  BY <1>3 DEF Take, HubTypeOK, ControllerTypeOK, Step, Cleaning
<1>4. ASSUME Fail PROVE TypeOK'
  <2>1. HubTypeOK' /\ settled' \subseteq Cluster \X Mesh
    BY <1>4 DEF Fail, Spend, Abandon, Requeue, GiveUp, HubTypeOK, ControllerTypeOK, Disturbance
  <2> QED
    BY <1>4, <2>1, RestTypes DEF Fail, Abandon, Requeue
<1>5. ASSUME Validate PROVE TypeOK'
  <2>1. Refusals \subseteq Reason
    BY DEF Refusals, Objections, Objection, Reason
  <2> QED
    BY <1>5, <2>1 DEF Validate, HubTypeOK, ControllerTypeOK, Step
<1>6. ASSUME Inventory PROVE TypeOK'
  <2>1. HubTypeOK' /\ settled' \subseteq Cluster \X Mesh
    BY <1>6 DEF Inventory, GiveUp, HubTypeOK, ControllerTypeOK
  <2>2. CASE GiveUp
    BY <1>6, <2>1, <2>2, RestTypes DEF Inventory
  <2>3. CASE ~GiveUp
    BY <1>6, <2>1, <2>3 DEF Inventory, SetMembers, ControllerTypeOK, Step, Applying, Cleaning
  <2> QED
    BY <2>2, <2>3
<1>7. ASSUME NEW c \in Cluster, ApplyNamespace(c) PROVE TypeOK'
  <2>1. cur \in Mesh /\ <<c, CpNs[cur]>> \in Spot /\ NamespaceWork(cur) \in WorkRecord
    BY <1>7, WantedTypes DEF ApplyNamespace, ControllerTypeOK, Spot, WorkName
  <2>2. work' \in [Spot -> Work] /\ workEv' \subseteq Cluster
    BY <1>7, <2>1, AppliedType DEF ApplyNamespace, KeepWork, HubTypeOK
  <2>3. HubTypeOK' /\ settled' \subseteq Cluster \X Mesh
    BY <1>7, <2>2 DEF ApplyNamespace, GiveUp, HubTypeOK, ControllerTypeOK
  <2>4. CASE GiveUp
    BY <1>7, <2>3, <2>4, RestTypes DEF ApplyNamespace
  <2>5. CASE ~GiveUp
    BY <1>7, <2>3, <2>5 DEF ApplyNamespace, ControllerTypeOK, Step, Applying
  <2> QED
    BY <2>4, <2>5
<1>8. ASSUME NEW c \in Cluster, ApplyOperator(c) PROVE TypeOK'
  <2>1. cur \in Mesh /\ <<c, OpWork>> \in Spot /\ OperatorWork(cur, my.op) \in WorkRecord
    BY <1>8, WantedTypes DEF ApplyOperator, ControllerTypeOK, Spot, WorkName, MeshRecord
  <2>2. work' \in [Spot -> Work] /\ workEv' \subseteq Cluster
    BY <1>8, <2>1, AppliedType DEF ApplyOperator, KeepWork, HubTypeOK
  <2>3. HubTypeOK'
    BY <1>8, <2>2 DEF ApplyOperator, GiveUp, HubTypeOK
  <2>4. settled' \subseteq settled \union {<<c, cur>>}
    BY <1>8 DEF ApplyOperator
  <2>5. settled' \subseteq Cluster \X Mesh
    BY <2>1, <2>4 DEF ControllerTypeOK
  <2>6. CASE GiveUp
    BY <1>8, <2>3, <2>5, <2>6, RestTypes DEF ApplyOperator
  <2>7. CASE ~GiveUp
    BY <1>8, <2>3, <2>5, <2>7 DEF ApplyOperator, ControllerTypeOK, Step, Applying, Cleaning
  <2> QED
    BY <2>6, <2>7
<1>9. ASSUME ListOwned PROVE TypeOK'
  BY <1>9 DEF ListOwned, HubTypeOK, ControllerTypeOK, Step, Cleaning
<1>10. ASSUME ListShared PROVE TypeOK'
  <2>1. HubTypeOK' /\ settled' \subseteq Cluster \X Mesh
    BY <1>10 DEF ListShared, Abandon, Requeue, GiveUp, HubTypeOK, ControllerTypeOK
  <2>2. CASE Abandon
    BY <1>10, <2>1, <2>2, RestTypes DEF ListShared, Abandon, Requeue
  <2>3. CASE ~Abandon
    BY <1>10, <2>1, <2>3
    DEF ListShared, AfterCleanup, ControllerTypeOK, Step, Applying, Cleaning
  <2> QED
    BY <2>2, <2>3
<1>11. ASSUME DeleteListed PROVE TypeOK'
  <2>1. PICK p \in doomed : Deleted(p) /\ doomed' = doomed \ {p}
    BY <1>11 DEF DeleteListed
  <2>2. work' \in [Spot -> Work] /\ workEv' \subseteq Cluster
    BY <2>1, DeletedType DEF ControllerTypeOK
  <2>3. HubTypeOK'
    BY <1>11, <2>2 DEF DeleteListed, HubTypeOK
  <2>4. ControllerTypeOK'
    BY <1>11, <2>1 DEF DeleteListed, AfterCleanup, ControllerTypeOK, Step, Cleaning
  <2> QED
    BY <2>3, <2>4
<1>12. ASSUME Determine PROVE TypeOK'
  <2>1. HubTypeOK' /\ settled' \subseteq Cluster \X Mesh
    BY <1>12 DEF Determine, GiveUp, HubTypeOK, ControllerTypeOK
  <2>2. CASE GiveUp
    BY <1>12, <2>1, <2>2, RestTypes DEF Determine
  <2>3. CASE ~GiveUp
    BY <1>12, <2>1, <2>3 DEF Determine, ControllerTypeOK, Step, Reason
  <2> QED
    BY <2>2, <2>3
<1>13. ASSUME WriteStatus PROVE TypeOK'
  <2>1. cur \in Mesh /\ NewReady \in Condition
    BY <1>13 DEF WriteStatus, ControllerTypeOK, NewReady, Condition, MeshRecord
  <2>2. [mesh EXCEPT ![cur].ready = NewReady] \in [Mesh -> MeshRecord]
    BY <2>1 DEF HubTypeOK, MeshRecord
  <2>3. HubTypeOK' /\ settled' \subseteq Cluster \X Mesh
    BY <1>13, <2>1, <2>2
    DEF WriteStatus, WriteMeshes, FinishReconcile, Requeue, Done, HubTypeOK, ControllerTypeOK
  <2> QED
    BY <1>13, <2>3, RestTypes DEF WriteStatus, FinishReconcile, Requeue, Done
<1>14. ASSUME Trigger PROVE TypeOK'
  <2>1. meshEv' \subseteq Mesh /\ budget' \in [Disturbance -> Nat]
    BY <1>14 DEF Trigger, Spend, Peers, Targeting, HubTypeOK, Disturbance
  <2> QED
    BY <1>14, <2>1 DEF Trigger, HubTypeOK, ControllerTypeOK, Step
<1>15. ASSUME Release PROVE TypeOK'
  <2>1. cur \in Mesh
    BY <1>15 DEF Release, ControllerTypeOK
  <2>2. HubTypeOK' /\ settled' \subseteq Cluster \X Mesh
    BY <1>15, <2>1, BlankTypes
    DEF Release, WriteMeshes, Requeue, Done, HubTypeOK, ControllerTypeOK
  <2> QED
    BY <1>15, <2>2, RestTypes DEF Release, Requeue, Done
<1> QED
  BY <1>1, <1>2, <1>3, <1>4, <1>5, <1>6, <1>7, <1>8, <1>9, <1>10, <1>11, <1>12, <1>13,
     <1>14, <1>15 DEF Controller

LEMMA TypeDelivery == TypeOK /\ Delivery => TypeOK'
<1> SUFFICES ASSUME TypeOK, Delivery PROVE TypeOK'
  OBVIOUS
<1> USE DEF TypeOK, HubTypeOK, ControllerTypeOK
<1> USE DEF apiVars, cacheVars, eventVars, workerVars
<1>1. \A s : Targeting(s) \subseteq Mesh
  BY DEF Targeting
<1>2. ASSUME NEW m \in Mesh, SyncMesh(m) PROVE TypeOK'
  BY <1>2 DEF SyncMesh
<1>3. ASSUME NEW c \in Cluster, SyncMember(c) PROVE TypeOK'
  BY <1>1, <1>3 DEF SyncMember
<1>4. ASSUME NEW s \in Set, SyncSet(s) PROVE TypeOK'
  BY <1>1, <1>4 DEF SyncSet
<1>5. ASSUME NEW c \in Cluster
      PROVE  /\ SyncedWorks(workC, c) \in [Spot -> Work]
             /\ SyncedWorks(workL, c) \in [Spot -> Work]
  BY DEF SyncedWorks
<1>6. ASSUME NEW c \in Cluster, SyncWork(c) PROVE TypeOK'
  BY <1>1, <1>5, <1>6 DEF SyncWork
<1>7. ASSUME NEW c \in Cluster, SyncLister(c) PROVE TypeOK'
  BY <1>5, <1>7 DEF SyncLister
<1> QED
  BY <1>2, <1>3, <1>4, <1>6, <1>7 DEF Delivery

LEMMA SpendType == ASSUME TypeOK, NEW kind, Spend(kind) PROVE budget' \in [Disturbance -> Nat]
<1>1. budget \in [Disturbance -> Nat]
  BY DEF TypeOK, HubTypeOK
<1>2. CASE kind \in Disturbance
  <2>1. budget[kind] - 1 \in Nat
    BY <1>1, <1>2 DEF Spend
  <2> QED
    BY <1>1, <2>1 DEF Spend
<1>3. CASE kind \notin Disturbance
  BY <1>1, <1>3 DEF Spend
<1> QED
  BY <1>2, <1>3

\* A write of a work record of the right type.
LEMMA PutWorkType ==
  ASSUME TypeOK, NEW p \in Spot, NEW w \in Work, PutWork(p, w)
  PROVE  work' \in [Spot -> Work] /\ workEv' \subseteq Cluster
<1>1. p[1] \in Cluster
  BY DEF Spot
<1> QED
  BY <1>1 DEF TypeOK, HubTypeOK, PutWork

\* A write of a mesh record of the right type by a user.
LEMMA UserWritesType ==
  ASSUME TypeOK, NEW m \in Mesh, NEW record \in MeshRecord, UserWrites(m, record),
         ts' \in [Mesh -> Nat], clock' \in Nat, budget' \in [Disturbance -> Nat]
  PROVE  TypeOK'
<1>1. mesh' \in [Mesh -> MeshRecord] /\ meshEv' \subseteq Mesh
  BY DEF TypeOK, HubTypeOK, UserWrites, WriteMeshes
<1>2. stale' \in BOOLEAN /\ settled' \subseteq Cluster \X Mesh
  BY DEF TypeOK, ControllerTypeOK, UserWrites
<1> QED
  BY <1>1, <1>2 DEF TypeOK, HubTypeOK, ControllerTypeOK, UserWrites, cacheVars

LEMMA TypeEnvironment == TypeOK /\ Environment => TypeOK'
<1> SUFFICES ASSUME TypeOK, Environment PROVE TypeOK'
  OBVIOUS
<1> USE DEF TypeOK, apiVars, cacheVars, eventVars, workerVars
<1>1. ASSUME NEW m \in Mesh, CreateMesh(m) PROVE TypeOK'
  <2>1. PICK op \in Config : UserWrites(m, NewMesh(op))
    BY <1>1 DEF CreateMesh
  <2>2. ts' \in [Mesh -> Nat] /\ clock' \in Nat
    BY <1>1 DEF CreateMesh, HubTypeOK
  <2> QED
    BY <1>1, <2>1, <2>2, BlankTypes, SpendType, UserWritesType DEF CreateMesh
<1>2. ASSUME NEW m \in Mesh, DeleteMesh(m) PROVE TypeOK'
  <2>1. mesh[m] \in MeshRecord
    BY DEF HubTypeOK
  <2>2. mesh[m].gen + 1 \in Nat
    BY <2>1 DEF MeshRecord
  <2>3. [mesh[m] EXCEPT !.phase = "deleting", !.gen = @ + 1] \in MeshRecord
    BY <2>1, <2>2 DEF MeshRecord
  <2> QED
    BY <1>2, <2>3, SpendType, UserWritesType DEF DeleteMesh, HubTypeOK
<1>3. ASSUME NEW m \in Mesh, WithdrawMesh(m) PROVE TypeOK'
  BY <1>3, BlankTypes, SpendType, UserWritesType DEF WithdrawMesh, HubTypeOK
<1>4. ASSUME NEW m \in Mesh, EditOperator(m) PROVE TypeOK'
  <2>1. PICK op \in Config : UserWrites(m, [mesh[m] EXCEPT !.op = op, !.gen = @ + 1])
    BY <1>4 DEF EditOperator
  <2>2. mesh[m] \in MeshRecord
    BY DEF HubTypeOK
  <2>3. mesh[m].gen + 1 \in Nat
    BY <2>2 DEF MeshRecord
  <2>4. [mesh[m] EXCEPT !.op = op, !.gen = @ + 1] \in MeshRecord
    BY <2>2, <2>3 DEF MeshRecord
  <2> QED
    BY <1>4, <2>1, <2>4, SpendType, UserWritesType DEF EditOperator, HubTypeOK
<1>5. ASSUME NEW c \in Cluster, MoveCluster(c) PROVE TypeOK'
  <2>1. budget' \in [Disturbance -> Nat]
    BY <1>5, SpendType DEF MoveCluster
  <2> QED
    BY <1>5, <2>1 DEF MoveCluster, HubTypeOK, ControllerTypeOK
<1>6. ASSUME NEW c \in Cluster, Tamper(c) PROVE TypeOK'
  <2>1. budget' \in [Disturbance -> Nat] /\ settled' \subseteq Cluster \X Mesh
    BY <1>6, SpendType DEF Tamper, ControllerTypeOK
  <2>2. ASSUME NEW n \in WorkName, work[<<c, n>>] # NoWork,
               PutWork(<<c, n>>, [work[<<c, n>>] EXCEPT !.dying = TRUE])
        PROVE  work' \in [Spot -> Work] /\ workEv' \subseteq Cluster
    <3>1. <<c, n>> \in Spot
      BY DEF Spot
    <3>2. [work[<<c, n>>] EXCEPT !.dying = TRUE] \in Work
      BY <2>2, <3>1 DEF HubTypeOK, Work, WorkRecord
    <3> QED
      BY <2>2, <3>1, <3>2, PutWorkType
  <2>3. ASSUME NEW op \in Config, work[<<c, OpWork>>] # NoWork,
               PutWork(<<c, OpWork>>, [work[<<c, OpWork>>] EXCEPT !.op = op])
        PROVE  work' \in [Spot -> Work] /\ workEv' \subseteq Cluster
    <3>1. <<c, OpWork>> \in Spot
      BY DEF Spot, WorkName
    <3>2. [work[<<c, OpWork>>] EXCEPT !.op = op] \in Work
      BY <2>3, <3>1 DEF HubTypeOK, Work, WorkRecord
    <3> QED
      BY <2>3, <3>1, <3>2, PutWorkType
  <2>4. work' \in [Spot -> Work] /\ workEv' \subseteq Cluster
    BY <1>6, <2>2, <2>3 DEF Tamper
  <2> QED
    BY <1>6, <2>1, <2>4 DEF Tamper, HubTypeOK, ControllerTypeOK
<1>7. ASSUME NEW c \in Cluster, AgentReport(c) PROVE TypeOK'
  <2>1. <<c, OpWork>> \in Spot
    BY DEF Spot, WorkName
  <2>2. [work[<<c, OpWork>>] EXCEPT !.csv = work[<<c, OpWork>>].op] \in Work
    BY <1>7, <2>1 DEF AgentReport, HubTypeOK, Work, WorkRecord
  <2>3. work' \in [Spot -> Work] /\ workEv' \subseteq Cluster
    BY <1>7, <2>1, <2>2, PutWorkType DEF AgentReport
  <2>4. budget' \in [Disturbance -> Nat]
    BY <1>7, SpendType DEF AgentReport
  <2> QED
    BY <1>7, <2>3, <2>4 DEF AgentReport, HubTypeOK, ControllerTypeOK
<1>8. ASSUME NEW s \in Set, ChangeSet(s) PROVE TypeOK'
  <2>1. budget' \in [Disturbance -> Nat]
    BY <1>8, SpendType DEF ChangeSet
  <2>2. cset' \in [Set -> SelectorState]
    BY <1>8 DEF ChangeSet, HubTypeOK
  <2> QED
    BY <1>8, <2>1, <2>2 DEF ChangeSet, HubTypeOK, ControllerTypeOK
<1>9. ASSUME NEW p \in Spot, AgentFinish(p) PROVE TypeOK'
  <2>1. work' \in [Spot -> Work] /\ workEv' \subseteq Cluster
    BY <1>9, PutWorkType DEF AgentFinish, Work
  <2> QED
    BY <1>9, <2>1 DEF AgentFinish, HubTypeOK, ControllerTypeOK
<1> QED
  BY <1>1, <1>2, <1>3, <1>4, <1>5, <1>6, <1>7, <1>8, <1>9 DEF Environment

LEMMA TypeCrash == TypeOK /\ Crash => TypeOK'
<1> SUFFICES ASSUME TypeOK, Crash PROVE TypeOK'
  OBVIOUS
<1>1. ControllerTypeOK'
  BY RestTypes DEF TypeOK, ControllerTypeOK, Crash
<1>2. HubTypeOK'
  BY SpendType DEF TypeOK, HubTypeOK, Crash, apiVars, Work
<1> QED
  BY <1>1, <1>2 DEF TypeOK

\* Every variable keeps its type.
THEOREM TypeCorrect == Spec => []TypeOK
<1>1. TypeOK /\ UNCHANGED vars => TypeOK'
  BY DEF TypeOK, HubTypeOK, ControllerTypeOK, vars, hubVars, apiVars, cacheVars, eventVars,
         workerVars
<1>2. TypeOK /\ [Next]_vars => TypeOK'
  BY <1>1, TypeController, TypeDelivery, TypeEnvironment, TypeCrash DEF Next
<1> QED
  BY <1>2, TypeInit, PTL DEF Spec
=============================================================================
