-------------------------- MODULE MeshSettledProofs --------------------------
(***************************************************************************)
(* What an accepted mesh has settled on a cluster stays, proved from an    *)
(* inductive invariant.  It says what the caches show of a settled mesh,   *)
(* what the worker has found out about it by the time it writes, and that  *)
(* a list of works to delete holds none of its works.  Then what is not to *)
(* stay: no work that no live mesh of its set needs, and no refusal        *)
(* without a conflict.                                                     *)
(***************************************************************************)
EXTENDS MeshOwnershipProofs, MeshStatusProofs

\* The caches show a settled mesh, its cluster and its set as they are, as far
\* as decisions depend on them.
Visible(c, o) ==
  /\ mesh[o].phase = "live" /\ meshC[o].phase = "live" /\ meshC[o].op = mesh[o].op
  /\ member[c] = SetOf[o] /\ memberC[c] = SetOf[o]
  /\ cset[SetOf[o]] = "exclusive" /\ csetC[SetOf[o]] = "exclusive"

SettledVisible == \A s \in settled : Visible(s[1], s[2])

\* The mesh being reconciled wants what it has settled, on the clusters it
\* listed.
Continues(c) ==
  /\ my.op = mesh[cur].op
  /\ pc \in Applying \union {"listOwned"} => c \in clusters

\* It was validated against every other settled mesh, and lists no cluster
\* that one of another set has settled on.
Respects(c, o) ==
  /\ (pc \in {"inventory"} \union Applying /\ SetOf[o] = SetOf[cur] /\ ~Older(cur, o)) =>
       CpNs[o] # CpNs[cur] /\ mesh[o].op = my.op
  /\ (pc \in Applying /\ c \in clusters) => SetOf[o] = SetOf[cur]

WorkerRespects ==
  pc # "idle" => \A s \in settled : IF s[2] = cur THEN Continues(s[1]) ELSE Respects(s[1], s[2])

\* The works of a settled pair are on no list of works to delete.
Spared(c, o) == <<c, OpWork>> \notin doomed /\ <<c, CpNs[o]>> \notin doomed

ListsSound ==
  /\ \A s \in settled : Spared(s[1], s[2])
  /\ pc \notin {"deleteOwned", "deleteShared"} => doomed = {}
  /\ todo \subseteq clusters

SettledInv ==
  /\ OwnershipInv /\ StatusInv /\ CachesCurrent
  /\ SettledVisible /\ SettledStays /\ WorkerRespects /\ ListsSound

-----------------------------------------------------------------------------
(* What a step leaves of the settled pairs, said once *)

\* The meshes, clusters and sets of those that remain are as before, and the
\* caches show them so or as they were.
Undisturbed ==
  /\ settled' \subseteq settled
  /\ \A s \in settled' :
       /\ mesh'[s[2]].phase = mesh[s[2]].phase /\ mesh'[s[2]].op = mesh[s[2]].op
       /\ meshC'[s[2]] \in {meshC[s[2]], mesh[s[2]]}
       /\ member'[s[1]] = member[s[1]] /\ memberC'[s[1]] \in {memberC[s[1]], member[s[1]]}
       /\ cset'[SetOf[s[2]]] = cset[SetOf[s[2]]]
       /\ csetC'[SetOf[s[2]]] \in {csetC[SetOf[s[2]]], cset[SetOf[s[2]]]}

\* A work is as it was, but for what its agent reports.
Kept(p) ==
  \/ work'[p] = work[p]
  \/ /\ work[p] # NoWork /\ work'[p] # NoWork
     /\ work'[p].dying = work[p].dying /\ SameWork(work'[p], work[p])

WorksKept == \A s \in settled' : Kept(<<s[1], OpWork>>) /\ Kept(<<s[1], CpNs[s[2]]>>)

LEMMA Pairs ==
  ASSUME TypeOK, NEW s \in settled
  PROVE  /\ s[1] \in Cluster /\ s[2] \in Mesh /\ s = <<s[1], s[2]>>
         /\ <<s[1], OpWork>> \in Spot /\ <<s[1], CpNs[s[2]]>> \in Spot
         /\ CpNs[s[2]] # OpWork
BY ConstantsAssumption DEF TypeOK, ControllerTypeOK, Spot, WorkName

LEMMA VisibleStep ==
  ASSUME SettledVisible, Undisturbed
  PROVE  SettledVisible'
BY DEF SettledVisible, Visible, Undisturbed

LEMMA StaysStep ==
  ASSUME SettledStays, Undisturbed, WorksKept
  PROVE  SettledStays'
<1> SUFFICES ASSUME NEW s \in settled' PROVE InPlace(work, s[1], s[2])'
  BY DEF SettledStays
<1>1. InPlace(work, s[1], s[2]) /\ mesh'[s[2]].op = mesh[s[2]].op
  BY DEF SettledStays, Undisturbed
<1>2. Kept(<<s[1], OpWork>>) /\ Kept(<<s[1], CpNs[s[2]]>>)
  BY DEF WorksKept
<1> QED
  BY <1>1, <1>2 DEF InPlace, Kept, SameWork, OperatorWork, NamespaceWork

\* Steps that the worker takes no part in.
LEMMA QuietSettled ==
  ASSUME SettledInv, OwnershipInv', StatusInv', CachesCurrent', Undisturbed, WorksKept,
         UNCHANGED <<pc, cur, my, clusters, todo, doomed>>,
         \A s \in settled' : ts'[s[2]] = ts[s[2]],
         pc # "idle" => ts'[cur] = ts[cur]
  PROVE  SettledInv'
<1>1. SettledVisible' /\ SettledStays'
  BY VisibleStep, StaysStep DEF SettledInv
<1>2. WorkerRespects'
  BY DEF SettledInv, WorkerRespects, Undisturbed, Continues, Respects, Older
<1>3. ListsSound'
  BY DEF SettledInv, ListsSound, Undisturbed, Spared
<1> QED
  BY <1>1, <1>2, <1>3 DEF SettledInv

\* The worker ends its reconcile.
LEMMA RestSettled ==
  ASSUME SettledInv, OwnershipInv', StatusInv', CachesCurrent', Undisturbed, WorksKept, Rest
  PROVE  SettledInv'
<1>1. SettledVisible' /\ SettledStays'
  BY VisibleStep, StaysStep DEF SettledInv
<1>2. WorkerRespects' /\ ListsSound'
  BY DEF Rest, WorkerRespects, ListsSound, Spared
<1> QED
  BY <1>1, <1>2 DEF SettledInv

\* The worker goes on with the same mesh, past the writes of the normal path.
LEMMA PastSettled ==
  ASSUME SettledInv, OwnershipInv', StatusInv', CachesCurrent', Undisturbed, WorksKept,
         pc # "idle", UNCHANGED <<cur, my>>,
         pc' \notin {"inventory", "listOwned"} \union Applying, ListsSound'
  PROVE  SettledInv'
<1>1. SettledVisible' /\ SettledStays'
  BY VisibleStep, StaysStep DEF SettledInv
<1>2. WorkerRespects'
  BY DEF SettledInv, WorkerRespects, Undisturbed, Continues, Respects
<1> QED
  BY <1>1, <1>2 DEF SettledInv

LEMMA GiveUpSettled ==
  ASSUME SettledInv, OwnershipInv', StatusInv', CachesCurrent', Undisturbed, WorksKept,
         pc # "idle", GiveUp
  PROVE  SettledInv'
<1>1. ListsSound'
  BY DEF GiveUp, ListsSound, Spared
<1> QED
  BY <1>1, PastSettled DEF GiveUp, Applying

LEMMA AbandonSettled ==
  ASSUME SettledInv, OwnershipInv', StatusInv', CachesCurrent', Undisturbed, WorksKept,
         pc # "idle", Abandon
  PROVE  SettledInv'
BY GiveUpSettled, RestSettled DEF Abandon, Requeue

-----------------------------------------------------------------------------
(* The steps of others *)

LEMMA SettledInit == Init => SettledInv
<1> SUFFICES ASSUME Init PROVE SettledInv
  OBVIOUS
<1>1. settled = {} /\ pc = "idle" /\ todo = {} /\ doomed = {}
  BY DEF Init, ControllerInit
<1>2. CachesCurrent
  BY DEF Init, HubInit, CachesCurrent
<1>3. SettledVisible /\ SettledStays /\ WorkerRespects /\ ListsSound
  BY <1>1 DEF SettledVisible, SettledStays, WorkerRespects, ListsSound
<1> QED
  BY <1>2, <1>3, OwnershipInit, StatusInit DEF SettledInv

LEMMA SettledDelivery == SettledInv /\ Delivery => SettledInv'
<1> SUFFICES ASSUME SettledInv, Delivery PROVE SettledInv'
  OBVIOUS
<1>1. TypeOK /\ OwnershipInv' /\ StatusInv'
  BY OwnershipDelivery, StatusDelivery DEF SettledInv, OwnershipInv
<1>2. UNCHANGED <<mesh, ts, member, cset, work, settled, pc, cur, my, clusters, todo, doomed>>
  BY DEF Delivery, SyncMesh, SyncMember, SyncSet, SyncWork, SyncLister, apiVars, workerVars
<1>3. /\ \A m \in Mesh : meshC'[m] \in {meshC[m], mesh[m]}
      /\ \A c \in Cluster : memberC'[c] \in {memberC[c], member[c]}
      /\ \A s \in Set : csetC'[s] \in {csetC[s], cset[s]}
  BY <1>1 DEF Delivery, SyncMesh, SyncMember, SyncSet, SyncWork, SyncLister, TypeOK, HubTypeOK
<1>4. CachesCurrent'
  BY <1>1, <1>2 DEF SettledInv, CachesCurrent, Delivery, SyncMesh, SyncMember, SyncSet, SyncWork,
                    SyncLister, eventVars, TypeOK, HubTypeOK
<1>5. \A s \in settled : SetOf[s[2]] \in Set
  BY <1>1, Pairs, ConstantsAssumption
<1>6. Undisturbed /\ WorksKept
  BY <1>1, <1>2, <1>3, <1>5, Pairs DEF Undisturbed, WorksKept, Kept
<1> QED
  BY <1>1, <1>2, <1>4, <1>6, QuietSettled

LEMMA SettledCrash == SettledInv /\ Crash => SettledInv'
<1> SUFFICES ASSUME SettledInv, Crash PROVE SettledInv'
  OBVIOUS
<1>1. OwnershipInv' /\ StatusInv'
  BY OwnershipCrash, StatusCrash DEF SettledInv
<1>2. CachesCurrent' /\ Undisturbed /\ WorksKept
  BY DEF Crash, apiVars, CachesCurrent, Undisturbed, WorksKept, Kept
<1> QED
  BY <1>1, <1>2, RestSettled DEF Crash

\* A work is written that no settled pair relies on, or only its feedback.
LEMMA PutWorkKeeps ==
  ASSUME TypeOK, NEW p \in Spot, NEW w, PutWork(p, w), settled' \subseteq settled,
         \/ \A s \in settled' : p \notin {<<s[1], OpWork>>, <<s[1], CpNs[s[2]]>>}
         \/ /\ work[p] # NoWork /\ w # NoWork /\ w.dying = work[p].dying
            /\ SameWork(w, work[p])
  PROVE  WorksKept
<1>1. /\ work'[p] = w
      /\ \A q \in Spot : q # p => work'[q] = work[q]
  BY DEF PutWork, TypeOK, HubTypeOK
<1>2. \A s \in settled' : <<s[1], OpWork>> \in Spot /\ <<s[1], CpNs[s[2]]>> \in Spot
  BY Pairs
<1> QED
  BY <1>1, <1>2 DEF WorksKept, Kept

\* The worker's mesh was created before the worker took it.
LEMMA CurrentExists ==
  ASSUME SettledInv, pc # "idle"
  PROVE  cur \in Mesh /\ mesh[cur].phase # "none"
BY DEF SettledInv, OwnershipInv, PathSound, Present, Leaving, TypeOK, ControllerTypeOK

LEMMA SettledEnvironment == SettledInv /\ Environment => SettledInv'
<1> SUFFICES ASSUME SettledInv, Environment PROVE SettledInv'
  OBVIOUS
<1> USE DEF workerVars, cacheVars
<1>1. TypeOK /\ OwnershipInv' /\ StatusInv'
  BY OwnershipEnvironment, StatusEnvironment DEF SettledInv, OwnershipInv
<1>2. settled' \subseteq settled /\ UNCHANGED <<pc, cur, my, clusters, todo, doomed, meshC, memberC, csetC>>
  BY DEF Environment, CreateMesh, DeleteMesh, WithdrawMesh, EditOperator, UserWrites,
         MoveCluster, ChangeSet, Tamper, AgentFinish, AgentReport
<1>3. \A s \in settled' : s[1] \in Cluster /\ s[2] \in Mesh /\ SetOf[s[2]] \in Set
  BY <1>1, <1>2, Pairs, ConstantsAssumption
<1>4. ASSUME UNCHANGED <<mesh, ts, member, cset, memberEv, csetEv>>, WorksKept PROVE SettledInv'
  <2>1. CachesCurrent' /\ Undisturbed
    BY <1>2, <1>4 DEF SettledInv, CachesCurrent, Undisturbed
  <2> QED
    BY <1>1, <1>2, <1>4, <2>1, QuietSettled
<1>5. ASSUME NEW m \in Mesh, NEW record, UserWrites(m, record),
             \A o \in Mesh : o # m => ts'[o] = ts[o],
             ts' = ts \/ mesh[m].phase = "none"
      PROVE  SettledInv'
  <2>1. \A s \in settled' : s[2] # m
    BY <1>5 DEF UserWrites
  <2>2. \A o \in Mesh : o # m => mesh'[o] = mesh[o]
    BY <1>1, <1>5 DEF UserWrites, WriteMeshes, TypeOK, HubTypeOK
  <2>3. CachesCurrent' /\ Undisturbed /\ WorksKept
    BY <1>2, <1>3, <1>5, <2>1, <2>2
    DEF UserWrites, SettledInv, CachesCurrent, Undisturbed, WorksKept, Kept
  <2>4. pc # "idle" => ts'[cur] = ts[cur]
    BY <1>5, CurrentExists
  <2> QED
    BY <1>1, <1>2, <1>3, <1>5, <2>1, <2>3, <2>4, QuietSettled
<1>6. ASSUME NEW m \in Mesh, CreateMesh(m) PROVE SettledInv'
  <2>1. PICK op \in Config : UserWrites(m, NewMesh(op))
    BY <1>6 DEF CreateMesh
  <2>2. \A o \in Mesh : o # m => ts'[o] = ts[o]
    BY <1>1, <1>6 DEF CreateMesh, TypeOK, HubTypeOK
  <2> QED
    BY <1>5, <1>6, <2>1, <2>2 DEF CreateMesh
<1>7. ASSUME NEW m \in Mesh, DeleteMesh(m) \/ WithdrawMesh(m) \/ EditOperator(m) PROVE SettledInv'
  <2>1. ts' = ts /\ \E record : UserWrites(m, record)
    BY <1>7 DEF DeleteMesh, WithdrawMesh, EditOperator
  <2> QED
    BY <1>5, <2>1
<1>8. ASSUME NEW c \in Cluster, MoveCluster(c) PROVE SettledInv'
  <2>1. \A d \in Cluster : d # c => member'[d] = member[d]
    BY <1>1, <1>8 DEF MoveCluster, TypeOK, HubTypeOK
  <2>2. CachesCurrent' /\ Undisturbed /\ WorksKept
    BY <1>2, <1>3, <1>8, <2>1
    DEF MoveCluster, SettledInv, CachesCurrent, Undisturbed, WorksKept, Kept
  <2> QED
    BY <1>1, <1>2, <1>8, <2>2, QuietSettled DEF MoveCluster
<1>9. ASSUME NEW v \in Set, ChangeSet(v) PROVE SettledInv'
  <2>1. \A s \in Set : s # v => cset'[s] = cset[s]
    BY <1>1, <1>9 DEF ChangeSet, TypeOK, HubTypeOK
  <2>2. CachesCurrent' /\ Undisturbed /\ WorksKept
    BY <1>2, <1>3, <1>9, <2>1
    DEF ChangeSet, SettledInv, CachesCurrent, Undisturbed, WorksKept, Kept
  <2> QED
    BY <1>1, <1>2, <1>9, <2>2, QuietSettled DEF ChangeSet
<1>10. ASSUME NEW c \in Cluster, Tamper(c) PROVE SettledInv'
  <2>1. \A s \in settled' : s[1] # c
    BY <1>10 DEF Tamper
  <2>2. PICK n \in WorkName : \E w : PutWork(<<c, n>>, w)
    BY <1>10 DEF Tamper, WorkName
  <2>3. WorksKept
    BY <1>1, <1>2, <2>1, <2>2, PutWorkKeeps DEF Spot
  <2> QED
    BY <1>4, <1>10, <2>3 DEF Tamper
<1>11. ASSUME NEW c \in Cluster, AgentReport(c) PROVE SettledInv'
  <2> DEFINE w == [work[<<c, OpWork>>] EXCEPT !.csv = work[<<c, OpWork>>].op]
  <2>1. <<c, OpWork>> \in Spot
    BY DEF Spot, WorkName
  <2>2. work[<<c, OpWork>>] \in WorkRecord
    BY <1>1, <1>11, <2>1 DEF AgentReport, TypeOK, HubTypeOK, Work
  <2>3. w \in WorkRecord /\ w.dying = work[<<c, OpWork>>].dying /\ SameWork(w, work[<<c, OpWork>>])
    BY <2>2 DEF WorkRecord, SameWork
  <2>4. WorksKept
    BY <1>1, <1>2, <1>11, <2>1, <2>3, PutWorkKeeps, ConstantsAssumption DEF AgentReport
  <2> QED
    BY <1>4, <1>11, <2>4 DEF AgentReport
<1>12. ASSUME NEW p \in Spot, AgentFinish(p) PROVE SettledInv'
  <2>1. \A s \in settled' : p \notin {<<s[1], OpWork>>, <<s[1], CpNs[s[2]]>>}
    BY <1>2, <1>12 DEF AgentFinish, SettledInv, SettledStays, InPlace
  <2>2. WorksKept
    BY <1>1, <1>2, <1>12, <2>1, PutWorkKeeps DEF AgentFinish
  <2> QED
    BY <1>4, <1>12, <2>2 DEF AgentFinish
<1> QED
  BY <1>6, <1>7, <1>8, <1>9, <1>10, <1>11, <1>12 DEF Environment

-----------------------------------------------------------------------------
(* The worker's steps *)

\* WorkApplier leaves every other work alone, and one that is as wanted too.
LEMMA AppliedKeeps ==
  ASSUME TypeOK, ~WorkLag, NEW p \in Spot, NEW want, Applied(p, want)
  PROVE  /\ \A q \in Spot : q # p => work'[q] = work[q]
         /\ (work[p] # NoWork /\ SameWork(work[p], want)) => work'[p] = work[p]
<1>1. Listed = work
  BY DEF Listed
<1>2. CASE KeepWork
  BY <1>2 DEF KeepWork
<1>3. ASSUME NEW w, PutWork(p, w) PROVE \A q \in Spot : q # p => work'[q] = work[q]
  BY <1>3 DEF PutWork, TypeOK, HubTypeOK
<1> QED
  BY <1>1, <1>2, <1>3 DEF Applied

\* What the works of a settled pair hold.
LEMMA SettledWorks ==
  ASSUME SettledInv, NEW s \in settled
  PROVE  /\ work[<<s[1], OpWork>>] # NoWork
         /\ SameWork(work[<<s[1], OpWork>>], OperatorWork(s[2], mesh[s[2]].op))
         /\ work[<<s[1], CpNs[s[2]]>>] # NoWork
         /\ SameWork(work[<<s[1], CpNs[s[2]]>>], NamespaceWork(s[2]))
BY DEF SettledInv, SettledStays, InPlace

LEMMA SettledApplyNamespace ==
  ASSUME ~WorkLag, SettledInv, NEW c \in Cluster, ApplyNamespace(c), OwnershipInv', StatusInv'
  PROVE  SettledInv'
<1> USE DEF cacheVars
<1>1. TypeOK /\ pc = "namespace" /\ cur \in Mesh /\ c \in clusters
  BY DEF SettledInv, OwnershipInv, ListsSound, ApplyNamespace, First, TypeOK, ControllerTypeOK
<1>2. CachesCurrent'
  BY DEF ApplyNamespace, SettledInv, CachesCurrent
<1>3. settled' \subseteq settled /\ Undisturbed
  BY DEF ApplyNamespace, Undisturbed
<1>4. CASE GiveUp /\ KeepWork
  <2>1. WorksKept
    BY <1>4 DEF KeepWork, WorksKept, Kept
  <2> QED
    BY <1>1, <1>2, <1>3, <1>4, <2>1, GiveUpSettled
<1>5. CASE Applied(<<c, CpNs[cur]>>, NamespaceWork(cur))
           /\ pc' = "operator"
           /\ settled' = settled \ Displaced(c, {o \in Mesh : CpNs[o] = CpNs[cur]})
           /\ UNCHANGED <<cur, my, clusters, todo, doomed>>
  <2>1. <<c, CpNs[cur]>> \in Spot
    BY <1>1 DEF Spot, WorkName
  <2>2. ASSUME NEW s \in settled'
        PROVE  work'[<<s[1], OpWork>>] = work[<<s[1], OpWork>>]
               /\ work'[<<s[1], CpNs[s[2]]>>] = work[<<s[1], CpNs[s[2]]>>]
    <3>1. s \in settled /\ s[2] \in Mesh /\ <<s[1], OpWork>> \in Spot
          /\ <<s[1], CpNs[s[2]]>> \in Spot
      BY <1>1, <1>3, <2>2, Pairs
    <3>2. <<s[1], OpWork>> # <<c, CpNs[cur]>>
      BY <1>1, ConstantsAssumption
    <3>3. CASE s[1] = c /\ CpNs[s[2]] = CpNs[cur]
      <4>1. CASE s[2] = cur
        BY <1>1, <1>5, <2>1, <3>1, <3>2, <3>3, <4>1, AppliedKeeps, SettledWorks
      <4>2. CASE s[2] # cur
        <5>1. Respects(s[1], s[2])
          BY <1>1, <3>1, <4>2 DEF SettledInv, WorkerRespects
        <5>2. Older(cur, s[2])
          BY <1>1, <3>3, <5>1 DEF Respects, Applying
        <5> QED
          BY <1>5, <2>2, <3>1, <3>3, <4>2, <5>2 DEF Displaced
      <4> QED
        BY <4>1, <4>2
    <3>4. CASE ~(s[1] = c /\ CpNs[s[2]] = CpNs[cur])
      <4>1. <<s[1], CpNs[s[2]]>> # <<c, CpNs[cur]>>
        BY <3>4
      <4> QED
        BY <1>1, <1>5, <2>1, <3>1, <3>2, <4>1, AppliedKeeps
    <3> QED
      BY <3>3, <3>4
  <2>3. WorksKept
    BY <2>2 DEF WorksKept, Kept
  <2>4. SettledVisible' /\ SettledStays'
    BY <1>3, <2>3, VisibleStep, StaysStep DEF SettledInv
  <2>5. mesh' = mesh /\ ts' = ts
    BY DEF ApplyNamespace
  <2>6. WorkerRespects'
    BY <1>1, <1>3, <1>5, <2>5
    DEF SettledInv, WorkerRespects, Continues, Respects, Applying, Older
  <2>7. ListsSound'
    BY <1>1, <1>3, <1>5 DEF SettledInv, ListsSound, Spared
  <2> QED
    BY <1>2, <2>4, <2>6, <2>7 DEF SettledInv
<1> QED
  BY <1>4, <1>5 DEF ApplyNamespace

LEMMA SettledApplyOperator ==
  ASSUME ~WorkLag, SettledInv, NEW c \in Cluster, ApplyOperator(c), OwnershipInv', StatusInv'
  PROVE  SettledInv'
<1> USE DEF cacheVars
<1>1. TypeOK /\ pc = "operator" /\ cur \in Mesh /\ c \in clusters
  BY DEF SettledInv, OwnershipInv, ListsSound, ApplyOperator, First, TypeOK, ControllerTypeOK
<1>2. CachesCurrent'
  BY DEF ApplyOperator, SettledInv, CachesCurrent
<1>3. UNCHANGED <<mesh, ts, member, memberC, cset, csetC, meshC>>
  BY DEF ApplyOperator
<1>4. CASE GiveUp /\ KeepWork /\ UNCHANGED settled
  <2>1. WorksKept /\ Undisturbed
    BY <1>3, <1>4 DEF KeepWork, WorksKept, Kept, Undisturbed
  <2> QED
    BY <1>1, <1>2, <1>4, <2>1, GiveUpSettled
<1> DEFINE remaining == settled \ Displaced(c, {o \in Mesh : mesh[o].op # my.op})
           added == IF UpToDate(c) /\ InPlace(work', c, cur) THEN {<<c, cur>>} ELSE {}
<1>5. CASE Applied(<<c, OpWork>>, OperatorWork(cur, my.op))
           /\ pc' \in {"listOwned", "namespace"}
           /\ settled' = remaining \union added
           /\ todo' \subseteq todo
           /\ UNCHANGED <<cur, my, clusters, doomed>>
  <2>1. <<c, OpWork>> \in Spot
    BY <1>1 DEF Spot, WorkName
  <2>2. ASSUME NEW s \in remaining
        PROVE  work'[<<s[1], OpWork>>] = work[<<s[1], OpWork>>]
               /\ work'[<<s[1], CpNs[s[2]]>>] = work[<<s[1], CpNs[s[2]]>>]
    <3>1. s \in settled /\ s[2] \in Mesh /\ <<s[1], OpWork>> \in Spot
          /\ <<s[1], CpNs[s[2]]>> \in Spot
      BY <1>1, <2>2, Pairs
    <3>2. <<s[1], CpNs[s[2]]>> # <<c, OpWork>>
      BY <1>1, <3>1, Pairs
    <3>3. CASE s[1] = c
      <4>1. SetOf[s[2]] = SetOf[cur] /\ mesh[s[2]].op = my.op
        <5>1. CASE s[2] = cur
          BY <1>1, <3>1, <5>1 DEF SettledInv, WorkerRespects, Continues
        <5>2. CASE s[2] # cur
          <6>1. Respects(s[1], s[2])
            BY <1>1, <3>1, <5>2 DEF SettledInv, WorkerRespects
          <6> QED
            BY <1>1, <2>2, <3>1, <3>3, <5>2, <6>1 DEF Respects, Applying, Displaced
        <5> QED
          BY <5>1, <5>2
      <4>2. SameWork(work[<<c, OpWork>>], OperatorWork(cur, my.op)) /\ work[<<c, OpWork>>] # NoWork
        BY <3>1, <3>3, <4>1, SettledWorks DEF SameWork, OperatorWork
      <4> QED
        BY <1>1, <1>5, <2>1, <3>1, <3>2, <3>3, <4>2, AppliedKeeps
    <3>4. CASE s[1] # c
      BY <1>1, <1>5, <2>1, <3>1, <3>2, <3>4, AppliedKeeps
    <3> QED
      BY <3>3, <3>4
  <2>3. ASSUME NEW s \in remaining
        PROVE  Visible(s[1], s[2])' /\ InPlace(work, s[1], s[2])'
    BY <1>3, <2>2, <2>3 DEF SettledInv, SettledVisible, SettledStays, Visible, InPlace
  <2>4. ASSUME UpToDate(c), InPlace(work', c, cur)
        PROVE  Visible(c, cur)' /\ InPlace(work, c, cur)' /\ my.op = mesh[cur].op
    <3>1. meshC[cur] = mesh[cur] /\ memberC[c] = member[c] /\ csetC[SetOf[cur]] = cset[SetOf[cur]]
      BY <1>1, <2>4, ConstantsAssumption
      DEF SettledInv, StatusInv, CacheCurrent, CachesCurrent, UpToDate
    <3>2. Visible(c, cur)'
      BY <1>3, <1>5, <2>4, <3>1 DEF Visible, UpToDate
    <3>3. InPlace(work, c, cur)'
      BY <1>3, <1>5, <2>4 DEF InPlace
    <3>4. work'[<<c, OpWork>>].op = my.op
      BY <1>1, <1>5, <2>1 DEF Applied, Listed, PutWork, KeepWork, Patched, SameWork, OperatorWork,
                              TypeOK, HubTypeOK
    <3> QED
      BY <2>4, <3>2, <3>3, <3>4 DEF InPlace, SameWork, OperatorWork
  <2>5. SettledVisible' /\ SettledStays'
    BY <1>5, <2>3, <2>4 DEF SettledVisible, SettledStays
  <2>6. WorkerRespects'
    <3>1. ASSUME NEW s \in remaining
          PROVE  (IF s[2] = cur THEN Continues(s[1]) ELSE Respects(s[1], s[2]))'
      <4>1. IF s[2] = cur THEN Continues(s[1]) ELSE Respects(s[1], s[2])
        BY <1>1, <3>1 DEF SettledInv, WorkerRespects
      <4> QED
        BY <1>1, <1>3, <1>5, <4>1 DEF Continues, Respects, Applying, Older
    <3>2. ASSUME NEW s \in added
          PROVE  s[2] = cur' /\ Continues(s[1])'
      BY <1>1, <1>3, <1>5, <2>4, <3>2 DEF Continues
    <3> QED
      BY <1>5, <3>1, <3>2 DEF WorkerRespects
  <2>7. ListsSound'
    BY <1>1, <1>5 DEF SettledInv, ListsSound, Spared
  <2> QED
    BY <1>2, <2>5, <2>6, <2>7 DEF SettledInv
<1> QED
  BY <1>4, <1>5 DEF ApplyOperator

\* A settled pair's works are never on a list of works to delete: the mesh's
\* own list spares the clusters it listed, the set's list those that any mesh
\* of the set needs.
LEMMA SettledCleanup ==
  ASSUME ~WorkLag, SettledInv, ListOwned \/ ListShared \/ DeleteListed, OwnershipInv', StatusInv'
  PROVE  SettledInv'
<1> USE DEF apiVars, cacheVars, hubVars
<1>1. TypeOK /\ pc # "idle" /\ cur \in Mesh
  BY DEF SettledInv, OwnershipInv, ListOwned, ListShared, DeleteListed, TypeOK, ControllerTypeOK
<1>2. CachesCurrent' /\ Undisturbed /\ settled' = settled
  BY DEF ListOwned, ListShared, DeleteListed, eventVars, SettledInv, CachesCurrent, Undisturbed
<1>3. Cached = work
  BY DEF Cached
<1>4. CASE ListOwned
  <2>1. ASSUME NEW s \in settled PROVE Spared(s[1], s[2])'
    <3>1. work[<<s[1], OpWork>>].owner = NoMesh /\ work[<<s[1], CpNs[s[2]]>>].owner = s[2]
      BY SettledWorks DEF SameWork, OperatorWork, NamespaceWork
    <3>2. s[2] = cur => s[1] \in clusters
      BY <1>1, <1>4 DEF ListOwned, SettledInv, WorkerRespects, Continues
    <3> QED
      BY <1>1, <1>3, <1>4, <3>1, <3>2, ConstantsAssumption DEF ListOwned, Spared
  <2>2. ListsSound'
    BY <1>2, <1>4, <2>1 DEF ListOwned, SettledInv, ListsSound
  <2>3. WorksKept
    BY <1>4 DEF ListOwned, WorksKept, Kept
  <2> QED
    BY <1>1, <1>2, <1>4, <2>2, <2>3, PastSettled DEF ListOwned, Applying
<1>5. CASE ListShared
  <2>1. WorksKept
    BY <1>5 DEF ListShared, WorksKept, Kept
  <2>2. CASE Abandon
    BY <1>1, <1>2, <2>1, <2>2, AbandonSettled
  <2>3. CASE ~Abandon
    <3>1. ASSUME NEW s \in settled PROVE Spared(s[1], s[2])'
      <4>1. /\ work[<<s[1], OpWork>>].set = SetOf[s[2]]
            /\ work[<<s[1], CpNs[s[2]]>>].set = SetOf[s[2]]
        BY SettledWorks DEF SameWork, OperatorWork, NamespaceWork
      <4>2. s[1] \in Cluster /\ s[2] \in Mesh
        BY <1>1, Pairs
      <4>3. SetOf[s[2]] = SetOf[cur] => s[1] \in Needed
        BY <4>2 DEF SettledInv, SettledVisible, Visible, Needed, Targeting, SetMembers
      <4> QED
        BY <1>3, <1>5, <2>3, <4>1, <4>3 DEF ListShared, Spared
    <3>2. ListsSound'
      BY <1>2, <1>5, <2>3, <3>1 DEF ListShared, AfterCleanup, SettledInv, ListsSound
    <3> QED
      BY <1>1, <1>2, <1>5, <2>1, <2>3, <3>2, PastSettled DEF ListShared, AfterCleanup, Applying
  <2> QED
    BY <2>2, <2>3
<1>6. CASE DeleteListed
  <2>1. PICK p \in doomed : Deleted(p) /\ doomed' = doomed \ {p}
    BY <1>6 DEF DeleteListed
  <2>2. p \in Spot
    BY <1>1, <2>1 DEF TypeOK, ControllerTypeOK
  <2>3. \A q \in Spot : q # p => work'[q] = work[q]
    BY <1>1, <2>1, <2>2 DEF Deleted, PutWork, KeepWork, TypeOK, HubTypeOK
  <2>4. WorksKept
    BY <1>1, <1>2, <2>1, <2>3, Pairs DEF SettledInv, ListsSound, Spared, WorksKept, Kept
  <2>5. ListsSound'
    BY <1>2, <1>6, <2>1 DEF DeleteListed, AfterCleanup, SettledInv, ListsSound, Spared
  <2> QED
    BY <1>1, <1>2, <1>6, <2>4, <2>5, PastSettled DEF DeleteListed, AfterCleanup, Applying
<1> QED
  BY <1>4, <1>5, <1>6

\* The mesh is accepted only if it does not conflict with a settled mesh of
\* its set, unless it is the older of the two.
LEMMA SettledValidate ==
  ASSUME SettledInv, Validate, OwnershipInv', StatusInv'
  PROVE  SettledInv'
<1> USE DEF hubVars, apiVars, cacheVars, eventVars
<1>1. TypeOK /\ pc = "validate" /\ cur \in Mesh
  BY DEF SettledInv, OwnershipInv, Validate, TypeOK, ControllerTypeOK
<1>2. CachesCurrent' /\ Undisturbed /\ WorksKept
  BY DEF Validate, SettledInv, CachesCurrent, Undisturbed, WorksKept, Kept
<1>3. ListsSound'
  BY DEF Validate, SettledInv, ListsSound, Spared
<1>4. CASE pc' = "status"
  BY <1>1, <1>2, <1>3, <1>4, PastSettled DEF Validate, Applying
<1>5. CASE Refusals = {} /\ pc' = "inventory"
  <2>1. ASSUME NEW s \in settled, s[2] # cur, SetOf[s[2]] = SetOf[cur], ~Older(cur, s[2])
        PROVE  CpNs[s[2]] # CpNs[cur] /\ mesh[s[2]].op = my.op
    <3>1. s[2] \in Targeting(SetOf[cur]) /\ meshC[s[2]].op = mesh[s[2]].op
      BY <1>1, <2>1, Pairs DEF SettledInv, SettledVisible, Visible, Targeting
    <3>2. Objection(s[2]) = {}
      BY <1>5, <2>1, <3>1 DEF Refusals, Objections
    <3> QED
      BY <3>1, <3>2 DEF Objection
  <2>2. WorkerRespects'
    BY <1>1, <1>5, <2>1 DEF Validate, SettledInv, WorkerRespects, Continues, Respects, Applying, Older
  <2>3. SettledVisible' /\ SettledStays'
    BY <1>2, VisibleStep, StaysStep DEF SettledInv
  <2> QED
    BY <1>2, <1>3, <2>2, <2>3 DEF SettledInv
<1> QED
  BY <1>4, <1>5 DEF Validate

\* The clusters it lists are those of its set, so none that a mesh of another
\* set has settled on and all that it has settled on itself.
LEMMA SettledInventory ==
  ASSUME SettledInv, Inventory, OwnershipInv', StatusInv'
  PROVE  SettledInv'
<1> USE DEF apiVars, cacheVars, eventVars
<1>1. TypeOK /\ pc = "inventory" /\ cur \in Mesh
  BY DEF SettledInv, OwnershipInv, Inventory, TypeOK, ControllerTypeOK
<1>2. CachesCurrent' /\ Undisturbed /\ WorksKept
  BY DEF Inventory, SettledInv, CachesCurrent, Undisturbed, WorksKept, Kept
<1>3. CASE GiveUp
  BY <1>1, <1>2, <1>3, GiveUpSettled
<1>4. CASE ~GiveUp
  <2>1. /\ clusters' = SetMembers(SetOf[cur]) /\ todo' = clusters'
        /\ pc' \in {"listOwned", "namespace"} /\ (pc' = "namespace" => clusters' # {})
        /\ UNCHANGED <<cur, my, doomed, mesh, ts, settled>>
    BY <1>4 DEF Inventory
  <2>2. ASSUME NEW s \in settled, s[2] = cur PROVE s[1] \in SetMembers(SetOf[cur])
    BY <1>1, <2>2, Pairs DEF SettledInv, SettledVisible, Visible, SetMembers
  <2>3. ASSUME NEW s \in settled, s[1] \in SetMembers(SetOf[cur]) PROVE SetOf[s[2]] = SetOf[cur]
    BY <1>1, <2>3, Pairs DEF SettledInv, SettledVisible, Visible, SetMembers
  <2>4. WorkerRespects'
    BY <1>1, <2>1, <2>2, <2>3
    DEF SettledInv, WorkerRespects, Continues, Respects, Applying, Older
  <2>5. ListsSound'
    BY <1>1, <2>1 DEF SettledInv, ListsSound, Spared
  <2>6. SettledVisible' /\ SettledStays'
    BY <1>2, VisibleStep, StaysStep DEF SettledInv
  <2> QED
    BY <1>2, <2>4, <2>5, <2>6 DEF SettledInv
<1> QED
  BY <1>3, <1>4

LEMMA SettledController == ~WorkLag /\ SettledInv /\ Controller => SettledInv'
<1> SUFFICES ASSUME ~WorkLag, SettledInv, Controller PROVE SettledInv'
  OBVIOUS
<1> USE DEF apiVars, cacheVars, eventVars, hubVars, workerVars
<1>1. TypeOK /\ OwnershipInv' /\ StatusInv'
  BY OwnershipController, StatusController DEF SettledInv, OwnershipInv
<1>2. pc # "idle" => cur \in Mesh
  BY <1>1 DEF TypeOK, ControllerTypeOK
<1>3. ASSUME NEW m \in Mesh, TakeNothing(m) PROVE SettledInv'
  <2>1. CachesCurrent' /\ Undisturbed /\ WorksKept
    BY <1>3 DEF TakeNothing, SettledInv, CachesCurrent, Undisturbed, WorksKept, Kept
  <2> QED
    BY <1>1, <1>3, <2>1, QuietSettled DEF TakeNothing
<1>4. ASSUME NEW m \in Mesh, TakeUnfinalized(m) PROVE SettledInv'
  <2>1. \A o \in Mesh : mesh'[o].phase = mesh[o].phase /\ mesh'[o].op = mesh[o].op
    <3>1. mesh \in [Mesh -> MeshRecord]
      BY <1>1 DEF TypeOK, HubTypeOK
    <3>2. mesh' = mesh \/ mesh' = [mesh EXCEPT ![m].fin = TRUE]
      BY <1>4 DEF TakeUnfinalized, WriteMeshes
    <3> QED
      BY <3>1, <3>2 DEF MeshRecord
  <2>2. \A s \in settled : s[2] \in Mesh
    BY <1>1, Pairs
  <2>3. CachesCurrent' /\ Undisturbed /\ WorksKept
    BY <1>4, <2>1, <2>2 DEF TakeUnfinalized, SettledInv, CachesCurrent, Undisturbed, WorksKept, Kept
  <2> QED
    BY <1>1, <1>4, <2>3, QuietSettled DEF TakeUnfinalized
<1>5. ASSUME NEW m \in Mesh, Take(m) PROVE SettledInv'
  <2>1. CachesCurrent' /\ Undisturbed /\ WorksKept
    BY <1>5 DEF Take, SettledInv, CachesCurrent, Undisturbed, WorksKept, Kept
  <2>2. SettledVisible' /\ SettledStays'
    BY <2>1, VisibleStep, StaysStep DEF SettledInv
  <2>3. WorkerRespects'
    BY <1>5 DEF Take, SettledInv, SettledVisible, Visible, WorkerRespects, Continues, Respects, Applying
  <2>4. ListsSound'
    BY <1>5 DEF Take, SettledInv, ListsSound, Spared
  <2> QED
    BY <1>1, <2>1, <2>2, <2>3, <2>4 DEF SettledInv
<1>6. ASSUME Fail PROVE SettledInv'
  <2>1. CachesCurrent' /\ Undisturbed /\ WorksKept
    BY <1>6 DEF Fail, SettledInv, CachesCurrent, Undisturbed, WorksKept, Kept
  <2> QED
    BY <1>1, <1>6, <2>1, RestSettled, AbandonSettled DEF Fail, Requeue
<1>7. CASE Validate
  BY <1>1, <1>7, SettledValidate
<1>8. CASE Inventory
  BY <1>1, <1>8, SettledInventory
<1>9. ASSUME NEW c \in Cluster, ApplyNamespace(c) \/ ApplyOperator(c) PROVE SettledInv'
  BY <1>1, <1>9, SettledApplyNamespace, SettledApplyOperator
<1>10. CASE ListOwned \/ ListShared \/ DeleteListed
  BY <1>1, <1>10, SettledCleanup
<1>11. CASE Determine \/ Trigger
  <2>1. CachesCurrent' /\ Undisturbed /\ WorksKept
    BY <1>11 DEF Determine, Trigger, SettledInv, CachesCurrent, Undisturbed, WorksKept, Kept
  <2>2. ListsSound' /\ pc # "idle" /\ UNCHANGED <<cur, my>> /\ pc' \in {"status", "release"}
    BY <1>11 DEF Determine, Trigger, GiveUp, SettledInv, ListsSound, Spared
  <2> QED
    BY <1>1, <2>1, <2>2, PastSettled DEF Applying
<1>12. CASE WriteStatus
  <2>1. \A o \in Mesh : mesh'[o].phase = mesh[o].phase /\ mesh'[o].op = mesh[o].op
    BY <1>1, <1>12 DEF WriteStatus, WriteMeshes, TypeOK, HubTypeOK, MeshRecord
  <2>2. \A s \in settled : s[2] \in Mesh
    BY <1>1, Pairs
  <2>3. Rest /\ UNCHANGED <<member, cset, work, memberC, csetC, meshC, memberEv, csetEv, settled>>
    BY <1>12 DEF WriteStatus, FinishReconcile, Requeue, Done
  <2>4. CachesCurrent' /\ Undisturbed /\ WorksKept
    BY <2>1, <2>2, <2>3 DEF SettledInv, CachesCurrent, Undisturbed, WorksKept, Kept
  <2> QED
    BY <1>1, <2>3, <2>4, RestSettled
<1>13. CASE Release
  <2>1. mesh[cur].phase \in Leaving
    BY <1>13 DEF Release, SettledInv, OwnershipInv, PathSound
  <2>2. \A s \in settled : s[2] \in Mesh /\ s[2] # cur
    BY <1>1, <2>1, Pairs DEF SettledInv, SettledVisible, Visible, Leaving
  <2>3. \A o \in Mesh : o # cur => mesh'[o] = mesh[o]
    BY <1>1, <1>13 DEF Release, WriteMeshes, TypeOK, HubTypeOK
  <2>4. Rest /\ UNCHANGED <<member, cset, work, memberC, csetC, meshC, memberEv, csetEv, settled>>
    BY <1>13 DEF Release, Requeue, Done
  <2>5. CachesCurrent' /\ Undisturbed /\ WorksKept
    BY <2>2, <2>3, <2>4 DEF SettledInv, CachesCurrent, Undisturbed, WorksKept, Kept
  <2> QED
    BY <1>1, <2>4, <2>5, RestSettled
<1> QED
  BY <1>3, <1>4, <1>5, <1>6, <1>7, <1>8, <1>9, <1>10, <1>11, <1>12, <1>13 DEF Controller

\* The works that a mesh has settled on a cluster stay as it wants them, as
\* long as the controller's ManifestWork caches do not trail the API server:
\* no reconcile of another mesh, whatever its caches of meshes, clusters and
\* sets show and wherever it fails, overwrites or deletes them, unless its
\* mesh is older and in conflict.
THEOREM SettledWorksStay == ASSUME ~WorkLag PROVE Spec => []SettledStays
<1>1. SettledInv /\ UNCHANGED vars => SettledInv'
  <2> SUFFICES ASSUME SettledInv, UNCHANGED vars PROVE SettledInv'
    OBVIOUS
  <2> USE DEF vars, hubVars, apiVars, cacheVars, eventVars, workerVars
  <2>1. OwnershipInv' /\ StatusInv'
    BY OwnershipStutter, StatusStutter DEF SettledInv
  <2>2. CachesCurrent' /\ Undisturbed /\ WorksKept
    BY DEF SettledInv, CachesCurrent, Undisturbed, WorksKept, Kept
  <2> QED
    BY <2>1, <2>2, QuietSettled
<1>2. SettledInv /\ [Next]_vars => SettledInv'
  BY <1>1, SettledController, SettledDelivery, SettledEnvironment, SettledCrash DEF Next
<1>3. SettledInv => SettledStays
  BY DEF SettledInv
<1> QED
  BY <1>2, <1>3, SettledInit, PTL DEF Spec

-----------------------------------------------------------------------------
(* Nothing is left behind.  A work that no live mesh of its set needs where *)
(* it is - a stray - is removed by whichever mesh of the set reconciles or  *)
(* is cleaned up next and gets past validation.  So while there are strays  *)
(* of a set, either a mesh of the set is on its way out and still has to    *)
(* list them, or there is a live one that has yet to be reconciled, and     *)
(* with it every older one that could have it refused.                      *)

\* The clusters that the caches show some live mesh of the set to need.
Wanted(s) == IF Targeting(s) = {} THEN {} ELSE SetMembers(s)

Stray(s) ==
  {p \in Spot : /\ work[p] # NoWork /\ ~work[p].dying /\ work[p].set = s
                /\ p[1] \notin Wanted(s)}

\* The worker has yet to list the strays of set s, lists all of them, or will
\* try again.
WillClean(s) ==
  \/ pc \in {"validate", "inventory", "listOwned", "deleteOwned", "listShared"} \union Applying
  \/ pc = "status" /\ verdict = "ReconcileError"
  \/ pc = "deleteShared" /\ Stray(s) \subseteq doomed

Attended(m) == m \in queue \/ m \in meshEv \/ (Busy(m) /\ WillClean(SetOf[m]))

CleansAsLive(m) ==
  /\ m \in Targeting(SetOf[m])
  /\ \A p \in Targeting(SetOf[m]) : (p = m \/ Older(p, m)) => Attended(p)

CleansAsDeleted(m) ==
  /\ meshC[m].phase = "deleting" /\ mesh[m].phase = "deleting"
  /\ IF Busy(m) /\ Deletion THEN WillClean(SetOf[m]) ELSE m \in queue

Responsible(s) == \E m \in Mesh : SetOf[m] = s /\ (CleansAsLive(m) \/ CleansAsDeleted(m))

Guarded == \A s \in Set : Stray(s) # {} => Responsible(s)

\* The worker writes only where the set's meshes are wanted, or somebody will
\* clean up after it.
Listing ==
  pc \in Applying => clusters \subseteq Wanted(SetOf[cur]) \/ Responsible(SetOf[cur])

\* A deleted mesh has its finalizer, and any has a configuration; the cache
\* shows no mesh alive that is gone, as none goes without its finalizer.
Sound(r) ==
  /\ r.phase = "deleting" => r.fin
  /\ r.phase \in {"live", "deleting"} => r.op \in Config

Registered ==
  /\ budget["withdraw"] = 0
  /\ \A m \in Mesh : /\ Sound(mesh[m]) /\ Sound(meshC[m])
                     /\ meshC[m].phase = "live" => mesh[m].phase \in {"live", "deleting"}
  /\ (pc # "idle" /\ ~Deletion) =>
       /\ Sound(my) /\ my.phase = "live"
       /\ meshC[cur].phase = "live" \/ (meshC[cur].phase = "deleting" /\ cur \in queue)

CleanInv == OwnershipInv /\ CalmInv /\ Registered /\ Guarded /\ Listing

\* No mesh is deleted before it has its finalizer.
NoWithdrawal == \A q \in Quotas : q["withdraw"] = 0

\* No configuration puts the operator into a mesh's control plane namespace.
NoClash == \A m \in Mesh, g \in Config : CpNs[m] # OpNs[g]

LEMMA OlderOrder ==
  ASSUME TypeOK, NEW a \in Mesh, NEW b \in Mesh
  PROVE  /\ ~(Older(a, b) /\ Older(b, a)) /\ ~Older(a, a)
         /\ a # b => Older(a, b) \/ Older(b, a)
         /\ \A c \in Mesh : (Older(a, b) /\ Older(b, c)) => Older(a, c)
<1>1. /\ \A m \in Mesh : ts[m] \in Nat /\ KeyRank[m] \in Nat
      /\ \A m, o \in Mesh : m # o => KeyRank[m] # KeyRank[o]
  BY ConstantsAssumption DEF TypeOK, HubTypeOK
<1> QED
  BY <1>1 DEF Older

-----------------------------------------------------------------------------
(* The records *)

LEMMA SpendWithdrawal ==
  ASSUME TypeOK, budget["withdraw"] = 0, NEW kind \in Disturbance, Spend(kind)
  PROVE  kind # "withdraw" /\ budget'["withdraw"] = 0
BY DEF Spend, TypeOK, HubTypeOK, Disturbance

LEMMA NewMeshSound == \A op \in Config : Sound(NewMesh(op))
BY DEF Sound, NewMesh

LEMMA GoneSound == Sound(Gone)
BY DEF Sound, Gone, Blank

LEMMA RegisteredInit == ASSUME NoWithdrawal PROVE Init => Registered
<1> SUFFICES ASSUME Init PROVE Registered
  OBVIOUS
<1>1. PICK op \in [Existing -> Config] :
        mesh = [m \in Mesh |-> IF m \in Existing
                  THEN [NewMesh(op[m]) EXCEPT !.fin = TRUE] ELSE Blank]
  BY DEF Init, HubInit
<1>2. \A m \in Mesh : Sound(mesh[m]) /\ mesh[m].phase \in {"live", "none"}
  BY <1>1 DEF Sound, NewMesh, Blank
<1>3. meshC = mesh /\ pc = "idle" /\ budget \in Quotas
  BY DEF Init, HubInit, ControllerInit
<1> QED
  BY <1>2, <1>3 DEF Registered, NoWithdrawal

LEMMA RegisteredEnvironment ==
  ASSUME TypeOK, StatusInv, PathInv, Registered, Environment
  PROVE  Registered'
<1> USE DEF cacheVars, workerVars
<1>1. UNCHANGED <<meshC, pc, cur, my, queue>>
  BY DEF Environment, CreateMesh, DeleteMesh, WithdrawMesh, EditOperator, UserWrites,
         MoveCluster, Tamper, AgentReport, ChangeSet, AgentFinish
<1>2. ASSUME NEW m \in Mesh, CreateMesh(m) \/ DeleteMesh(m) \/ WithdrawMesh(m) \/ EditOperator(m)
      PROVE  /\ budget'["withdraw"] = 0
             /\ \A o \in Mesh \ {m} : mesh'[o] = mesh[o]
             /\ Sound(mesh'[m])
             /\ mesh[m].phase # "none" => mesh'[m].phase \in {"live", "deleting"}
             /\ mesh[m].phase = "none" => mesh'[m].phase = "live"
  <2>1. mesh[m] \in MeshRecord /\ mesh \in [Mesh -> MeshRecord] /\ Sound(mesh[m])
    BY DEF TypeOK, HubTypeOK, Registered
  <2>2. CASE CreateMesh(m)
    <3>1. PICK op \in Config : UserWrites(m, NewMesh(op))
      BY <2>2 DEF CreateMesh
    <3>2. mesh' = [mesh EXCEPT ![m] = NewMesh(op)]
      BY <3>1 DEF UserWrites, WriteMeshes
    <3> QED
      BY <2>1, <2>2, <3>2, SpendWithdrawal, NewMeshSound
      DEF CreateMesh, Registered, Disturbance, NewMesh
  <2>3. CASE DeleteMesh(m)
    <3>1. mesh' = [mesh EXCEPT ![m] = [mesh[m] EXCEPT !.phase = "deleting", !.gen = @ + 1]]
      BY <2>3 DEF DeleteMesh, UserWrites, WriteMeshes
    <3>2. /\ mesh'[m].phase = "deleting" /\ mesh'[m].fin = mesh[m].fin /\ mesh'[m].op = mesh[m].op
          /\ \A o \in Mesh \ {m} : mesh'[o] = mesh[o]
      BY <2>1, <3>1 DEF MeshRecord
    <3> QED
      BY <2>1, <2>3, <3>2, SpendWithdrawal DEF DeleteMesh, Registered, Disturbance, Sound
  <2>4. CASE WithdrawMesh(m)
    BY <2>4, SpendWithdrawal DEF WithdrawMesh, Registered, Disturbance
  <2>5. CASE EditOperator(m)
    <3>1. PICK op \in Config : mesh' = [mesh EXCEPT ![m] = [mesh[m] EXCEPT !.op = op, !.gen = @ + 1]]
      BY <2>5 DEF EditOperator, UserWrites, WriteMeshes
    <3>2. /\ mesh'[m].phase = mesh[m].phase /\ mesh'[m].fin = mesh[m].fin /\ mesh'[m].op = op
          /\ \A o \in Mesh \ {m} : mesh'[o] = mesh[o]
      BY <2>1, <3>1 DEF MeshRecord
    <3> QED
      BY <2>1, <2>5, <3>2, SpendWithdrawal DEF EditOperator, Registered, Disturbance, Sound
  <2> QED
    BY <1>2, <2>2, <2>3, <2>4, <2>5
<1>3. ASSUME NEW m \in Mesh, CreateMesh(m) \/ DeleteMesh(m) \/ WithdrawMesh(m) \/ EditOperator(m)
      PROVE  Registered'
  BY <1>1, <1>2, <1>3 DEF Registered, StatusInv, Unborn, Deletion
<1>4. CASE UNCHANGED mesh /\ budget'["withdraw"] = 0
  BY <1>1, <1>4 DEF Registered, Deletion
<1>5. ASSUME NEW c \in Cluster, MoveCluster(c) \/ Tamper(c) \/ AgentReport(c)
      PROVE  UNCHANGED mesh /\ budget'["withdraw"] = 0
  BY <1>5, SpendWithdrawal DEF MoveCluster, Tamper, AgentReport, Registered, Disturbance
<1>6. ASSUME NEW s \in Set, ChangeSet(s) PROVE UNCHANGED mesh /\ budget'["withdraw"] = 0
  BY <1>6, SpendWithdrawal DEF ChangeSet, Registered, Disturbance
<1>7. ASSUME NEW p \in Spot, AgentFinish(p) PROVE UNCHANGED mesh /\ budget'["withdraw"] = 0
  BY <1>7 DEF AgentFinish, Registered
<1> QED
  BY <1>3, <1>4, <1>5, <1>6, <1>7 DEF Environment

\* Of the worker's steps only three write a mesh, and no other sets out on one.
LEMMA RegisteredController ==
  ASSUME TypeOK, StatusInv, PathInv, Registered, Controller
  PROVE  Registered'
<1> USE DEF apiVars, cacheVars, eventVars, hubVars, workerVars
<1>1. /\ UNCHANGED meshC /\ mesh \in [Mesh -> MeshRecord]
      /\ \A m \in Mesh : mesh[m] \in MeshRecord
  BY DEF Controller, TakeNothing, TakeUnfinalized, Take, Fail, Validate, Inventory,
         ApplyNamespace, ApplyOperator, ListOwned, ListShared, DeleteListed, Determine, WriteStatus,
         Trigger, Release, TypeOK, HubTypeOK
<1>2. ASSUME \A m \in Mesh : /\ mesh'[m].phase = mesh[m].phase /\ mesh'[m].op = mesh[m].op
                             /\ mesh[m].fin => mesh'[m].fin,
             budget'["withdraw"] = 0,
             pc' = "idle" \/ (pc # "idle" /\ UNCHANGED <<cur, my, queue>>)
      PROVE  Registered'
  BY <1>1, <1>2 DEF Registered, Sound, Deletion
<1>3. ASSUME NEW m \in Mesh, TakeNothing(m) PROVE Registered'
  BY <1>2, <1>3 DEF TakeNothing, Registered
<1>4. ASSUME NEW m \in Mesh, TakeUnfinalized(m) PROVE Registered'
  <2>1. pc' = "idle" /\ budget' = budget /\ mesh' \in {mesh, [mesh EXCEPT ![m].fin = TRUE]}
    BY <1>4 DEF TakeUnfinalized, WriteMeshes
  <2>2. \A o \in Mesh : /\ mesh'[o].phase = mesh[o].phase /\ mesh'[o].op = mesh[o].op
                        /\ mesh[o].fin => mesh'[o].fin
    BY <1>1, <2>1 DEF MeshRecord
  <2> QED
    BY <1>2, <2>1, <2>2 DEF Registered
<1>5. ASSUME NEW m \in Mesh, Take(m) PROVE Registered'
  <2>1. /\ UNCHANGED <<mesh, budget>> /\ cur' = m /\ my' = meshC[m]
        /\ meshC[m].phase \in {"live", "deleting"}
    BY <1>5 DEF Take
  <2> QED
    BY <1>1, <2>1 DEF Registered, Deletion
<1>6. CASE Fail
  <2>1. budget'["withdraw"] = 0
    BY <1>6, SpendWithdrawal DEF Fail, Registered, Disturbance
  <2> QED
    BY <1>2, <1>6, <2>1 DEF Fail, Abandon, Requeue, Rest, GiveUp
<1>7. CASE Validate \/ Inventory \/ ListOwned \/ ListShared \/ Determine
  BY <1>2, <1>7 DEF Validate, Inventory, ListOwned, ListShared, Determine, Abandon, Requeue, Rest,
     GiveUp, Registered
<1>8. ASSUME NEW c \in Cluster, ApplyNamespace(c) \/ ApplyOperator(c) PROVE Registered'
  BY <1>2, <1>8 DEF ApplyNamespace, ApplyOperator, GiveUp, Registered
<1>9. CASE DeleteListed
  BY <1>2, <1>9 DEF DeleteListed, Registered
<1>10. CASE WriteStatus
  <2>1. pc' = "idle" /\ budget' = budget
    BY <1>10 DEF WriteStatus, FinishReconcile, Requeue, Done, Rest
  <2>2. mesh' \in {mesh, [mesh EXCEPT ![cur].ready = NewReady]}
    BY <1>10 DEF WriteStatus, WriteMeshes
  <2>3. \A o \in Mesh : /\ mesh'[o].phase = mesh[o].phase /\ mesh'[o].op = mesh[o].op
                        /\ mesh[o].fin => mesh'[o].fin
    BY <1>1, <2>2 DEF MeshRecord
  <2> QED
    BY <1>2, <2>1, <2>3 DEF Registered
<1>11. CASE Trigger
  <2>1. budget'["withdraw"] = 0
    BY <1>11, SpendWithdrawal DEF Trigger, Registered, Disturbance
  <2> QED
    BY <1>2, <1>11, <2>1 DEF Trigger
<1>12. CASE Release
  <2>1. pc' = "idle" /\ budget' = budget /\ cur \in Mesh
    BY <1>12 DEF Release, Requeue, Done, Rest, TypeOK, ControllerTypeOK
  <2>2. meshC[cur].phase \in Leaving
    BY <1>12 DEF Release, PathInv, PathSound
  <2>3. \A o \in Mesh : mesh'[o] = mesh[o] \/ (o = cur /\ mesh'[o] = Gone)
    BY <1>1, <1>12 DEF Release, WriteMeshes
  <2> QED
    BY <1>1, <2>1, <2>2, <2>3, GoneSound DEF Registered, Leaving
<1> QED
  BY <1>3, <1>4, <1>5, <1>6, <1>7, <1>8, <1>9, <1>10, <1>11, <1>12 DEF Controller

LEMMA RegisteredDelivery ==
  ASSUME TypeOK, StatusInv, PathInv, Registered, Delivery
  PROVE  Registered'
<1>1. UNCHANGED <<mesh, budget, pc, cur, my>> /\ queue \subseteq queue'
  BY DEF Delivery, SyncMesh, SyncMember, SyncSet, SyncWork, SyncLister, apiVars, workerVars
<1>2. \A m \in Mesh : meshC'[m] = meshC[m] \/ (meshC'[m] = mesh[m] /\ m \in queue')
  BY DEF Delivery, SyncMesh, SyncMember, SyncSet, SyncWork, SyncLister, TypeOK, HubTypeOK
<1>3. (pc # "idle" /\ ~Deletion) => cur \in Mesh /\ mesh[cur].phase \in {"live", "deleting"}
  BY DEF PathInv, PathSound, Present, TypeOK, ControllerTypeOK
<1>4. \A m \in Mesh : /\ Sound(mesh'[m]) /\ Sound(meshC'[m])
                      /\ meshC'[m].phase = "live" => mesh'[m].phase \in {"live", "deleting"}
  BY <1>1, <1>2 DEF Registered
<1>5. (pc # "idle" /\ ~Deletion)
        => meshC'[cur].phase = "live" \/ (meshC'[cur].phase = "deleting" /\ cur \in queue')
  BY <1>1, <1>2, <1>3 DEF Registered
<1> QED
  BY <1>1, <1>4, <1>5 DEF Registered, Deletion

LEMMA RegisteredNext ==
  ASSUME StatusInv, PathInv, Registered, [Next]_vars
  PROVE  Registered'
<1>1. TypeOK
  BY DEF StatusInv
<1>2. CASE Crash
  <2>1. budget'["withdraw"] = 0
    BY <1>1, <1>2, SpendWithdrawal DEF Crash, Registered, Disturbance
  <2> QED
    BY <1>2, <2>1 DEF Crash, Rest, Registered, apiVars
<1>3. CASE UNCHANGED vars
  BY <1>3 DEF Registered, Deletion, vars, hubVars, apiVars, cacheVars, workerVars
<1> QED
  BY <1>1, <1>2, <1>3, RegisteredController, RegisteredDelivery, RegisteredEnvironment DEF Next

-----------------------------------------------------------------------------
(* Who is responsible stays so *)

LEMMA ResponsibleKeeps ==
  ASSUME NEW s \in Set, Responsible(s), UNCHANGED meshC,
         \A p, q \in Targeting(s) : Older(p, q)' => Older(p, q),
         \A m \in Targeting(s) : Attended(m) => Attended(m)',
         \A m \in Mesh : (SetOf[m] = s /\ CleansAsDeleted(m)) => CleansAsDeleted(m)'
  PROVE  Responsible(s)'
<1>1. Targeting(s)' = Targeting(s)
  BY DEF Targeting
<1>2. PICK m \in Mesh : SetOf[m] = s /\ (CleansAsLive(m) \/ CleansAsDeleted(m))
  BY DEF Responsible
<1>3. CleansAsLive(m) => CleansAsLive(m)'
  BY <1>1, <1>2 DEF CleansAsLive
<1> QED
  BY <1>2, <1>3 DEF Responsible

\* The worker goes on, or not, so that what it was to clean it still will, or
\* it will come back to the mesh.
LEMMA WorkerKeeps ==
  ASSUME NEW s \in Set, Responsible(s), UNCHANGED <<meshC, ts>>,
         queue \subseteq queue', meshEv \subseteq meshEv',
         \A m \in Mesh : (SetOf[m] = s /\ CleansAsDeleted(m)) => mesh'[m].phase = "deleting",
         \A m \in Mesh : (Busy(m) /\ SetOf[m] = s /\ WillClean(s)) =>
           (Busy(m)' /\ WillClean(s)' /\ my' = my) \/ (~Busy(m)' /\ m \in queue'),
         \A m \in Mesh : (Busy(m)' /\ Deletion') => Busy(m) /\ Deletion
  PROVE  Responsible(s)'
<1>1. \A m \in Targeting(s) : Attended(m) => Attended(m)'
  BY DEF Attended, Targeting
<1>2. ASSUME NEW m \in Mesh, SetOf[m] = s, CleansAsDeleted(m) PROVE CleansAsDeleted(m)'
  <2>1. CASE Busy(m) /\ Deletion
    BY <1>2, <2>1 DEF CleansAsDeleted, Deletion
  <2>2. CASE ~(Busy(m) /\ Deletion)
    BY <1>2, <2>2 DEF CleansAsDeleted
  <2> QED
    BY <2>1, <2>2
<1>3. \A p, q \in Targeting(s) : Older(p, q)' => Older(p, q)
  BY DEF Older
<1> QED
  BY <1>1, <1>2, <1>3, ResponsibleKeeps

\* No stray is added by what users, administrators and agents do.
LEMMA EnvironmentStray ==
  ASSUME TypeOK, Environment, NEW s \in Set
  PROVE  Stray(s)' \subseteq Stray(s) /\ Wanted(s)' = Wanted(s)
<1>1. UNCHANGED cacheVars
  BY DEF Environment, CreateMesh, DeleteMesh, WithdrawMesh, EditOperator, UserWrites,
         MoveCluster, Tamper, AgentReport, ChangeSet, AgentFinish
<1>2. Wanted(s)' = Wanted(s)
  BY <1>1 DEF Wanted, Targeting, SetMembers, cacheVars
<1>3. ASSUME NEW p \in Spot, work'[p] # NoWork, ~work'[p].dying
      PROVE  work[p] # NoWork /\ ~work[p].dying /\ work'[p].set = work[p].set
  <2> SUFFICES ASSUME work' # work
               PROVE  work[p] # NoWork /\ ~work[p].dying /\ work'[p].set = work[p].set
    BY <1>3
  <2>1. work \in [Spot -> Work]
    BY DEF TypeOK, HubTypeOK
  <2>2. \A q \in Spot : work[q] # NoWork => work[q] \in WorkRecord
    BY <2>1 DEF Work
  <2>3. ASSUME NEW q \in Spot, work[q] # NoWork, NEW w, work' = [work EXCEPT ![q] = w],
               w = NoWork \/ w.dying \/ (w.dying = work[q].dying /\ w.set = work[q].set)
        PROVE  work[p] # NoWork /\ ~work[p].dying /\ work'[p].set = work[p].set
    BY <1>3, <2>1, <2>3
  <2>4. \A c \in Cluster, n \in WorkName : <<c, n>> \in Spot /\ <<c, OpWork>> \in Spot
    BY Names DEF Spot
  <2>5. ASSUME NEW c \in Cluster, Tamper(c)
        PROVE  work[p] # NoWork /\ ~work[p].dying /\ work'[p].set = work[p].set
    <3>1. ASSUME NEW n \in WorkName, work[<<c, n>>] # NoWork,
                 PutWork(<<c, n>>, [work[<<c, n>>] EXCEPT !.dying = TRUE])
          PROVE  work[p] # NoWork /\ ~work[p].dying /\ work'[p].set = work[p].set
      <4>1. [work[<<c, n>>] EXCEPT !.dying = TRUE].dying
        BY <2>2, <2>4, <3>1 DEF WorkRecord
      <4> QED
        BY <2>3, <2>4, <3>1, <4>1 DEF PutWork
    <3>2. ASSUME NEW op, work[<<c, OpWork>>] # NoWork,
                 PutWork(<<c, OpWork>>, [work[<<c, OpWork>>] EXCEPT !.op = op])
          PROVE  work[p] # NoWork /\ ~work[p].dying /\ work'[p].set = work[p].set
      <4>1. <<c, OpWork>> \in Spot
        BY Names DEF Spot
      <4>2. /\ [work[<<c, OpWork>>] EXCEPT !.op = op].dying = work[<<c, OpWork>>].dying
            /\ [work[<<c, OpWork>>] EXCEPT !.op = op].set = work[<<c, OpWork>>].set
        BY <2>2, <3>2, <4>1 DEF WorkRecord
      <4> QED
        BY <2>3, <3>2, <4>1, <4>2 DEF PutWork
    <3> QED
      BY <2>5, <3>1, <3>2 DEF Tamper
  <2>6. ASSUME NEW c \in Cluster, AgentReport(c)
        PROVE  work[p] # NoWork /\ ~work[p].dying /\ work'[p].set = work[p].set
    <3>1. <<c, OpWork>> \in Spot /\ work[<<c, OpWork>>] # NoWork
      BY <2>6, Names DEF Spot, AgentReport
    <3> DEFINE w == [work[<<c, OpWork>>] EXCEPT !.csv = work[<<c, OpWork>>].op]
    <3>2. w.dying = work[<<c, OpWork>>].dying /\ w.set = work[<<c, OpWork>>].set
      BY <2>2, <3>1 DEF WorkRecord
    <3> QED
      BY <2>3, <2>6, <3>1, <3>2 DEF PutWork, AgentReport
  <2>7. ASSUME NEW q \in Spot, AgentFinish(q)
        PROVE  work[p] # NoWork /\ ~work[p].dying /\ work'[p].set = work[p].set
    BY <2>3, <2>7 DEF AgentFinish, PutWork
  <2> QED
    BY <2>5, <2>6, <2>7 DEF Environment, CreateMesh, DeleteMesh, WithdrawMesh, EditOperator,
         UserWrites, MoveCluster, ChangeSet
<1> QED
  BY <1>2, <1>3 DEF Stray

LEMMA EnvironmentClean ==
  ASSUME CleanInv, OwnershipInv', CalmInv', Registered', Environment
  PROVE  CleanInv'
<1> USE DEF cacheVars, workerVars
<1>1. /\ TypeOK /\ UNCHANGED <<meshC, queue, pc, cur, my, clusters, doomed, verdict>>
      /\ meshEv \subseteq meshEv'
  BY DEF Environment, CreateMesh, DeleteMesh, WithdrawMesh, EditOperator, UserWrites, WriteMeshes,
         MoveCluster, Tamper, AgentReport, ChangeSet, AgentFinish, CleanInv, OwnershipInv
<1>2. \A m \in Mesh : mesh[m].phase = "deleting" => mesh'[m].phase = "deleting"
  <2>1. mesh \in [Mesh -> MeshRecord] /\ \A m \in Mesh : mesh[m] \in MeshRecord
    BY <1>1 DEF TypeOK, HubTypeOK
  <2>2. ASSUME NEW m \in Mesh, EditOperator(m), mesh[m].phase = "deleting"
        PROVE  mesh'[m].phase = "deleting"
    <3>1. PICK op : mesh' = [mesh EXCEPT ![m] = [mesh[m] EXCEPT !.op = op, !.gen = @ + 1]]
      BY <2>2 DEF EditOperator, UserWrites, WriteMeshes
    <3> QED
      BY <2>1, <2>2, <3>1 DEF MeshRecord
  <2>3. \A m \in Mesh : CreateMesh(m) => mesh[m].phase = "none"
    BY DEF CreateMesh
  <2>4. ASSUME NEW o \in Mesh, mesh[o].phase = "deleting", NEW m \in Mesh,
               CreateMesh(m) \/ DeleteMesh(m) \/ WithdrawMesh(m) \/ EditOperator(m)
        PROVE  mesh'[o].phase = "deleting"
    BY <2>1, <2>2, <2>4 DEF CreateMesh, DeleteMesh, WithdrawMesh, EditOperator, UserWrites,
       WriteMeshes
  <2> QED
    BY <2>4 DEF Environment, MoveCluster, Tamper, AgentReport, ChangeSet, AgentFinish
<1>3. \A m \in Mesh : meshC[m].phase = "live" => ts'[m] = ts[m]
  BY <1>1 DEF Environment, CreateMesh, DeleteMesh, WithdrawMesh, EditOperator, UserWrites,
       MoveCluster, Tamper, AgentReport, ChangeSet, AgentFinish, CleanInv, Registered,
       TypeOK, HubTypeOK
<1>4. ASSUME NEW s \in Set, Responsible(s) PROVE Responsible(s)'
  <2>1. WillClean(s) => WillClean(s)'
    BY <1>1, EnvironmentStray DEF WillClean
  <2>2. \A m \in Mesh : Busy(m)' <=> Busy(m)
    BY <1>1 DEF Busy
  <2>3. \A m \in Targeting(s) : Attended(m) => Attended(m)'
    BY <1>1, <2>1, <2>2 DEF Attended, Targeting
  <2>4. \A m \in Mesh : (SetOf[m] = s /\ CleansAsDeleted(m)) => CleansAsDeleted(m)'
    BY <1>1, <1>2, <2>1, <2>2 DEF CleansAsDeleted, Deletion
  <2>5. \A p, q \in Targeting(s) : Older(p, q)' => Older(p, q)
    BY <1>3 DEF Targeting, Older
  <2> QED
    BY <1>1, <1>4, <2>3, <2>4, <2>5, ResponsibleKeeps
<1>5. Guarded'
  BY <1>1, <1>4, EnvironmentStray DEF CleanInv, Guarded
<1>6. Listing'
  <2>1. pc \in Applying => cur \in Mesh /\ SetOf[cur] \in Set
    BY <1>1, ConstantsAssumption DEF TypeOK, ControllerTypeOK, Applying
  <2> QED
    BY <1>1, <1>4, <2>1, EnvironmentStray DEF CleanInv, Listing
<1> QED
  BY <1>5, <1>6 DEF CleanInv

\* Events of clusters, sets and works: where a cluster is no longer wanted, all
\* live meshes of the set are told.
LEMMA ToldClean ==
  ASSUME CleanInv, OwnershipInv', CalmInv', Registered', UNCHANGED workerVars,
         UNCHANGED <<mesh, ts, work, meshC, meshEv>>, queue \subseteq queue',
         \A s \in Set : \/ Wanted(s) \subseteq Wanted(s)'
                        \/ Targeting(s) # {} /\ Targeting(s) \subseteq queue'
  PROVE  CleanInv'
<1> USE DEF workerVars
<1>1. ASSUME NEW s \in Set, Targeting(s) # {}, Targeting(s) \subseteq queue' PROVE Responsible(s)'
  <2>1. PICK m \in Mesh : m \in Targeting(s) /\ SetOf[m] = s
    BY <1>1 DEF Targeting
  <2>2. Targeting(s)' = Targeting(s)
    BY DEF Targeting
  <2>3. CleansAsLive(m)'
    BY <1>1, <2>1, <2>2 DEF CleansAsLive, Attended
  <2> QED
    BY <2>1, <2>3 DEF Responsible
<1>2. ASSUME NEW s \in Set, Wanted(s) \subseteq Wanted(s)', Responsible(s) PROVE Responsible(s)'
  <2>1. Stray(s)' \subseteq Stray(s)
    BY <1>2 DEF Stray
  <2>2. WillClean(s) => WillClean(s)'
    BY <2>1 DEF WillClean
  <2>3. \A m \in Mesh : Busy(m)' <=> Busy(m)
    BY DEF Busy
  <2>4. \A m \in Targeting(s) : Attended(m) => Attended(m)'
    BY <2>2, <2>3 DEF Attended, Targeting
  <2>5. \A m \in Mesh : (SetOf[m] = s /\ CleansAsDeleted(m)) => CleansAsDeleted(m)'
    BY <2>2, <2>3 DEF CleansAsDeleted, Deletion
  <2>6. \A p, q \in Targeting(s) : Older(p, q)' => Older(p, q)
    BY DEF Older
  <2> QED
    BY <1>2, <2>4, <2>5, <2>6, ResponsibleKeeps
<1>3. Guarded'
  <2> SUFFICES ASSUME NEW s \in Set, Stray(s)' # {} PROVE Responsible(s)'
    BY DEF Guarded
  <2>1. CASE Wanted(s) \subseteq Wanted(s)'
    <3>1. Stray(s) # {}
      BY <2>1 DEF Stray
    <3> QED
      BY <1>2, <2>1, <3>1 DEF CleanInv, Guarded
  <2> QED
    BY <1>1, <2>1
<1>4. Listing'
  <2>1. pc \in Applying => cur \in Mesh /\ SetOf[cur] \in Set
    BY ConstantsAssumption DEF CleanInv, OwnershipInv, TypeOK, ControllerTypeOK, Applying
  <2> QED
    BY <1>1, <1>2, <2>1 DEF CleanInv, Listing
<1> QED
  BY <1>3, <1>4 DEF CleanInv

\* A mesh that turns up in the cache is reconciled next, and so is one that the
\* cache now shows to be deleted, which cleans up after the others.
LEMMA SyncMeshClean ==
  ASSUME CleanInv, OwnershipInv', CalmInv', Registered', NEW x \in Mesh, SyncMesh(x)
  PROVE  CleanInv'
<1> USE DEF workerVars, apiVars
<1>1. /\ TypeOK /\ UNCHANGED <<mesh, ts, work, csetC, memberC>> /\ UNCHANGED workerVars
      /\ queue' = queue \union {x} /\ meshEv' = meshEv \ {x}
      /\ \A m \in Mesh : meshC'[m] = IF m = x THEN mesh[x] ELSE meshC[m]
  BY DEF SyncMesh, CleanInv, OwnershipInv, TypeOK, HubTypeOK
<1>2. \A m \in Mesh : (Busy(m)' <=> Busy(m)) /\ (Deletion' <=> Deletion)
  BY <1>1 DEF Busy, Deletion
<1>3. ASSUME NEW s \in Set, s # SetOf[x] \/ mesh[x].phase = "live" \/ meshC[x].phase # "live",
             Responsible(s)
      PROVE  Responsible(s)'
  <2>1. Wanted(s) \subseteq Wanted(s)'
    BY <1>1, <1>3 DEF Wanted, Targeting, SetMembers
  <2>2. Stray(s)' \subseteq Stray(s)
    BY <1>1, <2>1 DEF Stray
  <2>3. WillClean(s) => WillClean(s)'
    BY <1>1, <2>2 DEF WillClean
  <2>4. \A m \in Mesh : (SetOf[m] = s /\ Attended(m)) => Attended(m)'
    BY <1>1, <1>2, <2>3 DEF Attended
  <2>5. PICK m \in Mesh : SetOf[m] = s /\ (CleansAsLive(m) \/ CleansAsDeleted(m))
    BY <1>3 DEF Responsible
  <2>6. CASE CleansAsLive(m)
    <3>1. m \in Targeting(s)'
      BY <1>1, <1>3, <2>5, <2>6 DEF CleansAsLive, Targeting
    <3>2. ASSUME NEW p \in Targeting(s)', p = m \/ Older(p, m)' PROVE Attended(p)'
      <4>1. CASE p = x
        BY <1>1, <4>1 DEF Attended
      <4>2. CASE p # x
        <5>1. p \in Mesh /\ SetOf[p] = s /\ p \in Targeting(s)
          BY <1>1, <3>2, <4>2 DEF Targeting
        <5>2. p = m \/ Older(p, m)
          BY <1>1, <3>2 DEF Older
        <5> QED
          BY <2>4, <2>5, <2>6, <5>1, <5>2 DEF CleansAsLive
      <4> QED
        BY <4>1, <4>2
    <3>3. CleansAsLive(m)'
      BY <2>5, <3>1, <3>2 DEF CleansAsLive
    <3> QED
      BY <2>5, <3>3 DEF Responsible
  <2>7. CASE CleansAsDeleted(m)
    <3>1. CleansAsDeleted(m)'
      BY <1>1, <1>2, <2>3, <2>5, <2>7 DEF CleansAsDeleted
    <3> QED
      BY <2>5, <3>1 DEF Responsible
  <2> QED
    BY <2>5, <2>6, <2>7
<1>4. ASSUME meshC[x].phase = "live", mesh[x].phase # "live" PROVE Responsible(SetOf[x])'
  <2>1. mesh[x].phase = "deleting"
    BY <1>4 DEF CleanInv, Registered
  <2>2. ~(Busy(x) /\ Deletion)
    BY <1>4 DEF Busy, CleanInv, OwnershipInv, PathSound, Leaving
  <2>3. CleansAsDeleted(x)'
    BY <1>1, <1>2, <2>1, <2>2 DEF CleansAsDeleted
  <2> QED
    BY <2>3 DEF Responsible
<1>5. ASSUME NEW s \in Set, s # SetOf[x] \/ mesh[x].phase = "live" \/ meshC[x].phase # "live"
      PROVE  Wanted(s) \subseteq Wanted(s)' /\ Stray(s)' \subseteq Stray(s)
  <2>1. Wanted(s) \subseteq Wanted(s)'
    BY <1>1, <1>5 DEF Wanted, Targeting, SetMembers
  <2> QED
    BY <1>1, <2>1 DEF Stray
<1>6. Guarded'
  BY <1>3, <1>4, <1>5 DEF Guarded, CleanInv
<1>7. Listing'
  <2>1. pc \in Applying => cur \in Mesh /\ SetOf[cur] \in Set
    BY <1>1, ConstantsAssumption DEF TypeOK, ControllerTypeOK, Applying
  <2> QED
    BY <1>1, <1>3, <1>4, <1>5, <2>1 DEF CleanInv, Listing
<1> QED
  BY <1>6, <1>7 DEF CleanInv

LEMMA DeliveryClean ==
  ASSUME CleanInv, OwnershipInv', CalmInv', Registered', Delivery
  PROVE  CleanInv'
<1> USE DEF apiVars
<1>1. TypeOK
  BY DEF CleanInv, OwnershipInv
<1>2. ASSUME NEW c \in Cluster, SyncMember(c) PROVE CleanInv'
  <2>1. /\ UNCHANGED <<mesh, ts, work, meshC, meshEv, csetC>> /\ UNCHANGED workerVars
        /\ queue' = queue \union Targeting(memberC[c]) \union Targeting(member[c])
        /\ \A d \in Cluster : memberC'[d] = IF d = c THEN member[c] ELSE memberC[d]
    BY <1>1, <1>2 DEF SyncMember, TypeOK, HubTypeOK
  <2>2. ASSUME NEW s \in Set
        PROVE  \/ Wanted(s) \subseteq Wanted(s)'
               \/ Targeting(s) # {} /\ Targeting(s) \subseteq queue'
    <3>1. Targeting(s)' = Targeting(s)
      BY <2>1 DEF Targeting
    <3>2. memberC[c] # s => SetMembers(s) \subseteq SetMembers(s)'
      BY <2>1 DEF SetMembers
    <3> QED
      BY <2>1, <3>1, <3>2 DEF Wanted
  <2> QED
    BY <2>1, <2>2, ToldClean
<1>3. ASSUME NEW x \in Set, SyncSet(x) PROVE CleanInv'
  <2>1. /\ UNCHANGED <<mesh, ts, work, meshC, meshEv, memberC>> /\ UNCHANGED workerVars
        /\ queue' = queue \union Targeting(x)
        /\ \A s \in Set : s # x => csetC'[s] = csetC[s]
    BY <1>1, <1>3 DEF SyncSet, TypeOK, HubTypeOK
  <2>2. ASSUME NEW s \in Set
        PROVE  \/ Wanted(s) \subseteq Wanted(s)'
               \/ Targeting(s) # {} /\ Targeting(s) \subseteq queue'
    BY <2>1 DEF Wanted, Targeting, SetMembers
  <2> QED
    BY <2>1, <2>2, ToldClean
<1>4. ASSUME NEW c \in Cluster, SyncWork(c) \/ SyncLister(c) PROVE CleanInv'
  <2>1. /\ UNCHANGED <<mesh, ts, work, meshC, meshEv, memberC, csetC>> /\ UNCHANGED workerVars
        /\ queue \subseteq queue'
    BY <1>4 DEF SyncWork, SyncLister, eventVars
  <2>2. \A s \in Set : Wanted(s)' = Wanted(s)
    BY <2>1 DEF Wanted, Targeting, SetMembers
  <2> QED
    BY <2>1, <2>2, ToldClean
<1> QED
  BY <1>2, <1>3, <1>4, SyncMeshClean DEF Delivery

\* After a restart all meshes are reconciled; if there are works of a set there
\* is a mesh of it.
LEMMA CrashClean ==
  ASSUME CleanInv, OwnershipInv', CalmInv', Registered', Crash
  PROVE  CleanInv'
<1>1. /\ pc' = "idle" /\ mesh' = mesh /\ meshC' = mesh /\ work' = work
      /\ queue' = {m \in Mesh : mesh[m].phase \in {"live", "deleting"}}
  BY DEF Crash, Rest, apiVars
<1>2. ASSUME NEW s \in Set, Stray(s)' # {} PROVE Responsible(s)'
  <2>1. PICK m \in Mesh : SetOf[m] = s /\ mesh[m].phase \in {"live", "deleting"}
    <3>1. PICK p \in Spot : work[p] # NoWork /\ ~work[p].dying /\ work[p].set = s
      BY <1>1, <1>2 DEF Stray
    <3>2. CASE p \in Stray(s)
      <4>1. Responsible(s)
        BY <3>2 DEF CleanInv, Guarded
      <4> QED
        BY <4>1 DEF Responsible, CleansAsLive, CleansAsDeleted, Targeting, CleanInv, Registered
    <3>3. CASE p \notin Stray(s)
      BY <3>1, <3>3 DEF Stray, Wanted, Targeting, CleanInv, Registered
    <3> QED
      BY <3>2, <3>3
  <2>2. CASE mesh[m].phase = "deleting"
    BY <1>1, <2>1, <2>2 DEF Responsible, CleansAsDeleted, Busy
  <2>3. CASE mesh[m].phase = "live"
    BY <1>1, <2>1, <2>3 DEF Responsible, CleansAsLive, Targeting, Attended
  <2> QED
    BY <2>1, <2>2, <2>3
<1> QED
  BY <1>1, <1>2 DEF CleanInv, Guarded, Listing, Applying

LEMMA CleanInit == ASSUME NoWithdrawal PROVE Init => CleanInv
<1> SUFFICES ASSUME Init PROVE CleanInv
  OBVIOUS
<1>1. Guarded /\ Listing
  BY DEF Init, HubInit, ControllerInit, Guarded, Stray, Listing, Applying
<1> QED
  BY <1>1, OwnershipInit, CalmInit, RegisteredInit DEF CleanInv

-----------------------------------------------------------------------------
(* The worker's steps *)

LEMMA SameStray ==
  ASSUME UNCHANGED <<work, cacheVars>>
  PROVE  \A s \in Set : Stray(s)' = Stray(s) /\ Wanted(s)' = Wanted(s)
<1>1. \A s \in Set : Wanted(s)' = Wanted(s)
  BY DEF Wanted, Targeting, SetMembers, cacheVars
<1> QED
  BY <1>1 DEF Stray

\* A step on mesh x that keeps what the worker was to clean up, goes back to
\* the mesh, or leaves no strays of its set.
LEMMA WorkerClean ==
  ASSUME CleanInv, OwnershipInv', CalmInv', Registered', NEW x \in Mesh, cur = x, pc # "idle",
         UNCHANGED <<cacheVars, ts>>, queue \subseteq queue', meshEv \subseteq meshEv',
         \A m \in Mesh : CleansAsDeleted(m) => mesh'[m].phase = "deleting",
         \A s \in Set : Stray(s)' # {} => Stray(s) # {} \/ Responsible(s),
         pc' = "idle" \/ (pc' # "idle" /\ cur' = x /\ my' = my),
         WillClean(SetOf[x]) => \/ WillClean(SetOf[x])' /\ pc' # "idle"
                                \/ pc' = "idle" /\ x \in queue'
                                \/ Stray(SetOf[x])' = {},
         pc' \in Applying => clusters' \subseteq Wanted(SetOf[x]) \/ Responsible(SetOf[x])
  PROVE  CleanInv'
<1>1. ASSUME NEW s \in Set, Responsible(s), Stray(s)' # {} \/ pc' \in Applying
      PROVE  Responsible(s)'
  <2>1. ASSUME NEW m \in Mesh, Busy(m), SetOf[m] = s, WillClean(s)
        PROVE  (Busy(m)' /\ WillClean(s)' /\ my' = my) \/ (~Busy(m)' /\ m \in queue')
    <3>1. m = x
      BY <2>1 DEF Busy
    <3>2. pc' \in Applying => WillClean(s)' /\ pc' # "idle"
      BY DEF WillClean, Applying
    <3>3. (WillClean(s)' /\ pc' # "idle") \/ (pc' = "idle" /\ m \in queue')
      BY <1>1, <2>1, <3>1, <3>2
    <3> QED
      BY <3>1, <3>3 DEF Busy
  <2>2. \A m \in Mesh : (Busy(m)' /\ Deletion') => Busy(m) /\ Deletion
    BY DEF Busy, Deletion
  <2>3. UNCHANGED <<meshC, ts>>
    BY DEF cacheVars
  <2> QED
    BY <1>1, <2>1, <2>2, <2>3, WorkerKeeps
<1>2. Guarded'
  BY <1>1 DEF Guarded, CleanInv
<1>3. Listing'
  <2> SUFFICES ASSUME pc' \in Applying
               PROVE  clusters' \subseteq Wanted(SetOf[x])' \/ Responsible(SetOf[x])'
    BY DEF Listing, Applying
  <2>1. SetOf[x] \in Set
    BY Names
  <2>2. Wanted(SetOf[x])' = Wanted(SetOf[x])
    BY DEF Wanted, Targeting, SetMembers, cacheVars
  <2> QED
    BY <1>1, <2>1, <2>2
<1> QED
  BY <1>2, <1>3 DEF CleanInv

LEMMA AtWorkMesh ==
  ASSUME TypeOK, pc # "idle"
  PROVE  cur \in Mesh /\ SetOf[cur] \in Set
BY Names DEF TypeOK, ControllerTypeOK

\* Steps that touch no work.
LEMMA IdleWorksClean ==
  ASSUME CleanInv, OwnershipInv', CalmInv', Registered', NEW x \in Mesh, cur = x, pc # "idle",
         UNCHANGED <<work, cacheVars, ts>>, queue \subseteq queue', meshEv \subseteq meshEv',
         \A m \in Mesh : CleansAsDeleted(m) => mesh'[m].phase = "deleting",
         pc' = "idle" \/ (pc' # "idle" /\ cur' = x /\ my' = my),
         WillClean(SetOf[x]) => \/ WillClean(SetOf[x])' /\ pc' # "idle"
                                \/ pc' = "idle" /\ x \in queue'
                                \/ Stray(SetOf[x])' = {},
         pc' \notin Applying
  PROVE  CleanInv'
<1>1. \A s \in Set : Stray(s)' # {} => Stray(s) # {} \/ Responsible(s)
  BY SameStray
<1> QED
  BY <1>1, WorkerClean

LEMMA DeletingStays ==
  ASSUME mesh' = mesh
  PROVE  \A m \in Mesh : CleansAsDeleted(m) => mesh'[m].phase = "deleting"
BY DEF CleansAsDeleted

\* Errors.
LEMMA AbandonClean ==
  ASSUME CleanInv, OwnershipInv', CalmInv', Registered', NEW x \in Mesh, cur = x, pc # "idle",
         UNCHANGED <<work, mesh, cacheVars, ts, meshEv>>, Abandon \/ GiveUp \/ Requeue
  PROVE  CleanInv'
<1>1. \/ pc' = "status" /\ verdict' = "ReconcileError" /\ cur' = x /\ my' = my /\ queue' = queue
      \/ pc' = "idle" /\ queue' = queue \union {x}
  BY DEF Abandon, GiveUp, Requeue, Rest
<1>2. pc' \notin Applying /\ queue \subseteq queue'
  BY <1>1 DEF Applying
<1>3. pc' = "status" => WillClean(SetOf[x])'
  BY <1>1 DEF WillClean
<1> QED
  BY <1>1, <1>2, <1>3, IdleWorksClean, DeletingStays

\* The worker takes up a mesh: from the queue it passes into the worker's
\* hands, or its own update of it is to come.
LEMMA TakeClean ==
  ASSUME CleanInv, OwnershipInv', CalmInv', Registered', NEW x \in Mesh,
         TakeNothing(x) \/ TakeUnfinalized(x) \/ Take(x)
  PROVE  CleanInv'
<1> USE DEF workerVars, cacheVars, apiVars, eventVars
<1>1. /\ UNCHANGED <<work, cacheVars, ts>> /\ meshEv \subseteq meshEv'
      /\ queue \ {x} \subseteq queue' /\ pc = "idle" /\ pc' \notin Applying
  BY DEF TakeNothing, TakeUnfinalized, Take, WriteMeshes, Applying
<1>2. \A m \in Mesh : mesh'[m].phase = mesh[m].phase
  <2>1. mesh \in [Mesh -> MeshRecord] /\ \A m \in Mesh : mesh[m] \in MeshRecord
    BY DEF CleanInv, OwnershipInv, TypeOK, HubTypeOK
  <2>2. mesh' = mesh \/ mesh' = [mesh EXCEPT ![x].fin = TRUE]
    BY DEF TakeNothing, TakeUnfinalized, Take, WriteMeshes
  <2> QED
    BY <2>1, <2>2 DEF MeshRecord
<1>3. ASSUME NEW m \in Mesh, m # x
      PROVE  /\ Attended(m) => Attended(m)'
             /\ CleansAsDeleted(m) => CleansAsDeleted(m)'
  <2>1. ~Busy(m) /\ ~Busy(m)'
    BY <1>1, <1>3 DEF Busy, TakeNothing, TakeUnfinalized, Take
  <2> QED
    BY <1>1, <1>2, <1>3, <2>1 DEF Attended, CleansAsDeleted
<1>4. /\ x \in Targeting(SetOf[x]) /\ Attended(x) => Attended(x)'
      /\ CleansAsDeleted(x) => CleansAsDeleted(x)'
  <2>1. CASE TakeNothing(x)
    BY <2>1 DEF TakeNothing, Targeting, CleansAsDeleted, CleanInv, Registered, Sound
  <2>2. CASE TakeUnfinalized(x)
    BY <2>2 DEF TakeUnfinalized, WriteMeshes, Attended, CleansAsDeleted
  <2>3. CASE Take(x)
    <3>1. Busy(x)' /\ WillClean(SetOf[x])'
      BY <2>3 DEF Take, Busy, WillClean
    <3> QED
      BY <1>1, <1>2, <3>1, <2>3 DEF Take, Attended, CleansAsDeleted, Deletion
  <2> QED
    BY <2>1, <2>2, <2>3
<1>5. ASSUME NEW s \in Set, Responsible(s) PROVE Responsible(s)'
  <2>1. \A p, q \in Targeting(s) : Older(p, q)' => Older(p, q)
    BY <1>1 DEF Older
  <2>2. \A m \in Targeting(s) : Attended(m) => Attended(m)'
    BY <1>3, <1>4 DEF Targeting
  <2>3. \A m \in Mesh : (SetOf[m] = s /\ CleansAsDeleted(m)) => CleansAsDeleted(m)'
    BY <1>3, <1>4
  <2> QED
    BY <1>1, <1>5, <2>1, <2>2, <2>3, ResponsibleKeeps
<1>6. Guarded'
  BY <1>1, <1>5, SameStray DEF Guarded, CleanInv
<1>7. Listing'
  BY <1>1 DEF Listing
<1> QED
  BY <1>6, <1>7 DEF CleanInv

\* Validation lets the mesh pass, or an older one that has it refused has yet
\* to be reconciled as well: the oldest of them will not be refused.
LEMMA ValidateClean ==
  ASSUME NoClash, CleanInv, OwnershipInv', CalmInv', Registered', Validate
  PROVE  CleanInv'
<1> USE DEF hubVars, apiVars, cacheVars, eventVars
<1>1. TypeOK /\ pc # "idle"
  BY DEF Validate, CleanInv, OwnershipInv
<1>2. PICK x \in Mesh : cur = x
  BY <1>1, AtWorkMesh
<1>3. /\ UNCHANGED <<work, mesh, ts, queue, meshEv, my>> /\ UNCHANGED cacheVars
      /\ cur' = x /\ pc' \in {"inventory", "status"}
  BY <1>2 DEF Validate
<1>4. CASE pc' = "inventory"
  BY <1>1, <1>2, <1>3, <1>4, IdleWorksClean, DeletingStays DEF WillClean, Applying
<1>5. CASE pc' = "status"
  <2>1. ~Deletion
    BY <1>1, <1>2 DEF CleanInv, OwnershipInv, PathSound, Cleaning, Validate
  <2>2. CpNs[x] # OpNs[my.op]
    BY <1>1, <1>2, <2>1 DEF NoClash, CleanInv, Registered, Sound
  <2>3. Refusals # {} /\ Refusals = Objections
    BY <1>2, <1>5, <2>2 DEF Validate, Refusals
  <2>4. PICK o \in Targeting(SetOf[x]) : o # x /\ ~Older(x, o)
    BY <1>2, <2>3 DEF Objections
  <2>5. o \in Mesh /\ Older(o, x)
    BY <1>1, <2>4, OlderOrder DEF Targeting
  <2>6. ASSUME NEW m \in Mesh, m # x
        PROVE  /\ Attended(m) => Attended(m)'
               /\ CleansAsDeleted(m) => CleansAsDeleted(m)'
    <3>1. ~Busy(m) /\ ~Busy(m)'
      BY <1>2, <1>3, <2>6 DEF Busy
    <3> QED
      BY <1>3, <3>1 DEF Attended, CleansAsDeleted
  <2>7. CleansAsDeleted(x) => CleansAsDeleted(x)'
    BY <1>3, <2>1 DEF CleansAsDeleted, Deletion
  <2>8. \A p, q \in Mesh : Older(p, q)' <=> Older(p, q)
    BY <1>3 DEF Older
  <2>9. ASSUME NEW s \in Set, Responsible(s) PROVE Responsible(s)'
    <3>1. Targeting(s)' = Targeting(s) /\ Targeting(s) \subseteq Mesh
      BY <1>3 DEF Targeting
    <3>2. PICK m \in Mesh : SetOf[m] = s /\ (CleansAsLive(m) \/ CleansAsDeleted(m))
      BY <2>9 DEF Responsible
    <3>3. CASE CleansAsDeleted(m)
      <4>1. CleansAsDeleted(m)'
        BY <2>6, <2>7, <3>3
      <4> QED
        BY <3>2, <4>1 DEF Responsible
    <3>4. CASE CleansAsLive(m) /\ (x \in Targeting(s) => x # m /\ ~Older(x, m))
      <4>1. m \in Targeting(s) /\ m # x
        BY <3>2, <3>4 DEF CleansAsLive
      <4>2. \A p \in Targeting(s) : (p = m \/ Older(p, m)) => p # x /\ Attended(p)
        BY <3>2, <3>4, <4>1 DEF CleansAsLive
      <4>3. CleansAsLive(m)'
        BY <2>6, <2>8, <3>1, <3>2, <4>1, <4>2 DEF CleansAsLive
      <4> QED
        BY <3>2, <4>3 DEF Responsible
    <3>5. CASE CleansAsLive(m) /\ x \in Targeting(s) /\ (x = m \/ Older(x, m))
      <4>1. SetOf[x] = s
        BY <3>5 DEF Targeting
      <4>2. ASSUME NEW p \in Targeting(s), p = o \/ Older(p, o) PROVE p # x /\ Attended(p)
        <5>1. p \in Mesh /\ Older(p, x)
          BY <1>1, <2>5, <3>1, <4>2, OlderOrder
        <5>2. p # x /\ Older(p, m)
          BY <1>1, <3>2, <3>5, <5>1, OlderOrder
        <5> QED
          BY <3>2, <3>5, <5>2 DEF CleansAsLive
      <4>3. SetOf[o] = s /\ o \in Targeting(s)'
        BY <2>4, <3>1, <4>1 DEF Targeting
      <4>4. CleansAsLive(o)'
        BY <2>5, <2>6, <2>8, <3>1, <4>2, <4>3 DEF CleansAsLive
      <4> QED
        BY <2>5, <4>3, <4>4 DEF Responsible
    <3> QED
      BY <3>2, <3>3, <3>4, <3>5
  <2>10. Guarded'
    BY <1>3, <2>9, SameStray DEF Guarded, CleanInv
  <2>11. Listing'
    BY <1>5 DEF Listing, Applying
  <2> QED
    BY <2>10, <2>11 DEF CleanInv
<1> QED
  BY <1>3, <1>4, <1>5

\* A mesh that is applied for after it was deleted is queued for its clean-up.
LEMMA InventoryClean ==
  ASSUME CleanInv, OwnershipInv', CalmInv', Registered', Inventory
  PROVE  CleanInv'
<1> USE DEF apiVars, eventVars
<1>1. TypeOK /\ pc # "idle"
  BY DEF Inventory, CleanInv, OwnershipInv
<1>2. PICK x \in Mesh : cur = x
  BY <1>1, AtWorkMesh
<1>3. CASE csetC[SetOf[cur]] = "other"
  BY <1>1, <1>2, <1>3, AbandonClean DEF Inventory
<1>4. CASE csetC[SetOf[cur]] # "other"
  <2>1. /\ UNCHANGED <<work, mesh, ts, queue, meshEv, my, cacheVars>> /\ cur' = x
        /\ clusters' = SetMembers(SetOf[x]) /\ pc' \in {"namespace", "listOwned"}
    BY <1>2, <1>4 DEF Inventory
  <2>2. ~Deletion
    BY <1>1 DEF CleanInv, OwnershipInv, PathSound, Cleaning, Inventory
  <2>3. x \in Targeting(SetOf[x]) \/ Responsible(SetOf[x])
    <3>1. meshC[x].phase = "live" \/ (meshC[x].phase = "deleting" /\ x \in queue)
      BY <1>1, <1>2, <2>2 DEF CleanInv, Registered
    <3>2. meshC[x].phase = "deleting" => mesh[x].phase = "deleting"
      BY <1>1, <1>2, <2>2 DEF CleanInv, OwnershipInv, PathSound, CacheTrails, Present, Leaving
    <3>3. (meshC[x].phase = "deleting" /\ x \in queue) => CleansAsDeleted(x)
      BY <2>2, <3>2 DEF CleansAsDeleted
    <3> QED
      BY <3>1, <3>3 DEF Targeting, Responsible
  <2>4. clusters' \subseteq Wanted(SetOf[x]) \/ Responsible(SetOf[x])
    BY <2>1, <2>3 DEF Wanted
  <2>5. WillClean(SetOf[x])'
    BY <2>1 DEF WillClean, Applying
  <2> QED
    BY <1>1, <1>2, <2>1, <2>4, <2>5, WorkerClean, SameStray, DeletingStays
<1> QED
  BY <1>3, <1>4

\* What the worker writes where the set's meshes are not wanted, somebody will
\* clean up.
LEMMA ApplyClean ==
  ASSUME CleanInv, OwnershipInv', CalmInv', Registered', NEW c \in Cluster,
         ApplyNamespace(c) \/ ApplyOperator(c)
  PROVE  CleanInv'
<1>1. TypeOK /\ pc # "idle" /\ pc \in Applying
  BY DEF ApplyNamespace, ApplyOperator, CleanInv, OwnershipInv, Applying
<1>2. PICK x \in Mesh : cur = x
  BY <1>1, AtWorkMesh
<1>3. UNCHANGED <<mesh, ts, cacheVars, meshEv>>
  BY DEF ApplyNamespace, ApplyOperator
<1>4. CASE GiveUp /\ KeepWork
  BY <1>1, <1>2, <1>3, <1>4, AbandonClean DEF KeepWork
<1>5. ASSUME NEW n \in WorkName, NEW want, want.set = SetOf[x], Applied(<<c, n>>, want),
             pc' \in {"operator", "namespace", "listOwned"},
             UNCHANGED <<cur, my, clusters, queue>>
      PROVE  CleanInv'
  <2>1. c \in clusters /\ SetOf[x] \in Set
    BY Names DEF CleanInv, CalmInv, AtWork, ApplyNamespace, ApplyOperator, First
  <2>2. \A q \in Spot : work'[q] # NoWork =>
          work'[q] = work[q] \/ (q[1] = c /\ work'[q].set = SetOf[x])
    <3>1. work \in [Spot -> Work] /\ <<c, n>> \in Spot
      BY <1>1 DEF TypeOK, HubTypeOK, Spot
    <3> QED
      BY <1>5, <3>1 DEF Applied, PutWork, KeepWork, Patched
  <2>3. ASSUME NEW s \in Set, Stray(s)' # {} PROVE Stray(s) # {} \/ Responsible(s)
    <3>1. Wanted(s)' = Wanted(s)
      BY <1>3 DEF Wanted, Targeting, SetMembers, cacheVars
    <3>2. PICK q \in Spot : /\ work'[q] # NoWork /\ ~work'[q].dying /\ work'[q].set = s
                            /\ q[1] \notin Wanted(s)
      BY <2>3, <3>1 DEF Stray
    <3>3. CASE work'[q] = work[q]
      BY <3>2, <3>3 DEF Stray
    <3>4. CASE q[1] = c /\ work'[q].set = SetOf[x]
      BY <1>1, <1>2, <2>1, <3>2, <3>4 DEF CleanInv, Listing
    <3> QED
      BY <2>2, <3>2, <3>3, <3>4
  <2>4. clusters' \subseteq Wanted(SetOf[x]) \/ Responsible(SetOf[x])
    BY <1>1, <1>2, <1>5 DEF CleanInv, Listing
  <2>5. WillClean(SetOf[x])' /\ pc' # "idle" /\ cur' = x /\ my' = my
    BY <1>2, <1>5 DEF WillClean, Applying
  <2>6. queue \subseteq queue' /\ meshEv \subseteq meshEv' /\ UNCHANGED <<cacheVars, ts>>
    BY <1>3, <1>5
  <2>7. \A m \in Mesh : CleansAsDeleted(m) => mesh'[m].phase = "deleting"
    BY <1>3, DeletingStays
  <2> QED
    BY <1>1, <1>2, <2>3, <2>4, <2>5, <2>6, <2>7, WorkerClean
<1>6. CpNs[x] \in WorkName /\ OpWork \in WorkName
  BY Names
<1>7. \A op : NamespaceWork(x).set = SetOf[x] /\ OperatorWork(x, op).set = SetOf[x]
  BY DEF NamespaceWork, OperatorWork
<1>8. CASE ApplyNamespace(c)
  BY <1>2, <1>4, <1>5, <1>6, <1>7, <1>8 DEF ApplyNamespace
<1>9. CASE ApplyOperator(c)
  BY <1>2, <1>4, <1>5, <1>6, <1>7, <1>9 DEF ApplyOperator
<1> QED
  BY <1>8, <1>9

\* The worker lists the strays and deletes what it listed.
LEMMA CleanupClean ==
  ASSUME ~WorkLag, CleanInv, OwnershipInv', CalmInv', Registered',
         ListOwned \/ ListShared \/ DeleteListed
  PROVE  CleanInv'
<1> USE DEF hubVars, apiVars, eventVars
<1>1. TypeOK /\ pc \in Cleaning /\ pc # "idle"
  BY DEF ListOwned, ListShared, DeleteListed, CleanInv, OwnershipInv, Cleaning
<1>2. PICK x \in Mesh : cur = x
  BY <1>1, AtWorkMesh
<1>3. /\ UNCHANGED <<mesh, ts, meshEv>> /\ UNCHANGED cacheVars
      /\ AfterCleanup \in {"trigger", "determine"}
  BY DEF ListOwned, ListShared, DeleteListed, AfterCleanup, cacheVars
<1>4. CASE ListOwned
  <2>1. /\ pc' \in {"listShared", "deleteOwned"} /\ cur' = x
        /\ UNCHANGED <<work, queue, my>> /\ UNCHANGED cacheVars
    BY <1>2, <1>4 DEF ListOwned
  <2>2. WillClean(SetOf[x])' /\ pc' # "idle" /\ pc' \notin Applying
    BY <2>1 DEF WillClean, Applying
  <2> QED
    BY <1>1, <1>2, <1>3, <2>1, <2>2, IdleWorksClean, DeletingStays
<1>5. CASE ListShared
  <2>1. CASE Targeting(SetOf[cur]) # {} /\ csetC[SetOf[cur]] = "other"
    BY <1>1, <1>2, <1>3, <1>5, <2>1, AbandonClean DEF ListShared
  <2>2. CASE ~(Targeting(SetOf[cur]) # {} /\ csetC[SetOf[cur]] = "other")
    <3>1. /\ pc' \in {"deleteShared", "trigger", "determine"} /\ cur' = x
          /\ pc' # "deleteShared" => doomed' = {}
          /\ UNCHANGED <<work, queue, my>> /\ UNCHANGED cacheVars
          /\ doomed' = {p \in Spot : /\ Cached[p] # NoWork /\ Cached[p].set = SetOf[cur]
                                     /\ p[1] \notin Needed}
      BY <1>2, <1>3, <1>5, <2>2 DEF ListShared
    <3>2. Needed = Wanted(SetOf[x])
      BY <1>2 DEF Needed, Wanted
    <3>3. Stray(SetOf[x]) \subseteq doomed'
      BY <1>2, <3>1, <3>2 DEF Stray, Cached
    <3>4. Stray(SetOf[x])' \subseteq doomed'
      BY <3>1, <3>3, Names, SameStray
    <3>5. (WillClean(SetOf[x])' /\ pc' # "idle") \/ Stray(SetOf[x])' = {}
      BY <3>1, <3>4 DEF WillClean
    <3>6. pc' \notin Applying /\ pc' # "idle"
      BY <3>1 DEF Applying
    <3> QED
      BY <1>1, <1>2, <1>3, <3>1, <3>5, <3>6, IdleWorksClean, DeletingStays
  <2> QED
    BY <2>1, <2>2
<1>6. CASE DeleteListed
  <2>1. PICK p \in doomed : Deleted(p) /\ doomed' = doomed \ {p}
    BY <1>6 DEF DeleteListed
  <2>2. /\ UNCHANGED <<queue, my>> /\ cur' = x
        /\ pc = "deleteOwned" => pc' \in {"deleteOwned", "listShared"}
        /\ pc # "deleteOwned" =>
             /\ pc = "deleteShared"
             /\ pc' = "deleteShared" \/ (doomed' = {} /\ pc' \in {"trigger", "determine"})
    BY <1>2, <1>3, <1>6 DEF DeleteListed
  <2>3. \A s \in Set : Stray(s)' \subseteq Stray(s) \ {p}
    <3>1. \A s \in Set : Wanted(s)' = Wanted(s)
      BY <1>3 DEF Wanted, Targeting, SetMembers, cacheVars
    <3>2. p \in Spot /\ work \in [Spot -> Work] /\ (work[p] # NoWork => work[p] \in WorkRecord)
      BY <1>1, <2>1 DEF TypeOK, HubTypeOK, ControllerTypeOK, Work
    <3>3. [work[p] EXCEPT !.dying = TRUE].dying \/ work[p] = NoWork
      BY <3>2 DEF WorkRecord
    <3>4. /\ \A q \in Spot \ {p} : work'[q] = work[q]
          /\ work'[p] = NoWork \/ work'[p].dying
      BY <2>1, <3>2, <3>3 DEF Deleted, PutWork, KeepWork
    <3> QED
      BY <3>1, <3>4 DEF Stray
  <2>4. \A s \in Set : Stray(s)' # {} => Stray(s) # {} \/ Responsible(s)
    BY <2>3
  <2>5. ASSUME WillClean(SetOf[x])
        PROVE  (WillClean(SetOf[x])' /\ pc' # "idle") \/ Stray(SetOf[x])' = {}
    <3>1. CASE pc = "deleteOwned"
      BY <2>2, <3>1 DEF WillClean
    <3>2. CASE pc # "deleteOwned"
      <4>1. Stray(SetOf[x]) \subseteq doomed
        BY <2>2, <2>5, <3>2 DEF WillClean, Applying
      <4>2. Stray(SetOf[x])' \subseteq doomed'
        BY <2>1, <2>3, <4>1, Names
      <4> QED
        BY <2>2, <3>2, <4>2 DEF WillClean
    <3> QED
      BY <3>1, <3>2
  <2>6. pc' \notin Applying /\ pc' # "idle"
    BY <2>2 DEF Applying
  <2> QED
    BY <1>1, <1>2, <1>3, <2>2, <2>4, <2>5, <2>6, WorkerClean, DeletingStays
<1> QED
  BY <1>4, <1>5, <1>6

\* What is left of a reconcile or of a deletion comes after the clean-up.
LEMMA FinishClean ==
  ASSUME CleanInv, OwnershipInv', CalmInv', Registered',
         Fail \/ Determine \/ WriteStatus \/ Trigger \/ Release
  PROVE  CleanInv'
<1> USE DEF apiVars, eventVars
<1>1. TypeOK /\ pc # "idle"
  BY DEF Fail, Determine, WriteStatus, Trigger, Release, CleanInv, OwnershipInv
<1>2. PICK x \in Mesh : cur = x
  BY <1>1, AtWorkMesh
<1>3. UNCHANGED <<work, cacheVars, ts>>
  BY DEF Fail, Determine, WriteStatus, Trigger, Release, cacheVars
<1>4. CASE Fail
  BY <1>1, <1>2, <1>3, <1>4, AbandonClean DEF Fail
<1>5. CASE Determine
  <2>1. CASE GiveUp
    BY <1>1, <1>2, <1>3, <1>5, <2>1, AbandonClean DEF Determine
  <2>2. CASE ~GiveUp
    <3>1. UNCHANGED <<mesh, meshEv, queue, my>> /\ cur' = x /\ pc' = "status" /\ pc = "determine"
      BY <1>2, <1>5, <2>2 DEF Determine
    <3>2. ~WillClean(SetOf[x])
      BY <3>1 DEF WillClean, Applying
    <3> QED
      BY <1>1, <1>2, <1>3, <3>1, <3>2, IdleWorksClean, DeletingStays DEF Applying
  <2> QED
    BY <2>1, <2>2
<1>6. CASE WriteStatus
  <2>1. /\ pc = "status" /\ pc' = "idle" /\ queue \subseteq queue' /\ meshEv \subseteq meshEv'
        /\ verdict = "ReconcileError" => x \in queue'
    BY <1>2, <1>6 DEF WriteStatus, FinishReconcile, Requeue, Done, Rest, WriteMeshes
  <2>2. WillClean(SetOf[x]) => x \in queue'
    BY <2>1 DEF WillClean, Applying
  <2>3. \A m \in Mesh : mesh'[m].phase = mesh[m].phase
    <3>1. mesh \in [Mesh -> MeshRecord] /\ \A m \in Mesh : mesh[m] \in MeshRecord
      BY <1>1 DEF TypeOK, HubTypeOK
    <3>2. mesh' = mesh \/ mesh' = [mesh EXCEPT ![x].ready = NewReady]
      BY <1>2, <1>6 DEF WriteStatus, WriteMeshes
    <3> QED
      BY <3>1, <3>2 DEF MeshRecord
  <2>4. \A m \in Mesh : CleansAsDeleted(m) => mesh'[m].phase = "deleting"
    BY <2>3 DEF CleansAsDeleted
  <2> QED
    BY <1>1, <1>2, <1>3, <2>1, <2>2, <2>4, IdleWorksClean DEF Applying
<1>7. CASE Trigger
  <2>1. /\ UNCHANGED <<mesh, queue, my>> /\ meshEv \subseteq meshEv' /\ cur' = x
        /\ pc' = "release" /\ pc = "trigger"
    BY <1>2, <1>7 DEF Trigger
  <2>2. ~WillClean(SetOf[x])
    BY <2>1 DEF WillClean, Applying
  <2> QED
    BY <1>1, <1>2, <1>3, <2>1, <2>2, IdleWorksClean, DeletingStays DEF Applying
<1>8. CASE Release
  <2>1. /\ pc = "release" /\ pc' = "idle" /\ queue \subseteq queue' /\ meshEv \subseteq meshEv'
        /\ mesh' = mesh \/ mesh' = [mesh EXCEPT ![x] = Gone]
    BY <1>2, <1>8 DEF Release, Requeue, Done, Rest, WriteMeshes
  <2>2. ~WillClean(SetOf[x])
    BY <2>1 DEF WillClean, Applying
  <2>3. ~CleansAsDeleted(x)
    <3>1. Busy(x) /\ Deletion
      BY <1>1, <1>2, <2>1 DEF Busy, CleanInv, OwnershipInv, PathSound
    <3> QED
      BY <2>2, <3>1 DEF CleansAsDeleted
  <2>4. \A m \in Mesh : CleansAsDeleted(m) => mesh'[m].phase = "deleting"
    BY <1>1, <2>1, <2>3 DEF CleansAsDeleted, TypeOK, HubTypeOK
  <2> QED
    BY <1>1, <1>2, <1>3, <2>1, <2>2, <2>4, IdleWorksClean DEF Applying
<1> QED
  BY <1>4, <1>5, <1>6, <1>7, <1>8

LEMMA CleanNext ==
  ASSUME ~WorkLag, NoClash, CleanInv, OwnershipInv', CalmInv', [Next]_vars
  PROVE  CleanInv'
<1>1. StatusInv /\ PathInv /\ Registered
  BY DEF CleanInv, CalmInv, OwnershipInv, PathInv
<1>2. Registered'
  BY <1>1, RegisteredNext
<1>3. CASE Controller
  BY <1>2, <1>3, TakeClean, ValidateClean, InventoryClean, ApplyClean, CleanupClean, FinishClean
     DEF Controller
<1>4. CASE UNCHANGED vars
  <2> USE DEF vars, hubVars, apiVars, cacheVars, eventVars, workerVars
  <2>1. \A s \in Set : Wanted(s) \subseteq Wanted(s)'
    BY <1>4, SameStray
  <2> QED
    BY <1>2, <1>4, <2>1, ToldClean
<1> QED
  BY <1>2, <1>3, <1>4, DeliveryClean, EnvironmentClean, CrashClean DEF Next

\* At rest nobody is responsible, so that there are no strays.
LEMMA RestNoStray ==
  ASSUME CleanInv
  PROVE  RestClean
<1> SUFFICES ASSUME AtRest, NEW p \in Spot, work[p] # NoWork
             PROVE  /\ p[1] \in ClustersOf(work[p].set)
                    /\ \E m \in Mesh : mesh[m].phase = "live" /\ SetOf[m] = work[p].set
  BY DEF RestClean
<1>1. TypeOK /\ CacheCurrent /\ CachesCurrent
  BY DEF CleanInv, CalmInv, StatusInv
<1>2. work[p].set \in Set /\ ~work[p].dying
  BY <1>1 DEF TypeOK, HubTypeOK, Work, WorkRecord, AtRest
<1>3. PICK s \in Set : work[p].set = s
  BY <1>2
<1>4. ~Responsible(s)
  <2>1. \A m \in Mesh : ~Attended(m)
    BY DEF AtRest, Attended, Busy
  <2> QED
    BY <2>1 DEF AtRest, Responsible, CleansAsLive, CleansAsDeleted, Busy
<1>5. p[1] \in Wanted(s)
  BY <1>2, <1>3, <1>4 DEF CleanInv, Guarded, Stray
<1>6. PICK m \in Mesh : meshC[m].phase = "live" /\ SetOf[m] = s
  BY <1>5 DEF Wanted, Targeting
<1>7. mesh[m].phase = "live"
  BY <1>1, <1>6 DEF CacheCurrent, AtRest, CleanInv, Registered
<1>8. SetMembers(s) = ClustersOf(s)
  BY <1>1, <1>3 DEF CachesCurrent, AtRest, SetMembers, ClustersOf
<1> QED
  BY <1>3, <1>5, <1>6, <1>7, <1>8 DEF Wanted

\* RestClean: once nothing is left to do, every work is on a cluster of the set
\* it was made for, and a live mesh of that set exists, whatever the order in
\* which meshes were deleted, clusters moved and reconciles failed - as long
\* as the clean-ups read works as they are, no mesh was deleted before it had
\* its finalizer and no mesh is refused for a configuration that puts the
\* operator into its own control plane namespace.
THEOREM CleanAtRest ==
  ASSUME ~WorkLag, NoWithdrawal, NoClash
  PROVE  Spec => []RestClean
<1>1. CleanInv /\ [Next]_vars => CleanInv'
  <2>1. CleanInv /\ [Next]_vars => OwnershipInv' /\ CalmInv'
    BY OwnershipNext, CalmNext DEF CleanInv
  <2> QED
    BY <2>1, CleanNext
<1>2. Init => CleanInv
  BY CleanInit
<1> QED
  BY <1>1, <1>2, RestNoStray, PTL DEF Spec

-----------------------------------------------------------------------------
(* No refusal outlives its cause.  A live mesh that is left in peace after   *)
(* it was refused still has an older one in its way, or one that is on its   *)
(* way out and has yet to tell its peers; what could make the two agree      *)
(* otherwise - an edit, a withdrawal, a patch that is lost - is not told to   *)
(* the refused mesh, so that it is ruled out here.                           *)

Conflicts == {"NamespaceConflict", "OperatorConfigConflict"}

Blocks(o, m) ==
  /\ o # m /\ SetOf[o] = SetOf[m] /\ Older(o, m)
  /\ CpNs[o] = CpNs[m] \/ mesh[o].op # mesh[m].op

WillTrigger(o) ==
  /\ mesh[o].phase = "deleting"
  /\ IF Busy(o) /\ Deletion THEN pc \in Cleaning \union {"trigger"} ELSE o \in queue \union meshEv

Founded(m) ==
  \/ CpNs[m] = OpNs[mesh[m].op]
  \/ \E o \in Mesh : Blocks(o, m) /\ (mesh[o].phase = "live" \/ WillTrigger(o))

\* Nothing will make the worker look at the mesh, unless it does already.
InPeace(m) == m \notin queue /\ m \notin meshEv /\ mesh[m].phase = "live"

\* The worker is about to refuse mesh m, or nobody is at it and it was refused.
Denied(m) == IF Busy(m) THEN pc = "status" /\ verdict \in Conflicts ELSE Refused(m)

DenialsFounded == \A m \in Mesh : (InPeace(m) /\ Denied(m)) => Founded(m)

\* Without edits a configuration is what it was when the mesh was created.
OperatorsKnown ==
  /\ budget["edit"] = 0 /\ budget["lost"] = 0
  /\ \A m \in Mesh : (meshC[m].phase \in {"live", "deleting"} /\ mesh[m].phase \in {"live", "deleting"})
                        => meshC[m].op = mesh[m].op
  /\ (pc # "idle" /\ ~Deletion) => my.op = mesh[cur].op

RefusalInv == CalmInv /\ PathInv /\ Registered /\ OperatorsKnown /\ DenialsFounded

NoEdit == \A q \in Quotas : q["edit"] = 0
NoLoss == \A q \in Quotas : q["lost"] = 0

LEMMA SpendNone ==
  ASSUME TypeOK, NEW kind \in Disturbance, NEW none \in Disturbance, budget[none] = 0, Spend(kind)
  PROVE  kind # none /\ budget'[none] = 0
BY DEF Spend, TypeOK, HubTypeOK

\* What a step does to the configurations and the budget.
LEMMA OperatorsEnvironment ==
  ASSUME TypeOK, PathInv, OperatorsKnown, Registered, Environment
  PROVE  /\ OperatorsKnown' /\ \A m \in Mesh : ~WithdrawMesh(m) /\ ~EditOperator(m)
         /\ \A m \in Mesh : mesh[m].phase \in {"live", "deleting"} =>
              /\ mesh'[m].phase \in {"live", "deleting"} /\ mesh'[m].op = mesh[m].op
              /\ ts'[m] = ts[m]
              /\ mesh[m].phase = "live" /\ mesh'[m].phase # "live" => m \in meshEv'
              /\ mesh[m].phase = "deleting" => mesh'[m].phase = "deleting"
         /\ \A m \in Mesh : mesh[m].phase \notin {"live", "deleting"} =>
              mesh'[m] = mesh[m] \/ m \in meshEv'
         /\ \A m \in Mesh : m \notin meshEv' => mesh'[m] = mesh[m]
         /\ meshEv \subseteq meshEv'
<1> USE DEF cacheVars, workerVars
<1>1. /\ UNCHANGED <<meshC, pc, cur, my, queue>> /\ meshEv \subseteq meshEv'
      /\ mesh \in [Mesh -> MeshRecord] /\ \A m \in Mesh : mesh[m] \in MeshRecord
      /\ ts \in [Mesh -> Nat]
  BY DEF Environment, CreateMesh, DeleteMesh, WithdrawMesh, EditOperator, UserWrites, WriteMeshes,
         MoveCluster, Tamper, AgentReport, ChangeSet, AgentFinish, TypeOK, HubTypeOK
<1>2. \A m \in Mesh : ~WithdrawMesh(m) /\ ~EditOperator(m)
  BY DEF WithdrawMesh, EditOperator, Spend, OperatorsKnown, Registered
<1>3. budget'["edit"] = 0 /\ budget'["lost"] = 0
  <2>1. UNCHANGED budget \/ \E kind \in Disturbance : Spend(kind)
    BY <1>2 DEF Environment, CreateMesh, DeleteMesh, MoveCluster, Tamper, AgentReport, ChangeSet,
         AgentFinish, Disturbance
  <2> QED
    BY <2>1, SpendNone DEF OperatorsKnown, Disturbance
<1>4. ASSUME NEW o \in Mesh, CreateMesh(o)
      PROVE  /\ mesh[o].phase = "none" /\ o \in meshEv'
             /\ \A m \in Mesh \ {o} : mesh'[m] = mesh[m] /\ ts'[m] = ts[m]
  BY <1>1, <1>4 DEF CreateMesh, UserWrites, WriteMeshes
<1>5. ASSUME NEW o \in Mesh, DeleteMesh(o)
      PROVE  /\ mesh[o].phase = "live" /\ o \in meshEv' /\ ts' = ts
             /\ mesh'[o].phase = "deleting" /\ mesh'[o].op = mesh[o].op
             /\ \A m \in Mesh \ {o} : mesh'[m] = mesh[m]
  <2>1. mesh' = [mesh EXCEPT ![o] = [mesh[o] EXCEPT !.phase = "deleting", !.gen = @ + 1]]
    BY <1>5 DEF DeleteMesh, UserWrites, WriteMeshes
  <2> QED
    BY <1>1, <1>5, <2>1 DEF DeleteMesh, UserWrites, WriteMeshes, MeshRecord
<1>6. \/ \E o \in Mesh : CreateMesh(o) \/ DeleteMesh(o)
      \/ mesh' = mesh /\ ts' = ts
  BY <1>2 DEF Environment, MoveCluster, Tamper, AgentReport, ChangeSet, AgentFinish
<1>7. \A m \in Mesh : \/ mesh'[m] = mesh[m] /\ ts'[m] = ts[m]
                      \/ /\ mesh[m].phase = "none" /\ m \in meshEv'
                      \/ /\ mesh[m].phase = "live" /\ m \in meshEv' /\ ts'[m] = ts[m]
                         /\ mesh'[m].phase = "deleting" /\ mesh'[m].op = mesh[m].op
  BY <1>4, <1>5, <1>6
<1>8. \A m \in Mesh : mesh[m].phase = "none" => meshC[m].phase \notin {"live", "deleting"}
  BY DEF PathInv, CacheTrails, Registered, Leaving
<1>9. (pc # "idle" /\ ~Deletion) => cur \in Mesh /\ mesh[cur].phase \in {"live", "deleting"}
  BY DEF PathInv, PathSound, Present, TypeOK, ControllerTypeOK
<1>10. OperatorsKnown'
  BY <1>1, <1>3, <1>7, <1>8, <1>9 DEF OperatorsKnown, Deletion
<1> QED
  BY <1>1, <1>2, <1>7, <1>10

LEMMA OperatorsDelivery ==
  ASSUME TypeOK, OperatorsKnown, Delivery
  PROVE  OperatorsKnown'
<1>1. UNCHANGED <<mesh, budget, pc, cur, my>>
  BY DEF Delivery, SyncMesh, SyncMember, SyncSet, SyncWork, SyncLister, apiVars, workerVars
<1>2. \A m \in Mesh : meshC'[m] = meshC[m] \/ meshC'[m] = mesh[m]
  BY DEF Delivery, SyncMesh, SyncMember, SyncSet, SyncWork, SyncLister, TypeOK, HubTypeOK
<1> QED
  BY <1>1, <1>2 DEF OperatorsKnown, Deletion

LEMMA OperatorsController ==
  ASSUME TypeOK, PathInv, Registered, OperatorsKnown, Controller
  PROVE  OperatorsKnown'
<1> USE DEF apiVars, cacheVars, eventVars, hubVars, workerVars
<1>1. /\ UNCHANGED meshC /\ mesh \in [Mesh -> MeshRecord]
      /\ \A m \in Mesh : mesh[m] \in MeshRecord
  BY DEF Controller, TakeNothing, TakeUnfinalized, Take, Fail, Validate, Inventory,
         ApplyNamespace, ApplyOperator, ListOwned, ListShared, DeleteListed, Determine, WriteStatus,
         Trigger, Release, TypeOK, HubTypeOK
<1>2. budget'["edit"] = 0 /\ budget'["lost"] = 0
  <2>1. UNCHANGED budget \/ Spend("fail") \/ Spend("lost")
    BY DEF Controller, TakeNothing, TakeUnfinalized, Take, Fail, Validate, Inventory,
       ApplyNamespace, ApplyOperator, ListOwned, ListShared, DeleteListed, Determine, WriteStatus,
       Trigger, Release
  <2> QED
    BY <2>1, SpendNone DEF OperatorsKnown, Disturbance
<1>3. \A m \in Mesh : /\ mesh'[m].phase \in {"live", "deleting"} =>
                           mesh'[m].phase = mesh[m].phase /\ mesh'[m].op = mesh[m].op
                      /\ mesh'[m].op = mesh[m].op \/ pc' = "idle"
  <2>1. \/ mesh' = mesh
        \/ \E m \in Mesh : mesh' = [mesh EXCEPT ![m].fin = TRUE]
        \/ mesh' = [mesh EXCEPT ![cur].ready = NewReady]
        \/ mesh' = [mesh EXCEPT ![cur] = Gone] /\ pc' = "idle"
    BY DEF Controller, TakeNothing, TakeUnfinalized, Take, Fail, Validate, Inventory,
       ApplyNamespace, ApplyOperator, ListOwned, ListShared, DeleteListed, Determine, WriteStatus,
       Trigger, Release, WriteMeshes, Done, Rest
  <2>2. \A m \in Mesh : mesh'[m] \in {mesh[m], [mesh[m] EXCEPT !.fin = TRUE],
                                      [mesh[m] EXCEPT !.ready = NewReady]}
                        \/ (mesh'[m] = Gone /\ pc' = "idle")
    BY <1>1, <2>1
  <2> QED
    BY <1>1, <2>2 DEF MeshRecord, Gone, Blank
<1>4. ASSUME NEW m \in Mesh, Take(m) PROVE OperatorsKnown'
  <2>1. /\ UNCHANGED <<mesh, budget>> /\ cur' = m /\ my' = meshC[m]
        /\ meshC[m].phase \in {"live", "deleting"}
    BY <1>4 DEF Take
  <2>2. meshC[m].phase = "live" => meshC[m].op = mesh[m].op
    BY DEF OperatorsKnown, Registered
  <2> QED
    BY <1>1, <2>1, <2>2 DEF OperatorsKnown, Deletion
<1>5. ASSUME \A m \in Mesh : ~Take(m) PROVE pc' = "idle" \/ (pc # "idle" /\ UNCHANGED <<cur, my>>)
  BY <1>5 DEF Controller, TakeNothing, TakeUnfinalized, Fail, Validate, Inventory,
     ApplyNamespace, ApplyOperator, ListOwned, ListShared, DeleteListed, Determine, WriteStatus,
     Trigger, Release, Abandon, GiveUp, Requeue, Done, Rest, FinishReconcile
<1>6. pc # "idle" => cur \in Mesh
  BY DEF TypeOK, ControllerTypeOK
<1> QED
  BY <1>1, <1>2, <1>3, <1>4, <1>5, <1>6 DEF OperatorsKnown, Deletion

LEMMA FoundedKeeps ==
  ASSUME NEW m \in Mesh, Founded(m), mesh'[m].op = mesh[m].op, ts'[m] = ts[m],
         \A o \in Mesh : (Blocks(o, m) /\ (mesh[o].phase = "live" \/ WillTrigger(o))) =>
           /\ mesh'[o].op = mesh[o].op /\ ts'[o] = ts[o]
           /\ mesh'[o].phase = "live" \/ WillTrigger(o)'
  PROVE  Founded(m)'
BY DEF Founded, Blocks, Older

LEMMA FoundedEnvironment ==
  ASSUME RefusalInv, Environment
  PROVE  DenialsFounded'
<1>1. TypeOK
  BY DEF RefusalInv, PathInv
<1>2. UNCHANGED <<queue, pc, cur, my, verdict>>
  BY DEF Environment, CreateMesh, DeleteMesh, WithdrawMesh, EditOperator, UserWrites,
         MoveCluster, Tamper, AgentReport, ChangeSet, AgentFinish, workerVars
<1>3. ASSUME NEW m \in Mesh, InPeace(m)', Denied(m)' PROVE Founded(m)'
  <2>1. mesh'[m] = mesh[m] /\ meshEv \subseteq meshEv' /\ ts'[m] = ts[m]
    BY <1>1, <1>3, OperatorsEnvironment DEF RefusalInv, InPeace
  <2>2. InPeace(m) /\ Denied(m)
    BY <1>2, <1>3, <2>1 DEF InPeace, Denied, Busy, Refused
  <2>3. ASSUME NEW o \in Mesh, mesh[o].phase = "live" \/ WillTrigger(o)
        PROVE  /\ mesh'[o].op = mesh[o].op /\ ts'[o] = ts[o]
               /\ mesh'[o].phase = "live" \/ WillTrigger(o)'
    <3>1. /\ mesh'[o].phase \in {"live", "deleting"} /\ mesh'[o].op = mesh[o].op /\ ts'[o] = ts[o]
          /\ mesh[o].phase = "live" /\ mesh'[o].phase # "live" => o \in meshEv'
          /\ mesh[o].phase = "deleting" => mesh'[o].phase = "deleting"
      BY <1>1, <2>3, OperatorsEnvironment DEF RefusalInv, WillTrigger
    <3>2. mesh[o].phase = "live" => ~(Busy(o) /\ Deletion)
      BY DEF Busy, RefusalInv, PathInv, PathSound, Leaving
    <3> QED
      BY <1>2, <2>1, <2>3, <3>1, <3>2 DEF WillTrigger, Busy, Deletion
  <2> QED
    BY <2>1, <2>2, <2>3, FoundedKeeps DEF RefusalInv, DenialsFounded
<1> QED
  BY <1>3 DEF DenialsFounded

LEMMA FoundedDelivery ==
  ASSUME RefusalInv, UNCHANGED <<mesh, ts, pc, cur, my, verdict>>,
         queue \subseteq queue', meshEv \subseteq meshEv' \union queue'
  PROVE  DenialsFounded'
<1>1. ASSUME NEW m \in Mesh, InPeace(m)', Denied(m)' PROVE Founded(m)'
  <2>1. InPeace(m) /\ Denied(m)
    BY <1>1 DEF InPeace, Denied, Busy, Refused
  <2>2. \A o \in Mesh : WillTrigger(o) => WillTrigger(o)'
    BY DEF WillTrigger, Busy, Deletion
  <2> QED
    BY <2>1, <2>2, FoundedKeeps DEF RefusalInv, DenialsFounded
<1> QED
  BY <1>1 DEF DenialsFounded

\* Taking a mesh up: unless its cached copy is old, it is the worker that
\* will tell the peers of a deleted one.
LEMMA FoundedTake ==
  ASSUME RefusalInv, NEW x \in Mesh, TakeNothing(x) \/ TakeUnfinalized(x) \/ Take(x)
  PROVE  DenialsFounded'
<1> USE DEF apiVars, cacheVars, eventVars, workerVars
<1>1. /\ pc = "idle" /\ ts' = ts /\ meshEv \subseteq meshEv' /\ queue \ {x} \subseteq queue'
      /\ x \in queue /\ meshC' = meshC
      /\ pc' = "idle" \/ (cur' = x /\ pc' \in {"validate", "listOwned"})
  BY DEF TakeNothing, TakeUnfinalized, Take, WriteMeshes
<1>2. \A m \in Mesh : /\ mesh'[m].phase = mesh[m].phase /\ mesh'[m].op = mesh[m].op
                      /\ mesh'[m].ready = mesh[m].ready
  <2>1. mesh \in [Mesh -> MeshRecord] /\ \A m \in Mesh : mesh[m] \in MeshRecord
    BY DEF RefusalInv, PathInv, TypeOK, HubTypeOK
  <2>2. mesh' = mesh \/ mesh' = [mesh EXCEPT ![x].fin = TRUE]
    BY DEF TakeNothing, TakeUnfinalized, Take, WriteMeshes
  <2> QED
    BY <2>1, <2>2 DEF MeshRecord
<1>3. x \notin meshEv => meshC[x] = mesh[x]
  BY DEF RefusalInv, CalmInv, StatusInv, CacheCurrent
<1>4. ASSUME NEW m \in Mesh, InPeace(m)', Denied(m)' PROVE InPeace(m) /\ Denied(m)
  <2>1. m # x
    <3>1. CASE TakeNothing(x)
      BY <1>2, <1>3, <1>4, <3>1 DEF TakeNothing, InPeace
    <3>2. CASE TakeUnfinalized(x)
      BY <1>1, <1>4, <3>2 DEF TakeUnfinalized, WriteMeshes, InPeace
    <3>3. CASE Take(x)
      BY <1>4, <3>3 DEF Take, Denied, Busy
    <3> QED
      BY <3>1, <3>2, <3>3
  <2> QED
    BY <1>1, <1>2, <1>4, <2>1 DEF InPeace, Denied, Busy, Refused
<1>5. ASSUME NEW o \in Mesh, WillTrigger(o) PROVE WillTrigger(o)'
  <2>1. CASE o # x
    BY <1>1, <1>2, <1>5, <2>1 DEF WillTrigger, Busy
  <2>2. CASE o = x /\ TakeNothing(x)
    BY <1>1, <1>2, <1>3, <1>5, <2>2 DEF TakeNothing, WillTrigger, Busy, RefusalInv, Registered, Sound
  <2>3. CASE o = x /\ TakeUnfinalized(x)
    BY <1>1, <1>2, <1>5, <2>3 DEF TakeUnfinalized, WriteMeshes, WillTrigger, Busy
  <2>4. CASE o = x /\ Take(x)
    <3>1. mesh[x].phase = "deleting" /\ my' = meshC[x] /\ cur' = x
      BY <1>5, <2>4 DEF Take, WillTrigger
    <3>2. CASE meshC[x].phase = "deleting"
      <4>1. mesh'[x].phase = "deleting" /\ pc' = "listOwned"
        BY <1>2, <2>4, <3>1, <3>2 DEF Take
      <4> QED
        BY <2>4, <3>1, <3>2, <4>1 DEF WillTrigger, Cleaning, Busy, Deletion
    <3>3. CASE meshC[x].phase # "deleting"
      BY <1>1, <1>2, <1>3, <2>4, <3>1, <3>3 DEF WillTrigger, Deletion
    <3> QED
      BY <3>2, <3>3
  <2> QED
    BY <2>1, <2>2, <2>3, <2>4
<1> QED
  BY <1>1, <1>2, <1>4, <1>5, FoundedKeeps DEF RefusalInv, DenialsFounded

\* The worker goes on with mesh x, or ends and will come back if it was
\* deleting it.
LEMMA FoundedWork ==
  ASSUME RefusalInv, NEW x \in Mesh, cur = x, pc # "idle",
         ts' = ts, queue \subseteq queue', meshEv \subseteq meshEv',
         \A m \in Mesh : /\ mesh'[m].phase = mesh[m].phase /\ mesh'[m].op = mesh[m].op
                         /\ mesh'[m] = mesh[m] \/ m \in meshEv',
         pc' = "idle" \/ (cur' = x /\ my' = my),
         (Deletion /\ pc \in Cleaning \union {"trigger"}) =>
           pc' \in Cleaning \union {"trigger"} \/ (pc' = "idle" /\ x \in queue'),
         (InPeace(x)' /\ Denied(x)') => Founded(x)
  PROVE  DenialsFounded'
<1>1. ASSUME NEW m \in Mesh, InPeace(m)', Denied(m)' PROVE Founded(m)
  <2>1. InPeace(m) /\ mesh'[m] = mesh[m]
    BY <1>1 DEF InPeace
  <2>2. CASE m # x
    <3>1. Denied(m)
      BY <1>1, <2>1, <2>2 DEF Denied, Busy, Refused
    <3> QED
      BY <2>1, <3>1 DEF RefusalInv, DenialsFounded
  <2> QED
    BY <1>1, <2>2
<1>2. ASSUME NEW o \in Mesh, WillTrigger(o) PROVE WillTrigger(o)'
  <2>1. mesh'[o].phase = "deleting"
    BY <1>2 DEF WillTrigger
  <2>2. CASE Busy(o) /\ Deletion
    <3>1. o = x /\ pc \in Cleaning \union {"trigger"}
      BY <1>2, <2>2 DEF WillTrigger, Busy
    <3>2. pc' = "idle" \/ Deletion'
      BY <2>2 DEF Deletion
    <3> QED
      BY <2>1, <2>2, <3>1, <3>2 DEF WillTrigger, Busy, Cleaning
  <2>3. CASE ~(Busy(o) /\ Deletion)
    <3>1. o \in queue' \union meshEv' /\ ~(Busy(o) /\ Deletion)'
      BY <1>2, <2>3 DEF WillTrigger, Busy, Deletion
    <3> QED
      BY <2>1, <3>1 DEF WillTrigger
  <2> QED
    BY <2>2, <2>3
<1> QED
  BY <1>1, <1>2, FoundedKeeps DEF DenialsFounded

LEMMA FoundedSame ==
  ASSUME RefusalInv, NEW x \in Mesh, cur = x, pc # "idle",
         UNCHANGED <<mesh, ts, meshEv, queue>>, cur' = x, my' = my,
         \/ pc' \in Cleaning \union {"trigger"}
         \/ ~Deletion /\ pc' \in {"inventory", "determine"} \union Applying
         \/ ~Deletion /\ pc' = "status" /\ verdict' \notin Conflicts
  PROVE  DenialsFounded'
<1>1. ~Denied(x)'
  BY DEF Denied, Busy, Cleaning, Applying
<1> QED
  BY <1>1, FoundedWork DEF Cleaning, Applying

LEMMA FoundedAbandon ==
  ASSUME RefusalInv, NEW x \in Mesh, cur = x, pc # "idle", UNCHANGED <<mesh, ts, meshEv>>,
         Abandon \/ Requeue \/ (~Deletion /\ GiveUp)
  PROVE  DenialsFounded'
<1>1. CASE Requeue
  BY <1>1, FoundedWork DEF Requeue, Rest, InPeace
<1>2. CASE ~Deletion /\ GiveUp
  BY <1>2, FoundedSame DEF GiveUp, Conflicts
<1> QED
  BY <1>1, <1>2 DEF Abandon

\* Who objects is there, or is being deleted and has not been seen to be.
LEMMA FoundedValidate ==
  ASSUME RefusalInv, Validate
  PROVE  DenialsFounded'
<1> USE DEF hubVars, apiVars, cacheVars, eventVars
<1>1. TypeOK /\ pc # "idle"
  BY DEF Validate, RefusalInv, PathInv
<1>2. PICK x \in Mesh : cur = x
  BY <1>1, AtWorkMesh
<1>3. UNCHANGED <<mesh, ts, queue, meshEv, my>> /\ cur' = x
  BY <1>2 DEF Validate
<1>4. ~Deletion
  BY <1>1, <1>2 DEF RefusalInv, PathInv, PathSound, Cleaning, Validate
<1>5. CASE pc' = "inventory"
  BY <1>1, <1>2, <1>3, <1>4, <1>5, FoundedSame
<1>6. CASE pc' # "inventory"
  <2>1. my.op = mesh[x].op /\ Refusals # {} /\ pc' = "status"
    BY <1>1, <1>2, <1>4, <1>6 DEF RefusalInv, OperatorsKnown, Validate
  <2>2. ASSUME CpNs[x] = OpNs[my.op] PROVE Founded(x)
    BY <2>1, <2>2 DEF Founded
  <2>3. ASSUME CpNs[x] # OpNs[my.op] PROVE Founded(x)
    <3>1. PICK o \in Targeting(SetOf[x]) : o # x /\ ~Older(x, o) /\ Objection(o) # {}
      BY <1>2, <2>1, <2>3 DEF Refusals, Objections
    <3>2. o \in Mesh /\ meshC[o].phase = "live" /\ SetOf[o] = SetOf[x] /\ Older(o, x)
      BY <1>1, <3>1, OlderOrder DEF Targeting
    <3>3. mesh[o].phase \in {"live", "deleting"} /\ meshC[o].op = mesh[o].op
      BY <3>2 DEF RefusalInv, Registered, OperatorsKnown
    <3>4. Blocks(o, x)
      BY <1>2, <2>1, <3>1, <3>2, <3>3 DEF Blocks, Objection
    <3>5. mesh[o].phase = "deleting" => WillTrigger(o)
      <4>1. ~(Busy(o) /\ Deletion)
        BY <1>4
      <4>2. mesh[o].phase = "deleting" => o \in meshEv
        BY <3>2 DEF RefusalInv, CalmInv, StatusInv, CacheCurrent
      <4> QED
        BY <4>1, <4>2 DEF WillTrigger
    <3> QED
      BY <3>2, <3>3, <3>4, <3>5 DEF Founded
  <2>4. Founded(x)
    BY <2>2, <2>3
  <2> QED
    BY <1>1, <1>2, <1>3, <1>4, <2>1, <2>4, FoundedWork
<1> QED
  BY <1>5, <1>6

\* What is written is what was found, or it is what the mesh said before.
LEMMA FoundedStatus ==
  ASSUME RefusalInv, WriteStatus
  PROVE  DenialsFounded'
<1>1. TypeOK /\ pc # "idle" /\ pc = "status"
  BY DEF WriteStatus, RefusalInv, PathInv
<1>2. PICK x \in Mesh : cur = x
  BY <1>1, AtWorkMesh
<1>3. ~Deletion
  BY <1>1, <1>2 DEF RefusalInv, PathInv, PathSound, Cleaning
<1>4. pc' = "idle" /\ queue \subseteq queue' /\ ts' = ts /\ meshEv \subseteq meshEv'
  BY DEF WriteStatus, FinishReconcile, Requeue, Done, Rest, WriteMeshes
<1>5. \A m \in Mesh : /\ mesh'[m].phase = mesh[m].phase /\ mesh'[m].op = mesh[m].op
                      /\ mesh'[m] = mesh[m] \/ m \in meshEv'
  <2>1. mesh \in [Mesh -> MeshRecord] /\ \A m \in Mesh : mesh[m] \in MeshRecord
    BY <1>1 DEF TypeOK, HubTypeOK
  <2>2. mesh' = mesh \/ (mesh' = [mesh EXCEPT ![x].ready = NewReady] /\ x \in meshEv')
    BY <1>2 DEF WriteStatus, WriteMeshes
  <2> QED
    BY <2>1, <2>2 DEF MeshRecord
<1>6. ASSUME InPeace(x)', Denied(x)' PROVE Founded(x)
  <2>1. InPeace(x) /\ mesh'[x] = mesh[x] /\ mesh[x].ready.reason \in Conflicts
    BY <1>4, <1>5, <1>6 DEF InPeace, Denied, Busy, Refused, Conflicts
  <2>2. my = meshC[x] /\ meshC[x] = mesh[x]
    BY <1>1, <1>2, <2>1 DEF RefusalInv, CalmInv, StatusInv, CacheCurrent, AtWork, Busy, Knows, InPeace
  <2>3. NewReady.reason = verdict
    BY DEF NewReady
  <2>4. mesh[x].ready = NewReady
    <3>1. CASE ~StatusChanged
      BY <2>2, <3>1 DEF StatusChanged
    <3>2. CASE StatusChanged
      BY <1>2, <1>6, <3>2 DEF WriteStatus, Requeue, WriteMeshes, InPeace
    <3> QED
      BY <3>1, <3>2
  <2>5. Denied(x)
    BY <1>1, <1>2, <2>1, <2>3, <2>4 DEF Denied, Busy
  <2> QED
    BY <2>1, <2>5 DEF RefusalInv, DenialsFounded
<1> QED
  BY <1>1, <1>2, <1>3, <1>4, <1>5, <1>6, FoundedWork

\* A deleted mesh tells all its peers that are not ready.
LEMMA FoundedFarewell ==
  ASSUME RefusalInv, Trigger \/ Release
  PROVE  DenialsFounded'
<1> USE DEF apiVars, cacheVars
<1>1. TypeOK /\ pc # "idle"
  BY DEF Trigger, Release, RefusalInv, PathInv
<1>2. PICK x \in Mesh : cur = x
  BY <1>1, AtWorkMesh
<1>3. Deletion /\ mesh[x].phase \in Leaving
  BY <1>1, <1>2 DEF Trigger, Release, RefusalInv, PathInv, PathSound
<1>4. /\ ts' = ts /\ queue \subseteq queue' /\ meshEv \subseteq meshEv'
      /\ \A m \in Mesh \ {x} : mesh'[m] = mesh[m]
      /\ mesh'[x] = mesh[x] \/ mesh'[x] = Gone
      /\ pc' = "idle" \/ (pc' = "release" /\ cur' = x)
  BY <1>1, <1>2 DEF Trigger, Release, WriteMeshes, Requeue, Done, Rest, TypeOK, HubTypeOK
<1>5. ASSUME NEW m \in Mesh, InPeace(m)', Denied(m)' PROVE Founded(m)'
  <2>1. m # x
    BY <1>3, <1>4, <1>5 DEF InPeace, Leaving, Gone, Blank
  <2>2. InPeace(m) /\ Denied(m) /\ Refused(m)
    BY <1>2, <1>4, <1>5, <2>1 DEF InPeace, Denied, Busy, Refused
  <2>3. ASSUME Blocks(x, m), WillTrigger(x) PROVE FALSE
    <3>1. pc = "trigger" /\ Trigger
      BY <1>1, <1>2, <1>3, <2>3 DEF WillTrigger, Busy, Release, Trigger, Cleaning
    <3>2. meshC[m] = mesh[m]
      BY <2>2 DEF InPeace, RefusalInv, CalmInv, StatusInv, CacheCurrent
    <3>3. m \in Peers
      BY <1>2, <2>1, <2>2, <2>3, <3>2 DEF Peers, Targeting, Blocks, InPeace, Refused
    <3>4. ~Spend("lost")
      BY DEF Spend, RefusalInv, OperatorsKnown
    <3>5. m \in meshEv'
      BY <2>2, <3>1, <3>3, <3>4 DEF Trigger, InPeace
    <3> QED
      BY <1>5, <3>5 DEF InPeace
  <2>4. \A o \in Mesh \ {x} : WillTrigger(o) => WillTrigger(o)'
    BY <1>2, <1>4 DEF WillTrigger, Busy
  <2>5. Founded(m)
    BY <2>2 DEF RefusalInv, DenialsFounded
  <2>6. mesh[x].phase # "live"
    BY <1>3 DEF Leaving
  <2> QED
    BY <1>4, <2>1, <2>3, <2>4, <2>5, <2>6, FoundedKeeps
<1> QED
  BY <1>5 DEF DenialsFounded

LEMMA FoundedController ==
  ASSUME RefusalInv, Controller
  PROVE  DenialsFounded'
<1> USE DEF hubVars, apiVars, cacheVars, eventVars
<1>1. TypeOK
  BY DEF RefusalInv, PathInv
<1>2. pc \in {"inventory", "determine"} \union Applying => ~Deletion
  BY DEF RefusalInv, PathInv, PathSound, Cleaning, Applying
<1>3. pc # "idle" => cur \in Mesh
  BY <1>1, AtWorkMesh
<1>4. CASE Fail
  BY <1>3, <1>4, FoundedAbandon DEF Fail
<1>5. CASE Inventory
  <2>1. CASE GiveUp
    BY <1>2, <1>3, <1>5, <2>1, FoundedAbandon DEF Inventory
  <2>2. CASE ~GiveUp
    BY <1>2, <1>3, <1>5, <2>2, FoundedSame DEF Inventory, Applying, Cleaning
  <2> QED
    BY <2>1, <2>2
<1>6. ASSUME NEW c \in Cluster, ApplyNamespace(c) \/ ApplyOperator(c) PROVE DenialsFounded'
  <2>1. pc \in Applying /\ UNCHANGED <<mesh, ts, meshEv>>
    BY <1>6 DEF ApplyNamespace, ApplyOperator, Applying
  <2>2. CASE GiveUp
    BY <1>2, <1>3, <2>1, <2>2, FoundedAbandon DEF Applying
  <2>3. CASE ~GiveUp
    <3>1. pc' \in {"operator", "namespace", "listOwned"} /\ UNCHANGED <<cur, my, queue>>
      BY <1>6, <2>3 DEF ApplyNamespace, ApplyOperator
    <3> QED
      BY <1>2, <1>3, <2>1, <3>1, FoundedSame DEF Applying, Cleaning
  <2> QED
    BY <2>2, <2>3
<1>7. CASE ListOwned \/ DeleteListed
  BY <1>3, <1>7, FoundedSame DEF ListOwned, DeleteListed, AfterCleanup, Cleaning
<1>8. CASE ListShared
  <2>1. CASE Abandon
    BY <1>3, <1>8, <2>1, FoundedAbandon DEF ListShared
  <2>2. CASE ~Abandon
    BY <1>3, <1>8, <2>2, FoundedSame DEF ListShared, AfterCleanup, Cleaning
  <2> QED
    BY <2>1, <2>2
<1>9. CASE Determine
  <2>1. CASE GiveUp
    BY <1>2, <1>3, <1>9, <2>1, FoundedAbandon DEF Determine
  <2>2. CASE ~GiveUp
    BY <1>2, <1>3, <1>9, <2>2, FoundedSame DEF Determine, Conflicts
  <2> QED
    BY <2>1, <2>2
<1> QED
  BY <1>4, <1>5, <1>6, <1>7, <1>8, <1>9, FoundedTake, FoundedValidate, FoundedStatus,
     FoundedFarewell DEF Controller

LEMMA RefusalInit == ASSUME NoWithdrawal, NoEdit, NoLoss PROVE Init => RefusalInv
<1> SUFFICES ASSUME Init PROVE RefusalInv
  OBVIOUS
<1>1. meshC = mesh /\ pc = "idle" /\ budget \in Quotas
  BY DEF Init, HubInit, ControllerInit
<1>2. OperatorsKnown
  BY <1>1 DEF OperatorsKnown, NoEdit, NoLoss
<1>3. \A m \in Mesh : mesh[m].ready = Unset
  <2>1. PICK op \in [Existing -> Config] :
          mesh = [m \in Mesh |-> IF m \in Existing
                    THEN [NewMesh(op[m]) EXCEPT !.fin = TRUE] ELSE Blank]
    BY DEF Init, HubInit
  <2> QED
    BY <2>1 DEF NewMesh, Blank
<1>4. DenialsFounded
  BY <1>1, <1>3 DEF DenialsFounded, Denied, Busy, Refused, Unset
<1>5. PathInv
  BY OwnershipInit DEF OwnershipInv, PathInv
<1> QED
  BY <1>2, <1>4, <1>5, CalmInit, RegisteredInit DEF RefusalInv

LEMMA RefusalNext == RefusalInv /\ [Next]_vars => RefusalInv'
<1> SUFFICES ASSUME RefusalInv, [Next]_vars PROVE RefusalInv'
  OBVIOUS
<1>1. TypeOK /\ StatusInv /\ PathInv /\ Registered /\ CalmInv /\ OperatorsKnown
  BY DEF RefusalInv, CalmInv, PathInv
<1>2. CalmInv' /\ PathInv' /\ Registered'
  BY <1>1, CalmNext, PathNext, RegisteredNext
<1>3. CASE Controller
  BY <1>1, <1>2, <1>3, OperatorsController, FoundedController DEF RefusalInv
<1>4. CASE Delivery
  <2>1. /\ UNCHANGED <<mesh, ts, pc, cur, my, verdict>>
        /\ queue \subseteq queue' /\ meshEv \subseteq meshEv' \union queue'
    BY <1>4 DEF Delivery, SyncMesh, SyncMember, SyncSet, SyncWork, SyncLister, apiVars, workerVars,
       eventVars
  <2> QED
    BY <1>1, <1>2, <1>4, <2>1, OperatorsDelivery, FoundedDelivery DEF RefusalInv
<1>5. CASE Environment
  BY <1>1, <1>2, <1>5, OperatorsEnvironment, FoundedEnvironment DEF RefusalInv
<1>6. CASE Crash
  <2>1. budget'["edit"] = 0 /\ budget'["lost"] = 0
    BY <1>1, <1>6, SpendNone DEF Crash, OperatorsKnown, Disturbance
  <2> QED
    BY <1>2, <1>6, <2>1 DEF Crash, Rest, RefusalInv, OperatorsKnown, DenialsFounded, InPeace, apiVars
<1>7. CASE UNCHANGED vars
  <2> USE DEF vars, hubVars, apiVars, cacheVars, eventVars, workerVars
  <2>1. DenialsFounded'
    BY <1>7, FoundedDelivery
  <2>2. OperatorsKnown'
    BY <1>1, <1>7 DEF OperatorsKnown, Deletion
  <2> QED
    BY <1>2, <2>1, <2>2 DEF RefusalInv
<1> QED
  BY <1>3, <1>4, <1>5, <1>6, <1>7 DEF Next

\* RestRefusedForCause: once nothing is left to do, a live mesh is refused only
\* for a conflict that still exists: whoever was in its way and was deleted has
\* told it, whatever the caches showed and wherever reconciles failed or the
\* controller restarted in between.  What is ruled out is what the code does
\* not pass on: an edit or a withdrawal of the older mesh, and a patch of the
\* annotation that fails.
THEOREM RefusedForCauseAtRest ==
  ASSUME NoWithdrawal, NoEdit, NoLoss
  PROVE  Spec => []RestRefusedForCause
<1>1. RefusalInv => RestRefusedForCause
  <2> SUFFICES ASSUME RefusalInv, AtRest, NEW m \in Mesh, mesh[m].phase = "live", Refused(m)
               PROVE  HasCause(m)
    BY DEF RestRefusedForCause
  <2>1. Founded(m)
    BY DEF RefusalInv, DenialsFounded, InPeace, Denied, Busy, AtRest
  <2>2. \A o \in Mesh : ~WillTrigger(o)
    BY DEF WillTrigger, Busy, AtRest
  <2> QED
    BY <2>1, <2>2 DEF Founded, Blocks, HasCause
<1>2. Init => RefusalInv
  BY RefusalInit
<1> QED
  BY <1>1, <1>2, RefusalNext, PTL DEF Spec
=============================================================================
