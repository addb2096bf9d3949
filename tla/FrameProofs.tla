------------------------------ MODULE FrameProofs ------------------------------
(***************************************************************************)
(* What TrustProofs and DiscoveryProofs share.  First the types of the     *)
(* frame's variables and what is known of the mesh that the worker         *)
(* reconciles: FrameInv is inductive for the frame's own actions and for   *)
(* every step of a worker that keeps to its path.  Then what properties at *)
(* rest need: Attention says that a mesh that nothing is about to queue is *)
(* seen by the caches as it is, and so are its set and clusters.           *)
(***************************************************************************)
EXTENDS MeshFrame, TLAPS

Present(m) == mesh[m].phase \in {"live", "deleting"} /\ mesh[m].fin
Leaving == {"deleting", "gone"}

\* What a cached mesh says of the mesh itself, however old the copy is.
CacheTrails ==
  \A m \in Mesh :
    /\ (meshC[m].phase = "live" /\ meshC[m].fin) => Present(m)
    /\ meshC[m].phase \in Leaving => mesh[m].phase \in Leaving

\* The worker is on the path that its copy of the mesh calls for; cleaning is
\* the path of a deletion.
Path(cleaning) ==
  /\ pc = "idle" => clusters = {}
  /\ (pc # "idle" /\ ~Deletion) => pc # "release" /\ Present(cur)
  /\ (pc # "idle" /\ Deletion) =>
       /\ pc \in cleaning \union {"release"} /\ clusters = {}
       /\ mesh[cur].phase \in Leaving /\ meshC[cur].phase \in Leaving

FrameInv(cleaning) == FrameTypeOK /\ CacheTrails /\ Path(cleaning)

\* Meshes only go forward; the cache takes what is there.
MeshesAge ==
  \A m \in Mesh : /\ Present(m) => Present(m)'
                  /\ mesh[m].phase \in Leaving => mesh'[m].phase \in Leaving
CacheCatchesUp == mesh' = mesh /\ \A m \in Mesh : meshC'[m] \in {meshC[m], mesh[m]}

-----------------------------------------------------------------------------
(* Values *)

LEMMA BlankTypes ==
  /\ Blank \in MeshRecord /\ Blank.phase = "none" /\ ~Blank.fin
  /\ Gone \in MeshRecord /\ Gone.phase = "gone"
<1>1. AnySetting \in Setting
  BY FrameAssumption DEF AnySetting
<1> QED
  BY <1>1 DEF Blank, Gone, MeshRecord

LEMMA SpendType ==
  ASSUME FrameTypeOK, NEW kind \in Disturbance, Spend(kind)
  PROVE  budget' \in [Disturbance -> Nat]
BY DEF FrameTypeOK, Spend

LEMMA WriteMeshType ==
  ASSUME FrameTypeOK, NEW m \in Mesh, NEW record \in MeshRecord, WriteMesh(m, record)
  PROVE  /\ mesh' \in [Mesh -> MeshRecord] /\ meshEv' \subseteq Mesh
         /\ \A o \in Mesh : mesh'[o] = IF o = m THEN record ELSE mesh[o]
BY DEF FrameTypeOK, WriteMesh

-----------------------------------------------------------------------------
(* What a step has to show *)

LEMMA CacheStep ==
  ASSUME CacheTrails, MeshesAge, UNCHANGED meshC \/ CacheCatchesUp
  PROVE  CacheTrails'
<1>1. CASE UNCHANGED meshC
  BY <1>1 DEF CacheTrails, MeshesAge
<1>2. CASE CacheCatchesUp
  BY <1>2 DEF CacheTrails, MeshesAge, CacheCatchesUp, Present
<1> QED
  BY <1>1, <1>2

\* Steps that the worker takes no part in.
LEMMA QuietStep ==
  ASSUME NEW cleaning, FrameInv(cleaning), FrameTypeOK', MeshesAge,
         UNCHANGED meshC \/ CacheCatchesUp, UNCHANGED <<pc, jobVars>>
  PROVE  FrameInv(cleaning)'
<1>1. CacheTrails'
  BY CacheStep DEF FrameInv
<1>2. pc # "idle" => cur \in Mesh
  BY DEF FrameInv, FrameTypeOK
<1>3. Path(cleaning)'
  BY <1>2 DEF FrameInv, Path, MeshesAge, CacheCatchesUp, Deletion, jobVars
<1> QED
  BY <1>1, <1>3 DEF FrameInv

\* The worker goes on with its job.
LEMMA JobStep ==
  ASSUME NEW cleaning, FrameInv(cleaning), UNCHANGED outerVars, UNCHANGED <<queue, cur, my, clusters>>,
         pc # "idle", todo' \subseteq Cluster, doomed' \subseteq Cluster, pc' # "idle",
         IF Deletion THEN pc' \in cleaning \union {"release"} ELSE pc' # "release"
  PROVE  FrameInv(cleaning)'
<1>1. FrameTypeOK'
  BY DEF FrameInv, FrameTypeOK, outerVars, worldVars, cacheVars, eventVars
<1>2. CacheTrails'
  BY DEF FrameInv, CacheTrails, Present, outerVars, worldVars, cacheVars
<1>3. Path(cleaning)'
  BY DEF FrameInv, Path, Present, Deletion, outerVars, worldVars, cacheVars
<1> QED
  BY <1>1, <1>2, <1>3 DEF FrameInv

\* The worker ends its job.
LEMMA JobEnd ==
  ASSUME NEW cleaning, FrameInv(cleaning), UNCHANGED outerVars, pc # "idle", Done \/ Requeue
  PROVE  FrameInv(cleaning)'
<1>1. FrameTypeOK'
  BY BlankTypes DEF FrameInv, FrameTypeOK, outerVars, worldVars, cacheVars, eventVars, Done, Requeue,
     Settle
<1>2. CacheTrails'
  BY DEF FrameInv, CacheTrails, Present, outerVars, worldVars, cacheVars
<1>3. Path(cleaning)'
  BY DEF Path, Done, Requeue, Settle
<1> QED
  BY <1>1, <1>2, <1>3 DEF FrameInv

-----------------------------------------------------------------------------
(* The frame's own actions *)

LEMMA InitInv == ASSUME NEW cleaning, FrameInit PROVE FrameInv(cleaning)
<1>1. \A m \in Existing : [Blank EXCEPT !.phase = "live", !.fin = TRUE, !.setting = Given[m]] \in MeshRecord
  BY BlankTypes, FrameAssumption DEF MeshRecord
<1>2. FrameTypeOK
  BY <1>1, BlankTypes, FrameAssumption DEF FrameInit, FrameTypeOK, ClusterRecord
<1>3. CacheTrails
  <2> SUFFICES ASSUME NEW m \in Mesh
               PROVE  /\ (meshC[m].phase = "live" /\ meshC[m].fin) => Present(m)
                      /\ meshC[m].phase \in Leaving => mesh[m].phase \in Leaving
    BY DEF CacheTrails
  <2> QED
    BY DEF FrameInit, Present
<1>4. Path(cleaning)
  BY DEF FrameInit, Path
<1> QED
  BY <1>2, <1>3, <1>4 DEF FrameInv

LEMMA TakeInv ==
  ASSUME NEW cleaning, FrameInv(cleaning), NEW m \in Mesh, TakeNothing(m) \/ TakeUnfinalized(m)
  PROVE  FrameInv(cleaning)' /\ MeshesAge /\ UNCHANGED <<pc, jobVars>>
<1>1. FrameTypeOK
  BY DEF FrameInv
<1>2. CASE TakeNothing(m)
  <2>1. FrameTypeOK'
    BY <1>1, <1>2 DEF TakeNothing, FrameTypeOK, outerVars, worldVars, cacheVars, eventVars, jobVars
  <2>2. MeshesAge
    BY <1>2 DEF TakeNothing, MeshesAge, Present, outerVars, worldVars
  <2> QED
    BY <1>2, <2>1, <2>2, QuietStep DEF TakeNothing, outerVars, cacheVars
<1>3. CASE TakeUnfinalized(m)
  <2> DEFINE record == [mesh[m] EXCEPT !.fin = TRUE, !.rv = @ + 1]
  <2>1. record \in MeshRecord /\ record.phase = mesh[m].phase /\ record.fin
    <3>1. mesh[m] \in MeshRecord /\ mesh[m].rv + 1 \in Nat
      BY <1>1 DEF FrameTypeOK, MeshRecord
    <3> QED
      BY <3>1 DEF MeshRecord
  <2>2. WriteMesh(m, record) \/ UNCHANGED <<mesh, meshEv>>
    BY <1>3 DEF TakeUnfinalized
  <2> HIDE DEF record
  <2>3. FrameTypeOK' /\ MeshesAge
    <3>1. CASE WriteMesh(m, record)
      BY <1>1, <1>3, <2>1, <3>1, WriteMeshType
      DEF TakeUnfinalized, FrameTypeOK, cacheVars, jobVars, MeshesAge, Present
    <3>2. CASE UNCHANGED <<mesh, meshEv>>
      BY <1>1, <1>3, <3>2
      DEF TakeUnfinalized, FrameTypeOK, cacheVars, jobVars, MeshesAge, Present
    <3> QED
      BY <2>2, <3>1, <3>2
  <2> QED
    BY <1>3, <2>3, QuietStep DEF TakeUnfinalized, cacheVars
<1> QED
  BY <1>2, <1>3

LEMMA TakeLiveInv ==
  ASSUME NEW cleaning, FrameInv(cleaning), NEW m \in Mesh, NEW STATE each, NEW after,
         TakeLive(m, each, after), {each, after} \intersect {"idle", "release"} = {}
  PROVE  FrameInv(cleaning)' /\ UNCHANGED outerVars
<1>1. m = cur' /\ my' = meshC[m] /\ pc' \in {each, after} /\ meshC[m].phase = "live" /\ meshC[m].fin
  BY DEF TakeLive
<1>2. UNCHANGED <<mesh, meshC>> /\ UNCHANGED outerVars
  BY DEF TakeLive, outerVars, worldVars, cacheVars
<1>3. FrameTypeOK'
  <2>1. clusters' \subseteq Cluster /\ todo' = clusters'
    BY DEF TakeLive, SetMembers
  <2> QED
    BY <1>1, <2>1 DEF FrameInv, FrameTypeOK, TakeLive, outerVars, worldVars, cacheVars, eventVars
<1>4. CacheTrails'
  BY <1>2 DEF FrameInv, CacheTrails, Present
<1>5. Present(m)'
  BY <1>1, <1>2 DEF FrameInv, CacheTrails, Present
<1>6. Path(cleaning)'
  BY <1>1, <1>5 DEF Path, Deletion
<1> QED
  BY <1>2, <1>3, <1>4, <1>6 DEF FrameInv

LEMMA TakeDeletingInv ==
  ASSUME NEW cleaning, FrameInv(cleaning), NEW m \in Mesh, NEW first \in cleaning,
         first # "idle", TakeDeleting(m, first)
  PROVE  FrameInv(cleaning)' /\ UNCHANGED outerVars
<1>1. m = cur' /\ my' = meshC[m] /\ pc' = first /\ meshC[m].phase = "deleting" /\ pc = "idle"
  BY DEF TakeDeleting
<1>2. UNCHANGED <<mesh, meshC>> /\ UNCHANGED outerVars
  BY DEF TakeDeleting, outerVars, worldVars, cacheVars
<1>3. FrameTypeOK'
  BY <1>1 DEF FrameInv, FrameTypeOK, TakeDeleting, outerVars, worldVars, cacheVars, eventVars
<1>4. CacheTrails'
  BY <1>2 DEF FrameInv, CacheTrails, Present
<1>5. mesh[m].phase \in Leaving /\ meshC[m].phase \in Leaving
  BY <1>1 DEF FrameInv, CacheTrails, Leaving
<1>6. clusters' = {}
  BY <1>1 DEF TakeDeleting, FrameInv, Path
<1>7. Path(cleaning)'
  BY <1>1, <1>2, <1>5, <1>6 DEF Path, Deletion
<1> QED
  BY <1>2, <1>3, <1>4, <1>7 DEF FrameInv

LEMMA FailInv ==
  ASSUME NEW cleaning, FrameInv(cleaning), Fail
  PROVE  FrameInv(cleaning)' /\ UNCHANGED <<mesh, meshC>> /\ pc' = "idle"
<1>1. UNCHANGED <<mesh, meshC>> /\ Requeue /\ pc # "idle"
  BY DEF Fail, worldVars, cacheVars
<1>2. FrameTypeOK'
  <2>1. budget' \in [Disturbance -> Nat]
    BY SpendType DEF Fail, FrameInv, Disturbance
  <2> QED
    BY <1>1, <2>1, BlankTypes DEF FrameInv, FrameTypeOK, Fail, Requeue, Settle, worldVars, cacheVars,
       eventVars
<1>3. CacheTrails'
  BY <1>1 DEF FrameInv, CacheTrails, Present
<1>4. Path(cleaning)' /\ pc' = "idle"
  BY <1>1 DEF Path, Requeue, Settle
<1> QED
  BY <1>1, <1>2, <1>3, <1>4 DEF FrameInv

LEMMA CrashInv ==
  ASSUME NEW cleaning, FrameInv(cleaning), FrameCrash
  PROVE  FrameInv(cleaning)' /\ MeshesAge /\ pc' = "idle"
<1>1. mesh' = mesh /\ meshC' = mesh /\ Settle
  BY DEF FrameCrash, worldVars
<1>2. FrameTypeOK'
  <2>1. budget' \in [Disturbance -> Nat]
    BY SpendType DEF FrameCrash, FrameInv, Disturbance
  <2> QED
    BY <1>1, <2>1, BlankTypes DEF FrameInv, FrameTypeOK, FrameCrash, Settle, worldVars
<1>3. CacheTrails' /\ MeshesAge
  BY <1>1 DEF CacheTrails, MeshesAge, Present
<1>4. Path(cleaning)' /\ pc' = "idle"
  BY <1>1 DEF Path, Settle
<1> QED
  BY <1>2, <1>3, <1>4 DEF FrameInv

\* Only a mesh that the worker found deleting, and is at the end of cleaning up
\* after, loses its finalizer.
LEMMA ReleaseInv ==
  ASSUME NEW cleaning, FrameInv(cleaning), Release
  PROVE  /\ FrameInv(cleaning)' /\ pc' = "idle"
         /\ pc = "release" /\ Deletion /\ cur \in Mesh
         /\ \A m \in Mesh \ {cur} : mesh'[m] = mesh[m]
<1>1. pc = "release" /\ cur \in Mesh /\ Deletion /\ meshC[cur].phase \in Leaving
  BY DEF Release, FrameInv, FrameTypeOK, Path
<1>2. UNCHANGED meshC /\ (Done \/ Requeue)
  BY DEF Release, cacheVars
<1>3. /\ FrameTypeOK'
      /\ \A m \in Mesh \ {cur} : mesh'[m] = mesh[m]
      /\ mesh'[cur] \in {mesh[cur], Gone}
  <2>1. CASE WriteMesh(cur, Gone)
    <3>1. /\ mesh' \in [Mesh -> MeshRecord] /\ meshEv' \subseteq Mesh
          /\ \A o \in Mesh : mesh'[o] = IF o = cur THEN Gone ELSE mesh[o]
      BY <1>1, <2>1, WriteMeshType, BlankTypes DEF FrameInv
    <3> QED
      BY <1>1, <1>2, <3>1, BlankTypes DEF FrameInv, FrameTypeOK, Release, Done, Requeue, Settle, cacheVars
  <2>2. CASE UNCHANGED <<mesh, meshEv>>
    BY <1>1, <1>2, <2>2, BlankTypes
    DEF FrameInv, FrameTypeOK, Release, Done, Requeue, Settle, cacheVars
  <2> QED
    BY <2>1, <2>2 DEF Release
<1>4. CacheTrails'
  BY <1>1, <1>2, <1>3, BlankTypes DEF FrameInv, CacheTrails, Present, Leaving
<1>5. Path(cleaning)' /\ pc' = "idle"
  BY <1>2 DEF Path, Done, Requeue, Settle
<1> QED
  BY <1>1, <1>3, <1>4, <1>5 DEF FrameInv

LEMMA DeliveryInv ==
  ASSUME NEW cleaning, FrameInv(cleaning), FrameDelivery
  PROVE  FrameInv(cleaning)' /\ MeshesAge /\ UNCHANGED <<pc, jobVars>>
<1>1. FrameTypeOK
  BY DEF FrameInv
<1>2. mesh' = mesh /\ UNCHANGED <<pc, jobVars>>
  BY DEF FrameDelivery, SyncMesh, SyncCluster, SyncSet, worldVars
<1>3. MeshesAge
  BY <1>2 DEF MeshesAge, Present
<1>4. ASSUME NEW m \in Mesh, SyncMesh(m) PROVE FrameTypeOK' /\ CacheCatchesUp
  BY <1>1, <1>4 DEF SyncMesh, FrameTypeOK, CacheCatchesUp, worldVars, jobVars
<1>5. ASSUME NEW c \in Cluster, SyncCluster(c) PROVE FrameTypeOK' /\ CacheCatchesUp
  BY <1>1, <1>5 DEF SyncCluster, Targeting, FrameTypeOK, CacheCatchesUp, worldVars, jobVars
<1>6. ASSUME NEW s \in Set, SyncSet(s) PROVE FrameTypeOK' /\ CacheCatchesUp
  BY <1>1, <1>6 DEF SyncSet, Targeting, FrameTypeOK, CacheCatchesUp, worldVars, jobVars
<1>7. FrameTypeOK' /\ CacheCatchesUp
  BY <1>4, <1>5, <1>6 DEF FrameDelivery
<1> QED
  BY <1>2, <1>3, <1>7, QuietStep

LEMMA UsersInv ==
  ASSUME NEW cleaning, FrameInv(cleaning), FrameUsers
  PROVE  FrameInv(cleaning)' /\ MeshesAge /\ UNCHANGED <<pc, jobVars>>
<1>1. FrameTypeOK
  BY DEF FrameInv
<1>2. ASSUME NEW m \in Mesh, NEW record \in MeshRecord, UserWrites(m, record),
             NEW kind \in Disturbance, Spend(kind),
             Present(m) => record.phase \in {"live", "deleting"} /\ record.fin,
             mesh[m].phase \in Leaving => record.phase \in Leaving
      PROVE  FrameInv(cleaning)' /\ MeshesAge /\ UNCHANGED <<pc, jobVars>>
  <2> DEFINE new == [record EXCEPT !.rv = mesh[m].rv + 1]
  <2>1. mesh[m].rv + 1 \in Nat
    BY <1>1 DEF FrameTypeOK, MeshRecord
  <2>2. new \in MeshRecord /\ new.phase = record.phase /\ new.fin = record.fin
    BY <2>1 DEF MeshRecord
  <2>3. WriteMesh(m, new) /\ UNCHANGED <<meshC, pc, jobVars>>
    BY <1>2 DEF UserWrites, cacheVars
  <2> HIDE DEF new
  <2>4. FrameTypeOK'
    BY <1>1, <1>2, <2>2, <2>3, WriteMeshType, SpendType
    DEF UserWrites, FrameTypeOK, cacheVars, jobVars
  <2>5. MeshesAge
    BY <1>1, <1>2, <2>2, <2>3, WriteMeshType DEF MeshesAge, Present
  <2> QED
    BY <2>3, <2>4, <2>5, QuietStep
<1>3. ASSUME NEW m \in Mesh, CreateMesh(m)
      PROVE  FrameInv(cleaning)' /\ MeshesAge /\ UNCHANGED <<pc, jobVars>>
  <2>1. PICK setting \in Setting : UserWrites(m, [Blank EXCEPT !.phase = "live", !.setting = setting])
    BY <1>3 DEF CreateMesh
  <2>2. [Blank EXCEPT !.phase = "live", !.setting = setting] \in MeshRecord
    BY BlankTypes DEF MeshRecord
  <2> QED
    BY <1>2, <1>3, <2>1, <2>2 DEF CreateMesh, Disturbance, Present, Leaving
<1>4. \A m \in Mesh : mesh[m] \in MeshRecord
  BY <1>1 DEF FrameTypeOK
<1>5. ASSUME NEW m \in Mesh, DeleteMesh(m)
      PROVE  FrameInv(cleaning)' /\ MeshesAge /\ UNCHANGED <<pc, jobVars>>
  <2> DEFINE record == [mesh[m] EXCEPT !.phase = "deleting"]
  <2>1. record \in MeshRecord /\ record.phase = "deleting" /\ record.fin = mesh[m].fin
    BY <1>4 DEF MeshRecord
  <2>2. UserWrites(m, record) /\ Spend("delete") /\ "delete" \in Disturbance
    BY <1>5 DEF DeleteMesh, Disturbance
  <2> HIDE DEF record
  <2> QED
    BY <1>2, <2>1, <2>2 DEF Present, Leaving
<1>6. ASSUME NEW m \in Mesh, WithdrawMesh(m)
      PROVE  FrameInv(cleaning)' /\ MeshesAge /\ UNCHANGED <<pc, jobVars>>
  <2>1. UserWrites(m, Gone) /\ Spend("withdraw") /\ "withdraw" \in Disturbance /\ ~mesh[m].fin
    BY <1>6 DEF WithdrawMesh, Disturbance
  <2> QED
    BY <1>2, <2>1, BlankTypes DEF Present, Leaving
<1>7. ASSUME NEW m \in Mesh, EditMesh(m)
      PROVE  FrameInv(cleaning)' /\ MeshesAge /\ UNCHANGED <<pc, jobVars>>
  <2>1. ASSUME NEW record \in MeshRecord, UserWrites(m, record), Spend("edit") \/ Spend("clash"),
               record.phase = mesh[m].phase, record.fin = mesh[m].fin
        PROVE  FrameInv(cleaning)' /\ MeshesAge /\ UNCHANGED <<pc, jobVars>>
    BY <1>2, <2>1 DEF Disturbance, Present
  <2>2. ASSUME NEW setting \in Setting, Spend("edit"),
               UserWrites(m, [mesh[m] EXCEPT !.setting = setting])
        PROVE  FrameInv(cleaning)' /\ MeshesAge /\ UNCHANGED <<pc, jobVars>>
    <3> DEFINE record == [mesh[m] EXCEPT !.setting = setting]
    <3>1. record \in MeshRecord /\ record.phase = mesh[m].phase /\ record.fin = mesh[m].fin
      BY <1>4 DEF MeshRecord
    <3>2. UserWrites(m, record)
      BY <2>2
    <3> HIDE DEF record
    <3> QED
      BY <2>1, <2>2, <3>1, <3>2
  <2>3. ASSUME Spend("clash"), UserWrites(m, [mesh[m] EXCEPT !.clash = ~@])
        PROVE  FrameInv(cleaning)' /\ MeshesAge /\ UNCHANGED <<pc, jobVars>>
    <3> DEFINE record == [mesh[m] EXCEPT !.clash = ~@]
    <3>1. record \in MeshRecord /\ record.phase = mesh[m].phase /\ record.fin = mesh[m].fin
      BY <1>4 DEF MeshRecord
    <3>2. UserWrites(m, record)
      BY <2>3
    <3> HIDE DEF record
    <3> QED
      BY <2>1, <2>3, <3>1, <3>2
  <2> QED
    BY <1>7, <2>2, <2>3 DEF EditMesh
<1>8. ASSUME mesh' = mesh, meshC' = meshC, UNCHANGED <<pc, jobVars>>, FrameTypeOK'
      PROVE  FrameInv(cleaning)' /\ MeshesAge /\ UNCHANGED <<pc, jobVars>>
  <2>1. MeshesAge
    BY <1>8 DEF MeshesAge, Present
  <2> QED
    BY <1>8, <2>1, QuietStep
<1>9. ASSUME NEW c \in Cluster, ChangeCluster(c)
      PROVE  FrameInv(cleaning)' /\ MeshesAge /\ UNCHANGED <<pc, jobVars>>
  <2>1. cluster[c] \in ClusterRecord /\ cluster[c].url \in BOOLEAN
    BY <1>1 DEF FrameTypeOK, ClusterRecord
  <2>2. ASSUME NEW record \in ClusterRecord, WriteCluster(c, record), NEW kind \in Disturbance, Spend(kind)
        PROVE  FrameInv(cleaning)' /\ MeshesAge /\ UNCHANGED <<pc, jobVars>>
    <3>1. FrameTypeOK'
      BY <1>1, <2>2, SpendType DEF WriteCluster, FrameTypeOK, cacheVars, jobVars
    <3> QED
      BY <1>8, <2>2, <3>1 DEF WriteCluster, cacheVars
  <2>3. \A s \in Set \union {NoSet} : [cluster[c] EXCEPT !.set = s] \in ClusterRecord
    BY <2>1 DEF ClusterRecord
  <2>4. [cluster[c] EXCEPT !.url = ~@] \in ClusterRecord
    BY <2>1 DEF ClusterRecord
  <2> QED
    BY <1>9, <2>2, <2>3, <2>4 DEF ChangeCluster, Disturbance
<1>10. ASSUME NEW s \in Set, ChangeSet(s)
      PROVE  FrameInv(cleaning)' /\ MeshesAge /\ UNCHANGED <<pc, jobVars>>
  <2>1. "set" \in Disturbance
    BY DEF Disturbance
  <2>2. FrameTypeOK'
    BY <1>1, <1>10, <2>1, SpendType DEF ChangeSet, FrameTypeOK, cacheVars, jobVars
  <2> QED
    BY <1>8, <1>10, <2>2 DEF ChangeSet, cacheVars
<1> QED
  BY <1>3, <1>5, <1>6, <1>7, <1>9, <1>10 DEF FrameUsers

-----------------------------------------------------------------------------
(* Attention: whoever changes what a mesh depends on gets the mesh queued *)

Working(m) == pc # "idle" /\ cur = m

\* An object without an undelivered event is cached as it is.
Copies ==
  /\ \A m \in Mesh \ meshEv : meshC[m] = mesh[m]
  /\ \A c \in Cluster \ clusterEv : clusterC[c] = cluster[c]
  /\ \A s \in Set \ setEv : s \in setsC <=> s \in sets

\* A mesh without finalizer, and one that is to be cleaned up after, is not
\* forgotten.
Attended ==
  \A m \in Mesh :
    /\ (mesh[m].phase = "deleting" => mesh[m].fin) /\ (meshC[m].phase = "deleting" => meshC[m].fin)
    /\ (meshC[m].phase = "live" /\ ~meshC[m].fin) => m \in queue \union meshEv
    /\ meshC[m].phase = "deleting" => m \in queue \union meshEv \/ Working(m)

\* What the worker knows is what the caches say, unless its mesh is queued again.
JobCurrent ==
  pc # "idle" =>
    /\ my.phase = "deleting" \/ (my.phase = "live" /\ my.fin /\ ~my.clash)
    /\ cur \notin queue =>
         my = meshC[cur] /\ (~Deletion => clusters = SetMembers(SetOf[cur]))

Attention == Copies /\ Attended /\ JobCurrent

\* Accepted as far as the caches tell, and not to be reconciled again.
Steady(m) == m \notin queue /\ meshC[m].phase = "live" /\ meshC[m].fin /\ ~meshC[m].clash

\* A step that leaves the mesh steady, and what its reconcile is made from.
SameView(m) ==
  /\ Steady(m) /\ meshC'[m] = meshC[m]
  /\ SetOf[m] \in setsC' <=> SetOf[m] \in setsC
  /\ SetMembers(SetOf[m])' = SetMembers(SetOf[m])
  /\ \A c \in SetMembers(SetOf[m]) : clusterC'[c] = clusterC[c]

\* At rest the caches are right, the accepted meshes are steady, and no
\* deletion is under way.
LEMMA RestView ==
  ASSUME FrameTypeOK, Attention, FrameAtRest, NEW m \in Mesh
  PROVE  /\ meshC[m] = mesh[m] /\ mesh[m].phase # "deleting" /\ ~Working(m)
         /\ mesh[m].phase = "live" => mesh[m].fin
         /\ Accepted(m) => Steady(m)
         /\ ClustersOf(SetOf[m]) = SetMembers(SetOf[m])
         /\ SetOf[m] \in sets <=> SetOf[m] \in setsC
         /\ \A c \in Cluster : clusterC[c] = cluster[c]
<1>1. meshC[m] = mesh[m] /\ (\A c \in Cluster : clusterC[c] = cluster[c])
      /\ (SetOf[m] \in setsC <=> SetOf[m] \in sets)
  BY FrameAssumption DEF Attention, Copies, FrameAtRest
<1>2. mesh[m].phase # "deleting" /\ ~Working(m) /\ (mesh[m].phase = "live" => mesh[m].fin)
  BY <1>1 DEF Attention, Attended, FrameAtRest, Working
<1> QED
  BY <1>1, <1>2 DEF Accepted, Steady, FrameAtRest, ClustersOf, SetMembers

LEMMA AttentionInit == FrameInit => Attention
<1> SUFFICES ASSUME FrameInit PROVE Attention
  OBVIOUS
<1>1. Copies /\ JobCurrent
  BY DEF FrameInit, Copies, JobCurrent
<1>2. ASSUME NEW m \in Mesh PROVE (mesh[m].phase = "live" /\ mesh[m].fin) \/ mesh[m].phase = "none"
  BY BlankTypes DEF FrameInit, Blank
<1>3. Attended
  BY <1>2 DEF FrameInit, Attended
<1> QED
  BY <1>1, <1>3 DEF Attention

\* The worker goes on.
LEMMA AttentionJob ==
  ASSUME Attention, UNCHANGED outerVars, UNCHANGED <<queue, cur, my, clusters>>,
         pc # "idle", pc' # "idle"
  PROVE  Attention' /\ \A m \in Mesh : Steady(m)' => SameView(m)
BY DEF Attention, Copies, Attended, JobCurrent, Working, Deletion, SetMembers, Steady, SameView,
   outerVars, worldVars, cacheVars, eventVars

\* The worker is done with a mesh that is not deleted, or will come back to it.
LEMMA AttentionEnd ==
  ASSUME Attention, UNCHANGED outerVars, pc # "idle", (Done /\ ~Deletion) \/ Requeue
  PROVE  Attention' /\ \A m \in Mesh : Steady(m)' => SameView(m)
<1>1. /\ UNCHANGED <<mesh, cluster, sets, meshC, clusterC, setsC, meshEv, clusterEv, setEv>>
      /\ pc' = "idle" /\ queue \subseteq queue'
  BY DEF outerVars, worldVars, cacheVars, eventVars, Done, Requeue, Settle
<1>2. Copies' /\ JobCurrent'
  BY <1>1 DEF Attention, Copies, JobCurrent
<1>3. ASSUME NEW m \in Mesh, meshC[m].phase = "deleting", Working(m) PROVE m \in queue' \union meshEv
  BY <1>3 DEF Attention, JobCurrent, Deletion, Working, Done, Requeue
<1>4. Attended'
  BY <1>1, <1>3 DEF Attention, Attended
<1> QED
  BY <1>1, <1>2, <1>4 DEF Attention, Steady, SameView, SetMembers

\* Steps that leave the frame alone, but may queue meshes.
LEMMA AttentionQuiet ==
  ASSUME Attention, UNCHANGED <<worldVars, cacheVars, eventVars, pc, jobVars>>, queue \subseteq queue'
  PROVE  Attention' /\ \A m \in Mesh : Steady(m)' => SameView(m)
BY DEF Attention, Copies, Attended, JobCurrent, Working, Deletion, SetMembers, Steady, SameView,
   worldVars, cacheVars, eventVars, jobVars

\* A worker that stops, for an error or a restart, comes back to its mesh.
LEMMA AttentionFail == ASSUME Attention, Fail PROVE Attention' /\ \A m \in Mesh : Steady(m)' => SameView(m)
<1>1. /\ UNCHANGED <<mesh, cluster, sets, meshC, clusterC, setsC, meshEv, clusterEv, setEv>>
      /\ pc' = "idle" /\ queue' = queue \union {cur}
  BY DEF Fail, worldVars, cacheVars, eventVars, Requeue, Settle
<1>2. Copies' /\ JobCurrent' /\ Attended'
  BY <1>1 DEF Attention, Copies, JobCurrent, Attended, Working
<1> QED
  BY <1>1, <1>2 DEF Attention, Steady, SameView, SetMembers

LEMMA AttentionCrash ==
  ASSUME FrameTypeOK, Attention, FrameCrash
  PROVE  Attention' /\ \A m \in Mesh : ~Steady(m)'
<1>1. /\ UNCHANGED <<mesh, cluster, sets>> /\ meshC' = mesh /\ clusterC' = cluster /\ setsC' = sets
      /\ pc' = "idle" /\ queue' = {m \in Mesh : mesh[m].phase \in {"live", "deleting"}}
  BY DEF FrameCrash, worldVars, Settle
<1>2. Copies' /\ JobCurrent' /\ Attended'
  BY <1>1 DEF Attention, Copies, JobCurrent, Attended
<1> QED
  BY <1>1, <1>2 DEF Attention, Steady

LEMMA AttentionTake ==
  ASSUME FrameTypeOK, Attention, NEW o \in Mesh, TakeNothing(o) \/ TakeUnfinalized(o)
  PROVE  Attention' /\ \A m \in Mesh : Steady(m)' => SameView(m)
<1>1. /\ UNCHANGED <<cluster, sets, meshC, clusterC, setsC, clusterEv, setEv>> /\ UNCHANGED <<pc, jobVars>>
      /\ pc = "idle" /\ queue' \in {queue, queue \ {o}} /\ ~(meshC[o].phase = "live" /\ meshC[o].fin /\ ~meshC[o].clash)
  BY DEF TakeNothing, TakeUnfinalized, outerVars, worldVars, cacheVars, eventVars
<1>2. \A m \in Mesh : Steady(m)' => SameView(m)
  BY <1>1 DEF Steady, SameView, SetMembers
<1>3. JobCurrent'
  BY <1>1 DEF JobCurrent
<1>4. CASE TakeNothing(o)
  <2>1. UNCHANGED <<mesh, meshEv>> /\ queue' = queue \ {o}
    BY <1>4 DEF TakeNothing, outerVars, worldVars, eventVars
  <2>2. Copies'
    BY <1>1, <2>1 DEF Attention, Copies
  <2>3. Attended'
    BY <1>1, <1>4, <2>1 DEF Attention, Attended, TakeNothing, Working, jobVars
  <2> QED
    BY <1>2, <1>3, <2>2, <2>3 DEF Attention
<1>5. CASE TakeUnfinalized(o)
  <2> DEFINE record == [mesh[o] EXCEPT !.fin = TRUE, !.rv = @ + 1]
  <2>1. CASE UNCHANGED <<mesh, meshEv, queue>>
    BY <1>1, <1>2, <1>3, <2>1 DEF Attention, Copies, Attended, Working, jobVars
  <2>2. CASE WriteMesh(o, record) /\ queue' = queue \ {o}
    <3>1. mesh[o] \in MeshRecord /\ record \in MeshRecord /\ record.fin
      <4>1. mesh[o] \in MeshRecord /\ mesh[o].rv + 1 \in Nat
        BY DEF FrameTypeOK, MeshRecord
      <4> QED
        BY <4>1 DEF MeshRecord
    <3> HIDE DEF record
    <3>2. meshEv' = meshEv \union {o} /\ \A m \in Mesh : mesh'[m] = IF m = o THEN record ELSE mesh[m]
      BY <2>2, <3>1, WriteMeshType DEF WriteMesh
    <3>3. Copies'
      BY <1>1, <3>2 DEF Attention, Copies
    <3>4. Attended'
      BY <1>1, <2>2, <3>1, <3>2 DEF Attention, Attended, Working, jobVars
    <3> QED
      BY <1>2, <1>3, <3>3, <3>4 DEF Attention
  <2> QED
    BY <1>5, <2>1, <2>2 DEF TakeUnfinalized
<1> QED
  BY <1>4, <1>5

LEMMA AttentionTakeLive ==
  ASSUME Attention, NEW o \in Mesh, NEW STATE each, NEW after, TakeLive(o, each, after),
         {each, after} \intersect {"idle"} = {}
  PROVE  Attention' /\ \A m \in Mesh : Steady(m)' => m = o \/ SameView(m)
<1>1. /\ UNCHANGED <<mesh, cluster, sets, meshC, clusterC, setsC, meshEv, clusterEv, setEv>>
      /\ pc = "idle" /\ pc' # "idle" /\ queue' = queue \ {o} /\ cur' = o /\ my' = meshC[o]
      /\ clusters' = SetMembers(SetOf[o]) /\ meshC[o].phase = "live" /\ meshC[o].fin /\ ~meshC[o].clash
  BY DEF TakeLive, outerVars, worldVars, cacheVars, eventVars
<1>2. Copies' /\ JobCurrent'
  BY <1>1 DEF Attention, Copies, JobCurrent, SetMembers
<1>3. Attended'
  BY <1>1 DEF Attention, Attended, Working
<1> QED
  BY <1>1, <1>2, <1>3 DEF Attention, Steady, SameView, SetMembers

LEMMA AttentionTakeDeleting ==
  ASSUME Attention, NEW o \in Mesh, NEW first, TakeDeleting(o, first), first # "idle"
  PROVE  Attention' /\ \A m \in Mesh : Steady(m)' => SameView(m)
<1>1. /\ UNCHANGED <<mesh, cluster, sets, meshC, clusterC, setsC, meshEv, clusterEv, setEv>>
      /\ pc = "idle" /\ pc' # "idle" /\ queue' = queue \ {o} /\ cur' = o /\ my' = meshC[o]
      /\ meshC[o].phase = "deleting"
  BY DEF TakeDeleting, outerVars, worldVars, cacheVars, eventVars
<1>2. Copies' /\ JobCurrent'
  BY <1>1 DEF Attention, Copies, JobCurrent, Deletion
<1>3. Attended'
  BY <1>1 DEF Attention, Attended, Working
<1> QED
  BY <1>1, <1>2, <1>3 DEF Attention, Steady, SameView, SetMembers

LEMMA AttentionRelease ==
  ASSUME FrameTypeOK, Attention, Release, Deletion
  PROVE  Attention' /\ \A m \in Mesh : Steady(m)' => SameView(m)
<1>1. /\ UNCHANGED <<cluster, sets, meshC, clusterC, setsC, clusterEv, setEv>>
      /\ pc # "idle" /\ pc' = "idle" /\ cur \in Mesh
      /\ \/ WriteMesh(cur, Gone) /\ queue' = queue
         \/ UNCHANGED <<mesh, meshEv>> /\ queue' = queue \union {cur}
  BY DEF Release, cacheVars, Done, Requeue, Settle, FrameTypeOK
<1>2. JobCurrent'
  BY <1>1 DEF JobCurrent
<1>3. \A m \in Mesh : Steady(m)' => SameView(m)
  BY <1>1 DEF Steady, SameView, SetMembers
<1>4. CASE WriteMesh(cur, Gone) /\ queue' = queue
  <2>1. meshEv' = meshEv \union {cur} /\ \A m \in Mesh : mesh'[m] = IF m = cur THEN Gone ELSE mesh[m]
    BY <1>1, <1>4, WriteMeshType, BlankTypes DEF WriteMesh
  <2>2. Copies' /\ Attended'
    BY <1>1, <1>4, <2>1, BlankTypes DEF Attention, Copies, Attended, Working
  <2> QED
    BY <1>2, <1>3, <2>2 DEF Attention
<1>5. CASE UNCHANGED <<mesh, meshEv>> /\ queue' = queue \union {cur}
  BY <1>1, <1>2, <1>3, <1>5 DEF Attention, Copies, Attended, Working
<1> QED
  BY <1>1, <1>4, <1>5

LEMMA AttentionDelivery ==
  ASSUME FrameTypeOK, Attention, FrameDelivery
  PROVE  Attention' /\ \A m \in Mesh : Steady(m)' => SameView(m)
<1>1. UNCHANGED <<mesh, cluster, sets>> /\ UNCHANGED <<pc, cur, my, clusters>> /\ queue \subseteq queue'
  BY DEF FrameDelivery, SyncMesh, SyncCluster, SyncSet, worldVars, jobVars
<1>2. ASSUME Copies', \A m \in Mesh : m \in meshEv \ meshEv' => m \in queue',
             \A m \in Mesh : meshC'[m] = meshC[m] \/ m \in queue' \/ m \in meshEv',
             \A m \in Mesh : meshC'[m] \in {meshC[m], mesh[m]},
             \A m \in Mesh : (m \notin queue' /\ meshC[m].phase = "live") =>
                /\ meshC'[m] = meshC[m] /\ (SetOf[m] \in setsC' <=> SetOf[m] \in setsC)
                /\ SetMembers(SetOf[m])' = SetMembers(SetOf[m])
                /\ \A c \in SetMembers(SetOf[m]) : clusterC'[c] = clusterC[c],
             \A m \in Mesh : m \notin queue' => meshC'[m] = meshC[m]
      PROVE  Attention' /\ \A m \in Mesh : Steady(m)' => SameView(m)
  <2>1. Attended'
    BY <1>1, <1>2 DEF Attention, Attended, Working
  <2>2. JobCurrent'
    <3>1. pc # "idle" => cur \in Mesh
      BY DEF FrameTypeOK
    <3> QED
      BY <1>1, <1>2, <3>1 DEF Attention, JobCurrent, Deletion
  <2> QED
    BY <1>1, <1>2, <2>1, <2>2 DEF Attention, Steady, SameView
<1>3. ASSUME NEW o \in Mesh, SyncMesh(o)
      PROVE  Attention' /\ \A m \in Mesh : Steady(m)' => SameView(m)
  <2>1. /\ \A m \in Mesh : meshC'[m] = IF m = o THEN mesh[o] ELSE meshC[m]
        /\ meshEv' = meshEv \ {o} /\ queue' = queue \union {o}
        /\ UNCHANGED <<clusterC, setsC, clusterEv, setEv>>
    BY <1>3 DEF SyncMesh, FrameTypeOK
  <2>2. Copies'
    BY <1>1, <2>1 DEF Attention, Copies
  <2> QED
    BY <1>1, <1>2, <2>1, <2>2 DEF SetMembers
<1>4. ASSUME NEW c \in Cluster, SyncCluster(c)
      PROVE  Attention' /\ \A m \in Mesh : Steady(m)' => SameView(m)
  <2>1. /\ \A d \in Cluster : clusterC'[d] = IF d = c THEN cluster[c] ELSE clusterC[d]
        /\ clusterEv' = clusterEv \ {c}
        /\ queue' = queue \union Targeting(clusterC[c].set) \union Targeting(cluster[c].set)
        /\ UNCHANGED <<meshC, setsC, meshEv, setEv>>
    BY <1>4 DEF SyncCluster, FrameTypeOK
  <2>2. Copies'
    BY <1>1, <2>1 DEF Attention, Copies
  <2>3. ASSUME NEW m \in Mesh, m \notin queue', meshC[m].phase = "live"
        PROVE  /\ SetMembers(SetOf[m])' = SetMembers(SetOf[m])
               /\ \A d \in SetMembers(SetOf[m]) : clusterC'[d] = clusterC[d]
    <3>1. clusterC[c].set # SetOf[m] /\ cluster[c].set # SetOf[m]
      BY <2>1, <2>3 DEF Targeting
    <3> QED
      BY <2>1, <3>1 DEF SetMembers
  <2> QED
    BY <1>1, <1>2, <2>1, <2>2, <2>3
<1>5. ASSUME NEW s \in Set, SyncSet(s)
      PROVE  Attention' /\ \A m \in Mesh : Steady(m)' => SameView(m)
  <2>1. /\ setsC' = IF s \in sets THEN setsC \union {s} ELSE setsC \ {s}
        /\ setEv' = setEv \ {s} /\ queue' = queue \union Targeting(s)
        /\ UNCHANGED <<meshC, clusterC, meshEv, clusterEv>>
    BY <1>5 DEF SyncSet
  <2>2. Copies'
    BY <1>1, <2>1 DEF Attention, Copies
  <2>3. ASSUME NEW m \in Mesh, m \notin queue', meshC[m].phase = "live"
        PROVE  SetMembers(SetOf[m])' = SetMembers(SetOf[m]) /\ (SetOf[m] \in setsC' <=> SetOf[m] \in setsC)
    <3>1. s # SetOf[m]
      BY <2>1, <2>3 DEF Targeting
    <3> QED
      BY <2>1, <3>1 DEF SetMembers
  <2> QED
    BY <1>1, <1>2, <2>1, <2>2, <2>3
<1> QED
  BY <1>3, <1>4, <1>5 DEF FrameDelivery

\* Users change what is there; the caches and the worker learn of it later.
LEMMA AttentionUsers ==
  ASSUME FrameTypeOK, Attention, FrameUsers
  PROVE  Attention' /\ \A m \in Mesh : Steady(m)' => SameView(m)
<1>1. UNCHANGED <<meshC, clusterC, setsC, queue, pc>> /\ UNCHANGED <<cur, my, clusters>>
  BY DEF FrameUsers, CreateMesh, DeleteMesh, WithdrawMesh, EditMesh, UserWrites, ChangeCluster, WriteCluster,
     ChangeSet, cacheVars, jobVars
<1>2. JobCurrent' /\ \A m \in Mesh : Steady(m)' => SameView(m)
  BY <1>1 DEF Attention, JobCurrent, Deletion, SetMembers, Steady, SameView
<1>3. ASSUME NEW o \in Mesh, NEW record, UserWrites(o, record), record \in MeshRecord,
             record.phase = "deleting" => record.fin
      PROVE  Copies' /\ Attended'
  <2> DEFINE new == [record EXCEPT !.rv = mesh[o].rv + 1]
  <2>1. new \in MeshRecord /\ new.phase = record.phase /\ new.fin = record.fin
    <3>1. mesh[o].rv + 1 \in Nat
      BY DEF FrameTypeOK, MeshRecord
    <3> QED
      BY <1>3, <3>1 DEF MeshRecord
  <2>2. WriteMesh(o, new) /\ UNCHANGED <<cluster, sets, clusterEv, setEv>>
    BY <1>3 DEF UserWrites
  <2> HIDE DEF new
  <2>3. meshEv' = meshEv \union {o} /\ \A m \in Mesh : mesh'[m] = IF m = o THEN new ELSE mesh[m]
    BY <2>1, <2>2, WriteMeshType DEF WriteMesh
  <2>4. Copies'
    BY <1>1, <2>2, <2>3 DEF Attention, Copies
  <2>5. Attended'
    BY <1>1, <1>3, <2>1, <2>3 DEF Attention, Attended, Working
  <2> QED
    BY <2>4, <2>5
<1>4. \A m \in Mesh : mesh[m] \in MeshRecord /\ (mesh[m].phase = "deleting" => mesh[m].fin)
  BY DEF FrameTypeOK, Attention, Attended
<1>5. ASSUME NEW o \in Mesh, CreateMesh(o) \/ DeleteMesh(o) \/ WithdrawMesh(o) \/ EditMesh(o)
      PROVE  Copies' /\ Attended'
  <2>1. CASE CreateMesh(o)
    <3>1. PICK setting \in Setting : UserWrites(o, [Blank EXCEPT !.phase = "live", !.setting = setting])
      BY <2>1 DEF CreateMesh
    <3>2. /\ [Blank EXCEPT !.phase = "live", !.setting = setting] \in MeshRecord
          /\ [Blank EXCEPT !.phase = "live", !.setting = setting].phase = "live"
      BY BlankTypes DEF MeshRecord
    <3> QED
      BY <1>3, <3>1, <3>2
  <2>2. CASE DeleteMesh(o)
    <3> DEFINE record == [mesh[o] EXCEPT !.phase = "deleting"]
    <3>1. record \in MeshRecord /\ record.fin
      BY <1>4, <2>2 DEF DeleteMesh, MeshRecord
    <3>2. UserWrites(o, record)
      BY <2>2 DEF DeleteMesh
    <3> HIDE DEF record
    <3> QED
      BY <1>3, <3>1, <3>2
  <2>3. CASE WithdrawMesh(o)
    BY <1>3, <2>3, BlankTypes DEF WithdrawMesh
  <2>4. ASSUME NEW setting \in Setting, UserWrites(o, [mesh[o] EXCEPT !.setting = setting])
        PROVE  Copies' /\ Attended'
    <3> DEFINE record == [mesh[o] EXCEPT !.setting = setting]
    <3>1. record \in MeshRecord /\ (record.phase = "deleting" => record.fin)
      BY <1>4 DEF MeshRecord
    <3> HIDE DEF record
    <3>2. UserWrites(o, record)
      BY <2>4 DEF record
    <3> QED
      BY <1>3, <3>1, <3>2
  <2>5. CASE UserWrites(o, [mesh[o] EXCEPT !.clash = ~@])
    <3> DEFINE record == [mesh[o] EXCEPT !.clash = ~@]
    <3>1. record \in MeshRecord /\ (record.phase = "deleting" => record.fin)
      BY <1>4 DEF MeshRecord
    <3> HIDE DEF record
    <3>2. UserWrites(o, record)
      BY <2>5 DEF record
    <3> QED
      BY <1>3, <3>1, <3>2
  <2> QED
    BY <1>5, <2>1, <2>2, <2>3, <2>4, <2>5 DEF EditMesh
<1>6. ASSUME NEW c \in Cluster, ChangeCluster(c) PROVE Copies' /\ Attended'
  <2>1. PICK record : WriteCluster(c, record)
    BY <1>6 DEF ChangeCluster
  <2>2. UNCHANGED <<mesh, sets, meshEv, setEv>> /\ clusterEv' = clusterEv \union {c}
        /\ \A d \in Cluster : d # c => cluster'[d] = cluster[d]
    BY <2>1 DEF WriteCluster, FrameTypeOK
  <2> QED
    BY <1>1, <2>2 DEF Attention, Copies, Attended, Working
<1>7. ASSUME NEW s \in Set, ChangeSet(s) PROVE Copies' /\ Attended'
  BY <1>1, <1>7 DEF ChangeSet, Attention, Copies, Attended, Working
<1> QED
  BY <1>2, <1>5, <1>6, <1>7 DEF Attention, FrameUsers

-----------------------------------------------------------------------------
(* Where meshes go *)

PhaseStep(m) ==
  \/ mesh'[m].phase = mesh[m].phase /\ (mesh[m].fin => mesh'[m].fin)
  \/ mesh[m].phase = "none" /\ mesh'[m].phase = "live"
  \/ mesh[m].phase = "live" /\ mesh'[m].phase = "deleting" /\ mesh[m].fin /\ mesh'[m].fin /\ budget["delete"] > 0
  \/ mesh[m].phase = "live" /\ mesh'[m].phase = "gone" /\ ~mesh[m].fin /\ budget["withdraw"] > 0

\* What was used up stays used up.
BudgetStep == \A kind \in Disturbance : budget[kind] = 0 => budget'[kind] = 0

LEMMA SpendStep == ASSUME FrameTypeOK, NEW kind \in Disturbance, Spend(kind) PROVE BudgetStep
BY DEF FrameTypeOK, Spend, BudgetStep

LEMMA PhaseTake ==
  ASSUME FrameTypeOK, NEW o \in Mesh, NEW m \in Mesh, TakeNothing(o) \/ TakeUnfinalized(o)
  PROVE  PhaseStep(m) /\ UNCHANGED budget
<1> DEFINE record == [mesh[o] EXCEPT !.fin = TRUE, !.rv = @ + 1]
<1>1. UNCHANGED budget /\ (UNCHANGED mesh \/ mesh' = [mesh EXCEPT ![o] = record])
  BY DEF TakeNothing, TakeUnfinalized, WriteMesh, outerVars, worldVars
<1>2. mesh \in [Mesh -> MeshRecord] /\ record.phase = mesh[o].phase /\ record.fin
  BY DEF FrameTypeOK, MeshRecord
<1> HIDE DEF record
<1> QED
  BY <1>1, <1>2 DEF PhaseStep

LEMMA PhaseUsers ==
  ASSUME FrameTypeOK, FrameUsers
  PROVE  BudgetStep /\ \A m \in Mesh : PhaseStep(m)
<1> DEFINE Goal == BudgetStep /\ \A m \in Mesh : PhaseStep(m)
<1>1. ASSUME NEW o \in Mesh, NEW record, UserWrites(o, record), record \in MeshRecord,
             NEW kind \in Disturbance, Spend(kind),
             \/ record.phase = mesh[o].phase /\ record.fin = mesh[o].fin
             \/ mesh[o].phase = "none" /\ record.phase = "live"
             \/ kind = "delete" /\ mesh[o].phase = "live" /\ record.phase = "deleting" /\ mesh[o].fin /\ record.fin
             \/ kind = "withdraw" /\ mesh[o].phase = "live" /\ record.phase = "gone" /\ ~mesh[o].fin
      PROVE  Goal
  <2> DEFINE new == [record EXCEPT !.rv = mesh[o].rv + 1]
  <2>1. new.phase = record.phase /\ new.fin = record.fin /\ mesh \in [Mesh -> MeshRecord]
    BY <1>1 DEF FrameTypeOK, MeshRecord
  <2>2. mesh' = [mesh EXCEPT ![o] = new]
    BY <1>1 DEF UserWrites, WriteMesh
  <2> HIDE DEF new
  <2>3. \A m \in Mesh : PhaseStep(m)
    BY <1>1, <2>1, <2>2 DEF PhaseStep, Spend
  <2> QED
    BY <1>1, <2>3, SpendStep
<1>2. \A o \in Mesh : mesh[o] \in MeshRecord
  BY DEF FrameTypeOK
<1>3. {"create", "delete", "withdraw", "edit", "clash", "move", "url", "set"} \subseteq Disturbance
  BY DEF Disturbance
<1>4. ASSUME NEW o \in Mesh, CreateMesh(o) PROVE Goal
  <2>1. PICK setting \in Setting : UserWrites(o, [Blank EXCEPT !.phase = "live", !.setting = setting])
    BY <1>4 DEF CreateMesh
  <2> DEFINE record == [Blank EXCEPT !.phase = "live", !.setting = setting]
  <2>2. record \in MeshRecord /\ record.phase = "live"
    BY BlankTypes DEF MeshRecord
  <2> HIDE DEF Goal
  <2>3. UserWrites(o, record) /\ mesh[o].phase = "none" /\ Spend("create")
    BY <1>4, <2>1 DEF CreateMesh
  <2> HIDE DEF record
  <2> QED
    BY <1>1, <1>3, <2>2, <2>3
<1>5. ASSUME NEW o \in Mesh, DeleteMesh(o) PROVE Goal
  <2> DEFINE record == [mesh[o] EXCEPT !.phase = "deleting"]
  <2>1. record \in MeshRecord /\ record.phase = "deleting" /\ record.fin = mesh[o].fin
    BY <1>2 DEF MeshRecord
  <2>2. UserWrites(o, record) /\ Spend("delete") /\ mesh[o].phase = "live" /\ mesh[o].fin
    BY <1>5 DEF DeleteMesh
  <2> HIDE DEF record, Goal
  <2> QED
    BY <1>1, <1>3, <2>1, <2>2
<1>6. ASSUME NEW o \in Mesh, WithdrawMesh(o) PROVE Goal
  <2> HIDE DEF Goal
  <2> QED
    BY <1>1, <1>3, <1>6, BlankTypes DEF WithdrawMesh
<1>7. ASSUME NEW o \in Mesh, EditMesh(o) PROVE Goal
  <2> HIDE DEF Goal
  <2>1. ASSUME NEW setting \in Setting, Spend("edit"), UserWrites(o, [mesh[o] EXCEPT !.setting = setting])
        PROVE  Goal
    <3> DEFINE record == [mesh[o] EXCEPT !.setting = setting]
    <3>1. record \in MeshRecord /\ record.phase = mesh[o].phase /\ record.fin = mesh[o].fin
      BY <1>2 DEF MeshRecord
    <3>2. UserWrites(o, record)
      BY <2>1
    <3> HIDE DEF record
    <3> QED
      BY <1>1, <1>3, <2>1, <3>1, <3>2
  <2>2. ASSUME Spend("clash"), UserWrites(o, [mesh[o] EXCEPT !.clash = ~@]) PROVE Goal
    <3> DEFINE record == [mesh[o] EXCEPT !.clash = ~@]
    <3>1. record \in MeshRecord /\ record.phase = mesh[o].phase /\ record.fin = mesh[o].fin
      BY <1>2 DEF MeshRecord
    <3>2. UserWrites(o, record)
      BY <2>2
    <3> HIDE DEF record
    <3> QED
      BY <1>1, <1>3, <2>2, <3>1, <3>2
  <2> QED
    BY <1>7, <2>1, <2>2 DEF EditMesh
<1>8. ASSUME NEW kind \in Disturbance, Spend(kind), UNCHANGED mesh PROVE Goal
  BY <1>8, SpendStep DEF PhaseStep
<1>9. ASSUME NEW c \in Cluster, ChangeCluster(c) PROVE Goal
  <2> HIDE DEF Goal
  <2> QED
    BY <1>3, <1>8, <1>9 DEF ChangeCluster, WriteCluster
<1>10. ASSUME NEW s \in Set, ChangeSet(s) PROVE Goal
  <2> HIDE DEF Goal
  <2> QED
    BY <1>3, <1>8, <1>10 DEF ChangeSet
<1> HIDE DEF Goal
<1>11. Goal
  BY <1>4, <1>5, <1>6, <1>7, <1>9, <1>10 DEF FrameUsers
<1> QED
  BY <1>11 DEF Goal
=============================================================================
