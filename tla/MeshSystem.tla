------------------------------ MODULE MeshSystem ------------------------------
(***************************************************************************)
(* The controller among the things that happen around it: watch events     *)
(* reach its caches and its workqueue late and in any order, users create, *)
(* edit and delete meshes, administrators move clusters and change sets,   *)
(* spoke agents finish deletions and report installations, and the         *)
(* controller's process restarts.                                          *)
(***************************************************************************)
EXTENDS MeshController

-----------------------------------------------------------------------------
(* Watch delivery: the cache takes the object's current version and the    *)
(* event handler enqueues the meshes it maps to, as the caches then stand.  *)

SyncMesh(m) ==
  /\ m \in meshEv
  /\ meshC' = [meshC EXCEPT ![m] = mesh[m]]
  /\ meshEv' = meshEv \ {m}
  /\ queue' = queue \union {m}
  /\ UNCHANGED <<apiVars, memberC, csetC, workC, workL, memberEv, csetEv, workEv,
                 budget, workerVars, settled>>

\* Mutant: only the old version of the cluster is mapped to meshes.
SyncMemberOld(c) ==
  /\ c \in memberEv
  /\ memberC' = [memberC EXCEPT ![c] = member[c]]
  /\ memberEv' = memberEv \ {c}
  /\ queue' = queue \union Targeting(memberC[c])
  /\ UNCHANGED <<apiVars, meshC, csetC, workC, workL, meshEv, csetEv, workEv,
                 budget, workerVars, settled>>

\* Mutant: only the new version of the cluster is mapped to meshes.
SyncMemberNew(c) ==
  /\ c \in memberEv
  /\ memberC' = [memberC EXCEPT ![c] = member[c]]
  /\ memberEv' = memberEv \ {c}
  /\ queue' = queue \union Targeting(member[c])
  /\ UNCHANGED <<apiVars, meshC, csetC, workC, workL, meshEv, csetEv, workEv,
                 budget, workerVars, settled>>

\* findMeshesForCluster, called for the old and the new version of the cluster.
SyncMember(c) ==
  /\ c \in memberEv
  /\ memberC' = [memberC EXCEPT ![c] = member[c]]
  /\ memberEv' = memberEv \ {c}
  /\ queue' = queue \union Targeting(memberC[c]) \union Targeting(member[c])
  /\ UNCHANGED <<apiVars, meshC, csetC, workC, workL, meshEv, csetEv, workEv,
                 budget, workerVars, settled>>

\* findMeshesForClusterSet
SyncSet(s) ==
  /\ s \in csetEv
  /\ csetC' = [csetC EXCEPT ![s] = cset[s]]
  /\ csetEv' = csetEv \ {s}
  /\ queue' = queue \union Targeting(s)
  /\ UNCHANGED <<apiVars, meshC, memberC, workC, workL, meshEv, memberEv, workEv,
                 budget, workerVars, settled>>

\* The works of cluster c, in one of the two caches.
SyncedWorks(cache, c) == [p \in Spot |-> IF p[1] = c THEN work[p] ELSE cache[p]]

\* Mutant: ManifestWorks are cached but not watched.
SyncWorkSilently(c) ==
  /\ c \in workEv
  /\ workC' = IF WorkLag THEN SyncedWorks(workC, c) ELSE workC
  /\ workEv' = workEv \ {c}
  /\ UNCHANGED <<apiVars, meshC, memberC, csetC, workL, meshEv, memberEv, csetEv, queue,
                 budget, workerVars, settled>>

\* findMeshesForManifestWork: the cluster's label is looked up in the cache.
SyncWork(c) ==
  /\ c \in workEv
  /\ workC' = IF WorkLag THEN SyncedWorks(workC, c) ELSE workC
  /\ workEv' = workEv \ {c}
  /\ queue' = queue \union Targeting(memberC[c])
  /\ UNCHANGED <<apiVars, meshC, memberC, csetC, workL, meshEv, memberEv, csetEv,
                 budget, workerVars, settled>>

\* WorkApplier's own informer: no event handler is attached to it.
SyncLister(c) ==
  /\ WorkLag /\ workL # SyncedWorks(workL, c)
  /\ workL' = SyncedWorks(workL, c)
  /\ UNCHANGED <<apiVars, meshC, memberC, csetC, workC, eventVars, queue,
                 budget, workerVars, settled>>

-----------------------------------------------------------------------------
(* Users of the meshes *)

UserWrites(m, record) ==
  /\ WriteMeshes([mesh EXCEPT ![m] = record], {m})
  /\ stale' = (stale \/ m = cur)
  /\ settled' = {s \in settled : s[2] # m}
  /\ UNCHANGED <<member, cset, work, cacheVars, memberEv, csetEv, workEv, queue,
                 pc, cur, my, clusters, todo, doomed, verdict>>

\* Timestamps have a second's resolution: two meshes may share one.
CreateMesh(m) ==
  /\ mesh[m].phase = "none" /\ Spend("create")
  /\ clock' \in {clock, clock + 1}
  /\ ts' = [ts EXCEPT ![m] = clock']
  /\ \E op \in Config : UserWrites(m, NewMesh(op))

\* The finalizer keeps a deleted mesh until the controller has cleaned up.
DeleteMesh(m) ==
  /\ mesh[m].phase = "live" /\ mesh[m].fin /\ Spend("delete")
  /\ UserWrites(m, [mesh[m] EXCEPT !.phase = "deleting", !.gen = @ + 1])
  /\ UNCHANGED <<ts, clock>>

\* Deleted before its first reconcile, a mesh is gone at once.
WithdrawMesh(m) ==
  /\ mesh[m].phase = "live" /\ ~mesh[m].fin /\ Spend("withdraw")
  /\ UserWrites(m, Gone)
  /\ UNCHANGED <<ts, clock>>

EditOperator(m) ==
  /\ mesh[m].phase \in {"live", "deleting"} /\ Spend("edit")
  /\ \E op \in Config \ {mesh[m].op} :
       UserWrites(m, [mesh[m] EXCEPT !.op = op, !.gen = @ + 1])
  /\ UNCHANGED <<ts, clock>>

-----------------------------------------------------------------------------
(* Administrators of the hub *)

MoveCluster(c) ==
  /\ Spend("move")
  /\ \E s \in (Set \union {NoSet}) \ {member[c]} : member' = [member EXCEPT ![c] = s]
  /\ memberEv' = memberEv \union {c}
  /\ settled' = {s \in settled : s[1] # c}
  /\ UNCHANGED <<mesh, ts, clock, cset, work, cacheVars, meshEv, csetEv, workEv, queue,
                 workerVars>>

ChangeSet(s) ==
  /\ Spend("set")
  /\ \E v \in SelectorState \ {cset[s]} : cset' = [cset EXCEPT ![s] = v]
  /\ csetEv' = csetEv \union {s}
  /\ settled' = {x \in settled : SetOf[x[2]] # s}
  /\ UNCHANGED <<mesh, ts, clock, member, work, cacheVars, meshEv, memberEv, workEv, queue,
                 workerVars>>

\* Somebody deletes a work, or edits the Subscription in an operator work.
Tamper(c) ==
  /\ Spend("tamper")
  /\ \/ \E n \in WorkName :
          /\ work[<<c, n>>] # NoWork /\ ~work[<<c, n>>].dying
          /\ PutWork(<<c, n>>, [work[<<c, n>>] EXCEPT !.dying = TRUE])
     \/ /\ work[<<c, OpWork>>] # NoWork
        /\ \E op \in Config \ {work[<<c, OpWork>>].op} :
             PutWork(<<c, OpWork>>, [work[<<c, OpWork>>] EXCEPT !.op = op])
  /\ settled' = {s \in settled : s[1] # c}
  /\ UNCHANGED <<mesh, ts, clock, member, cset, cacheVars, meshEv, memberEv, csetEv, queue,
                 workerVars>>

-----------------------------------------------------------------------------
(* The agent of a spoke cluster *)

\* The resources are gone from the spoke; the work's finalizer is removed.
AgentFinish(p) ==
  /\ work[p] # NoWork /\ work[p].dying
  /\ PutWork(p, NoWork)
  /\ UNCHANGED <<mesh, ts, clock, member, cset, cacheVars, meshEv, memberEv, csetEv, queue,
                 budget, workerVars, settled>>

\* The Subscription's installedCSV reaches the work's status feedback.
AgentReport(c) ==
  /\ work[<<c, OpWork>>] # NoWork /\ ~work[<<c, OpWork>>].dying
  /\ work[<<c, OpWork>>].csv # work[<<c, OpWork>>].op
  /\ Spend("install")
  /\ PutWork(<<c, OpWork>>, [work[<<c, OpWork>>] EXCEPT !.csv = work[<<c, OpWork>>].op])
  /\ UNCHANGED <<mesh, ts, clock, member, cset, cacheVars, meshEv, memberEv, csetEv, queue,
                 workerVars, settled>>

-----------------------------------------------------------------------------
(* The controller's process dies and another takes over: nothing but the   *)
(* API survives, the informers list again, and every mesh is enqueued.     *)
(* WorkApplier's lister is started beside the controllers, not before them. *)

Crash ==
  /\ Spend("crash")
  /\ Rest
  /\ meshC' = mesh /\ memberC' = member /\ csetC' = cset
  /\ workC' = IF WorkLag THEN work ELSE workC
  /\ workL' = IF WorkLag THEN [p \in Spot |-> NoWork] ELSE workL
  /\ meshEv' = {} /\ memberEv' = {} /\ csetEv' = {} /\ workEv' = {}
  /\ queue' = {m \in Mesh : mesh[m].phase \in {"live", "deleting"}}
  /\ UNCHANGED <<apiVars, settled>>

Delivery ==
  \/ \E m \in Mesh : SyncMesh(m)
  \/ \E c \in Cluster : SyncMember(c) \/ SyncWork(c) \/ SyncLister(c)
  \/ \E s \in Set : SyncSet(s)

Environment ==
  \/ \E m \in Mesh : CreateMesh(m) \/ DeleteMesh(m) \/ WithdrawMesh(m) \/ EditOperator(m)
  \/ \E c \in Cluster : MoveCluster(c) \/ Tamper(c) \/ AgentReport(c)
  \/ \E s \in Set : ChangeSet(s)
  \/ \E p \in Spot : AgentFinish(p)

Init == HubInit /\ ControllerInit
Next == Controller \/ Delivery \/ Environment \/ Crash
Spec == Init /\ [][Next]_vars
=============================================================================
