---------------------------- MODULE DiscoveryProofs ----------------------------
(***************************************************************************)
(* Endpoint discovery keeps its types, no account outlives its mesh, and   *)
(* at rest accounts, remote secrets, bindings and placements are right.    *)
(* BaseInv is what all of it rests on; each property at rest adds what is  *)
(* true of a steady mesh, but for what the worker is still going to do.    *)
(***************************************************************************)
EXTENDS EndpointDiscovery, FrameProofs

Cleaning == {"listAccounts", "deleteAccounts", "unbind"}

AccountTypeOK ==
  /\ account \in [Key -> AccountRecord \union {NoAccount}]
  /\ accountC \in [Key -> AccountRecord \union {NoAccount}]
  /\ accountEv \subseteq Key

RestTypeOK ==
  /\ token \in [Key -> TokenRecord] /\ tokenC \in [Key -> TokenRecord]
  /\ bundle \in [Mesh -> Bundle] /\ bundleC \in [Mesh -> Bundle]
  /\ binding \subseteq Pair /\ bindingC \subseteq Pair
  /\ placement \subseteq Mesh /\ reach \subseteq Cluster /\ late \subseteq Kind

ObjectTypeOK == AccountTypeOK /\ RestTypeOK

BaseInv == FrameInv(Cleaning) /\ pc \in Step /\ ObjectTypeOK /\ (pc = "unbind" => Deletion)

LEMMA BaseType == BaseInv => TypeOK
BY DEF BaseInv, FrameInv, ObjectTypeOK, AccountTypeOK, RestTypeOK, TypeOK

LEMMA BaseInit == Init => BaseInv
<1> SUFFICES ASSUME Init PROVE BaseInv
  OBVIOUS
<1>1. FrameInv(Cleaning) /\ pc = "idle"
  BY InitInv DEF Init, FrameInit
<1>2. AccountTypeOK
  BY DEF Init, AccountTypeOK
<1>3. RestTypeOK
  BY DiscoveryAssumption DEF Init, RestTypeOK, TokenRecord, Bundle
<1> QED
  BY <1>1, <1>2, <1>3 DEF BaseInv, ObjectTypeOK, Step

-----------------------------------------------------------------------------
(* Values read and written *)

LEMMA SeenTypes ==
  ASSUME ObjectTypeOK
  PROVE  /\ SeenAccount \in [Key -> AccountRecord \union {NoAccount}]
         /\ SeenToken \in [Key -> TokenRecord]
BY DEF ObjectTypeOK, AccountTypeOK, RestTypeOK, SeenAccount, SeenToken

LEMMA WantedTypes ==
  ASSUME BaseInv, cur \in Mesh
  PROVE  /\ \A c \in Cluster : WantedAccount(SeenAccount[<<cur, c>>]) \in AccountRecord
         /\ WantedBundle \in Bundle
         /\ Bind \in Pair
<1>1. my.setting \in Setting /\ ObjectTypeOK /\ reach \subseteq Cluster
  BY DEF BaseInv, FrameInv, FrameTypeOK, MeshRecord, ObjectTypeOK, RestTypeOK
<1>2. ASSUME NEW c \in Cluster PROVE WantedAccount(SeenAccount[<<cur, c>>]) \in AccountRecord
  <2>1. SeenAccount[<<cur, c>>] \in AccountRecord \union {NoAccount}
    BY <1>1, SeenTypes DEF Key
  <2> DEFINE ref == IF SeenAccount[<<cur, c>>] = NoAccount THEN 0 ELSE SeenAccount[<<cur, c>>].ref
  <2>2. ref \in Nat
    BY <2>1 DEF AccountRecord
  <2>3. WantedAccount(SeenAccount[<<cur, c>>]) = [valid |-> my.setting, ref |-> ref]
    BY DEF WantedAccount
  <2> HIDE DEF ref
  <2> QED
    BY <1>1, <2>2, <2>3 DEF AccountRecord
<1>3. \A c \in Cluster : SeenToken[<<cur, c>>].serial \in Nat
  BY <1>1, SeenTypes DEF Key, TokenRecord
<1>4. WantedBundle \in Bundle
  <2> SUFFICES ASSUME NEW x \in WantedBundle PROVE x \in Cluster \X Nat
    BY DEF Bundle
  <2>1. PICK c \in reach : x = <<c, SeenToken[<<cur, c>>].serial>>
    BY DEF WantedBundle
  <2> QED
    BY <1>1, <1>3, <2>1
<1>5. Bind \in Pair
  BY FrameAssumption DEF Bind, Pair
<1> QED
  BY <1>2, <1>4, <1>5

LEMMA PutAccountType ==
  ASSUME ObjectTypeOK, NEW k \in Key, NEW a \in AccountRecord \union {NoAccount},
         PutAccount(k, a), UNCHANGED accountC
  PROVE  AccountTypeOK'
BY DEF ObjectTypeOK, AccountTypeOK, PutAccount

LEMMA SameAccounts ==
  ASSUME ObjectTypeOK, KeepAccounts, UNCHANGED accountC
  PROVE  AccountTypeOK'
BY DEF ObjectTypeOK, AccountTypeOK, KeepAccounts

LEMMA SameRest ==
  ASSUME ObjectTypeOK, UNCHANGED <<token, bundle, binding, placement, tokenC, bundleC, bindingC, late>>,
         reach' \subseteq Cluster
  PROVE  RestTypeOK'
BY DEF ObjectTypeOK, RestTypeOK

LEMMA SameObjects == ASSUME ObjectTypeOK, UNCHANGED ownVars PROVE ObjectTypeOK'
BY DEF ObjectTypeOK, AccountTypeOK, RestTypeOK, ownVars, storeVars, copyVars

-----------------------------------------------------------------------------
(* The steps *)

LEMMA AtWork ==
  ASSUME BaseInv, pc # "idle"
  PROVE  /\ cur \in Mesh /\ pc \in Step
         /\ todo \subseteq Cluster /\ doomed \subseteq Cluster
         /\ pc \notin Cleaning \union {"release"} => ~Deletion
         /\ pc = "unbind" => Deletion
BY DEF BaseInv, FrameInv, FrameTypeOK, Path

LEMMA BaseJob ==
  ASSUME BaseInv, UNCHANGED outerVars, UNCHANGED <<queue, cur, my, clusters>>,
         pc # "idle", todo' \subseteq Cluster, doomed' \subseteq Cluster,
         pc' \in Step \ {"idle"},
         IF Deletion THEN pc' \in Cleaning \union {"release"} ELSE pc' \notin {"unbind", "release"},
         ObjectTypeOK'
  PROVE  BaseInv'
<1>1. FrameInv(Cleaning)'
  BY JobStep DEF BaseInv
<1> QED
  BY <1>1 DEF BaseInv, Deletion

LEMMA BaseEnd ==
  ASSUME BaseInv, UNCHANGED outerVars, pc # "idle", Done \/ Requeue, ObjectTypeOK'
  PROVE  BaseInv'
<1>1. FrameInv(Cleaning)' /\ pc' = "idle"
  BY JobEnd DEF BaseInv, Done, Requeue, Settle
<1> QED
  BY <1>1 DEF BaseInv, Step

LEMMA BaseWorker == BaseInv /\ Worker => BaseInv'
<1> SUFFICES ASSUME BaseInv, Worker PROVE BaseInv'
  OBVIOUS
<1>1. ObjectTypeOK /\ reach \subseteq Cluster
  BY DEF BaseInv, ObjectTypeOK, RestTypeOK
<1>2. ASSUME NEW c \in Cluster, EnsureAccount(c) PROVE BaseInv'
  <2>1. pc = "account" /\ cur \in Mesh /\ ~Deletion /\ <<cur, c>> \in Key
    BY <1>2, AtWork DEF EnsureAccount, Cleaning, Key
  <2>2. UNCHANGED outerVars /\ UNCHANGED accountC
        /\ UNCHANGED <<token, bundle, binding, placement, tokenC, bundleC, bindingC, late>>
    BY <1>2 DEF EnsureAccount, copyVars
  <2>3. WantedAccount(SeenAccount[<<cur, c>>]) \in AccountRecord
    BY <2>1, WantedTypes
  <2>4. AccountTypeOK'
    BY <1>1, <1>2, <2>1, <2>2, <2>3, PutAccountType, SameAccounts DEF EnsureAccount
  <2>5. CASE Advance(c, "account", "listAccounts") /\ UNCHANGED <<queue, cur, my, clusters, doomed, reach>>
    <3>1. ObjectTypeOK'
      BY <1>1, <2>2, <2>4, <2>5, SameRest DEF ObjectTypeOK
    <3> QED
      BY <2>1, <2>2, <2>5, <3>1, AtWork, BaseJob DEF Advance, Step
  <2>6. CASE Back
    <3>1. ObjectTypeOK'
      BY <1>1, <2>2, <2>4, <2>6, SameRest DEF ObjectTypeOK, Back
    <3> QED
      BY <2>1, <2>2, <2>6, <3>1, BaseEnd DEF Back
  <2> QED
    BY <1>2, <2>5, <2>6 DEF EnsureAccount
<1>3. ASSUME NEW c \in Cluster, DeleteAccount(c) PROVE BaseInv'
  <2>1. pc = "deleteAccounts" /\ cur \in Mesh /\ <<cur, c>> \in Key
    BY <1>3, AtWork DEF DeleteAccount, Key
  <2>2. AccountTypeOK' /\ RestTypeOK'
    BY <1>1, <1>3, <2>1, PutAccountType, SameAccounts, SameRest DEF DeleteAccount, copyVars
  <2>3. UNCHANGED outerVars /\ UNCHANGED <<queue, cur, my, clusters, todo>> /\ doomed' = doomed \ {c}
        /\ pc' \in {"deleteAccounts", AfterAccounts}
    BY <1>3 DEF DeleteAccount, Spare
  <2> QED
    BY <2>1, <2>2, <2>3, AtWork, BaseJob DEF AfterAccounts, Cleaning, Step, ObjectTypeOK
<1>4. ASSUME ListAccounts PROVE BaseInv'
  <2>1. pc = "listAccounts" /\ UNCHANGED outerVars /\ UNCHANGED <<queue, cur, my, clusters, todo>>
        /\ doomed' \subseteq Cluster /\ pc' \in {"deleteAccounts", AfterAccounts} /\ UNCHANGED ownVars
    BY <1>4 DEF ListAccounts, Doom
  <2> QED
    BY <1>1, <2>1, SameObjects, AtWork, BaseJob DEF AfterAccounts, Cleaning, Step
<1>5. ASSUME EnsureBinding PROVE BaseInv'
  <2>1. pc = "binding" /\ cur \in Mesh /\ ~Deletion /\ UNCHANGED outerVars /\ Bind \in Pair
    BY <1>5, AtWork, WantedTypes DEF EnsureBinding, Cleaning
  <2>2. AccountTypeOK'
    BY <1>1, <1>5, SameAccounts DEF EnsureBinding, KeepAccounts, copyVars
  <2>3. RestTypeOK'
    BY <1>1, <1>5, <2>1 DEF EnsureBinding, ObjectTypeOK, RestTypeOK, Back, copyVars
  <2>4. CASE GoTo("placement")
    BY <2>1, <2>2, <2>3, <2>4, AtWork, BaseJob DEF GoTo, jobVars, Step, ObjectTypeOK
  <2>5. CASE Back
    BY <2>1, <2>2, <2>3, <2>5, BaseEnd DEF Back, ObjectTypeOK
  <2> QED
    BY <1>5, <2>4, <2>5 DEF EnsureBinding
<1>6. ASSUME EnsurePlacement PROVE BaseInv'
  <2>1. pc = "placement" /\ cur \in Mesh /\ ~Deletion /\ UNCHANGED outerVars /\ GoTo("bundle")
    BY <1>6, AtWork DEF EnsurePlacement, Cleaning
  <2>2. AccountTypeOK' /\ RestTypeOK'
    BY <1>1, <1>6, <2>1, SameAccounts
    DEF EnsurePlacement, KeepAccounts, copyVars, ObjectTypeOK, RestTypeOK
  <2> QED
    BY <2>1, <2>2, AtWork, BaseJob DEF GoTo, jobVars, Step, ObjectTypeOK
<1>7. ASSUME EnsureBundle PROVE BaseInv'
  <2>1. pc = "bundle" /\ cur \in Mesh /\ UNCHANGED outerVars /\ (Back \/ Finish) /\ WantedBundle \in Bundle
    BY <1>7, AtWork, WantedTypes DEF EnsureBundle
  <2>2. AccountTypeOK'
    BY <1>1, <1>7, SameAccounts DEF EnsureBundle, KeepAccounts, copyVars
  <2>3. RestTypeOK'
    BY <1>1, <1>7, <2>1 DEF EnsureBundle, ObjectTypeOK, RestTypeOK, Back, Finish, copyVars
  <2> QED
    BY <2>1, <2>2, <2>3, BaseEnd DEF Back, Finish, ObjectTypeOK
<1>8. ASSUME Unbind PROVE BaseInv'
  <2>1. pc = "unbind" /\ Deletion /\ UNCHANGED outerVars /\ GoTo("release")
    BY <1>8, AtWork DEF Unbind
  <2>2. AccountTypeOK' /\ RestTypeOK'
    BY <1>1, <1>8, SameAccounts DEF Unbind, KeepAccounts, copyVars, ObjectTypeOK, RestTypeOK
  <2> QED
    BY <2>1, <2>2, AtWork, BaseJob DEF GoTo, jobVars, Step, ObjectTypeOK
<1>9. ASSUME ReleaseMesh PROVE BaseInv'
  <2>1. FrameInv(Cleaning)' /\ pc' = "idle"
    BY <1>9, ReleaseInv DEF ReleaseMesh, BaseInv
  <2> QED
    BY <1>1, <1>9, <2>1, SameObjects DEF ReleaseMesh, BaseInv, Step
<1> QED
  BY <1>2, <1>3, <1>4, <1>5, <1>6, <1>7, <1>8, <1>9 DEF Worker

LEMMA BaseTake == ASSUME BaseInv, NEW m \in Mesh, TakeMesh(m) PROVE BaseInv'
<1>1. FrameInv(Cleaning) /\ ObjectTypeOK
  BY DEF BaseInv
<1>2. CASE Begin(m)
  <2>1. TakeLive(m, "account", "listAccounts") /\ reach' \subseteq Cluster
    BY <1>2 DEF Begin, TakeLive, SetMembers
  <2>2. FrameInv(Cleaning)'
    BY <1>1, <2>1, TakeLiveInv
  <2>3. AccountTypeOK' /\ RestTypeOK'
    BY <1>1, <1>2, <2>1, SameAccounts, SameRest DEF Begin, KeepAccounts, storeVars, copyVars
  <2> QED
    BY <2>1, <2>2, <2>3 DEF TakeLive, BaseInv, ObjectTypeOK, Step
<1>3. CASE BeginDeletion(m)
  <2>1. TakeDeleting(m, "listAccounts") /\ "listAccounts" \in Cleaning /\ UNCHANGED ownVars
    BY <1>3 DEF BeginDeletion, Cleaning
  <2>2. FrameInv(Cleaning)'
    BY <1>1, <2>1, TakeDeletingInv
  <2> QED
    BY <1>1, <2>1, <2>2, SameObjects DEF TakeDeleting, BaseInv, Step
<1>4. CASE (TakeNothing(m) \/ TakeUnfinalized(m)) /\ UNCHANGED ownVars
  BY <1>1, <1>4, TakeInv, SameObjects DEF BaseInv, Deletion, jobVars
<1> QED
  BY <1>2, <1>3, <1>4 DEF TakeMesh

\* Steps outside the worker and the frame.
LEMMA BaseQuiet ==
  ASSUME BaseInv, UNCHANGED <<worldVars, cacheVars, eventVars, pc, jobVars>>, queue' \subseteq Mesh,
         budget' \in [Disturbance -> Nat], ObjectTypeOK'
  PROVE  BaseInv'
<1>1. FrameTypeOK' /\ MeshesAge /\ UNCHANGED meshC
  BY DEF BaseInv, FrameInv, FrameTypeOK, MeshesAge, Present, worldVars, cacheVars, eventVars, jobVars
<1>2. FrameInv(Cleaning)'
  BY <1>1, QuietStep DEF BaseInv
<1> QED
  BY <1>2 DEF BaseInv, Deletion, jobVars

LEMMA BaseDelivery == BaseInv /\ Delivery => BaseInv'
<1> SUFFICES ASSUME BaseInv, Delivery PROVE BaseInv'
  OBVIOUS
<1>1. FrameInv(Cleaning) /\ FrameTypeOK /\ ObjectTypeOK /\ reach \subseteq Cluster
      /\ queue \subseteq Mesh /\ budget \in [Disturbance -> Nat]
  BY DEF BaseInv, FrameInv, FrameTypeOK, ObjectTypeOK, RestTypeOK
<1>2. CASE FrameDelivery /\ UNCHANGED ownVars
  BY <1>1, <1>2, DeliveryInv, SameObjects DEF BaseInv, Deletion, jobVars
<1>3. ASSUME NEW k \in Key, SyncAccount(k) PROVE BaseInv'
  <2>1. AccountTypeOK' /\ RestTypeOK'
    BY <1>1, <1>3, SameRest DEF SyncAccount, ObjectTypeOK, AccountTypeOK, storeVars
  <2>2. queue' \subseteq Mesh
    BY <1>1, <1>3 DEF SyncAccount, Key
  <2> QED
    BY <1>1, <1>3, <2>1, <2>2, BaseQuiet DEF SyncAccount, outerVars, ObjectTypeOK
<1>4. ASSUME NEW k \in Key, SyncToken(k) PROVE BaseInv'
  <2>1. AccountTypeOK' /\ RestTypeOK'
    BY <1>1, <1>4 DEF SyncToken, ObjectTypeOK, AccountTypeOK, RestTypeOK, storeVars
  <2> QED
    BY <1>1, <1>4, <2>1, BaseQuiet DEF SyncToken, frameVars, outerVars, ObjectTypeOK
<1>5. ASSUME NEW m \in Mesh, SyncBundle(m) PROVE BaseInv'
  <2>1. AccountTypeOK' /\ RestTypeOK'
    BY <1>1, <1>5 DEF SyncBundle, ObjectTypeOK, AccountTypeOK, RestTypeOK, storeVars
  <2> QED
    BY <1>1, <1>5, <2>1, BaseQuiet DEF SyncBundle, frameVars, outerVars, ObjectTypeOK
<1>6. CASE SyncBinding
  <2>1. AccountTypeOK' /\ RestTypeOK'
    BY <1>1, <1>6 DEF SyncBinding, ObjectTypeOK, AccountTypeOK, RestTypeOK, storeVars
  <2> QED
    BY <1>1, <1>6, <2>1, BaseQuiet DEF SyncBinding, frameVars, outerVars, ObjectTypeOK
<1> QED
  BY <1>2, <1>3, <1>4, <1>5, <1>6 DEF Delivery

LEMMA BaseAgents == BaseInv /\ Agents => BaseInv'
<1> SUFFICES ASSUME BaseInv, Agents PROVE BaseInv'
  OBVIOUS
<1>1. FrameTypeOK /\ ObjectTypeOK /\ reach \subseteq Cluster
      /\ queue \subseteq Mesh /\ budget \in [Disturbance -> Nat]
  BY DEF BaseInv, FrameInv, FrameTypeOK, ObjectTypeOK, RestTypeOK
<1>2. \A k \in Key : token[k] \in TokenRecord /\ token[k].serial + 1 \in Nat
  BY <1>1 DEF ObjectTypeOK, RestTypeOK, TokenRecord
<1>3. ASSUME NEW k \in Key, AgentIssue(k) PROVE BaseInv'
  <2>1. token' = [token EXCEPT ![k] = [here |-> TRUE, serial |-> token[k].serial + 1]]
    BY <1>3 DEF AgentIssue
  <2>2. [here |-> TRUE, serial |-> token[k].serial + 1] \in TokenRecord
    BY <1>2 DEF TokenRecord
  <2>3. AccountTypeOK' /\ RestTypeOK'
    BY <1>1, <1>3, <2>1, <2>2 DEF AgentIssue, ObjectTypeOK, AccountTypeOK, RestTypeOK, copyVars
  <2>4. budget' \in [Disturbance -> Nat]
    BY <1>1, <1>3, SpendType DEF AgentIssue, Disturbance
  <2> QED
    BY <1>1, <1>3, <2>3, <2>4, BaseQuiet DEF AgentIssue, ObjectTypeOK
<1>4. ASSUME NEW k \in Key, AgentReport(k) PROVE BaseInv'
  <2>1. account[k] \in AccountRecord /\ token[k].serial \in Nat
    BY <1>1, <1>2, <1>4 DEF AgentReport, ObjectTypeOK, AccountTypeOK, TokenRecord
  <2>2. [account[k] EXCEPT !.ref = token[k].serial] \in AccountRecord
    BY <2>1 DEF AccountRecord
  <2>3. AccountTypeOK' /\ RestTypeOK'
    BY <1>1, <1>4, <2>2, PutAccountType, SameRest DEF AgentReport, copyVars
  <2> QED
    BY <1>1, <1>4, <2>3, BaseQuiet DEF AgentReport, frameVars, outerVars, ObjectTypeOK
<1>5. ASSUME NEW k \in Key, AgentRevoke(k) PROVE BaseInv'
  <2>1. [token[k] EXCEPT !.here = FALSE] \in TokenRecord
    BY <1>2 DEF TokenRecord
  <2>2. AccountTypeOK' /\ RestTypeOK'
    BY <1>1, <1>5, <2>1 DEF AgentRevoke, ObjectTypeOK, AccountTypeOK, RestTypeOK, copyVars
  <2> QED
    BY <1>1, <1>5, <2>2, BaseQuiet DEF AgentRevoke, frameVars, outerVars, ObjectTypeOK
<1>6. ASSUME NEW m \in Mesh, Collect(m) PROVE BaseInv'
  <2>1. AccountTypeOK' /\ RestTypeOK'
    BY <1>1, <1>6 DEF Collect, ObjectTypeOK, AccountTypeOK, RestTypeOK, copyVars, Bundle
  <2> QED
    BY <1>1, <1>6, <2>1, BaseQuiet DEF Collect, frameVars, outerVars, ObjectTypeOK
<1> QED
  BY <1>3, <1>4, <1>5, <1>6 DEF Agents

LEMMA BaseNext == BaseInv /\ [Next]_vars => BaseInv'
<1> SUFFICES ASSUME BaseInv, [Next]_vars PROVE BaseInv'
  OBVIOUS
<1>1. FrameInv(Cleaning) /\ FrameTypeOK /\ ObjectTypeOK
      /\ queue \subseteq Mesh /\ budget \in [Disturbance -> Nat]
  BY DEF BaseInv, FrameInv, FrameTypeOK
<1>2. CASE FailMesh
  <2>1. FrameInv(Cleaning)' /\ pc' = "idle"
    BY <1>1, <1>2, FailInv DEF FailMesh
  <2>2. AccountTypeOK' /\ RestTypeOK'
    BY <1>1, <1>2, SameAccounts, SameRest DEF FailMesh, KeepAccounts, storeVars, copyVars
  <2> QED
    BY <2>1, <2>2 DEF BaseInv, ObjectTypeOK, Step
<1>3. CASE Crash
  <2>1. FrameInv(Cleaning)' /\ pc' = "idle"
    BY <1>1, <1>3, CrashInv DEF Crash
  <2>2. AccountTypeOK' /\ RestTypeOK'
    BY <1>1, <1>3 DEF Crash, ObjectTypeOK, AccountTypeOK, RestTypeOK, storeVars
  <2> QED
    BY <2>1, <2>2 DEF BaseInv, ObjectTypeOK, Step
<1>4. CASE FrameUsers /\ UNCHANGED ownVars
  BY <1>1, <1>4, UsersInv, SameObjects DEF BaseInv, Deletion, jobVars
<1>5. CASE UNCHANGED vars
  BY <1>1, <1>5, SameObjects, BaseQuiet DEF vars, frameVars, outerVars
<1> QED
  BY <1>2, <1>3, <1>4, <1>5, BaseWorker, BaseTake, BaseDelivery, BaseAgents DEF Next

\* EndpointDiscovery's variables keep their types, whatever the meshes,
\* clusters, token validities and lagging caches.
THEOREM DiscoveryTypes == Spec => []TypeOK
BY BaseInit, BaseNext, BaseType, PTL DEF Spec

-----------------------------------------------------------------------------
(* No account without an owner *)

Held(k) == account[k] # NoAccount

OwnersPresent == \A k \in Key : Held(k) => Present(k[1])

\* A deletion loses none of the mesh's accounts on the way to the finalizer.
Thorough ==
  (pc # "idle" /\ Deletion) =>
    \A c \in Cluster : Held(<<cur, c>>) =>
      /\ pc = "deleteAccounts" => c \in doomed
      /\ pc \notin {"unbind", "release"}

OwnedInv == BaseInv /\ ("account" \notin late => OwnersPresent /\ Thorough)

\* Accounts are created for the mesh that is reconciled, and by nobody else.
LEMMA HeldSteps ==
  ASSUME BaseInv, [Next]_vars, NEW k \in Key, Held(k)'
  PROVE  Held(k) \/ (pc = "account" /\ k[1] = cur)
<1> DEFINE Goal == Held(k) \/ (pc = "account" /\ k[1] = cur)
<1>1. ASSUME UNCHANGED account PROVE Goal
  BY <1>1 DEF Held
<1>2. ASSUME NEW q \in Key, NEW a, PutAccount(q, a), a = NoAccount \/ Held(q) \/ (pc = "account" /\ q[1] = cur)
      PROVE  Goal
  <2>1. account'[k] = IF k = q THEN a ELSE account[k]
    BY <1>2 DEF BaseInv, ObjectTypeOK, AccountTypeOK, PutAccount
  <2> QED
    BY <1>2, <2>1 DEF Held
<1>3. ASSUME Worker PROVE Goal
  <2>1. ASSUME \/ ListAccounts \/ EnsureBinding \/ EnsurePlacement \/ EnsureBundle \/ Unbind
               \/ ReleaseMesh
        PROVE  Goal
    BY <1>1, <2>1 DEF ListAccounts, EnsureBinding, EnsurePlacement, EnsureBundle, Unbind, ReleaseMesh,
       ownVars, storeVars
  <2>2. ASSUME NEW c \in Cluster, EnsureAccount(c) PROVE Goal
    <3>1. <<cur, c>> \in Key /\ pc = "account"
      BY <2>2, AtWork DEF EnsureAccount, Key
    <3> QED
      BY <1>1, <1>2, <2>2, <3>1 DEF EnsureAccount, KeepAccounts
  <2>3. ASSUME NEW c \in Cluster, DeleteAccount(c) PROVE Goal
    <3>1. <<cur, c>> \in Key
      BY <2>3, AtWork DEF DeleteAccount, Key
    <3> QED
      BY <1>1, <1>2, <2>3, <3>1 DEF DeleteAccount, KeepAccounts
  <2> HIDE DEF Goal
  <2> QED
    BY <1>3, <2>1, <2>2, <2>3 DEF Worker
<1>4. ASSUME Agents PROVE Goal
  <2>1. ASSUME NEW q \in Key, AgentReport(q) PROVE Goal
    BY <1>2, <2>1 DEF AgentReport, Held
  <2>2. ASSUME NEW q \in Key, AgentIssue(q) \/ AgentRevoke(q) PROVE Goal
    BY <1>1, <2>2 DEF AgentIssue, AgentRevoke
  <2>3. ASSUME NEW m \in Mesh, Collect(m) PROVE Goal
    BY <1>1, <2>3 DEF Collect
  <2> HIDE DEF Goal
  <2> QED
    BY <1>4, <2>1, <2>2, <2>3 DEF Agents
<1>5. ASSUME \/ Delivery \/ FailMesh \/ Crash \/ UNCHANGED ownVars
             \/ \E m \in Mesh : TakeMesh(m)
      PROVE  Goal
  BY <1>1, <1>5 DEF Delivery, SyncAccount, SyncToken, SyncBundle, SyncBinding, FailMesh, Crash,
     TakeMesh, Begin, BeginDeletion, ownVars, storeVars
<1> HIDE DEF Goal
<1>6. Goal
  BY <1>3, <1>4, <1>5 DEF Next, vars
<1> QED
  BY <1>6 DEF Goal

\* Finalizers are removed by a Release alone.
LEMMA AgeSteps ==
  ASSUME BaseInv, [Next]_vars, ~ReleaseMesh
  PROVE  MeshesAge
<1>1. FrameInv(Cleaning)
  BY DEF BaseInv
<1>2. UNCHANGED mesh => MeshesAge
  BY DEF MeshesAge, Present
<1>3. CASE Worker
  BY <1>2, <1>3 DEF Worker, EnsureAccount, DeleteAccount, ListAccounts, EnsureBinding, EnsurePlacement,
     EnsureBundle, Unbind, outerVars, worldVars
<1>4. ASSUME NEW m \in Mesh, TakeMesh(m) PROVE MeshesAge
  <2>1. CASE TakeNothing(m) \/ TakeUnfinalized(m)
    BY <1>1, <2>1, TakeInv
  <2>2. CASE Begin(m) \/ BeginDeletion(m)
    BY <1>2, <2>2 DEF Begin, BeginDeletion, TakeLive, TakeDeleting, outerVars, worldVars
  <2> QED
    BY <1>4, <2>1, <2>2 DEF TakeMesh
<1>5. CASE FailMesh
  BY <1>2, <1>5 DEF FailMesh, Fail, worldVars
<1>6. CASE Delivery
  BY <1>1, <1>2, <1>6, DeliveryInv DEF Delivery, SyncAccount, SyncToken, SyncBundle, SyncBinding,
     frameVars, outerVars, worldVars
<1>7. CASE Agents
  BY <1>2, <1>7 DEF Agents, AgentIssue, AgentReport, AgentRevoke, Collect, frameVars, outerVars, worldVars
<1>8. CASE Crash
  BY <1>1, <1>8, CrashInv DEF Crash
<1>9. CASE FrameUsers
  BY <1>1, <1>9, UsersInv
<1>10. CASE UNCHANGED vars
  BY <1>2, <1>10 DEF vars, frameVars, outerVars, worldVars
<1> QED
  BY <1>3, <1>4, <1>5, <1>6, <1>7, <1>8, <1>9, <1>10 DEF Next

LEMMA OwnersStep ==
  ASSUME BaseInv, OwnersPresent, Thorough, [Next]_vars
  PROVE  OwnersPresent'
<1> SUFFICES ASSUME NEW k \in Key, Held(k)' PROVE Present(k[1])'
  BY DEF OwnersPresent
<1>1. k[1] \in Mesh /\ k[2] \in Cluster /\ k = <<k[1], k[2]>>
  BY DEF Key
<1>2. CASE ReleaseMesh
  <2>1. pc = "release" /\ Deletion /\ \A m \in Mesh \ {cur} : mesh'[m] = mesh[m]
    BY <1>2, ReleaseInv DEF ReleaseMesh, BaseInv
  <2>2. Held(k)
    BY <1>2 DEF ReleaseMesh, ownVars, storeVars, Held
  <2>3. k[1] # cur
    BY <1>1, <2>1, <2>2 DEF Thorough
  <2> QED
    BY <1>1, <2>1, <2>2, <2>3 DEF OwnersPresent, Present
<1>3. CASE ~ReleaseMesh
  <2>1. MeshesAge
    BY <1>3, AgeSteps
  <2>2. Present(k[1])
    <3>1. CASE Held(k)
      BY <3>1 DEF OwnersPresent
    <3>2. CASE pc = "account" /\ k[1] = cur
      BY <3>2 DEF BaseInv, FrameInv, Path, Cleaning
    <3> QED
      BY <3>1, <3>2, HeldSteps
  <2> QED
    BY <1>1, <2>1, <2>2 DEF MeshesAge
<1> QED
  BY <1>2, <1>3

LEMMA ThoroughStep ==
  ASSUME BaseInv, "account" \notin late, Thorough, [Next]_vars
  PROVE  Thorough'
<1> SUFFICES ASSUME pc' # "idle", Deletion', NEW c \in Cluster, Held(<<cur, c>>)'
             PROVE  /\ pc' = "deleteAccounts" => c \in doomed'
                    /\ pc' \notin {"unbind", "release"}
  BY DEF Thorough
<1> DEFINE Goal == /\ pc' = "deleteAccounts" => c \in doomed'
                   /\ pc' \notin {"unbind", "release"}
<1>1. ASSUME UNCHANGED cur, my' = my, pc # "idle"
      PROVE  cur \in Mesh /\ <<cur, c>> \in Key /\ Deletion /\ Held(<<cur, c>>)
             /\ pc \in Cleaning \union {"release"} /\ clusters = {}
  <2>1. cur \in Mesh /\ <<cur, c>> \in Key /\ Deletion
    BY <1>1, AtWork DEF Key, Deletion
  <2>2. pc \in Cleaning \union {"release"} /\ clusters = {}
    BY <1>1, <2>1 DEF BaseInv, FrameInv, Path
  <2>3. account'[<<cur, c>>] # NoAccount
    BY <1>1 DEF Held
  <2>4. \A k \in Key : account'[k] # NoAccount => Held(k) \/ (pc = "account" /\ k[1] = cur)
    BY HeldSteps DEF Held
  <2> QED
    BY <2>1, <2>2, <2>3, <2>4 DEF Cleaning
<1>2. ASSUME UNCHANGED <<pc, jobVars>> PROVE Goal
  <2>1. UNCHANGED <<cur, my, doomed>> /\ pc # "idle"
    BY <1>2 DEF jobVars
  <2> QED
    BY <1>1, <1>2, <2>1 DEF Thorough
<1>3. ASSUME Worker PROVE Goal
  <2>1. CASE ReleaseMesh \/ EnsureBundle
    BY <2>1 DEF ReleaseMesh, Release, EnsureBundle, Back, Finish, Done, Requeue, Settle
  <2>2. CASE ~(ReleaseMesh \/ EnsureBundle)
    <3>1. UNCHANGED <<cur, my>> /\ pc # "idle"
      BY <1>3, <2>2 DEF Worker, EnsureAccount, DeleteAccount, ListAccounts, EnsureBinding, EnsurePlacement,
         Unbind, GoTo, Spare, Doom, Advance, Back, Requeue, Settle, jobVars
    <3>2. CASE ListAccounts
      <4>1. SeenAccount[<<cur, c>>] # NoAccount /\ c \in Cluster \ clusters
        BY <1>1, <3>1 DEF SeenAccount, Held
      <4> QED
        BY <3>2, <4>1 DEF ListAccounts, Doom
    <3>3. ASSUME NEW d \in Cluster, DeleteAccount(d) PROVE Goal
      <4>1. pc = "deleteAccounts" /\ c \in doomed
        BY <1>1, <3>1, <3>3 DEF Thorough, DeleteAccount
      <4>2. c # d
        <5>1. SUFFICES ASSUME c = d PROVE FALSE
          OBVIOUS
        <5>2. PutAccount(<<cur, c>>, NoAccount)
          BY <1>1, <3>1, <3>3, <5>1 DEF DeleteAccount, Held
        <5>3. account'[<<cur, c>>] = NoAccount
          BY <1>1, <3>1, <5>2 DEF PutAccount, BaseInv, ObjectTypeOK, AccountTypeOK
        <5> QED
          BY <3>1, <5>3 DEF Held
      <4>3. doomed' = doomed \ {d} /\ (c \in doomed' => pc' = "deleteAccounts")
        BY <3>3 DEF DeleteAccount, Spare
      <4> QED
        BY <4>1, <4>2, <4>3
    <3>4. CASE Unbind
      BY <1>1, <3>1, <3>4 DEF Unbind, Thorough
    <3> QED
      BY <1>1, <1>3, <2>2, <3>1, <3>2, <3>3, <3>4
      DEF Worker, EnsureAccount, EnsureBinding, EnsurePlacement, Cleaning
  <2> QED
    BY <2>1, <2>2
<1>4. ASSUME NEW m \in Mesh, TakeMesh(m) PROVE Goal
  <2>1. CASE Begin(m)
    BY <2>1 DEF Begin, TakeLive, Deletion
  <2>2. CASE BeginDeletion(m)
    BY <2>2 DEF BeginDeletion, TakeDeleting
  <2>3. CASE TakeNothing(m) \/ TakeUnfinalized(m)
    BY <1>2, <2>3 DEF TakeNothing, TakeUnfinalized
  <2> QED
    BY <1>4, <2>1, <2>2, <2>3 DEF TakeMesh
<1>5. ASSUME FailMesh \/ Crash PROVE Goal
  BY <1>5 DEF FailMesh, Fail, Requeue, Settle, Crash, FrameCrash
<1>6. ASSUME Delivery PROVE Goal
  BY <1>2, <1>6, DeliveryInv DEF Delivery, SyncAccount, SyncToken, SyncBundle, SyncBinding, frameVars,
     BaseInv
<1>7. ASSUME Agents PROVE Goal
  BY <1>2, <1>7 DEF Agents, AgentIssue, AgentReport, AgentRevoke, Collect, frameVars
<1>8. ASSUME FrameUsers PROVE Goal
  BY <1>2, <1>8, UsersInv DEF BaseInv
<1>9. ASSUME UNCHANGED vars PROVE Goal
  BY <1>2, <1>9 DEF vars, frameVars
<1> HIDE DEF Goal
<1>10. Goal
  BY <1>3, <1>4, <1>5, <1>6, <1>7, <1>8, <1>9 DEF Next
<1> QED
  BY <1>10 DEF Goal

\* No step changes which caches may lag.
LEMMA LateStays == [Next]_vars => UNCHANGED late
BY DEF Next, Worker, EnsureAccount, DeleteAccount, ListAccounts, EnsureBinding, EnsurePlacement,
   EnsureBundle, Unbind, ReleaseMesh, FailMesh, Delivery, SyncAccount, SyncToken, SyncBundle, SyncBinding,
   Agents, AgentIssue, AgentReport, AgentRevoke, Collect, Crash, TakeMesh, Begin, BeginDeletion,
   ownVars, vars

\* An account exists only while its mesh does and carries the finalizer, if
\* accounts are read as they are: a deletion interrupted anywhere deletes every
\* account of the mesh before the finalizer goes.
THEOREM AccountsAreOwned == Spec => []AccountsOwned
<1>1. Init => OwnedInv
  <2> SUFFICES ASSUME Init PROVE OwnedInv
    OBVIOUS
  <2>1. OwnersPresent /\ Thorough
    BY DEF Init, FrameInit, OwnersPresent, Thorough, Held
  <2> QED
    BY <2>1, BaseInit DEF OwnedInv
<1>2. OwnedInv /\ [Next]_vars => OwnedInv'
  BY BaseNext, OwnersStep, ThoroughStep, LateStays DEF OwnedInv
<1>3. OwnedInv => AccountsOwned
  BY DEF OwnedInv, OwnersPresent, Held, Present, AccountsOwned
<1> QED
  BY <1>1, <1>2, <1>3, PTL DEF Spec

-----------------------------------------------------------------------------
(* Right at rest: what holds of a steady mesh, but for what is still to come *)

\* A cached account without an event is current.
AccountCopies == "account" \in late => \A k \in Key \ accountEv : accountC[k] = account[k]

JobSound ==
  /\ pc = "account" => todo \subseteq clusters
  /\ pc = "deleteAccounts" => doomed \intersect clusters = {}

\* The worker has still to see to the account on cluster c.
Ahead(c) ==
  \/ pc = "account" /\ (c \in todo \/ c \notin clusters)
  \/ pc = "listAccounts" /\ c \notin clusters
  \/ pc = "deleteAccounts" /\ c \in doomed

AccountRight(m, c) ==
  IF c \in SetMembers(SetOf[m])
    THEN Held(<<m, c>>) /\ account[<<m, c>>].valid = meshC[m].setting
    ELSE ~Held(<<m, c>>)

AccountsKept ==
  \A m \in Mesh, c \in Cluster : Steady(m) =>
    AccountRight(m, c) \/ <<m, c>> \in accountEv \/ (Working(m) /\ Ahead(c))

AccountsInv == BaseInv /\ Attention /\ AccountCopies /\ JobSound /\ AccountsKept

\* A Secret that is there has a token; no account refers to one still to come.
TokensKnown ==
  \A k \in Key : /\ token[k].here => token[k].serial > 0
                 /\ Held(k) => account[k].ref <= token[k].serial

ReachCurrent == (pc # "idle" /\ cur \notin queue /\ ~Deletion) => reach = {c \in clusters : clusterC[c].url}

\* The agent is still to issue or report the token.
Unsettled(k) == Held(k) /\ (~token[k].here \/ account[k].ref # token[k].serial)

\* What the mesh's bundle has of cluster c is what it should have.
PieceRight(m, c) ==
  \A s \in Nat : <<c, s>> \in bundle[m] <=>
    c \in SetMembers(SetOf[m]) /\ clusterC[c].url /\ s = token[<<m, c>>].serial

BundlesKept ==
  \A m \in Mesh, c \in Cluster : (Steady(m) /\ ~Working(m)) =>
    PieceRight(m, c) \/ <<m, c>> \in accountEv \/ Unsettled(<<m, c>>)

BundlesInv == AccountsInv /\ TokensKnown /\ ReachCurrent /\ (late \intersect {"secret", "bundle"} = {} => BundlesKept)

BindingsKept ==
  \A m \in Mesh : (Steady(m) /\ SetOf[m] \in setsC) =>
    /\ \/ <<NsOf[m], SetOf[m]>> \in binding
       \/ Working(m) /\ pc \in {"account", "listAccounts", "deleteAccounts", "binding"}
    /\ \/ m \in placement
       \/ Working(m) /\ pc \in {"account", "listAccounts", "deleteAccounts", "binding", "placement"}

\* No mesh goes without a clean-up, or none with one.
OneWay ==
  \/ /\ budget["withdraw"] = 0
     /\ \A m \in Mesh : meshC[m].phase = "live" => mesh[m].phase \in {"live", "deleting"}
  \/ /\ budget["delete"] = 0 /\ (pc # "idle" => ~Deletion)
     /\ \A m \in Mesh : mesh[m].phase # "deleting" /\ meshC[m].phase # "deleting"

\* Somebody will remove the binding.
BindingOwned ==
  \A p \in binding : \E m \in Mesh :
    /\ p = <<NsOf[m], SetOf[m]>> /\ mesh[m].phase \in {"live", "deleting"}
    /\ mesh[m].fin \/ budget["withdraw"] = 0
    /\ ~(pc = "release" /\ cur = m)

LEMMA AttentionNext ==
  ASSUME BaseInv, Attention, [Next]_vars
  PROVE  Attention' /\ \A m \in Mesh : Steady(m)' => Begin(m) \/ SameView(m)
<1> DEFINE Goal == Attention' /\ \A m \in Mesh : Steady(m)' => Begin(m) \/ SameView(m)
<1>1. FrameInv(Cleaning) /\ FrameTypeOK
  BY DEF BaseInv, FrameInv
<1>2. ASSUME Worker PROVE Goal
  <2>1. CASE ReleaseMesh
    BY <1>1, <2>1, ReleaseInv, AttentionRelease DEF ReleaseMesh
  <2>2. CASE EnsureBundle
    <3>1. UNCHANGED outerVars /\ pc # "idle" /\ ~Deletion /\ (Done \/ Requeue)
      BY <2>2, AtWork DEF EnsureBundle, Cleaning, Back, Finish
    <3> QED
      BY <3>1, AttentionEnd
  <2>3. CASE ~(ReleaseMesh \/ EnsureBundle)
    <3>1. UNCHANGED outerVars /\ pc # "idle"
      BY <1>2, <2>3 DEF Worker, EnsureAccount, DeleteAccount, ListAccounts, EnsureBinding, EnsurePlacement,
         Unbind
    <3>2. (pc' # "idle" /\ UNCHANGED <<queue, cur, my, clusters>>) \/ Requeue
      BY <1>2, <2>3 DEF Worker, EnsureAccount, DeleteAccount, ListAccounts, EnsureBinding, EnsurePlacement,
         Unbind, GoTo, Spare, Doom, Advance, Back, AfterAccounts, jobVars
    <3> QED
      BY <3>1, <3>2, AttentionJob, AttentionEnd
  <2> QED
    BY <2>1, <2>2, <2>3
<1>3. ASSUME NEW o \in Mesh, TakeMesh(o) PROVE Goal
  <2>1. CASE Begin(o)
    <3>1. TakeLive(o, "account", "listAccounts")
      BY <2>1 DEF Begin
    <3> QED
      BY <2>1, <3>1, AttentionTakeLive
  <2>2. CASE BeginDeletion(o)
    BY <2>2, AttentionTakeDeleting DEF BeginDeletion
  <2>3. CASE TakeNothing(o) \/ TakeUnfinalized(o)
    BY <1>1, <2>3, AttentionTake
  <2> QED
    BY <1>3, <2>1, <2>2, <2>3 DEF TakeMesh
<1>4. ASSUME FailMesh PROVE Goal
  BY <1>4, AttentionFail DEF FailMesh
<1>5. ASSUME Delivery PROVE Goal
  <2>1. CASE FrameDelivery
    BY <1>1, <2>1, AttentionDelivery
  <2>2. CASE ~FrameDelivery
    <3>1. UNCHANGED <<worldVars, cacheVars, eventVars, pc, jobVars>> /\ queue \subseteq queue'
      BY <1>5, <2>2 DEF Delivery, SyncAccount, SyncToken, SyncBundle, SyncBinding, frameVars, outerVars
    <3> QED
      BY <3>1, AttentionQuiet
  <2> QED
    BY <2>1, <2>2
<1>6. ASSUME Agents \/ UNCHANGED vars PROVE Goal
  <2>1. UNCHANGED <<worldVars, cacheVars, eventVars, pc, jobVars>> /\ queue = queue'
    BY <1>6 DEF Agents, AgentIssue, AgentReport, AgentRevoke, Collect, frameVars, outerVars, vars
  <2> QED
    BY <2>1, AttentionQuiet
<1>7. ASSUME Crash PROVE Goal
  BY <1>1, <1>7, AttentionCrash DEF Crash
<1>8. ASSUME FrameUsers PROVE Goal
  BY <1>1, <1>8, AttentionUsers
<1> HIDE DEF Goal
<1>9. Goal
  BY <1>2, <1>3, <1>4, <1>5, <1>6, <1>7, <1>8 DEF Next
<1> QED
  BY <1>9 DEF Goal

\* Nobody but the worker touches its job.
LEMMA JobSteps ==
  ASSUME BaseInv, [Next]_vars
  PROVE  \/ Worker \/ FailMesh \/ Crash
         \/ \E m \in Mesh : Begin(m) \/ BeginDeletion(m)
         \/ UNCHANGED <<pc, jobVars, reach>>
<1>1. FrameInv(Cleaning)
  BY DEF BaseInv
<1>2. ASSUME NEW m \in Mesh, TakeMesh(m), ~(Begin(m) \/ BeginDeletion(m))
      PROVE  UNCHANGED <<pc, jobVars, reach>>
  BY <1>1, <1>2, TakeInv DEF TakeMesh, ownVars
<1>3. CASE Delivery
  BY <1>1, <1>3, DeliveryInv DEF Delivery, SyncAccount, SyncToken, SyncBundle, SyncBinding, frameVars,
     ownVars
<1>4. CASE Agents
  BY <1>4 DEF Agents, AgentIssue, AgentReport, AgentRevoke, Collect, frameVars
<1>5. CASE FrameUsers /\ UNCHANGED ownVars
  BY <1>1, <1>5, UsersInv DEF ownVars
<1>6. CASE UNCHANGED vars
  BY <1>6 DEF vars, frameVars, ownVars
<1> QED
  BY <1>2, <1>3, <1>4, <1>5, <1>6 DEF Next

\* An account that changes has an event, and an event queues its mesh.
LEMMA AccountSteps ==
  ASSUME BaseInv, AccountCopies, [Next]_vars, NEW k \in Key
  PROVE  /\ account'[k] = account[k] \/ k \in accountEv'
         /\ k \in accountEv => k \in accountEv' \/ k[1] \in queue' \/ Crash
         /\ ("account" \in late' /\ k \notin accountEv') => accountC'[k] = account'[k]
<1> DEFINE Goal == /\ account'[k] = account[k] \/ k \in accountEv'
                   /\ k \in accountEv => k \in accountEv' \/ k[1] \in queue' \/ Crash
                   /\ ("account" \in late' /\ k \notin accountEv') => accountC'[k] = account'[k]
<1>1. AccountTypeOK
  BY DEF BaseInv, ObjectTypeOK
<1>2. ASSUME KeepAccounts, UNCHANGED <<accountC, late>> PROVE Goal
  BY <1>2 DEF KeepAccounts, AccountCopies
<1>3. ASSUME NEW q \in Key, NEW a, PutAccount(q, a), UNCHANGED <<accountC, late>> PROVE Goal
  <2>1. accountEv' = accountEv \union {q} /\ (k # q => account'[k] = account[k])
    BY <1>1, <1>3 DEF AccountTypeOK, PutAccount
  <2> QED
    BY <1>3, <2>1 DEF AccountCopies
<1>4. ASSUME Worker PROVE Goal
  <2>1. UNCHANGED <<accountC, late>>
    BY <1>4 DEF Worker, EnsureAccount, DeleteAccount, ListAccounts, EnsureBinding, EnsurePlacement,
       EnsureBundle, Unbind, ReleaseMesh, copyVars, ownVars
  <2>2. ASSUME NEW c \in Cluster, EnsureAccount(c) \/ DeleteAccount(c) PROVE Goal
    <3>1. <<cur, c>> \in Key
      BY <2>2, AtWork DEF EnsureAccount, DeleteAccount, Key
    <3> QED
      BY <1>2, <1>3, <2>1, <2>2, <3>1 DEF EnsureAccount, DeleteAccount
  <2>3. ASSUME ListAccounts \/ EnsureBinding \/ EnsurePlacement \/ EnsureBundle \/ Unbind \/ ReleaseMesh
        PROVE  Goal
    BY <1>2, <2>1, <2>3 DEF ListAccounts, EnsureBinding, EnsurePlacement, EnsureBundle, Unbind, ReleaseMesh,
       KeepAccounts, ownVars, storeVars
  <2> HIDE DEF Goal
  <2> QED
    BY <1>4, <2>2, <2>3 DEF Worker
<1>5. ASSUME Delivery PROVE Goal
  <2>1. ASSUME NEW q \in Key, SyncAccount(q) PROVE Goal
    <3>1. UNCHANGED <<account, late>> /\ accountEv' = accountEv \ {q} /\ q[1] \in queue'
          /\ ("account" \in late => accountC' = [accountC EXCEPT ![q] = account[q]])
      BY <2>1 DEF SyncAccount, storeVars
    <3>2. "account" \in late => accountC'[k] = IF k = q THEN account[k] ELSE accountC[k]
      BY <1>1, <3>1 DEF AccountTypeOK
    <3> QED
      BY <3>1, <3>2 DEF AccountCopies
  <2>2. ASSUME \/ (FrameDelivery /\ UNCHANGED ownVars) \/ SyncBinding
               \/ \E q \in Key : SyncToken(q) \/ \E m \in Mesh : SyncBundle(m)
        PROVE  Goal
    BY <1>2, <2>2 DEF SyncToken, SyncBundle, SyncBinding, KeepAccounts, ownVars, storeVars, copyVars
  <2> HIDE DEF Goal
  <2>3. Goal
    BY <1>5, <2>1, <2>2 DEF Delivery
  <2> QED
    BY <2>3
<1>6. ASSUME Agents PROVE Goal
  <2>1. ASSUME NEW q \in Key, AgentReport(q) PROVE Goal
    BY <1>3, <2>1 DEF AgentReport, copyVars
  <2>2. ASSUME \/ \E q \in Key : AgentIssue(q) \/ AgentRevoke(q)
               \/ \E m \in Mesh : Collect(m)
        PROVE  Goal
    BY <1>2, <2>2 DEF AgentIssue, AgentRevoke, Collect, KeepAccounts, copyVars
  <2> HIDE DEF Goal
  <2> QED
    BY <1>6, <2>1, <2>2 DEF Agents
<1>7. ASSUME Crash PROVE Goal
  BY <1>7 DEF Crash, storeVars
<1>8. ASSUME \/ FailMesh \/ UNCHANGED ownVars
             \/ \E m \in Mesh : TakeMesh(m)
      PROVE  Goal
  BY <1>2, <1>8 DEF FailMesh, TakeMesh, Begin, BeginDeletion, KeepAccounts, ownVars, storeVars, copyVars
<1> HIDE DEF Goal
<1>9. Goal
  BY <1>4, <1>5, <1>6, <1>7, <1>8 DEF Next, vars
<1> QED
  BY <1>9 DEF Goal

LEMMA JobSoundStep == ASSUME BaseInv, JobSound, [Next]_vars PROVE JobSound'
<1>1. CASE Worker
  BY <1>1 DEF Worker, EnsureAccount, DeleteAccount, ListAccounts, EnsureBinding, EnsurePlacement,
     EnsureBundle, Unbind, ReleaseMesh, Release, GoTo, Spare, Doom, Advance, Back, Finish, Done, Requeue,
     Settle, AfterAccounts, JobSound, jobVars
<1>2. CASE FailMesh \/ Crash
  BY <1>2 DEF FailMesh, Fail, Requeue, Crash, FrameCrash, Settle, JobSound
<1>3. CASE \E m \in Mesh : Begin(m) \/ BeginDeletion(m)
  BY <1>3 DEF Begin, TakeLive, BeginDeletion, TakeDeleting, JobSound
<1>4. CASE UNCHANGED <<pc, jobVars, reach>>
  BY <1>4 DEF JobSound, jobVars
<1> QED
  BY <1>1, <1>2, <1>3, <1>4, JobSteps

\* The step at which the worker sees to the account of its mesh on a cluster
\* leaves it right, or changes it.
LEMMA AccountDone ==
  ASSUME AccountsInv, Worker, NEW c \in Cluster,
         cur \notin queue', Steady(cur), Ahead(c), ~Ahead(c)', <<cur, c>> \notin accountEv',
         <<cur, c>> \notin accountEv
  PROVE  UNCHANGED account /\ AccountRight(cur, c)
<1>1. /\ BaseInv /\ pc \in {"account", "listAccounts", "deleteAccounts"} /\ pc # "idle"
      /\ cur \in Mesh /\ <<cur, c>> \in Key
  BY AtWork DEF AccountsInv, Ahead, Key
<1>2. my = meshC[cur] /\ ~Deletion /\ clusters = SetMembers(SetOf[cur])
  BY <1>1 DEF AccountsInv, Attention, JobCurrent, Steady, Deletion
<1>3. SeenAccount[<<cur, c>>] = account[<<cur, c>>]
  BY <1>1 DEF AccountsInv, AccountCopies, SeenAccount
<1>4. ~Back
  BY DEF Back, Requeue
<1>5. ASSUME NEW d \in Cluster, EnsureAccount(d) PROVE UNCHANGED account /\ AccountRight(cur, c)
  <2>1. pc = "account" /\ d \in todo /\ Advance(d, "account", "listAccounts") /\ UNCHANGED clusters
    BY <1>4, <1>5 DEF EnsureAccount, Visiting
  <2>2. c = d
    BY <2>1 DEF Advance, Ahead
  <2>3. ~PutAccount(<<cur, c>>, WantedAccount(SeenAccount[<<cur, c>>]))
    BY DEF PutAccount
  <2>4. account[<<cur, c>>] = WantedAccount(account[<<cur, c>>]) /\ KeepAccounts
    BY <1>3, <1>4, <1>5, <2>2, <2>3 DEF EnsureAccount
  <2>5. WantedAccount(account[<<cur, c>>]) \in AccountRecord /\ WantedAccount(account[<<cur, c>>]).valid = my.setting
    BY <1>1, <1>3, WantedTypes DEF WantedAccount
  <2>6. Held(<<cur, c>>) /\ account[<<cur, c>>].valid = my.setting
    BY <2>4, <2>5, DiscoveryAssumption DEF Held
  <2>7. c \in clusters
    BY <2>1, <2>2 DEF AccountsInv, JobSound
  <2> QED
    BY <1>2, <2>4, <2>6, <2>7 DEF AccountRight, KeepAccounts
<1>6. ASSUME ListAccounts PROVE UNCHANGED account /\ AccountRight(cur, c)
  <2>1. pc = "listAccounts" /\ c \notin clusters
    BY <1>6 DEF ListAccounts, Ahead
  <2>2. SeenAccount[<<cur, c>>] = NoAccount
    BY <1>6, <2>1 DEF ListAccounts, Doom, Ahead
  <2> QED
    BY <1>2, <1>3, <1>6, <2>1, <2>2 DEF ListAccounts, AccountRight, Held, ownVars, storeVars
<1>7. ASSUME NEW d \in Cluster, DeleteAccount(d) PROVE UNCHANGED account /\ AccountRight(cur, c)
  <2>1. pc = "deleteAccounts" /\ c \in doomed /\ doomed' = doomed \ {d}
        /\ pc' = IF doomed' = {} THEN AfterAccounts ELSE "deleteAccounts"
    BY <1>7 DEF DeleteAccount, Spare, Ahead
  <2>2. c = d
    BY <2>1 DEF Ahead
  <2>3. ~PutAccount(<<cur, c>>, NoAccount)
    BY DEF PutAccount
  <2>4. ~Held(<<cur, c>>) /\ KeepAccounts
    BY <1>7, <2>2, <2>3 DEF DeleteAccount, Held
  <2>5. c \notin clusters
    BY <2>1 DEF AccountsInv, JobSound
  <2> QED
    BY <1>2, <2>4, <2>5 DEF AccountRight, KeepAccounts
<1> QED
  BY <1>1, <1>5, <1>6, <1>7
  DEF Worker, EnsureBinding, EnsurePlacement, EnsureBundle, Unbind, ReleaseMesh, Release

LEMMA AccountsKeptStep == ASSUME AccountsInv, [Next]_vars PROVE AccountsKept'
<1> SUFFICES ASSUME NEW m \in Mesh, NEW c \in Cluster, Steady(m)', <<m, c>> \notin accountEv',
                    ~(Working(m)' /\ Ahead(c)')
             PROVE  AccountRight(m, c)'
  BY DEF AccountsKept
<1>1. BaseInv /\ <<m, c>> \in Key /\ FrameTypeOK
  BY DEF AccountsInv, BaseInv, FrameInv, Key
<1>2. SameView(m)
  <2>1. ~Begin(m)
    BY DEF Begin, TakeLive, Working, Ahead
  <2> QED
    BY <1>1, <2>1, AttentionNext DEF AccountsInv
<1>3. ~Crash
  BY <1>1, AttentionCrash DEF Crash, AccountsInv
<1>4. account'[<<m, c>>] = account[<<m, c>>] /\ <<m, c>> \notin accountEv
  BY <1>1, <1>3, AccountSteps DEF AccountsInv, Steady
<1>5. AccountRight(m, c) => AccountRight(m, c)'
  BY <1>2, <1>4 DEF AccountRight, SameView, Held
<1>6. CASE Working(m) /\ Ahead(c)
  <2>1. CASE Worker
    <3>1. ~(cur' = cur /\ pc' # "idle") => ~Ahead(c)'
      BY <2>1 DEF Worker, EnsureAccount, DeleteAccount, ListAccounts, EnsureBinding, EnsurePlacement,
         EnsureBundle, Unbind, ReleaseMesh, Release, GoTo, Spare, Doom, Advance, Back, Finish, Done, Requeue,
         Settle, AfterAccounts, Ahead, jobVars
    <3>2. ~Ahead(c)'
      BY <1>6, <3>1 DEF Working
    <3>3. cur \notin queue' /\ Steady(cur) /\ m = cur
      BY <1>2, <1>6 DEF Steady, SameView, Working
    <3> QED
      BY <1>4, <1>5, <1>6, <2>1, <3>2, <3>3, AccountDone
  <2>2. CASE FailMesh
    BY <1>6, <2>2 DEF FailMesh, Fail, Requeue, Steady, Working
  <2>3. CASE \E o \in Mesh : Begin(o) \/ BeginDeletion(o)
    BY <1>6, <2>3 DEF Begin, TakeLive, BeginDeletion, TakeDeleting, Working
  <2>4. CASE UNCHANGED <<pc, jobVars, reach>>
    BY <1>6, <2>4 DEF Working, Ahead, jobVars
  <2> QED
    BY <1>1, <1>3, <2>1, <2>2, <2>3, <2>4, JobSteps
<1> QED
  BY <1>2, <1>4, <1>5, <1>6 DEF AccountsInv, AccountsKept, SameView

LEMMA AccountsNext == AccountsInv /\ [Next]_vars => AccountsInv'
<1> SUFFICES ASSUME AccountsInv, [Next]_vars PROVE AccountsInv'
  OBVIOUS
<1>1. AccountCopies'
  BY AccountSteps DEF AccountsInv, AccountCopies
<1> QED
  BY <1>1, BaseNext, AttentionNext, JobSoundStep, AccountsKeptStep DEF AccountsInv

LEMMA AccountsInit == Init => AccountsInv
<1> SUFFICES ASSUME Init PROVE AccountsInv
  OBVIOUS
<1>1. AccountCopies /\ JobSound
  BY DEF Init, FrameInit, AccountCopies, JobSound
<1>2. \A m \in Mesh : ~Steady(m)
  BY BlankTypes DEF Init, FrameInit, Steady, Blank
<1> QED
  BY <1>1, <1>2, BaseInit, AttentionInit DEF Init, AccountsInv, AccountsKept

\* At rest an accepted mesh has accounts on exactly the clusters of its set, with
\* the validity its spec asks for now: every cause of a change queues the mesh,
\* and a reconcile that judged an outdated copy is repeated when the copy's event
\* arrives.  It holds for any number of meshes, clusters and disturbances, and
\* whichever caches lag.
THEOREM AccountsAtRest == Spec => []RestAccounts
<1>1. AccountsInv => RestAccounts
  <2> SUFFICES ASSUME AccountsInv, AtRest, NEW m \in Mesh, Accepted(m), NEW c \in Cluster
               PROVE  IF c \in ClustersOf(SetOf[m])
                        THEN account[<<m, c>>] # NoAccount /\ account[<<m, c>>].valid = mesh[m].setting
                        ELSE account[<<m, c>>] = NoAccount
    BY DEF RestAccounts
  <2>1. /\ Steady(m) /\ ~Working(m) /\ meshC[m] = mesh[m] /\ ClustersOf(SetOf[m]) = SetMembers(SetOf[m])
        /\ <<m, c>> \notin accountEv
    BY RestView DEF AccountsInv, BaseInv, FrameInv, AtRest
  <2> QED
    BY <2>1 DEF AccountsInv, AccountsKept, AccountRight, Held
<1> QED
  BY <1>1, AccountsInit, AccountsNext, PTL DEF Spec

-----------------------------------------------------------------------------
(* Bundles at rest *)

\* What a step does to a token, and to the bundle of a mesh.
LEMMA TokenSteps ==
  ASSUME BaseInv, [Next]_vars, NEW k \in Key
  PROVE  \/ token'[k] = token[k]
         \/ AgentIssue(k) /\ token'[k].here /\ token'[k].serial = token[k].serial + 1
         \/ AgentRevoke(k) /\ ~token'[k].here /\ token'[k].serial = token[k].serial
<1> DEFINE Goal == \/ token'[k] = token[k]
                   \/ AgentIssue(k) /\ token'[k].here /\ token'[k].serial = token[k].serial + 1
                   \/ AgentRevoke(k) /\ ~token'[k].here /\ token'[k].serial = token[k].serial
<1>1. token \in [Key -> TokenRecord]
  BY DEF BaseInv, ObjectTypeOK, RestTypeOK
<1>2. ASSUME NEW q \in Key, AgentIssue(q) PROVE Goal
  BY <1>1, <1>2 DEF AgentIssue
<1>3. ASSUME NEW q \in Key, AgentRevoke(q) PROVE Goal
  <2>1. token' = [token EXCEPT ![q].here = FALSE] /\ token[q] \in TokenRecord
    BY <1>1, <1>3 DEF AgentRevoke
  <2>2. token'[k] = IF k = q THEN [token[k] EXCEPT !.here = FALSE] ELSE token[k]
    BY <1>1, <2>1
  <2> QED
    BY <1>3, <2>1, <2>2 DEF TokenRecord
<1>4. ASSUME UNCHANGED token PROVE Goal
  BY <1>4
<1>5. ASSUME Agents PROVE UNCHANGED token \/ \E q \in Key : AgentIssue(q) \/ AgentRevoke(q)
  BY <1>5 DEF Agents, AgentReport, Collect
<1>6. UNCHANGED token \/ Agents
  BY DEF Next, Worker, EnsureAccount, DeleteAccount, ListAccounts, EnsureBinding, EnsurePlacement,
     EnsureBundle, Unbind, ReleaseMesh, FailMesh, Delivery, SyncAccount, SyncToken, SyncBundle, SyncBinding,
     Crash, TakeMesh, Begin, BeginDeletion, storeVars, ownVars, vars
<1> HIDE DEF Goal
<1>7. Goal
  BY <1>2, <1>3, <1>4, <1>5, <1>6
<1> QED
  BY <1>7 DEF Goal

LEMMA BundleSteps ==
  ASSUME BaseInv, [Next]_vars, NEW m \in Mesh
  PROVE  bundle'[m] = bundle[m] \/ (EnsureBundle /\ cur = m) \/ mesh[m].phase = "gone"
<1>1. bundle \in [Mesh -> Bundle]
  BY DEF BaseInv, ObjectTypeOK, RestTypeOK
<1>2. CASE EnsureBundle
  BY <1>1, <1>2 DEF EnsureBundle
<1>3. ASSUME NEW o \in Mesh, Collect(o) PROVE bundle'[m] = bundle[m] \/ mesh[m].phase = "gone"
  BY <1>1, <1>3 DEF Collect
<1>4. UNCHANGED bundle \/ EnsureBundle \/ \E o \in Mesh : Collect(o)
  BY DEF Next, Worker, EnsureAccount, DeleteAccount, ListAccounts, EnsureBinding, EnsurePlacement,
     Unbind, ReleaseMesh, FailMesh, Delivery, SyncAccount, SyncToken, SyncBundle, SyncBinding,
     Agents, AgentIssue, AgentReport, AgentRevoke, Crash, TakeMesh, Begin, BeginDeletion, storeVars, ownVars, vars
<1> QED
  BY <1>2, <1>3, <1>4

\* Accounts that change refer to what they did, to nothing, or to the token there is.
LEMMA RefSteps ==
  ASSUME BaseInv, [Next]_vars, NEW k \in Key, Held(k)'
  PROVE  \/ account'[k].ref = 0
         \/ Held(k) /\ account'[k].ref = account[k].ref
         \/ AgentReport(k) /\ account'[k].ref = token[k].serial
<1> DEFINE Goal == \/ account'[k].ref = 0
                   \/ Held(k) /\ account'[k].ref = account[k].ref
                   \/ AgentReport(k) /\ account'[k].ref = token[k].serial
<1>1. account \in [Key -> AccountRecord \union {NoAccount}]
  BY DEF BaseInv, ObjectTypeOK, AccountTypeOK
<1>2. ASSUME UNCHANGED account PROVE Goal
  BY <1>2 DEF Held
<1>3. ASSUME NEW q \in Key, NEW a, PutAccount(q, a) PROVE account'[k] = IF k = q THEN a ELSE account[k]
  BY <1>1, <1>3 DEF PutAccount
<1>4. ASSUME NEW c \in Cluster, EnsureAccount(c) PROVE Goal
  <2> DEFINE q == <<cur, c>>
  <2>1. q \in Key
    BY <1>4, AtWork DEF EnsureAccount, Key
  <2>2. CASE UNCHANGED account
    BY <1>2, <2>2
  <2>3. CASE PutAccount(q, WantedAccount(SeenAccount[q])) /\ SeenAccount[q] = account[q]
    <3>1. WantedAccount(SeenAccount[q]).ref = IF account[q] = NoAccount THEN 0 ELSE account[q].ref
      BY <2>3 DEF WantedAccount
    <3> QED
      BY <1>3, <2>1, <2>3, <3>1 DEF Held
  <2> QED
    BY <1>4, <2>2, <2>3 DEF EnsureAccount, KeepAccounts
<1>5. ASSUME NEW c \in Cluster, DeleteAccount(c) PROVE Goal
  <2>1. <<cur, c>> \in Key
    BY <1>5, AtWork DEF DeleteAccount, Key
  <2> QED
    BY <1>2, <1>3, <1>5, <2>1 DEF DeleteAccount, KeepAccounts, Held
<1>6. ASSUME NEW q \in Key, AgentReport(q) PROVE Goal
  <2>1. account[q] \in AccountRecord
    BY <1>1, <1>6 DEF AgentReport
  <2>2. account'[k] = IF k = q THEN [account[q] EXCEPT !.ref = token[q].serial] ELSE account[k]
    BY <1>3, <1>6 DEF AgentReport
  <2>3. [account[q] EXCEPT !.ref = token[q].serial].ref = token[q].serial
    BY <2>1 DEF AccountRecord
  <2> QED
    BY <1>6, <2>2, <2>3 DEF Held
<1>7. \/ UNCHANGED account
      \/ \E c \in Cluster : EnsureAccount(c) \/ DeleteAccount(c)
      \/ \E q \in Key : AgentReport(q)
  BY DEF Next, Worker, ListAccounts, EnsureBinding, EnsurePlacement, EnsureBundle,
     Unbind, ReleaseMesh, FailMesh, Delivery, SyncAccount, SyncToken, SyncBundle, SyncBinding,
     Agents, AgentIssue, AgentRevoke, Collect, Crash, TakeMesh, Begin, BeginDeletion, storeVars, ownVars, vars
<1> HIDE DEF Goal
<1>8. Goal
  BY <1>2, <1>4, <1>5, <1>6, <1>7
<1> QED
  BY <1>8 DEF Goal

LEMMA TokensStep == ASSUME BaseInv, TokensKnown, [Next]_vars PROVE TokensKnown'
<1> SUFFICES ASSUME NEW k \in Key
             PROVE  /\ token'[k].here => token'[k].serial > 0
                    /\ Held(k)' => account'[k].ref <= token'[k].serial
  BY DEF TokensKnown
<1>1. /\ token[k].serial \in Nat /\ (token[k].here => token[k].serial > 0)
      /\ Held(k) => account[k].ref \in Nat /\ account[k].ref <= token[k].serial
  BY DEF BaseInv, ObjectTypeOK, AccountTypeOK, RestTypeOK, TokenRecord, AccountRecord, TokensKnown, Held
<1>2. \/ token'[k] = token[k]
      \/ token'[k].serial = token[k].serial + 1
      \/ ~token'[k].here /\ token'[k].serial = token[k].serial
  BY <1>1, TokenSteps
<1>3. /\ token'[k].serial \in {token[k].serial, token[k].serial + 1}
      /\ token'[k].here => token'[k].serial > 0
  <2>1. token[k].serial + 1 > 0
    BY <1>1
  <2> QED
    BY <1>1, <1>2, <2>1
<1>4. ASSUME Held(k)' PROVE account'[k].ref <= token'[k].serial
  <2>1. CASE account'[k].ref = 0 \/ (Held(k) /\ account'[k].ref = account[k].ref)
    BY <1>1, <1>3, <2>1
  <2>2. CASE AgentReport(k) /\ account'[k].ref = token[k].serial
    BY <1>1, <1>3, <2>2
  <2> QED
    BY <1>4, <2>1, <2>2, RefSteps
<1> QED
  BY <1>3, <1>4

LEMMA ReachStep == ASSUME BaseInv, Attention, ReachCurrent, [Next]_vars PROVE ReachCurrent'
<1> SUFFICES ASSUME pc' # "idle", cur' \notin queue', ~Deletion'
             PROVE  reach' = {c \in clusters' : clusterC'[c].url}
  BY DEF ReachCurrent
<1>1. Steady(cur)' /\ cur' \in Mesh
  BY BaseNext, AttentionNext DEF BaseInv, FrameInv, FrameTypeOK, Attention, JobCurrent, Deletion, Steady
<1>2. CASE \E m \in Mesh : Begin(m) \/ BeginDeletion(m)
  <2>1. PICK m \in Mesh : Begin(m)
    BY <1>2, AttentionNext DEF BeginDeletion, TakeDeleting, Begin, TakeLive, Deletion, Attention, Attended,
       JobCurrent
  <2> QED
    BY <2>1 DEF Begin, TakeLive, outerVars, cacheVars
<1>3. CASE ~\E m \in Mesh : Begin(m) \/ BeginDeletion(m)
  <2>1. UNCHANGED <<cur, my, clusters, reach>> /\ pc # "idle"
    <3>1. CASE Worker
      BY <3>1 DEF Worker, EnsureAccount, DeleteAccount, ListAccounts, EnsureBinding, EnsurePlacement,
         EnsureBundle, Unbind, ReleaseMesh, Release, GoTo, Spare, Doom, Advance, Back, Finish, Done, Requeue,
         Settle, jobVars, ownVars
    <3>2. CASE FailMesh \/ Crash
      BY <3>2 DEF FailMesh, Fail, Requeue, Crash, FrameCrash, Settle
    <3>3. CASE UNCHANGED <<pc, jobVars, reach>>
      BY <3>3 DEF jobVars
    <3> QED
      BY <1>3, <3>1, <3>2, <3>3, JobSteps
  <2>2. SameView(cur)
    BY <1>1, <1>3, <2>1, AttentionNext DEF Steady
  <2>3. cur \notin queue /\ ~Deletion
    BY <2>1, <2>2 DEF SameView, Steady, Deletion
  <2>4. reach = {c \in clusters : clusterC[c].url} /\ clusters = SetMembers(SetOf[cur])
    BY <2>1, <2>3 DEF ReachCurrent, Attention, JobCurrent
  <2> QED
    BY <2>1, <2>2, <2>4 DEF SameView
<1> QED
  BY <1>2, <1>3

\* The last step of a reconcile leaves the bundle as it should be, as far as
\* accounts have reached the cache and agents are done.
LEMMA BundleDone ==
  ASSUME BundlesInv, late \intersect {"secret", "bundle"} = {}, EnsureBundle, Finish, NEW m \in Mesh, m = cur, Steady(m),
         NEW c \in Cluster, <<m, c>> \notin accountEv, ~Unsettled(<<m, c>>), [Next]_vars
  PROVE  PieceRight(m, c)'
<1> DEFINE k == <<m, c>>
<1>1. /\ BaseInv /\ AccountsInv /\ pc = "bundle" /\ k \in Key /\ ~Deletion
      /\ UNCHANGED <<token, clusterC, setsC>>
  BY AtWork DEF BundlesInv, AccountsInv, EnsureBundle, Key, Cleaning, outerVars, cacheVars
<1>2. clusters = SetMembers(SetOf[m]) /\ reach = {d \in clusters : clusterC[d].url}
  BY <1>1 DEF BundlesInv, AccountsInv, Attention, JobCurrent, ReachCurrent, Steady
<1>3. SeenAccount[k] = account[k] /\ SeenToken = token /\ SeenBundle = bundle
  BY <1>1 DEF AccountsInv, AccountCopies, SeenAccount, SeenToken, SeenBundle
<1>4. bundle'[m] = WantedBundle
  <2>1. bundle \in [Mesh -> Bundle]
    BY <1>1 DEF BaseInv, ObjectTypeOK, RestTypeOK
  <2>2. ~Back
    BY DEF Finish, Done, Back, Requeue, Steady
  <2> QED
    BY <1>1, <1>3, <2>1, <2>2 DEF EnsureBundle
<1>5. AccountRight(m, c)
  BY <1>1 DEF AccountsInv, AccountsKept, Ahead
<1>6. c \in reach => /\ SeenAccount[k] # NoAccount /\ SeenAccount[k].ref # 0
                     /\ SeenToken[k].here
  <2> SUFFICES ASSUME c \in reach
               PROVE  account[k] # NoAccount /\ account[k].ref # 0 /\ token[k].here
    BY <1>3
  <2>1. Held(k) /\ token[k].here /\ account[k].ref = token[k].serial
    BY <1>2, <1>5 DEF AccountRight, Unsettled
  <2>2. token[k].serial > 0 /\ token[k].serial \in Nat
    BY <1>1, <2>1 DEF BundlesInv, TokensKnown, BaseInv, ObjectTypeOK, RestTypeOK, TokenRecord
  <2> QED
    BY <2>1, <2>2 DEF Held
<1>7. \A s \in Nat : <<c, s>> \in WantedBundle <=> c \in reach /\ s = SeenToken[k].serial
  BY <1>6 DEF WantedBundle
<1> QED
  BY <1>1, <1>2, <1>3, <1>4, <1>7 DEF PieceRight, SetMembers

LEMMA BundlesKeptStep ==
  ASSUME BundlesInv, late \intersect {"secret", "bundle"} = {}, [Next]_vars
  PROVE  BundlesKept'
<1> SUFFICES ASSUME NEW m \in Mesh, NEW c \in Cluster, Steady(m)', ~Working(m)',
                    <<m, c>> \notin accountEv', ~Unsettled(<<m, c>>)'
             PROVE  PieceRight(m, c)'
  BY DEF BundlesKept
<1> DEFINE k == <<m, c>>
<1>1. BaseInv /\ AccountsInv /\ k \in Key /\ FrameTypeOK /\ Attention
  BY DEF BundlesInv, AccountsInv, BaseInv, FrameInv, Key
<1>2. SameView(m) /\ m \notin queue'
  <2>1. ~Begin(m)
    BY DEF Begin, TakeLive, Working
  <2> QED
    BY <1>1, <2>1, AttentionNext DEF Steady
<1>3. ~Crash
  BY <1>1, AttentionCrash DEF Crash
<1>4. account'[k] = account[k] /\ k \notin accountEv
  BY <1>1, <1>2, <1>3, AccountSteps DEF AccountsInv
<1>5. ~Unsettled(k)
  <2>1. CASE token'[k] = token[k]
    BY <1>4, <2>1 DEF Unsettled, Held
  <2>2. CASE AgentIssue(k) /\ token'[k].serial = token[k].serial + 1
    <3>1. Held(k) /\ account[k].ref <= token[k].serial
      BY <1>1, <2>2 DEF AgentIssue, BundlesInv, TokensKnown, Held
    <3>2. account[k].ref \in Nat /\ token[k].serial \in Nat
      BY <1>1, <3>1 DEF BaseInv, ObjectTypeOK, AccountTypeOK, RestTypeOK, TokenRecord, AccountRecord, Held
    <3>3. account[k].ref # token'[k].serial
      BY <2>2, <3>1, <3>2
    <3> QED
      BY <1>4, <3>1, <3>3 DEF Unsettled, Held
  <2>3. CASE AgentRevoke(k)
    BY <2>3 DEF AgentRevoke, Unsettled, Held
  <2> QED
    BY <1>1, <2>1, <2>2, <2>3, TokenSteps
<1>6. ASSUME ~Working(m) PROVE PieceRight(m, c)'
  <2>1. mesh[m].phase # "gone"
    BY <1>1, <1>2 DEF BaseInv, FrameInv, CacheTrails, Present, SameView, Steady
  <2>2. bundle'[m] = bundle[m]
    BY <1>1, <1>6, <2>1, BundleSteps DEF EnsureBundle, Working
  <2>3. token'[k].serial = token[k].serial
    BY <1>1, <1>4, <1>5, TokenSteps DEF AgentIssue, Unsettled, TokensKnown, BundlesInv, Held
  <2>4. PieceRight(m, c)
    BY <1>2, <1>4, <1>5, <1>6 DEF BundlesInv, BundlesKept, SameView
  <2>5. c \in SetMembers(SetOf[m]) => clusterC'[c] = clusterC[c]
    BY <1>2 DEF SameView
  <2> QED
    BY <1>2, <2>2, <2>3, <2>4, <2>5 DEF PieceRight, SameView
<1>7. ASSUME Working(m) PROVE PieceRight(m, c)'
  <2>1. Worker
    BY <1>1, <1>2, <1>3, <1>7, JobSteps DEF FailMesh, Fail, Requeue, Begin, TakeLive, BeginDeletion, TakeDeleting,
       Working, jobVars
  <2>2. m = cur /\ ~Deletion
    BY <1>1, <1>2, <1>7 DEF Working, SameView, Steady, Attention, JobCurrent, Deletion
  <2>3. ~ReleaseMesh /\ ~Back
    BY <1>1, <1>2, <2>2 DEF ReleaseMesh, Release, BaseInv, FrameInv, Path, Back, Requeue
  <2>4. EnsureBundle /\ Finish
    BY <1>7, <2>1, <2>3 DEF Worker, EnsureAccount, DeleteAccount, ListAccounts, EnsureBinding, EnsurePlacement,
       EnsureBundle, Unbind, GoTo, Spare, Doom, Advance, AfterAccounts, Working, jobVars
  <2> QED
    BY <1>2, <1>4, <1>5, <2>2, <2>4, BundleDone DEF SameView
<1> QED
  BY <1>6, <1>7

LEMMA BundlesNext == BundlesInv /\ [Next]_vars => BundlesInv'
<1> SUFFICES ASSUME BundlesInv, [Next]_vars PROVE BundlesInv'
  OBVIOUS
<1>1. AccountsInv' /\ BaseInv /\ Attention
  BY AccountsNext DEF BundlesInv, AccountsInv
<1>2. late' = late
  BY LateStays
<1> QED
  BY <1>1, <1>2, TokensStep, ReachStep, BundlesKeptStep DEF BundlesInv

LEMMA BundlesInit == Init => BundlesInv
<1> SUFFICES ASSUME Init PROVE BundlesInv
  OBVIOUS
<1>1. TokensKnown
  <2> SUFFICES ASSUME NEW k \in Key PROVE ~token[k].here /\ ~Held(k)
    BY DEF TokensKnown
  <2> QED
    BY DEF Init, Held
<1>2. ReachCurrent
  BY DEF Init, FrameInit, ReachCurrent
<1>3. \A m \in Mesh : ~Steady(m)
  BY BlankTypes DEF Init, FrameInit, Steady, Blank
<1> QED
  BY <1>1, <1>2, <1>3, AccountsInit DEF BundlesInv, BundlesKept

\* At rest the remote secrets of an accepted mesh are those of its clusters that
\* have an endpoint, with the tokens as last rotated, if Secrets and replica sets
\* are read as they are: the bundle is computed last, from accounts whose events
\* queue the mesh again, and an agent changes a token only ahead of the account.
THEOREM BundlesAtRest == Spec => []RestBundle
<1>1. BundlesInv => RestBundle
  <2> SUFFICES ASSUME BundlesInv, AtRest, late \intersect {"secret", "bundle"} = {},
                      NEW m \in Mesh, Accepted(m)
               PROVE  bundle[m] = Tokens(m)
    BY DEF RestBundle
  <2>1. /\ Steady(m) /\ ~Working(m) /\ ClustersOf(SetOf[m]) = SetMembers(SetOf[m])
        /\ \A c \in Cluster : clusterC[c] = cluster[c]
    BY RestView DEF BundlesInv, AccountsInv, BaseInv, FrameInv, AtRest
  <2>2. ASSUME NEW c \in Cluster PROVE PieceRight(m, c)
    <3>1. <<m, c>> \notin accountEv /\ ~Unsettled(<<m, c>>)
      BY DEF AtRest, Unsettled, Held, Key
    <3> QED
      BY <2>1, <3>1 DEF BundlesInv, BundlesKept
  <2>3. bundle[m] \subseteq Cluster \X Nat /\ \A c \in Cluster : token[<<m, c>>].serial \in Nat
    BY DEF BundlesInv, AccountsInv, BaseInv, ObjectTypeOK, RestTypeOK, Bundle, Key, TokenRecord
  <2>4. ASSUME NEW x \in Cluster \X Nat PROVE x \in bundle[m] <=> x \in Tokens(m)
    <3>1. PICK c \in Cluster, s \in Nat : x = <<c, s>>
      BY <2>4
    <3>2. x \in bundle[m] <=> c \in ClustersOf(SetOf[m]) /\ cluster[c].url /\ s = token[<<m, c>>].serial
      BY <2>1, <2>2, <3>1 DEF PieceRight
    <3> QED
      BY <3>1, <3>2 DEF Tokens
  <2>5. Tokens(m) \subseteq Cluster \X Nat
    <3>1. ClustersOf(SetOf[m]) \subseteq Cluster
      BY DEF ClustersOf
    <3>2. \A c \in Cluster : <<c, token[<<m, c>>].serial>> \in Cluster \X Nat
      BY <2>3
    <3> QED
      BY <3>1, <3>2 DEF Tokens
  <2> QED
    BY <2>3, <2>4, <2>5
<1> QED
  BY <1>1, BundlesInit, BundlesNext, PTL DEF Spec

-----------------------------------------------------------------------------
(* Bindings and placements at rest *)

BindingsInv == AccountsInv /\ ("binding" \notin late => BindingsKept)

\* A binding is removed only if no steady mesh needs it, a placement only with
\* its mesh.
LEMMA BindingSteps ==
  ASSUME BaseInv, Attention, [Next]_vars, NEW m \in Mesh, Steady(m)', SameView(m)
  PROVE  /\ <<NsOf[m], SetOf[m]>> \in binding => <<NsOf[m], SetOf[m]>> \in binding'
         /\ m \in placement => m \in placement'
<1>1. m \notin queue /\ meshC[m].phase = "live" /\ Present(m)
  BY DEF SameView, Steady, BaseInv, FrameInv, CacheTrails
<1>2. CASE Unbind
  <2>1. Deletion /\ pc # "idle"
    BY <1>2 DEF Unbind, BaseInv
  <2>2. m # cur
    BY <1>1, <2>1 DEF Attention, JobCurrent, Deletion
  <2>3. SetOf[m] = SetOf[cur] /\ NsOf[m] = NsOf[cur] => Sharers # {}
    BY <1>1, <2>2 DEF Sharers, Targeting
  <2>4. <<NsOf[m], SetOf[m]>> = Bind => SetOf[m] = SetOf[cur] /\ NsOf[m] = NsOf[cur]
    BY DEF Bind
  <2> QED
    BY <1>2, <2>3, <2>4 DEF Unbind
<1>3. ASSUME NEW o \in Mesh, Collect(o)
      PROVE  binding' = binding /\ (m \in placement => m \in placement')
  BY <1>1, <1>3 DEF Collect, Present
<1>4. \/ binding \subseteq binding' /\ placement \subseteq placement'
      \/ Unbind \/ \E o \in Mesh : Collect(o)
  BY DEF Next, Worker, EnsureAccount, DeleteAccount, ListAccounts, EnsureBinding, EnsurePlacement,
     EnsureBundle, ReleaseMesh, FailMesh, Delivery, SyncAccount, SyncToken, SyncBundle, SyncBinding,
     Agents, AgentIssue, AgentReport, AgentRevoke, Crash, TakeMesh, Begin, BeginDeletion, storeVars, ownVars, vars
<1> QED
  BY <1>2, <1>3, <1>4

LEMMA BindingsKeptStep ==
  ASSUME AccountsInv, BindingsKept, "binding" \notin late, [Next]_vars
  PROVE  BindingsKept'
<1> DEFINE before == {"account", "listAccounts", "deleteAccounts", "binding"}
<1> SUFFICES ASSUME NEW m \in Mesh, Steady(m)', SetOf[m] \in setsC'
             PROVE  /\ <<NsOf[m], SetOf[m]>> \in binding' \/ (Working(m)' /\ pc' \in before)
                    /\ m \in placement' \/ (Working(m)' /\ pc' \in before \union {"placement"})
  BY DEF BindingsKept
<1>1. BaseInv /\ Attention /\ FrameTypeOK
  BY DEF AccountsInv, BaseInv, FrameInv
<1>2. CASE Begin(m)
  BY <1>2 DEF Begin, TakeLive, Working
<1>3. CASE SameView(m)
  <2>1. /\ <<NsOf[m], SetOf[m]>> \in binding => <<NsOf[m], SetOf[m]>> \in binding'
        /\ m \in placement => m \in placement'
    BY <1>1, <1>3, BindingSteps
  <2>2. /\ <<NsOf[m], SetOf[m]>> \in binding \/ (Working(m) /\ pc \in before)
        /\ m \in placement \/ (Working(m) /\ pc \in before \union {"placement"})
    BY <1>3 DEF SameView, BindingsKept
  <2>3. ASSUME Working(m), pc \in before \union {"placement"}, Worker
        PROVE  /\ <<NsOf[m], SetOf[m]>> \in binding' \/ (Working(m)' /\ pc' \in before) \/ pc \notin before
               /\ m \in placement' \/ (Working(m)' /\ pc' \in before \union {"placement"})
    <3>1. m = cur /\ pc # "idle" /\ ~Deletion /\ ~Back /\ AfterAccounts = "binding"
      <4>1. m = cur /\ pc # "idle" /\ ~Back
        BY <1>3, <2>3 DEF Working, Back, Requeue, Steady
      <4>2. ~Deletion
        BY <1>1, <1>3, <4>1 DEF SameView, Steady, Attention, JobCurrent, Deletion
      <4> QED
        BY <1>3, <4>1, <4>2 DEF AfterAccounts, SameView
    <3>2. CASE EnsureBinding
      <4>1. Bind \in binding' /\ pc' = "placement" /\ cur' = cur
        BY <3>1, <3>2 DEF EnsureBinding, SeenBinding, GoTo, jobVars
      <4> QED
        BY <3>1, <4>1 DEF Bind, Working
    <3>3. CASE EnsurePlacement
      BY <3>1, <3>3 DEF EnsurePlacement
    <3>4. CASE ~(EnsureBinding \/ EnsurePlacement)
      <4>1. pc' \in before /\ cur' = cur
        BY <2>3, <3>1, <3>4 DEF Worker, EnsureAccount, DeleteAccount, ListAccounts, EnsureBundle, Unbind,
           ReleaseMesh, Release, Spare, Doom, Advance
      <4> QED
        BY <3>1, <4>1 DEF Working
    <3> QED
      BY <3>2, <3>3, <3>4
  <2>4. CASE Working(m) /\ Worker /\ pc \in before \union {"placement"}
    BY <2>1, <2>2, <2>3, <2>4
  <2>5. CASE UNCHANGED <<pc, jobVars, reach>>
    BY <2>1, <2>2, <2>5 DEF Working, jobVars
  <2>6. Working(m) => ~FailMesh /\ ~Crash /\ ~\E o \in Mesh : Begin(o) \/ BeginDeletion(o)
    BY <1>1, AttentionCrash DEF Crash, FailMesh, Fail, Requeue, Begin, TakeLive, BeginDeletion, TakeDeleting,
       Working, Steady
  <2> HIDE DEF before
  <2> QED
    BY <1>1, <2>1, <2>2, <2>4, <2>5, <2>6, JobSteps
<1> QED
  BY <1>1, <1>2, <1>3, AttentionNext

LEMMA BindingsNext == BindingsInv /\ [Next]_vars => BindingsInv'
BY AccountsNext, BindingsKeptStep, LateStays DEF BindingsInv

LEMMA BindingsInit == Init => BindingsInv
<1> SUFFICES ASSUME Init PROVE BindingsInv
  OBVIOUS
<1>1. \A m \in Mesh : ~Steady(m)
  BY BlankTypes DEF Init, FrameInit, Steady, Blank
<1> QED
  BY <1>1, AccountsInit DEF BindingsInv, BindingsKept

\* At rest an accepted mesh whose set exists has its binding and its placement,
\* if bindings are read as they are: a deletion removes a binding only where no
\* other mesh that the cache shows needs it, and one that appears later is queued.
THEOREM BindingsAtRest == Spec => []RestBinding
<1>1. BindingsInv => RestBinding
  <2> SUFFICES ASSUME BindingsInv, AtRest, "binding" \notin late,
                      NEW m \in Mesh, Accepted(m), SetOf[m] \in sets
               PROVE  <<NsOf[m], SetOf[m]>> \in binding /\ m \in placement
    BY DEF RestBinding
  <2>1. Steady(m) /\ ~Working(m) /\ SetOf[m] \in setsC
    BY RestView DEF BindingsInv, AccountsInv, BaseInv, FrameInv, AtRest
  <2> QED
    BY <2>1 DEF BindingsInv, BindingsKept
<1> QED
  BY <1>1, BindingsInit, BindingsNext, PTL DEF Spec

-----------------------------------------------------------------------------
(* No binding stays without a mesh *)

Unmixed == \A q \in Quotas : q["withdraw"] = 0 \/ q["delete"] = 0

OwningInv == BaseInv /\ Attention /\ (Unmixed => OneWay /\ BindingOwned)

\* What a step does to the meshes, and to what the cache and the budgets say.
LEMMA PhaseSteps ==
  ASSUME BaseInv, [Next]_vars
  PROVE  /\ BudgetStep
         /\ \A m \in Mesh : PhaseStep(m) \/ (ReleaseMesh /\ cur = m)
         /\ \A m \in Mesh : meshC'[m] = meshC[m] \/ (meshC'[m] = mesh[m] /\ mesh'[m] = mesh[m])
<1> DEFINE Goal == /\ BudgetStep
                   /\ \A m \in Mesh : PhaseStep(m) \/ (ReleaseMesh /\ cur = m)
                   /\ \A m \in Mesh : meshC'[m] = meshC[m] \/ (meshC'[m] = mesh[m] /\ mesh'[m] = mesh[m])
<1>1. FrameTypeOK /\ FrameInv(Cleaning)
  BY DEF BaseInv, FrameInv
<1>2. ASSUME UNCHANGED <<mesh, meshC, budget>> PROVE Goal
  BY <1>2 DEF PhaseStep, BudgetStep
<1>3. ASSUME Worker PROVE Goal
  <2>1. CASE ReleaseMesh
    <3>1. UNCHANGED <<budget, meshC>> /\ \A m \in Mesh : m # cur => mesh'[m] = mesh[m]
      BY <1>1, <2>1 DEF ReleaseMesh, Release, WriteMesh, FrameTypeOK, cacheVars
    <3> QED
      BY <2>1, <3>1 DEF PhaseStep, BudgetStep
  <2>2. CASE ~ReleaseMesh
    <3> HIDE DEF Goal
    <3> QED
      BY <1>2, <1>3, <2>2 DEF Worker, EnsureAccount, DeleteAccount, ListAccounts, EnsureBinding, EnsurePlacement,
         EnsureBundle, Unbind, outerVars, worldVars, cacheVars
  <2> QED
    BY <2>1, <2>2
<1>4. ASSUME NEW o \in Mesh, TakeMesh(o) PROVE Goal
  <2>1. CASE Begin(o) \/ BeginDeletion(o)
    BY <1>2, <2>1 DEF Begin, TakeLive, BeginDeletion, TakeDeleting, outerVars, worldVars, cacheVars
  <2>2. CASE TakeNothing(o) \/ TakeUnfinalized(o)
    <3>1. UNCHANGED <<meshC, budget>> /\ \A m \in Mesh : PhaseStep(m)
      BY <1>1, <2>2, PhaseTake DEF TakeNothing, TakeUnfinalized, outerVars, cacheVars
    <3> QED
      BY <3>1 DEF BudgetStep
  <2> HIDE DEF Goal
  <2> QED
    BY <1>4, <2>1, <2>2 DEF TakeMesh
<1>5. ASSUME NEW kind \in {"fail", "crash", "renew"}, Spend(kind), UNCHANGED mesh, meshC' \in {meshC, mesh}
      PROVE  Goal
  <2>1. BudgetStep
    BY <1>1, <1>5, SpendStep DEF Disturbance
  <2> QED
    BY <1>5, <2>1 DEF PhaseStep
<1>6. ASSUME FailMesh \/ Crash PROVE Goal
  <2> HIDE DEF Goal
  <2> QED
    BY <1>5, <1>6 DEF FailMesh, Fail, Crash, FrameCrash, worldVars, cacheVars
<1>7. ASSUME Delivery PROVE Goal
  <2>1. ASSUME NEW o \in Mesh, SyncMesh(o) PROVE Goal
    <3>1. UNCHANGED <<mesh, budget>> /\ \A m \in Mesh : meshC'[m] \in {meshC[m], mesh[m]}
      BY <1>1, <2>1 DEF SyncMesh, FrameTypeOK, worldVars
    <3> QED
      BY <3>1 DEF PhaseStep, BudgetStep
  <2>2. CASE ~\E o \in Mesh : SyncMesh(o)
    <3> HIDE DEF Goal
    <3> QED
      BY <1>2, <1>7, <2>2 DEF Delivery, FrameDelivery, SyncCluster, SyncSet, SyncAccount, SyncToken, SyncBundle,
         SyncBinding, frameVars, outerVars, worldVars, cacheVars
  <2> QED
    BY <2>1, <2>2
<1>8. ASSUME Agents PROVE Goal
  <2> HIDE DEF Goal
  <2> QED
    BY <1>2, <1>5, <1>8 DEF Agents, AgentIssue, AgentReport, AgentRevoke, Collect, frameVars, outerVars, worldVars,
       cacheVars
<1>9. ASSUME FrameUsers PROVE Goal
  <2>1. UNCHANGED meshC
    BY <1>9 DEF FrameUsers, CreateMesh, DeleteMesh, WithdrawMesh, EditMesh, UserWrites, ChangeCluster,
       WriteCluster, ChangeSet, cacheVars
  <2> QED
    BY <1>1, <1>9, <2>1, PhaseUsers
<1>10. ASSUME UNCHANGED vars PROVE Goal
  BY <1>2, <1>10 DEF vars, frameVars, outerVars, worldVars, cacheVars
<1> HIDE DEF Goal
<1>11. Goal
  BY <1>3, <1>4, <1>6, <1>7, <1>8, <1>9, <1>10 DEF Next
<1> QED
  BY <1>11 DEF Goal

LEMMA OneWayStep == ASSUME BaseInv, OneWay, [Next]_vars PROVE OneWay'
<1>1. /\ {"withdraw", "delete"} \subseteq Disturbance /\ CacheTrails /\ Path(Cleaning)
      /\ pc # "idle" => cur \in Mesh
  BY DEF BaseInv, FrameInv, FrameTypeOK, Disturbance
<1>2. CASE budget["withdraw"] = 0 /\ \A m \in Mesh : meshC[m].phase = "live" => mesh[m].phase \in {"live", "deleting"}
  <2>1. budget'["withdraw"] = 0
    BY <1>1, <1>2, PhaseSteps DEF BudgetStep
  <2>2. ASSUME NEW m \in Mesh, meshC'[m].phase = "live" PROVE mesh'[m].phase \in {"live", "deleting"}
    <3>1. mesh[m].phase \in {"live", "deleting"}
      BY <1>2, <2>2, PhaseSteps
    <3>2. CASE PhaseStep(m)
      BY <1>2, <3>1, <3>2 DEF PhaseStep
    <3>3. CASE ReleaseMesh /\ cur = m
      BY <1>1, <2>2, <3>3 DEF ReleaseMesh, Release, Path, Leaving, cacheVars
    <3> QED
      BY <3>2, <3>3, PhaseSteps
  <2> QED
    BY <2>1, <2>2 DEF OneWay
<1>3. CASE /\ budget["delete"] = 0 /\ (pc # "idle" => ~Deletion)
           /\ \A m \in Mesh : mesh[m].phase # "deleting" /\ meshC[m].phase # "deleting"
  <2>1. budget'["delete"] = 0
    BY <1>1, <1>3, PhaseSteps DEF BudgetStep
  <2>2. ASSUME NEW m \in Mesh PROVE mesh'[m].phase # "deleting" /\ meshC'[m].phase # "deleting"
    <3>1. ~(ReleaseMesh /\ cur = m)
      BY <1>1, <1>3 DEF ReleaseMesh, Release, Path
    <3> QED
      BY <1>3, <3>1, PhaseSteps DEF PhaseStep
  <2>3. pc' # "idle" => ~Deletion'
    <3>1. CASE Worker
      BY <1>3, <3>1 DEF Worker, EnsureAccount, DeleteAccount, ListAccounts, EnsureBinding, EnsurePlacement,
         EnsureBundle, Unbind, ReleaseMesh, Release, GoTo, Spare, Doom, Advance, Back, Finish, Done, Requeue,
         Settle, jobVars, Deletion
    <3>2. CASE FailMesh \/ Crash
      BY <3>2 DEF FailMesh, Fail, Requeue, Crash, FrameCrash, Settle
    <3>3. CASE \E m \in Mesh : Begin(m) \/ BeginDeletion(m)
      BY <1>3, <3>3 DEF Begin, TakeLive, BeginDeletion, TakeDeleting, Deletion
    <3>4. CASE UNCHANGED <<pc, jobVars, reach>>
      BY <1>3, <3>4 DEF jobVars, Deletion
    <3> QED
      BY <3>1, <3>2, <3>3, <3>4, JobSteps
  <2> QED
    BY <2>1, <2>2, <2>3 DEF OneWay
<1> QED
  BY <1>2, <1>3 DEF OneWay

\* The owner of a binding that is there after a step: the mesh that made it, the
\* one that owned it, or one for which it is spared.
LEMMA BindingOwnedStep == ASSUME BaseInv, OneWay, BindingOwned, [Next]_vars PROVE BindingOwned'
<1> DEFINE Owner(m, p) == /\ p = <<NsOf[m], SetOf[m]>> /\ mesh[m].phase \in {"live", "deleting"}
                          /\ mesh[m].fin \/ budget["withdraw"] = 0
                          /\ ~(pc = "release" /\ cur = m)
           Owns(m, p) == /\ p = <<NsOf[m], SetOf[m]>> /\ mesh'[m].phase \in {"live", "deleting"}
                         /\ mesh'[m].fin \/ budget'["withdraw"] = 0
                         /\ ~(pc' = "release" /\ cur' = m)
<1> SUFFICES ASSUME NEW p \in binding' PROVE \E m \in Mesh : Owns(m, p)
  BY DEF BindingOwned
<1>1. "withdraw" \in Disturbance /\ Path(Cleaning) /\ (pc # "idle" => cur \in Mesh)
  BY DEF BaseInv, FrameInv, FrameTypeOK, Disturbance
<1>2. budget["withdraw"] = 0 => budget'["withdraw"] = 0
  BY <1>1, PhaseSteps DEF BudgetStep
<1>3. ASSUME NEW m \in Mesh, mesh[m].phase \in {"live", "deleting"}, mesh[m].fin \/ budget["withdraw"] = 0,
             ~(ReleaseMesh /\ cur = m)
      PROVE  mesh'[m].phase \in {"live", "deleting"} /\ (mesh'[m].fin \/ budget'["withdraw"] = 0)
  <2>1. PhaseStep(m)
    BY <1>3, PhaseSteps
  <2> QED
    BY <1>2, <1>3, <2>1 DEF PhaseStep
<1>4. pc' = "release" => Unbind \/ (pc = "release" /\ cur' = cur)
  <2>1. CASE Worker
    BY <2>1 DEF Worker, EnsureAccount, DeleteAccount, ListAccounts, EnsureBinding, EnsurePlacement,
       EnsureBundle, ReleaseMesh, Release, GoTo, Spare, Doom, Advance, Back, Finish, Done, Requeue,
       Settle, AfterAccounts
  <2>2. CASE FailMesh \/ Crash
    BY <2>2 DEF FailMesh, Fail, Requeue, Crash, FrameCrash, Settle
  <2>3. CASE \E m \in Mesh : Begin(m) \/ BeginDeletion(m)
    BY <2>3 DEF Begin, TakeLive, BeginDeletion, TakeDeleting
  <2>4. CASE UNCHANGED <<pc, jobVars, reach>>
    BY <2>4 DEF jobVars
  <2> QED
    BY <2>1, <2>2, <2>3, <2>4, JobSteps
<1>5. CASE p \notin binding
  <2>1. EnsureBinding /\ p = Bind
    BY <1>5 DEF Next, Worker, EnsureAccount, DeleteAccount, ListAccounts, EnsureBinding, EnsurePlacement,
       EnsureBundle, Unbind, ReleaseMesh, FailMesh, Delivery, SyncAccount, SyncToken, SyncBundle, SyncBinding,
       Agents, AgentIssue, AgentReport, AgentRevoke, Collect, Crash, TakeMesh, Begin, BeginDeletion, storeVars,
       ownVars, vars
  <2>2. pc = "binding" /\ cur \in Mesh /\ Present(cur)
    BY <1>1, <2>1 DEF EnsureBinding, Path, Cleaning
  <2>3. Owner(cur, p)
    BY <2>1, <2>2 DEF Bind, Present
  <2> QED
    BY <1>3, <1>4, <2>1, <2>2, <2>3 DEF ReleaseMesh, Release, EnsureBinding, Unbind
<1>6. CASE p \in binding
  <2>1. PICK m \in Mesh : Owner(m, p)
    BY <1>6 DEF BindingOwned
  <2>2. CASE Unbind /\ cur = m
    <3>1. p = Bind /\ Deletion /\ pc = "unbind"
      BY <2>1, <2>2 DEF Bind, Unbind, BaseInv
    <3>2. Sharers # {}
      BY <2>2, <3>1 DEF Unbind
    <3>3. PICK n \in Mesh : meshC[n].phase = "live" /\ n # cur /\ SetOf[n] = SetOf[cur] /\ NsOf[n] = NsOf[cur]
      BY <3>2 DEF Sharers, Targeting
    <3>4. budget["withdraw"] = 0 /\ mesh[n].phase \in {"live", "deleting"}
      BY <3>1, <3>3 DEF OneWay
    <3>5. p = <<NsOf[n], SetOf[n]>> /\ ~(ReleaseMesh /\ cur = n) /\ ~(pc' = "release" /\ cur' = n)
      BY <2>2, <3>1, <3>3 DEF Bind, Unbind, GoTo, jobVars
    <3> QED
      BY <1>3, <3>4, <3>5
  <2>3. CASE ~(Unbind /\ cur = m)
    <3>1. ~(ReleaseMesh /\ cur = m)
      BY <2>1 DEF ReleaseMesh, Release
    <3>2. ~(pc' = "release" /\ cur' = m)
      BY <1>4, <2>1, <2>3 DEF Unbind, GoTo, jobVars
    <3> QED
      BY <1>3, <2>1, <3>1, <3>2
  <2> QED
    BY <2>2, <2>3
<1> QED
  BY <1>5, <1>6

\* At rest a binding is there only for a live mesh of its namespace and set, if
\* runs do not mix deletions with withdrawals: the mesh that a binding is spared
\* for is then still to be cleaned up after, whatever becomes of it.
THEOREM BindingsLeave == Spec => []RestUnbound
<1>1. Init => OwningInv
  <2> SUFFICES ASSUME Init PROVE OwningInv
    OBVIOUS
  <2>1. BindingOwned
    BY DEF Init, BindingOwned
  <2>2. ASSUME NEW m \in Mesh PROVE meshC[m] = mesh[m] /\ mesh[m].phase \in {"none", "live"}
    BY BlankTypes DEF Init, FrameInit, Blank
  <2>3. Unmixed => OneWay
    BY <2>2 DEF Unmixed, OneWay, Init, FrameInit
  <2> QED
    BY <2>1, <2>3, BaseInit, AttentionInit DEF Init, OwningInv
<1>2. OwningInv /\ [Next]_vars => OwningInv'
  BY BaseNext, AttentionNext, OneWayStep, BindingOwnedStep DEF OwningInv, Unmixed
<1>3. OwningInv => RestUnbound
  <2> SUFFICES ASSUME OwningInv, AtRest, Unmixed, NEW p \in binding
               PROVE  \E m \in Mesh : mesh[m].phase = "live" /\ <<NsOf[m], SetOf[m]>> = p
    BY DEF RestUnbound, Unmixed
  <2>1. PICK m \in Mesh : p = <<NsOf[m], SetOf[m]>> /\ mesh[m].phase \in {"live", "deleting"}
    BY DEF OwningInv, BindingOwned
  <2>2. mesh[m].phase # "deleting"
    BY RestView DEF OwningInv, BaseInv, FrameInv, AtRest
  <2> QED
    BY <2>1, <2>2
<1> QED
  BY <1>1, <1>2, <1>3, PTL DEF Spec
=============================================================================
