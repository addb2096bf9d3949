--------------------------- MODULE EndpointDiscovery ---------------------------
(***************************************************************************)
(* Endpoint discovery (pkg/hub/mesh/endpoint_discovery.go and the binding  *)
(* and placement of controller.go): a ManagedServiceAccount per mesh and   *)
(* cluster, whose agent issues a token into a Secret; the tokens of a      *)
(* mesh's clusters, bundled in a ManifestWorkReplicaSet that goes to all   *)
(* of them; and the ManagedClusterSetBinding and Placement it depends on.  *)
(* Setting is spec.security.discovery.tokenValidity.                       *)
(*                                                                         *)
(* Only accounts are watched.  Secrets are cached, but the token Secrets   *)
(* lack the labels that the watch selects; replica sets, bindings and      *)
(* placements are cached for their Gets alone.  late says whose cached     *)
(* copies may trail the API server; the others are read as they are.       *)
(***************************************************************************)
EXTENDS MeshFrame

CONSTANTS
  Lateness,  \* the values late may have
  NoAccount  \* "none" value

Kind == {"account", "secret", "bundle", "binding"}
Key  == Mesh \X Cluster
Pair == Tenant \X Set

\* ref: the token that status.tokenSecretRef was refreshed for (0: unset).
AccountRecord == [valid : Setting, ref : Nat]
\* here: the Secret exists; serial: which token it holds, or held.
TokenRecord == [here : BOOLEAN, serial : Nat]
Bundle == SUBSET (Cluster \X Nat)

ASSUME DiscoveryAssumption ==
  /\ Lateness \subseteq SUBSET Kind
  /\ NoAccount \notin AccountRecord

VARIABLES
  account,    \* API: the ManagedServiceAccount of a mesh on a cluster
  token,      \* API: its token Secret
  bundle,     \* API: the remote secrets in each mesh's replica set (no replica
              \* set is not told from an empty one)
  binding,    \* API: the bindings, by namespace and set
  placement,  \* API: the meshes with a Placement
  accountC, tokenC, bundleC, bindingC,  \* late copies of the first four
  accountEv,  \* accounts with an undelivered watch event
  reach,      \* those of the listed clusters that have an API endpoint
  late

storeVars == <<account, token, bundle, binding, placement>>
copyVars  == <<accountC, tokenC, bundleC, bindingC>>
ownVars   == <<storeVars, copyVars, accountEv, reach, late>>
vars == <<frameVars, ownVars>>

Step == {"idle", "account", "listAccounts", "deleteAccounts", "binding", "placement",
         "bundle", "unbind", "release"}

TypeOK ==
  /\ FrameTypeOK /\ pc \in Step
  /\ account \in [Key -> AccountRecord \union {NoAccount}]
  /\ accountC \in [Key -> AccountRecord \union {NoAccount}]
  /\ token \in [Key -> TokenRecord] /\ tokenC \in [Key -> TokenRecord]
  /\ bundle \in [Mesh -> Bundle]
  /\ bundleC \in [Mesh -> Bundle]
  /\ binding \subseteq Pair /\ bindingC \subseteq Pair
  /\ placement \subseteq Mesh /\ accountEv \subseteq Key /\ reach \subseteq Cluster
  /\ late \subseteq Kind

Init ==
  /\ FrameInit
  /\ account = [k \in Key |-> NoAccount] /\ accountC = account
  /\ token = [k \in Key |-> [here |-> FALSE, serial |-> 0]] /\ tokenC = token
  /\ bundle = [m \in Mesh |-> {}] /\ bundleC = bundle
  /\ binding = {} /\ bindingC = {} /\ placement = {}
  /\ accountEv = {} /\ reach = {}
  /\ late \in Lateness

\* What a Get or List from the cache returns.
SeenAccount == IF "account" \in late THEN accountC ELSE account
SeenToken   == IF "secret"  \in late THEN tokenC   ELSE token
SeenBundle  == IF "bundle"  \in late THEN bundleC  ELSE bundle
SeenBinding == IF "binding" \in late THEN bindingC ELSE binding

PutAccount(k, a) ==
  /\ account' = [account EXCEPT ![k] = a]
  /\ accountEv' = accountEv \union {k}

KeepAccounts == UNCHANGED <<account, accountEv>>

-----------------------------------------------------------------------------
(* The worker: per cluster its account, the accounts of other clusters, the   *)
(* binding and the placement unless there is no set, the bundle               *)

Back   == Requeue /\ reach' = {}
Finish == Done /\ reach' = {}

Begin(m) ==
  /\ TakeLive(m, "account", "listAccounts")
  /\ reach' = {c \in clusters' : clusterC[c].url}
  /\ UNCHANGED <<storeVars, copyVars, accountEv, late>>

BeginDeletion(m) == TakeDeleting(m, "listAccounts") /\ UNCHANGED ownVars

\* Mutant: the status is not kept.
AccountBare(seen) == [valid |-> my.setting]

\* Mutant: the validity of an account that exists is not kept up.
AccountOnce(seen) == IF seen = NoAccount THEN [valid |-> my.setting, ref |-> 0] ELSE seen

WantedAccount(seen) ==
  [valid |-> my.setting, ref |-> IF seen = NoAccount THEN 0 ELSE seen.ref]

\* ensureManagedServiceAccount: create, leave or update, judged on the cached
\* copy.  The API server refuses to create what exists, and to update another
\* version than the cached one.
EnsureAccount(c) ==
  LET k == <<cur, c>>
      seen == SeenAccount[k]
      want == WantedAccount(seen)
  IN
  /\ pc = "account" /\ Visiting(c)
  /\ \/ /\ seen = want /\ KeepAccounts
        /\ Advance(c, "account", "listAccounts") /\ UNCHANGED <<queue, cur, my, clusters, doomed, reach>>
     \/ /\ seen # want /\ seen = account[k] /\ PutAccount(k, want)
        /\ Advance(c, "account", "listAccounts") /\ UNCHANGED <<queue, cur, my, clusters, doomed, reach>>
     \/ seen # want /\ seen # account[k] /\ KeepAccounts /\ Back
  /\ UNCHANGED <<outerVars, token, bundle, binding, placement, copyVars, late>>

AfterAccounts ==
  IF Deletion THEN "unbind" ELSE IF SetOf[cur] \in setsC THEN "binding" ELSE "bundle"

\* cleanupManagedServiceAccounts and, without clusters,
\* deleteAllManagedServiceAccounts: by label, off the clusters listed.
ListAccounts ==
  /\ pc = "listAccounts"
  /\ Doom({c \in Cluster \ clusters : SeenAccount[<<cur, c>>] # NoAccount},
          "deleteAccounts", AfterAccounts)
  /\ UNCHANGED <<outerVars, ownVars>>

\* Mutant: the loop ends with its first deletion.
DeleteFirstAccount(c) ==
  /\ pc = "deleteAccounts" /\ c \in doomed
  /\ IF account[<<cur, c>>] = NoAccount THEN KeepAccounts ELSE PutAccount(<<cur, c>>, NoAccount)
  /\ doomed' = {} /\ pc' = AfterAccounts
  /\ UNCHANGED <<outerVars, queue, cur, my, clusters, todo,
                 token, bundle, binding, placement, copyVars, reach, late>>

DeleteAccount(c) ==
  /\ pc = "deleteAccounts" /\ c \in doomed
  /\ IF account[<<cur, c>>] = NoAccount THEN KeepAccounts ELSE PutAccount(<<cur, c>>, NoAccount)
  /\ Spare(c, "deleteAccounts", AfterAccounts)
  /\ UNCHANGED <<outerVars, token, bundle, binding, placement, copyVars, reach, late>>

Bind == <<NsOf[cur], SetOf[cur]>>

EnsureBinding ==
  /\ pc = "binding"
  /\ \/ Bind \in SeenBinding /\ GoTo("placement") /\ UNCHANGED <<binding, reach>>
     \/ /\ Bind \notin SeenBinding /\ Bind \notin binding
        /\ binding' = binding \union {Bind}
        /\ GoTo("placement") /\ UNCHANGED reach
     \/ Bind \notin SeenBinding /\ Bind \in binding /\ Back /\ UNCHANGED binding
  /\ UNCHANGED <<outerVars, account, token, bundle, placement, copyVars, accountEv, late>>

EnsurePlacement ==
  /\ pc = "placement"
  /\ placement' = placement \union {cur}
  /\ GoTo("bundle")
  /\ UNCHANGED <<outerVars, account, token, bundle, binding, copyVars, accountEv, reach, late>>

\* The remote secrets of the clusters that have an endpoint, an account whose
\* token was reported, and the Secret.
WantedBundle ==
  LET ready == {c \in reach : /\ SeenAccount[<<cur, c>>] # NoAccount
                              /\ SeenAccount[<<cur, c>>].ref # 0
                              /\ SeenToken[<<cur, c>>].here}
  IN  {<<c, SeenToken[<<cur, c>>].serial>> : c \in ready}

\* CreateOrUpdate: no write if the cached replica set is as wanted; a write is
\* refused if that copy is not the current one.
EnsureBundle ==
  /\ pc = "bundle"
  /\ \/ SeenBundle[cur] = WantedBundle /\ Finish /\ UNCHANGED bundle
     \/ /\ SeenBundle[cur] # WantedBundle /\ SeenBundle[cur] = bundle[cur]
        /\ bundle' = [bundle EXCEPT ![cur] = WantedBundle] /\ Finish
     \/ /\ SeenBundle[cur] # WantedBundle /\ SeenBundle[cur] # bundle[cur]
        /\ Back /\ UNCHANGED bundle
  /\ UNCHANGED <<outerVars, account, token, binding, placement, copyVars, accountEv, late>>

\* Mutant: the binding is deleted whoever else needs it.
NoSharers == {}

\* Mutant: the deleted meshes, too, count as needing the binding.
AllSharers == {m \in Mesh : SetOf[m] = SetOf[cur] /\ NsOf[m] = NsOf[cur]}

\* Those for which cleanupManagedClusterSetBinding keeps the binding.
Sharers == {m \in Targeting(SetOf[cur]) \ {cur} : NsOf[m] = NsOf[cur]}

Unbind ==
  /\ pc = "unbind"
  /\ binding' = IF Sharers = {} THEN binding \ {Bind} ELSE binding
  /\ GoTo("release")
  /\ UNCHANGED <<outerVars, account, token, bundle, placement, copyVars, accountEv, reach, late>>

ReleaseMesh == Release /\ UNCHANGED ownVars

Worker ==
  \/ \E c \in Cluster : EnsureAccount(c) \/ DeleteAccount(c)
  \/ ListAccounts \/ EnsureBinding \/ EnsurePlacement \/ EnsureBundle \/ Unbind \/ ReleaseMesh

TakeMesh(m) ==
  \/ Begin(m) \/ BeginDeletion(m)
  \/ (TakeNothing(m) \/ TakeUnfinalized(m)) /\ UNCHANGED ownVars

-----------------------------------------------------------------------------
(* Watch delivery, and copies that catch up without an event handler *)

\* Mutant: the watch does not map accounts to meshes.
SyncAccountSilently(k) ==
  /\ k \in accountEv
  /\ accountC' = IF "account" \in late THEN [accountC EXCEPT ![k] = account[k]] ELSE accountC
  /\ accountEv' = accountEv \ {k}
  /\ UNCHANGED <<outerVars, queue, pc, jobVars, storeVars, tokenC, bundleC, bindingC, reach, late>>

\* mapMsaToMesh: the labels name the mesh.
SyncAccount(k) ==
  /\ k \in accountEv
  /\ accountC' = IF "account" \in late THEN [accountC EXCEPT ![k] = account[k]] ELSE accountC
  /\ accountEv' = accountEv \ {k}
  /\ queue' = queue \union {k[1]}
  /\ UNCHANGED <<outerVars, pc, jobVars, storeVars, tokenC, bundleC, bindingC, reach, late>>

SyncToken(k) ==
  /\ "secret" \in late /\ tokenC[k] # token[k]
  /\ tokenC' = [tokenC EXCEPT ![k] = token[k]]
  /\ UNCHANGED <<frameVars, storeVars, accountC, bundleC, bindingC, accountEv, reach, late>>

SyncBundle(m) ==
  /\ "bundle" \in late /\ bundleC[m] # bundle[m]
  /\ bundleC' = [bundleC EXCEPT ![m] = bundle[m]]
  /\ UNCHANGED <<frameVars, storeVars, accountC, tokenC, bindingC, accountEv, reach, late>>

SyncBinding ==
  /\ "binding" \in late /\ bindingC # binding
  /\ bindingC' = binding
  /\ UNCHANGED <<frameVars, storeVars, accountC, tokenC, bundleC, accountEv, reach, late>>

Delivery ==
  \/ FrameDelivery /\ UNCHANGED ownVars
  \/ \E k \in Key : SyncAccount(k) \/ SyncToken(k)
  \/ \E m \in Mesh : SyncBundle(m)
  \/ SyncBinding

-----------------------------------------------------------------------------
(* The agents of the clusters, garbage collection, restarts *)

\* An agent fills the token Secret, then reports it in the account's status;
\* it replaces a token before it expires, and removes it with the account.
AgentIssue(k) ==
  /\ account[k] # NoAccount
  /\ \/ ~token[k].here /\ UNCHANGED budget
     \/ token[k].here /\ token[k].serial = account[k].ref /\ Spend("renew")
  /\ token' = [token EXCEPT ![k] = [here |-> TRUE, serial |-> @.serial + 1]]
  /\ UNCHANGED <<worldVars, cacheVars, eventVars, queue, pc, jobVars,
                 account, bundle, binding, placement, copyVars, accountEv, reach, late>>

AgentReport(k) ==
  /\ account[k] # NoAccount /\ token[k].here /\ account[k].ref # token[k].serial
  /\ PutAccount(k, [account[k] EXCEPT !.ref = token[k].serial])
  /\ UNCHANGED <<frameVars, token, bundle, binding, placement, copyVars, reach, late>>

AgentRevoke(k) ==
  /\ account[k] = NoAccount /\ token[k].here
  /\ token' = [token EXCEPT ![k].here = FALSE]
  /\ UNCHANGED <<frameVars, account, bundle, binding, placement, copyVars, accountEv, reach, late>>

\* Replica set and placement are owned by the mesh.
Collect(m) ==
  /\ mesh[m].phase = "gone" /\ (bundle[m] # {} \/ m \in placement)
  /\ bundle' = [bundle EXCEPT ![m] = {}] /\ placement' = placement \ {m}
  /\ UNCHANGED <<frameVars, account, token, binding, copyVars, accountEv, reach, late>>

Agents ==
  \/ \E k \in Key : AgentIssue(k) \/ AgentReport(k) \/ AgentRevoke(k)
  \/ \E m \in Mesh : Collect(m)

Crash ==
  /\ FrameCrash
  /\ accountEv' = {} /\ reach' = {}
  /\ accountC' = IF "account" \in late THEN account ELSE accountC
  /\ tokenC' = IF "secret" \in late THEN token ELSE tokenC
  /\ bundleC' = IF "bundle" \in late THEN bundle ELSE bundleC
  /\ bindingC' = IF "binding" \in late THEN binding ELSE bindingC
  /\ UNCHANGED <<storeVars, late>>

FailMesh == Fail /\ reach' = {} /\ UNCHANGED <<storeVars, copyVars, accountEv, late>>

Next ==
  \/ Worker \/ FailMesh \/ Delivery \/ Agents \/ Crash
  \/ \E m \in Mesh : TakeMesh(m)
  \/ FrameUsers /\ UNCHANGED ownVars

Spec == Init /\ [][Next]_vars

-----------------------------------------------------------------------------
(* What makes it correct *)

\* Where accounts are read as they are, an account exists only while its mesh
\* does and still carries the finalizer: no order of edits, errors, restarts
\* and deletions leaves a credential behind that nobody will revoke.
AccountsOwned ==
  "account" \notin late =>
    \A k \in Key : account[k] # NoAccount => mesh[k[1]].phase \in {"live", "deleting"} /\ mesh[k[1]].fin

AtRest ==
  /\ FrameAtRest /\ accountEv = {}
  /\ SeenAccount = account /\ SeenToken = token /\ SeenBundle = bundle /\ SeenBinding = binding
  /\ \A k \in Key :
       /\ token[k].here <=> account[k] # NoAccount
       /\ token[k].here => account[k].ref = token[k].serial
  /\ \A m \in Mesh : mesh[m].phase = "gone" => bundle[m] = {}

\* At rest an accepted mesh has accounts on exactly the clusters of its set,
\* with the validity its spec asks for now, whatever lags.
RestAccounts ==
  AtRest => \A m \in Mesh : Accepted(m) => \A c \in Cluster :
    IF c \in ClustersOf(SetOf[m])
      THEN account[<<m, c>>] # NoAccount /\ account[<<m, c>>].valid = mesh[m].setting
      ELSE account[<<m, c>>] = NoAccount

Tokens(m) ==
  {<<c, token[<<m, c>>].serial>> : c \in {d \in ClustersOf(SetOf[m]) : cluster[d].url}}

\* At rest the remote secrets of an accepted mesh are those of its clusters
\* that can be reached, and hold the tokens as they were last rotated: "its MSA
\* is deleted and its remote secrets are removed from all peers"
\* (docs/design.md).  Secrets and replica sets have no watch, so that copies
\* of them that lag void this.
RestBundle ==
  (AtRest /\ late \intersect {"secret", "bundle"} = {}) =>
    \A m \in Mesh : Accepted(m) => bundle[m] = Tokens(m)

\* At rest, while an accepted mesh needs the set, its namespace has the binding
\* and the mesh its placement.
RestBinding ==
  (AtRest /\ "binding" \notin late) =>
    \A m \in Mesh : (Accepted(m) /\ SetOf[m] \in sets) =>
      <<NsOf[m], SetOf[m]>> \in binding /\ m \in placement

\* At rest a binding is there only for a live mesh of its namespace and set,
\* if runs do not mix deletions with meshes withdrawn before their first
\* reconcile: such a mesh may have had a binding spared for it, and nobody
\* removes that.
RestUnbound ==
  (AtRest /\ \A q \in Quotas : q["withdraw"] = 0 \/ q["delete"] = 0) =>
    \A p \in binding : \E m \in Mesh : mesh[m].phase = "live" /\ <<NsOf[m], SetOf[m]>> = p

\* "When a cluster is removed from the mesh, its MSA is deleted and its remote
\* secrets are removed from all peers" (docs/design.md), for every live mesh.
RestRevoked ==
  AtRest => \A m \in Mesh : mesh[m].phase = "live" =>
    \A c \in Cluster \ ClustersOf(SetOf[m]) : account[<<m, c>>] = NoAccount
=============================================================================
