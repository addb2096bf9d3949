--------------------------- MODULE TrustDistribution ---------------------------
(***************************************************************************)
(* Trust distribution (controller.go): for a mesh with an issuer, a        *)
(* Certificate per cluster in the mesh's namespace; cert-manager issues it *)
(* into a Secret of the same name; the controller copies the Secret into   *)
(* the cacerts ManifestWork of the cluster.  Setting is the issuer.        *)
(*                                                                         *)
(* Certificate and Secret are named after the cluster, the work is not     *)
(* named after anything: meshes of one namespace share the former on a     *)
(* cluster, meshes of one set the latter.  The work caches are exact here; *)
(* MeshHub has their lag.                                                  *)
(***************************************************************************)
EXTENDS MeshFrame

CONSTANTS
  NoIssuer,                 \* in Setting: the mesh names no issuer
  NoCert, NoSecret, NoWork  \* "none" values

Place == Tenant \X Cluster

CertRecord == [owner : Mesh, issuer : Setting]
\* A CA: the mesh and the issuer it was issued for, and which issue it is.
\* The Secret's labels name the same mesh.
CA == [mesh : Mesh, issuer : Setting, serial : Nat]
WorkRecord == [owner : Mesh, ca : CA, dying : BOOLEAN]

ASSUME TrustAssumption ==
  /\ NoIssuer \in Setting
  /\ NoCert \notin CertRecord /\ NoSecret \notin CA /\ NoWork \notin WorkRecord

VARIABLES
  cert, secret,   \* API: by namespace and cluster
  cacerts,        \* API: the cacerts work of each cluster
  certC, secretC, \* the controller's caches of the first two
  certEv, secretEv, workEv

certVars   == <<cert, certC, certEv>>
secretVars == <<secret, secretC, secretEv>>
workVars   == <<cacerts, workEv>>
ownVars    == <<certVars, secretVars, workVars>>
vars       == <<frameVars, ownVars>>

Step == {"idle", "cert", "cacerts", "listCerts", "deleteCerts", "listOwned", "deleteOwned",
         "listShared", "deleteShared", "discovery", "release"}

TypeOK ==
  /\ FrameTypeOK /\ pc \in Step
  /\ cert \in [Place -> CertRecord \union {NoCert}]
  /\ certC \in [Place -> CertRecord \union {NoCert}]
  /\ secret \in [Place -> CA \union {NoSecret}]
  /\ secretC \in [Place -> CA \union {NoSecret}]
  /\ cacerts \in [Cluster -> WorkRecord \union {NoWork}]
  /\ certEv \subseteq Place /\ secretEv \subseteq Place /\ workEv \subseteq Cluster

Init ==
  /\ FrameInit
  /\ cert = [p \in Place |-> NoCert] /\ certC = cert
  /\ secret = [p \in Place |-> NoSecret] /\ secretC = secret
  /\ cacerts = [c \in Cluster |-> NoWork]
  /\ certEv = {} /\ secretEv = {} /\ workEv = {}

PutCert(p, x) ==
  /\ cert' = [cert EXCEPT ![p] = x]
  /\ certEv' = certEv \union {p}

PutSecret(p, x) ==
  /\ secret' = [secret EXCEPT ![p] = x]
  /\ secretEv' = secretEv \union {p}

PutWork(c, x) ==
  /\ cacerts' = [cacerts EXCEPT ![c] = x]
  /\ workEv' = workEv \union {c}

-----------------------------------------------------------------------------
(* The worker: Certificate and work of each cluster if there is an issuer,    *)
(* then the Certificates of other clusters, or all; then the mesh's works on  *)
(* other clusters, and those that no mesh of the set needs                    *)

Begin(m) ==
  /\ TakeLive(m, IF meshC[m].setting = NoIssuer THEN "listCerts" ELSE "cert", "listCerts")
  /\ UNCHANGED ownVars

\* Certificates are left to the garbage collector.
BeginDeletion(m) == TakeDeleting(m, "listOwned") /\ UNCHANGED ownVars

\* Mutant: the objects of all meshes are kept in one namespace.
AtOne(c) == <<CHOOSE t \in Tenant : TRUE, c>>

\* Where the Certificate and the Secret are: getCacertsName.
At(c) == <<NsOf[cur], c>>

\* Mutant: the issuer is not passed on.
CertBare == [owner |-> cur]

WantedCert == [owner |-> cur, issuer |-> my.setting]

\* ensureCertificateForCluster: a server-side apply that takes over every field.
EnsureCert(c) ==
  /\ pc = "cert" /\ Visiting(c)
  /\ IF cert[At(c)] = WantedCert THEN UNCHANGED <<cert, certEv>> ELSE PutCert(At(c), WantedCert)
  /\ GoTo("cacerts")
  /\ UNCHANGED <<outerVars, certC, secretVars, workVars>>

\* ensureCacertsManifestWork: nothing before there is a Secret; otherwise
\* WorkApplier.Apply, which leaves a work that is being deleted so.
EnsureCacerts(c) ==
  LET ca == secretC[At(c)]
      want == [owner |-> cur, ca |-> ca, dying |-> cacerts[c] # NoWork /\ cacerts[c].dying]
  IN
  /\ pc = "cacerts" /\ Visiting(c)
  /\ IF ca = NoSecret \/ cacerts[c] = want
       THEN UNCHANGED <<cacerts, workEv>> ELSE PutWork(c, want)
  /\ Advance(c, "cert", "listCerts")
  /\ UNCHANGED <<outerVars, queue, cur, my, clusters, doomed, certVars, secretVars>>

\* Mutant: without an issuer the Certificates are left.
CertsToKeepAll == clusters

CertsToKeep == IF my.setting = NoIssuer THEN {} ELSE clusters

\* deleteCertificatesForRemovedClusters, deleteAllCertificates: by label
ListCerts ==
  /\ pc = "listCerts"
  /\ Doom({c \in Cluster \ CertsToKeep : certC[At(c)] # NoCert /\ certC[At(c)].owner = cur},
          "deleteCerts", "listOwned")
  /\ UNCHANGED <<outerVars, ownVars>>

DeleteCert(c) ==
  /\ pc = "deleteCerts" /\ c \in doomed
  /\ IF cert[At(c)] = NoCert THEN UNCHANGED <<cert, certEv>> ELSE PutCert(At(c), NoCert)
  /\ Spare(c, "deleteCerts", "listOwned")
  /\ UNCHANGED <<outerVars, certC, secretVars, workVars>>

ListOwned ==
  /\ pc = "listOwned"
  /\ Doom({c \in Cluster \ clusters : cacerts[c] # NoWork /\ cacerts[c].owner = cur},
          "deleteOwned", "listShared")
  /\ UNCHANGED <<outerVars, ownVars>>

Needed == IF Targeting(SetOf[cur]) = {} THEN {} ELSE SetMembers(SetOf[cur])

AfterCleanup == IF Deletion THEN "release" ELSE "discovery"

ListShared ==
  /\ pc = "listShared"
  /\ Doom({c \in Cluster \ Needed : cacerts[c] # NoWork /\ SetOf[cacerts[c].owner] = SetOf[cur]},
          "deleteShared", AfterCleanup)
  /\ UNCHANGED <<outerVars, ownVars>>

DeleteWork(c) ==
  /\ pc \in {"deleteOwned", "deleteShared"} /\ c \in doomed
  /\ IF cacerts[c] = NoWork \/ cacerts[c].dying
       THEN UNCHANGED <<cacerts, workEv>> ELSE PutWork(c, [cacerts[c] EXCEPT !.dying = TRUE])
  /\ Spare(c, pc, IF pc = "deleteOwned" THEN "listShared" ELSE AfterCleanup)
  /\ UNCHANGED <<outerVars, certVars, secretVars>>

\* The rest of doReconcile is EndpointDiscovery's.
Discovery == pc = "discovery" /\ Done /\ UNCHANGED <<outerVars, ownVars>>

ReleaseMesh == Release /\ UNCHANGED ownVars

Worker ==
  \/ \E c \in Cluster : EnsureCert(c) \/ EnsureCacerts(c) \/ DeleteCert(c) \/ DeleteWork(c)
  \/ ListCerts \/ ListOwned \/ ListShared \/ Discovery \/ ReleaseMesh

TakeMesh(m) ==
  \/ Begin(m) \/ BeginDeletion(m)
  \/ (TakeNothing(m) \/ TakeUnfinalized(m)) /\ UNCHANGED ownVars

-----------------------------------------------------------------------------
(* Watch delivery *)

OwnersOf(x) == IF x = NoCert THEN {} ELSE {x.owner}

\* Owns(Certificate): the owners of the old and the new version.
SyncCert(p) ==
  /\ p \in certEv
  /\ certC' = [certC EXCEPT ![p] = cert[p]]
  /\ certEv' = certEv \ {p}
  /\ queue' = queue \union OwnersOf(certC[p]) \union OwnersOf(cert[p])
  /\ UNCHANGED <<outerVars, pc, jobVars, cert, secretVars, workVars>>

\* Mutant: the Secret's owner is looked for among its owner references.
SyncSecretSilently(p) ==
  /\ p \in secretEv
  /\ secretC' = [secretC EXCEPT ![p] = secret[p]]
  /\ secretEv' = secretEv \ {p}
  /\ UNCHANGED <<frameVars, certVars, secret, workVars>>

\* mapSecretToMesh: by label.
SyncSecret(p) ==
  /\ p \in secretEv
  /\ secretC' = [secretC EXCEPT ![p] = secret[p]]
  /\ secretEv' = secretEv \ {p}
  /\ queue' = queue \union {secret[p].mesh}
                    \union (IF secretC[p] = NoSecret THEN {} ELSE {secretC[p].mesh})
  /\ UNCHANGED <<outerVars, pc, jobVars, certVars, secret, workVars>>

\* Mutant: a work's event reaches no mesh.
SyncWorkSilently(c) ==
  /\ c \in workEv
  /\ workEv' = workEv \ {c}
  /\ UNCHANGED <<frameVars, certVars, secretVars, cacerts>>

\* findMeshesForManifestWork
SyncWork(c) ==
  /\ c \in workEv
  /\ workEv' = workEv \ {c}
  /\ queue' = queue \union Targeting(clusterC[c].set)
  /\ UNCHANGED <<outerVars, pc, jobVars, certVars, secretVars, cacerts>>

Delivery ==
  \/ FrameDelivery /\ UNCHANGED ownVars
  \/ \E p \in Place : SyncCert(p) \/ SyncSecret(p)
  \/ \E c \in Cluster : SyncWork(c)

-----------------------------------------------------------------------------
(* cert-manager, the agents, garbage collection, restarts *)

\* The Secret holds what the Certificate asks for.
Suits(s, x) == s # NoSecret /\ s.mesh = x.owner /\ s.issuer = x.issuer

\* A Secret that does not suit its Certificate is issued, as is, in time, the
\* next CA; with the Certificate gone the Secret stays.
Issue(p) ==
  /\ cert[p] # NoCert /\ ~Suits(secret[p], cert[p])
  /\ PutSecret(p, [mesh |-> cert[p].owner, issuer |-> cert[p].issuer,
                   serial |-> IF secret[p] = NoSecret THEN 1 ELSE secret[p].serial + 1])
  /\ UNCHANGED <<frameVars, certVars, secretC, workVars>>

Renew(p) ==
  /\ cert[p] # NoCert /\ Suits(secret[p], cert[p]) /\ Spend("renew")
  /\ PutSecret(p, [secret[p] EXCEPT !.serial = @ + 1])
  /\ UNCHANGED <<worldVars, cacheVars, eventVars, queue, pc, jobVars, certVars, secretC, workVars>>

AgentFinish(c) ==
  /\ cacerts[c] # NoWork /\ cacerts[c].dying
  /\ PutWork(c, NoWork)
  /\ UNCHANGED <<frameVars, certVars, secretVars>>

\* Certificates are owned by their mesh.
Collect(p) ==
  /\ cert[p] # NoCert /\ mesh[cert[p].owner].phase = "gone"
  /\ PutCert(p, NoCert)
  /\ UNCHANGED <<frameVars, certC, secretVars, workVars>>

Outside ==
  \/ \E p \in Place : Issue(p) \/ Renew(p) \/ Collect(p)
  \/ \E c \in Cluster : AgentFinish(c)

Crash ==
  /\ FrameCrash
  /\ certC' = cert /\ secretC' = secret
  /\ certEv' = {} /\ secretEv' = {} /\ workEv' = {}
  /\ UNCHANGED <<cert, secret, cacerts>>

\* Mutant: an error of handleDeletion is swallowed and the finalizer removed.
FailAndRelease ==
  IF pc # "idle" /\ Deletion
    THEN pc' = "release" /\ Spend("fail")
         /\ UNCHANGED <<worldVars, cacheVars, eventVars, queue, jobVars, ownVars>>
    ELSE Fail /\ UNCHANGED ownVars

FailMesh == Fail /\ UNCHANGED ownVars

Next ==
  \/ Worker \/ FailMesh \/ Delivery \/ Outside \/ Crash
  \/ \E m \in Mesh : TakeMesh(m)
  \/ FrameUsers /\ UNCHANGED ownVars

Spec == Init /\ [][Next]_vars

-----------------------------------------------------------------------------
(* What makes it correct *)

\* A cacerts work that is not being deleted belongs to a mesh that exists and
\* carries the finalizer: whatever errors, restarts and moves of clusters come
\* in between, no CA is left on a cluster that nobody will take away.
CacertsOwned ==
  \A c \in Cluster : (cacerts[c] # NoWork /\ ~cacerts[c].dying) =>
    mesh[cacerts[c].owner].phase \in {"live", "deleting"} /\ mesh[cacerts[c].owner].fin

\* If no two meshes share a namespace, a cluster never gets, under one mesh's
\* name, a CA that was issued for another mesh - not even while the cluster
\* moves between them, or one inherits what the other had.
CaOfItsMesh ==
  (\A m, n \in Mesh : NsOf[m] = NsOf[n] => m = n) =>
    \A c \in Cluster : cacerts[c] # NoWork => cacerts[c].ca.mesh = cacerts[c].owner

AtRest ==
  /\ FrameAtRest /\ certEv = {} /\ secretEv = {} /\ workEv = {}
  /\ \A p \in Place : cert[p] # NoCert => mesh[cert[p].owner].phase # "gone" /\ Suits(secret[p], cert[p])
  /\ \A c \in Cluster : cacerts[c] # NoWork => ~cacerts[c].dying

\* The mesh's CA of the issuer it names now, as last renewed, is on cluster c.
Trusted(m, c) ==
  LET s == secret[<<NsOf[m], c>>] IN
  /\ s # NoSecret /\ s.mesh = m /\ s.issuer = mesh[m].setting
  /\ cacerts[c] = [owner |-> m, ca |-> s, dying |-> FALSE]

\* At rest every accepted mesh with an issuer has its current CA on each of its
\* clusters, if no two meshes share a namespace: one that does may delete the
\* Certificate that the other has taken over, and tells nobody.  Two such meshes
\* of one set never come to rest: EventuallyTrusted is about them as well.
RestTrusted ==
  (AtRest /\ \A m, n \in Mesh : NsOf[m] = NsOf[n] => m = n) =>
    \A m \in Mesh : (Accepted(m) /\ mesh[m].setting # NoIssuer) =>
      \A c \in ClustersOf(SetOf[m]) : Trusted(m, c)

\* At rest a Certificate belongs to a live mesh, and one of an accepted mesh is
\* for a cluster of its set and made because the mesh still names an issuer.  A
\* refused mesh is no part of the second claim: Reconcile returns before
\* deleteAllCertificates and deleteCertificatesForRemovedClusters, so that it
\* keeps the Certificates it had, whatever becomes of its issuer and clusters.
RestCertificates ==
  AtRest => \A p \in Place : cert[p] # NoCert =>
    LET m == cert[p].owner IN
    /\ mesh[m].phase = "live"
    /\ Accepted(m) => mesh[m].setting # NoIssuer /\ p[2] \in ClustersOf(SetOf[m])

\* At rest a cacerts work belongs to a live mesh and is on a cluster of that
\* mesh's set, provided that a mesh of the set is accepted: that one cleans up
\* for its refused peers as well (cleanupManifestWorks is by set).  If all of
\* them are refused, works stay on clusters that leave.  Nothing is said of works
\* on the set's own clusters: those of a mesh that drops its issuer stay.
RestCacerts ==
  AtRest => \A c \in Cluster : cacerts[c] # NoWork =>
    LET s == SetOf[cacerts[c].owner] IN
    /\ mesh[cacerts[c].owner].phase = "live"
    /\ (\E m \in Mesh : Accepted(m) /\ SetOf[m] = s) => c \in ClustersOf(s)

-----------------------------------------------------------------------------
(* Progress: see MeshProperties; cert-manager issues what is asked for *)

Fairness ==
  /\ WF_vars(Worker)
  /\ \A m \in Mesh : SF_vars(TakeMesh(m)) /\ WF_vars(SyncMesh(m) /\ UNCHANGED ownVars)
  /\ \A c \in Cluster : WF_vars(SyncCluster(c) /\ UNCHANGED ownVars)
  /\ \A s \in Set : WF_vars(SyncSet(s) /\ UNCHANGED ownVars)
  /\ \A p \in Place : WF_vars(SyncCert(p)) /\ WF_vars(SyncSecret(p)) /\ WF_vars(Issue(p))
                        /\ WF_vars(Collect(p))
  /\ \A c \in Cluster : WF_vars(SyncWork(c)) /\ WF_vars(AgentFinish(c))

FairSpec == Spec /\ Fairness

\* Each accepted mesh with an issuer eventually has its CA on its clusters and
\* keeps it: "Each mesh gets its own trust domain, certificates, and discovery
\* tokens" (docs/design.md).
EventuallyTrusted ==
  \A m \in Mesh : <>[](Accepted(m) /\ mesh[m].setting # NoIssuer
                         => \A c \in ClustersOf(SetOf[m]) : Trusted(m, c))
=============================================================================
