------------------------------ MODULE TrustProofs ------------------------------
(***************************************************************************)
(* Trust distribution keeps its types, never gives a cluster the CA of     *)
(* another mesh under a mesh's name, and leaves no CA without an owner; at *)
(* rest every mesh has its CA on its clusters, and accepted meshes have    *)
(* cleaned up.  BaseInv is what all of it rests on.                        *)
(***************************************************************************)
EXTENDS TrustDistribution, FrameProofs

Cleaning == {"listOwned", "deleteOwned", "listShared", "deleteShared"}

ObjectTypeOK ==
  /\ cert \in [Place -> CertRecord \union {NoCert}]
  /\ certC \in [Place -> CertRecord \union {NoCert}]
  /\ secret \in [Place -> CA \union {NoSecret}]
  /\ secretC \in [Place -> CA \union {NoSecret}]
  /\ cacerts \in [Cluster -> WorkRecord \union {NoWork}]
  /\ certEv \subseteq Place /\ secretEv \subseteq Place /\ workEv \subseteq Cluster

\* An event of a Secret is one of a Secret that is there: none is ever deleted.
SecretsStay == \A p \in secretEv : secret[p] # NoSecret

BaseInv == FrameInv(Cleaning) /\ pc \in Step /\ ObjectTypeOK /\ SecretsStay

LEMMA BaseType == BaseInv => TypeOK
BY DEF BaseInv, FrameInv, ObjectTypeOK, TypeOK

LEMMA BaseInit == Init => BaseInv
<1> SUFFICES ASSUME Init PROVE BaseInv
  OBVIOUS
<1>1. FrameInv(Cleaning) /\ pc \in Step
  BY InitInv DEF Init, FrameInit, Step
<1>2. ObjectTypeOK /\ SecretsStay
  BY DEF Init, ObjectTypeOK, SecretsStay
<1> QED
  BY <1>1, <1>2 DEF BaseInv

-----------------------------------------------------------------------------
(* Writing an object keeps the types of all of them *)

LEMMA PutCertType ==
  ASSUME ObjectTypeOK, SecretsStay, NEW p \in Place, NEW x \in CertRecord \union {NoCert},
         PutCert(p, x), UNCHANGED <<certC, secretVars, workVars>>
  PROVE  ObjectTypeOK' /\ SecretsStay'
BY DEF ObjectTypeOK, SecretsStay, PutCert, secretVars, workVars

LEMMA PutSecretType ==
  ASSUME ObjectTypeOK, SecretsStay, NEW p \in Place, NEW x \in CA,
         PutSecret(p, x), UNCHANGED <<certVars, secretC, workVars>>
  PROVE  ObjectTypeOK' /\ SecretsStay'
<1>1. ObjectTypeOK'
  BY DEF ObjectTypeOK, PutSecret, certVars, workVars
<1>2. \A q \in Place : secret'[q] = IF q = p THEN x ELSE secret[q]
  BY DEF ObjectTypeOK, PutSecret
<1> QED
  BY <1>1, <1>2, TrustAssumption DEF ObjectTypeOK, SecretsStay, PutSecret

LEMMA PutWorkType ==
  ASSUME ObjectTypeOK, SecretsStay, NEW c \in Cluster, NEW x \in WorkRecord \union {NoWork},
         PutWork(c, x), UNCHANGED <<certVars, secretVars>>
  PROVE  ObjectTypeOK' /\ SecretsStay'
BY DEF ObjectTypeOK, SecretsStay, PutWork, certVars, secretVars

LEMMA SameObjects ==
  ASSUME ObjectTypeOK, SecretsStay, UNCHANGED ownVars
  PROVE  ObjectTypeOK' /\ SecretsStay'
BY DEF ObjectTypeOK, SecretsStay, ownVars, certVars, secretVars, workVars

-----------------------------------------------------------------------------
(* The steps *)

\* The worker is at work on a mesh, and at which of its steps.
LEMMA AtWork ==
  ASSUME BaseInv, pc # "idle"
  PROVE  /\ cur \in Mesh /\ my \in MeshRecord /\ my.setting \in Setting
         /\ \A c \in Cluster : At(c) \in Place
         /\ pc \notin Cleaning \union {"release"} => ~Deletion
BY FrameAssumption DEF BaseInv, FrameInv, FrameTypeOK, Path, MeshRecord, At, Place

\* Steps of a job that list or write objects.
LEMMA BaseJob ==
  ASSUME BaseInv, UNCHANGED outerVars, UNCHANGED <<queue, cur, my, clusters>>,
         pc # "idle", todo' \subseteq Cluster, doomed' \subseteq Cluster,
         pc' \in Step \ {"idle"},
         IF Deletion THEN pc' \in Cleaning \union {"release"} ELSE pc' # "release",
         ObjectTypeOK' /\ SecretsStay'
  PROVE  BaseInv'
BY JobStep DEF BaseInv

LEMMA BaseWorker == BaseInv /\ Worker => BaseInv'
<1> SUFFICES ASSUME BaseInv, Worker PROVE BaseInv'
  OBVIOUS
<1>1. /\ ObjectTypeOK /\ SecretsStay /\ pc \in Step
      /\ todo \subseteq Cluster /\ doomed \subseteq Cluster /\ clusters \subseteq Cluster
  BY DEF BaseInv, FrameInv, FrameTypeOK
<1>2. ASSUME NEW c \in Cluster, EnsureCert(c) PROVE BaseInv'
  <2>1. pc = "cert" /\ pc' = "cacerts" /\ UNCHANGED <<queue, cur, my, clusters, todo, doomed>>
        /\ UNCHANGED outerVars
    BY <1>2 DEF EnsureCert, GoTo, jobVars
  <2>2. ~Deletion /\ WantedCert \in CertRecord /\ At(c) \in Place
    BY <2>1, AtWork DEF Cleaning, WantedCert, CertRecord
  <2>3. ObjectTypeOK' /\ SecretsStay'
    <3>1. CASE PutCert(At(c), WantedCert)
      BY <1>1, <1>2, <2>2, <3>1, PutCertType DEF EnsureCert
    <3>2. CASE UNCHANGED <<cert, certEv>>
      BY <1>1, <1>2, <3>2, SameObjects DEF EnsureCert, ownVars, certVars
    <3> QED
      BY <1>2, <3>1, <3>2 DEF EnsureCert
  <2> QED
    BY <1>1, <2>1, <2>2, <2>3, BaseJob DEF Step
<1>3. ASSUME NEW c \in Cluster, EnsureCacerts(c) PROVE BaseInv'
  <2> DEFINE ca == secretC[At(c)]
             want == [owner |-> cur, ca |-> ca, dying |-> cacerts[c] # NoWork /\ cacerts[c].dying]
  <2>1. pc = "cacerts" /\ pc' \in {"cert", "listCerts"} /\ UNCHANGED <<queue, cur, my, clusters, doomed>>
        /\ UNCHANGED outerVars /\ todo' = todo \ {c} /\ UNCHANGED <<certVars, secretVars>>
    BY <1>3 DEF EnsureCacerts, Advance
  <2>2. ~Deletion /\ cur \in Mesh /\ At(c) \in Place
    BY <2>1, AtWork DEF Cleaning
  <2>3. ObjectTypeOK' /\ SecretsStay'
    <3>1. ASSUME PutWork(c, want), ca # NoSecret PROVE ObjectTypeOK' /\ SecretsStay'
      <4>1. ca \in CA
        BY <1>1, <2>2, <3>1 DEF ObjectTypeOK
      <4>2. (cacerts[c] # NoWork /\ cacerts[c].dying) \in BOOLEAN
        OBVIOUS
      <4>3. want \in WorkRecord
        BY <2>2, <4>1, <4>2 DEF WorkRecord
      <4> HIDE DEF want, ca
      <4> QED
        BY <1>1, <2>1, <3>1, <4>3, PutWorkType
    <3>2. CASE UNCHANGED <<cacerts, workEv>>
      BY <1>1, <2>1, <3>2, SameObjects DEF ownVars, workVars
    <3> QED
      BY <1>3, <3>1, <3>2 DEF EnsureCacerts
  <2> HIDE DEF want, ca
  <2> QED
    BY <1>1, <2>1, <2>2, <2>3, BaseJob DEF Step
<1>4. ASSUME NEW c \in Cluster, DeleteCert(c) PROVE BaseInv'
  <2>1. pc = "deleteCerts" /\ pc' \in {"deleteCerts", "listOwned"}
        /\ UNCHANGED <<queue, cur, my, clusters, todo>>
        /\ UNCHANGED outerVars /\ doomed' = doomed \ {c}
    BY <1>4 DEF DeleteCert, Spare
  <2>2. ~Deletion /\ At(c) \in Place
    BY <2>1, AtWork DEF Cleaning
  <2>3. ObjectTypeOK' /\ SecretsStay'
    <3>1. CASE PutCert(At(c), NoCert)
      BY <1>1, <1>4, <2>2, <3>1, PutCertType DEF DeleteCert
    <3>2. CASE UNCHANGED <<cert, certEv>>
      BY <1>1, <1>4, <3>2, SameObjects DEF DeleteCert, ownVars, certVars
    <3> QED
      BY <1>4, <3>1, <3>2 DEF DeleteCert
  <2> QED
    BY <1>1, <2>1, <2>2, <2>3, BaseJob DEF Step
<1>5. ASSUME NEW c \in Cluster, DeleteWork(c) PROVE BaseInv'
  <2>1. pc \in {"deleteOwned", "deleteShared"} /\ pc' \in {pc, "listShared", AfterCleanup}
        /\ UNCHANGED <<queue, cur, my, clusters, todo>>
        /\ UNCHANGED outerVars /\ doomed' = doomed \ {c}
    BY <1>5 DEF DeleteWork, Spare
  <2>2. ObjectTypeOK' /\ SecretsStay'
    <3>1. ASSUME cacerts[c] # NoWork, PutWork(c, [cacerts[c] EXCEPT !.dying = TRUE])
          PROVE ObjectTypeOK' /\ SecretsStay'
      <4>1. cacerts[c] \in WorkRecord
        BY <1>1, <3>1 DEF ObjectTypeOK
      <4>2. [cacerts[c] EXCEPT !.dying = TRUE] \in WorkRecord
        BY <4>1 DEF WorkRecord
      <4> QED
        BY <1>1, <1>5, <3>1, <4>2, PutWorkType DEF DeleteWork
    <3>2. CASE UNCHANGED <<cacerts, workEv>>
      BY <1>1, <1>5, <3>2, SameObjects DEF DeleteWork, ownVars, workVars
    <3> QED
      BY <1>5, <3>1, <3>2 DEF DeleteWork
  <2> QED
    BY <1>1, <2>1, <2>2, BaseJob DEF Step, AfterCleanup, Cleaning
<1>6. ASSUME ListCerts PROVE BaseInv'
  <2>1. pc = "listCerts" /\ pc' \in {"deleteCerts", "listOwned"} /\ doomed' \subseteq Cluster
        /\ UNCHANGED <<queue, cur, my, clusters, todo>> /\ UNCHANGED outerVars /\ UNCHANGED ownVars
    BY <1>6 DEF ListCerts, Doom
  <2>2. ~Deletion
    BY <2>1, AtWork DEF Cleaning
  <2> QED
    BY <1>1, <2>1, <2>2, SameObjects, BaseJob DEF Step
<1>7. ASSUME ListOwned \/ ListShared PROVE BaseInv'
  <2>1. pc \in {"listOwned", "listShared"} /\ doomed' \subseteq Cluster
        /\ pc' \in {"deleteOwned", "listShared", "deleteShared", AfterCleanup}
        /\ UNCHANGED <<queue, cur, my, clusters, todo>> /\ UNCHANGED outerVars /\ UNCHANGED ownVars
    BY <1>7 DEF ListOwned, ListShared, Doom
  <2> QED
    BY <1>1, <2>1, SameObjects, BaseJob DEF Step, AfterCleanup, Cleaning
<1>8. ASSUME Discovery PROVE BaseInv'
  <2>1. FrameInv(Cleaning)' /\ pc' = "idle"
    BY <1>8, JobEnd DEF Discovery, BaseInv, Done, Settle
  <2> QED
    BY <1>1, <1>8, <2>1, SameObjects DEF Discovery, BaseInv, Step
<1>9. ASSUME ReleaseMesh PROVE BaseInv'
  <2>1. FrameInv(Cleaning)' /\ pc' = "idle"
    BY <1>9, ReleaseInv DEF ReleaseMesh, BaseInv
  <2> QED
    BY <1>1, <1>9, <2>1, SameObjects DEF ReleaseMesh, BaseInv, Step
<1> QED
  BY <1>2, <1>3, <1>4, <1>5, <1>6, <1>7, <1>8, <1>9 DEF Worker

LEMMA BaseTake == ASSUME BaseInv, NEW m \in Mesh, TakeMesh(m) PROVE BaseInv'
<1>1. FrameInv(Cleaning) /\ ObjectTypeOK /\ SecretsStay /\ pc \in Step
  BY DEF BaseInv
<1>2. ObjectTypeOK' /\ SecretsStay'
  BY <1>1, SameObjects DEF TakeMesh, Begin, BeginDeletion
<1>3. CASE Begin(m)
  <2> DEFINE each == IF meshC[m].setting = NoIssuer THEN "listCerts" ELSE "cert"
  <2>1. TakeLive(m, each, "listCerts") /\ each \in {"listCerts", "cert"}
    BY <1>3 DEF Begin
  <2> HIDE DEF each
  <2>2. FrameInv(Cleaning)'
    BY <1>1, <2>1, TakeLiveInv
  <2>3. pc' \in Step
    BY <2>1 DEF TakeLive, Step
  <2> QED
    BY <1>2, <2>2, <2>3 DEF BaseInv
<1>4. CASE BeginDeletion(m)
  <2>1. TakeDeleting(m, "listOwned") /\ "listOwned" \in Cleaning
    BY <1>4 DEF BeginDeletion, Cleaning
  <2>2. FrameInv(Cleaning)'
    BY <1>1, <2>1, TakeDeletingInv
  <2> QED
    BY <1>2, <2>1, <2>2 DEF TakeDeleting, BaseInv, Step
<1>5. CASE TakeNothing(m) \/ TakeUnfinalized(m)
  BY <1>1, <1>2, <1>5, TakeInv DEF BaseInv
<1> QED
  BY <1>3, <1>4, <1>5 DEF TakeMesh

LEMMA BaseDelivery == BaseInv /\ Delivery => BaseInv'
<1> SUFFICES ASSUME BaseInv, Delivery PROVE BaseInv'
  OBVIOUS
<1>1. FrameInv(Cleaning) /\ FrameTypeOK /\ ObjectTypeOK /\ SecretsStay /\ pc \in Step
  BY DEF BaseInv, FrameInv
<1>2. CASE FrameDelivery /\ UNCHANGED ownVars
  BY <1>1, <1>2, DeliveryInv, SameObjects DEF BaseInv
<1>3. ASSUME queue' \subseteq Mesh, UNCHANGED <<outerVars, pc, jobVars>>, ObjectTypeOK', SecretsStay'
      PROVE  BaseInv'
  <2>1. FrameTypeOK' /\ MeshesAge /\ UNCHANGED meshC
    BY <1>1, <1>3 DEF FrameTypeOK, MeshesAge, Present, outerVars, worldVars, cacheVars, eventVars, jobVars
  <2> QED
    BY <1>1, <1>3, <2>1, QuietStep DEF BaseInv
<1>4. ASSUME NEW p \in Place, SyncCert(p) PROVE BaseInv'
  <2>1. OwnersOf(cert[p]) \subseteq Mesh /\ OwnersOf(certC[p]) \subseteq Mesh
    BY <1>1 DEF ObjectTypeOK, OwnersOf, CertRecord
  <2>2. queue' \subseteq Mesh
    BY <1>1, <1>4, <2>1 DEF SyncCert, FrameTypeOK
  <2>3. ObjectTypeOK' /\ SecretsStay'
    BY <1>1, <1>4 DEF SyncCert, ObjectTypeOK, SecretsStay, secretVars, workVars
  <2> QED
    BY <1>3, <1>4, <2>2, <2>3 DEF SyncCert
<1>5. ASSUME NEW p \in Place, SyncSecret(p) PROVE BaseInv'
  <2>1. secret[p] \in CA /\ secretC[p] \in CA \union {NoSecret}
    BY <1>1, <1>5 DEF ObjectTypeOK, SecretsStay, SyncSecret
  <2>2. queue' \subseteq Mesh
    BY <1>1, <1>5, <2>1 DEF SyncSecret, FrameTypeOK, CA
  <2>3. ObjectTypeOK' /\ SecretsStay'
    BY <1>1, <1>5 DEF SyncSecret, ObjectTypeOK, SecretsStay, certVars, workVars
  <2> QED
    BY <1>3, <1>5, <2>2, <2>3 DEF SyncSecret
<1>6. ASSUME NEW c \in Cluster, SyncWork(c) PROVE BaseInv'
  <2>1. queue' \subseteq Mesh
    BY <1>1, <1>6 DEF SyncWork, Targeting, FrameTypeOK
  <2>2. ObjectTypeOK' /\ SecretsStay'
    BY <1>1, <1>6 DEF SyncWork, ObjectTypeOK, SecretsStay, certVars, secretVars
  <2> QED
    BY <1>3, <1>6, <2>1, <2>2 DEF SyncWork
<1> QED
  BY <1>2, <1>4, <1>5, <1>6 DEF Delivery

\* What an Issue or a Renew writes is a CA for the mesh that the old content,
\* or the Certificate, names.
LEMMA BaseOutside == BaseInv /\ Outside => BaseInv'
<1> SUFFICES ASSUME BaseInv, Outside PROVE BaseInv'
  OBVIOUS
<1>1. FrameInv(Cleaning) /\ FrameTypeOK /\ ObjectTypeOK /\ SecretsStay /\ pc \in Step
  BY DEF BaseInv, FrameInv
<1>2. ASSUME UNCHANGED <<mesh, cluster, sets, cacheVars, eventVars, queue, pc, jobVars>>,
             budget' \in [Disturbance -> Nat], ObjectTypeOK', SecretsStay'
      PROVE  BaseInv'
  <2>1. FrameTypeOK' /\ MeshesAge /\ UNCHANGED meshC
    BY <1>1, <1>2 DEF FrameTypeOK, MeshesAge, Present, cacheVars, eventVars, jobVars
  <2> QED
    BY <1>1, <1>2, <2>1, QuietStep DEF BaseInv
<1>3. ASSUME UNCHANGED frameVars, ObjectTypeOK', SecretsStay' PROVE BaseInv'
  <2>1. UNCHANGED <<mesh, cluster, sets, cacheVars, eventVars, queue, pc, jobVars, budget>>
    BY <1>3 DEF frameVars, outerVars, worldVars
  <2> QED
    BY <1>1, <1>2, <1>3, <2>1 DEF FrameTypeOK
<1>4. ASSUME NEW p \in Place, Issue(p) PROVE BaseInv'
  <2> DEFINE ca == [mesh |-> cert[p].owner, issuer |-> cert[p].issuer,
                    serial |-> IF secret[p] = NoSecret THEN 1 ELSE secret[p].serial + 1]
  <2>1. cert[p] \in CertRecord /\ secret[p] \in CA \union {NoSecret}
    BY <1>1, <1>4 DEF Issue, ObjectTypeOK
  <2>2. ca \in CA
    BY <2>1 DEF CA, CertRecord
  <2>3. PutSecret(p, ca) /\ UNCHANGED <<certVars, secretC, workVars>> /\ UNCHANGED frameVars
    BY <1>4 DEF Issue
  <2> HIDE DEF ca
  <2> QED
    BY <1>1, <1>3, <2>2, <2>3, PutSecretType
<1>5. ASSUME NEW p \in Place, Renew(p) PROVE BaseInv'
  <2> DEFINE ca == [secret[p] EXCEPT !.serial = @ + 1]
  <2>1. secret[p] \in CA /\ secret[p].serial + 1 \in Nat
    BY <1>1, <1>5 DEF Renew, Suits, ObjectTypeOK, CA
  <2>2. ca \in CA
    BY <2>1 DEF CA
  <2>3. PutSecret(p, ca) /\ UNCHANGED <<certVars, secretC, workVars>> /\ Spend("renew")
        /\ UNCHANGED <<mesh, cluster, sets, cacheVars, eventVars, queue, pc, jobVars>>
    BY <1>5 DEF Renew, worldVars
  <2> HIDE DEF ca
  <2>4. ObjectTypeOK' /\ SecretsStay'
    BY <1>1, <2>2, <2>3, PutSecretType
  <2>5. budget' \in [Disturbance -> Nat]
    BY <1>1, <2>3, SpendType DEF Disturbance
  <2> QED
    BY <1>2, <2>3, <2>4, <2>5
<1>6. ASSUME NEW p \in Place, Collect(p) PROVE BaseInv'
  BY <1>1, <1>3, <1>6, PutCertType DEF Collect
<1>7. ASSUME NEW c \in Cluster, AgentFinish(c) PROVE BaseInv'
  BY <1>1, <1>3, <1>7, PutWorkType DEF AgentFinish
<1> QED
  BY <1>4, <1>5, <1>6, <1>7 DEF Outside

LEMMA BaseNext == BaseInv /\ [Next]_vars => BaseInv'
<1> SUFFICES ASSUME BaseInv, [Next]_vars PROVE BaseInv'
  OBVIOUS
<1>1. FrameInv(Cleaning) /\ FrameTypeOK /\ ObjectTypeOK /\ SecretsStay /\ pc \in Step
  BY DEF BaseInv, FrameInv
<1>2. CASE FailMesh
  BY <1>1, <1>2, FailInv, SameObjects DEF FailMesh, BaseInv, Step
<1>3. CASE Crash
  <2>1. FrameInv(Cleaning)' /\ pc' = "idle"
    BY <1>1, <1>3, CrashInv DEF Crash
  <2>2. ObjectTypeOK' /\ SecretsStay'
    BY <1>1, <1>3 DEF Crash, ObjectTypeOK, SecretsStay
  <2> QED
    BY <2>1, <2>2 DEF BaseInv, Step
<1>4. CASE FrameUsers /\ UNCHANGED ownVars
  BY <1>1, <1>4, UsersInv, SameObjects DEF BaseInv
<1>5. CASE UNCHANGED vars
  <2>1. UNCHANGED ownVars /\ UNCHANGED <<pc, jobVars, meshC, mesh>> /\ FrameTypeOK'
    BY <1>1, <1>5 DEF vars, frameVars, outerVars, worldVars, cacheVars, eventVars, jobVars, FrameTypeOK
  <2>2. MeshesAge
    BY <2>1 DEF MeshesAge, Present
  <2> QED
    BY <1>1, <2>1, <2>2, QuietStep, SameObjects DEF BaseInv
<1> QED
  BY <1>2, <1>3, <1>4, <1>5, BaseWorker, BaseTake, BaseDelivery, BaseOutside DEF Next

\* TrustDistribution's variables keep their types, whatever the meshes,
\* clusters and namespaces.
THEOREM TrustTypes == Spec => []TypeOK
BY BaseInit, BaseNext, BaseType, PTL DEF Spec

-----------------------------------------------------------------------------
(* CAs go to the mesh that they were issued for *)

\* Certificates and Secrets are in the namespace of the mesh they are for.
InNamespace ==
  \A p \in Place :
    /\ cert[p] # NoCert => NsOf[cert[p].owner] = p[1]
    /\ secret[p] # NoSecret => NsOf[secret[p].mesh] = p[1]
    /\ secretC[p] # NoSecret => NsOf[secretC[p].mesh] = p[1]

Apart == \A m, n \in Mesh : NsOf[m] = NsOf[n] => m = n

CaInv == BaseInv /\ InNamespace /\ CaOfItsMesh

LEMMA InNamespaceStep == BaseInv /\ InNamespace /\ [Next]_vars => InNamespace'
<1> SUFFICES ASSUME BaseInv, InNamespace, [Next]_vars PROVE InNamespace'
  OBVIOUS
<1>1. ObjectTypeOK
  BY DEF BaseInv
<1>2. CASE UNCHANGED <<cert, secret, secretC>>
  BY <1>2 DEF InNamespace
<1>3. ASSUME NEW p \in Place, NEW x, PutCert(p, x), x # NoCert => NsOf[x.owner] = p[1],
             UNCHANGED <<secret, secretC>>
      PROVE  InNamespace'
  <2>1. \A q \in Place : cert'[q] = IF q = p THEN x ELSE cert[q]
    BY <1>1, <1>3 DEF ObjectTypeOK, PutCert
  <2> QED
    BY <1>3, <2>1 DEF InNamespace
<1>4. ASSUME NEW p \in Place, NEW x, PutSecret(p, x), NsOf[x.mesh] = p[1],
             UNCHANGED <<cert, secretC>>
      PROVE  InNamespace'
  <2>1. \A q \in Place : secret'[q] = IF q = p THEN x ELSE secret[q]
    BY <1>1, <1>4 DEF ObjectTypeOK, PutSecret
  <2> QED
    BY <1>4, <2>1 DEF InNamespace
<1>5. CASE Worker
  <2>1. CASE \/ \E c \in Cluster : EnsureCacerts(c) \/ DeleteWork(c)
             \/ ListCerts \/ ListOwned \/ ListShared \/ Discovery \/ ReleaseMesh
    BY <1>2, <2>1 DEF EnsureCacerts, DeleteWork, ListCerts, ListOwned, ListShared, Discovery,
       ReleaseMesh, ownVars, certVars, secretVars
  <2>2. ASSUME NEW c \in Cluster, EnsureCert(c) PROVE InNamespace'
    <3>1. At(c) \in Place /\ WantedCert.owner = cur /\ At(c)[1] = NsOf[cur]
      BY <2>2, AtWork DEF EnsureCert, WantedCert, At
    <3> QED
      BY <1>2, <1>3, <2>2, <3>1 DEF EnsureCert, secretVars
  <2>3. ASSUME NEW c \in Cluster, DeleteCert(c) PROVE InNamespace'
    <3>1. At(c) \in Place
      BY <2>3, AtWork DEF DeleteCert
    <3> QED
      BY <1>2, <1>3, <2>3, <3>1 DEF DeleteCert, secretVars
  <2> QED
    BY <1>5, <2>1, <2>2, <2>3 DEF Worker
<1>6. CASE Outside
  <2>1. ASSUME NEW p \in Place, Issue(p) PROVE InNamespace'
    <3> DEFINE ca == [mesh |-> cert[p].owner, issuer |-> cert[p].issuer,
                      serial |-> IF secret[p] = NoSecret THEN 1 ELSE secret[p].serial + 1]
    <3>1. ca.mesh = cert[p].owner /\ NsOf[cert[p].owner] = p[1]
      BY <2>1 DEF Issue, InNamespace
    <3>2. PutSecret(p, ca) /\ UNCHANGED <<cert, secretC>>
      BY <2>1 DEF Issue, certVars
    <3> HIDE DEF ca
    <3> QED
      BY <1>4, <3>1, <3>2
  <2>2. ASSUME NEW p \in Place, Renew(p) PROVE InNamespace'
    <3> DEFINE ca == [secret[p] EXCEPT !.serial = @ + 1]
    <3>1. secret[p] \in CA /\ NsOf[secret[p].mesh] = p[1]
      BY <1>1, <2>2 DEF Renew, Suits, ObjectTypeOK, InNamespace
    <3>2. ca.mesh = secret[p].mesh
      BY <3>1 DEF CA
    <3>3. PutSecret(p, ca) /\ UNCHANGED <<cert, secretC>>
      BY <2>2 DEF Renew, certVars
    <3> HIDE DEF ca
    <3> QED
      BY <1>4, <3>1, <3>2, <3>3
  <2>3. ASSUME NEW p \in Place, Collect(p) PROVE InNamespace'
    BY <1>3, <2>3 DEF Collect, secretVars
  <2>4. ASSUME NEW c \in Cluster, AgentFinish(c) PROVE InNamespace'
    BY <1>2, <2>4 DEF AgentFinish, certVars, secretVars
  <2> QED
    BY <1>6, <2>1, <2>2, <2>3, <2>4 DEF Outside
<1>7. CASE Delivery
  <2>1. ASSUME NEW p \in Place, SyncSecret(p) PROVE InNamespace'
    <3>1. \A q \in Place : secretC'[q] = IF q = p THEN secret[q] ELSE secretC[q]
      BY <1>1, <2>1 DEF SyncSecret, ObjectTypeOK
    <3> QED
      BY <2>1, <3>1 DEF SyncSecret, InNamespace, certVars
  <2>2. ASSUME NEW p \in Place, SyncCert(p) PROVE InNamespace'
    BY <1>2, <2>2 DEF SyncCert, secretVars
  <2>3. ASSUME NEW c \in Cluster, SyncWork(c) PROVE InNamespace'
    BY <1>2, <2>3 DEF SyncWork, certVars, secretVars
  <2> QED
    BY <1>2, <1>7, <2>1, <2>2, <2>3 DEF Delivery, ownVars, certVars, secretVars
<1>8. CASE Crash
  BY <1>8 DEF Crash, InNamespace
<1>9. CASE UNCHANGED ownVars
  BY <1>2, <1>9 DEF ownVars, certVars, secretVars
<1>10. CASE FailMesh \/ \E m \in Mesh : TakeMesh(m)
  BY <1>9, <1>10 DEF FailMesh, TakeMesh, Begin, BeginDeletion
<1> QED
  BY <1>5, <1>6, <1>7, <1>8, <1>9, <1>10 DEF Next, vars

\* What a step does to the work of a cluster: nothing, or it is gone, or marked
\* for deletion, or written for the mesh that is reconciled.
LEMMA WorkSteps ==
  ASSUME BaseInv, [Next]_vars, NEW c \in Cluster
  PROVE  \/ cacerts'[c] = cacerts[c]
         \/ cacerts'[c] = NoWork
         \/ /\ cacerts[c] # NoWork /\ cacerts'[c].dying
            /\ cacerts'[c].owner = cacerts[c].owner /\ cacerts'[c].ca = cacerts[c].ca
         \/ /\ pc = "cacerts" /\ EnsureCacerts(c) /\ secretC[At(c)] # NoSecret
            /\ cacerts'[c].owner = cur /\ cacerts'[c].ca = secretC[At(c)]
<1> DEFINE Goal == \/ cacerts'[c] = cacerts[c]
                   \/ cacerts'[c] = NoWork
                   \/ /\ cacerts[c] # NoWork /\ cacerts'[c].dying
                      /\ cacerts'[c].owner = cacerts[c].owner /\ cacerts'[c].ca = cacerts[c].ca
                   \/ /\ pc = "cacerts" /\ EnsureCacerts(c) /\ secretC[At(c)] # NoSecret
                      /\ cacerts'[c].owner = cur /\ cacerts'[c].ca = secretC[At(c)]
<1>1. ObjectTypeOK
  BY DEF BaseInv
<1>2. ASSUME NEW d \in Cluster, NEW x, PutWork(d, x)
      PROVE  cacerts'[c] = IF c = d THEN x ELSE cacerts[c]
  BY <1>1, <1>2 DEF ObjectTypeOK, PutWork
<1>3. CASE Worker
  <2>1. ASSUME \/ \E d \in Cluster : EnsureCert(d) \/ DeleteCert(d)
               \/ ListCerts \/ ListOwned \/ ListShared \/ Discovery \/ ReleaseMesh
        PROVE  Goal
    BY <2>1 DEF EnsureCert, DeleteCert, ListCerts, ListOwned, ListShared, Discovery,
       ReleaseMesh, ownVars, workVars
  <2>2. ASSUME NEW d \in Cluster, EnsureCacerts(d) PROVE Goal
    <3> DEFINE want == [owner |-> cur, ca |-> secretC[At(d)],
                        dying |-> cacerts[d] # NoWork /\ cacerts[d].dying]
    <3>1. pc = "cacerts" /\ (UNCHANGED cacerts \/ (PutWork(d, want) /\ secretC[At(d)] # NoSecret))
      BY <2>2 DEF EnsureCacerts
    <3>2. want.owner = cur /\ want.ca = secretC[At(d)]
      OBVIOUS
    <3> HIDE DEF want
    <3> QED
      BY <1>2, <2>2, <3>1, <3>2
  <2>3. ASSUME NEW d \in Cluster, DeleteWork(d) PROVE Goal
    <3> DEFINE x == [cacerts[d] EXCEPT !.dying = TRUE]
    <3>1. UNCHANGED cacerts \/ (PutWork(d, x) /\ cacerts[d] # NoWork)
      BY <2>3 DEF DeleteWork
    <3>2. cacerts[d] # NoWork => x.dying /\ x.owner = cacerts[d].owner /\ x.ca = cacerts[d].ca
      BY <1>1 DEF ObjectTypeOK, WorkRecord
    <3> HIDE DEF x
    <3> QED
      BY <1>2, <3>1, <3>2
  <2>4. Goal
    <3> HIDE DEF Goal
    <3> QED
      BY <1>3, <2>1, <2>2, <2>3 DEF Worker
  <2> QED
    BY <2>4
<1>4. CASE Outside
  <2>1. ASSUME NEW d \in Cluster, AgentFinish(d) PROVE Goal
    BY <1>2, <2>1 DEF AgentFinish
  <2>2. ASSUME NEW p \in Place, Issue(p) \/ Renew(p) \/ Collect(p) PROVE Goal
    BY <2>2 DEF Issue, Renew, Collect, workVars
  <2> QED
    BY <1>4, <2>1, <2>2 DEF Outside
<1>5. CASE \/ Delivery \/ FailMesh \/ Crash \/ UNCHANGED ownVars
           \/ \E m \in Mesh : TakeMesh(m)
  BY <1>5 DEF Delivery, SyncCert, SyncSecret, SyncWork, FailMesh, Crash, TakeMesh, Begin,
     BeginDeletion, ownVars, workVars
<1> QED
  BY <1>3, <1>4, <1>5 DEF Next, vars

LEMMA CaStep == CaInv /\ [Next]_vars => CaOfItsMesh'
<1> SUFFICES ASSUME CaInv, [Next]_vars, Apart, NEW c \in Cluster, cacerts'[c] # NoWork
             PROVE  cacerts'[c].ca.mesh = cacerts'[c].owner
  BY DEF CaOfItsMesh, Apart
<1>1. cacerts[c] # NoWork => cacerts[c].ca.mesh = cacerts[c].owner
  BY DEF CaInv, CaOfItsMesh, Apart
<1>2. ASSUME pc = "cacerts", secretC[At(c)] # NoSecret PROVE secretC[At(c)].mesh = cur
  <2>1. cur \in Mesh /\ At(c) \in Place /\ At(c)[1] = NsOf[cur]
    BY <1>2, AtWork DEF CaInv, At
  <2>2. NsOf[secretC[At(c)].mesh] = NsOf[cur]
    BY <1>2, <2>1 DEF CaInv, InNamespace
  <2>3. secretC[At(c)].mesh \in Mesh
    BY <1>2, <2>1 DEF CaInv, BaseInv, ObjectTypeOK, CA
  <2> QED
    BY <2>1, <2>2, <2>3 DEF Apart
<1> QED
  BY <1>1, <1>2, WorkSteps DEF CaInv

\* Under a mesh's name a cluster gets only CAs issued for that mesh, if no two
\* meshes share a namespace: Secrets are told apart by nothing else.
THEOREM CasStayWithTheirMesh == Spec => []CaOfItsMesh
<1>1. Init => CaInv
  <2> SUFFICES ASSUME Init PROVE CaInv
    OBVIOUS
  <2>1. InNamespace /\ CaOfItsMesh
    BY DEF Init, InNamespace, CaOfItsMesh
  <2> QED
    BY <2>1, BaseInit DEF CaInv
<1>2. CaInv /\ [Next]_vars => CaInv'
  BY BaseNext, InNamespaceStep, CaStep DEF CaInv
<1>3. CaInv => CaOfItsMesh
  BY DEF CaInv
<1> QED
  BY <1>1, <1>2, <1>3, PTL DEF Spec

-----------------------------------------------------------------------------
(* No CA without an owner *)

Held(c) == cacerts[c] # NoWork /\ ~cacerts[c].dying

OwnersPresent == \A c \in Cluster : Held(c) => Present(cacerts[c].owner)

\* A deletion loses none of the mesh's works on the way to the finalizer.
Thorough ==
  (pc # "idle" /\ Deletion) =>
    \A c \in Cluster : (Held(c) /\ cacerts[c].owner = cur) =>
      /\ pc = "deleteOwned" => c \in doomed
      /\ pc \notin {"listShared", "deleteShared", "release"}

OwnedInv == BaseInv /\ OwnersPresent /\ Thorough

\* A work that is held after a step was held before it, or is one of the mesh
\* that is reconciled.
LEMMA HeldSteps ==
  ASSUME BaseInv, [Next]_vars, NEW c \in Cluster, Held(c)'
  PROVE  \/ Held(c) /\ cacerts'[c].owner = cacerts[c].owner
         \/ pc = "cacerts" /\ EnsureCacerts(c) /\ cacerts'[c].owner = cur
<1>1. CASE cacerts'[c] = cacerts[c]
  BY <1>1 DEF Held
<1> QED
  BY <1>1, WorkSteps DEF Held

\* Finalizers are removed by a Release alone.
LEMMA AgeSteps ==
  ASSUME BaseInv, [Next]_vars, ~ReleaseMesh
  PROVE  MeshesAge
<1>1. FrameInv(Cleaning)
  BY DEF BaseInv
<1>2. UNCHANGED mesh => MeshesAge
  BY DEF MeshesAge, Present
<1>3. CASE Worker
  BY <1>2, <1>3 DEF Worker, EnsureCert, EnsureCacerts, DeleteCert, DeleteWork, ListCerts, ListOwned,
     ListShared, Discovery, outerVars, worldVars
<1>4. ASSUME NEW m \in Mesh, TakeMesh(m) PROVE MeshesAge
  <2>1. CASE TakeNothing(m) \/ TakeUnfinalized(m)
    BY <1>1, <2>1, TakeInv
  <2>2. CASE Begin(m) \/ BeginDeletion(m)
    BY <1>2, <2>2 DEF Begin, BeginDeletion, TakeLive, TakeDeleting, outerVars, worldVars
  <2> QED
    BY <1>4, <2>1, <2>2 DEF TakeMesh
<1>5. CASE FailMesh
  BY <1>2, <1>5 DEF FailMesh, Fail, worldVars
<1>6. CASE Delivery
  BY <1>1, <1>2, <1>6, DeliveryInv DEF Delivery, SyncCert, SyncSecret, SyncWork, frameVars,
     outerVars, worldVars
<1>7. CASE Outside
  BY <1>2, <1>7 DEF Outside, Issue, Renew, Collect, AgentFinish, frameVars, outerVars, worldVars
<1>8. CASE Crash
  BY <1>1, <1>8, CrashInv DEF Crash
<1>9. CASE FrameUsers
  BY <1>1, <1>9, UsersInv
<1>10. CASE UNCHANGED vars
  BY <1>2, <1>10 DEF vars, frameVars, outerVars, worldVars
<1> QED
  BY <1>3, <1>4, <1>5, <1>6, <1>7, <1>8, <1>9, <1>10 DEF Next

LEMMA OwnersStep == OwnedInv /\ [Next]_vars => OwnersPresent'
<1> SUFFICES ASSUME OwnedInv, [Next]_vars, NEW c \in Cluster, Held(c)'
             PROVE  Present(cacerts[c].owner)'
  BY DEF OwnersPresent
<1>1. BaseInv
  BY DEF OwnedInv
<1>2. cacerts'[c].owner \in Mesh
  BY <1>1, BaseNext DEF BaseInv, ObjectTypeOK, WorkRecord, Held
<1>3. CASE ReleaseMesh
  <2>1. pc = "release" /\ Deletion /\ \A m \in Mesh \ {cur} : mesh'[m] = mesh[m]
    BY <1>1, <1>3, ReleaseInv DEF ReleaseMesh, BaseInv
  <2>2. Held(c) /\ cacerts'[c] = cacerts[c]
    BY <1>3 DEF ReleaseMesh, ownVars, workVars, Held
  <2>3. cacerts[c].owner # cur
    BY <2>1, <2>2 DEF OwnedInv, Thorough
  <2> QED
    BY <1>2, <2>1, <2>2, <2>3 DEF OwnedInv, OwnersPresent, Present
<1>4. CASE ~ReleaseMesh
  <2>1. MeshesAge
    BY <1>1, <1>4, AgeSteps
  <2>2. Present(cacerts'[c].owner)
    <3>1. CASE Held(c) /\ cacerts'[c].owner = cacerts[c].owner
      BY <3>1 DEF OwnedInv, OwnersPresent
    <3>2. CASE pc = "cacerts" /\ cacerts'[c].owner = cur
      BY <1>1, <3>2 DEF BaseInv, FrameInv, Path, Cleaning
    <3> QED
      BY <1>1, <3>1, <3>2, HeldSteps
  <2>3. \A m \in Mesh : Present(m) => mesh'[m].phase \in {"live", "deleting"} /\ mesh'[m].fin
    BY <2>1 DEF MeshesAge, Present
  <2> QED
    BY <1>2, <2>2, <2>3 DEF Present
<1> QED
  BY <1>3, <1>4

LEMMA ThoroughStep == OwnedInv /\ [Next]_vars => Thorough'
<1> SUFFICES ASSUME OwnedInv, [Next]_vars, pc' # "idle", Deletion',
                    NEW c \in Cluster, Held(c)', cacerts'[c].owner = cur'
             PROVE  /\ pc' = "deleteOwned" => c \in doomed'
                    /\ pc' \notin {"listShared", "deleteShared", "release"}
  BY DEF Thorough
<1> DEFINE Goal == /\ pc' = "deleteOwned" => c \in doomed'
                   /\ pc' \notin {"listShared", "deleteShared", "release"}
<1>1. BaseInv
  BY DEF OwnedInv
<1>2. CASE UNCHANGED <<pc, jobVars>>
  <2>1. pc # "idle" /\ Deletion /\ UNCHANGED <<cur, doomed>>
    BY <1>2 DEF Deletion, jobVars
  <2>2. pc # "cacerts"
    BY <1>1, <2>1, AtWork DEF Cleaning
  <2>3. Held(c) /\ cacerts[c].owner = cur
    BY <1>1, <2>1, <2>2, HeldSteps
  <2> QED
    BY <1>2, <2>1, <2>3 DEF OwnedInv, Thorough
<1>3. CASE Worker
  <2>1. CASE ReleaseMesh \/ Discovery
    BY <2>1 DEF ReleaseMesh, Release, Discovery, Done, Requeue, Settle
  <2>2. CASE ~(ReleaseMesh \/ Discovery)
    <3>1. UNCHANGED <<cur, my, clusters>> /\ pc # "idle"
      BY <1>3, <2>2 DEF Worker, EnsureCert, EnsureCacerts, DeleteCert, DeleteWork, ListCerts, ListOwned,
         ListShared, GoTo, Spare, Doom, Advance, jobVars
    <3>2. Deletion /\ pc \in Cleaning \union {"release"} /\ clusters = {}
      BY <1>1, <3>1 DEF Deletion, BaseInv, FrameInv, Path
    <3>3. Held(c) /\ cacerts[c].owner = cur
      BY <1>1, <3>1, <3>2, HeldSteps DEF Cleaning
    <3>4. CASE ListOwned
      BY <3>2, <3>3, <3>4 DEF ListOwned, Doom, Held
    <3>5. CASE ListShared
      BY <3>1, <3>2, <3>3, <3>5 DEF ListShared, OwnedInv, Thorough
    <3>6. ASSUME NEW d \in Cluster, DeleteWork(d) PROVE Goal
      <4>1. pc = "deleteOwned" /\ c \in doomed
        BY <3>1, <3>2, <3>3, <3>6 DEF OwnedInv, Thorough, DeleteWork
      <4>2. c # d
        <5>1. SUFFICES ASSUME c = d PROVE FALSE
          OBVIOUS
        <5>2. PutWork(c, [cacerts[c] EXCEPT !.dying = TRUE]) /\ cacerts[c] \in WorkRecord
          BY <1>1, <3>3, <3>6, <5>1 DEF DeleteWork, Held, BaseInv, ObjectTypeOK
        <5>3. cacerts'[c] = [cacerts[c] EXCEPT !.dying = TRUE]
          BY <1>1, <5>2 DEF PutWork, BaseInv, ObjectTypeOK
        <5>4. cacerts'[c].dying
          BY <5>2, <5>3 DEF WorkRecord
        <5> QED
          BY <5>4 DEF Held
      <4>3. doomed' = doomed \ {d} /\ pc' = IF doomed' = {} THEN "listShared" ELSE "deleteOwned"
        BY <3>6, <4>1 DEF DeleteWork, Spare
      <4> QED
        BY <4>1, <4>2, <4>3
    <3> QED
      BY <1>3, <2>2, <3>2, <3>4, <3>5, <3>6
      DEF Worker, EnsureCert, EnsureCacerts, DeleteCert, ListCerts, Cleaning
  <2> QED
    BY <2>1, <2>2
<1>4. ASSUME NEW m \in Mesh, TakeMesh(m) PROVE Goal
  <2>1. CASE Begin(m)
    BY <2>1 DEF Begin, TakeLive, Deletion
  <2>2. CASE BeginDeletion(m)
    BY <2>2 DEF BeginDeletion, TakeDeleting
  <2>3. CASE TakeNothing(m) \/ TakeUnfinalized(m)
    BY <1>2, <2>3 DEF TakeNothing, TakeUnfinalized
  <2> QED
    BY <1>4, <2>1, <2>2, <2>3 DEF TakeMesh
<1>5. CASE FailMesh \/ Crash
  BY <1>5 DEF FailMesh, Fail, Requeue, Settle, Crash, FrameCrash
<1>6. CASE Delivery
  BY <1>1, <1>2, <1>6, DeliveryInv DEF Delivery, SyncCert, SyncSecret, SyncWork, frameVars, BaseInv
<1>7. CASE Outside
  BY <1>2, <1>7 DEF Outside, Issue, Renew, Collect, AgentFinish, frameVars
<1>8. CASE FrameUsers
  BY <1>1, <1>2, <1>8, UsersInv DEF BaseInv
<1>9. CASE UNCHANGED vars
  BY <1>2, <1>9 DEF vars, frameVars
<1> QED
  BY <1>3, <1>4, <1>5, <1>6, <1>7, <1>8, <1>9 DEF Next

\* A CA is on a cluster, and not being taken away, only while its mesh exists
\* and carries the finalizer: a deletion interrupted anywhere removes every
\* cacerts work of the mesh before the finalizer.
THEOREM CacertsAreOwned == Spec => []CacertsOwned
<1>1. Init => OwnedInv
  <2> SUFFICES ASSUME Init PROVE OwnedInv
    OBVIOUS
  <2>1. OwnersPresent /\ Thorough
    BY DEF Init, FrameInit, OwnersPresent, Thorough, Held
  <2> QED
    BY <2>1, BaseInit DEF OwnedInv
<1>2. OwnedInv /\ [Next]_vars => OwnedInv'
  BY BaseNext, OwnersStep, ThoroughStep DEF OwnedInv
<1>3. OwnedInv => CacertsOwned
  BY DEF OwnedInv, OwnersPresent, Held, Present, CacertsOwned
<1> QED
  BY <1>1, <1>2, <1>3, PTL DEF Spec

-----------------------------------------------------------------------------
(* Right at rest: what holds of a steady mesh, but for what is still to come *)

WithIssuer(m) == meshC[m].setting # NoIssuer

\* An object without an event is cached as it is.
ObjectCopies ==
  /\ \A p \in Place \ certEv : certC[p] = cert[p]
  /\ \A p \in Place \ secretEv : secretC[p] = secret[p]
  /\ \A p \in Place : certC[p] # NoCert => NsOf[certC[p].owner] = p[1]

JobSound == pc \in {"cert", "cacerts"} => todo \subseteq clusters

\* The worker has still to see to the Certificate, or to the work, of cluster c.
CertAhead(c) == pc \in {"cert", "cacerts"} /\ c \in todo /\ ~(pc = "cacerts" /\ Visiting(c))
WorkAhead(c) == pc \in {"cert", "cacerts"} /\ c \in todo

CertRight(m, c) == cert[<<NsOf[m], c>>] = [owner |-> m, issuer |-> meshC[m].setting]

CertsKept ==
  \A m \in Mesh : (Steady(m) /\ WithIssuer(m)) =>
    \A c \in SetMembers(SetOf[m]) :
      CertRight(m, c) \/ <<NsOf[m], c>> \in certEv \/ (Working(m) /\ CertAhead(c))

WorkRight(m, c) == cacerts[c] # NoWork /\ cacerts[c].owner = m /\ cacerts[c].ca = secretC[<<NsOf[m], c>>]

WorksKept ==
  \A m \in Mesh : (Steady(m) /\ WithIssuer(m)) =>
    \A c \in SetMembers(SetOf[m]) :
      \/ secretC[<<NsOf[m], c>>] = NoSecret \/ WorkRight(m, c)
      \/ c \in workEv \/ (Working(m) /\ WorkAhead(c))

\* An event tells of an object that is there or was, unless the mesh is gone for
\* good; what is to be deleted is known to the cache, or deleted already.
EventsTell ==
  /\ \A p \in certEv : cert[p] # NoCert \/ certC[p] # NoCert
                         \/ \A m \in Mesh : NsOf[m] = p[1] => mesh[m].phase = "gone"
  /\ pc = "deleteCerts" => \A c \in doomed : certC[At(c)] # NoCert \/ cert[At(c)] = NoCert

TrustedInv ==
  /\ BaseInv /\ Attention /\ InNamespace /\ ObjectCopies
  /\ Apart => EventsTell /\ CertsKept /\ WorksKept

\* The worker has still to look for what should not be there.
StrayCertAhead(c) ==
  \/ pc \in {"cert", "cacerts", "listCerts"}
  \/ pc = "deleteCerts" /\ c \in doomed

StrayWorkAhead(c) ==
  \/ pc \in {"cert", "cacerts", "listCerts", "deleteCerts", "listOwned", "deleteOwned", "listShared"}
  \/ pc = "deleteShared" /\ c \in doomed

NoStrayCerts ==
  \A p \in Place : cert[p] # NoCert =>
    LET m == cert[p].owner IN
    /\ mesh[m].phase # "none"
    /\ Steady(m) => \/ WithIssuer(m) /\ p[2] \in SetMembers(SetOf[m])
                    \/ p \in certEv \/ (Working(m) /\ StrayCertAhead(p[2]))

\* A steady mesh sees to the works of its whole set, its refused peers' included.
NoStrayWorks ==
  \A c \in Cluster : Held(c) =>
    \A m \in Mesh : (SetOf[m] = SetOf[cacerts[c].owner] /\ Steady(m)) =>
      c \in SetMembers(SetOf[m]) \/ (Working(m) /\ StrayWorkAhead(c))

\* While a mesh of its set is steady, the worker's list of clusters is up to date.
ListKnown ==
  (pc # "idle" /\ ~Deletion) =>
    \A m \in Mesh : (SetOf[m] = SetOf[cur] /\ Steady(m)) => clusters = SetMembers(SetOf[cur])

StrayInv ==
  /\ OwnedInv /\ Attention /\ InNamespace /\ ObjectCopies /\ JobSound /\ ListKnown
  /\ NoStrayCerts /\ NoStrayWorks

LEMMA AttentionNext ==
  ASSUME BaseInv, Attention, [Next]_vars
  PROVE  Attention' /\ \A m \in Mesh : Steady(m)' => Begin(m) \/ SameView(m)
<1> DEFINE Goal == Attention' /\ \A m \in Mesh : Steady(m)' => Begin(m) \/ SameView(m)
<1>1. FrameInv(Cleaning) /\ FrameTypeOK
  BY DEF BaseInv, FrameInv
<1>2. ASSUME Worker PROVE Goal
  <2>1. CASE ReleaseMesh
    BY <1>1, <2>1, ReleaseInv, AttentionRelease DEF ReleaseMesh
  <2>2. CASE Discovery
    <3>1. UNCHANGED outerVars /\ pc # "idle" /\ ~Deletion /\ Done
      BY <2>2, AtWork DEF Discovery, Cleaning
    <3> QED
      BY <3>1, AttentionEnd
  <2>3. CASE ~(ReleaseMesh \/ Discovery)
    <3>1. UNCHANGED outerVars /\ UNCHANGED <<queue, cur, my, clusters>> /\ pc # "idle" /\ pc' # "idle"
      BY <1>2, <2>3 DEF Worker, EnsureCert, EnsureCacerts, DeleteCert, DeleteWork, ListCerts, ListOwned,
         ListShared, GoTo, Spare, Doom, Advance, AfterCleanup, jobVars
    <3> QED
      BY <3>1, AttentionJob
  <2> QED
    BY <2>1, <2>2, <2>3
<1>3. ASSUME NEW o \in Mesh, TakeMesh(o) PROVE Goal
  <2>1. CASE Begin(o)
    <3>1. PICK each \in {"listCerts", "cert"} : TakeLive(o, each, "listCerts")
      BY <2>1 DEF Begin
    <3> QED
      BY <2>1, <3>1, AttentionTakeLive
  <2>2. CASE BeginDeletion(o)
    BY <2>2, AttentionTakeDeleting DEF BeginDeletion
  <2>3. CASE TakeNothing(o) \/ TakeUnfinalized(o)
    BY <1>1, <2>3, AttentionTake
  <2> QED
    BY <1>3, <2>1, <2>2, <2>3 DEF TakeMesh
<1>4. ASSUME FailMesh PROVE Goal
  BY <1>4, AttentionFail DEF FailMesh
<1>5. ASSUME Delivery PROVE Goal
  <2>1. CASE FrameDelivery
    BY <1>1, <2>1, AttentionDelivery
  <2>2. CASE ~FrameDelivery
    <3>1. UNCHANGED <<worldVars, cacheVars, eventVars, pc, jobVars>> /\ queue \subseteq queue'
      BY <1>5, <2>2 DEF Delivery, SyncCert, SyncSecret, SyncWork, outerVars
    <3> QED
      BY <3>1, AttentionQuiet
  <2> QED
    BY <2>1, <2>2
<1>6. ASSUME Outside \/ UNCHANGED vars PROVE Goal
  <2>1. UNCHANGED <<worldVars, cacheVars, eventVars, pc, jobVars>> /\ queue = queue'
    BY <1>6 DEF Outside, Issue, Renew, Collect, AgentFinish, frameVars, outerVars, vars
  <2> QED
    BY <2>1, AttentionQuiet
<1>7. ASSUME Crash PROVE Goal
  BY <1>1, <1>7, AttentionCrash DEF Crash
<1>8. ASSUME FrameUsers PROVE Goal
  BY <1>1, <1>8, AttentionUsers
<1> HIDE DEF Goal
<1>9. Goal
  BY <1>2, <1>3, <1>4, <1>5, <1>6, <1>7, <1>8 DEF Next
<1> QED
  BY <1>9 DEF Goal

\* Nobody but the worker touches its job.
LEMMA JobSteps ==
  ASSUME BaseInv, [Next]_vars
  PROVE  \/ Worker \/ FailMesh \/ Crash
         \/ \E m \in Mesh : Begin(m) \/ BeginDeletion(m)
         \/ UNCHANGED <<pc, jobVars>>
<1>1. FrameInv(Cleaning)
  BY DEF BaseInv
<1>2. ASSUME NEW m \in Mesh, TakeMesh(m), ~(Begin(m) \/ BeginDeletion(m)) PROVE UNCHANGED <<pc, jobVars>>
  BY <1>1, <1>2, TakeInv DEF TakeMesh
<1>3. CASE Delivery
  BY <1>1, <1>3, DeliveryInv DEF Delivery, SyncCert, SyncSecret, SyncWork
<1>4. CASE Outside
  BY <1>4 DEF Outside, Issue, Renew, Collect, AgentFinish, frameVars
<1>5. CASE FrameUsers
  BY <1>1, <1>5, UsersInv
<1>6. CASE UNCHANGED vars
  BY <1>6 DEF vars, frameVars
<1> QED
  BY <1>2, <1>3, <1>4, <1>5, <1>6 DEF Next

\* Who writes a Certificate, a Secret, a work, or their copies.
LEMMA ObjectSteps ==
  ASSUME BaseInv, [Next]_vars
  PROVE  /\ \/ UNCHANGED certVars \/ Crash
            \/ \E p \in Place : SyncCert(p) \/ (Collect(p) /\ PutCert(p, NoCert) /\ UNCHANGED certC)
            \/ \E c \in Cluster : \/ EnsureCert(c) /\ PutCert(At(c), WantedCert) /\ UNCHANGED certC
                                  \/ DeleteCert(c) /\ PutCert(At(c), NoCert) /\ UNCHANGED certC /\ cert[At(c)] # NoCert
         /\ \/ UNCHANGED secretVars \/ Crash
            \/ \E p \in Place : SyncSecret(p) \/ \E x : PutSecret(p, x) /\ UNCHANGED secretC
         /\ \/ UNCHANGED workVars \/ Crash
            \/ \E c \in Cluster : SyncWork(c) \/ \E x : PutWork(c, x)
<1>1. CASE Worker
  BY <1>1 DEF Worker, EnsureCert, EnsureCacerts, DeleteCert, DeleteWork, ListCerts, ListOwned,
     ListShared, Discovery, ReleaseMesh, ownVars, certVars, workVars
<1>2. CASE Outside
  BY <1>2 DEF Outside, Issue, Renew, Collect, AgentFinish, certVars, secretVars
<1>3. CASE Delivery
  BY <1>3 DEF Delivery, SyncCert, SyncSecret, SyncWork, ownVars, certVars, secretVars, workVars
<1>4. CASE UNCHANGED ownVars
  BY <1>4 DEF ownVars
<1>5. CASE FailMesh \/ \E m \in Mesh : TakeMesh(m)
  BY <1>4, <1>5 DEF FailMesh, TakeMesh, Begin, BeginDeletion
<1> QED
  BY <1>1, <1>2, <1>3, <1>4, <1>5 DEF Next, vars

LEMMA CopiesStep ==
  ASSUME BaseInv, InNamespace, ObjectCopies, [Next]_vars
  PROVE  ObjectCopies'
<1>1. ObjectTypeOK
  BY DEF BaseInv
<1>2. ASSUME NEW p \in Place, p \notin certEv' PROVE certC'[p] = cert'[p]
  <2>1. CASE UNCHANGED certVars \/ Crash
    BY <1>2, <2>1 DEF ObjectCopies, certVars, Crash
  <2>2. ASSUME NEW q \in Place, SyncCert(q) PROVE certC'[p] = cert'[p]
    BY <1>1, <1>2, <2>2 DEF SyncCert, ObjectTypeOK, ObjectCopies
  <2>3. ASSUME NEW q \in Place, NEW x, PutCert(q, x), UNCHANGED certC PROVE certC'[p] = cert'[p]
    BY <1>1, <1>2, <2>3 DEF PutCert, ObjectTypeOK, ObjectCopies
  <2>4. \A c \in Cluster : EnsureCert(c) \/ DeleteCert(c) => At(c) \in Place
    BY AtWork DEF EnsureCert, DeleteCert
  <2> QED
    BY <2>1, <2>2, <2>3, <2>4, ObjectSteps
<1>3. ASSUME NEW p \in Place, p \notin secretEv' PROVE secretC'[p] = secret'[p]
  <2>1. CASE UNCHANGED secretVars \/ Crash
    BY <1>3, <2>1 DEF ObjectCopies, secretVars, Crash
  <2>2. ASSUME NEW q \in Place, SyncSecret(q) PROVE secretC'[p] = secret'[p]
    BY <1>1, <1>3, <2>2 DEF SyncSecret, ObjectTypeOK, ObjectCopies
  <2>3. ASSUME NEW q \in Place, NEW x, PutSecret(q, x), UNCHANGED secretC PROVE secretC'[p] = secret'[p]
    BY <1>1, <1>3, <2>3 DEF PutSecret, ObjectTypeOK, ObjectCopies
  <2> QED
    BY <2>1, <2>2, <2>3, ObjectSteps
<1>4. ASSUME NEW p \in Place, certC'[p] # NoCert PROVE NsOf[certC'[p].owner] = p[1]
  <2>1. certC'[p] = certC[p] \/ certC'[p] = cert[p]
    BY <1>1, ObjectSteps DEF certVars, Crash, SyncCert, ObjectTypeOK
  <2> QED
    BY <1>4, <2>1 DEF ObjectCopies, InNamespace
<1> QED
  BY <1>2, <1>3, <1>4 DEF ObjectCopies

\* What a step does to the phase of a mesh.
LEMMA PhaseSteps ==
  ASSUME BaseInv, [Next]_vars, NEW m \in Mesh
  PROVE  PhaseStep(m) \/ mesh'[m].phase = "gone"
<1>1. FrameTypeOK /\ FrameInv(Cleaning)
  BY DEF BaseInv, FrameInv
<1>2. UNCHANGED mesh => PhaseStep(m)
  BY DEF PhaseStep
<1>3. CASE Worker
  <2>1. CASE ReleaseMesh
    <3>1. UNCHANGED mesh \/ mesh' = [mesh EXCEPT ![cur] = Gone]
      BY <2>1 DEF ReleaseMesh, Release, WriteMesh
    <3> QED
      BY <1>1, <1>2, <3>1, BlankTypes DEF FrameTypeOK, PhaseStep
  <2>2. CASE ~ReleaseMesh
    BY <1>2, <1>3, <2>2 DEF Worker, EnsureCert, EnsureCacerts, DeleteCert, DeleteWork, ListCerts, ListOwned,
       ListShared, Discovery, outerVars, worldVars
  <2> QED
    BY <2>1, <2>2
<1>4. ASSUME NEW o \in Mesh, TakeMesh(o) PROVE PhaseStep(m)
  <2>1. CASE TakeNothing(o) \/ TakeUnfinalized(o)
    BY <1>1, <2>1, PhaseTake
  <2>2. CASE Begin(o) \/ BeginDeletion(o)
    BY <1>2, <2>2 DEF Begin, BeginDeletion, TakeLive, TakeDeleting, outerVars, worldVars
  <2> QED
    BY <1>4, <2>1, <2>2 DEF TakeMesh
<1>5. CASE FailMesh \/ Crash
  BY <1>2, <1>5 DEF FailMesh, Fail, Crash, FrameCrash, worldVars
<1>6. CASE Delivery
  BY <1>2, <1>6 DEF Delivery, FrameDelivery, SyncMesh, SyncCluster, SyncSet, SyncCert, SyncSecret, SyncWork,
     frameVars, outerVars, worldVars
<1>7. CASE Outside
  BY <1>2, <1>7 DEF Outside, Issue, Renew, Collect, AgentFinish, frameVars, outerVars, worldVars
<1>8. CASE FrameUsers
  BY <1>1, <1>8, PhaseUsers
<1>9. CASE UNCHANGED vars
  BY <1>2, <1>9 DEF vars, frameVars, outerVars, worldVars
<1> QED
  BY <1>3, <1>4, <1>5, <1>6, <1>7, <1>8, <1>9 DEF Next

-----------------------------------------------------------------------------
(* Every mesh its CA *)

LEMMA EventsStep ==
  ASSUME BaseInv, InNamespace, Apart, EventsTell, [Next]_vars
  PROVE  EventsTell'
<1>1. /\ ObjectTypeOK /\ (pc # "idle" => cur \in Mesh)
      /\ \A c \in Cluster : pc # "idle" => At(c) \in Place
  BY AtWork DEF BaseInv
<1>2. ASSUME NEW p \in Place, \A m \in Mesh : NsOf[m] = p[1] => mesh[m].phase = "gone"
      PROVE  \A m \in Mesh : NsOf[m] = p[1] => mesh'[m].phase = "gone"
  BY <1>2, PhaseSteps DEF PhaseStep
<1>3. ASSUME NEW p \in certEv'
      PROVE  cert'[p] # NoCert \/ certC'[p] # NoCert \/ \A m \in Mesh : NsOf[m] = p[1] => mesh'[m].phase = "gone"
  <2>1. p \in Place
    BY BaseNext DEF BaseInv, ObjectTypeOK
  <2>2. CASE p \in certEv /\ cert'[p] = cert[p] /\ certC'[p] = certC[p]
    BY <1>2, <2>1, <2>2 DEF EventsTell
  <2>3. CASE UNCHANGED certVars \/ Crash
    BY <1>3, <2>2, <2>3 DEF certVars, Crash
  <2>4. ASSUME NEW q \in Place, SyncCert(q) PROVE p \in certEv /\ cert'[p] = cert[p] /\ certC'[p] = certC[p]
    BY <1>1, <1>3, <2>1, <2>4 DEF SyncCert, ObjectTypeOK
  <2>5. ASSUME NEW q \in Place, NEW x, PutCert(q, x), p # q, UNCHANGED certC
        PROVE  p \in certEv /\ cert'[p] = cert[p] /\ certC'[p] = certC[p]
    BY <1>1, <1>3, <2>1, <2>5 DEF PutCert, ObjectTypeOK
  <2>6. ASSUME NEW c \in Cluster, EnsureCert(c), PutCert(At(c), WantedCert), p = At(c) PROVE cert'[p] # NoCert
    <3>1. WantedCert \in CertRecord
      BY <2>6, AtWork DEF EnsureCert, WantedCert, CertRecord
    <3> QED
      BY <1>1, <2>1, <2>6, <3>1, TrustAssumption DEF PutCert, ObjectTypeOK
  <2>7. ASSUME NEW c \in Cluster, DeleteCert(c), UNCHANGED certC, cert[At(c)] # NoCert, p = At(c)
        PROVE  certC'[p] # NoCert
    BY <2>7 DEF DeleteCert, EventsTell
  <2>8. ASSUME Collect(p) PROVE \A m \in Mesh : NsOf[m] = p[1] => mesh'[m].phase = "gone"
    <3>1. cert[p].owner \in Mesh /\ NsOf[cert[p].owner] = p[1]
      BY <1>1, <2>1, <2>8 DEF Collect, ObjectTypeOK, CertRecord, InNamespace
    <3> QED
      BY <2>8, <3>1 DEF Collect, Apart, frameVars, outerVars, worldVars
  <2>9. \A c \in Cluster : EnsureCert(c) \/ DeleteCert(c) => At(c) \in Place
    BY <1>1 DEF EnsureCert, DeleteCert
  <2> QED
    BY <2>2, <2>3, <2>4, <2>5, <2>6, <2>7, <2>8, <2>9, ObjectSteps
<1>4. ASSUME pc' = "deleteCerts", NEW c \in doomed'
      PROVE  certC'[At(c)'] # NoCert \/ cert'[At(c)'] = NoCert
  <2>1. CASE ListCerts
    BY <2>1 DEF ListCerts, Doom, ownVars, certVars, At
  <2>2. CASE pc = "deleteCerts" /\ c \in doomed /\ cur' = cur
    <3>1. /\ c \in Cluster /\ At(c) \in Place /\ At(c)' = At(c)
          /\ certC[At(c)] # NoCert \/ cert[At(c)] = NoCert
      BY <1>1, <2>2 DEF At, EventsTell, BaseInv, FrameInv, FrameTypeOK
    <3>2. \A d \in Cluster : ~EnsureCert(d)
      BY <2>2 DEF EnsureCert
    <3>3. ASSUME NEW q \in Place, PutCert(q, NoCert), UNCHANGED certC
          PROVE  certC'[At(c)] # NoCert \/ cert'[At(c)] = NoCert
      BY <1>1, <3>1, <3>3 DEF PutCert, ObjectTypeOK
    <3>4. ASSUME NEW q \in Place, SyncCert(q) PROVE certC'[At(c)] # NoCert \/ cert'[At(c)] = NoCert
      BY <1>1, <3>1, <3>4 DEF SyncCert, ObjectTypeOK
    <3>5. \A d \in Cluster : At(d) \in Place
      BY <1>1, <2>2
    <3> QED
      BY <1>4, <3>1, <3>2, <3>3, <3>4, <3>5, ObjectSteps DEF certVars, Crash, FrameCrash, Settle
  <2>3. ListCerts \/ (pc = "deleteCerts" /\ c \in doomed /\ cur' = cur)
    <3>1. CASE Worker
      BY <1>4, <3>1 DEF Worker, EnsureCert, EnsureCacerts, DeleteCert, DeleteWork, ListOwned, ListShared,
         Discovery, ReleaseMesh, Release, Done, Requeue, Settle, GoTo, Spare, Doom, Advance, AfterCleanup
    <3>2. CASE FailMesh \/ Crash
      BY <1>4, <3>2 DEF FailMesh, Fail, Requeue, Crash, FrameCrash, Settle
    <3>3. CASE \E m \in Mesh : Begin(m) \/ BeginDeletion(m)
      BY <1>4, <3>3 DEF Begin, TakeLive, BeginDeletion, TakeDeleting
    <3>4. CASE UNCHANGED <<pc, jobVars>>
      BY <1>4, <3>4 DEF jobVars
    <3> QED
      BY <3>1, <3>2, <3>3, <3>4, JobSteps
  <2> QED
    BY <2>1, <2>2, <2>3
<1> QED
  BY <1>3, <1>4 DEF EventsTell, At

\* What else a steady mesh loses track of, its worker or an event restores.
LEMMA CertsKeptStep ==
  ASSUME TrustedInv, Apart, [Next]_vars
  PROVE  CertsKept'
<1> SUFFICES ASSUME NEW m \in Mesh, Steady(m)', WithIssuer(m)', NEW c \in SetMembers(SetOf[m])',
                    <<NsOf[m], c>> \notin certEv', ~(Working(m)' /\ CertAhead(c)')
             PROVE  CertRight(m, c)'
  BY DEF CertsKept
<1> DEFINE p == <<NsOf[m], c>>
<1>1. /\ BaseInv /\ Attention /\ InNamespace /\ ObjectCopies /\ EventsTell /\ ObjectTypeOK /\ FrameTypeOK
      /\ c \in Cluster /\ p \in Place /\ m \notin queue'
  BY FrameAssumption DEF TrustedInv, BaseInv, FrameInv, SetMembers, Place, Steady
<1>2. SameView(m) /\ WithIssuer(m) /\ c \in SetMembers(SetOf[m])
  <2>1. CASE Begin(m)
    <3>1. WithIssuer(m) /\ c \in clusters' /\ c \in todo'
      BY <2>1 DEF Begin, TakeLive, WithIssuer, SetMembers, outerVars, cacheVars
    <3> QED
      BY <2>1, <3>1 DEF Begin, TakeLive, WithIssuer, Working, CertAhead
  <2> QED
    BY <1>1, <2>1, AttentionNext DEF SameView, WithIssuer
<1>3. ~Crash
  BY <1>1, AttentionCrash DEF Crash
<1>4. p \notin certEv /\ ~SyncCert(p)
  <2>1. Present(m) /\ mesh[m].phase # "gone"
    BY <1>1, <1>2 DEF SameView, Steady, BaseInv, FrameInv, CacheTrails, Present
  <2>2. ~SyncCert(p)
    <3> SUFFICES ASSUME SyncCert(p) PROVE FALSE
      OBVIOUS
    <3>1. cert[p] # NoCert \/ certC[p] # NoCert
      BY <1>1, <2>1 DEF SyncCert, EventsTell
    <3>2. /\ cert[p] # NoCert => cert[p].owner \in Mesh /\ NsOf[cert[p].owner] = NsOf[m]
          /\ certC[p] # NoCert => certC[p].owner \in Mesh /\ NsOf[certC[p].owner] = NsOf[m]
      BY <1>1 DEF InNamespace, ObjectCopies, ObjectTypeOK, CertRecord
    <3>3. m \in OwnersOf(cert[p]) \union OwnersOf(certC[p])
      BY <3>1, <3>2 DEF Apart, OwnersOf
    <3> QED
      BY <1>1, <3>3 DEF SyncCert
  <2> QED
    BY <1>1, <1>3, <2>2, ObjectSteps DEF certVars, SyncCert, PutCert
<1>5. cert'[p] = cert[p]
  <2>1. ASSUME NEW q \in Place, NEW x, PutCert(q, x) PROVE cert'[p] = cert[p]
    BY <1>1, <2>1 DEF PutCert, ObjectTypeOK
  <2>2. \A d \in Cluster : EnsureCert(d) \/ DeleteCert(d) => At(d) \in Place
    BY <1>1, AtWork DEF EnsureCert, DeleteCert
  <2> QED
    BY <1>1, <1>3, <2>1, <2>2, ObjectSteps DEF certVars, SyncCert
<1>6. CertRight(m, c) => CertRight(m, c)'
  BY <1>2, <1>5 DEF CertRight, SameView
<1>7. ASSUME Working(m), CertAhead(c) PROVE CertRight(m, c)
  <2>1. m = cur /\ pc \in {"cert", "cacerts"} /\ c \in todo /\ ~FailMesh
    BY <1>1, <1>7 DEF Working, CertAhead, FailMesh, Fail, Requeue
  <2>2. my = meshC[m] /\ ~Deletion
    BY <1>1, <1>2, <2>1 DEF Attention, JobCurrent, SameView, Steady, Deletion
  <2>3. Worker
    BY <1>1, <1>3, <1>7, <2>1, JobSteps DEF Begin, TakeLive, BeginDeletion, TakeDeleting, Working, CertAhead,
       jobVars, Visiting
  <2>4. ASSUME NEW d \in Cluster, EnsureCert(d) PROVE CertRight(m, c)
    <3>1. pc = "cert" /\ Visiting(d) /\ pc' = "cacerts" /\ UNCHANGED <<cur, todo>>
      BY <2>4 DEF EnsureCert, GoTo, jobVars
    <3>2. c = d
      <4>1. Visiting(c)
        BY <1>7, <2>1, <3>1 DEF Working, CertAhead, Visiting
      <4>2. ClusterRank[c] \in Nat /\ ClusterRank[d] \in Nat /\ ClusterRank[c] <= ClusterRank[d]
            /\ ClusterRank[d] <= ClusterRank[c]
        BY <1>1, <3>1, <4>1, FrameAssumption DEF Visiting
      <4> QED
        BY <1>1, <4>2, FrameAssumption
    <3>3. At(c) = p
      BY <2>1 DEF At
    <3>4. ~PutCert(p, WantedCert)
      BY DEF PutCert
    <3>5. cert[p] = WantedCert
      BY <2>4, <3>2, <3>3, <3>4 DEF EnsureCert
    <3> QED
      BY <2>1, <2>2, <3>5 DEF WantedCert, CertRight
  <2>5. ASSUME NEW d \in Cluster, EnsureCacerts(d) PROVE FALSE
    <3>1. pc = "cacerts" /\ Visiting(d) /\ todo' = todo \ {d} /\ cur' = cur
          /\ pc' = IF todo' = {} THEN "listCerts" ELSE "cert"
      BY <2>5 DEF EnsureCacerts, Advance
    <3>2. c # d
      BY <1>7, <3>1 DEF CertAhead
    <3> QED
      BY <1>7, <2>1, <3>1, <3>2 DEF Working, CertAhead
  <2> QED
    BY <2>1, <2>3, <2>4, <2>5 DEF Worker, DeleteCert, DeleteWork, ListCerts, ListOwned, ListShared, Discovery,
       ReleaseMesh, Release
<1> QED
  BY <1>2, <1>4, <1>6, <1>7 DEF TrustedInv, CertsKept, SameView

LEMMA WorksKeptStep ==
  ASSUME TrustedInv, Apart, [Next]_vars
  PROVE  WorksKept'
<1> SUFFICES ASSUME NEW m \in Mesh, Steady(m)', WithIssuer(m)', NEW c \in SetMembers(SetOf[m])',
                    c \notin workEv', secretC'[<<NsOf[m], c>>] # NoSecret, ~(Working(m)' /\ WorkAhead(c)')
             PROVE  WorkRight(m, c)'
  BY DEF WorksKept
<1> DEFINE p == <<NsOf[m], c>>
<1>1. /\ BaseInv /\ Attention /\ InNamespace /\ ObjectTypeOK /\ SecretsStay /\ FrameTypeOK
      /\ c \in Cluster /\ p \in Place /\ m \notin queue'
  BY FrameAssumption DEF TrustedInv, BaseInv, FrameInv, SetMembers, Place, Steady
<1>2. SameView(m) /\ WithIssuer(m) /\ c \in SetMembers(SetOf[m])
  <2>1. CASE Begin(m)
    <3>1. WithIssuer(m) /\ c \in clusters' /\ c \in todo'
      BY <2>1 DEF Begin, TakeLive, WithIssuer, SetMembers, outerVars, cacheVars
    <3> QED
      BY <2>1, <3>1 DEF Begin, TakeLive, WithIssuer, Working, WorkAhead
  <2> QED
    BY <1>1, <2>1, AttentionNext DEF SameView, WithIssuer
<1>3. ~Crash
  BY <1>1, AttentionCrash DEF Crash
<1>4. secretC'[p] = secretC[p]
  <2>1. ASSUME NEW q \in Place, SyncSecret(q) PROVE secretC'[p] = secretC[p]
    <3>1. CASE q = p
      <4>1. secret[p].mesh \in Mesh /\ NsOf[secret[p].mesh] = NsOf[m]
        BY <1>1, <2>1, <3>1 DEF SyncSecret, SecretsStay, InNamespace, ObjectTypeOK, CA
      <4> QED
        BY <1>1, <2>1, <3>1, <4>1 DEF Apart, SyncSecret
    <3>2. CASE q # p
      BY <1>1, <2>1, <3>2 DEF SyncSecret, ObjectTypeOK
    <3> QED
      BY <3>1, <3>2
  <2> QED
    BY <1>1, <1>3, <2>1, ObjectSteps DEF secretVars
<1>5. c \notin workEv
  <2>1. m \in Targeting(clusterC[c].set)
    BY <1>2 DEF SameView, Steady, SetMembers, Targeting
  <2> QED
    BY <1>1, <1>3, <2>1, ObjectSteps DEF workVars, SyncWork, PutWork
<1>6. cacerts'[c] = cacerts[c]
  <2>1. ASSUME NEW d, NEW x, PutWork(d, x) PROVE cacerts'[c] = cacerts[c]
    BY <1>1, <2>1 DEF PutWork, ObjectTypeOK
  <2> QED
    BY <1>1, <1>3, <2>1, ObjectSteps DEF workVars, SyncWork
<1>7. WorkRight(m, c) => WorkRight(m, c)'
  BY <1>4, <1>6 DEF WorkRight
<1>8. ASSUME Working(m), WorkAhead(c) PROVE WorkRight(m, c)
  <2>1. m = cur /\ pc \in {"cert", "cacerts"} /\ c \in todo /\ ~FailMesh
    BY <1>1, <1>8 DEF Working, WorkAhead, FailMesh, Fail, Requeue
  <2>2. Worker
    BY <1>1, <1>3, <1>8, <2>1, JobSteps DEF Begin, TakeLive, BeginDeletion, TakeDeleting, Working, WorkAhead,
       jobVars
  <2>3. ~\E d \in Cluster : EnsureCert(d)
    BY <1>8, <2>1 DEF EnsureCert, GoTo, Working, WorkAhead, jobVars
  <2>4. ASSUME NEW d \in Cluster, EnsureCacerts(d) PROVE WorkRight(m, c)
    <3>1. todo' = todo \ {d} /\ cur' = cur /\ pc' = IF todo' = {} THEN "listCerts" ELSE "cert"
      BY <2>4 DEF EnsureCacerts, Advance
    <3>2. c = d
      BY <1>8, <2>1, <3>1 DEF Working, WorkAhead
    <3> DEFINE want == [owner |-> cur, ca |-> secretC[At(d)], dying |-> cacerts[d] # NoWork /\ cacerts[d].dying]
    <3>3. At(d) = p /\ secretC[At(d)] # NoSecret
      BY <1>4, <2>1, <3>2 DEF At
    <3>4. ~PutWork(d, want)
      BY <3>2 DEF PutWork
    <3>5. cacerts[c] = want
      BY <2>4, <3>2, <3>3, <3>4 DEF EnsureCacerts
    <3>6. want.owner = m /\ want.ca = secretC[p]
      BY <2>1, <3>3
    <3>7. cacerts[c] # NoWork
      <4>1. want \in WorkRecord
        <5>1. secretC[At(d)] \in CA /\ cur \in Mesh
          BY <1>1, <2>1, <3>3 DEF ObjectTypeOK
        <5>2. (cacerts[d] # NoWork /\ cacerts[d].dying) \in BOOLEAN
          OBVIOUS
        <5> QED
          BY <5>1, <5>2 DEF WorkRecord
      <4> HIDE DEF want
      <4> QED
        BY <3>5, <4>1, TrustAssumption
    <3> HIDE DEF want
    <3> QED
      BY <3>5, <3>6, <3>7 DEF WorkRight
  <2> QED
    BY <2>1, <2>2, <2>3, <2>4 DEF Worker, DeleteCert, DeleteWork, ListCerts, ListOwned, ListShared, Discovery,
       ReleaseMesh, Release
<1> QED
  BY <1>2, <1>4, <1>5, <1>7, <1>8 DEF TrustedInv, WorksKept, SameView

LEMMA TrustedNext == TrustedInv /\ [Next]_vars => TrustedInv'
BY BaseNext, AttentionNext, InNamespaceStep, CopiesStep, EventsStep, CertsKeptStep, WorksKeptStep
DEF TrustedInv, Apart

LEMMA TrustedInit == Init => TrustedInv
<1> SUFFICES ASSUME Init PROVE TrustedInv
  OBVIOUS
<1>1. InNamespace /\ ObjectCopies /\ EventsTell
  BY DEF Init, FrameInit, InNamespace, ObjectCopies, EventsTell
<1>2. \A m \in Mesh : ~Steady(m)
  BY BlankTypes DEF Init, FrameInit, Steady, Blank
<1> QED
  BY <1>1, <1>2, BaseInit, AttentionInit DEF Init, TrustedInv, CertsKept, WorksKept

\* At rest every accepted mesh with an issuer has its CA, of the issuer it names
\* now and as last renewed, on each of its clusters, if no two meshes share a
\* namespace - however many share a set: who overwrites or deletes what a mesh has
\* made leaves an event that queues the mesh.
THEOREM TrustedAtRest == Spec => []RestTrusted
<1>1. TrustedInv => RestTrusted
  <2> SUFFICES ASSUME TrustedInv, AtRest, Apart, NEW m \in Mesh, Accepted(m), mesh[m].setting # NoIssuer,
                      NEW c \in ClustersOf(SetOf[m])
               PROVE  Trusted(m, c)
    BY DEF RestTrusted, Apart
  <2> DEFINE p == <<NsOf[m], c>>
  <2>1. /\ Steady(m) /\ ~Working(m) /\ meshC[m] = mesh[m] /\ c \in SetMembers(SetOf[m])
        /\ c \in Cluster /\ p \in Place /\ WithIssuer(m)
    BY RestView, FrameAssumption
    DEF TrustedInv, BaseInv, FrameInv, AtRest, ClustersOf, Place, WithIssuer
  <2>2. CertRight(m, c)
    BY <2>1 DEF TrustedInv, CertsKept, AtRest
  <2>3. cert[p] # NoCert /\ cert[p].owner = m /\ cert[p].issuer = mesh[m].setting
    <3>1. mesh[m].setting \in Setting
      BY DEF TrustedInv, BaseInv, FrameInv, FrameTypeOK, MeshRecord
    <3>2. cert[p] \in CertRecord
      BY <2>1, <2>2, <3>1 DEF CertRight, CertRecord
    <3> QED
      BY <2>1, <2>2, <3>2, TrustAssumption DEF CertRight
  <2>4. secret[p] # NoSecret /\ secret[p].mesh = m /\ secret[p].issuer = mesh[m].setting /\ secretC[p] = secret[p]
    BY <2>1, <2>3 DEF AtRest, Suits, TrustedInv, ObjectCopies
  <2>5. WorkRight(m, c)
    BY <2>1, <2>4 DEF TrustedInv, WorksKept, AtRest
  <2>6. cacerts[c] \in WorkRecord /\ cacerts[c].owner = m /\ cacerts[c].ca = secret[p] /\ ~cacerts[c].dying
    BY <2>1, <2>4, <2>5 DEF WorkRight, TrustedInv, BaseInv, ObjectTypeOK, AtRest
  <2>7. cacerts[c] = [owner |-> m, ca |-> secret[p], dying |-> FALSE]
    BY <2>6 DEF WorkRecord
  <2> QED
    BY <2>4, <2>7 DEF Trusted
<1> QED
  BY <1>1, TrustedInit, TrustedNext, PTL DEF Spec

-----------------------------------------------------------------------------
(* Nothing where it should not be *)

LEMMA JobSoundStep == ASSUME BaseInv, JobSound, [Next]_vars PROVE JobSound'
<1>1. CASE Worker
  BY <1>1 DEF Worker, EnsureCert, EnsureCacerts, DeleteCert, DeleteWork, ListCerts, ListOwned,
     ListShared, Discovery, ReleaseMesh, Release, Done, Requeue, Settle, GoTo, Spare, Doom, Advance,
     AfterCleanup, JobSound, jobVars
<1>2. CASE FailMesh \/ Crash
  BY <1>2 DEF FailMesh, Fail, Requeue, Crash, FrameCrash, Settle, JobSound
<1>3. CASE \E m \in Mesh : Begin(m) \/ BeginDeletion(m)
  BY <1>3 DEF Begin, TakeLive, BeginDeletion, TakeDeleting, JobSound
<1>4. CASE UNCHANGED <<pc, jobVars>>
  BY <1>4 DEF JobSound, jobVars
<1> QED
  BY <1>1, <1>2, <1>3, <1>4, JobSteps

LEMMA NoStrayCertsStep == ASSUME StrayInv, [Next]_vars PROVE NoStrayCerts'
<1> SUFFICES ASSUME NEW p \in Place, cert'[p] # NoCert, NEW m, m = cert'[p].owner
             PROVE  /\ mesh'[m].phase # "none"
                    /\ Steady(m)' => \/ WithIssuer(m)' /\ p[2] \in SetMembers(SetOf[m])'
                                     \/ p \in certEv' \/ (Working(m)' /\ StrayCertAhead(p[2])')
  BY DEF NoStrayCerts
<1>1. /\ BaseInv /\ Attention /\ InNamespace /\ ObjectCopies /\ ObjectTypeOK /\ FrameTypeOK
      /\ m \in Mesh
  BY BaseNext DEF StrayInv, OwnedInv, BaseInv, FrameInv, ObjectTypeOK, CertRecord
<1>2. \/ cert'[p] = cert[p] \/ cert'[p] = NoCert
      \/ (\E c \in Cluster : EnsureCert(c)) /\ m = cur /\ p \in certEv'
  <2>1. ASSUME NEW q \in Place, NEW x, PutCert(q, x)
        PROVE  cert'[p] = cert[p] \/ (cert'[p] = x /\ p \in certEv')
    BY <1>1, <2>1 DEF PutCert, ObjectTypeOK
  <2>2. \A c \in Cluster : EnsureCert(c) \/ DeleteCert(c) => At(c) \in Place
    BY <1>1, AtWork DEF EnsureCert, DeleteCert
  <2>3. WantedCert.owner = cur
    BY DEF WantedCert
  <2> QED
    BY <1>1, <2>1, <2>2, <2>3, ObjectSteps DEF certVars, SyncCert, Crash
<1>3. mesh'[m].phase # "none"
  <2>1. mesh[m].phase # "none"
    <3>1. CASE cert'[p] = cert[p]
      BY <3>1 DEF StrayInv, NoStrayCerts
    <3>2. CASE (\E c \in Cluster : EnsureCert(c)) /\ m = cur
      BY <1>1, <3>2 DEF EnsureCert, BaseInv, FrameInv, Path, Cleaning, Present
    <3> QED
      BY <1>2, <3>1, <3>2
  <2> QED
    BY <1>1, <2>1, PhaseSteps DEF PhaseStep
<1>4. ASSUME Steady(m)', p \notin certEv', ~(Working(m)' /\ StrayCertAhead(p[2])')
      PROVE  WithIssuer(m)' /\ p[2] \in SetMembers(SetOf[m])'
  <2>1. cert'[p] = cert[p] /\ cert[p] # NoCert /\ m = cert[p].owner /\ m \notin queue'
    BY <1>2, <1>4 DEF Steady
  <2>2. SameView(m)
    <3>1. ~Begin(m)
      BY <1>4 DEF Begin, TakeLive, Working, StrayCertAhead
    <3> QED
      BY <1>1, <1>4, <3>1, AttentionNext
  <2>3. ~Crash
    BY <1>1, <1>4, AttentionCrash DEF Crash
  <2>4. p \notin certEv
    <3>1. ~SyncCert(p)
      BY <1>1, <2>1 DEF SyncCert, OwnersOf
    <3> QED
      BY <1>1, <1>4, <2>3, <3>1, ObjectSteps DEF certVars, SyncCert, PutCert
  <2>5. \/ WithIssuer(m) /\ p[2] \in SetMembers(SetOf[m])
        \/ Working(m) /\ StrayCertAhead(p[2])
    BY <2>1, <2>2, <2>4 DEF StrayInv, NoStrayCerts, SameView
  <2>6. WithIssuer(m)' = WithIssuer(m) /\ SetMembers(SetOf[m])' = SetMembers(SetOf[m])
    BY <2>2 DEF SameView, WithIssuer
  <2>7. ASSUME Working(m), StrayCertAhead(p[2]) PROVE WithIssuer(m) /\ p[2] \in SetMembers(SetOf[m])
    <3>1. m = cur /\ pc \in {"cert", "cacerts", "listCerts", "deleteCerts"} /\ ~FailMesh
      BY <2>1, <2>7 DEF Working, StrayCertAhead, FailMesh, Fail, Requeue
    <3>2. my = meshC[m] /\ clusters = SetMembers(SetOf[m])
      BY <1>1, <2>2, <3>1 DEF Attention, JobCurrent, SameView, Steady, Deletion
    <3>3. Worker
      BY <1>1, <1>4, <2>3, <2>7, <3>1, JobSteps DEF Begin, TakeLive, BeginDeletion, TakeDeleting, Working,
         StrayCertAhead, jobVars
    <3>4. At(p[2]) = p /\ p[2] \in Cluster
      <4>1. PICK t \in Tenant, c \in Cluster : p = <<t, c>>
        BY DEF Place
      <4>2. t = NsOf[m]
        BY <2>1, <4>1, <1>1 DEF InNamespace
      <4> QED
        BY <3>1, <4>1, <4>2 DEF At
    <3>5. CASE ListCerts
      <4>1. p[2] \notin doomed'
        BY <1>4, <3>1, <3>5 DEF ListCerts, Doom, Working, StrayCertAhead
      <4>2. certC[p] = cert[p]
        BY <1>1, <2>4 DEF ObjectCopies
      <4>3. p[2] \in CertsToKeep
        BY <2>1, <3>1, <3>4, <3>5, <4>1, <4>2 DEF ListCerts, Doom
      <4> QED
        BY <3>2, <4>3 DEF CertsToKeep, WithIssuer
    <3>6. ASSUME NEW d \in Cluster, DeleteCert(d) PROVE FALSE
      <4>1. pc = "deleteCerts" /\ doomed' = doomed \ {d} /\ cur' = cur
            /\ pc' = IF doomed' = {} THEN "listOwned" ELSE "deleteCerts"
        BY <3>6 DEF DeleteCert, Spare
      <4>2. p[2] = d
        BY <1>4, <2>7, <4>1 DEF Working, StrayCertAhead
      <4>3. PutCert(p, NoCert)
        BY <2>1, <3>4, <3>6, <4>2 DEF DeleteCert
      <4> QED
        BY <1>4, <4>3 DEF PutCert
    <3>7. CASE \E d \in Cluster : EnsureCert(d) \/ EnsureCacerts(d)
      BY <1>4, <3>1, <3>7 DEF EnsureCert, EnsureCacerts, GoTo, Advance, Working, StrayCertAhead, jobVars
    <3> QED
      BY <3>1, <3>3, <3>5, <3>6, <3>7 DEF Worker, DeleteWork, ListOwned, ListShared, Discovery,
         ReleaseMesh, Release
  <2> QED
    BY <2>5, <2>6, <2>7
<1> QED
  BY <1>3, <1>4

LEMMA ListKnownStep == ASSUME BaseInv, Attention, ListKnown, [Next]_vars PROVE ListKnown'
<1> SUFFICES ASSUME pc' # "idle", ~Deletion', NEW m \in Mesh, SetOf[m] = SetOf[cur'], Steady(m)'
             PROVE  clusters' = SetMembers(SetOf[cur])'
  BY DEF ListKnown
<1>1. ASSUME pc # "idle", cur' = cur, my' = my, clusters' = clusters
      PROVE  clusters' = SetMembers(SetOf[cur])'
  <2>1. SameView(m)
    BY <1>1, AttentionNext DEF Begin, TakeLive
  <2> QED
    BY <1>1, <2>1 DEF ListKnown, SameView, Deletion
<1>2. CASE Worker
  <2>1. pc # "idle" /\ cur' = cur /\ my' = my /\ clusters' = clusters
    BY <1>2 DEF Worker, EnsureCert, EnsureCacerts, DeleteCert, DeleteWork, ListCerts, ListOwned,
       ListShared, Discovery, ReleaseMesh, Release, Done, Requeue, Settle, GoTo, Spare, Doom, Advance, jobVars
  <2> QED
    BY <1>1, <2>1
<1>3. CASE FailMesh \/ Crash
  BY <1>3 DEF FailMesh, Fail, Requeue, Crash, FrameCrash, Settle
<1>4. ASSUME NEW o \in Mesh, Begin(o) PROVE clusters' = SetMembers(SetOf[cur])'
  BY <1>4 DEF Begin, TakeLive, SetMembers, outerVars, cacheVars
<1>5. ~\E o \in Mesh : BeginDeletion(o)
  BY DEF BeginDeletion, TakeDeleting, Deletion
<1>6. CASE UNCHANGED <<pc, jobVars>>
  BY <1>1, <1>6 DEF jobVars
<1> QED
  BY <1>2, <1>3, <1>4, <1>5, <1>6, JobSteps

LEMMA NoStrayWorksStep == ASSUME StrayInv, [Next]_vars PROVE NoStrayWorks'
<1> SUFFICES ASSUME NEW c \in Cluster, Held(c)', NEW m \in Mesh, SetOf[m] = SetOf[cacerts'[c].owner],
                    Steady(m)', ~(Working(m)' /\ StrayWorkAhead(c)')
             PROVE  c \in SetMembers(SetOf[m])'
  BY DEF NoStrayWorks
<1>1. BaseInv /\ Attention /\ FrameTypeOK /\ ObjectTypeOK /\ m \notin queue'
  BY DEF StrayInv, OwnedInv, BaseInv, FrameInv, Steady
<1>2. SameView(m)
  <2>1. ~Begin(m)
    BY DEF Begin, TakeLive, Working, StrayWorkAhead
  <2> QED
    BY <1>1, <2>1, AttentionNext
<1>3. ~Crash
  BY <1>1, AttentionCrash DEF Crash
<1>4. CASE pc = "cacerts" /\ EnsureCacerts(c) /\ cacerts'[c].owner = cur
  <2>1. c \in clusters /\ ~Deletion
    BY <1>1, <1>4, AtWork DEF StrayInv, JobSound, EnsureCacerts, Visiting, Cleaning
  <2>2. clusters = SetMembers(SetOf[m])
    BY <1>2, <1>4, <2>1 DEF StrayInv, ListKnown, SameView
  <2> QED
    BY <1>2, <2>1, <2>2 DEF SameView
<1>5. CASE Held(c) /\ cacerts'[c].owner = cacerts[c].owner
  <2>1. c \in SetMembers(SetOf[m]) \/ (Working(m) /\ StrayWorkAhead(c))
    BY <1>2, <1>5 DEF StrayInv, NoStrayWorks, SameView
  <2>2. ASSUME Working(m), StrayWorkAhead(c) PROVE c \in SetMembers(SetOf[m])
    <3>1. /\ m = cur /\ ~FailMesh
          /\ pc \in {"cert", "cacerts", "listCerts", "deleteCerts", "listOwned", "deleteOwned",
                     "listShared", "deleteShared"}
      BY <1>1, <2>2 DEF Working, StrayWorkAhead, FailMesh, Fail, Requeue
    <3>2. Worker
      BY <1>1, <1>3, <2>2, <3>1, JobSteps DEF Begin, TakeLive, BeginDeletion, TakeDeleting, Working,
         StrayWorkAhead, jobVars
    <3>3. CASE ListShared
      <4>1. c \notin doomed'
        BY <3>1, <3>3 DEF ListShared, Doom, Working, StrayWorkAhead
      <4>2. c \in Needed
        BY <1>5, <3>1, <3>3, <4>1 DEF ListShared, Doom, Held
      <4> QED
        BY <3>1, <4>2 DEF Needed
    <3>4. ASSUME NEW d \in Cluster, DeleteWork(d) PROVE FALSE
      <4>1. /\ pc = "deleteShared" /\ doomed' = doomed \ {d} /\ cur' = cur
            /\ doomed' # {} => pc' = "deleteShared"
        BY <3>1, <3>4 DEF DeleteWork, Spare, Working, StrayWorkAhead
      <4>2. c = d
        BY <2>2, <4>1 DEF Working, StrayWorkAhead
      <4>3. PutWork(c, [cacerts[c] EXCEPT !.dying = TRUE]) /\ cacerts[c] \in WorkRecord
        BY <1>1, <1>5, <3>4, <4>2 DEF DeleteWork, Held, ObjectTypeOK
      <4>4. cacerts'[c] = [cacerts[c] EXCEPT !.dying = TRUE]
        BY <1>1, <4>3 DEF PutWork, ObjectTypeOK
      <4>5. cacerts'[c].dying
        BY <4>3, <4>4 DEF WorkRecord
      <4> QED
        BY <4>5 DEF Held
    <3>5. ~\E d \in Cluster : EnsureCert(d) \/ EnsureCacerts(d) \/ DeleteCert(d)
      BY <3>1 DEF EnsureCert, EnsureCacerts, DeleteCert, GoTo, Spare, Advance, Working, StrayWorkAhead,
         jobVars
    <3>6. ~ListCerts /\ ~ListOwned
      BY <3>1 DEF ListCerts, ListOwned, Doom, Working, StrayWorkAhead
    <3> QED
      BY <3>1, <3>2, <3>3, <3>4, <3>5, <3>6 DEF Worker, Discovery, ReleaseMesh, Release
  <2> QED
    BY <1>2, <2>1, <2>2 DEF SameView
<1> QED
  BY <1>1, <1>4, <1>5, HeldSteps

LEMMA StrayInit == Init => StrayInv
<1> SUFFICES ASSUME Init PROVE StrayInv
  OBVIOUS
<1>1. OwnersPresent /\ Thorough /\ InNamespace /\ ObjectCopies /\ JobSound /\ ListKnown /\ NoStrayCerts
      /\ NoStrayWorks
  BY DEF Init, FrameInit, OwnersPresent, Thorough, Held, InNamespace, ObjectCopies, JobSound, ListKnown,
     NoStrayCerts, NoStrayWorks
<1> QED
  BY <1>1, BaseInit, AttentionInit DEF Init, StrayInv, OwnedInv

LEMMA StrayNext == StrayInv /\ [Next]_vars => StrayInv'
BY BaseNext, OwnersStep, ThoroughStep, AttentionNext, InNamespaceStep, CopiesStep, JobSoundStep,
   ListKnownStep, NoStrayCertsStep, NoStrayWorksStep
DEF StrayInv, OwnedInv

\* At rest every Certificate belongs to a live mesh, and if that mesh is accepted,
\* it names an issuer and has the cluster, whatever shares a namespace: a reconcile
\* looks for strays after it has made what it needs, and a Certificate that its
\* cache did not show has an event.  Of a refused mesh nothing more is said: its
\* reconcile ends at validate, before any clean-up.
THEOREM CertificatesAtRest == Spec => []RestCertificates
<1>1. ASSUME StrayInv, AtRest, NEW p \in Place, cert[p] # NoCert, NEW m, m = cert[p].owner
      PROVE  /\ mesh[m].phase = "live"
             /\ Accepted(m) => mesh[m].setting # NoIssuer /\ p[2] \in ClustersOf(SetOf[m])
  <2>1. FrameTypeOK /\ Attention /\ FrameAtRest /\ ObjectTypeOK /\ certEv = {}
    BY <1>1 DEF StrayInv, OwnedInv, BaseInv, FrameInv, AtRest
  <2>2. m \in Mesh /\ mesh[m].phase # "gone" /\ mesh[m].phase # "none"
    BY <1>1, <2>1 DEF ObjectTypeOK, CertRecord, AtRest, StrayInv, NoStrayCerts
  <2>3. mesh[m].phase = "live"
    BY <2>1, <2>2, RestView DEF FrameTypeOK, MeshRecord
  <2>4. Accepted(m) => WithIssuer(m) /\ p[2] \in SetMembers(SetOf[m])
    BY <1>1, <2>1, <2>2, RestView DEF StrayInv, NoStrayCerts
  <2> QED
    BY <2>1, <2>2, <2>3, <2>4, RestView DEF WithIssuer
<1>2. StrayInv => RestCertificates
  BY <1>1 DEF RestCertificates
<1> QED
  BY <1>2, StrayInit, StrayNext, PTL DEF Spec

\* At rest every cacerts work belongs to a live mesh, and as long as any mesh of
\* that mesh's set is accepted, it is on a cluster of the set, however many share
\* one: the accepted mesh is queued by whatever changes the set, and its last
\* clean-up is by set.  If every mesh of the set is refused nothing more is said.
THEOREM CacertsAtRest == Spec => []RestCacerts
<1>1. ASSUME StrayInv, AtRest, NEW c \in Cluster, cacerts[c] # NoWork, NEW o, o = cacerts[c].owner
      PROVE  /\ mesh[o].phase = "live"
             /\ (\E m \in Mesh : Accepted(m) /\ SetOf[m] = SetOf[o]) => c \in ClustersOf(SetOf[o])
  <2>1. FrameTypeOK /\ Attention /\ FrameAtRest /\ ObjectTypeOK
    BY <1>1 DEF StrayInv, OwnedInv, BaseInv, FrameInv, AtRest
  <2>2. Held(c) /\ o \in Mesh
    BY <1>1, <2>1 DEF AtRest, Held, ObjectTypeOK, WorkRecord
  <2>3. mesh[o].phase = "live"
    BY <1>1, <2>1, <2>2, RestView DEF StrayInv, OwnedInv, OwnersPresent, Present
  <2>4. ASSUME NEW m \in Mesh, Accepted(m), SetOf[m] = SetOf[o] PROVE c \in ClustersOf(SetOf[o])
    <3>1. Steady(m) /\ ~Working(m) /\ ClustersOf(SetOf[m]) = SetMembers(SetOf[m])
      BY <2>1, <2>4, RestView
    <3>2. c \in SetMembers(SetOf[m])
      BY <1>1, <2>2, <2>4, <3>1 DEF StrayInv, NoStrayWorks
    <3> QED
      BY <2>4, <3>1, <3>2
  <2> QED
    BY <2>3, <2>4
<1>2. StrayInv => RestCacerts
  BY <1>1 DEF RestCacerts
<1> QED
  BY <1>2, StrayInit, StrayNext, PTL DEF Spec
=============================================================================
