----------------------------- MODULE MeshRefinement -----------------------------
(***************************************************************************)
(* The controller, among everything MeshSystem lets happen, is a           *)
(* MeshTenancy: a mesh holds a spot while a namespace work there bears its *)
(* label and is not being deleted.                                         *)
(***************************************************************************)
EXTENDS MeshProperties

PhaseOf == [m \in Mesh |-> mesh[m].phase]

Holder(w) == IF w = NoWork THEN NoMesh ELSE IF w.dying THEN NoMesh ELSE w.owner
GroundOf == [p \in Spot |-> Holder(work[p])]

Tenancy == INSTANCE MeshTenancy WITH phase <- PhaseOf, ground <- GroundOf

\* With current ManifestWork caches, every step of the system is one of
\* MeshTenancy's, or none: in particular the finalizer of a mesh is removed,
\* or a mesh without one deleted, only when no namespace of it is left on any
\* cluster, and no reconcile that acts on old copies puts one back later.
ImplementsTenancy == Tenancy!Spec
=============================================================================
