------------------------------ MODULE MeshTenancy ------------------------------
(***************************************************************************)
(* What a mesh may count on, with nothing said of how: it is created, may  *)
(* take ground on clusters - spots that bear its control plane namespace - *)
(* while it is there, and is gone only when it has left all of it.         *)
(* Between the two it may lose ground, to somebody who deletes it or to    *)
(* another mesh with the same namespace, but nobody who is gone, or was    *)
(* never there, holds any.                                                 *)
(***************************************************************************)
CONSTANTS Mesh, Spot, CpNs, NoMesh

VARIABLES
  phase,  \* of each mesh
  ground  \* the mesh that holds each spot, or NoMesh

Init ==
  /\ phase \in [Mesh -> {"none", "live"}]
  /\ ground = [p \in Spot |-> NoMesh]

Create(m) ==
  /\ phase[m] = "none"
  /\ phase' = [phase EXCEPT ![m] = "live"]
  /\ UNCHANGED ground

Retire(m) ==
  /\ phase[m] = "live"
  /\ phase' = [phase EXCEPT ![m] = "deleting"]
  /\ UNCHANGED ground

Leave(m) ==
  /\ phase[m] \in {"live", "deleting"}
  /\ \A p \in Spot : ground[p] # m
  /\ phase' = [phase EXCEPT ![m] = "gone"]
  /\ UNCHANGED ground

Occupy(m, p) ==
  /\ phase[m] \in {"live", "deleting"} /\ p[2] = CpNs[m]
  /\ ground' = [ground EXCEPT ![p] = m]
  /\ UNCHANGED phase

Vacate(p) ==
  /\ ground' = [ground EXCEPT ![p] = NoMesh]
  /\ UNCHANGED phase

Next ==
  \/ \E m \in Mesh : Create(m) \/ Retire(m) \/ Leave(m)
  \/ \E p \in Spot : Vacate(p) \/ \E m \in Mesh : Occupy(m, p)

Spec == Init /\ [][Next]_<<phase, ground>>
=============================================================================
