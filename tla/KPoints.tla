------------------------------- MODULE KPoints -------------------------------
(***************************************************************************)
(* What a step is sampled on: a mesh, with an FFT grid and for a phonon    *)
(* run a q-mesh (src/src/goldilocks_core/service/_step_kpoints.py), or a   *)
(* path through high-symmetry points (service/_step_kpath.py).             *)
(***************************************************************************)
EXTENDS Sampling, KPath

VARIABLE sampled  \* what the step is sampled on: "mesh" or "path"

vars == <<sampled, meshVars, pathVars>>

NoMesh == cell = None /\ survey = None /\ asked = None /\ advice = None

NoPath ==
  /\ vacuum = None /\ layer = None /\ pc = "none" /\ rows = None
  /\ left = <<>> /\ fed = <<>> /\ branches = <<>>

Init ==
  \/ sampled = "mesh" /\ MeshInit /\ NoPath
  \/ sampled = "path" /\ PathInit /\ NoMesh

Next ==
  \/ sampled = "mesh" /\ MeshNext /\ UNCHANGED <<sampled, pathVars>>
  \/ sampled = "path" /\ PathNext /\ UNCHANGED <<sampled, meshVars>>

Spec == Init /\ [][Next]_vars

\* An advisor that was called goes on until it returns.
FairSpec ==
  Spec /\ WF_vars(sampled = "path" /\ MakePath /\ UNCHANGED <<sampled, meshVars>>)
==============================================================================
