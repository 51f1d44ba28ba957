---------------------------- MODULE MCWorkspace ----------------------------
(* One or two structures, two tasks; a general setting that applies to one  *)
(* task only and a structure-specific one.                                  *)
EXTENDS Workspace

CONSTANTS scf, dos, general, magnetic

MCAppliesTo == [k \in OverrideKeys |-> IF k = general THEN {dos} ELSE Tasks]
=============================================================================
