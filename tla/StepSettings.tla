---------------------------- MODULE StepSettings ----------------------------
(***************************************************************************)
(* What a request's settings are and where each lands: the steps of a task *)
(* (plan.py), the steps a setting applies to (capabilities.py), and the    *)
(* routing of a request to the steps (set_overrides.py).                   *)
(*                                                                         *)
(* A request is a function on slots.  A slot is a key, and "flat" or the   *)
(* step it is given for.                                                   *)
(***************************************************************************)
EXTENDS Integers, Resolution

CONSTANT None  \* no value

\* _TASK_STEPS
TaskSteps ==
  LET Phonon(first) == <<first, "ph", "q2r", "phonon_dos", "dispersion">>
  IN  [ scf_single_point |-> <<"scf">>, relax |-> <<"relax">>, vc_relax |-> <<"vc-relax">>,
        dos |-> <<"scf", "nscf", "dos">>, band |-> <<"scf", "bands", "bands_x">>,
        phonon |-> Phonon("scf"), relax_phonon |-> Phonon("relax"),
        vc_relax_phonon |-> Phonon("vc-relax") ]

Tasks == DOMAIN TaskSteps
Steps(task) == {TaskSteps[task][i] : i \in DOMAIN TaskSteps[task]}
FirstStep(task) == TaskSteps[task][1]

PwSteps == {"scf", "nscf", "bands", "relax", "vc-relax"}
MeshSteps == {"scf", "nscf", "relax", "vc-relax"}
RelaxSteps == {"relax", "vc-relax"}
ScfLike == {"scf", "relax", "vc-relax"}

\* Settings the task has once: the analysis, the system and the job.
AnalysisKeys == {"is_metal", "is_magnetic", "needs_correlation"}
SystemKeys ==
  { "nelec", "spin_polarized", "spin_orbit_coupling", "tot_magnetization",
    "magnetic_ordering", "starting_magnetization", "use_vdw", "isolation",
    "hubbard_projectors", "hubbard_needs_correlation", "u_by_element", "pseudo_table_id",
    "functional", "ecutwfc", "ecutrho" }
JobKeys == {"partition", "nodes", "ntasks", "walltime_h"}
TaskKeys == AnalysisKeys \cup SystemKeys \cup JobKeys

\* Settings a step has, and the steps that have them.
KpointKeys == {"nbnd", "extra_bands"}
MeshKeys == {"occupations", "k_grid", "k_index", "k_distance"}
ParallelKeys == {"npool", "ndiag"}
RelaxKeys == {"ion_dynamics", "fix_bottom_layers", "forc_conv_thr"}
CellKeys == {"cell_dofree"}
PathKeys == {"k_path_distance"}
DosKeys == {"ngauss", "broadening"}
PhKeys == {"q_grid", "q_distance"}
StepKeys ==
  KpointKeys \cup MeshKeys \cup ParallelKeys \cup RelaxKeys \cup CellKeys
    \cup PathKeys \cup DosKeys \cup PhKeys

StepsOf(key) ==
  CASE key \in KpointKeys \cup ParallelKeys -> PwSteps
    [] key \in MeshKeys -> MeshSteps
    [] key \in RelaxKeys -> RelaxSteps
    [] key \in CellKeys -> {"vc-relax"}
    [] key \in PathKeys -> {"bands", "dispersion"}
    [] key \in DosKeys -> {"dos"}
    [] key \in PhKeys -> {"ph"}

(* The values of the settings, to which their HumanInput validates them:   *)
(* electrons and moments in halves, an ordering by number (see Spin), a    *)
(* path by its points.                                                     *)

\* CellDofree and IonDynamics
CellDofrees ==
  { "all", "a", "b", "c", "fixa", "fixb", "fixc", "x", "y", "z", "xy", "xz", "yz", "xyz", "shape",
    "2Dxy", "2Dshape", "epitaxial_ab", "epitaxial_ac", "epitaxial_bc" }
IonDynamics == {"bfgs", "damp", "fire"}

ValidSetting(key, value) ==
  CASE key \in { "nelec", "nbnd", "npool", "ndiag", "nodes", "ntasks", "walltime_h",
                 "fix_bottom_layers", "k_path_distance" } -> value \in Nat \ {0}
    [] key \in {"tot_magnetization", "extra_bands", "magnetic_ordering"} -> value \in Int
    [] key \in { "spin_polarized", "spin_orbit_coupling", "use_vdw", "needs_correlation",
                 "hubbard_needs_correlation" } -> value \in BOOLEAN
    [] key = "starting_magnetization" ->
         value \in [by : {"element", "label"}, moment : Int, balanced : BOOLEAN]
    [] key = "ion_dynamics" -> value \in IonDynamics
    [] key = "cell_dofree" -> value \in CellDofrees
    [] OTHER -> TRUE

Applies(key, task) == key \in TaskKeys \/ StepsOf(key) \cap Steps(task) # {}

-----------------------------------------------------------------------------
(* build_overrides.                                                        *)

\* _check_step
StepFits(key, step, task) ==
  /\ step \in Steps(task)
  /\ key \notin TaskKeys
  /\ step \in StepsOf(key)

\* _flat_landing: the steps the key applies to and that do not set it.
FlatLanding(request, key, task) ==
  {step \in StepsOf(key) \cap Steps(task) : <<step, key>> \notin DOMAIN request}

\* No setting of the request is refused.
Accepted(request, task) ==
  \A slot \in DOMAIN request :
    IF slot[1] # "flat" THEN StepFits(slot[2], slot[1], task)
    ELSE slot[2] \notin TaskKeys => FlatLanding(request, slot[2], task) # {}

\* The value of a setting the task has once.
TaskValue(request, key) ==
  IF <<"flat", key>> \in DOMAIN request THEN request[<<"flat", key>>] ELSE None

\* The value of a setting in a step: its own, or the flat one that lands there.
StepValue(request, step, key) ==
  IF step \notin StepsOf(key) THEN None
  ELSE IF <<step, key>> \in DOMAIN request THEN request[<<step, key>>]
  ELSE IF <<"flat", key>> \in DOMAIN request THEN request[<<"flat", key>>]
  ELSE None
=============================================================================
