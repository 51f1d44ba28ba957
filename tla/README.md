# goldilocks-core in TLA+

goldilocks-core advises Quantum ESPRESSO calculations for a crystal structure: it
analyses the structure, resolves every setting of the requested task from
heuristics, models and the user's own overrides, checks the result, and writes a
bundle of input files with a job script. The same core answers on the command
line, over HTTP and MCP, and to the Workbench, a single-page application. This
directory holds TLA+ models of its parts, the TLC runs that check them on small
instances, and proofs of their main properties.

Paths below are relative to the repository; `worker_process.py` and the like are in
`src/goldilocks_core/`.

## The system

| Component | State it keeps | Operations | Interacts with |
|---|---|---|---|
| Worker process (`worker_process.py`) | the retained child, its lock; pipes and child interpreters; the ranking slot of `advisors/magnetic_ordering_ml.py` | `run`, `run_in_fresh_process`; the child's `_serve` loop | threads of the server call it; children answer over pipes; the system may end any of them |
| Workbench store (`web/src/workspace/`) | the snapshot: capabilities, open structure, draft, revision, outcomes of `/explain` and `/run`, the operation in flight | the actions of `dispatch`; the auto effects of `useAutoCompute.ts`; response handlers | the user, the HTTP server (responses in any order), React effects |
| Asset store (`assets/store.py`) | one directory, with a manifest, per asset version; a lock file | `install`, `verify`, `status`; `InstalledAsset.read_bytes` | other processes on the same disk; downloads; readiness; pseudopotential selection |
| Downloads (`assets/download.py`) | a staging file, written by a pool of threads | whole attempts, each a stream or ranged requests; verification | servers on the network, the store |
| Readiness (`server/readiness.py`) | a report and the file stats it was made from, under a lock | `check` | the store's files, `GET /ready` |
| Service pipeline (`service/`) | none between calls | `advise`, `check`, `generate` per task | settings, analysis, advisors, checks, generation |
| Settings (`set_overrides.py`, `capabilities.py`, `resolution.py`) | none; one record per advised field | routing of a request to steps; resolved, unavailable and blocked fields | pipeline, advisors |
| Analysis (`analysis/`) and advisors (`advisors/`) | none (model caches) | one decision each, in a fixed order | one another's records, ML models, the asset store |
| Meshes, grids and paths (`kmesh.py`, `pw_symmetry.py`, `pw_fft.py`, `advisors/k_path.py`) | none; loops over lattices and tables | ladders of meshes, symmetry, FFT grids, band paths | advisors |
| Checks (`checks.py`) | none | rules over the advised records, each finding with its remedies | pipeline; the Workbench offers the remedies |
| Job script (`submission/slurm.py`) | on the cluster: files of a run, the step it resumes from | steps, exit checks, resume, timer | SLURM, Quantum ESPRESSO |
| Bundle (`bundle.py`) | a directory or an archive, and its completion marker | `publish`, `is_complete` | other publishers, consumers, the file system |
| HTTP, MCP and command line (`server/`, `cli/`) | none but readiness | one handler per document | all of the above |

What is hard in it: requests and responses that cross (Workbench), processes that
share a directory or a pipe and may end at any step (store, worker, bundle), values
read before a wait and used after it (readiness, store), a failure handler that
undoes half of what was done (bundle), threads that write one file while its
attempt is given up (downloads), and the long chain of decisions in the pipeline: a
setting may be unavailable, blocked, overridden or of no use to the task, every rule
reads what several advisors made of several settings, and a user who follows the
remedy of one finding meets the next. `PROJECT.json` lists these hazards with the line where each bites.

## The modules

### Worker process

`WorkerProcess` models `WorkerProcess.run`, `run_in_fresh_process`, `_Child` and
`_serve`. A *call* is one invocation; a child is named by the call that started it.
`pc[c]` is where the call's frame stands: `waiting` for the lock or the slot,
`holding` it, `sending`, `receiving`, then `storing` the child (`run`) or `closing`
it (a ranking). `mutex` is the lock and the slot, `retained` is
`WorkerProcess._child`, `child` the frame's local variable, `requests` and `replies`
are the pipes, `torn` says that the reply pipe ends inside a message. Every
statement that changes what another thread or process can see is an action;
`InterruptCall`, `InterruptElsewhere`, `InterruptStart`, `Crash` and `HostGone` may
come at every step. An `UnpicklingError`, an `OSError` of a torn reply and
`WorkerDied` are distinct outcomes.

`CallServer` is what callers are promised: queued, executed at most once and never
beside another call of the queue, answered with that execution or failed.
`ImplementsCallServer` is the refinement (`Phase` maps a call to its phase).

The properties: `OwnAnswer`, `CleanWhenKept`, `OneAtATime`, `NoWorkLeftBehind`
(safety); `EveryCallEnds`, `NoOrphans` (if the functions called terminate) and
`RankingsNotHeldUp` (even if the worker's do not). `FairSpec` assumes that a thread
or child that can go on does, and that rankings' functions return; nothing forces a
call, an interrupt or a crash. There is no timeout in the code, so the worker's
functions are not assumed to return except where a property says so.

### Workbench store

`Workspace` models `workspace.ts` with `pipelineStatus.ts` and `useAutoCompute.ts`:
an action of `dispatch` up to its first `await`, and the handling of a response,
each run in one turn of the event loop and are one step. `flight` holds the requests
that were not answered yet, `active` is `activeOperation`. Drafts are abstracted to
the task and, per override key, the structure that was open when it was set, which
is what carrying a draft over and leaving out overrides of another task depend on.
A response may arrive, fail, be dropped because its request no longer owns the
operation, or be cut (an error that is not a `CoreFailure`).

`BundlePipeline` is what the user sees: empty, computing, blocked, generating, ready
or failed; `ImplementsBundlePipeline` is the refinement, through `BundleStatus`.
The magnetic-orderings panel of the store is not modelled.

`FairSpec` assumes that the core answers every request and that React runs the
effects that are due. `SettlesOnceUserStops` is about behaviors in which the user
stops and no response is cut.

### Asset store

`AssetStore` models one asset version on a disk that several processes share.
Installers (`install`) take the file lock, verify, prepare in staging, remove the
old installation entry by entry and move the new one in. Readers (`verify_spec`,
`read_bytes`) take no lock: each of their file operations is a step. Contents are
values and a manifest is named by the preparation that wrote it. Installers fail, are
interrupted or killed at every step; `Damage` changes or deletes files. Two releases
of the program, which prepare the version differently, share the store.

`FairSpec` assumes that an installer that was called goes on, and that the file lock
is granted in turn (strong fairness of `Lock`: `flock` wakes its waiters).

### Readiness

`Readiness` models `AssetReadiness.check` with assets that change at every step. A
`Change` gives the files that are looked at a new stat, and a missing asset always has
the same one; a `Slip` is the change `_filesystem_state` cannot see, a file no manifest
lists below a nested directory, and leaves the stats as they were. `SoundUnlessRaced`
says when an answer is true, and needs an exception for each of two gaps. `check` stats
the files again *after* verifying them: a change in between is remembered as the state
the report was made from, and the report stays wrong until another file changes
(`raced`). And a report made before a slip outlives it (`unseen`), which the docstring
of `_filesystem_state` accepts: until the next verification, after which the exception
ends, however the slip came in between.

### Downloads

`Downloads` models `download` with `_fetch_remote`, `_stream_body` and
`_download_ranged`. The file is cut into as many pieces as there are range
connections; `dest` is what the destination holds of each (`source`, `other`, or the
`hole` that `truncate` leaves), `range` what each thread of the pool does, `attempt`
the attempt that runs. A server may refuse any request, break off any body, answer a
range with the whole file, and send fewer or other bytes; any write may fail. An
attempt that fails leaves through the pool's exit, which waits for its threads. A
`Content-Length` that is no number raises at once (`BadLength`), outside what is retried.

`AcceptedIsTheSource` admits other bytes for a record without checksum only, and only
if the server sent them: a short 206 leaves a hole, which a size does not reveal.
`FailsForCause` says that no failure is made by an earlier attempt (its file, its
threads). `Ends` assumes that threads are scheduled and, as every request has a
timeout, that each is answered or fails.

### From a request to files

A chain of modules, each with the operators of one layer, ends in the state machine
`Advice`:

| Module | What it holds |
|---|---|
| `Resolution` | the states of an advised field, and root causes |
| `StepSettings` | the steps of each task, which step a setting is for, which requests are accepted |
| `Analysis` | what is decided of a structure: metal, magnetic, local moments, correlation, dimensionality, geometry |
| `Spin` | magnetic cell, ordering, starting moments, occupations, bands |
| `SystemAdvice` | functional, Hubbard U, dispersion, pseudopotentials and cutoffs, electron count, boundary |
| `StepAdvice` | per step: k-points, path, convergence, relaxation, density of states, phonons; per task: job and parallel layout |
| `Checks` | every rule of `checks.py` and the remedies it offers |
| `Generation` | the steps written of a task: what each reads and writes, the keywords and cards a writer decides, what it refuses |
| `Advice` | the pipeline of one request, and the user who applies remedies |

A structure is a record of what the libraries say of it (atoms, bonds, oxidation
states, gaps, predictions of the models, the antiferromagnetic cells enumlib lists).
Electrons and moments are counted in halves, gaps in hundredths of an Angstrom. A
request is a function on slots: a key for the whole task (`flat`) or for one step.
`pc` goes from `asked` over `routed`, `analysed`, `method`, `cell`,
`pseudopotentials`, `settled`, `sampled`, `advised` to `checked` in the order of
`service/_pipeline.py`, and each step stores the records the next ones read; then
`Generate`, which stores the steps written in `files` (`<<>>` if a writer refuses), or
`ApplyRemedy`: `RemedyButtons` of the Workbench patch the request's
settings, `None` clearing one, and the patched request is advised from nothing.

- `RemedyHelps`: the finding a remedy was offered for is gone, and if it was the only
  one, the request runs or has remedies for what is found now. It excepts a step's own
  setting: a remedy sets the task's, which the step's own overrides, so the finding
  stays. It does not say that the next report is empty: without the U, for instance, a
  structure may lose its moments and be asked for its metallicity.
- `RemediesEnd`: no request whose report was acted on comes back, in whatever order
  remedies are taken. `answered` holds those requests.
- `ReadyRuns`: an empty report means that every field `generate` reads is settled, that
  the electrons of each spin fit the bands of each step as pw.x rounds them, that fixed
  occupations fill whole bands, and that a phonon run of an insulator has fixed ones. It
  excepts a `tot_magnetization` beyond the electrons there are (`MomentIsHeld`), which no
  rule of `checks.py` refuses: the emptier spin would hold less than nothing. No
  writer refuses such a request, and what is written can run: every step reads what an
  earlier one writes (`FilesMeet`), pools divide the ranks and a timer has one stop file
  (`JobFits`), and bands.x and ph.x are given nothing they stop on (`BandsXRuns`, `PhXRuns`).

### Meshes and paths

`PwSymmetry` finds, from the integer Gram matrix of a cell and sites at twelfths of its
vectors, the operations pw.x keeps (its translations, supercells, moments), the
irreducible points of a mesh and the FFT grid, whose lengths are searched without a
bound as `good_fft_order` does. `Meshes` is `kmesh.py` with the k- and q-sampling
advisors. Reciprocal lengths and k-distances are whole numbers of the last decimal a
step of the ladder keeps, `round(length / index, 8)`; `Hundredth` is 0.01 of an inverse
Angstrom in that unit (10^6 in the code), `Fine` the parts of a division that
`round(length / k_distance, 5)` keeps (10^5), `MinKDistance` the floor. Both roundings
are modelled (`Rounding`, a tie to the even), and so is what they cost: between steps of
two axes that nearly meet, the mesh may repeat the one above, and this sliver joins the
rung above it (`RungEnds`). `Sampling` advises one cell after another. `KPath` is
`k_path.py`: the reduction of a layer's lattice, one swap or subtraction a step, and
the merging of a table's sub-paths into branches, one vertex a step. `KPoints` composes
the two as `steps_advice` does: a step has a mesh or a path. A path may end `blocked`
(the cell is not resolved, or a molecule) or, for a bulk cell, `failed` (no table, or no
correspondence with its cell). On a right angle some labels of the oblique and of the
centred table stand at one point (`Vertices`).

`MeshesKeepSymmetry` relates the meshes that several advisors choose, one raised against
another, to the symmetry of the cell. `LadderIsWhole` says that the
rungs are distinct meshes whose intervals cover the k-distances down to the last rung
once, and that a distance has the mesh of its rung, with two exceptions the code has: a
distance that is nearer to a step than the roundings reach, where the code may give the
mesh of the rung beside it, and a rung that ends below the floor. `RungsDifferByOne` is
what `build_gamma_kmesh_entries` promises, that consecutive rungs "differ by at most one
k-point on each axis and no reachable mesh is skipped", for the rungs above the floor.
Below it that is not so: the ladder has a step at the length of every axis, also of one
longer than 209 Angstrom, whose length is below `MIN_K_DISTANCE`, while the steps of the
other axes end at the floor; the last rung passes meshes that have none. `CoversTheTable` and
`NeverRepeats` compare the branches with the table they were merged from;
`LabelsAreSpecial` compares each label's point with the layer's own point group, in
whatever basis the layer was given: K keeps the threefold rotations of a hexagon, the
others at least the half turn. The labels whose point depends on the angle of the cell
(`H`, `H_1`, and `X` and `A_1` of a centred layer) are points of the path and not of
this property. `PathIsMade` says that the reduction ends; the
loop goes on until it returns, which is all `FairSpec` assumes.

### Job script

`JobScript` models what `render_slurm_script` makes: the jobs that the user submits,
one after the other, in a bundle's directory. `Plan` lists each task's steps with the
first `pw.x` step called `scf`, whatever its calculation; `pc` is where a job stands,
between steps (`launch`, `run`, `check`) or in the head of the script (`switch`,
`clean`, `timer`). What stays between jobs is files. A file is `none`, `part`,
`whole` or `old`: whole, but of a save that was rewritten since. `schema` is
`data-file-schema.xml` as the exit-status check compares it with its fingerprint,
`recover`, `done`, `list` and `dyn` are what `ph.x` resumes from and leaves.

The script's shell is modelled statement by statement where files or the job's end
depend on it (`set -e`, the resume switch, `rm -rf` file by file, the timer and its
trap, each completion check). The Quantum ESPRESSO programs, whose code is not in the
repository, do whatever the docstrings of `slurm.py`, `steps.py` and
`generation/quantum_espresso/` say they may: rewrite their files at once, end
without a word, stop on the stop file with a status of 0 or not, fail, abort. SLURM
kills the job anywhere. The user may name any step, the right one or not, or none;
one directory has one job at a time, and the next is submitted when the processes of
the last are gone.

`reached` counts the leading steps that passed and were not undone since; `skipped`
says that the user started a job beyond the step after those. Both are history.
`ReachedIsMade` relates checks to files: a passed check means a whole product of the
present save. It excepts a user who skips steps, and so does, with a Hessian,
`MatricesOfTheSave`: `ph` can be started on the `d3hess` product of an earlier save,
which no check of the script sees. `StopFileIsOwn`, `ResumingKeepsWork` and
`Finishes` are about the timer and the resume switch.

`FairSpec` assumes that the script runs on, that SLURM ends a job at its walltime,
that the user submits again, and that a program which is run again and again
finishes once in a while (strong fairness; for `ph.x`, gets one q-point done).
`Finishes` is about users who resume at the first step that has not passed, and jobs
that die while a program runs (`Follows`). Where a kill and a failed check do the same,
at the check of a step whose timer is off or has fired, it counts as the failed check:
jobs whose checks fail again and again, as those of a stopped `ph.x` do, are in the
property.

### Bundle publication

`BundlePublish` models `publish` and `is_complete` for one target, a directory or an
archive (`isArchive` is chosen initially), with competing publishers that fail, are
interrupted or killed at every step, and a removal that goes file by file and may fail.
The claim of the name and the entry of the `try` are two steps (`Claim`, `Enter`), as are
the marker and the end of the `try` (`Mark`, `Return`): an interrupt comes before, in or
after it (`InterruptEarly`, `InterruptLate`, `InterruptReturn`). When nobody writes, the
user may delete the target, and of an archive forget the marker beside it (`Delete`).
`early`, `late`, `kept` and `stale` are history: who was interrupted outside its handler
or after its marker, who could not remove what it wrote, and whether the marker is that
of a deleted archive.

`PublishedStays` holds without exception: exclusive creation is enough to keep publishers
apart. `MarkedIsWhole` excepts late interrupts, which the run `BundleLateInterrupt`
shows, and forgotten markers: the marker beside an archive the user deleted is neither
refused nor removed, so the next archive of that name counts as complete while it is
written, although `is_complete` is to be false of a target "mid-write". `NoPartialOutput`
excepts removals that failed, and says of early interrupts what they leave: no part of a
bundle, but an empty directory or archive, and the name taken, although "no partial
output survives a catchable failure".

## The runs

| Run | Question | Bounds |
|---|---|---|
| `Worker` | replies, cleanliness and serial execution under crashes and interrupts; refinement of `CallServer`; calls end, rankings are not held up, children exit | two worker calls (a reuse, or a start after a discard) and a ranking |
| `Workspace` | responses in any order, edits, openings, retries, reset; refinement of `BundlePipeline`; no draft is left waiting | two structures, two tasks, an override of each kind, two requests in flight (one current, one late), two revisions |
| `WorkspaceCutResponse` | a failing request is not sent again (violated, see below) | one structure, one request |
| `AssetStore` | what readers read, what installers redo, repair | two installers of one release, one of another, one reader, two files |
| `Readiness` | when a cached report is true | two assets, four changes, in or out of sight of the stats |
| `Downloads` | what is accepted, why a download fails, that it ends | four ranges (one before the pool, three in it), three attempts as in the code |
| `Advice` | remedies help and end, ready requests run | twelve structures, every task, one or two settings out of those that concern each other, then remedies without bound |
| `KPoints` | meshes against symmetry, ladders, phonon meshes; labels, branches and the end of the reduction of paths | thirteen cells with 34 requests each; six plane lattices in eight bases, with the whole point group, its turns or one mirror; bulk tables of six vertices at four labels |
| `KPointsLeaning` | every rung keeps the symmetry (violated, see below) | as above |
| `JobScript` | what passed checks and kept matrices stand for over jobs killed, resumed and restarted; a resumed task is finished | four tasks (`band` has the shape of `dos`), two q-points (one kept, one to do) |
| `BundlePublish` | who may write and remove, what a marker means, what failures leave | three publishers, three parts |
| `BundleLateInterrupt` | an archive's marker means a whole archive (violated, see below) | as above |

Model values are interchangeable, and each bound is the least at which every
combination the properties distinguish occurs: a writer, a competitor and a third
party who comes after them; a current and an outdated version of each datum.
`MaxRevision` and `MaxChanges` bound counters that the code leaves unbounded; the
proofs do not depend on them. In the runs of `KPoints` the precision of lengths is
scaled down (`Hundredth` is 10, `Fine` 100, `MinKDistance` 75), so that the roundings
move steps, close axes leave slivers and a long axis passes the floor in small cells;
the theorems are for every precision. `CHECK_DEADLOCK FALSE` stands where the system may
stop: calls end, publications end, a script may be refused.

Three runs show where the code differs from what it says:

- `WorkspaceCutResponse`: an error response whose body is cut rejects with an error
  that is not a `CoreFailure`, no outcome is recorded, and the automatic effect
  sends the request again, although "nothing sends that request again until the key
  changes or `failure.retry` clears it".
- `BundleLateInterrupt`: an interrupt right after the marker was written makes the
  handler remove an archive and leave its marker, although the marker is "written
  strictly last, after every byte is on disk": it vouches for an archive that is gone.
- `KPointsLeaning`: "every rung is a distinct mesh the point group of structure maps
  onto itself" (`kmesh.py`), but vacuum axes are left out of the coupling, and an
  operation may turn a vacuum vector that leans partly along a periodic one. Only
  `q_sampling.py` knows and blocks a phonon run; `MeshesKeepSymmetry` excepts such cells.

## The proofs

Each `...Proofs` module proves an inductive invariant of its component and from it
the safety properties of the runs, for every value of the constants.

- `WorkerProcessProofs`: the invariant says who refers to a child. A child is
  retained, or the local variable of one call between its lock and its end, and only
  a child some frame refers to, or one that has nothing to do, is alive. So a pipe
  holds at most the request or reply of the call that refers to its child.
- `WorkspaceProofs`: a key stands for one structure and one draft, because the
  revision grows with every opening and edit; requests in flight, outcomes and what
  was reviewed have keys that are current or were passed by.
- `AssetProofs`, of the store: installers past `checking` hold the lock, so the
  installation changes only by their own steps; a reader's inventory is that of its
  preparation. Of readiness: a change in sight gives a stat that was never remembered, or
  that of a missing asset, so unless a slip came since, a remembered stat that fits stands
  for what was verified.
- `JobScriptProofs`: `ph.x` has nothing to recover while the first step rewrites the
  save, because only a fresh run gets there and it has removed the restart data; a
  job stands at most one step beyond those that passed, unless the user skipped one;
  a program that is about to pass its check has left what the check stands for.
- `DownloadsProofs`: unless a body was tampered with, what has landed is the source's;
  the pool is left with every range landed, or with an error whose cause is on record,
  and never with a thread that runs; the next attempt begins without a file.
- `BundlePublishProofs`: at most one publisher is between its claim and its end, and
  the target holds exactly the parts it has written; a target nobody writes is a
  published bundle or the leavings of one that was killed, interrupted outside its
  handler or failed to remove it.
- `AdviceProofs` proves `ReadyRuns` for any tables, structures, requests and remedies, in
  two halves. `PipelineInv` (theorem `Pipelined`) says of each `pc` that every record
  stored so far is what its stage makes of the records before, and that the request, as
  asked or as patched by remedies, holds values in the ranges its settings are validated
  to: no stage's result is ever changed, and every patch of the catalogue is in range. The
  second half is about the operators. An empty report means that every rule was mute; a
  rule is also mute where a field it reads is not settled, so the proof shows first that
  all are: what the report does not look at (cutoffs, k-points, convergence) blocks the
  job, whose memory is read off it, and the report does look at the job. Only then do the
  rules give what the writers rely on: the electrons are counted and in whole halves, the
  floor of the bands rule is no less than the electrons of the fuller spin after pw.x's
  rounding, and what each writer refuses was a finding. Last, each task's job is
  written out step by step, and its files, pools, timer and what bands.x and ph.x stop on
  are read off it.
- `KPointsProofs`, of paths: the vertices fed to the merging are the segments of the
  branches made so far and of the one being made, each label a special one of the table,
  so when all are fed the branches hold the table's segments, each once. Of meshes: a
  survey is a function of the cell and an advice of the request; coupled axes have one
  length, hence as many divisions at every step, so the mesh is even under the
  rotations, and raising two meshes or fitting an FFT grid keeps that. Of pw.x's own FFT
  grid, what `advisors/fft_grid.py` says of a cell that is not fragile: a rotation keeps
  the products of the lattice vectors, so its determinant is 1 or -1 and its cofactors
  keep the lengths of the reciprocal vectors; the box that is searched holds every vector
  below the cutoff, as one index squared is at most the length of its axis times that of
  the vector; so axes a rotation exchanges are reached alike, and with equal factors have
  as many points. Of ladders
  (`LadderCoversDistances`): the steps are a finite set, the ends of the rungs those of
  its elements below which the mesh changes, so any distance lies above a greatest end
  and below the next. Going down the steps, no axis loses a division, so a mesh that
  comes again would have come without a change between, and each rung has a mesh of its
  own. A distance further from every step than half a last decimal of either rounding
  has, on each axis, as many divisions as the middle of its interval, because both lie
  between the same two unrounded steps; across a joined sliver the mesh is the same by
  the way it was joined.
  Of layers (theorem `LabelsStandOnSymmetry`): `LayerInv` says of every `pc` what the
  basis is. It always spans the lattice, since a swap, a subtraction or a sign changes
  the determinant at most in sign; a reduced one that a turn by a third or a sixth keeps
  is two sides of an equilateral triangle, and one that a quarter turn keeps is a square's,
  as the turn's entries are then -1, 0 or 1. A mirror's two line vectors have coprime
  coordinates, so by Bezout's identity they span the lattice or every other vector of
  it, and in that case the sums of their coordinates are even, which is what halving
  them needs. In the basis that comes out each operation is a known matrix, so
  that it keeps a label's point is a remainder by twelve; a rectangular layer has no
  operations but the half turn, one mirror and their product, since two mirrors that
  are not opposites compose into a turn of another order.

`WorkerProcessProofs` and `WorkspaceProofs` also prove the refinements of `CallServer`
and `BundlePipeline`, which promise safety only: every step of the component is an action
of the abstract system or leaves the mapped state alone.

Assumed are only the named assumptions on the constants: `None` and the like are not
elements of the sets they are added to, a draft has a task, a bundle has a part; cells,
rotations, cutoffs and requests are of the shape the code reads, the rotations pw.x
finds are the crystal's, 48 at most, and the parts a division is rounded to are even in
number, as 10^5 is. The advice pipeline is given tables whose valence charges are
numbers (`TablesAssumption`), structures with atoms of known elements and requests whose
values the settings were validated to (`AskedAssumption`, through `ValidStructure` and
`ValidSetting`), and `None` is no value of a setting (`NoneAssumption`); `ValidCell` says
that a cell with an FFT grid ph.x refuses is fragile, which the theorem of the meshes
(`AdvisedMeshesKeepSymmetry`) proves of every cell with independent lattice vectors
(`LatticeAssumption`). A layer's two
lattice vectors are independent, and its operations keep their products and form a group
(`LayersAssumption`): that and nothing else of the lattice or of its basis. A least step, an
FFT length or a remainder is the least element of a set, found by the well-foundedness of
`<`: the library's induction theorems take an operator as parameter, which no prover here
can use.

TLC alone checks:

- liveness, under fairness: `EveryCallEnds`, `NoOrphans`, `RankingsNotHeldUp`,
  `SettlesOnceUserStops`, those of the stores, downloads and jobs, and `PathIsMade`;
- `RungsDifferByOne`, which needs roundings finer than the steps, as the code's are;
- `RemedyHelps` and `RemediesEnd`, which compare the report of a request with that of the
  request before it: for them a default must meet what the setting it replaces did not,
  and whether it does (a path of at most 40000 points, an FFT grid pw.x finds) is a
  property of the structures at hand, not of the rules.

Types, and the facts `NoWorkLeftBehind`, `PreviewHasVerdict` and `RaisedForPhonons`, are
proved and not in the configurations.

## Not modelled, and the plan

What would come next:

1. `pw_frame`, which turns a cell into the frame where pw.x keeps most symmetry: today a
   cell is written straight or not.
2. The magnetic-orderings panel of the Workbench store, whose requests abort one another,
   and the listing behind it (`service/_magnetic_orderings.py`).
3. `RemedyHelps` as a theorem, from an assumption that the defaults of a cell meet the
   limits that settings may break.
4. The LLM tier of the advisors (it is between the user and the models, and nothing in
   the program fills it in) and the estimates of walltime and size.

Left out for good: the text of input files, of findings and of warnings, the namelist schemas,
parsers (UPF, CIF, profiles), the document `capabilities.py` makes for clients, the
geometry over real numbers behind the facts that `Analysis` is given, the ML libraries,
enumlib and spglib, the HTTP, MCP and command-line front ends, the rendering of the
Workbench, scripts and CI: they compute data from data and keep no state. A pool that installs several assets (`assets/runtime.py`)
runs independent copies of `AssetStore`. Staging directories of killed installers stay
behind, and nothing reads them.
