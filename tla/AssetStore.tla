----------------------------- MODULE AssetStore -----------------------------
(***************************************************************************)
(* One asset version on disk, src/src/goldilocks_core/assets/store.py:     *)
(* installers of several processes, which share the store and take turns   *)
(* under a file lock, and readers, which verify the installation and read  *)
(* its files (InstalledAsset.read_bytes, service/_pseudo.py) without it.   *)
(*                                                                         *)
(* A step is one externally visible operation on the installation's        *)
(* directory.  The bytes of a file are a value; a manifest is named by the *)
(* preparation that wrote it, and lists what that preparation made.        *)
(* Damage (a disk fault, a user) may hit the directory at any step, and an *)
(* installer may fail, be interrupted or be killed at any step.            *)
(***************************************************************************)
EXTENDS Naturals, FiniteSets

CONSTANTS
  Installers, Readers,
  Preparations,   \* preparation fingerprints
  Files,          \* the paths a preparation may make
  Prepared,       \* Prepared[p]: the content of each file that p makes
  Wanted,         \* Wanted[a]: the preparation installer or reader a asks for
  Bad,            \* content nobody prepared
  None            \* no file, no manifest, no directory, no process

Actors == Installers \cup Readers
Contents == UNION {{Prepared[p][f] : f \in DOMAIN Prepared[p]} : p \in Preparations}

ASSUME PreparedAssumption ==
  \A p \in Preparations : DOMAIN Prepared[p] \subseteq Files /\ DOMAIN Prepared[p] # {}
ASSUME WantedAssumption == Wanted \in [Actors -> Preparations]
ASSUME BadAssumption ==
  /\ Bad \notin Contents /\ Bad \notin Preparations /\ Bad # None
  /\ None \notin Contents /\ None \notin Preparations /\ None \notin Installers

VARIABLES
  manifest,    \* the manifest in the directory
  files,       \* files[f]: the content of f in the directory
  directory,   \* whether the directory exists
  lock,        \* who holds the file lock
  pc,          \* pc[i]: where installer i stands
  rpc,         \* rpc[r]: where reader r stands
  inventory,   \* inventory[r]: the manifest r has read
  checked,     \* checked[r]: the files whose hash r has compared
  got          \* got[r][f]: the bytes read_bytes returned to r

disk == <<manifest, files, directory>>
reading == <<rpc, inventory, checked, got>>
vars == <<disk, lock, pc, reading>>

NoFiles == [f \in Files |-> None]

TypeOK ==
  /\ manifest \in Preparations \cup {None, Bad}
  /\ files \in [Files -> Contents \cup {None, Bad}]
  /\ directory \in BOOLEAN
  /\ lock \in Installers \cup {None}
  /\ pc \in [Installers -> {"idle", "waiting", "checking", "preparing", "removing",
                            "publishing", "confirming"}]
  /\ rpc \in [Readers -> {"idle", "manifest", "reading", "listing", "checking",
                          "verified", "missing", "corrupt", "OSError"}]
  /\ inventory \in [Readers -> Preparations \cup {None}]
  /\ checked \in [Readers -> SUBSET Files]
  /\ got \in [Readers -> [Files -> Contents \cup {None, Bad}]]

Init ==
  /\ manifest = None /\ files = NoFiles /\ directory = FALSE
  /\ lock = None
  /\ pc = [i \in Installers |-> "idle"]
  /\ rpc = [r \in Readers |-> "idle"]
  /\ inventory = [r \in Readers |-> None]
  /\ checked = [r \in Readers |-> {}]
  /\ got = [r \in Readers |-> NoFiles]

-----------------------------------------------------------------------------
(* Helpers.                                                                *)

\* What the manifest of p lists, as a directory listing.
Listed(p) == [f \in Files |-> IF f \in DOMAIN Prepared[p] THEN Prepared[p][f] ELSE None]

\* verify_spec, when nobody else touches the directory.
Verifies(p) == manifest = p /\ files = Listed(p)

Goto(i, s) == pc' = [pc EXCEPT ![i] = s]

\* The with block of _lock ends, on whatever path.
Release(i) == Goto(i, "idle") /\ lock' = None

-----------------------------------------------------------------------------
(* install.                                                                *)

Install(i) ==
  /\ pc[i] = "idle"
  /\ Goto(i, "waiting")
  /\ UNCHANGED <<disk, lock, reading>>

\* Mutant of Lock: a lock per process.
LockOwn(i) ==
  /\ pc[i] = "waiting"
  /\ lock' = i
  /\ Goto(i, "checking")
  /\ UNCHANGED <<disk, reading>>

\* fcntl.flock
Lock(i) ==
  /\ pc[i] = "waiting"
  /\ lock = None
  /\ lock' = i
  /\ Goto(i, "checking")
  /\ UNCHANGED <<disk, reading>>

\* Mutant of FindInstalled: the manifest is taken at its word.
FindInstalledByManifest(i) ==
  /\ pc[i] = "checking"
  /\ manifest = Wanted[i]
  /\ Release(i)
  /\ UNCHANGED <<disk, reading>>

\* Already installed: nothing is touched.
FindInstalled(i) ==
  /\ pc[i] = "checking"
  /\ Verifies(Wanted[i])
  /\ Release(i)
  /\ UNCHANGED <<disk, reading>>

\* AssetNotInstalled, AssetCorrupt: a staging directory is made.
FindMissing(i) ==
  /\ pc[i] = "checking"
  /\ ~Verifies(Wanted[i])
  /\ Goto(i, "preparing")
  /\ UNCHANGED <<disk, lock, reading>>

\* Sources are downloaded and prepared, and the manifest written, in staging.
Prepare(i) ==
  /\ pc[i] = "preparing"
  /\ Goto(i, "removing")
  /\ UNCHANGED <<disk, lock, reading>>

\* shutil.rmtree of the destination, entry by entry.
RemoveEntry(i) ==
  /\ pc[i] = "removing"
  /\ \/ /\ manifest # None
        /\ manifest' = None
        /\ UNCHANGED <<files, directory>>
     \/ /\ \E f \in Files : files[f] # None /\ files' = [files EXCEPT ![f] = None]
        /\ UNCHANGED <<manifest, directory>>
  /\ UNCHANGED <<lock, pc, reading>>

RemoveDirectory(i) ==
  /\ pc[i] = "removing"
  /\ manifest = None /\ files = NoFiles
  /\ directory' = FALSE
  /\ Goto(i, "publishing")
  /\ UNCHANGED <<manifest, files, lock, reading>>

\* os.replace, then the rest of staging is removed.
Publish(i) ==
  /\ pc[i] = "publishing"
  /\ manifest' = Wanted[i]
  /\ files' = Listed(Wanted[i])
  /\ directory' = TRUE
  /\ Goto(i, "confirming")
  /\ UNCHANGED <<lock, reading>>

\* The last verify_spec passes or raises; the lock is released either way.
Confirm(i) ==
  /\ pc[i] = "confirming"
  /\ Release(i)
  /\ UNCHANGED <<disk, reading>>

\* A download or a preparer fails.
PrepareFails(i) ==
  /\ pc[i] = "preparing"
  /\ Release(i)
  /\ UNCHANGED <<disk, reading>>

\* Mutant of Stop: a lock that outlives its process.
StopHoldingLock(i) ==
  /\ pc[i] # "idle"
  /\ Goto(i, "idle")
  /\ UNCHANGED <<disk, lock, reading>>

\* An interrupt, or the death of the process: the system releases its lock.
\* (A killed process also leaves its staging directory behind.)
Stop(i) ==
  /\ pc[i] # "idle"
  /\ Goto(i, "idle")
  /\ lock' = IF lock = i THEN None ELSE lock
  /\ UNCHANGED <<disk, reading>>

-----------------------------------------------------------------------------
(* verify_spec and read_bytes, without the lock.                           *)

Refuse(r, how) ==
  /\ rpc' = [rpc EXCEPT ![r] = how]
  /\ UNCHANGED <<inventory, checked, got>>

Continue(r, s) ==
  /\ rpc' = [rpc EXCEPT ![r] = s]
  /\ UNCHANGED <<inventory, checked, got>>

\* The directory, when the request starts.
CheckRoot(r) ==
  /\ rpc[r] = "idle"
  /\ IF directory THEN Continue(r, "manifest") ELSE Refuse(r, "missing")
  /\ UNCHANGED <<disk, lock, pc>>

\* Is the manifest there?  (The directory may just have gone.)
CheckManifest(r) ==
  /\ rpc[r] = "manifest"
  /\ \/ manifest # None /\ Continue(r, "reading")
     \/ manifest = None /\ Refuse(r, "missing")
     \/ ~directory /\ Refuse(r, "corrupt")
  /\ UNCHANGED <<disk, lock, pc>>

\* A manifest that went since: not a file any more, or not there to be read,
\* which _read_manifest does not translate.
ReadManifest(r) ==
  /\ rpc[r] = "reading"
  /\ \/ manifest = None /\ (Refuse(r, "corrupt") \/ Refuse(r, "OSError"))
     \/ manifest \notin {None, Wanted[r]} /\ Refuse(r, "corrupt")
     \/ /\ manifest = Wanted[r]
        /\ rpc' = [rpc EXCEPT ![r] = "listing"]
        /\ inventory' = [inventory EXCEPT ![r] = manifest]
        /\ UNCHANGED <<checked, got>>
  /\ UNCHANGED <<disk, lock, pc>>

ListFiles(r) ==
  /\ rpc[r] = "listing"
  /\ IF {f \in Files : files[f] # None} = DOMAIN Prepared[inventory[r]]
     THEN Continue(r, "checking")
     ELSE Refuse(r, "corrupt") \/ (~directory /\ Refuse(r, "OSError"))
  /\ UNCHANGED <<disk, lock, pc>>

\* Size and hash, one file after the other.
CheckFile(r) ==
  /\ rpc[r] = "checking"
  /\ \E f \in DOMAIN Prepared[inventory[r]] \ checked[r] :
       IF files[f] = Prepared[inventory[r]][f]
       THEN /\ checked' = [checked EXCEPT ![r] = @ \cup {f}]
            /\ rpc' = [rpc EXCEPT ![r] =
                 IF checked[r] \cup {f} = DOMAIN Prepared[inventory[r]]
                 THEN "verified" ELSE "checking"]
            /\ UNCHANGED <<inventory, got>>
       ELSE Refuse(r, "corrupt")
  /\ UNCHANGED <<disk, lock, pc>>

\* Mutant of ReadBytes: the verification just made is relied on.
ReadBytesUnchecked(r, f) ==
  /\ rpc[r] = "verified"
  /\ f \in DOMAIN Prepared[inventory[r]]
  /\ got' = [got EXCEPT ![r][f] = files[f]]
  /\ UNCHANGED <<rpc, inventory, checked>>
  /\ UNCHANGED <<disk, lock, pc>>

\* InstalledAsset.read_bytes; _verified_bytes turns what it raises into
\* AssetCorrupt.
ReadBytes(r, f) ==
  /\ rpc[r] = "verified"
  /\ f \in DOMAIN Prepared[inventory[r]]
  /\ IF files[f] = Prepared[inventory[r]][f]
     THEN got' = [got EXCEPT ![r][f] = files[f]] /\ UNCHANGED <<rpc, inventory, checked>>
     ELSE Refuse(r, "corrupt")
  /\ UNCHANGED <<disk, lock, pc>>

\* The request ends; another may start.
EndRequest(r) ==
  /\ rpc[r] \in {"verified", "missing", "corrupt", "OSError"}
  /\ rpc' = [rpc EXCEPT ![r] = "idle"]
  /\ inventory' = [inventory EXCEPT ![r] = None]
  /\ checked' = [checked EXCEPT ![r] = {}]
  /\ got' = [got EXCEPT ![r] = NoFiles]
  /\ UNCHANGED <<disk, lock, pc>>

-----------------------------------------------------------------------------
(* Damage to the directory.                                                *)

\* A file or the manifest is changed or deleted, or a stray file appears (not in
\* a directory that is being removed).  Nobody repairs a file by hand.
Damage ==
  /\ \/ /\ manifest # None
        /\ manifest' \in {None, Bad}
        /\ UNCHANGED files
     \/ /\ \E f \in Files :
             /\ files[f] # Bad
             /\ files[f] # None \/ (directory /\ \A i \in Installers : pc[i] # "removing")
             /\ \E c \in {None, Bad} : files' = [files EXCEPT ![f] = c]
        /\ UNCHANGED manifest
  /\ UNCHANGED <<directory, lock, pc, reading>>

-----------------------------------------------------------------------------
Working(i) ==
  \/ Lock(i) \/ FindInstalled(i) \/ FindMissing(i) \/ Prepare(i) \/ RemoveEntry(i)
  \/ RemoveDirectory(i) \/ Publish(i) \/ Confirm(i)

Reading(r) ==
  \/ CheckRoot(r) \/ CheckManifest(r) \/ ReadManifest(r) \/ ListFiles(r) \/ CheckFile(r)
  \/ \E f \in Files : ReadBytes(r, f)
  \/ EndRequest(r)

Next ==
  \/ \E i \in Installers : Install(i) \/ Working(i) \/ PrepareFails(i) \/ Stop(i)
  \/ \E r \in Readers : Reading(r)
  \/ Damage

Spec == Init /\ [][Next]_vars

\* Nothing goes wrong: no damage, no failed download, nobody is stopped.
Untroubled ==
  (\E i \in Installers : Install(i) \/ Working(i)) \/ (\E r \in Readers : Reading(r))

\* An installer that was called goes on, and the lock is granted in turn.
FairSpec ==
  /\ Spec
  /\ \A i \in Installers : WF_vars(Working(i)) /\ SF_vars(Lock(i))

-----------------------------------------------------------------------------
(* Properties.                                                             *)

\* Every byte a request ships is one its preparation made, whatever is
\* installed, removed or damaged between the verification and the read; so one
\* bundle never mixes the files of two installations (InstalledAsset.read_bytes,
\* service/_pseudo.py).
BytesAreVerified ==
  \A r \in Readers, f \in Files :
    got[r][f] # None =>
      f \in DOMAIN Prepared[Wanted[r]] /\ got[r][f] = Prepared[Wanted[r]][f]

\* What an installer found before its downloads is still so when it acts on it:
\* it never removes, in favour of its own, an installation that another installer
\* completed meanwhile (install, lines 88-119).
StillNeeded ==
  \A i \in Installers : pc[i] = "preparing" => ~Verifies(Wanted[i])

\* A call of install comes to an end, whichever other installers are killed.
InstallEnds == \A i \in Installers : pc[i] = "waiting" ~> pc[i] = "idle"

\* However often installers failed or were killed and files were damaged before:
\* once that stops, and only one release is still installed, calling install brings
\* it back and it stays.
Heals ==
  \A p \in Preparations :
    /\ <>[][/\ Untroubled
            /\ \A i \in Installers : pc[i] = "idle" /\ pc'[i] # "idle" => Wanted[i] = p]_vars
    /\ []<>(\E i \in Installers : pc[i] # "idle")
    => <>[]Verifies(p)
=============================================================================
