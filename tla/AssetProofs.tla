---------------------------- MODULE AssetProofs ----------------------------
(***************************************************************************)
(* Proofs about the assets: the store, for any number of installers,       *)
(* readers, preparations and files, and the server's readiness check, for  *)
(* any number of assets and any number of changes of them.                 *)
(*                                                                         *)
(* The argument about the readiness check: a change gives an asset a stat  *)
(* it never had, or that of a missing asset, so a remembered stat that     *)
(* fits again stands for what was verified.                                *)
(***************************************************************************)
EXTENDS AssetStore, Readiness, TLAPS

-----------------------------------------------------------------------------
(* The store.                                                              *)

\* An installer at work holds the lock.
Exclusive == \A i \in Installers : pc[i] \notin {"idle", "waiting"} => lock = i

\* A directory with a manifest holds nothing but what it lists, gaps and damage.
Unmixed ==
  \A p \in Preparations : manifest = p =>
    \A f \in Files : files[f] \in {Listed(p)[f], None, Bad}

\* A reader past the manifest has read the one it wants.
InventoryIsWanted ==
  \A r \in Readers :
    rpc[r] \in {"listing", "checking", "verified"} => inventory[r] = Wanted[r]

StoreInv ==
  /\ TypeOK /\ Exclusive /\ Unmixed /\ StillNeeded
  /\ InventoryIsWanted /\ BytesAreVerified

-----------------------------------------------------------------------------
\* What a manifest lists.
LEMMA ListedType ==
  ASSUME NEW p \in Preparations
  PROVE  /\ Listed(p) \in [Files -> Contents \cup {None}]
         /\ \A f \in DOMAIN Prepared[p] : f \in Files /\ Listed(p)[f] = Prepared[p][f]
<1>1. \A f \in DOMAIN Prepared[p] : f \in Files /\ Prepared[p][f] \in Contents
  BY PreparedAssumption DEF Contents
<1> QED
  BY <1>1 DEF Listed

\* Nothing is installed, and nobody is at work.
LEMMA StoreInitial == Init => StoreInv
<1> SUFFICES ASSUME Init PROVE StoreInv
  OBVIOUS
<1>1. TypeOK
  BY DEF Init, TypeOK, NoFiles
<1>2. Exclusive /\ StillNeeded /\ InventoryIsWanted
  BY DEF Init, Exclusive, StillNeeded, InventoryIsWanted
<1>3. Unmixed
  BY BadAssumption DEF Init, Unmixed
<1>4. BytesAreVerified
  BY DEF Init, BytesAreVerified, NoFiles
<1> QED
  BY <1>1, <1>2, <1>3, <1>4 DEF StoreInv

\* Every step of an installer, of a reader and of the environment keeps the
\* invariant.
LEMMA StoreInductive == StoreInv /\ [Next]_vars => StoreInv'
<1> SUFFICES ASSUME StoreInv, [Next]_vars PROVE StoreInv'
  OBVIOUS
<1> USE BadAssumption, WantedAssumption, ListedType
<1> USE DEF StoreInv, TypeOK, Exclusive, Unmixed, StillNeeded, InventoryIsWanted,
        BytesAreVerified, NoFiles, Verifies, Goto, Release, Refuse, Continue, Actors,
        disk, reading
<1>1. ASSUME NEW i \in Installers, Install(i) PROVE StoreInv'
  <2>1. TypeOK'
    BY <1>1 DEF Install
  <2>2. Exclusive' /\ Unmixed'
    BY <1>1 DEF Install
  <2>3. StillNeeded'
    BY <1>1 DEF Install
  <2>4. InventoryIsWanted' /\ BytesAreVerified'
    BY <1>1 DEF Install
  <2> QED
    BY <2>1, <2>2, <2>3, <2>4
<1>2. ASSUME NEW i \in Installers, Lock(i) PROVE StoreInv'
  <2>1. TypeOK'
    BY <1>2 DEF Lock
  <2>2. Exclusive' /\ Unmixed'
    BY <1>2 DEF Lock
  <2>3. StillNeeded'
    BY <1>2 DEF Lock
  <2>4. InventoryIsWanted' /\ BytesAreVerified'
    BY <1>2 DEF Lock
  <2> QED
    BY <2>1, <2>2, <2>3, <2>4
<1>3. ASSUME NEW i \in Installers, FindInstalled(i) PROVE StoreInv'
  <2>1. TypeOK'
    BY <1>3 DEF FindInstalled
  <2>2. Exclusive' /\ Unmixed'
    BY <1>3 DEF FindInstalled
  <2>3. StillNeeded'
    BY <1>3 DEF FindInstalled
  <2>4. InventoryIsWanted' /\ BytesAreVerified'
    BY <1>3 DEF FindInstalled
  <2> QED
    BY <2>1, <2>2, <2>3, <2>4
<1>4. ASSUME NEW i \in Installers, FindMissing(i) PROVE StoreInv'
  <2>1. TypeOK'
    BY <1>4 DEF FindMissing
  <2>2. Exclusive' /\ Unmixed'
    BY <1>4 DEF FindMissing
  <2>3. StillNeeded'
    BY <1>4 DEF FindMissing
  <2>4. InventoryIsWanted' /\ BytesAreVerified'
    BY <1>4 DEF FindMissing
  <2> QED
    BY <2>1, <2>2, <2>3, <2>4
<1>5. ASSUME NEW i \in Installers, Prepare(i) PROVE StoreInv'
  <2>1. TypeOK'
    BY <1>5 DEF Prepare
  <2>2. Exclusive' /\ Unmixed'
    BY <1>5 DEF Prepare
  <2>3. StillNeeded'
    BY <1>5 DEF Prepare
  <2>4. InventoryIsWanted' /\ BytesAreVerified'
    BY <1>5 DEF Prepare
  <2> QED
    BY <2>1, <2>2, <2>3, <2>4
<1>6. ASSUME NEW i \in Installers, RemoveEntry(i) PROVE StoreInv'
  <2>1. TypeOK'
    BY <1>6 DEF RemoveEntry
  <2>2. Exclusive' /\ Unmixed'
    <3>1. Exclusive'
      BY <1>6 DEF RemoveEntry
    <3>2. CASE manifest' = None
      BY <1>6, <3>1, <3>2 DEF RemoveEntry
    <3>3. CASE manifest' # None
      <4>1. manifest' = manifest /\ \A f \in Files : files'[f] \in {files[f], None}
        BY <1>6, <3>3 DEF RemoveEntry
      <4> QED
        BY <3>1, <4>1
    <3> QED
      BY <3>2, <3>3
  <2>3. StillNeeded'
    BY <1>6 DEF RemoveEntry
  <2>4. InventoryIsWanted' /\ BytesAreVerified'
    BY <1>6 DEF RemoveEntry
  <2> QED
    BY <2>1, <2>2, <2>3, <2>4
<1>7. ASSUME NEW i \in Installers, RemoveDirectory(i) PROVE StoreInv'
  <2>1. TypeOK'
    BY <1>7 DEF RemoveDirectory
  <2>2. Exclusive' /\ Unmixed'
    BY <1>7 DEF RemoveDirectory
  <2>3. StillNeeded'
    BY <1>7 DEF RemoveDirectory
  <2>4. InventoryIsWanted' /\ BytesAreVerified'
    BY <1>7 DEF RemoveDirectory
  <2> QED
    BY <2>1, <2>2, <2>3, <2>4
<1>8. ASSUME NEW i \in Installers, Publish(i) PROVE StoreInv'
  <2>1. TypeOK'
    BY <1>8 DEF Publish
  <2>2. Exclusive' /\ Unmixed'
    BY <1>8 DEF Publish
  <2>3. StillNeeded'
    BY <1>8 DEF Publish
  <2>4. InventoryIsWanted' /\ BytesAreVerified'
    BY <1>8 DEF Publish
  <2> QED
    BY <2>1, <2>2, <2>3, <2>4
<1>9. ASSUME NEW i \in Installers, Confirm(i) PROVE StoreInv'
  <2>1. TypeOK'
    BY <1>9 DEF Confirm
  <2>2. Exclusive' /\ Unmixed'
    BY <1>9 DEF Confirm
  <2>3. StillNeeded'
    BY <1>9 DEF Confirm
  <2>4. InventoryIsWanted' /\ BytesAreVerified'
    BY <1>9 DEF Confirm
  <2> QED
    BY <2>1, <2>2, <2>3, <2>4
<1>10. ASSUME NEW i \in Installers, PrepareFails(i) PROVE StoreInv'
  <2>1. TypeOK'
    BY <1>10 DEF PrepareFails
  <2>2. Exclusive' /\ Unmixed'
    BY <1>10 DEF PrepareFails
  <2>3. StillNeeded'
    BY <1>10 DEF PrepareFails
  <2>4. InventoryIsWanted' /\ BytesAreVerified'
    BY <1>10 DEF PrepareFails
  <2> QED
    BY <2>1, <2>2, <2>3, <2>4
<1>11. ASSUME NEW i \in Installers, Stop(i) PROVE StoreInv'
  <2>1. TypeOK'
    BY <1>11 DEF Stop
  <2>2. Exclusive' /\ Unmixed'
    BY <1>11 DEF Stop
  <2>3. StillNeeded'
    BY <1>11 DEF Stop
  <2>4. InventoryIsWanted' /\ BytesAreVerified'
    BY <1>11 DEF Stop
  <2> QED
    BY <2>1, <2>2, <2>3, <2>4
<1>12. ASSUME NEW r \in Readers, CheckRoot(r) PROVE StoreInv'
  <2>1. TypeOK'
    BY <1>12 DEF CheckRoot
  <2>2. Exclusive' /\ Unmixed'
    BY <1>12 DEF CheckRoot
  <2>3. StillNeeded'
    BY <1>12 DEF CheckRoot
  <2>4. InventoryIsWanted' /\ BytesAreVerified'
    BY <1>12 DEF CheckRoot
  <2> QED
    BY <2>1, <2>2, <2>3, <2>4
<1>13. ASSUME NEW r \in Readers, CheckManifest(r) PROVE StoreInv'
  <2>1. TypeOK'
    BY <1>13 DEF CheckManifest
  <2>2. Exclusive' /\ Unmixed'
    BY <1>13 DEF CheckManifest
  <2>3. StillNeeded'
    BY <1>13 DEF CheckManifest
  <2>4. InventoryIsWanted' /\ BytesAreVerified'
    BY <1>13 DEF CheckManifest
  <2> QED
    BY <2>1, <2>2, <2>3, <2>4
<1>14. ASSUME NEW r \in Readers, ReadManifest(r) PROVE StoreInv'
  <2>1. TypeOK'
    <3>1. CASE Refuse(r, "corrupt") \/ Refuse(r, "OSError")
      BY <1>14, <3>1, ZenonT(60) DEF ReadManifest
    <3>2. CASE /\ rpc' = [rpc EXCEPT ![r] = "listing"]
               /\ inventory' = [inventory EXCEPT ![r] = Wanted[r]]
               /\ UNCHANGED <<checked, got>>
      <4>1. Wanted[r] \in Preparations
        OBVIOUS
      <4> QED
        BY <1>14, <3>2, <4>1 DEF ReadManifest
    <3> QED
      BY <1>14, <3>1, <3>2 DEF ReadManifest
  <2>2. Exclusive' /\ Unmixed'
    BY <1>14 DEF ReadManifest
  <2>3. StillNeeded'
    BY <1>14 DEF ReadManifest
  <2>4. InventoryIsWanted' /\ BytesAreVerified'
    BY <1>14 DEF ReadManifest
  <2> QED
    BY <2>1, <2>2, <2>3, <2>4
<1>15. ASSUME NEW r \in Readers, ListFiles(r) PROVE StoreInv'
  <2>1. TypeOK'
    BY <1>15 DEF ListFiles
  <2>2. Exclusive' /\ Unmixed'
    BY <1>15 DEF ListFiles
  <2>3. StillNeeded'
    BY <1>15 DEF ListFiles
  <2>4. InventoryIsWanted' /\ BytesAreVerified'
    BY <1>15 DEF ListFiles
  <2> QED
    BY <2>1, <2>2, <2>3, <2>4
<1>16. ASSUME NEW r \in Readers, CheckFile(r) PROVE StoreInv'
  <2>1. TypeOK'
    <3>1. UNCHANGED <<manifest, files, directory, lock, pc>>
      BY <1>16 DEF CheckFile
    <3>2. CASE Refuse(r, "corrupt")
      BY <3>1, <3>2
    <3>3. CASE ~Refuse(r, "corrupt")
      <4>1. PICK f \in DOMAIN Prepared[inventory[r]] :
              checked' = [checked EXCEPT ![r] = checked[r] \cup {f}]
        BY <1>16, <3>3 DEF CheckFile
      <4>2. f \in Files
        BY <1>16, PreparedAssumption DEF CheckFile
      <4>3. \/ rpc' = [rpc EXCEPT ![r] = "verified"]
            \/ rpc' = [rpc EXCEPT ![r] = "checking"]
        BY <1>16, <3>3 DEF CheckFile
      <4>4. UNCHANGED <<inventory, got>>
        BY <1>16, <3>3 DEF CheckFile
      <4> QED
        BY <3>1, <4>1, <4>2, <4>3, <4>4
    <3> QED
      BY <3>2, <3>3
  <2>2. Exclusive' /\ Unmixed'
    BY <1>16 DEF CheckFile
  <2>3. StillNeeded'
    BY <1>16 DEF CheckFile
  <2>4. InventoryIsWanted' /\ BytesAreVerified'
    BY <1>16 DEF CheckFile
  <2> QED
    BY <2>1, <2>2, <2>3, <2>4
<1>17. ASSUME NEW r \in Readers, NEW f \in Files, ReadBytes(r, f) PROVE StoreInv'
  <2>1. TypeOK'
    <3>1. CASE files[f] # Prepared[inventory[r]][f]
      BY <1>17, <3>1, ZenonT(60) DEF ReadBytes
    <3>2. CASE files[f] = Prepared[inventory[r]][f]
      <4>1. /\ got' = [got EXCEPT ![r] = [got[r] EXCEPT ![f] = files[f]]]
            /\ inventory[r] = Wanted[r] /\ f \in DOMAIN Prepared[Wanted[r]]
        BY <1>17, <3>2 DEF ReadBytes
      <4>2. UNCHANGED <<manifest, files, directory, lock, pc, rpc, inventory, checked>>
        BY <1>17, <3>2 DEF ReadBytes
      <4> QED
        BY <3>2, <4>1, <4>2
    <3> QED
      BY <3>1, <3>2
  <2>2. Exclusive' /\ Unmixed'
    BY <1>17 DEF ReadBytes
  <2>3. StillNeeded'
    BY <1>17 DEF ReadBytes
  <2>4. InventoryIsWanted' /\ BytesAreVerified'
    <3>1. CASE files[f] # Prepared[inventory[r]][f]
      BY <1>17, <3>1 DEF ReadBytes
    <3>2. CASE files[f] = Prepared[inventory[r]][f]
      <4>1. /\ got' = [got EXCEPT ![r] = [got[r] EXCEPT ![f] = files[f]]]
            /\ inventory[r] = Wanted[r] /\ f \in DOMAIN Prepared[Wanted[r]]
        BY <1>17, <3>2 DEF ReadBytes
      <4>2. UNCHANGED <<manifest, files, directory, lock, pc, rpc, inventory, checked>>
        BY <1>17, <3>2 DEF ReadBytes
      <4> QED
        BY <3>2, <4>1, <4>2
    <3> QED
      BY <3>1, <3>2
  <2> QED
    BY <2>1, <2>2, <2>3, <2>4
<1>18. ASSUME NEW r \in Readers, EndRequest(r) PROVE StoreInv'
  <2>1. TypeOK'
    BY <1>18 DEF EndRequest
  <2>2. Exclusive' /\ Unmixed'
    BY <1>18 DEF EndRequest
  <2>3. StillNeeded'
    BY <1>18 DEF EndRequest
  <2>4. InventoryIsWanted' /\ BytesAreVerified'
    BY <1>18 DEF EndRequest
  <2> QED
    BY <2>1, <2>2, <2>3, <2>4
<1>19. ASSUME Damage PROVE StoreInv'
  <2>1. TypeOK'
    BY <1>19 DEF Damage
  <2>2. Exclusive' /\ Unmixed'
    BY <1>19, SMTT(60) DEF Damage
  <2>3. StillNeeded'
    BY <1>19 DEF Damage
  <2>4. InventoryIsWanted' /\ BytesAreVerified'
    BY <1>19 DEF Damage
  <2> QED
    BY <2>1, <2>2, <2>3, <2>4
<1>20. CASE UNCHANGED vars
  BY <1>20 DEF vars
<1> QED
  BY <1>1, <1>2, <1>3, <1>4, <1>5, <1>6, <1>7, <1>8, <1>9, <1>10, <1>11, <1>12, <1>13,
     <1>14, <1>15, <1>16, <1>17, <1>18, <1>19, <1>20
     DEF Next, Working, Reading

LEMMA StoreInvariance == Spec => []StoreInv
<1>1. Init => StoreInv
  BY StoreInitial
<1>2. StoreInv /\ [Next]_vars => StoreInv'
  BY StoreInductive
<1> QED
  BY <1>1, <1>2, PTL DEF Spec

-----------------------------------------------------------------------------
\* The directory, the lock and every installer and reader stay well formed.
THEOREM StoreTypeCorrect == Spec => []TypeOK
<1>1. StoreInv => TypeOK
  BY DEF StoreInv
<1> QED
  BY <1>1, StoreInvariance, PTL

\* No interleaving of installs, damage and requests makes a bundle ship bytes
\* other than those of the preparation it asked for.
THEOREM ShippedBytesAreVerified == Spec => []BytesAreVerified
<1>1. StoreInv => BytesAreVerified
  BY DEF StoreInv
<1> QED
  BY <1>1, StoreInvariance, PTL

\* No installer throws away an installation completed while it was waiting or
\* downloading.
THEOREM InstallsAreNotRedone == Spec => []StillNeeded
<1>1. StoreInv => StillNeeded
  BY DEF StoreInv
<1> QED
  BY <1>1, StoreInvariance, PTL

-----------------------------------------------------------------------------
(* The readiness check.                                                    *)

\* Stats tell missing assets from others, and none is of the future.
StampsTell ==
  /\ \A a \in Assets : stamp[a] <= changes /\ seen[a] <= changes
  /\ \A a \in Assets : (stamp[a] = 0) <=> (status[a] = "missing")
  /\ state \in Stats => \A a \in Assets : state[a] <= changes
  /\ changes >= 1

\* As long as nothing changes, what the check has seen so far is true.
SeenIsTrue ==
  quiet =>
    /\ stage \in {"before", "after"} => \A a \in Assets : a < next => seen[a] = stamp[a]
    /\ stage = "verify" => \A a \in Assets : a < next => status[a] = "installed"
    /\ stage = "after" => Truthful(report, how)
    /\ stage = "replied" => state = stamp

\* An asset whose stat is the remembered one is as it was reported, but for a
\* change the stats do not show.
StatsStandForReport ==
  stage # "after" /\ ~raced /\ state \in Stats =>
    /\ \A a \in Assets : a < report \/ report = 0 =>
         state[a] # 0 /\ (~unseen /\ stamp[a] = state[a] => status[a] = "installed")
    /\ report # 0 =>
         /\ (state[report] = 0) <=> (how = "missing")
         /\ how # "installed"
         /\ ~unseen /\ stamp[report] = state[report] => status[report] = how

ReadinessInv == ReadinessTypeOK /\ StampsTell /\ SeenIsTrue /\ StatsStandForReport

-----------------------------------------------------------------------------
\* A server starts with nothing remembered.
LEMMA ReadinessInitial == StartServer => ReadinessInv
<1> SUFFICES ASSUME StartServer PROVE ReadinessInv
  OBVIOUS
<1>1. ReadinessTypeOK
  <2>1. quiet \in BOOLEAN /\ raced \in BOOLEAN /\ unseen \in BOOLEAN
    BY DEF StartServer
  <2>2. /\ status \in [Assets -> Statuses] /\ stamp \in Stats /\ changes \in Nat
        /\ stage \in {"idle", "before", "verify", "after", "replied"}
        /\ next \in 1 .. N + 1 /\ seen \in Stats
    BY NAssumption DEF StartServer, Assets, Stats, Statuses
  <2>3. state \in Stats \cup {NoState} /\ report \in 0 .. N /\ how \in Statuses
    BY NAssumption DEF StartServer, Statuses
  <2> QED
    BY <2>1, <2>2, <2>3 DEF ReadinessTypeOK
<1>2. StampsTell /\ SeenIsTrue
  BY NAssumption, NoStateIsNoStats DEF StartServer, StampsTell, SeenIsTrue, Stats, Assets
<1>3. state \notin Stats
  BY NoStateIsNoStats DEF StartServer
<1> QED
  BY <1>1, <1>2, <1>3 DEF ReadinessInv, StatsStandForReport

\* Every step of the check and every change of an asset keeps the invariant.
LEMMA ReadinessInductive == ReadinessInv /\ [CheckOrChange]_readiness => ReadinessInv'
<1> SUFFICES ASSUME ReadinessInv, [CheckOrChange]_readiness PROVE ReadinessInv'
  OBVIOUS
<1> USE NAssumption, NoStateIsNoStats
<1> USE DEF ReadinessInv, ReadinessTypeOK, StampsTell, SeenIsTrue, StatsStandForReport, Truthful, Assets,
        Statuses, Stats, assets, cache
<1>1. ASSUME Begin PROVE ReadinessInv'
  <2>1. ReadinessTypeOK'
    <3> HIDE DEF StampsTell, SeenIsTrue, StatsStandForReport, Truthful
    <3>1. quiet' \in BOOLEAN /\ raced' \in BOOLEAN /\ unseen' \in BOOLEAN
      BY <1>1 DEF Begin
    <3>2. status' \in [Assets -> Statuses] /\ stamp' \in Stats /\ changes' \in Nat
      BY <1>1 DEF Begin
    <3>3. stage' \in {"idle", "before", "verify", "after", "replied"}
      BY <1>1 DEF Begin
    <3>5. next' \in 1 .. N + 1
      BY <1>1 DEF Begin
    <3>6. seen' \in Stats
      BY <1>1 DEF Begin
    <3>4. state' \in Stats \cup {NoState} /\ report' \in 0 .. N /\ how' \in Statuses
      BY <1>1 DEF Begin
    <3> QED
      BY <3>1, <3>2, <3>3, <3>4, <3>5, <3>6
  <2>2. StampsTell'
    BY <1>1 DEF Begin
  <2>3. SeenIsTrue'
    BY <1>1 DEF Begin
  <2>4. StatsStandForReport'
    BY <1>1 DEF Begin
  <2> QED
    BY <2>1, <2>2, <2>3, <2>4
<1>2. ASSUME Look PROVE ReadinessInv'
  <2>1. ReadinessTypeOK'
    <3> HIDE DEF StampsTell, SeenIsTrue, StatsStandForReport, Truthful
    <3>1. quiet' \in BOOLEAN /\ raced' \in BOOLEAN /\ unseen' \in BOOLEAN
      BY <1>2 DEF Look
    <3>2. status' \in [Assets -> Statuses] /\ stamp' \in Stats /\ changes' \in Nat
      BY <1>2 DEF Look
    <3>3. stage' \in {"idle", "before", "verify", "after", "replied"}
      BY <1>2 DEF Look
    <3>5. next' \in 1 .. N + 1
      BY <1>2 DEF Look
    <3>6. seen' \in Stats
      BY <1>2 DEF Look
    <3>4. state' \in Stats \cup {NoState} /\ report' \in 0 .. N /\ how' \in Statuses
      BY <1>2 DEF Look
    <3> QED
      BY <3>1, <3>2, <3>3, <3>4, <3>5, <3>6
  <2>2. StampsTell'
    BY <1>2 DEF Look
  <2>3. SeenIsTrue'
    BY <1>2, SMTT(60) DEF Look
  <2>4. StatsStandForReport'
    BY <1>2 DEF Look
  <2> QED
    BY <2>1, <2>2, <2>3, <2>4
<1>3. ASSUME Reuse PROVE ReadinessInv'
  <2>1. ReadinessTypeOK'
    <3> HIDE DEF StampsTell, SeenIsTrue, StatsStandForReport, Truthful
    <3>1. quiet' \in BOOLEAN /\ raced' \in BOOLEAN /\ unseen' \in BOOLEAN
      BY <1>3 DEF Reuse
    <3>2. status' \in [Assets -> Statuses] /\ stamp' \in Stats /\ changes' \in Nat
      BY <1>3 DEF Reuse
    <3>3. stage' \in {"idle", "before", "verify", "after", "replied"}
      BY <1>3 DEF Reuse
    <3>5. next' \in 1 .. N + 1
      BY <1>3 DEF Reuse
    <3>6. seen' \in Stats
      BY <1>3 DEF Reuse
    <3>4. state' \in Stats \cup {NoState} /\ report' \in 0 .. N /\ how' \in Statuses
      BY <1>3 DEF Reuse
    <3> QED
      BY <3>1, <3>2, <3>3, <3>4, <3>5, <3>6
  <2>2. StampsTell'
    BY <1>3 DEF Reuse
  <2>3. SeenIsTrue'
    BY <1>3 DEF Reuse
  <2>4. StatsStandForReport'
    BY <1>3 DEF Reuse
  <2> QED
    BY <2>1, <2>2, <2>3, <2>4
<1>4. ASSUME Distrust PROVE ReadinessInv'
  <2>1. ReadinessTypeOK'
    <3> HIDE DEF StampsTell, SeenIsTrue, StatsStandForReport, Truthful
    <3>1. quiet' \in BOOLEAN /\ raced' \in BOOLEAN /\ unseen' \in BOOLEAN
      BY <1>4 DEF Distrust
    <3>2. status' \in [Assets -> Statuses] /\ stamp' \in Stats /\ changes' \in Nat
      BY <1>4 DEF Distrust
    <3>3. stage' \in {"idle", "before", "verify", "after", "replied"}
      BY <1>4 DEF Distrust
    <3>5. next' \in 1 .. N + 1
      BY <1>4 DEF Distrust
    <3>6. seen' \in Stats
      BY <1>4 DEF Distrust
    <3>4. state' \in Stats \cup {NoState} /\ report' \in 0 .. N /\ how' \in Statuses
      BY <1>4 DEF Distrust
    <3> QED
      BY <3>1, <3>2, <3>3, <3>4, <3>5, <3>6
  <2>2. StampsTell'
    BY <1>4 DEF Distrust
  <2>3. SeenIsTrue'
    BY <1>4 DEF Distrust
  <2>4. StatsStandForReport'
    BY <1>4 DEF Distrust
  <2> QED
    BY <2>1, <2>2, <2>3, <2>4
<1>5. ASSUME Pass PROVE ReadinessInv'
  <2>1. ReadinessTypeOK'
    <3> HIDE DEF StampsTell, SeenIsTrue, StatsStandForReport, Truthful
    <3>1. quiet' \in BOOLEAN /\ raced' \in BOOLEAN /\ unseen' \in BOOLEAN
      BY <1>5 DEF Pass
    <3>2. status' \in [Assets -> Statuses] /\ stamp' \in Stats /\ changes' \in Nat
      BY <1>5 DEF Pass
    <3>3. stage' \in {"idle", "before", "verify", "after", "replied"}
      BY <1>5 DEF Pass
    <3>5. next' \in 1 .. N + 1
      BY <1>5 DEF Pass
    <3>6. seen' \in Stats
      BY <1>5 DEF Pass
    <3>4. state' \in Stats \cup {NoState} /\ report' \in 0 .. N /\ how' \in Statuses
      BY <1>5 DEF Pass
    <3> QED
      BY <3>1, <3>2, <3>3, <3>4, <3>5, <3>6
  <2>2. StampsTell'
    BY <1>5 DEF Pass
  <2>3. SeenIsTrue'
    BY <1>5 DEF Pass
  <2>4. StatsStandForReport'
    BY <1>5 DEF Pass
  <2> QED
    BY <2>1, <2>2, <2>3, <2>4
<1>6. ASSUME Conclude PROVE ReadinessInv'
  <2>1. ReadinessTypeOK'
    <3> HIDE DEF StampsTell, SeenIsTrue, StatsStandForReport, Truthful
    <3>1. quiet' \in BOOLEAN /\ raced' \in BOOLEAN /\ unseen' \in BOOLEAN
      BY <1>6 DEF Conclude
    <3>2. status' \in [Assets -> Statuses] /\ stamp' \in Stats /\ changes' \in Nat
      BY <1>6 DEF Conclude
    <3>3. stage' \in {"idle", "before", "verify", "after", "replied"}
      BY <1>6 DEF Conclude
    <3>5. next' \in 1 .. N + 1
      BY <1>6 DEF Conclude
    <3>6. seen' \in Stats
      BY <1>6 DEF Conclude
    <3>4. state' \in Stats \cup {NoState} /\ report' \in 0 .. N /\ how' \in Statuses
      BY <1>6 DEF Conclude
    <3> QED
      BY <3>1, <3>2, <3>3, <3>4, <3>5, <3>6
  <2>2. StampsTell'
    BY <1>6 DEF Conclude
  <2>3. SeenIsTrue'
    BY <1>6, SMTT(60) DEF Conclude
  <2>4. StatsStandForReport'
    BY <1>6 DEF Conclude
  <2> QED
    BY <2>1, <2>2, <2>3, <2>4
<1>7. ASSUME Raise PROVE ReadinessInv'
  <2>1. ReadinessTypeOK'
    <3> HIDE DEF StampsTell, SeenIsTrue, StatsStandForReport, Truthful
    <3>1. quiet' \in BOOLEAN /\ raced' \in BOOLEAN /\ unseen' \in BOOLEAN
      BY <1>7 DEF Raise
    <3>2. status' \in [Assets -> Statuses] /\ stamp' \in Stats /\ changes' \in Nat
      BY <1>7 DEF Raise
    <3>3. stage' \in {"idle", "before", "verify", "after", "replied"}
      BY <1>7 DEF Raise
    <3>5. next' \in 1 .. N + 1
      BY <1>7 DEF Raise
    <3>6. seen' \in Stats
      BY <1>7 DEF Raise
    <3>4. state' \in Stats \cup {NoState} /\ report' \in 0 .. N /\ how' \in Statuses
      BY <1>7 DEF Raise
    <3> QED
      BY <3>1, <3>2, <3>3, <3>4, <3>5, <3>6
  <2>2. StampsTell'
    BY <1>7 DEF Raise
  <2>3. SeenIsTrue'
    BY <1>7 DEF Raise
  <2>4. StatsStandForReport'
    BY <1>7 DEF Raise
  <2> QED
    BY <2>1, <2>2, <2>3, <2>4
<1>8. ASSUME Remember PROVE ReadinessInv'
  <2>1. ReadinessTypeOK'
    <3> HIDE DEF StampsTell, SeenIsTrue, StatsStandForReport, Truthful
    <3>1. quiet' \in BOOLEAN /\ raced' \in BOOLEAN /\ unseen' \in BOOLEAN
      BY <1>8 DEF Remember
    <3>2. status' \in [Assets -> Statuses] /\ stamp' \in Stats /\ changes' \in Nat
      BY <1>8 DEF Remember
    <3>3. stage' \in {"idle", "before", "verify", "after", "replied"}
      BY <1>8 DEF Remember
    <3>5. next' \in 1 .. N + 1
      BY <1>8 DEF Remember
    <3>6. seen' \in Stats
      BY <1>8 DEF Remember
    <3>4. state' \in Stats \cup {NoState} /\ report' \in 0 .. N /\ how' \in Statuses
      BY <1>8 DEF Remember
    <3> QED
      BY <3>1, <3>2, <3>3, <3>4, <3>5, <3>6
  <2>2. StampsTell'
    BY <1>8 DEF Remember
  <2>3. SeenIsTrue'
    BY <1>8 DEF Remember
  <2>4. StatsStandForReport'
    <3>1. CASE ~quiet
      <4>1. raced'
        BY <1>8, <3>1 DEF Remember
      <4> QED
        BY <4>1
    <3>2. CASE quiet
      <4>1. state' = stamp
        BY <1>8, <3>2 DEF Remember
      <4>2. report \in 0 .. N /\ Truthful(report, how)
        BY <1>8, <3>2 DEF Remember
      <4>3. report' = report /\ how' = how /\ stamp' = stamp /\ status' = status
        BY <1>8 DEF Remember
      <4>4. \A a \in Assets : (stamp[a] = 0) <=> (status[a] = "missing")
        OBVIOUS
      <4>5. \A a \in Assets : a < report \/ report = 0 => status[a] = "installed"
        BY <4>2
      <4>6. report # 0 => /\ how = status[report] /\ how # "installed"
                          /\ report \in Assets
        BY <4>2
      <4> HIDE DEF Truthful, Assets
      <4> QED
        BY <4>1, <4>3, <4>4, <4>5, <4>6
    <3> QED
      BY <3>1, <3>2
  <2> QED
    BY <2>1, <2>2, <2>3, <2>4
<1>9. ASSUME NEW a \in Assets, Change(a) PROVE ReadinessInv'
  <2>1. ReadinessTypeOK'
    <3> HIDE DEF StampsTell, SeenIsTrue, StatsStandForReport, Truthful
    <3>1. quiet' \in BOOLEAN /\ raced' \in BOOLEAN /\ unseen' \in BOOLEAN
      BY <1>9 DEF Change
    <3>2. status' \in [Assets -> Statuses] /\ stamp' \in Stats /\ changes' \in Nat
      BY <1>9 DEF Change
    <3>3. stage' \in {"idle", "before", "verify", "after", "replied"}
      BY <1>9 DEF Change
    <3>5. next' \in 1 .. N + 1
      BY <1>9 DEF Change
    <3>6. seen' \in Stats
      BY <1>9 DEF Change
    <3>4. state' \in Stats \cup {NoState} /\ report' \in 0 .. N /\ how' \in Statuses
      BY <1>9 DEF Change
    <3> QED
      BY <3>1, <3>2, <3>3, <3>4, <3>5, <3>6
  <2> PICK s \in Statuses :
        /\ status' = [status EXCEPT ![a] = s]
        /\ stamp' = [stamp EXCEPT ![a] = IF s = "missing" THEN 0 ELSE changes']
    BY <1>9 DEF Change
  <2>5. /\ changes' = changes + 1
        /\ UNCHANGED <<stage, next, seen, state, report, how, raced, unseen>>
    BY <1>9 DEF Change
  <2>6. /\ status'[a] = s
        /\ stamp'[a] = IF s = "missing" THEN 0 ELSE changes + 1
    BY <2>5
  <2>7. \A b \in Assets : b # a => status'[b] = status[b] /\ stamp'[b] = stamp[b]
    OBVIOUS
  <2>2. StampsTell'
    <3>1. changes \in Nat /\ changes' = changes + 1 /\ changes' >= 1
      BY <2>5
    <3>2. \A b \in Assets : /\ stamp[b] \in Nat /\ seen[b] \in Nat
                           /\ stamp[b] <= changes /\ seen[b] <= changes
      OBVIOUS
    <3>3. state \in Stats => \A b \in Assets : state[b] \in Nat /\ state[b] <= changes
      OBVIOUS
    <3>4. \A b \in Assets : (stamp[b] = 0) <=> (status[b] = "missing")
      OBVIOUS
    <3>5. Stats' = Stats /\ Assets' = Assets
      OBVIOUS
    <3> HIDE DEF ReadinessInv, ReadinessTypeOK, SeenIsTrue, StatsStandForReport, Truthful, Assets,
             Statuses, Stats
    <3>6. \A b \in Assets : stamp'[b] <= changes' /\ seen'[b] <= changes'
      <4>1. stamp'[a] <= changes + 1
        BY <2>6, <3>1
      <4> QED
        BY <2>5, <2>7, <3>1, <3>2, <4>1
    <3>7. \A b \in Assets : (stamp'[b] = 0) <=> (status'[b] = "missing")
      <4>1. (stamp'[a] = 0) <=> (status'[a] = "missing")
        BY <2>6, <3>1
      <4> QED
        BY <2>7, <3>4, <4>1
    <3>8. state' \in Stats => \A b \in Assets : state'[b] <= changes'
      BY <2>5, <3>1, <3>3
    <3> QED
      BY <3>1, <3>5, <3>6, <3>7, <3>8
  <2>3. SeenIsTrue'
    BY <1>9 DEF Change
  <2>4. StatsStandForReport'
    <3> SUFFICES ASSUME stage # "after", ~raced, state \in Stats PROVE StatsStandForReport'
      BY <2>5
    <3>1. state[a] <= changes
      OBVIOUS
    <3>2. stamp'[a] = state[a] => state[a] = 0 /\ status'[a] = "missing"
      <4>1. state[a] # changes + 1
        BY <3>1
      <4> QED
        BY <2>6, <4>1
    <3>3. ASSUME NEW b \in Assets, b < report \/ report = 0
          PROVE  state[b] # 0 /\ (~unseen /\ stamp'[b] = state[b] => status'[b] = "installed")
      BY <2>7, <3>2, <3>3
    <3>4. ASSUME report # 0
          PROVE  /\ (state[report] = 0) <=> (how = "missing")
                 /\ how # "installed"
                 /\ ~unseen /\ stamp'[report] = state[report] => status'[report] = how
      <4>1. report \in Assets
        BY <3>4
      <4>2. /\ (state[report] = 0) <=> (how = "missing")
            /\ how # "installed"
            /\ ~unseen /\ stamp[report] = state[report] => status[report] = how
        BY <3>4
      <4>3. CASE report = a
        BY <4>2, <4>3, <3>2
      <4>4. CASE report # a
        BY <4>1, <4>2, <4>4, <2>7
      <4> QED
        BY <4>3, <4>4
    <3> QED
      BY <2>5, <3>3, <3>4
  <2> QED
    BY <2>1, <2>2, <2>3, <2>4
<1>10. ASSUME NEW a \in Assets, Slip(a) PROVE ReadinessInv'
  <2>1. ReadinessTypeOK'
    <3> HIDE DEF StampsTell, SeenIsTrue, StatsStandForReport, Truthful
    <3>1. quiet' \in BOOLEAN /\ raced' \in BOOLEAN /\ unseen' \in BOOLEAN
      BY <1>10 DEF Slip
    <3>2. status' \in [Assets -> Statuses] /\ stamp' \in Stats /\ changes' \in Nat
      BY <1>10 DEF Slip
    <3>3. stage' \in {"idle", "before", "verify", "after", "replied"}
      BY <1>10 DEF Slip
    <3>5. next' \in 1 .. N + 1
      BY <1>10 DEF Slip
    <3>6. seen' \in Stats
      BY <1>10 DEF Slip
    <3>4. state' \in Stats \cup {NoState} /\ report' \in 0 .. N /\ how' \in Statuses
      BY <1>10 DEF Slip
    <3> QED
      BY <3>1, <3>2, <3>3, <3>4, <3>5, <3>6
  <2>2. StampsTell'
    <3>1. \A b \in Assets : (status'[b] = "missing") <=> (status[b] = "missing")
      BY <1>10 DEF Slip
    <3>2. /\ stamp' = stamp /\ seen' = seen /\ state' = state
          /\ changes \in Nat /\ changes' = changes + 1
      BY <1>10 DEF Slip
    <3>3. \A b \in Assets : stamp'[b] <= changes' /\ seen'[b] <= changes'
      <4>1. \A b \in Assets : /\ stamp[b] \in Nat /\ seen[b] \in Nat
                             /\ stamp[b] <= changes /\ seen[b] <= changes
        OBVIOUS
      <4> QED
        BY ONLY <3>2, <4>1
    <3>4. state' \in Stats => \A b \in Assets : state'[b] <= changes'
      <4>1. state \in Stats => \A b \in Assets : state[b] \in Nat /\ state[b] <= changes
        OBVIOUS
      <4> QED
        BY ONLY <3>2, <4>1
    <3>5. \A b \in Assets : (stamp[b] = 0) <=> (status[b] = "missing")
      OBVIOUS
    <3>6. changes >= 1
      OBVIOUS
    <3> HIDE DEF ReadinessInv, ReadinessTypeOK, SeenIsTrue, StatsStandForReport, Truthful, Assets,
             Statuses, Stats
    <3> QED
      BY <3>1, <3>2, <3>3, <3>4, <3>5, <3>6
  <2>3. SeenIsTrue'
    BY <1>10 DEF Slip
  <2>4. StatsStandForReport'
    BY <1>10 DEF Slip
  <2> QED
    BY <2>1, <2>2, <2>3, <2>4
<1>11. CASE UNCHANGED readiness
  BY <1>11, SMTT(60) DEF readiness
<1> QED
  BY <1>1, <1>2, <1>3, <1>4, <1>5, <1>6, <1>7, <1>8, <1>9, <1>10, <1>11 DEF CheckOrChange

LEMMA ReadinessInvariance == ReadinessSpec => []ReadinessInv
<1>1. StartServer => ReadinessInv
  BY ReadinessInitial
<1>2. ReadinessInv /\ [CheckOrChange]_readiness => ReadinessInv'
  BY ReadinessInductive
<1> QED
  BY <1>1, <1>2, PTL DEF ReadinessSpec

-----------------------------------------------------------------------------
\* The check's fields keep their types.
THEOREM ReadinessTypeCorrect == ReadinessSpec => []ReadinessTypeOK
<1>1. ReadinessInv => ReadinessTypeOK
  BY DEF ReadinessInv
<1> QED
  BY <1>1, ReadinessInvariance, PTL

\* The cache is only ever wrong about a change that fell into the verification
\* that filled it, or a later one that left the stats of the listed files alone.
THEOREM CacheIsSound == ReadinessSpec => []SoundUnlessRaced
<1>1. ReadinessInv => SoundUnlessRaced
  BY DEF ReadinessInv, ReadinessTypeOK, SeenIsTrue, StatsStandForReport, SoundUnlessRaced, Truthful, Assets
<1> QED
  BY <1>1, ReadinessInvariance, PTL
=============================================================================
