------------------------ MODULE PluginLoaderProofs -------------------------
(***************************************************************************)
(* What holds of PluginLoader.  For every set of packages, processes,      *)
(* callers' inputs and faults: type correctness, and the two invariants    *)
(* that keep an unreviewed plugin from starting and its grants within what *)
(* an operator or the trust level gave it.  For a single process, at the   *)
(* end: seals and stops outlast every fault, and without faults a restart  *)
(* reads back what is in memory and revocations hold.                      *)
(***************************************************************************)
EXTENDS PluginLoader, TLAPS

(***************************************************************************)
(* The pure rules of PluginRecords return records and manifests.           *)
(***************************************************************************)

LEMMA DefaultsType ==
  ASSUME NEW k \in Pkg
  PROVE  /\ DefaultStatus(k) \in Status
         /\ DefaultGranted(k) \in SUBSET Decl
         /\ LegacyRequired(k, DefaultStatus(k), DefaultGranted(k)) \in BOOLEAN
BY RecordsAssumption
   DEF DefaultStatus, DefaultGranted, LegacyRequired, Status

LEMMA InstallRecordType ==
  ASSUME NEW prev \in Record \cup {None}, NEW k \in Pkg
  PROVE  InstallRecord(prev, k) \in Record
<1>1. NewInstall(k) \in Record
  BY DefaultsType DEF NewInstall, Record, Reviewer
<1>2. ASSUME prev \in Record PROVE Upgrade(prev, k) \in Record
  <2>1. PreserveGranted(prev, k) \in SUBSET Decl
    BY <1>2 DEF PreserveGranted, Record
  <2>2. ReviewForUpgrade(prev, k) \in BOOLEAN
    BY DEF ReviewForUpgrade
  <2> QED
    BY <1>2, <2>1, <2>2 DEF Upgrade, Record, Reviewer, Status
<1> QED
  BY <1>1, <1>2 DEF InstallRecord

LEMMA ViewType ==
  ASSUME NEW k \in Pkg \cup {None}, NEW m \in Manifest \cup {None}
  PROVE  View(k, m) \in Record \cup {None}
<1>1. CASE k = None
  BY <1>1 DEF View
<1>2. CASE k # None /\ m = None
  BY <1>2, DefaultsType DEF View, Record, Reviewer
<1>3. CASE k # None /\ m # None
  BY <1>3, DefaultsType DEF View, Record, Manifest
<1> QED
  BY <1>1, <1>2, <1>3

LEMMA ManifestOfType ==
  ASSUME NEW rec \in Record, NEW sealed \in Pkg \cup {None}
  PROVE  ManifestOf(rec, sealed) \in Manifest
BY DEF ManifestOf, Record, Manifest

LEMMA EditedType ==
  ASSUME NEW rec \in Record
  PROVE  /\ \A s \in Status : [rec EXCEPT !.status = s] \in Record
         /\ \A ds \in SUBSET Decl : [rec EXCEPT !.granted = ds] \in Record
         /\ \A ds \in SUBSET Decl, v \in Reviewer : Granted(rec, ds, v) \in Record
BY DEF Record, Granted, Status

LEMMA SealType ==
  ASSUME NEW m \in Manifest \cup {None}
  PROVE  SealOf(m) \in Pkg \cup {None}
BY DEF SealOf, Manifest

(***************************************************************************)
(* The state's parts that the calls share.                                 *)
(***************************************************************************)

\* What a call works on is a record.
LEMMA FoundType ==
  ASSUME TypeOK, NEW p \in Proc, NEW rec \in Found(p)
  PROVE  rec \in Record
<1>1. CASE mem[p] # None
  BY <1>1 DEF Found, TypeOK
<1>2. CASE mem[p] = None
  <2>1. PICK m \in Readings(p) : rec = View(tree, m) /\ rec # None
    BY <1>2 DEF Found
  <2>2. m \in Manifest \cup {None}
    BY <2>1 DEF Readings, TypeOK
  <2> QED
    BY <2>1, <2>2, ViewType DEF TypeOK
<1> QED
  BY <1>1, <1>2

LEMMA ReadingsType ==
  ASSUME TypeOK, NEW p \in Proc, NEW m \in Readings(p)
  PROVE  m \in Manifest \cup {None}
BY DEF TypeOK, Readings

LEMMA WithoutBackupsType ==
  ASSUME TypeOK, NEW k \in Pkg
  PROVE  WithoutBackups(k) \in [Proc -> Saved \cup {None}]
BY DEF TypeOK, WithoutBackups

\* The variables that StartPersist and StartRevoke set keep their types.
CallTypes ==
  /\ mem' \in [Proc -> Record \cup {None}]
  /\ pc' \in [Proc -> PC]
  /\ seal' \in [Proc -> Pkg \cup {None}]
  /\ again' \in [Proc -> BOOLEAN]

LEMMA StartPersistType ==
  ASSUME TypeOK, NEW p \in Proc, NEW rec \in Record, NEW twice \in BOOLEAN,
         StartPersist(p, rec, twice)
  PROVE  CallTypes
<1>1. seal' \in [Proc -> Pkg \cup {None}]
  BY ReadingsType, SealType DEF StartPersist, TypeOK
<1>2. mem' \in [Proc -> Record \cup {None}] /\ pc' \in [Proc -> PC]
  BY DEF StartPersist, Goto, PC, TypeOK
<1>3. again' \in [Proc -> BOOLEAN]
  BY DEF StartPersist, TypeOK
<1> QED
  BY <1>1, <1>2, <1>3 DEF CallTypes

LEMMA StartRevokeType ==
  ASSUME TypeOK, NEW p \in Proc, NEW rec \in Record, StartRevoke(p, rec)
  PROVE  CallTypes
<1> DEFINE cleared == [rec EXCEPT !.granted = {}]
<1>1. cleared \in Record /\ [cleared EXCEPT !.status = "revoked"] \in Record
  BY EditedType DEF Status
<1> HIDE DEF cleared
<1>2. CASE StartPersist(p, [cleared EXCEPT !.status = "revoked"], rec.status # "revoked")
  BY <1>1, <1>2, StartPersistType
<1>3. CASE mem' = [mem EXCEPT ![p] = cleared] /\ Goto(p, "idle") /\ UNCHANGED <<seal, again>>
  BY <1>1, <1>3 DEF CallTypes, Goto, PC, TypeOK
<1> QED
  BY <1>2, <1>3 DEF StartRevoke, cleared

(***************************************************************************)
(* Type correctness.                                                       *)
(***************************************************************************)

LEMMA InitType == Init => TypeOK
BY DEF Init, TypeOK, PC

\* What EndInstall leaves has its type, whatever the call did before.
LEMMA EndInstallType ==
  ASSUME TypeOK, NEW p \in Proc, pend[p] \in Record, EndInstall(p)
  PROVE  /\ unpacked' \subseteq Pkg
         /\ backup' \in [Proc -> Saved \cup {None}]
         /\ pend' \in [Proc -> Record \cup {None}]
         /\ pc' \in [Proc -> PC]
         /\ UNCHANGED <<revoked, seal, again, gov, approved, shown>>
<1>1. pend[p].pkg \in Pkg
  BY DEF TypeOK, Record
<1> QED
  BY <1>1, WithoutBackupsType DEF EndInstall, Goto, PC, TypeOK

\* A call that is installing has a record to commit.
InstallPending ==
  \A p \in Proc : pc[p] \in {"staged", "moved", "copied"} => pend[p] \in Record

\* A call that is revoking a version has one.
Revocation == [version : Version, read : SUBSET Version]

GovernPending ==
  \A p \in Proc : pc[p] = "govern" => gov[p] \in Revocation

\* A call that is writing the manifest has a record to write.
PersistPending ==
  \A p \in Proc : pc[p] = "persist" => mem[p] \in Record

Pending == InstallPending /\ GovernPending /\ PersistPending

\* A call that starts to persist, or that ends, leaves the others where they are.
LEMMA StartPersistPending ==
  ASSUME TypeOK, Pending, NEW p \in Proc, NEW rec \in Record, NEW twice,
         StartPersist(p, rec, twice), UNCHANGED <<pend, gov>>
  PROVE  Pending'
BY DEF StartPersist, Goto, TypeOK, Pending, InstallPending, GovernPending, PersistPending, Revocation

LEMMA StartRevokePending ==
  ASSUME TypeOK, Pending, NEW p \in Proc, NEW rec \in Record, StartRevoke(p, rec),
         pend' = pend, gov' = gov \/ gov' = [gov EXCEPT ![p] = None]
  PROVE  Pending'
<1>1. PICK new \in Record, step \in {"idle", "persist"} :
        mem' = [mem EXCEPT ![p] = new] /\ pc' = [pc EXCEPT ![p] = step]
  <2>1. [rec EXCEPT !.granted = {}] \in Record
    BY EditedType
  <2>2. [[rec EXCEPT !.granted = {}] EXCEPT !.status = "revoked"] \in Record
    BY <2>1, EditedType DEF Status
  <2> QED
    BY <2>1, <2>2 DEF StartRevoke, StartPersist, Goto
<1>2. InstallPending' /\ PersistPending'
  BY <1>1 DEF TypeOK, Pending, InstallPending, PersistPending
<1>3. GovernPending'
  BY <1>1 DEF TypeOK, Pending, GovernPending
<1> QED
  BY <1>2, <1>3 DEF Pending

LEMMA StepType ==
  ASSUME TypeOK, Pending, NEW p \in Proc, Step(p)
  PROVE  TypeOK' /\ Pending'
<1> USE DEF disk, call, history
<1>1. CASE Discover(p)
  <2>1. mem' \in [Proc -> Record \cup {None}]
    BY <1>1, ReadingsType, ViewType DEF Discover, TypeOK
  <2> QED
    BY <1>1, <2>1 DEF Discover, TypeOK, Pending, InstallPending, GovernPending, PersistPending, Revocation
<1>2. ASSUME NEW k \in Pkg, InstallBegin(p, k)
      PROVE  TypeOK' /\ Pending'
  <2>1. InstallRecord(mem[p], k) \in Record
    BY InstallRecordType DEF TypeOK
  <2>2. pend' \in [Proc -> Record \cup {None}] /\ pend'[p] \in Record
    BY <1>2, <2>1 DEF InstallBegin, TypeOK
  <2>3. unpacked' \subseteq Pkg /\ backup' \in [Proc -> Saved \cup {None}]
    BY <1>2, WithoutBackupsType DEF InstallBegin, TypeOK
  <2> QED
    BY <1>2, <2>2, <2>3
       DEF InstallBegin, Goto, PC, TypeOK, Pending, InstallPending, GovernPending, PersistPending, Revocation
<1>3. CASE MoveAside(p)
  BY <1>3 DEF MoveAside, Goto, PC, Saved, TypeOK, Pending, InstallPending, GovernPending, PersistPending, Revocation
<1>4. CASE MoveFail(p)
  BY <1>4, EndInstallType
     DEF MoveFail, EndInstall, Goto, TypeOK, Pending, InstallPending, GovernPending, PersistPending, Revocation
<1>5. CASE CopyTree(p)
  BY <1>5
     DEF CopyTree, Goto, PC, Record, TypeOK, Pending, InstallPending, GovernPending, PersistPending, Revocation
<1>6. CASE CopyFail(p)
  <2>1. tree' \in Pkg \cup {None} /\ manifest' \in Manifest \cup {None}
    BY <1>6 DEF CopyFail, Saved, TypeOK
  <2> QED
    BY <1>6, <2>1, EndInstallType
       DEF CopyFail, EndInstall, Goto, TypeOK, Pending, InstallPending, GovernPending, PersistPending, Revocation
<1>7. CASE PrepareFail(p)
  BY <1>7, EndInstallType
     DEF PrepareFail, EndInstall, Goto, TypeOK, Pending, InstallPending, GovernPending, PersistPending, Revocation
<1>8. CASE InstallEnd(p)
  <2>1. manifest' \in Manifest \cup {None}
    BY <1>8, ManifestOfType DEF InstallEnd, TypeOK, Pending, InstallPending
  <2> QED
    BY <1>8, <2>1, EndInstallType
       DEF InstallEnd, EndInstall, Goto, TypeOK, Pending, InstallPending, GovernPending, PersistPending, Revocation
<1>9. ASSUME NEW ds \in Grants, NEW v \in Reviewers, Grant(p, ds, v)
      PROVE  TypeOK' /\ Pending'
  <2>1. PICK rec \in Found(p) :
          /\ StartPersist(p, Granted(rec, ds, v), FALSE)
          /\ approved' = approved \cup ds
          /\ shown' = shown \cup Declares[rec.pkg]
    BY <1>9 DEF Grant
  <2>2. rec \in Record /\ Granted(rec, ds, v) \in Record
    BY <2>1, FoundType, EditedType, LoaderAssumption
  <2>3. CallTypes
    BY <2>1, <2>2, StartPersistType
  <2>4. approved' \subseteq Decl /\ shown' \subseteq Decl
    BY <2>1, <2>2, LoaderAssumption, RecordsAssumption DEF TypeOK, Record
  <2>5. Pending'
    BY <1>9, <2>1, <2>2, StartPersistPending DEF Grant
  <2> QED
    BY <1>9, <2>3, <2>4, <2>5 DEF Grant, CallTypes, TypeOK
<1>10. CASE Enable(p)
  <2>1. PICK rec \in Found(p) : StartPersist(p, [rec EXCEPT !.status = "enabled"], FALSE)
    BY <1>10 DEF Enable
  <2>2. [rec EXCEPT !.status = "enabled"] \in Record
    BY FoundType, EditedType DEF Status
  <2>3. CallTypes
    BY <2>1, <2>2, StartPersistType
  <2> QED
    BY <1>10, <2>1, <2>2, <2>3, StartPersistPending DEF Enable, CallTypes, TypeOK
<1>11. ASSUME NEW to \in Targets, Transition(p, to)
       PROVE  TypeOK' /\ Pending'
  <2>1. PICK rec \in Found(p) : StartPersist(p, [rec EXCEPT !.status = to], FALSE)
    BY <1>11 DEF Transition
  <2>2. [rec EXCEPT !.status = to] \in Record
    BY FoundType, EditedType, LoaderAssumption
  <2>3. CallTypes
    BY <2>1, <2>2, StartPersistType
  <2> QED
    BY <1>11, <2>1, <2>2, <2>3, StartPersistPending DEF Transition, CallTypes, TypeOK
<1>12. CASE Revoke(p)
  <2>1. PICK rec \in Found(p) : StartRevoke(p, rec)
    BY <1>12 DEF Revoke
  <2>2. CallTypes
    BY <2>1, FoundType, StartRevokeType
  <2> QED
    BY <1>12, <2>1, <2>2, FoundType, StartRevokePending DEF Revoke, CallTypes, TypeOK
<1>13. CASE PersistWrite(p)
  <2>1. manifest' \in Manifest \cup {None}
    BY <1>13, ManifestOfType DEF PersistWrite, TypeOK, Pending, PersistPending
  <2> QED
    BY <1>13, <2>1
       DEF PersistWrite, PC, Goto, TypeOK, Pending, InstallPending, GovernPending, PersistPending, Revocation
<1>14. CASE PersistFail(p)
  BY <1>14 DEF PersistFail, PC, Goto, TypeOK, Pending, InstallPending, GovernPending, PersistPending, Revocation
<1>15. ASSUME NEW v \in Revocable, RevokeVersion(p, v)
       PROVE  TypeOK' /\ Pending'
  <2>1. [version |-> v, read |-> revoked] \in [version : Version, read : SUBSET Version]
    BY <1>15, LoaderAssumption DEF RevokeVersion, TypeOK
  <2> QED
    BY <1>15, <2>1
       DEF RevokeVersion, PC, Goto, TypeOK, Pending, InstallPending, GovernPending, PersistPending, Revocation
<1>16. CASE GovernanceWrite(p)
  <2>1. gov[p].version \in Version /\ gov[p].read \subseteq Version
    BY <1>16 DEF GovernanceWrite, TypeOK, Pending, GovernPending, Revocation
  <2>2. revoked' \in (SUBSET Version) \cup {None} /\ gov' \in [Proc -> [version : Version, read : SUBSET Version] \cup {None}]
    BY <1>16, <2>1 DEF GovernanceWrite, TypeOK
  <2>3. CASE mem[p] # None /\ StartRevoke(p, mem[p])
    <3>1. mem[p] \in Record
      BY <2>3 DEF TypeOK
    <3>2. CallTypes
      BY <2>3, <3>1, StartRevokeType
    <3> QED
      BY <1>16, <2>2, <2>3, <3>1, <3>2, StartRevokePending DEF GovernanceWrite, CallTypes, TypeOK
  <2>4. CASE Goto(p, "idle") /\ UNCHANGED <<mem, seal, again>>
    BY <1>16, <2>2, <2>4
       DEF GovernanceWrite, PC, Goto, TypeOK, Pending, InstallPending, GovernPending, PersistPending, Revocation
  <2> QED
    BY <1>16, <2>3, <2>4 DEF GovernanceWrite
<1>17. CASE CrashRestart(p)
  <2>1. tree' \in Pkg \cup {None}
    BY <1>17 DEF CrashRestart, TypeOK, Pending, InstallPending, Record
  <2>2. manifest' \in Manifest \cup {None} /\ revoked' \in (SUBSET Version) \cup {None}
    BY <1>17 DEF CrashRestart, TypeOK
  <2>3. mem' \in [Proc -> Record \cup {None}]
    BY <1>17, <2>1, <2>2, ViewType DEF CrashRestart, TypeOK
  <2> QED
    BY <1>17, <2>1, <2>2, <2>3
       DEF CrashRestart, PC, Goto, TypeOK, Pending, InstallPending, GovernPending, PersistPending, Revocation
<1> QED
  BY <1>1, <1>2, <1>3, <1>4, <1>5, <1>6, <1>7, <1>8, <1>9, <1>10, <1>11, <1>12,
     <1>13, <1>14, <1>15, <1>16, <1>17 DEF Step

\* Type correctness of the loader, with what its calls in progress rely on.
LEMMA TypeInvariant == Spec => [](TypeOK /\ Pending)
<1>1. Init => TypeOK /\ Pending
  BY InitType DEF Init, Pending, InstallPending, GovernPending, PersistPending
<1>2. TypeOK /\ Pending /\ [Next]_vars => (TypeOK /\ Pending)'
  <2>1. CASE UNCHANGED vars
    BY <2>1
       DEF vars, disk, call, history, TypeOK, Pending, InstallPending, GovernPending, PersistPending
  <2>2. CASE Next
    BY <2>2, StepType DEF Next
  <2> QED
    BY <2>1, <2>2
<1> QED
  BY <1>1, <1>2, PTL DEF Spec

\* Every variable keeps its type through installs, approvals, stops, revocations,
\* failures and crashes (loader.py): what is in memory, in a manifest and set
\* aside by an install is always a whole record.
THEOREM TypeCorrect == Spec => []TypeOK
BY TypeInvariant, PTL

(***************************************************************************)
(* Sound records: not active while a review is due, and granted nothing    *)
(* but what was approved or comes with a trusted package.  This is what    *)
(* ActiveIsReviewed and GrantsWithinApproval say of every record that is   *)
(* held or filed; it is preserved by each of loader.py's rules.            *)
(***************************************************************************)

TrustedDecls == UNION {Declares[k] : k \in Pkg \ ThirdParty}

Sound(r, granted) ==
  /\ r.status \in Active => ~r.required
  /\ r.granted \subseteq granted \cup TrustedDecls

LEMMA DefaultsSound ==
  ASSUME NEW k \in Pkg
  PROVE  /\ DefaultGranted(k) \subseteq TrustedDecls
         /\ k \in ThirdParty => DefaultStatus(k) \notin Active
BY DEF DefaultGranted, DefaultStatus, TrustedDecls, Active

LEMMA InstallRecordSound ==
  ASSUME NEW granted, NEW prev \in Record \cup {None}, NEW k \in Pkg,
         prev # None => Sound(prev, granted)
  PROVE  Sound(InstallRecord(prev, k), granted)
<1>1. Sound(NewInstall(k), granted)
  BY DefaultsSound DEF NewInstall, Sound
<1>2. ASSUME prev # None PROVE Sound(Upgrade(prev, k), granted)
  <2>1. PreserveGranted(prev, k) \subseteq prev.granted
    BY DEF PreserveGranted
  <2> QED
    BY <1>2, <2>1 DEF Upgrade, Sound, Active
<1> QED
  BY <1>1, <1>2 DEF InstallRecord

LEMMA ViewSound ==
  ASSUME NEW granted, NEW k \in Pkg, NEW m \in Manifest \cup {None},
         m # None => Sound(m, granted), View(k, m) # None
  PROVE  Sound(View(k, m), granted)
<1>1. CASE m = None
  BY <1>1, DefaultsSound DEF View, Sound, LegacyRequired
<1>2. CASE m # None
  BY <1>2, DefaultsSound DEF View, Sound, Manifest
<1> QED
  BY <1>1, <1>2

\* A transition other than to enabled reaches an active status from one only.
LEMMA ActiveFromActive ==
  ASSUME NEW s \in Status, NEW to \in Active \ {"enabled"}, CanTransition(s, to)
  PROVE  s \in Active
<1>1. to \in {"running", "suspended"}
  BY DEF Active
<1>2. CASE to = s
  BY <1>2
<1>3. CASE to \in AllowedTransitions[s]
  BY <1>1, <1>3 DEF AllowedTransitions, Reviewable, Status, Active
<1> QED
  BY <1>2, <1>3 DEF CanTransition

LEMMA EditedSound ==
  ASSUME NEW granted, NEW rec \in Record, Sound(rec, granted)
  PROVE  /\ \A ds, v : Sound(Granted(rec, ds, v), granted \cup ds)
         /\ CanEnable(rec) => Sound([rec EXCEPT !.status = "enabled"], granted)
         /\ \A to \in Status \ {"enabled"} :
              CanTransition(rec.status, to) => Sound([rec EXCEPT !.status = to], granted)
         /\ Sound([rec EXCEPT !.granted = {}], granted)
<1>1. \A ds, v : Sound(Granted(rec, ds, v), granted \cup ds)
  BY DEF Granted, Sound, Record
<1>2. CanEnable(rec) => Sound([rec EXCEPT !.status = "enabled"], granted)
  BY DEF CanEnable, Sound, Record
<1>3. ASSUME NEW to \in Status \ {"enabled"}, CanTransition(rec.status, to)
      PROVE  Sound([rec EXCEPT !.status = to], granted)
  <2>1. to \in Active => ~rec.required
    BY <1>3, ActiveFromActive DEF Sound, Record
  <2> QED
    BY <2>1 DEF Sound, Record
<1>4. Sound([rec EXCEPT !.granted = {}], granted)
  BY DEF Sound, Record
<1> QED
  BY <1>1, <1>2, <1>3, <1>4

LEMMA ManifestOfSound ==
  ASSUME NEW granted, NEW rec, NEW sealed, Sound(rec, granted)
  PROVE  Sound(ManifestOf(rec, sealed), granted)
BY DEF ManifestOf, Sound

LEMMA SoundGrows ==
  ASSUME NEW r, NEW granted, NEW more, granted \subseteq more, Sound(r, granted)
  PROVE  Sound(r, more)
BY DEF Sound

\* Every record that a process holds or a file stores is sound.
MemorySound   == \A p \in Proc : mem[p] # None => Sound(mem[p], approved)
PendingSound  == \A p \in Proc : pend[p] # None => Sound(pend[p], approved)
ManifestSound == manifest # None => Sound(manifest, approved)
BackupSound   ==
  \A p \in Proc : backup[p] # None /\ backup[p].manifest # None
                    => Sound(backup[p].manifest, approved)

RecordsSound == MemorySound /\ PendingSound /\ ManifestSound /\ BackupSound

LEMMA FoundSound ==
  ASSUME TypeOK, RecordsSound, NEW p \in Proc, NEW rec \in Found(p)
  PROVE  Sound(rec, approved)
<1>1. CASE mem[p] # None
  BY <1>1 DEF Found, RecordsSound, MemorySound
<1>2. CASE mem[p] = None
  <2>1. PICK m \in Readings(p) : rec = View(tree, m) /\ rec # None
    BY <1>2 DEF Found
  <2>2. m # None => Sound(m, approved)
    BY <2>1 DEF Readings, RecordsSound, ManifestSound
  <2>3. tree \in Pkg
    BY <2>1 DEF View, TypeOK
  <2> QED
    BY <2>1, <2>2, <2>3, ReadingsType, ViewSound
<1> QED
  BY <1>1, <1>2

\* An install's end, and the backups it removes, add no record.
LEMMA WithoutBackupsSound ==
  ASSUME TypeOK, RecordsSound, NEW k \in Pkg, backup' = WithoutBackups(k), UNCHANGED approved
  PROVE  BackupSound'
BY DEF TypeOK, RecordsSound, BackupSound, WithoutBackups

LEMMA EndInstallSound ==
  ASSUME TypeOK, RecordsSound, NEW p \in Proc, pend[p] \in Record, EndInstall(p)
  PROVE  BackupSound' /\ PendingSound' /\ UNCHANGED approved
<1>1. pend[p].pkg \in Pkg
  BY DEF Record
<1> QED
  BY <1>1, WithoutBackupsSound DEF EndInstall, TypeOK, RecordsSound, PendingSound

\* A call that changes the record of its process to a sound one keeps all sound.
LEMMA MemorySoundKept ==
  ASSUME TypeOK, RecordsSound, NEW p \in Proc, NEW rec,
         mem' = [mem EXCEPT ![p] = rec], rec # None => Sound(rec, approved'),
         approved \subseteq approved', UNCHANGED <<manifest, backup, pend>>
  PROVE  RecordsSound'
<1>1. MemorySound'
  BY SoundGrows DEF TypeOK, RecordsSound, MemorySound
<1>2. PendingSound' /\ ManifestSound'
  BY SoundGrows DEF RecordsSound, PendingSound, ManifestSound
<1>3. BackupSound'
  BY SoundGrows DEF RecordsSound, BackupSound
<1> QED
  BY <1>1, <1>2, <1>3 DEF RecordsSound

LEMMA StartRevokeSound ==
  ASSUME TypeOK, RecordsSound, NEW p \in Proc, NEW rec \in Record, Sound(rec, approved),
         StartRevoke(p, rec), UNCHANGED <<manifest, backup, pend, approved>>
  PROVE  RecordsSound'
<1> DEFINE cleared == [rec EXCEPT !.granted = {}]
<1>1. cleared \in Record /\ Sound(cleared, approved)
  BY EditedType, EditedSound
<1>2. CanTransition(rec.status, "revoked") => CanTransition(cleared.status, "revoked")
  BY DEF Record
<1> HIDE DEF cleared
<1>3. CanTransition(rec.status, "revoked")
        => Sound([cleared EXCEPT !.status = "revoked"], approved)
  BY <1>1, <1>2, EditedSound DEF Status
<1>4. PICK new : mem' = [mem EXCEPT ![p] = new] /\ Sound(new, approved)
  BY <1>1, <1>3 DEF StartRevoke, StartPersist, cleared
<1> QED
  BY <1>4, MemorySoundKept

LEMMA StepSound ==
  ASSUME TypeOK, Pending, RecordsSound, NEW p \in Proc, Step(p)
  PROVE  RecordsSound'
<1> USE DEF disk, call, history
<1>1. CASE Discover(p)
  <2>1. PICK m \in Readings(p) : mem' = [mem EXCEPT ![p] = View(tree, m)]
    BY <1>1 DEF Discover
  <2>2. View(tree, m) # None => Sound(View(tree, m), approved)
    <3>1. m # None => Sound(m, approved)
      BY <2>1 DEF Readings, RecordsSound, ManifestSound
    <3>2. View(tree, m) # None => tree \in Pkg
      BY DEF View, TypeOK
    <3> QED
      BY <2>1, <3>1, <3>2, ReadingsType, ViewSound
  <2> QED
    BY <1>1, <2>1, <2>2, MemorySoundKept DEF Discover
<1>2. ASSUME NEW k \in Pkg, InstallBegin(p, k)
      PROVE  RecordsSound'
  <2>1. Sound(InstallRecord(mem[p], k), approved)
    BY InstallRecordSound DEF TypeOK, RecordsSound, MemorySound
  <2>2. PendingSound'
    BY <1>2, <2>1 DEF InstallBegin, TypeOK, RecordsSound, PendingSound
  <2>3. BackupSound'
    BY <1>2, WithoutBackupsSound DEF InstallBegin
  <2> QED
    BY <1>2, <2>2, <2>3 DEF InstallBegin, RecordsSound, MemorySound, ManifestSound
<1>3. CASE MoveAside(p)
  <2>1. BackupSound'
    BY <1>3 DEF MoveAside, TypeOK, RecordsSound, BackupSound, ManifestSound
  <2> QED
    BY <1>3, <2>1 DEF MoveAside, RecordsSound, MemorySound, PendingSound, ManifestSound
<1>4. CASE MoveFail(p)
  BY <1>4, EndInstallSound
     DEF MoveFail, Pending, InstallPending, RecordsSound, MemorySound, ManifestSound
<1>5. CASE CopyTree(p)
  BY <1>5
     DEF CopyTree, RecordsSound, MemorySound, PendingSound, ManifestSound, BackupSound
<1>6. CASE CopyFail(p)
  <2>1. BackupSound' /\ PendingSound' /\ UNCHANGED <<approved, mem>>
    BY <1>6, EndInstallSound DEF CopyFail, Pending, InstallPending
  <2>2. ManifestSound'
    BY <1>6, <2>1 DEF CopyFail, RecordsSound, BackupSound, ManifestSound
  <2> QED
    BY <2>1, <2>2 DEF RecordsSound, MemorySound
<1>7. CASE PrepareFail(p)
  BY <1>7, EndInstallSound
     DEF PrepareFail, Pending, InstallPending, RecordsSound, MemorySound, ManifestSound
<1>8. CASE InstallEnd(p)
  <2>1. pend[p] \in Record
    BY <1>8 DEF InstallEnd, Pending, InstallPending
  <2>2. BackupSound' /\ PendingSound' /\ UNCHANGED approved
    BY <1>8, <2>1, EndInstallSound DEF InstallEnd
  <2>3. pend[p] # None => Sound(pend[p], approved)
    BY DEF RecordsSound, PendingSound
  <2>4. MemorySound'
    BY <1>8, <2>2, <2>3 DEF InstallEnd, TypeOK, RecordsSound, MemorySound
  <2>5. ManifestSound'
    BY <1>8, <2>1, <2>2, <2>3, AbsenceAssumption, ManifestOfSound DEF InstallEnd, ManifestSound
  <2> QED
    BY <2>2, <2>4, <2>5 DEF RecordsSound
<1>9. ASSUME NEW ds \in Grants, NEW v \in Reviewers, Grant(p, ds, v)
      PROVE  RecordsSound'
  <2>1. PICK rec \in Found(p) :
          StartPersist(p, Granted(rec, ds, v), FALSE) /\ approved' = approved \cup ds
    BY <1>9 DEF Grant
  <2>2. Sound(Granted(rec, ds, v), approved')
    BY <2>1, FoundType, FoundSound, EditedSound
  <2> QED
    BY <1>9, <2>1, <2>2, MemorySoundKept DEF Grant, StartPersist
<1>10. CASE Enable(p)
  <2>1. PICK rec \in Found(p) :
          CanEnable(rec) /\ StartPersist(p, [rec EXCEPT !.status = "enabled"], FALSE)
    BY <1>10 DEF Enable
  <2>2. Sound([rec EXCEPT !.status = "enabled"], approved)
    BY <2>1, FoundType, FoundSound, EditedSound
  <2> QED
    BY <1>10, <2>1, <2>2, MemorySoundKept DEF Enable, StartPersist
<1>11. ASSUME NEW to \in Targets, Transition(p, to)
       PROVE  RecordsSound'
  <2>1. PICK rec \in Found(p) :
          CanTransition(rec.status, to) /\ StartPersist(p, [rec EXCEPT !.status = to], FALSE)
    BY <1>11 DEF Transition
  <2>2. Sound([rec EXCEPT !.status = to], approved)
    BY <2>1, FoundType, FoundSound, EditedSound, LoaderAssumption
  <2> QED
    BY <1>11, <2>1, <2>2, MemorySoundKept DEF Transition, StartPersist
<1>12. CASE Revoke(p)
  BY <1>12, FoundType, FoundSound, StartRevokeSound DEF Revoke
<1>13. CASE PersistWrite(p)
  <2>1. mem[p] # None => Sound(mem[p], approved)
    BY DEF RecordsSound, MemorySound
  <2>2. ManifestSound'
    BY <1>13, <2>1, AbsenceAssumption, ManifestOfSound
       DEF PersistWrite, Pending, PersistPending, ManifestSound
  <2> QED
    BY <1>13, <2>2 DEF PersistWrite, RecordsSound, MemorySound, PendingSound, BackupSound
<1>14. CASE PersistFail(p)
  BY <1>14
     DEF PersistFail, RecordsSound, MemorySound, PendingSound, ManifestSound, BackupSound
<1>15. ASSUME NEW v \in Revocable, RevokeVersion(p, v)
       PROVE  RecordsSound'
  BY <1>15
     DEF RevokeVersion, RecordsSound, MemorySound, PendingSound, ManifestSound, BackupSound
<1>16. CASE GovernanceWrite(p)
  <2>1. CASE mem[p] # None /\ StartRevoke(p, mem[p])
    <3>1. mem[p] \in Record /\ Sound(mem[p], approved)
      BY <2>1 DEF TypeOK, RecordsSound, MemorySound
    <3> QED
      BY <1>16, <2>1, <3>1, StartRevokeSound DEF GovernanceWrite
  <2>2. CASE UNCHANGED mem
    BY <1>16, <2>2
       DEF GovernanceWrite, RecordsSound, MemorySound, PendingSound, ManifestSound, BackupSound
  <2> QED
    BY <1>16, <2>1, <2>2 DEF GovernanceWrite
<1>17. CASE CrashRestart(p)
  <2>1. tree' \in Pkg \cup {None} /\ manifest' \in Manifest \cup {None}
    BY <1>17 DEF CrashRestart, TypeOK, Pending, InstallPending, Record
  <2>2. ManifestSound' /\ (manifest' # None => Sound(manifest', approved))
    BY <1>17 DEF CrashRestart, RecordsSound, ManifestSound
  <2>3. View(tree', manifest') # None => Sound(View(tree', manifest'), approved)
    <3>1. View(tree', manifest') # None => tree' \in Pkg
      BY <2>1 DEF View
    <3> QED
      BY <2>1, <2>2, <3>1, ViewSound
  <2>4. MemorySound'
    BY <1>17, <2>3 DEF CrashRestart, TypeOK, RecordsSound, MemorySound
  <2>5. PendingSound' /\ BackupSound'
    BY <1>17 DEF CrashRestart, TypeOK, RecordsSound, PendingSound, BackupSound
  <2> QED
    BY <2>2, <2>4, <2>5 DEF RecordsSound
<1> QED
  BY <1>1, <1>2, <1>3, <1>4, <1>5, <1>6, <1>7, <1>8, <1>9, <1>10, <1>11, <1>12,
     <1>13, <1>14, <1>15, <1>16, <1>17 DEF Step

LEMMA SoundInvariant == Spec => []RecordsSound
<1>1. Init => RecordsSound
  BY DEF Init, RecordsSound, MemorySound, PendingSound, ManifestSound, BackupSound
<1>2. TypeOK /\ Pending /\ RecordsSound /\ [Next]_vars => RecordsSound'
  <2>1. CASE UNCHANGED vars
    BY <2>1
       DEF vars, disk, call, history, RecordsSound, MemorySound, PendingSound, ManifestSound, BackupSound
  <2>2. CASE Next
    BY <2>2, StepSound DEF Next
  <2> QED
    BY <2>1, <2>2
<1> QED
  BY <1>1, <1>2, TypeInvariant, PTL DEF Spec

\* A plugin whose permissions wait for a review is in no status that lets it
\* start (loader.py enable_plugin, install, transition_status,
\* discover_installed): in no process, in no manifest and in no manifest that a
\* failed install can move back.
THEOREM ReviewedBeforeActive == Spec => []ActiveIsReviewed
<1>1. RecordsSound => ActiveIsReviewed
  BY DEF RecordsSound, MemorySound, PendingSound, ManifestSound, BackupSound, Sound,
         ActiveIsReviewed, Held, Filed
<1> QED
  BY <1>1, SoundInvariant, PTL

\* A plugin holds no permission that no operator granted and no trusted package
\* declared (loader.py grant_permissions, _preserve_granted_permissions,
\* _default_granted_permissions), whatever upgrades, restarts and crashes do.
THEOREM GrantsApproved == Spec => []GrantsWithinApproval
<1>1. RecordsSound => GrantsWithinApproval
  BY DEF RecordsSound, MemorySound, PendingSound, ManifestSound, BackupSound, Sound,
         GrantsWithinApproval, TrustedDecls, Held, Filed
<1> QED
  BY <1>1, SoundInvariant, PTL

(***************************************************************************)
(* One process alone: what a command of cli.py can rely on while nobody    *)
(* else has the plugins directory open.                                    *)
(***************************************************************************)

OneProcess == \E p \in Proc : Proc = {p}

\* Nobody truncates the manifest under its reads, and nobody takes its backup name.
LEMMA Undivided ==
  ASSUME OneProcess, NEW p \in Proc
  PROVE  /\ Readings(p) = {manifest}
         /\ ~BackupNameTaken(p)
         /\ \A q \in Proc : q = p
<1>1. \A q \in Proc : q = p
  BY DEF OneProcess
<1> QED
  BY <1>1 DEF Readings, BackupNameTaken

\* The call that a revoke goes on with: a write of the cleared record, or nothing.
LEMMA StartRevokeCases ==
  ASSUME NEW p \in Proc, NEW rec \in Record, StartRevoke(p, rec)
  PROVE  \/ /\ CanTransition(rec.status, "revoked")
            /\ \E new \in Record :
                 /\ new = [[rec EXCEPT !.granted = {}] EXCEPT !.status = "revoked"]
                 /\ new.status = "revoked" /\ new.pkg = rec.pkg
                 /\ StartPersist(p, new, rec.status # "revoked")
         \/ /\ ~CanTransition(rec.status, "revoked")
            /\ \E new \in Record :
                 /\ new = [rec EXCEPT !.granted = {}]
                 /\ mem' = [mem EXCEPT ![p] = new]
            /\ Goto(p, "idle")
            /\ UNCHANGED <<seal, again>>
<1> DEFINE cleared == [rec EXCEPT !.granted = {}]
           moved == [cleared EXCEPT !.status = "revoked"]
<1>1. cleared \in Record /\ cleared.status = rec.status /\ cleared.pkg = rec.pkg
  BY EditedType DEF Record
<1> HIDE DEF cleared
<1>2. moved \in Record /\ moved.status = "revoked" /\ moved.pkg = cleared.pkg
  <2>1. moved \in Record
    BY <1>1, EditedType DEF Status
  <2> QED
    BY <1>1, <2>1 DEF Record
<1> HIDE DEF moved
<1>3. StartRevoke(p, rec) <=>
        \/ CanTransition(rec.status, "revoked") /\ StartPersist(p, moved, rec.status # "revoked")
        \/ /\ ~CanTransition(rec.status, "revoked")
           /\ mem' = [mem EXCEPT ![p] = cleared]
           /\ Goto(p, "idle")
           /\ UNCHANGED <<seal, again>>
  BY DEF StartRevoke, cleared, moved
<1>4. moved = [[rec EXCEPT !.granted = {}] EXCEPT !.status = "revoked"]
      /\ cleared = [rec EXCEPT !.granted = {}]
  BY DEF cleared, moved
<1> QED
  BY <1>1, <1>2, <1>3, <1>4

(***************************************************************************)
(* The seal.  What a manifest vouches for is the tree beside it; a backup  *)
(* keeps the two together, and a write in progress has read the seal of    *)
(* the manifest it replaces.                                               *)
(***************************************************************************)

Vouches(k, m) == m # None => k # None /\ m.sealed \in {None, k}

SealKept(p) ==
  /\ Vouches(tree, manifest)
  /\ backup[p] # None => Vouches(backup[p].tree, backup[p].manifest)
  /\ pc[p] = "persist" /\ seal[p] # None => seal[p] = tree

SealsKept == \A p \in Proc : SealKept(p)

LEMMA StartPersistSeal ==
  ASSUME TypeOK, OneProcess, NEW p \in Proc, SealKept(p), NEW rec, NEW twice,
         StartPersist(p, rec, twice), UNCHANGED disk
  PROVE  SealKept(p)'
<1>1. seal'[p] = SealOf(manifest) /\ pc'[p] = "persist"
  BY Undivided DEF StartPersist, Goto, TypeOK
<1>2. seal'[p] # None => seal'[p] = tree
  BY <1>1 DEF SealKept, Vouches, SealOf
<1> QED
  BY <1>2 DEF SealKept, Vouches, disk

\* A call that stands elsewhere than at a write, with the files as they were.
LEMMA SealElsewhere ==
  ASSUME NEW p \in Proc, SealKept(p), pc'[p] # "persist" \/ UNCHANGED <<pc, seal>>,
         UNCHANGED <<tree, manifest>>, backup'[p] \in {backup[p], None}
  PROVE  SealKept(p)'
BY DEF SealKept, Vouches

LEMMA StartRevokeSeal ==
  ASSUME TypeOK, OneProcess, NEW p \in Proc, SealKept(p), NEW rec \in Record,
         StartRevoke(p, rec), UNCHANGED <<tree, manifest, unpacked, backup>>
  PROVE  SealKept(p)'
<1>1. CASE \E new, twice : StartPersist(p, new, twice)
  <2>1. seal'[p] = SealOf(manifest) /\ pc'[p] = "persist"
    BY <1>1, Undivided DEF StartPersist, Goto, TypeOK
  <2>2. seal'[p] # None => seal'[p] = tree
    BY <2>1 DEF SealKept, Vouches, SealOf
  <2> QED
    BY <2>2 DEF SealKept, Vouches
<1>2. CASE Goto(p, "idle")
  <2>1. pc'[p] # "persist"
    BY <1>2 DEF Goto, TypeOK
  <2> QED
    BY <2>1, SealElsewhere
<1> QED
  BY <1>1, <1>2, StartRevokeCases

LEMMA EndInstallHere ==
  ASSUME TypeOK, NEW p \in Proc, pend[p] \in Record, EndInstall(p)
  PROVE  pc'[p] = "idle" /\ pend'[p] = None /\ backup'[p] = None
BY AbsenceAssumption DEF EndInstall, WithoutBackups, Goto, TypeOK

LEMMA StepSeal ==
  ASSUME TypeOK, Pending, OneProcess, NEW p \in Proc, SealKept(p), Step(p)
  PROVE  SealKept(p)'
<1> USE DEF disk, call, history
<1>0. pc[p] \in {"staged", "moved", "copied"} => pend[p] \in Record
  BY DEF Pending, InstallPending
<1>1. CASE Discover(p)
  BY <1>1, SealElsewhere DEF Discover
<1>2. ASSUME NEW k \in Pkg, InstallBegin(p, k) PROVE SealKept(p)'
  <2>1. pc'[p] = "staged" /\ backup'[p] \in {backup[p], None}
    BY <1>2 DEF InstallBegin, WithoutBackups, Goto, TypeOK
  <2> QED
    BY <1>2, <2>1, SealElsewhere DEF InstallBegin
<1>3. CASE MoveAside(p)
  <2>1. pc'[p] = "moved" /\ tree' = None /\ manifest' = None
    BY <1>3 DEF MoveAside, Goto, TypeOK
  <2>2. CASE backup'[p] = backup[p]
    BY <2>1, <2>2 DEF SealKept, Vouches
  <2>3. CASE backup'[p] = [tree |-> tree, manifest |-> manifest]
    BY <2>1, <2>3 DEF SealKept, Vouches
  <2> QED
    BY <1>3, <2>2, <2>3 DEF MoveAside, TypeOK
<1>4. CASE MoveFail(p)
  BY <1>0, <1>4, EndInstallHere DEF MoveFail, SealKept, Vouches
<1>5. CASE CopyTree(p)
  <2>1. pc'[p] = "copied"
    BY <1>5 DEF CopyTree, Goto, TypeOK
  <2> QED
    BY <1>5, <2>1 DEF CopyTree, SealKept, Vouches
<1>6. CASE CopyFail(p)
  BY <1>0, <1>6, EndInstallHere DEF CopyFail, SealKept, Vouches
<1>7. CASE PrepareFail(p)
  BY <1>0, <1>7, EndInstallHere DEF PrepareFail, SealKept, Vouches
<1>8. CASE InstallEnd(p)
  <2>1. pc'[p] = "idle" /\ backup'[p] = None
    BY <1>0, <1>8, EndInstallHere DEF InstallEnd
  <2>2. manifest'.sealed = tree /\ tree' = tree /\ tree # None
    BY <1>8 DEF InstallEnd, ManifestOf
  <2> QED
    BY <2>1, <2>2 DEF SealKept, Vouches
<1>9. ASSUME NEW ds \in Grants, NEW v \in Reviewers, Grant(p, ds, v) PROVE SealKept(p)'
  BY <1>9, StartPersistSeal DEF Grant
<1>10. CASE Enable(p)
  BY <1>10, StartPersistSeal DEF Enable
<1>11. ASSUME NEW to \in Targets, Transition(p, to) PROVE SealKept(p)'
  BY <1>11, StartPersistSeal DEF Transition
<1>12. CASE Revoke(p)
  BY <1>12, FoundType, StartRevokeSeal DEF Revoke
<1>13. CASE PersistWrite(p)
  <2>1. manifest'.sealed = seal[p] /\ seal[p] \in {None, tree} /\ tree' = tree /\ tree # None
    BY <1>13 DEF PersistWrite, ManifestOf, SealKept
  <2>2. pc'[p] = "persist" => seal' = seal
    BY <1>13 DEF PersistWrite, Goto, TypeOK
  <2> QED
    BY <1>13, <2>1, <2>2 DEF PersistWrite, SealKept, Vouches
<1>14. CASE PersistFail(p)
  <2>1. pc'[p] = "idle"
    BY <1>14 DEF PersistFail, Goto, TypeOK
  <2> QED
    BY <1>14, <2>1, SealElsewhere DEF PersistFail
<1>15. ASSUME NEW v \in Revocable, RevokeVersion(p, v) PROVE SealKept(p)'
  <2>1. pc'[p] = "govern"
    BY <1>15 DEF RevokeVersion, Goto, TypeOK
  <2> QED
    BY <1>15, <2>1, SealElsewhere DEF RevokeVersion
<1>16. CASE GovernanceWrite(p)
  <2>1. CASE mem[p] # None /\ StartRevoke(p, mem[p])
    <3>1. mem[p] \in Record
      BY <2>1 DEF TypeOK
    <3> QED
      BY <1>16, <2>1, <3>1, StartRevokeSeal DEF GovernanceWrite
  <2>2. CASE Goto(p, "idle")
    <3>1. pc'[p] = "idle"
      BY <2>2 DEF Goto, TypeOK
    <3> QED
      BY <1>16, <3>1, SealElsewhere DEF GovernanceWrite
  <2> QED
    BY <1>16, <2>1, <2>2 DEF GovernanceWrite
<1>17. CASE CrashRestart(p)
  <2>1. pc'[p] = "idle" /\ backup'[p] = None
    BY <1>17 DEF CrashRestart, Goto, TypeOK
  <2>2. manifest' \in {manifest, None} /\ (tree # None => tree' = tree)
    BY <1>17 DEF CrashRestart
  <2> QED
    BY <2>1, <2>2 DEF SealKept, Vouches
<1> QED
  BY <1>1, <1>2, <1>3, <1>4, <1>5, <1>6, <1>7, <1>8, <1>9, <1>10, <1>11, <1>12,
     <1>13, <1>14, <1>15, <1>16, <1>17 DEF Step

\* While one process has the plugins directory open, a manifest vouches for the files
\* beside it and no others (loader.py install, _persist_installed), whatever fails
\* in an install and wherever the process dies.
THEOREM SealsAgree ==
  ASSUME OneProcess
  PROVE  Spec => []SealMatchesTree
<1>1. Init => SealsKept
  BY DEF Init, SealsKept, SealKept, Vouches
<1>2. TypeOK /\ Pending /\ SealsKept /\ [Next]_vars => SealsKept'
  <2>1. CASE UNCHANGED vars
    BY <2>1 DEF vars, disk, call, history, SealsKept, SealKept, Vouches
  <2>2. ASSUME TypeOK, Pending, SealsKept, NEW p \in Proc, Step(p) PROVE SealsKept'
    <3>1. SealKept(p)'
      BY <2>2, StepSeal DEF SealsKept
    <3> QED
      BY <3>1, Undivided DEF SealsKept
  <2> QED
    BY <2>1, <2>2 DEF Next
<1>3. SealsKept => SealMatchesTree
  BY DEF SealsKept, SealKept, Vouches, SealMatchesTree, OneProcess
<1> QED
  BY <1>1, <1>2, <1>3, TypeInvariant, PTL DEF Spec

(***************************************************************************)
(* A stop.  Every record that a stopped plugin can be read back from keeps *)
(* it stopped: the one in memory, the one an install is about to commit,   *)
(* the manifest and the manifest a rollback would move back.  Installs     *)
(* leave no record or backup behind, so the write that completes a stop    *)
(* finds none.                                                             *)
(***************************************************************************)

NotEnabled(r) == r # None => r.status # "enabled"

StopKept(p) ==
  /\ pc[p] \notin {"staged", "moved", "copied"} => pend[p] = None
  /\ pc[p] \notin {"moved", "copied"} => backup[p] = None
  /\ stopped => /\ NotEnabled(mem[p]) /\ NotEnabled(pend[p]) /\ NotEnabled(manifest)
                /\ backup[p] # None => NotEnabled(backup[p].manifest)

StopsKept == \A p \in Proc : StopKept(p)

\* Without trusted packages, what is read back or installed is not enabled unless
\* the manifest or the record before it is.
LEMMA NotEnabledRead ==
  ASSUME ThirdParty = Pkg, NEW k \in Pkg \cup {None}, NEW m, NotEnabled(m)
  PROVE  NotEnabled(View(k, m))
BY DEF View, NotEnabled, DefaultStatus

LEMMA NotEnabledInstalled ==
  ASSUME ThirdParty = Pkg, NEW k \in Pkg, NEW prev, NotEnabled(prev)
  PROVE  NotEnabled(InstallRecord(prev, k))
<1>1. NewInstall(k).status # "enabled"
  BY DEF NewInstall, DefaultStatus
<1>2. prev # None => Upgrade(prev, k).status # "enabled"
  BY DEF Upgrade, NotEnabled
<1> QED
  BY <1>1, <1>2 DEF InstallRecord, NotEnabled

LEMMA NotEnabledFound ==
  ASSUME TypeOK, OneProcess, ThirdParty = Pkg, NEW p \in Proc, StopKept(p), stopped,
         NEW rec \in Found(p)
  PROVE  rec.status # "enabled"
<1>1. CASE mem[p] # None
  BY <1>1 DEF Found, StopKept, NotEnabled
<1>2. CASE mem[p] = None
  <2>1. rec = View(tree, manifest) /\ rec # None
    BY <1>2, Undivided DEF Found
  <2>2. NotEnabled(manifest)
    BY DEF StopKept
  <2> QED
    BY <2>1, <2>2, NotEnabledRead DEF NotEnabled, TypeOK
<1> QED
  BY <1>1, <1>2

\* A call that changes nothing but the record of its process, to one that is not
\* enabled, or for which no stop is remembered.
LEMMA StopRecord ==
  ASSUME NEW p \in Proc, StopKept(p), pc[p] \in {"idle", "govern", "persist"},
         pc'[p] \in {"idle", "govern", "persist"},
         UNCHANGED <<manifest, backup, pend>>, stopped' => stopped /\ NotEnabled(mem'[p])
  PROVE  StopKept(p)'
BY DEF StopKept, NotEnabled

LEMMA StartPersistHere ==
  ASSUME TypeOK, NEW p \in Proc, NEW rec, NEW twice, StartPersist(p, rec, twice)
  PROVE  pc'[p] = "persist" /\ mem'[p] = rec
BY DEF StartPersist, Goto, TypeOK

LEMMA StartRevokeHere ==
  ASSUME TypeOK, NEW p \in Proc, NEW rec \in Record, StartRevoke(p, rec)
  PROVE  /\ pc'[p] \in {"idle", "persist"}
         /\ mem'[p].status \in {rec.status, "revoked"}
<1>1. [rec EXCEPT !.granted = {}].status = rec.status
  BY DEF Record
<1>2. ASSUME NEW new \in Record, new.status = "revoked",
             StartPersist(p, new, rec.status # "revoked")
      PROVE  pc'[p] = "persist" /\ mem'[p].status = "revoked"
  BY <1>2, StartPersistHere
<1>3. ASSUME mem' = [mem EXCEPT ![p] = [rec EXCEPT !.granted = {}]], Goto(p, "idle")
      PROVE  pc'[p] = "idle" /\ mem'[p].status = rec.status
  BY <1>1, <1>3 DEF Goto, TypeOK
<1> QED
  BY <1>2, <1>3, StartRevokeCases

LEMMA StepStop ==
  ASSUME TypeOK, Pending, OneProcess, ThirdParty = Pkg, NEW p \in Proc, StopKept(p), Step(p)
  PROVE  StopKept(p)'
<1> USE DEF disk, call, history
<1>0. pc[p] \in {"staged", "moved", "copied"} => pend[p] \in Record
  BY DEF Pending, InstallPending
<1>1. CASE Discover(p)
  <2>1. mem'[p] = View(tree, manifest)
    BY <1>1, Undivided DEF Discover, TypeOK
  <2>2. stopped => NotEnabled(mem'[p])
    BY <2>1, NotEnabledRead DEF StopKept, TypeOK
  <2> QED
    BY <1>1, <2>2, StopRecord DEF Discover
<1>2. ASSUME NEW k \in Pkg, InstallBegin(p, k) PROVE StopKept(p)'
  <2>1. pc'[p] = "staged" /\ backup'[p] = None
    BY <1>2 DEF InstallBegin, WithoutBackups, Goto, TypeOK, StopKept
  <2>2. pend'[p] = InstallRecord(mem[p], k)
    BY <1>2 DEF InstallBegin, TypeOK
  <2>3. stopped => NotEnabled(pend'[p])
    BY <2>2, NotEnabledInstalled DEF StopKept
  <2> QED
    BY <1>2, <2>1, <2>3 DEF InstallBegin, StopKept, NotEnabled
<1>3. CASE MoveAside(p)
  <2>1. pc'[p] = "moved" /\ manifest' = None /\ UNCHANGED <<mem, pend, stopped>>
    BY <1>3 DEF MoveAside, Goto, TypeOK
  <2>2. CASE backup'[p] = backup[p]
    BY <2>1, <2>2 DEF StopKept, NotEnabled
  <2>3. CASE backup'[p] = [tree |-> tree, manifest |-> manifest]
    BY <2>1, <2>3 DEF StopKept, NotEnabled
  <2> QED
    BY <1>3, <2>2, <2>3 DEF MoveAside, TypeOK
<1>4. ASSUME EndInstall(p), pc[p] \in {"staged", "moved", "copied"}, UNCHANGED <<mem, stopped>>,
             \/ manifest' \in {manifest, None}
             \/ backup[p] # None /\ manifest' = backup[p].manifest
      PROVE  StopKept(p)'
  <2>1. pc'[p] = "idle" /\ pend'[p] = None /\ backup'[p] = None
    BY <1>0, <1>4, EndInstallHere
  <2> QED
    BY <1>4, <2>1 DEF StopKept, NotEnabled
<1>5. CASE MoveFail(p)
  BY <1>4, <1>5 DEF MoveFail
<1>6. CASE CopyTree(p)
  <2>1. pc'[p] = "copied"
    BY <1>6 DEF CopyTree, Goto, TypeOK
  <2> QED
    BY <1>6, <2>1 DEF CopyTree, StopKept, NotEnabled
<1>7. CASE CopyFail(p)
  BY <1>4, <1>7 DEF CopyFail
<1>8. CASE PrepareFail(p)
  BY <1>4, <1>8 DEF PrepareFail
<1>9. CASE InstallEnd(p)
  <2>1. pc'[p] = "idle" /\ pend'[p] = None /\ backup'[p] = None
    BY <1>0, <1>9, EndInstallHere DEF InstallEnd
  <2>2. mem'[p] = pend[p] /\ manifest'.status = pend[p].status /\ pend[p] # None
    BY <1>0, <1>9, AbsenceAssumption DEF InstallEnd, ManifestOf, TypeOK
  <2>3. stopped' => stopped
    BY <1>9 DEF InstallEnd, TypeOK
  <2> QED
    BY <2>1, <2>2, <2>3 DEF StopKept, NotEnabled
<1>10. ASSUME NEW ds \in Grants, NEW v \in Reviewers, Grant(p, ds, v) PROVE StopKept(p)'
  BY <1>10, StartPersistHere, StopRecord DEF Grant
<1>11. CASE Enable(p)
  BY <1>11, StartPersistHere, StopRecord DEF Enable
<1>12. ASSUME NEW to \in Targets, Transition(p, to) PROVE StopKept(p)'
  <2>1. PICK rec \in Found(p) : StartPersist(p, [rec EXCEPT !.status = to], FALSE)
    BY <1>12 DEF Transition
  <2>2. [rec EXCEPT !.status = to].status # "enabled"
    <3>1. rec \in Record /\ to # "enabled"
      BY FoundType, LoaderAssumption
    <3> QED
      BY <3>1 DEF Record
  <2>3. pc'[p] = "persist" /\ NotEnabled(mem'[p])
    BY <2>1, <2>2, StartPersistHere DEF NotEnabled
  <2> QED
    BY <1>12, <2>3, StopRecord DEF Transition
<1>13. CASE Revoke(p)
  <2>1. PICK rec \in Found(p) : StartRevoke(p, rec)
    BY <1>13 DEF Revoke
  <2>2. /\ pc'[p] \in {"idle", "persist"}
        /\ mem'[p].status \in {rec.status, "revoked"}
    BY <2>1, FoundType, StartRevokeHere
  <2>3. stopped => NotEnabled(mem'[p])
    BY <2>2, NotEnabledFound DEF NotEnabled
  <2> QED
    BY <1>13, <2>2, <2>3, StopRecord DEF Revoke
<1>14. CASE PersistWrite(p)
  <2>1. pc'[p] \in {"idle", "persist"}
    BY <1>14 DEF PersistWrite, Goto, TypeOK
  <2>2. manifest'.status = mem[p].status /\ mem[p] # None
    BY <1>14, AbsenceAssumption DEF PersistWrite, ManifestOf, Pending, PersistPending
  <2>3. pend[p] = None /\ backup[p] = None /\ UNCHANGED <<pend, backup, mem>>
    BY <1>14 DEF PersistWrite, StopKept
  <2>4. stopped' => mem[p].status # "enabled"
    BY <1>14, <2>2 DEF PersistWrite, StopKept, NotEnabled, Active
  <2> QED
    BY <2>1, <2>2, <2>3, <2>4 DEF StopKept, NotEnabled
<1>15. CASE PersistFail(p)
  <2>1. pc'[p] = "idle" /\ (stopped => NotEnabled(mem'[p]))
    BY <1>15 DEF PersistFail, Goto, TypeOK, StopKept
  <2> QED
    BY <1>15, <2>1, StopRecord DEF PersistFail
<1>16. ASSUME NEW v \in Revocable, RevokeVersion(p, v) PROVE StopKept(p)'
  <2>1. pc'[p] = "govern" /\ (stopped => NotEnabled(mem'[p]))
    BY <1>16 DEF RevokeVersion, Goto, TypeOK, StopKept
  <2> QED
    BY <1>16, <2>1, StopRecord DEF RevokeVersion
<1>17. CASE GovernanceWrite(p)
  <2>1. pc'[p] \in {"idle", "persist"} /\ (stopped => NotEnabled(mem'[p]))
    <3>1. CASE mem[p] # None /\ StartRevoke(p, mem[p])
      <4>1. mem[p] \in Record
        BY <3>1 DEF TypeOK
      <4>2. mem'[p].status \in {mem[p].status, "revoked"} /\ pc'[p] \in {"idle", "persist"}
        BY <3>1, <4>1, StartRevokeHere
      <4> QED
        BY <3>1, <4>2 DEF StopKept, NotEnabled
    <3>2. CASE Goto(p, "idle") /\ UNCHANGED mem
      BY <3>2 DEF Goto, TypeOK, StopKept
    <3> QED
      BY <1>17, <3>1, <3>2 DEF GovernanceWrite
  <2> QED
    BY <1>17, <2>1, StopRecord DEF GovernanceWrite
<1>18. CASE CrashRestart(p)
  <2>1. pc'[p] = "idle" /\ backup'[p] = None /\ pend'[p] = None /\ stopped' = stopped
    BY <1>18 DEF CrashRestart, Goto, TypeOK
  <2>2. mem'[p] = View(tree', manifest') /\ manifest' \in {manifest, None}
    BY <1>18 DEF CrashRestart, TypeOK
  <2>3. tree' \in Pkg \cup {None}
    BY <1>0, <1>18 DEF CrashRestart, TypeOK, Record
  <2>4. stopped => NotEnabled(manifest')
    BY <2>2 DEF StopKept, NotEnabled
  <2>5. stopped => NotEnabled(mem'[p])
    BY <2>2, <2>3, <2>4, NotEnabledRead
  <2> QED
    BY <2>1, <2>4, <2>5 DEF StopKept, NotEnabled
<1> QED
  BY <1>1, <1>2, <1>3, <1>5, <1>6, <1>7, <1>8, <1>9, <1>10, <1>11, <1>12,
     <1>13, <1>14, <1>15, <1>16, <1>17, <1>18 DEF Step

\* Once a disable, a quarantine or a revoke of a third-party plugin has been written,
\* nobody reads the plugin as enabled before it is granted or enabled again: no
\* upgrade, failed install, rollback, crash or restart brings it back, while one
\* process has the directory open.
THEOREM StopsLast ==
  ASSUME OneProcess, ThirdParty = Pkg
  PROVE  Spec => []StoppedStaysStopped
<1>1. Init => StopsKept
  BY DEF Init, StopsKept, StopKept, NotEnabled
<1>2. TypeOK /\ Pending /\ StopsKept /\ [Next]_vars => StopsKept'
  <2>1. CASE UNCHANGED vars
    BY <2>1 DEF vars, disk, call, history, StopsKept, StopKept, NotEnabled
  <2>2. ASSUME TypeOK, Pending, StopsKept, NEW p \in Proc, Step(p) PROVE StopsKept'
    <3>1. StopKept(p)'
      BY <2>2, StepStop DEF StopsKept
    <3> QED
      BY <3>1, Undivided DEF StopsKept
  <2> QED
    BY <2>1, <2>2 DEF Next
<1>3. TypeOK /\ StopsKept => StoppedStaysStopped
  <2> SUFFICES ASSUME TypeOK, StopsKept, stopped, tree # None
               PROVE  View(tree, manifest).status # "enabled"
    BY DEF StoppedStaysStopped
  <2>1. NotEnabled(manifest) /\ tree \in Pkg
    BY DEF StopsKept, StopKept, OneProcess, TypeOK
  <2>2. NotEnabled(View(tree, manifest))
    BY <2>1, NotEnabledRead
  <2>3. View(tree, manifest) # None => View(tree, manifest).status # "enabled"
    BY <2>2 DEF NotEnabled
  <2>4. View(tree, manifest) # None
    <3>1. View(tree, None) \in Record /\ (manifest # None => View(tree, manifest) \in Record)
      BY <2>1, DefaultsType DEF View, Record, Reviewer, Manifest, TypeOK
    <3> QED
      BY <3>1, AbsenceAssumption
  <2> QED
    BY <2>3, <2>4
<1> QED
  BY <1>1, <1>2, <1>3, TypeInvariant, PTL DEF Spec

(***************************************************************************)
(* One process and no fault.  Between the steps that touch the directory,  *)
(* what a new process would read agrees with the record in memory; an      *)
(* install commits the record it computed when it began; and a record of a *)
(* revoked version has one of the two statuses that no start leaves.  No   *)
(* record is ever "discovered", the one status besides "uninstalled" from  *)
(* which a revoke is refused.                                              *)
(***************************************************************************)

Agrees(found, r) ==
  /\ found # None
  /\ found.pkg = r.pkg
  /\ found.status = r.status
  /\ found.required = r.required
  /\ found.reviewer = r.reviewer
  /\ found.hash = r.hash
  /\ found.granted # r.granted =>
       /\ r.granted = {}
       /\ found.pkg \notin ThirdParty \/ r.status = "uninstalled"

ReadsBack(p) ==
  IF mem[p] = None THEN tree = None ELSE Agrees(View(tree, manifest), mem[p])

Withdrawn == {"revoked", "uninstalled"}

Installing(p) ==
  pc[p] \in {"staged", "moved", "copied"} =>
    /\ pend[p] = InstallRecord(mem[p], pend[p].pkg)
    /\ PkgVersion[pend[p].pkg] \notin revoked
    /\ pend[p].pkg \in unpacked

Recorded(p) ==
  mem[p] # None =>
    /\ mem[p].status # "discovered"
    /\ PkgVersion[mem[p].pkg] \in revoked => mem[p].status \in Withdrawn

Undisturbed(p) ==
  /\ revoked \in SUBSET Version
  /\ pc[p] \in {"idle", "staged", "govern"} => ReadsBack(p)
  /\ pc[p] = "persist" => tree = mem[p].pkg
  /\ pc[p] = "moved" => tree = None
  /\ pc[p] = "copied" => tree = pend[p].pkg
  /\ pc[p] = "govern" => gov[p].read = revoked
  /\ Installing(p)
  /\ Recorded(p)

\* What one step of one process does to its record.
KeepsRevoked(p) ==
  mem[p] # None /\ mem[p].status = "revoked" /\ mem'[p] # None
    => mem'[p].status \in Withdrawn

LEMMA WithdrawnStays ==
  /\ \A s \in Withdrawn : \A to \in Status :
       CanTransition(s, to) => to \in Withdrawn
  /\ \A s \in Status \ {"discovered", "uninstalled"} : CanTransition(s, "revoked")
  /\ \A s \in Status : CanTransition(s, "discovered") => s = "discovered"
  /\ \A s \in Withdrawn : s \in Condemned /\ s \notin Active
BY DEF Withdrawn, CanTransition, AllowedTransitions, Reviewable, Status, Condemned, Active

\* What the directory of an installed package reads back as.
LEMMA ViewOfManifest ==
  ASSUME NEW rec \in Record, NEW sealed \in Pkg \cup {None}
  PROVE  Agrees(View(rec.pkg, ManifestOf(rec, sealed)), rec)
<1> DEFINE m == ManifestOf(rec, sealed)
           found == View(rec.pkg, m)
<1>1. m # None /\ rec.pkg # None /\ rec.pkg \in Pkg
  BY ManifestOfType, AbsenceAssumption, RecordsAssumption DEF Record
<1>2. found = [pkg |-> rec.pkg, status |-> rec.status,
               granted |-> IF rec.granted = {} THEN DefaultGranted(rec.pkg) ELSE rec.granted,
               required |-> rec.required, reviewer |-> rec.reviewer, hash |-> rec.hash]
  <2>1. /\ m.status = rec.status /\ m.granted = rec.granted /\ m.required = rec.required
        /\ m.reviewer = rec.reviewer /\ m.hash = rec.hash
    BY DEF ManifestOf
  <2> HIDE DEF m
  <2> QED
    BY <1>1, <2>1 DEF View
<1>3. found # None
  <2>1. found \in Record \cup {None} /\ found \in Record
    BY <1>1, <1>2, DefaultsType DEF Record
  <2> QED
    BY <2>1, AbsenceAssumption
<1>4. rec.granted = {} /\ rec.pkg \in ThirdParty => DefaultGranted(rec.pkg) = {}
  BY DEF DefaultGranted
<1> HIDE DEF found
<1>5. found.granted # rec.granted => rec.granted = {} /\ found.pkg \notin ThirdParty
  BY <1>2, <1>4
<1>6. /\ found.pkg = rec.pkg /\ found.status = rec.status /\ found.required = rec.required
      /\ found.reviewer = rec.reviewer /\ found.hash = rec.hash
  BY <1>2
<1> QED
  BY <1>3, <1>5, <1>6 DEF Agrees, found

LEMMA InstallRecordFields ==
  ASSUME NEW prev, NEW k \in Pkg
  PROVE  /\ InstallRecord(prev, k).pkg = k
         /\ prev # None /\ prev.status = "revoked" => InstallRecord(prev, k).status = "revoked"
         /\ prev # None /\ prev.status # "discovered" => InstallRecord(prev, k).status # "discovered"
         /\ prev = None => InstallRecord(prev, k).status # "discovered"
<1>1. CASE prev = None
  BY <1>1 DEF InstallRecord, NewInstall, DefaultStatus
<1>2. CASE prev # None
  BY <1>2 DEF InstallRecord, Upgrade
<1> QED
  BY <1>1, <1>2

LEMMA ViewOfTree ==
  ASSUME TypeOK
  PROVE  /\ (View(tree, manifest) = None) <=> (tree = None)
         /\ tree # None => View(tree, manifest) \in Record /\ View(tree, manifest).pkg = tree
<1>1. CASE tree = None
  BY <1>1 DEF View
<1>2. CASE tree # None /\ manifest = None
  <2>1. View(tree, manifest) \in Record /\ View(tree, manifest).pkg = tree
    BY <1>2, DefaultsType DEF View, Record, Reviewer, TypeOK
  <2> QED
    BY <1>2, <2>1, AbsenceAssumption
<1>3. CASE tree # None /\ manifest # None
  <2>1. View(tree, manifest) \in Record /\ View(tree, manifest).pkg = tree
    BY <1>3, DefaultsType DEF View, Record, Manifest, TypeOK
  <2> QED
    BY <1>3, <2>1, AbsenceAssumption
<1> QED
  BY <1>1, <1>2, <1>3

\* A call works on the record in memory: there is none only when the directory
\* holds nothing either.
LEMMA FoundIsHeld ==
  ASSUME TypeOK, OneProcess, NEW p \in Proc, Undisturbed(p), pc[p] \in {"idle", "govern"}
  PROVE  /\ \A rec \in Found(p) : mem[p] # None /\ rec = mem[p]
         /\ mem[p] # None => mem[p] \in Record /\ mem[p].pkg = tree /\ tree # None
<1>1. ReadsBack(p)
  BY DEF Undisturbed
<1>2. mem[p] = None => Found(p) = {}
  BY <1>1, Undivided DEF ReadsBack, Found, View
<1>3. mem[p] # None => Found(p) = {mem[p]}
  BY DEF Found
<1>4. ASSUME mem[p] # None PROVE mem[p] \in Record /\ mem[p].pkg = tree /\ tree # None
  <2>1. View(tree, manifest) # None /\ View(tree, manifest).pkg = mem[p].pkg
    BY <1>1, <1>4 DEF ReadsBack, Agrees
  <2> QED
    BY <1>4, <2>1, ViewOfTree DEF TypeOK
<1> QED
  BY <1>2, <1>3, <1>4

\* A call that starts to write a changed record of the same package.
LEMMA PersistUndisturbed ==
  ASSUME TypeOK, OneProcess, NEW p \in Proc, Undisturbed(p), NEW new \in Record,
         new.pkg = tree, new.status # "discovered", NEW twice, StartPersist(p, new, twice),
         UNCHANGED tree, revoked' \in SUBSET Version,
         PkgVersion[tree] \in revoked' => new.status \in Withdrawn
  PROVE  Undisturbed(p)'
<1>1. pc'[p] = "persist" /\ mem'[p] = new
  BY StartPersistHere
<1> QED
  BY <1>1 DEF Undisturbed, Installing, Recorded

\* A call that leaves the directory and the record as they are, or ends so.
LEMMA IdleUndisturbed ==
  ASSUME NEW p \in Proc, Undisturbed(p), pc'[p] \in {"idle", "govern"}, ReadsBack(p)',
         UNCHANGED revoked, mem'[p] = mem[p], pc'[p] = "govern" => gov'[p].read = revoked
  PROVE  Undisturbed(p)'
BY DEF Undisturbed, Installing, Recorded

LEMMA RevokeUndisturbed ==
  ASSUME TypeOK, OneProcess, NEW p \in Proc, Undisturbed(p), pc[p] \in {"idle", "govern"},
         mem[p] # None, StartRevoke(p, mem[p]), UNCHANGED <<tree, manifest>>,
         revoked' \in SUBSET Version,
         revoked' \subseteq revoked \cup {PkgVersion[mem[p].pkg]}
  PROVE  Undisturbed(p)' /\ KeepsRevoked(p)
<1>1. mem[p] \in Record /\ mem[p].pkg = tree /\ mem[p].status # "discovered"
  BY FoundIsHeld DEF Undisturbed, Recorded
<1>2. ASSUME NEW new \in Record, new.status = "revoked", new.pkg = mem[p].pkg,
             StartPersist(p, new, mem[p].status # "revoked")
      PROVE  Undisturbed(p)' /\ KeepsRevoked(p)
  <2>1. mem'[p] = new
    BY <1>2, StartPersistHere
  <2> QED
    BY <1>1, <1>2, <2>1, PersistUndisturbed DEF Withdrawn, KeepsRevoked
<1>3. ASSUME ~CanTransition(mem[p].status, "revoked"), Goto(p, "idle"),
             NEW new \in Record, new = [mem[p] EXCEPT !.granted = {}],
             mem' = [mem EXCEPT ![p] = new]
      PROVE  Undisturbed(p)' /\ KeepsRevoked(p)
  <2>1. mem[p].status = "uninstalled"
    BY <1>1, <1>3, WithdrawnStays DEF Record
  <2>2. /\ new.pkg = mem[p].pkg /\ new.status = mem[p].status /\ new.granted = {}
        /\ new.required = mem[p].required /\ new.reviewer = mem[p].reviewer
        /\ new.hash = mem[p].hash
    BY <1>1, <1>3 DEF Record
  <2>3. pc'[p] = "idle" /\ mem'[p] = new /\ new # None
    BY <1>3, AbsenceAssumption DEF Goto, TypeOK
  <2>4. Agrees(View(tree, manifest), mem[p])
    BY DEF Undisturbed, ReadsBack
  <2>5. Agrees(View(tree, manifest), new)
    BY <2>1, <2>2, <2>4 DEF Agrees
  <2>6. ReadsBack(p)'
    BY <2>3, <2>5 DEF ReadsBack, Agrees
  <2>7. Recorded(p)'
    BY <2>1, <2>2, <2>3 DEF Recorded, Withdrawn
  <2>8. Undisturbed(p)'
    BY <2>3, <2>6, <2>7 DEF Undisturbed, Installing
  <2> QED
    BY <2>1, <2>8 DEF KeepsRevoked
<1> QED
  BY <1>1, <1>2, <1>3, StartRevokeCases

LEMMA StepUndisturbed ==
  ASSUME TypeOK, Pending, OneProcess, Faults = {}, NEW p \in Proc, Undisturbed(p), Step(p)
  PROVE  Undisturbed(p)' /\ KeepsRevoked(p)
<1> USE DEF disk, call, history
<1>0. pc[p] \in {"staged", "moved", "copied"} => pend[p] \in Record /\ pend[p] # None
  BY AbsenceAssumption DEF Pending, InstallPending
<1>1. mem'[p] = mem[p] => KeepsRevoked(p)
  BY DEF KeepsRevoked, Withdrawn
<1>2. CASE Discover(p)
  <2>1. mem'[p] = View(tree, manifest)
    BY <1>2, Undivided DEF Discover, TypeOK
  <2>2. pc[p] = "idle" /\ pc'[p] = "idle" /\ UNCHANGED <<tree, manifest, revoked, pend, gov, unpacked>>
    BY <1>2 DEF Discover
  <2>3. ReadsBack(p)'
    BY <2>1, <2>2, ViewOfTree DEF ReadsBack, Agrees
  <2>4. ReadsBack(p)
    BY <2>2 DEF Undisturbed
  <2>5. mem'[p] # None => mem[p] # None /\ mem'[p].status = mem[p].status /\ mem'[p].pkg = mem[p].pkg
    BY <2>1, <2>4, ViewOfTree DEF ReadsBack, Agrees
  <2>6. Recorded(p)'
    BY <2>2, <2>5 DEF Undisturbed, Recorded
  <2>7. Undisturbed(p)'
    BY <2>2, <2>3, <2>6 DEF Undisturbed, Installing
  <2> QED
    BY <2>5, <2>7 DEF KeepsRevoked, Withdrawn
<1>3. ASSUME NEW k \in Pkg, InstallBegin(p, k) PROVE Undisturbed(p)' /\ KeepsRevoked(p)
  <2>1. pc[p] = "idle" /\ pc'[p] = "staged" /\ UNCHANGED <<tree, manifest, revoked, mem>>
    BY <1>3 DEF InstallBegin, Goto, TypeOK
  <2>2. pend'[p] = InstallRecord(mem[p], k) /\ k \in unpacked' /\ PkgVersion[k] \notin revoked
    BY <1>3 DEF InstallBegin, TypeOK
  <2>3. pend'[p].pkg = k
    BY <2>2, InstallRecordFields
  <2>4. Installing(p)'
    BY <2>1, <2>2, <2>3 DEF Installing
  <2>5. ReadsBack(p)'
    BY <2>1 DEF Undisturbed, ReadsBack, Agrees
  <2>6. Recorded(p)'
    BY <2>1 DEF Undisturbed, Recorded
  <2> QED
    BY <1>1, <2>1, <2>4, <2>5, <2>6 DEF Undisturbed
<1>4. CASE MoveAside(p)
  <2>1. pc[p] = "staged" /\ pc'[p] = "moved" /\ tree' = None
        /\ UNCHANGED <<revoked, mem, pend, unpacked>>
    BY <1>4 DEF MoveAside, Goto, TypeOK
  <2> QED
    BY <1>1, <2>1 DEF Undisturbed, Installing, Recorded
<1>5. CASE MoveFail(p)
  BY <1>5, Undivided DEF MoveFail
<1>6. CASE CopyTree(p)
  <2>1. pc[p] = "moved" /\ pc'[p] = "copied" /\ tree' = pend[p].pkg
        /\ UNCHANGED <<revoked, mem, pend, unpacked>>
    BY <1>6 DEF CopyTree, Goto, TypeOK
  <2> QED
    BY <1>1, <2>1 DEF Undisturbed, Installing, Recorded
<1>7. CASE CopyFail(p)
  BY <1>7 DEF CopyFail, Undisturbed, Installing
<1>8. CASE PrepareFail(p)
  <2>1. pc[p] = "copied" /\ tree = None
    BY <1>8 DEF PrepareFail
  <2>2. tree = pend[p].pkg /\ pend[p].pkg \in Pkg
    BY <1>0, <2>1 DEF Undisturbed, Record
  <2> QED
    BY <2>1, <2>2, RecordsAssumption
<1>9. CASE InstallEnd(p)
  <2>1. pc[p] = "copied" /\ pend[p] \in Record /\ pend[p] # None
    BY <1>0, <1>9 DEF InstallEnd
  <2>2. pc'[p] = "idle" /\ UNCHANGED <<tree, revoked>>
    BY <1>9, <2>1, EndInstallHere DEF InstallEnd, EndInstall
  <2>3. mem'[p] = pend[p] /\ manifest' = ManifestOf(pend[p], tree) /\ tree = pend[p].pkg
    BY <1>9, <2>1 DEF InstallEnd, TypeOK, Undisturbed
  <2>4. tree \in Pkg
    BY <2>1, <2>3 DEF Record
  <2>5. Agrees(View(tree, manifest'), pend[p])
    BY <2>1, <2>3, <2>4, ViewOfManifest
  <2>6. ReadsBack(p)'
    BY <2>1, <2>2, <2>3, <2>5 DEF ReadsBack, Agrees
  <2>7. pend[p] = InstallRecord(mem[p], tree) /\ PkgVersion[tree] \notin revoked
    BY <2>1, <2>3 DEF Undisturbed, Installing
  <2>8. Recorded(p)'
    <3>1. pend[p].status # "discovered"
      BY <2>4, <2>7, InstallRecordFields DEF Undisturbed, Recorded
    <3> QED
      BY <2>2, <2>3, <2>7, <3>1 DEF Recorded
  <2>9. KeepsRevoked(p)
    BY <2>3, <2>4, <2>7, InstallRecordFields DEF KeepsRevoked, Withdrawn
  <2> QED
    BY <2>2, <2>6, <2>8, <2>9 DEF Undisturbed, Installing
<1>10. ASSUME NEW new \in Record, StartPersist(p, new, FALSE), pc[p] = "idle",
              mem[p] # None, new.pkg = mem[p].pkg, new.status # "discovered",
              mem[p].status \in Withdrawn => new.status \in Withdrawn, UNCHANGED disk
       PROVE  Undisturbed(p)' /\ KeepsRevoked(p)
  <2>1. mem[p].pkg = tree /\ mem'[p] = new
    BY <1>10, FoundIsHeld, StartPersistHere
  <2>2. PkgVersion[tree] \in revoked => new.status \in Withdrawn
    BY <1>10, <2>1 DEF Undisturbed, Recorded
  <2>3. Undisturbed(p)'
    BY <1>10, <2>1, <2>2, PersistUndisturbed DEF Undisturbed
  <2> QED
    BY <1>10, <2>1, <2>3 DEF KeepsRevoked, Withdrawn
<1>11. ASSUME NEW ds \in Grants, NEW v \in Reviewers, Grant(p, ds, v)
       PROVE  Undisturbed(p)' /\ KeepsRevoked(p)
  <2>1. PICK rec \in Found(p) : CanGrant(rec, ds) /\ StartPersist(p, Granted(rec, ds, v), FALSE)
    BY <1>11 DEF Grant
  <2>2. mem[p] # None /\ rec = mem[p] /\ mem[p] \in Record
    BY <1>11, FoundIsHeld DEF Grant
  <2>3. Granted(rec, ds, v) \in Record
    BY <2>2, EditedType, LoaderAssumption
  <2>4. Granted(rec, ds, v).pkg = rec.pkg /\ Granted(rec, ds, v).status = "enabled"
    BY <2>2 DEF Granted, Record
  <2>5. mem[p].status \notin Withdrawn
    BY <2>1, <2>2, WithdrawnStays DEF CanGrant
  <2> QED
    BY <1>10, <1>11, <2>1, <2>2, <2>3, <2>4, <2>5 DEF Grant
<1>12. CASE Enable(p)
  <2>1. PICK rec \in Found(p) :
          CanEnable(rec) /\ StartPersist(p, [rec EXCEPT !.status = "enabled"], FALSE)
    BY <1>12 DEF Enable
  <2>2. mem[p] # None /\ rec = mem[p] /\ mem[p] \in Record
    BY <1>12, FoundIsHeld DEF Enable
  <2> DEFINE new == [rec EXCEPT !.status = "enabled"]
  <2>3. new \in Record
    BY <2>2, EditedType DEF Status
  <2>4. new.pkg = rec.pkg /\ new.status = "enabled"
    BY <2>2 DEF Record
  <2>5. mem[p].status \notin Withdrawn
    BY <2>1, <2>2, WithdrawnStays DEF CanEnable
  <2> HIDE DEF new
  <2>6. StartPersist(p, new, FALSE)
    BY <2>1 DEF new
  <2> QED
    BY <1>10, <1>12, <2>2, <2>3, <2>4, <2>5, <2>6 DEF Enable
<1>13. ASSUME NEW to \in Targets, Transition(p, to)
       PROVE  Undisturbed(p)' /\ KeepsRevoked(p)
  <2>1. PICK rec \in Found(p) :
          CanTransition(rec.status, to) /\ StartPersist(p, [rec EXCEPT !.status = to], FALSE)
    BY <1>13 DEF Transition
  <2>2. mem[p] # None /\ rec = mem[p] /\ mem[p] \in Record /\ to \in Status
    BY <1>13, FoundIsHeld, LoaderAssumption DEF Transition
  <2> DEFINE new == [rec EXCEPT !.status = to]
  <2>3. new \in Record
    BY <2>2, EditedType
  <2>4. new.pkg = rec.pkg /\ new.status = to
    BY <2>2 DEF Record
  <2>5. to # "discovered"
    BY <2>1, <2>2, WithdrawnStays DEF Undisturbed, Recorded, Record
  <2>6. mem[p].status \in Withdrawn => to \in Withdrawn
    BY <2>1, <2>2, WithdrawnStays
  <2> HIDE DEF new
  <2>7. StartPersist(p, new, FALSE)
    BY <2>1 DEF new
  <2> QED
    BY <1>10, <1>13, <2>2, <2>3, <2>4, <2>5, <2>6, <2>7 DEF Transition
<1>14. CASE Revoke(p)
  <2>1. mem[p] # None /\ StartRevoke(p, mem[p]) /\ pc[p] = "idle"
    BY <1>14, FoundIsHeld DEF Revoke
  <2> QED
    BY <1>14, <2>1, RevokeUndisturbed DEF Revoke, Undisturbed
<1>15. CASE PersistWrite(p)
  <2>1. pc[p] = "persist" /\ tree = mem[p].pkg /\ mem[p] \in Record /\ mem[p] # None
    BY <1>15, AbsenceAssumption DEF PersistWrite, Undisturbed, Pending, PersistPending
  <2>2. manifest' = ManifestOf(mem[p], seal[p]) /\ UNCHANGED <<tree, revoked, mem>>
    BY <1>15 DEF PersistWrite
  <2>3. pc'[p] \in {"idle", "persist"}
    BY <1>15 DEF PersistWrite, Goto, TypeOK
  <2>4. Agrees(View(tree, manifest'), mem[p])
    BY <2>1, <2>2, ViewOfManifest DEF TypeOK
  <2>5. ReadsBack(p)'
    BY <2>1, <2>2, <2>4 DEF ReadsBack, Agrees
  <2> QED
    BY <1>1, <2>1, <2>2, <2>3, <2>5 DEF Undisturbed, Installing, Recorded
<1>16. CASE PersistFail(p)
  <2>1. tree = None /\ tree = mem[p].pkg /\ mem[p] \in Record
    BY <1>16 DEF PersistFail, Undisturbed, Pending, PersistPending
  <2> QED
    BY <2>1, RecordsAssumption DEF Record
<1>17. ASSUME NEW v \in Revocable, RevokeVersion(p, v)
       PROVE  Undisturbed(p)' /\ KeepsRevoked(p)
  <2>1. /\ pc[p] = "idle" /\ pc'[p] = "govern" /\ gov'[p].read = revoked
        /\ UNCHANGED <<tree, manifest, revoked, mem>>
    BY <1>17 DEF RevokeVersion, Goto, TypeOK
  <2>2. ReadsBack(p)'
    BY <2>1 DEF Undisturbed, ReadsBack, Agrees
  <2> QED
    BY <1>1, <2>1, <2>2, IdleUndisturbed
<1>18. CASE GovernanceWrite(p)
  <2> DEFINE v == gov[p].version
  <2>0. v \in Version
    BY <1>18 DEF GovernanceWrite, Pending, GovernPending, Revocation
  <2>1. /\ pc[p] = "govern" /\ UNCHANGED <<tree, manifest>>
        /\ revoked' = revoked \cup {v} /\ revoked' \in SUBSET Version
    BY <1>18, <2>0 DEF GovernanceWrite, Undisturbed
  <2>2. CASE mem[p] # None /\ PkgVersion[mem[p].pkg] = v
    BY <1>18, <2>1, <2>2, RevokeUndisturbed DEF GovernanceWrite
  <2>3. CASE ~(mem[p] # None /\ PkgVersion[mem[p].pkg] = v)
    <3>1. pc'[p] = "idle" /\ UNCHANGED mem
      BY <1>18, <2>3 DEF GovernanceWrite, Goto, TypeOK
    <3>2. ReadsBack(p)'
      BY <2>1, <3>1 DEF Undisturbed, ReadsBack, Agrees
    <3>3. Recorded(p)'
      BY <2>1, <2>3, <3>1 DEF Undisturbed, Recorded
    <3> QED
      BY <1>1, <2>1, <3>1, <3>2, <3>3 DEF Undisturbed, Installing
  <2> QED
    BY <2>2, <2>3
<1>19. CASE CrashRestart(p)
  BY <1>19 DEF CrashRestart
<1> QED
  BY <1>2, <1>3, <1>4, <1>5, <1>6, <1>7, <1>8, <1>9, <1>11, <1>12,
     <1>13, <1>14, <1>15, <1>16, <1>17, <1>18, <1>19 DEF Step

AllUndisturbed == \A p \in Proc : Undisturbed(p)

LEMMA UndisturbedInvariant ==
  ASSUME OneProcess, Faults = {}
  PROVE  Spec => [](TypeOK /\ Pending /\ AllUndisturbed)
<1>1. Init => AllUndisturbed
  BY DEF Init, AllUndisturbed, Undisturbed, Installing, Recorded, ReadsBack
<1>2. TypeOK /\ Pending /\ AllUndisturbed /\ [Next]_vars => AllUndisturbed'
  <2>1. CASE UNCHANGED vars
    BY <2>1 DEF vars, disk, call, history, AllUndisturbed, Undisturbed, Installing,
       Recorded, ReadsBack, Agrees
  <2>2. ASSUME TypeOK, Pending, AllUndisturbed, NEW p \in Proc, Step(p)
        PROVE  AllUndisturbed'
    <3>1. Undisturbed(p)'
      BY <2>2, StepUndisturbed DEF AllUndisturbed
    <3> QED
      BY <3>1, Undivided DEF AllUndisturbed
  <2> QED
    BY <2>1, <2>2 DEF Next
<1> QED
  BY <1>1, <1>2, TypeInvariant, PTL DEF Spec

\* Between the calls of the only process, and without faults, a new process reads
\* the record that this one holds: what _persist_installed writes is what
\* discover_installed reads, for every package, grant and status.
THEOREM RestartReadsBack ==
  ASSUME OneProcess, Faults = {}
  PROVE  Spec => []RestartAgrees
<1>1. TypeOK /\ AllUndisturbed => RestartAgrees
  <2> SUFFICES ASSUME TypeOK, AllUndisturbed, NEW p \in Proc, pc[p] = "idle", mem[p] # None
               PROVE  LET found == View(tree, manifest) IN
                      /\ found # None
                      /\ [found EXCEPT !.granted = {}] = [mem[p] EXCEPT !.granted = {}]
                      /\ found.granted # mem[p].granted =>
                           /\ mem[p].granted = {}
                           /\ found.pkg \notin ThirdParty \/ mem[p].status = "uninstalled"
    BY DEF RestartAgrees
  <2> DEFINE found == View(tree, manifest)
  <2>1. Agrees(found, mem[p])
    BY DEF AllUndisturbed, Undisturbed, ReadsBack
  <2>2. found \in Record /\ mem[p] \in Record
    BY <2>1, ViewOfTree DEF Agrees, TypeOK
  <2> HIDE DEF found
  <2>3. [found EXCEPT !.granted = {}] = [mem[p] EXCEPT !.granted = {}]
    BY <2>1, <2>2 DEF Agrees, Record
  <2> QED
    BY <2>1, <2>3 DEF Agrees, found
<1> QED
  BY <1>1, UndisturbedInvariant, PTL

\* Between calls, a plugin installed in a revoked version has a status that no start
\* accepts (revoke_plugin_version, _reject_revoked_plugin_version), whatever
\* versions are revoked and whatever is installed, granted or enabled afterwards.
THEOREM RevokedVersionIsOut ==
  ASSUME OneProcess, Faults = {}
  PROVE  Spec => []RevokedVersionStaysOut
<1>1. TypeOK /\ AllUndisturbed => RevokedVersionStaysOut
  <2> SUFFICES ASSUME TypeOK, AllUndisturbed, \A p \in Proc : pc[p] = "idle", tree # None,
                      PkgVersion[tree] \in revoked
               PROVE  View(tree, manifest).status \notin Active
    BY DEF RevokedVersionStaysOut
  <2>1. PICK p \in Proc : TRUE
    BY DEF OneProcess
  <2>2. ReadsBack(p) /\ Recorded(p)
    BY DEF AllUndisturbed, Undisturbed
  <2>3. mem[p] # None /\ Agrees(View(tree, manifest), mem[p])
    BY <2>2 DEF ReadsBack
  <2>4. mem[p].pkg = tree
    BY <2>3, ViewOfTree DEF Agrees
  <2>5. mem[p].status \in Withdrawn
    BY <2>2, <2>3, <2>4 DEF Recorded
  <2> QED
    BY <2>3, <2>5, WithdrawnStays DEF Agrees
<1> QED
  BY <1>1, UndisturbedInvariant, PTL

\* No step of the only process makes its revoked record anything but revoked or
\* uninstalled: no grant, enable, upgrade or transition brings it back.
THEOREM RevocationIsFinal ==
  ASSUME OneProcess, Faults = {}
  PROVE  Spec => RevokedIsFinal
<1>1. TypeOK /\ Pending /\ AllUndisturbed /\ [Next]_vars =>
        [\A p \in Proc :
           mem[p] # None /\ mem[p].status = "revoked" /\ mem'[p] # None
             => mem'[p].status \in {"revoked", "uninstalled"}]_vars
  <2> SUFFICES ASSUME TypeOK, Pending, AllUndisturbed, Next, NEW p \in Proc
               PROVE  KeepsRevoked(p)
    BY DEF KeepsRevoked, Withdrawn
  <2>1. Step(p)
    BY Undivided DEF Next
  <2> QED
    BY <2>1, StepUndisturbed DEF AllUndisturbed
<1> QED
  BY <1>1, UndisturbedInvariant, PTL DEF Spec, RevokedIsFinal

=============================================================================
