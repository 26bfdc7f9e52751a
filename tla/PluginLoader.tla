---------------------------- MODULE PluginLoader ----------------------------
(***************************************************************************)
(* PluginLoader (loader.py): the record of one plugin in its directory and *)
(* in the memory of every process that opened the plugins directory.  The  *)
(* engine's process and each command of cli.py build a PluginLoader of     *)
(* their own on the same directory and share nothing else.                 *)
(*                                                                         *)
(* A call is split where another process can act or where the process can  *)
(* die or fail in between: the steps of an install, the writes of the      *)
(* manifest and of the governance file.  A write of a file is one step for *)
(* other processes' writes; a reader may find the file truncated while the *)
(* write is under way, and a crash may leave it so.                        *)
(***************************************************************************)
EXTENDS PluginRecords

CONSTANTS
  Proc,        \* the processes
  Installers,  \* bound: the processes that install packages
  Revocable,   \* bound: versions an operator may revoke
  Targets,     \* bound: statuses callers ask of transition_status
  Reviewers,   \* bound: who approves
  Grants,      \* bound: the sets of declarations callers grant
  Faults       \* bound: which of the faults below the environment may inject

\* Within src/, transition_status is asked for "enabled" by enable_plugin only.
ASSUME LoaderAssumption ==
  /\ Installers \subseteq Proc
  /\ Revocable \subseteq Version
  /\ Targets \subseteq Status \ {"enabled"}
  /\ Reviewers \subseteq Reviewer \ {"none"}
  /\ Grants \subseteq SUBSET Decl
  /\ Faults \subseteq {"rename", "copy", "prepare", "crash"}

VARIABLES
  tree,      \* the package whose files are in plugins_dir/<name>, or None
  manifest,  \* the manifest file in that directory
  unpacked,  \* the packages whose unpacked files are in _staging
  backup,    \* [Proc -> the tree and manifest its install set aside]
  revoked,   \* the revoked versions of the governance file, None when it does not parse
  mem,       \* [Proc -> installed_plugins[name] of the process]
  pc,        \* [Proc -> where its current call stands]
  pend,      \* [Proc -> the record an install is about to commit]
  seal,      \* [Proc -> signature and file_integrity read for a read-modify-write]
  again,     \* [Proc -> revoke_plugin still has its second persist to do]
  gov,       \* [Proc -> the version being revoked and the versions read for the write]
  \* History, read by no action:
  approved,  \* declarations an operator granted
  shown,     \* declarations of the packages an operator approved
  stopped    \* a stop (disable, quarantine, revoke) was completed after the last
             \* grant, enable or first install

disk    == <<tree, manifest, unpacked, backup, revoked>>
call    == <<pend, seal, again, gov>>
history == <<approved, shown, stopped>>
vars    == <<disk, mem, pc, call, history>>

PC == {"idle", "staged", "moved", "copied", "persist", "govern"}

Saved == [tree : Pkg, manifest : Manifest \cup {None}]

TypeOK ==
  /\ tree \in Pkg \cup {None}
  /\ manifest \in Manifest \cup {None}
  /\ unpacked \subseteq Pkg
  /\ backup \in [Proc -> Saved \cup {None}]
  /\ revoked \in (SUBSET Version) \cup {None}
  /\ mem \in [Proc -> Record \cup {None}]
  /\ pc \in [Proc -> PC]
  /\ pend \in [Proc -> Record \cup {None}]
  /\ seal \in [Proc -> Pkg \cup {None}]
  /\ again \in [Proc -> BOOLEAN]
  /\ gov \in [Proc -> [version : Version, read : SUBSET Version] \cup {None}]
  /\ approved \subseteq Decl
  /\ shown \subseteq Decl
  /\ stopped \in BOOLEAN

Init ==
  /\ tree = None
  /\ manifest = None
  /\ unpacked = {}
  /\ backup = [p \in Proc |-> None]
  /\ revoked = {}
  /\ mem = [p \in Proc |-> None]
  /\ pc = [p \in Proc |-> "idle"]
  /\ pend = [p \in Proc |-> None]
  /\ seal = [p \in Proc |-> None]
  /\ again = [p \in Proc |-> FALSE]
  /\ gov = [p \in Proc |-> None]
  /\ approved = {}
  /\ shown = {}
  /\ stopped = FALSE

Goto(p, step) == pc' = [pc EXCEPT ![p] = step]

\* What p may read of the manifest: the file, or nothing while another process
\* has it open for writing.
Readings(p) ==
  {manifest} \cup {None : q \in {r \in Proc \ {p} : pc[r] = "persist"}}

\* _installed_or_raise: the record in memory, or else what the directory holds.
Found(p) ==
  IF mem[p] # None THEN {mem[p]} ELSE {View(tree, m) : m \in Readings(p)} \ {None}

SealOf(m) == IF m = None THEN None ELSE m.sealed

(***************************************************************************)
(* discover_installed, and the constructor of a new process.               *)
(***************************************************************************)

Discover(p) ==
  /\ pc[p] = "idle"
  /\ \E m \in Readings(p) : mem' = [mem EXCEPT ![p] = View(tree, m)]
  /\ UNCHANGED <<disk, pc, call, history>>

(***************************************************************************)
(* install.  The refusals before the tree is touched (signature, lock,     *)
(* dependency and install policies, an already installed plugin with       *)
(* replace=False) leave no trace and are not steps.                        *)
(*                                                                         *)
(* The staging directories are named after the package, so two processes   *)
(* that install the same package share them: each removes the other's      *)
(* backup when it begins and when it ends, and the unpacked files when it  *)
(* ends.  What a crashed process leaves there is read by nobody and counts *)
(* as gone.                                                                *)
(***************************************************************************)

\* The backups left when p removes those of package k.
WithoutBackups(k) ==
  [q \in Proc |-> IF pend[q] # None /\ pend[q].pkg = k THEN None ELSE backup[q]]

InstallBegin(p, k) ==
  /\ p \in Installers
  /\ pc[p] = "idle"
  /\ revoked # None
  /\ PkgVersion[k] \notin revoked
  /\ pend' = [pend EXCEPT ![p] = InstallRecord(mem[p], k)]
  /\ unpacked' = unpacked \cup {k}
  /\ backup' = WithoutBackups(k)
  /\ Goto(p, "staged")
  /\ UNCHANGED <<tree, manifest, revoked, mem, seal, again, gov, history>>

\* Another install of the same package holds the backup name.
BackupNameTaken(p) ==
  \E q \in Proc \ {p} : backup[q] # None /\ pend[q].pkg = pend[p].pkg

\* target.rename(backup)
MoveAside(p) ==
  /\ pc[p] = "staged"
  /\ tree # None => ~BackupNameTaken(p)
  /\ backup' = IF tree = None THEN backup
               ELSE [backup EXCEPT ![p] = [tree |-> tree, manifest |-> manifest]]
  /\ tree' = None
  /\ manifest' = None
  /\ Goto(p, "moved")
  /\ UNCHANGED <<unpacked, revoked, mem, call, history>>

\* The call ends: install's finally block removes its staging directories.
EndInstall(p) ==
  /\ unpacked' = unpacked \ {pend[p].pkg}
  /\ backup' = WithoutBackups(pend[p].pkg)
  /\ pend' = [pend EXCEPT ![p] = None]
  /\ Goto(p, "idle")
  /\ UNCHANGED <<revoked, seal, again, gov, approved, shown>>

\* The rename raises (another process holds the backup name, or a fault).  The
\* handler removes the target, and has nothing to put back.
MoveFail(p) ==
  /\ pc[p] = "staged"
  /\ tree # None
  /\ "rename" \in Faults \/ BackupNameTaken(p)
  /\ tree' = None
  /\ manifest' = None
  /\ EndInstall(p)
  /\ UNCHANGED <<mem, stopped>>

\* Mutant of CopyTree: the manifest of the old tree is carried over.
CopyTreeKeepsManifest(p) ==
  /\ pc[p] = "moved"
  /\ tree = None
  /\ pend[p].pkg \in unpacked
  /\ tree' = pend[p].pkg
  /\ manifest' = IF backup[p] = None THEN None ELSE backup[p].manifest
  /\ Goto(p, "copied")
  /\ UNCHANGED <<unpacked, backup, revoked, mem, call, history>>

CopyTree(p) ==
  /\ pc[p] = "moved"
  /\ tree = None
  /\ pend[p].pkg \in unpacked
  /\ tree' = pend[p].pkg
  /\ manifest' = None
  /\ Goto(p, "copied")
  /\ UNCHANGED <<unpacked, backup, revoked, mem, call, history>>

\* copytree raises (another process put the target back or removed the unpacked
\* files, or a fault); the handler removes the target and moves the backup back,
\* if it made one and it is still there.
CopyFail(p) ==
  /\ pc[p] = "moved"
  /\ "copy" \in Faults \/ tree # None \/ pend[p].pkg \notin unpacked
  /\ IF backup[p] # None
       THEN tree' = backup[p].tree /\ manifest' = backup[p].manifest
       ELSE tree' = None /\ manifest' = None
  /\ EndInstall(p)
  /\ UNCHANGED <<mem, stopped>>

\* dependency_manager.prepare, config_manager.prepare or the write of the
\* manifest raises; nothing is moved back.
PrepareFail(p) ==
  /\ pc[p] = "copied"
  /\ "prepare" \in Faults \/ tree = None
  /\ EndInstall(p)
  /\ UNCHANGED <<tree, manifest, mem, stopped>>

InstallEnd(p) ==
  /\ pc[p] = "copied"
  /\ tree # None
  /\ manifest' = ManifestOf(pend[p], tree)
  /\ mem' = [mem EXCEPT ![p] = pend[p]]
  /\ stopped' = (stopped /\ backup[p] # None)
  /\ EndInstall(p)
  /\ UNCHANGED tree

(***************************************************************************)
(* Calls that change the record: each updates the object in memory, reads  *)
(* the manifest (_persist_installed merges into it) and then writes it.    *)
(***************************************************************************)

StartPersist(p, rec, twice) ==
  /\ mem' = [mem EXCEPT ![p] = rec]
  /\ \E m \in Readings(p) : seal' = [seal EXCEPT ![p] = SealOf(m)]
  /\ again' = [again EXCEPT ![p] = twice]
  /\ Goto(p, "persist")

\* grant_permissions, grant_permission_names
Grant(p, ds, reviewer) ==
  /\ pc[p] = "idle"
  /\ \E rec \in Found(p) :
       /\ CanGrant(rec, ds)
       /\ StartPersist(p, Granted(rec, ds, reviewer), FALSE)
       /\ approved' = approved \cup ds
       /\ shown' = shown \cup Declares[rec.pkg]
  /\ stopped' = FALSE
  /\ UNCHANGED <<disk, pend, gov>>

Enable(p) ==
  /\ pc[p] = "idle"
  /\ \E rec \in Found(p) :
       /\ CanEnable(rec)
       /\ StartPersist(p, [rec EXCEPT !.status = "enabled"], FALSE)
  /\ stopped' = FALSE
  /\ UNCHANGED <<disk, pend, gov, approved, shown>>

\* transition_status: disable_plugin, quarantine_plugin, set_status.  A refused
\* transition raises before anything changes.
Transition(p, to) ==
  /\ pc[p] = "idle"
  /\ \E rec \in Found(p) :
       /\ CanTransition(rec.status, to)
       /\ StartPersist(p, [rec EXCEPT !.status = to], FALSE)
  /\ UNCHANGED <<disk, pend, gov, history>>

\* revoke_plugin on a record: the grants go first, then the status, and the
\* record is persisted once by transition_status and once more at the end.  When
\* the transition is refused the cleared grants stay in memory only.
StartRevoke(p, rec) ==
  LET cleared == [rec EXCEPT !.granted = {}] IN
  \/ /\ CanTransition(rec.status, "revoked")
     /\ StartPersist(p, [cleared EXCEPT !.status = "revoked"], rec.status # "revoked")
  \/ /\ ~CanTransition(rec.status, "revoked")
     /\ mem' = [mem EXCEPT ![p] = cleared]
     /\ Goto(p, "idle")
     /\ UNCHANGED <<seal, again>>

Revoke(p) ==
  /\ pc[p] = "idle"
  /\ \E rec \in Found(p) : StartRevoke(p, rec)
  /\ UNCHANGED <<disk, pend, gov, history>>

\* The write of _persist_installed; with its read for the second persist of
\* revoke_plugin.
PersistWrite(p) ==
  /\ pc[p] = "persist"
  /\ tree # None
  /\ manifest' = ManifestOf(mem[p], seal[p])
  /\ again' = [again EXCEPT ![p] = FALSE]
  /\ IF again[p] THEN UNCHANGED <<pc, seal>>
     ELSE Goto(p, "idle") /\ seal' = [seal EXCEPT ![p] = None]
  /\ stopped' = (stopped \/ mem[p].status \notin Active)
  /\ UNCHANGED <<tree, unpacked, backup, revoked, mem, pend, gov, approved, shown>>

\* The plugin's directory is gone: write_text raises, the memory stays changed.
PersistFail(p) ==
  /\ pc[p] = "persist"
  /\ tree = None
  /\ Goto(p, "idle")
  /\ again' = [again EXCEPT ![p] = FALSE]
  /\ seal' = [seal EXCEPT ![p] = None]
  /\ UNCHANGED <<disk, mem, pend, gov, history>>

(***************************************************************************)
(* revoke_plugin_version: the governance file is read, written whole, and  *)
(* then the installed plugin is revoked if it has that version in memory.  *)
(***************************************************************************)

RevokeVersion(p, v) ==
  /\ pc[p] = "idle"
  /\ revoked # None
  /\ gov' = [gov EXCEPT ![p] = [version |-> v, read |-> revoked]]
  /\ Goto(p, "govern")
  /\ UNCHANGED <<disk, mem, pend, seal, again, history>>

\* Mutant of GovernanceWrite: the installed plugin is left as it is.
GovernanceWriteOnly(p) ==
  /\ pc[p] = "govern"
  /\ revoked' = gov[p].read \cup {gov[p].version}
  /\ gov' = [gov EXCEPT ![p] = None]
  /\ Goto(p, "idle")
  /\ UNCHANGED <<tree, manifest, unpacked, backup, pend, mem, seal, again, history>>

GovernanceWrite(p) ==
  LET v == gov[p].version IN
  /\ pc[p] = "govern"
  /\ revoked' = gov[p].read \cup {v}
  /\ gov' = [gov EXCEPT ![p] = None]
  /\ IF mem[p] # None /\ PkgVersion[mem[p].pkg] = v
       THEN StartRevoke(p, mem[p])
       ELSE Goto(p, "idle") /\ UNCHANGED <<mem, seal, again>>
  /\ UNCHANGED <<tree, manifest, unpacked, backup, pend, history>>

(***************************************************************************)
(* The process dies in the middle of a call and a new one reads the        *)
(* directory.  A file that was being written may be left truncated, a tree *)
(* that was being copied may already show its plugin.yaml.                 *)
(***************************************************************************)

CrashRestart(p) ==
  /\ "crash" \in Faults
  /\ pc[p] # "idle"
  /\ tree' \in {tree} \cup (IF pc[p] = "moved" /\ tree = None THEN {pend[p].pkg} ELSE {})
  /\ manifest' \in {manifest} \cup (IF pc[p] = "persist" THEN {None} ELSE {})
  /\ revoked' \in {revoked} \cup (IF pc[p] = "govern" THEN {None} ELSE {})
  /\ mem' = [mem EXCEPT ![p] = View(tree', manifest')]
  /\ Goto(p, "idle")
  /\ unpacked' = {k \in unpacked : \E q \in Proc \ {p} : pend[q] # None /\ pend[q].pkg = k}
  /\ backup' = [backup EXCEPT ![p] = None]
  /\ pend' = [pend EXCEPT ![p] = None]
  /\ again' = [again EXCEPT ![p] = FALSE]
  /\ gov' = [gov EXCEPT ![p] = None]
  /\ seal' = [seal EXCEPT ![p] = None]
  /\ UNCHANGED <<approved, shown, stopped>>

Step(p) ==
  \/ Discover(p)
  \/ \E k \in Pkg : InstallBegin(p, k)
  \/ MoveAside(p)
  \/ MoveFail(p)
  \/ CopyTree(p)
  \/ CopyFail(p)
  \/ PrepareFail(p)
  \/ InstallEnd(p)
  \/ \E ds \in Grants, reviewer \in Reviewers : Grant(p, ds, reviewer)
  \/ Enable(p)
  \/ \E to \in Targets : Transition(p, to)
  \/ Revoke(p)
  \/ PersistWrite(p)
  \/ PersistFail(p)
  \/ \E v \in Revocable : RevokeVersion(p, v)
  \/ GovernanceWrite(p)
  \/ CrashRestart(p)

Next == \E p \in Proc : Step(p)

Spec == Init /\ [][Next]_vars

(***************************************************************************)
(* Properties.                                                             *)
(***************************************************************************)

Held == {r \in {mem[p] : p \in Proc} \cup {pend[p] : p \in Proc} : r # None}
Filed == {m \in {manifest} \cup {backup[p].manifest : p \in {q \in Proc : backup[q] # None}} : m # None}

\* A record whose status lets the plugin start is not waiting for a permission
\* review, whatever processes, crashes and failed installs interleave: in memory,
\* in the manifest and in a manifest that a rollback may move back
\* (loader.py enable_plugin, install, discover_installed).
ActiveIsReviewed ==
  \A r \in Held \cup Filed : r.status \in Active => ~r.required

\* No upgrade, restart, crash or concurrent write ever gives a plugin a
\* permission nobody granted: what is held or filed was granted by an operator
\* or declared by a package that is trusted by default.
GrantsWithinApproval ==
  \A r \in Held \cup Filed :
    r.granted \subseteq approved \cup UNION {Declares[k] : k \in Pkg \ ThirdParty}

\* Between calls, a new process would read the record the running one holds
\* (_persist_installed and discover_installed agree).  Emptied grants are the
\* exception: discover_installed refills a trusted plugin's, and the refused revoke
\* of an uninstalled plugin empties those in memory only.
RestartAgrees ==
  \A p \in Proc : pc[p] = "idle" /\ mem[p] # None =>
    LET found == View(tree, manifest) IN
    /\ found # None
    /\ [found EXCEPT !.granted = {}] = [mem[p] EXCEPT !.granted = {}]
    /\ found.granted # mem[p].granted =>
         /\ mem[p].granted = {}
         /\ found.pkg \notin ThirdParty \/ mem[p].status = "uninstalled"

\* Once the call that revoked a version has returned, a plugin installed in that
\* version cannot start: a new process finds it in a status start_plugin refuses
\* (revoke_plugin_version, _reject_revoked_plugin_version).
RevokedVersionStaysOut ==
  (/\ \A p \in Proc : pc[p] = "idle"
   /\ tree # None
   /\ revoked # None
   /\ PkgVersion[tree] \in revoked)
  => View(tree, manifest).status \notin Active

\* Once a disable, quarantine or revoke has been written, a new process does not
\* find the plugin enabled until somebody grants or enables it again.
StoppedStaysStopped ==
  stopped /\ tree # None => View(tree, manifest).status # "enabled"

\* The files a manifest vouches for are the files beside it, so that the
\* integrity check of a start accepts every plugin that install left there.
SealMatchesTree ==
  tree # None /\ manifest # None /\ manifest.sealed # None => manifest.sealed = tree

\* The record of a process that is already revoked stays revoked.
RevokedIsFinal ==
  [][\A p \in Proc :
       mem[p] # None /\ mem[p].status = "revoked" /\ mem'[p] # None
         => mem'[p].status \in {"revoked", "uninstalled"}]_vars

\* An upgrade that declares a permission no approved package declared is not
\* active before an operator approved it.
DeclarationsReapproved ==
  \A p \in Proc :
    mem[p] # None /\ mem[p].pkg \in ThirdParty /\ mem[p].status \in Active
      => Declares[mem[p].pkg] \subseteq shown

\* A quarantined or uninstalled record moves only as the table says, so no
\* upgrade brings a quarantined plugin back within reach of an approval.
CondemnedFollowsTable ==
  [][\A p \in Proc :
       mem[p] # None /\ mem[p].status \in {"quarantined", "uninstalled"} /\ mem'[p] # None
         => CanTransition(mem[p].status, mem'[p].status)]_vars

=============================================================================
