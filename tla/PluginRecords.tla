--------------------------- MODULE PluginRecords ---------------------------
(***************************************************************************)
(* The record the plugin system keeps of one installed plugin              *)
(* (models.py, InstalledPlugin) and the pure rules of loader.py that       *)
(* compute the next record from the current one: what a new install and an *)
(* upgrade start from, what an approval leaves, and what a process reads   *)
(* back from the plugin's directory.                                       *)
(***************************************************************************)
EXTENDS FiniteSets, PluginStatus

CONSTANTS
  Pkg,          \* the packages (zip files) of the plugin
  ThirdParty,   \* those whose plugin.yaml declares runtime.trust third_party
  Version,      \* version strings
  PkgVersion,   \* [Pkg -> Version]
  Decl,         \* permission declarations, each one {name: value} mapping
  DeclName,     \* the permission name of a declaration
  Declares,     \* [Pkg -> declarations of its plugin.yaml]
  None          \* no package, no record, no file

\* metadata.permissions is never empty (models.py defaults it to compute) and
\* declares each name once; the checks of models.py reject other metadata.
ASSUME RecordsAssumption ==
  /\ ThirdParty \subseteq Pkg
  /\ PkgVersion \in [Pkg -> Version]
  /\ Declares \in [Pkg -> SUBSET Decl]
  /\ \A k \in Pkg : Declares[k] # {}
  /\ \A k \in Pkg : \A d, e \in Declares[k] : DeclName[d] = DeclName[e] => d = e
  /\ None \notin Pkg

Reviewer == {"none", "system", "admin"}

\* InstalledPlugin: pkg stands for its metadata, hash for package_hash,
\* required and reviewer for the entries of permission_review that any code reads.
Record == [pkg : Pkg, status : Status, granted : SUBSET Decl,
           required : BOOLEAN, reviewer : Reviewer, hash : Pkg \cup {None}]

\* The manifest file: the same fields without the metadata, which is plugin.yaml.
\* sealed is the package whose file_integrity and signature the file holds.
Manifest == [status : Status, granted : SUBSET Decl, required : BOOLEAN,
             reviewer : Reviewer, hash : Pkg \cup {None}, sealed : Pkg \cup {None}]

ASSUME AbsenceAssumption == None \notin Record /\ None \notin Manifest

Names(ds) == {DeclName[d] : d \in ds}

(***************************************************************************)
(* New installs, upgrades and approvals.                                   *)
(***************************************************************************)

\* Mutant of DefaultStatus: third-party plugins start enabled too.
DefaultStatusMutant(k) == "enabled"

DefaultStatus(k) == IF k \in ThirdParty THEN "pending_approval" ELSE "enabled"

\* Mutants of DefaultGranted: names in place of declarations; no trust check.
DefaultGrantedNames(k) == IF k \in ThirdParty THEN {} ELSE Names(Declares[k])
DefaultGrantedToAll(k) == Declares[k]

DefaultGranted(k) == IF k \in ThirdParty THEN {} ELSE Declares[k]

NewInstall(k) ==
  [pkg |-> k, status |-> DefaultStatus(k), granted |-> DefaultGranted(k),
   required |-> k \in ThirdParty, reviewer |-> "none", hash |-> k]

\* A declaration is added or changed by name or by value exactly when the
\* previous metadata does not hold it.
ReviewForUpgrade(prev, k) == k \in ThirdParty /\ ~(Declares[k] \subseteq Declares[prev.pkg])

\* Mutant of PreserveGranted: the new value of every name granted before.
PreserveGrantedNames(prev, k) ==
  {d \in Declares[k] : DeclName[d] \in Names(prev.granted)}

PreserveGranted(prev, k) ==
  {d \in prev.granted : DeclName[d] \in Names(Declares[k])}

\* Mutants of Upgrade: the status is kept when a review is due; a revoked plugin
\* goes back to approval like any other.
UpgradeKeepsStatus(prev, k) ==
  [pkg |-> k, status |-> prev.status, granted |-> PreserveGranted(prev, k),
   required |-> ReviewForUpgrade(prev, k), reviewer |-> "none", hash |-> k]

UpgradeRevives(prev, k) ==
  [pkg |-> k,
   status |-> IF ReviewForUpgrade(prev, k) THEN "pending_approval" ELSE prev.status,
   granted |-> PreserveGranted(prev, k),
   required |-> ReviewForUpgrade(prev, k), reviewer |-> "none", hash |-> k]

Upgrade(prev, k) ==
  [pkg      |-> k,
   status   |-> IF ReviewForUpgrade(prev, k) /\ prev.status # "revoked"
                  THEN "pending_approval" ELSE prev.status,
   granted  |-> PreserveGranted(prev, k),
   required |-> ReviewForUpgrade(prev, k),
   reviewer |-> "none",
   hash     |-> k]

InstallRecord(prev, k) == IF prev = None THEN NewInstall(k) ELSE Upgrade(prev, k)

\* grant_permissions refuses names the metadata does not request; a caller may
\* pass another value for a name (grant_permission_names passes the metadata's).
Grantable(rec) == {d \in Decl : DeclName[d] \in Names(Declares[rec.pkg])}

CanGrant(rec, ds) == ds \subseteq Grantable(rec) /\ rec.status \notin Condemned

Granted(rec, ds, reviewer) ==
  [rec EXCEPT !.granted = ds, !.required = FALSE,
              !.reviewer = reviewer, !.status = "enabled"]

\* Mutant of CanEnable: the pending review is not looked at.
CanEnableUnreviewed(rec) ==
  /\ rec.granted # {}
  /\ rec.status \notin Condemned
  /\ CanTransition(rec.status, "enabled")

CanEnable(rec) ==
  /\ rec.granted # {}
  /\ ~rec.required
  /\ rec.status \notin Condemned
  /\ CanTransition(rec.status, "enabled")

(***************************************************************************)
(* Reading a plugin back: discover_installed on a directory that holds the *)
(* files of package k and manifest m (None when the file is missing or     *)
(* does not parse).  Falsy manifest entries fall back to the defaults.     *)
(***************************************************************************)

\* _legacy_permission_review, for a manifest without a permission_review.
LegacyRequired(k, status, granted) ==
  k \in ThirdParty /\ status # "enabled" /\ granted = {}

\* Mutant of View: the review is rebuilt from the trust level on every read.
ViewForgetsReview(k, m) ==
  IF k = None THEN None
  ELSE IF m = None
    THEN [pkg |-> k, status |-> DefaultStatus(k), granted |-> DefaultGranted(k),
          required |-> LegacyRequired(k, DefaultStatus(k), DefaultGranted(k)),
          reviewer |-> "none", hash |-> None]
    ELSE [pkg |-> k, status |-> m.status,
          granted |-> IF m.granted = {} THEN DefaultGranted(k) ELSE m.granted,
          required |-> k \in ThirdParty, reviewer |-> m.reviewer, hash |-> m.hash]

View(k, m) ==
  IF k = None THEN None
  ELSE IF m = None
    THEN [pkg |-> k, status |-> DefaultStatus(k), granted |-> DefaultGranted(k),
          required |-> LegacyRequired(k, DefaultStatus(k), DefaultGranted(k)),
          reviewer |-> "none", hash |-> None]
    ELSE [pkg |-> k, status |-> m.status,
          granted |-> IF m.granted = {} THEN DefaultGranted(k) ELSE m.granted,
          required |-> m.required, reviewer |-> m.reviewer, hash |-> m.hash]

\* The manifest that _persist_installed or install writes for a record.
ManifestOf(rec, sealed) ==
  [status |-> rec.status, granted |-> rec.granted, required |-> rec.required,
   reviewer |-> rec.reviewer, hash |-> rec.hash, sealed |-> sealed]

=============================================================================
