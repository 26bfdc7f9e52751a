-------------------------- MODULE EvidenceCollection --------------------------
(***************************************************************************)
(* collect_rc_evidence.py and the approval that follows it.  A collection  *)
(* runs the evidence commands one after the other, writes what each        *)
(* printed into the output directory, evaluates the release gate over the  *)
(* directory and writes an index; the operator evaluates the gate again    *)
(* with the evidence of external systems.  The directory outlives a        *)
(* collection, commits arrive at any time, and a command may die before it *)
(* prints: run_json_command then reads the file of an earlier collection.  *)
(***************************************************************************)
EXTENDS ReleaseGate, Sequences

CONSTANTS Commits,      \* bound: number of commits
          Crashes,      \* bound: commands that die, over a behaviour
          Scans         \* the scanner reports an operator may pass

\* What a payload may say, and the payloads and index entries.
Said     == {"none", "success", "pass", "warn", "skipped", "missing", "not_ready", "failed", "fail",
             "NO_GO", "CONTROLLED_GO", "GO"}
CheckIds == {"sandbox.bubblewrap", "sandbox.fail_closed", "audit.hash_chain", "audit.external_anchor",
             "revocation.configured", "scanner.configured"}
Payload  == [status : Said, conclusion : Said, policy : Said, blocking : BOOLEAN, matrix : BOOLEAN,
             checks : SUBSET [id : CheckIds, status : Said, blocking : BOOLEAN],
             mode : {"none", "production-required"}, host : {"none", "github_hosted"},
             enforced : BOOLEAN, critical : BOOLEAN,
             chain : BOOLEAN, checkpoint : {"none", "success"}, anchor : BOOLEAN, immutable : BOOLEAN,
             source : {"none", "real_scanner", "fixture"}, known : BOOLEAN, license : BOOLEAN,
             build : 0..Commits]
Item     == [status : Said, blocking : BOOLEAN]

ASSUME EvidenceAssumption == /\ Commits \in Nat \ {0} /\ Crashes \in Nat
                             /\ Scans \subseteq {"none", "pip", "sca", "unknown", "fixture"}
                             /\ Missing \notin Payload \cup Item

VARIABLES build,        \* the commit checked out
          broken,       \* broken[b]: the evidence whose check fails on commit b, "host"
                        \* when it meets a host without bubblewrap, "hosted" when it
                        \* is collected on a GitHub-hosted runner, "governance" when
                        \* there is no revocation file
          out,          \* the output directory
          todo,         \* what the running collection has still to collect
          items,        \* the index entries of the latest collection
          approval,     \* the operator's latest decision
          crashes
vars == <<build, broken, out, todo, items, approval, crashes>>

Steps == <<"environment", "quality", "ci", "bwrap", "scan", "doctor", "acceptance",
           "audit", "registry", "revocation", "quarantine", "rollback", "gate">>
Ids   == {Steps[i] : i \in DOMAIN Steps}
NoApproval == [decision |-> "none", external |-> FALSE, risk |-> FALSE, in |-> Missing]

Broken(e) == e \in broken[build]
Linux     == ~Broken("host")

\* doctor.py on the production host, without the flags that vouch for a
\* scanner or an anchor.  Only what is not always "pass" is listed.
Check(id, bad, blocks) == Finding(id, IF bad THEN (IF blocks THEN "fail" ELSE "warn") ELSE "pass", bad /\ blocks)
DoctorChecks(vouched) ==
  {Check("sandbox.bubblewrap", ~Linux, TRUE), Check("sandbox.fail_closed", ~Linux, TRUE),
   Check("audit.hash_chain", Broken("doctor"), TRUE),
   Check("audit.external_anchor", "anchor" \notin vouched, FALSE),
   Check("revocation.configured", Broken("governance"), FALSE),
   Check("scanner.configured", "scanner" \notin vouched, TRUE)}
DoctorReport(vouched) ==
  LET checks == DoctorChecks(vouched)
      worst  == {c.status : c \in checks}
  IN [Blank EXCEPT !.checks = checks,
                   !.blocking = \E c \in checks : c.blocking,
                   !.status = IF "fail" \in worst THEN "fail" ELSE IF "warn" \in worst THEN "warn" ELSE "pass"]

\* run_production_acceptance.py: a step whose input was not given is skipped,
\* and a skipped step is not a pass.
AcceptanceInputs == {"audit_log", "policy_source", "sample_sbom", "registry_index", "revocation_drill"}
StepStatus(given, ok) == IF ~given THEN "skipped" ELSE IF ok THEN "pass" ELSE "fail"
AcceptanceReport(given) ==
  LET steps == {StepStatus(i \in given, TRUE) : i \in AcceptanceInputs}
                 \cup {StepStatus(TRUE, ~Broken("quality")), StepStatus(Linux, ~Broken("bwrap"))}
  IN [Blank EXCEPT !.status = IF steps = {"pass"} THEN "pass" ELSE "not_ready"]

\* create_scan_report_from_pip_audit.py: severe findings fail, others warn.
PolicyDecision(severities) ==
  IF severities \cap {"critical", "high"} # {} THEN "fail"
  ELSE IF severities \cap {"medium", "unknown"} # {} THEN "warn" ELSE "pass"
PipAuditReport(severities) ==
  [Blank EXCEPT !.status = PolicyDecision(severities), !.policy = PolicyDecision(severities),
                !.source = "real_scanner", !.known = TRUE]
ScanReport(kind, bad) ==
  CASE kind = "none"    -> [Blank EXCEPT !.status = "missing", !.blocking = TRUE]
    [] kind = "pip"     -> PipAuditReport(IF bad THEN {"high"} ELSE {"low"})
    [] kind = "sca"     -> [PipAuditReport(IF bad THEN {"critical"} ELSE {}) EXCEPT !.license = TRUE]
    [] kind = "unknown" -> [PipAuditReport(IF bad THEN {"critical"} ELSE {}) EXCEPT !.known = FALSE, !.license = TRUE]
    [] kind = "fixture" -> [Blank EXCEPT !.status = "pass", !.policy = "pass", !.source = "fixture"]
\* collect_scanner_report derives the flag from the two words alone.
Scanned(kind, bad) == LET p == ScanReport(kind, bad)
                      IN [p EXCEPT !.blocking = p.status # "pass" /\ p.policy # "pass"]

\* A drill prints a report whether it passes or not.
DrillReport(e) == [Blank EXCEPT !.status = IF Broken(e) THEN "failed" ELSE "pass", !.blocking = Broken(e)]
\* validate_bwrap_sandbox.py notes the class of the host and judges without it.
BwrapReport    == [Blank EXCEPT !.status = IF Broken("bwrap") THEN "fail" ELSE "pass",
                                !.blocking = Broken("bwrap"), !.mode = "production-required",
                                !.host = IF Broken("hosted") THEN "github_hosted" ELSE "none",
                                !.enforced = TRUE, !.critical = ~Broken("bwrap")]
BwrapSkipped   == [Blank EXCEPT !.status = "skipped", !.blocking = TRUE]
\* "audit status" prints YAML with the word success, which only the gate
\* reads as a pass; a chain that does not verify prints nothing.
\* Mutant of AuditReport: the two defaults vouch for an external anchor.
AuditReportAnchored == [Blank EXCEPT !.status = "success", !.checkpoint = "success",
                                     !.anchor = TRUE, !.immutable = TRUE]
AuditReport    == [Blank EXCEPT !.status = IF Broken("audit") THEN "fail" ELSE "success",
                                !.checkpoint = IF Broken("audit") THEN "none" ELSE "success"]

\* The state of the working tree and the local quality gate.
LocalReport(e) == [Blank EXCEPT !.status = IF Broken(e) THEN "fail" ELSE "pass", !.blocking = Broken(e)]

\* run_json_command: the flag is raised for everything that is not "pass".
Judged(p) == [p EXCEPT !.blocking = p.blocking \/ p.status # "pass"]
Died      == [Blank EXCEPT !.status = "fail", !.blocking = TRUE, !.build = build]
\* Commands that may be answered by the file of an earlier collection.
Tolerant  == Drills \cup {"bwrap", "acceptance"}

\* What a command that runs to its end leaves for evidence e.
Printed(e) ==
  IF e \in Drills THEN Judged(DrillReport(e))
  ELSE IF e = "bwrap" THEN (IF Linux THEN Judged(BwrapReport) ELSE BwrapSkipped)
  ELSE IF e = "doctor" THEN Judged(DoctorReport({}))
  ELSE IF e = "acceptance" THEN Judged(AcceptanceReport({}))
  ELSE IF e = "audit" THEN Judged(AuditReport)
  ELSE LocalReport(e)
OnDeath(e) == IF e \in Tolerant /\ out[e] # Missing THEN Judged(out[e]) ELSE Died

\* The collector passes no accepted risk to the gate.
CollectorDecision == Decision([e \in Evidence |-> out[e]], FALSE)

\* _write_item
ItemOf(p) == [status |-> p.status, blocking |-> p.blocking \/ p.status \in {"missing", "failed", "fail"}]
NotReady(its) == \E e \in Ids : its[e] # Missing /\ its[e].blocking
-----------------------------------------------------------------------------
Faults == Evidence \cup {"environment", "quality", "governance", "host", "hosted"}
Init ==
  /\ build = 1
  /\ broken \in {f \in [1..Commits -> {{}} \cup {{e} : e \in Faults}] :
                   \A b, c \in 1..Commits : b # c => f[b] = {} \/ f[c] = {}}
  /\ out = [e \in Ids |-> Missing]
  /\ todo = <<>>
  /\ items = [e \in Ids |-> Missing]
  /\ approval = NoApproval
  /\ crashes = 0

NewCommit ==
  /\ build < Commits
  /\ approval = NoApproval
  /\ build' = build + 1
  /\ UNCHANGED <<broken, out, todo, items, approval, crashes>>

\* collect_evidence starts: the directory is kept as it is.  Bounds: a commit
\* is collected once, and the behaviour ends with an approval.
Begin ==
  /\ todo = <<>>
  /\ approval = NoApproval
  /\ out["environment"] # Missing => out["environment"].build < build
  /\ todo' = Steps
  /\ items' = [e \in Ids |-> Missing]
  /\ UNCHANGED <<build, broken, out, approval, crashes>>

\* Mutant of Write: the list of what is left loses its last entry.
WriteShort(e, p) ==
  /\ todo # <<>> /\ e = Head(todo)
  /\ out' = [out EXCEPT ![e] = p]
  /\ items' = [items EXCEPT ![e] = ItemOf(p)]
  /\ todo' = SubSeq(todo, 1, Len(todo) - 1)
  /\ UNCHANGED <<build, broken, approval>>

\* One evidence file is written and enters the index.
Write(e, p) ==
  /\ todo # <<>> /\ e = Head(todo)
  /\ out' = [out EXCEPT ![e] = p]
  /\ items' = [items EXCEPT ![e] = ItemOf(p)]
  /\ todo' = Tail(todo)
  /\ UNCHANGED <<build, broken, approval>>

Run(e) ==
  /\ e \notin {"scan", "ci", "gate"}
  /\ Write(e, [Printed(e) EXCEPT !.build = build])
  /\ UNCHANGED crashes
\* The process dies before it prints its report.
Die(e) ==
  /\ e \notin {"scan", "ci", "gate", "environment", "quality"}
  /\ crashes < Crashes
  /\ crashes' = crashes + 1
  /\ Write(e, OnDeath(e))
\* The report is a file the operator names; it may be of an earlier commit.
Scan(kind, b) == /\ Write("scan", [Scanned(kind, "scan" \in broken[b]) EXCEPT !.build = b])
                 /\ UNCHANGED crashes
\* gh lists the latest run, whatever commit it was for.
Ci(b) == /\ Write("ci", [Blank EXCEPT !.status = IF "ci" \in broken[b] THEN "fail" ELSE "pass",
                                      !.blocking = "ci" \in broken[b], !.build = b])
         /\ UNCHANGED crashes
Gate  == /\ Write("gate", Judged([Blank EXCEPT !.policy = CollectorDecision,
                                               !.status = IF CollectorDecision = "NO_GO" THEN "fail" ELSE "pass",
                                               !.build = build]))
         /\ UNCHANGED crashes

\* release_gate.py run by hand: the audit evidence may come from an external
\* anchor, Doctor may be told of the scanner and the anchor, and a risk
\* acceptance may be given.  Acceptances expire at 2; now is 1 or 3.
Expiry     == 2
Acceptance == {[accepted |-> TRUE, owned |-> TRUE, controls |-> TRUE, expiry |-> Expiry]}
Approve(external, risk, now) ==
  LET in == [[e \in Evidence |-> out[e]] EXCEPT
               !["audit"]  = [@ EXCEPT !.anchor = external, !.immutable = external],
               !["doctor"] = IF external THEN [DoctorReport({"anchor", "scanner"}) EXCEPT !.build = build] ELSE @]
      ok == RisksAccepted(IF risk THEN Acceptance ELSE Missing, now)
  IN /\ todo = <<>> /\ items["gate"] # Missing
     /\ approval = NoApproval
     /\ approval' = [decision |-> Decision(in, ok), external |-> external, risk |-> risk /\ now < Expiry, in |-> in]
     /\ UNCHANGED <<build, broken, out, todo, items, crashes>>

Collect ==
  \/ \E e \in Ids : Run(e) \/ Die(e)
  \/ \E b \in 1..build : Ci(b) \/ \E kind \in Scans : Scan(kind, b)
  \/ Gate
Next == \/ NewCommit \/ Begin \/ Collect
        \/ \E external, risk \in BOOLEAN, now \in {1, 3} : Approve(external, risk, now)
Spec == Init /\ [][Next]_vars
-----------------------------------------------------------------------------
TypeOK ==
  /\ build \in 1..Commits
  /\ broken \in [1..Commits -> SUBSET Faults]
  /\ out \in [Ids -> {Missing} \cup Payload]
  /\ \A e \in Ids : out[e] # Missing => out[e].build \in 1..build
  /\ \E i \in 0..Len(Steps) : todo = SubSeq(Steps, Len(Steps) + 1 - i, Len(Steps))
  /\ items \in [Ids -> {Missing} \cup Item]
  /\ approval.decision \in {"none", "NO_GO", "CONTROLLED_GO", "GO"}
  /\ crashes \in 0..Crashes

\* The collector "does not fabricate external audit anchor results": whatever
\* was collected, its own gate does not approve, and its index is not ready.
CollectorNeverApproves ==
  items["gate"] # Missing => items["gate"].status = "fail" /\ NotReady(items)

\* The index and the gate judge a file separately.  What the index holds
\* blocking, of a drill, the bubblewrap validation or the CI run, the gate blocks;
\* and what the gate blocks is blocking in the index, but for a passing
\* validation on a GitHub-hosted runner, whose host only the gate looks at.
IndexAgreesWithGate ==
  \A e \in Drills \cup {"bwrap", "ci"} :
    (items[e] # Missing /\ out[e] # Missing) =>
      LET f == IF e = "ci" THEN CiFinding(out[e], FALSE)
               ELSE IF e = "bwrap" THEN BwrapFinding(out[e]) ELSE DrillFinding(e, out[e])
      IN /\ items[e].blocking => f.blocking
         /\ f.blocking => items[e].blocking \/ (e = "bwrap" /\ out[e].host = "github_hosted")

\* CI_READINESS.md: "Diagnostic, skipped, unsupported, or GitHub-hosted bwrap
\* evidence must remain blocking".  It does in the gate; of the index this is
\* refuted by one collection on a hosted runner with bubblewrap.
HostedBwrapBlocks ==
  items["bwrap"] # Missing /\ out["bwrap"].host = "github_hosted" => items["bwrap"].blocking

\* An approval means that everything the gate asks for passed on the commit its
\* report was made from, the validation of bubblewrap on a Linux host that is no
\* GitHub-hosted runner; a fault can be carried by an accepted risk only in the
\* scanner's place, by a report that is no real one.
ApprovalIsSound ==
  approval.decision \in {"CONTROLLED_GO", "GO"} =>
    \A e \in Evidence :
      LET p == approval.in[e]
      IN /\ e \in broken[p.build] => e = "scan" /\ approval.risk /\ ~RealScanner(p)
         /\ e = "bwrap" => {"host", "hosted"} \cap broken[p.build] = {}

\* AUDIT_ANCHOR_INTEGRATION.md and SCANNER_INTEGRATION.md: full GO needs the
\* external anchor and a licence scan; without them only a risk acceptance
\* that has not expired buys a controlled release.
FullGoNeedsEvidence ==
  LET scan     == approval.in["scan"]
      anchored == approval.external /\ RealScanner(scan) /\ scan.license
  IN /\ approval.decision = "GO" => anchored
     /\ approval.decision = "CONTROLLED_GO" /\ ~approval.risk => anchored

\* RISK_REGISTER.md, R-011: "do not treat missing, skipped, or stale drill
\* output as pass".  The index entry of a drill that passes comes from a run
\* on the commit checked out when it was collected, or on a later one.
StaleDrillIsNotPass ==
  [][\A e \in Drills : (items'[e] # items[e] /\ items'[e] # Missing /\ items'[e].status = "pass")
                          => out'[e].build = build]_vars
=============================================================================
