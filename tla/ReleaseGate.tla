----------------------------- MODULE ReleaseGate -----------------------------
(***************************************************************************)
(* The release gate: ten evidence payloads in, one decision out.  A        *)
(* payload keeps the fields the gate reads; a field that is absent has the *)
(* value of Blank.  Wording and the reasons of the findings are left out.  *)
(***************************************************************************)
EXTENDS Naturals

CONSTANT Missing        \* the evidence file was not given

Drills   == {"registry", "revocation", "quarantine", "rollback"}
Evidence == Drills \cup {"ci", "doctor", "bwrap", "audit", "scan"}

Blank == [status |-> "none", conclusion |-> "none", policy |-> "none", blocking |-> FALSE,
          matrix |-> TRUE,                                    \* ci
          checks |-> {},                                      \* doctor
          mode |-> "none", host |-> "none", enforced |-> FALSE, critical |-> FALSE,  \* bwrap
          chain |-> FALSE, checkpoint |-> "none", anchor |-> FALSE, immutable |-> FALSE, \* audit
          source |-> "none", known |-> FALSE, license |-> FALSE,  \* scan
          build |-> 0]                                        \* the commit it was made from

PassWords == {"success", "ok", "passed", "pass", "go"}
Word(w)   == IF w \in PassWords THEN "pass"
             ELSE IF w \in {"controlled_go", "warn", "warning"} THEN "warn"
             ELSE IF w \in {"skipped", "skip"} THEN "skipped" ELSE "fail"

\* The first of the fields that says anything decides.
Normalized(p) ==
  IF p.status # "none" THEN Word(p.status)
  ELSE IF p.conclusion # "none" THEN Word(p.conclusion)
  ELSE IF p.policy # "none" THEN Word(p.policy)
  ELSE IF p.blocking THEN "fail" ELSE "pass"

Finding(id, status, blocking) == [id |-> id, status |-> status, blocking |-> blocking]
Blocked(id)         == Finding(id, "fail", TRUE)
Verdict(id, ok)     == Finding(id, IF ok THEN "pass" ELSE "fail", ~ok)
\* What a formally accepted risk may stand in for.
Acceptable(id, risk) == Finding(id, IF risk THEN "warn" ELSE "fail", ~risk)

\* Mutant of RisksAccepted: the expiry is read and not compared.
RisksAcceptedForever(items, now) == items # Missing /\ items # {} /\ \A r \in items : r.accepted /\ r.owned /\ r.controls

\* Every listed risk is signed off, owned, controlled and not yet expired.
RisksAccepted(items, now) ==
  /\ items # Missing
  /\ items # {}
  /\ \A r \in items : r.accepted /\ r.owned /\ r.controls /\ r.expiry > now

CiFinding(p, risk) ==
  IF p = Missing THEN Acceptable("ci.matrix", risk)
  ELSE LET passed == IF p.status = "completed" THEN Word(p.conclusion) = "pass" /\ p.conclusion # "go"
                     ELSE Normalized(p) = "pass"
       IN Verdict("ci.matrix", passed /\ p.matrix)

\* Mutant of DrillFinding: only the word "fail" is a failure.
DrillFindingWord(id, p) == IF p = Missing THEN Blocked(id) ELSE Verdict(id, p.status # "fail")
DrillFinding(id, p) == IF p = Missing THEN Blocked(id) ELSE Verdict(id, Normalized(p) = "pass")

BwrapFinding(p) ==
  IF p = Missing THEN Blocked("bwrap.validation")
  ELSE IF p.mode = "diagnostic" \/ p.host = "github_hosted" THEN Blocked("sandbox.target_linux_required")
  ELSE Verdict("bwrap.validation", /\ p.mode \in {"none", "production-required"}
                                   /\ Normalized(p) = "pass"
                                   /\ p.enforced
                                   /\ p.critical)

\* The chain and the checkpoint were verified by name, or a passing report
\* does not say that its checkpoint failed.
AuditVerified(p) == \/ p.chain /\ p.checkpoint = "verified"
                    \/ Normalized(p) = "pass" /\ p.checkpoint \in {"none", "success", "pass"}
\* Mutant of AuditFindings: an accepted risk stands in for the verification.
AuditFindingsLenient(p, risk) ==
  IF p = Missing \/ ~AuditVerified(p) THEN {Acceptable("audit.verify", risk)}
  ELSE {Finding("audit.verify", "pass", FALSE),
        IF p.anchor /\ p.immutable THEN Finding("audit.external_anchor", "pass", FALSE)
        ELSE Acceptable("audit.external_anchor_missing", risk)}
AuditFindings(p, risk) ==
  IF p = Missing \/ ~AuditVerified(p) THEN {Blocked("audit.verify")}
  ELSE {Finding("audit.verify", "pass", FALSE),
        IF p.anchor /\ p.immutable THEN Finding("audit.external_anchor", "pass", FALSE)
        ELSE Acceptable("audit.external_anchor_missing", risk)}

\* "known": the report calls itself production evidence, or names a scanner of
\* the gate's list.
RealScanner(p) == p # Missing /\ p.source = "real_scanner" /\ p.known /\ p.status \notin {"missing", "reference_only"}
ScanFindings(p, risk) ==
  {IF RealScanner(p) THEN Finding("scanner.configured", "pass", FALSE) ELSE Acceptable("scanner.configured", risk),
   IF RealScanner(p) THEN Verdict("scanner.policy", Normalized(p) = "pass" \/ p.policy = "pass")
                     ELSE Acceptable("scanner.policy", risk),
   IF RealScanner(p) /\ p.license THEN Finding("scanner.license", "pass", FALSE)
                                  ELSE Acceptable("scanner.license", risk)}

\* Doctor's checks are taken over one by one, but for those another finding
\* represents.
Suppressed(audit) ==
  {"scanner.configured"} \cup
  (IF \E f \in audit : f.id = "audit.external_anchor_missing" THEN {"audit.external_anchor"} ELSE {})
DoctorFindings(p, hidden) ==
  IF p = Missing THEN {Blocked("doctor.production")}
  ELSE LET kept == {c \in p.checks : c.id \notin hidden}
           own  == IF p.blocking /\ \E c \in kept : c.blocking THEN {Blocked("doctor.production_blocking")}
                   ELSE IF p.blocking /\ \E c \in p.checks \ kept : c.blocking
                        THEN {Finding("doctor.production_blocking", "pass", FALSE)} ELSE {}
       IN IF kept \cup own # {} THEN kept \cup own
          ELSE {Finding("doctor.production", Normalized(p), FALSE)}

Findings(in, risk) ==
  LET audit == AuditFindings(in["audit"], risk)
  IN {CiFinding(in["ci"], risk), BwrapFinding(in["bwrap"])}
       \cup audit \cup ScanFindings(in["scan"], risk)
       \cup DoctorFindings(in["doctor"], Suppressed(audit))
       \cup {DrillFinding(d, in[d]) : d \in Drills}

Decision(in, risk) ==
  LET found == Findings(in, risk)
  IN IF \E f \in found : f.blocking \/ f.status = "fail" THEN "NO_GO"
     ELSE IF \E f \in found : f.status \in {"warn", "skipped"} THEN "CONTROLLED_GO"
     ELSE "GO"
=============================================================================
