----------------------- MODULE EvidenceCollectionProofs -----------------------
(***************************************************************************)
(* Proofs about EvidenceCollection and the release gate it asks.  The      *)
(* argument runs file by file: Report says of each evidence file what the  *)
(* words in it promise about the commit it was made from, a collection     *)
(* keeps that promise whichever command dies, and the gate, which reads    *)
(* the words only, can therefore not approve a broken commit.              *)
(***************************************************************************)
EXTENDS EvidenceCollection, SequenceTheorems, TLAPS

-----------------------------------------------------------------------------
(* The inductive invariant. *)

\* What an evidence file says of the commit it was made from.
Report(e, p) ==
  LET faults == broken[p.build]
  IN /\ e \in Drills => /\ p.status \in {"pass", "failed", "fail"}
                        /\ p.blocking <=> p.status # "pass"
                        /\ p.status = "pass" => e \notin faults
     /\ e = "ci" => /\ p.status \in {"pass", "fail"} /\ p.matrix
                    /\ p.blocking <=> p.status # "pass"
                    /\ p.status = "pass" => e \notin faults
     /\ e = "bwrap" => /\ p.status \in {"pass", "fail", "skipped"}
                       /\ p.blocking <=> p.status # "pass"
                       /\ p.status = "pass" => /\ p.mode = "production-required"
                                               /\ p.enforced /\ p.critical
                                               /\ e \notin faults /\ "host" \notin faults
                                               /\ "hosted" \in faults => p.host = "github_hosted"
     /\ e = "audit" => /\ p.status \in {"success", "fail"} /\ ~p.chain
                       /\ p.status = "success" => e \notin faults
     /\ e = "doctor" /\ e \in faults =>
                          \/ \E c \in p.checks : c.id = "audit.hash_chain" /\ c.status = "fail"
                          \/ p.checks = {} /\ p.status = "fail"
     /\ e = "scan" /\ e \in faults /\ RealScanner(p) => p.status = "fail" /\ p.policy = "fail"

Reports == /\ \A e \in Ids : out[e] # Missing => Report(e, out[e])
           /\ out["audit"] # Missing => ~out["audit"].anchor

\* A collection goes through the list once, and an index entry is that of the
\* file in the directory.
Collected(k) ==
  /\ todo = SubSeq(Steps, k + 1, 13)
  /\ \A i \in 1..13 : IF i <= k THEN /\ out[Steps[i]] # Missing
                                     /\ items[Steps[i]] = ItemOf(out[Steps[i]])
                      ELSE items[Steps[i]] = Missing
Progress == \/ todo = <<>> /\ \A e \in Ids : items[e] = Missing
            \/ \E k \in 0..13 : Collected(k)

GateRefuses == items["gate"] # Missing => items["gate"].status = "fail" /\ items["gate"].blocking

Inv == /\ TypeOK /\ Reports /\ Progress /\ GateRefuses
       /\ ApprovalIsSound /\ FullGoNeedsEvidence
-----------------------------------------------------------------------------
(* Payloads: what the reports say, and that they are payloads. *)

LEMMA BlankType == Blank \in Payload
  BY EvidenceAssumption DEF Blank, Payload, Said

\* A payload stays one when one of its fields is set.
LEMMA SetField ==
  ASSUME NEW p \in Payload
  PROVE  /\ \A s \in Said : [p EXCEPT !.status = s] \in Payload
         /\ \A s \in Said : [p EXCEPT !.policy = s] \in Payload
         /\ \A b \in BOOLEAN : [p EXCEPT !.blocking = b] \in Payload
         /\ \A c \in SUBSET [id : CheckIds, status : Said, blocking : BOOLEAN] :
               [p EXCEPT !.checks = c] \in Payload
         /\ \A m \in {"none", "production-required"} : [p EXCEPT !.mode = m] \in Payload
         /\ \A b \in BOOLEAN : [p EXCEPT !.enforced = b] \in Payload
         /\ \A b \in BOOLEAN : [p EXCEPT !.critical = b] \in Payload
         /\ \A c \in {"none", "success"} : [p EXCEPT !.checkpoint = c] \in Payload
         /\ \A b \in BOOLEAN : [p EXCEPT !.anchor = b] \in Payload
         /\ \A b \in BOOLEAN : [p EXCEPT !.immutable = b] \in Payload
         /\ \A c \in {"none", "real_scanner", "fixture"} : [p EXCEPT !.source = c] \in Payload
         /\ \A b \in BOOLEAN : [p EXCEPT !.license = b] \in Payload
         /\ \A h \in {"none", "github_hosted"} : [p EXCEPT !.host = h] \in Payload
         /\ \A b \in BOOLEAN : [p EXCEPT !.known = b] \in Payload
         /\ \A b \in 0..Commits : [p EXCEPT !.build = b] \in Payload
<1>1. \A s \in Said : [p EXCEPT !.status = s] \in Payload
  BY DEF Payload
<1>2. \A s \in Said : [p EXCEPT !.policy = s] \in Payload
  BY DEF Payload
<1>3. \A b \in BOOLEAN : [p EXCEPT !.blocking = b] \in Payload
  BY DEF Payload
<1>4. \A c \in SUBSET [id : CheckIds, status : Said, blocking : BOOLEAN] :
               [p EXCEPT !.checks = c] \in Payload
  BY DEF Payload
<1>5. \A m \in {"none", "production-required"} : [p EXCEPT !.mode = m] \in Payload
  BY DEF Payload
<1>6. \A b \in BOOLEAN : [p EXCEPT !.enforced = b] \in Payload
  BY DEF Payload
<1>7. \A b \in BOOLEAN : [p EXCEPT !.critical = b] \in Payload
  BY DEF Payload
<1>8. \A c \in {"none", "success"} : [p EXCEPT !.checkpoint = c] \in Payload
  BY DEF Payload
<1>9. \A b \in BOOLEAN : [p EXCEPT !.anchor = b] \in Payload
  BY DEF Payload
<1>10. \A b \in BOOLEAN : [p EXCEPT !.immutable = b] \in Payload
  BY DEF Payload
<1>11. \A c \in {"none", "real_scanner", "fixture"} : [p EXCEPT !.source = c] \in Payload
  BY DEF Payload
<1>12. \A b \in BOOLEAN : [p EXCEPT !.license = b] \in Payload
  BY DEF Payload
<1>13. \A b \in 0..Commits : [p EXCEPT !.build = b] \in Payload
  BY DEF Payload
<1>14. \A h \in {"none", "github_hosted"} : [p EXCEPT !.host = h] \in Payload
  BY DEF Payload
<1>15. \A b \in BOOLEAN : [p EXCEPT !.known = b] \in Payload
  BY DEF Payload
<1> QED BY <1>1, <1>2, <1>3, <1>4, <1>5, <1>6, <1>7, <1>8, <1>9, <1>10, <1>11, <1>12, <1>13, <1>14, <1>15

\* Every field but the flag and the commit is the same.
SameReport(p, q) ==
  /\ q.status = p.status /\ q.conclusion = p.conclusion /\ q.policy = p.policy
  /\ q.matrix = p.matrix /\ q.checks = p.checks /\ q.mode = p.mode /\ q.host = p.host
  /\ q.enforced = p.enforced /\ q.critical = p.critical /\ q.chain = p.chain
  /\ q.checkpoint = p.checkpoint /\ q.anchor = p.anchor /\ q.immutable = p.immutable
  /\ q.source = p.source /\ q.known = p.known /\ q.license = p.license

LEMMA JudgedIs ==
  ASSUME NEW p \in Payload
  PROVE  /\ Judged(p) \in Payload /\ SameReport(p, Judged(p)) /\ Judged(p).build = p.build
         /\ Judged(p).blocking <=> p.blocking \/ p.status # "pass"
  BY DEF Judged, Payload, SameReport

LEMMA DatedIs ==
  ASSUME NEW p \in Payload, NEW b \in 0..Commits
  PROVE  /\ [p EXCEPT !.build = b] \in Payload /\ SameReport(p, [p EXCEPT !.build = b])
         /\ [p EXCEPT !.build = b].build = b
         /\ [p EXCEPT !.build = b].blocking = p.blocking
  BY DEF Payload, SameReport

LEMMA DrillReportIs ==
  ASSUME NEW e
  PROVE  /\ DrillReport(e) \in Payload
         /\ DrillReport(e).status = (IF Broken(e) THEN "failed" ELSE "pass")
         /\ DrillReport(e).blocking <=> Broken(e)
<1> DEFINE s == IF Broken(e) THEN "failed" ELSE "pass"
           b == Broken(e)
<1>1. s \in Said /\ b \in BOOLEAN
  BY DEF Said, Broken
<1>2. DrillReport(e) = [Blank EXCEPT !.status = s, !.blocking = b]
  BY DEF DrillReport
<1> HIDE DEF s, b
<1>3. [Blank EXCEPT !.status = s, !.blocking = b] \in Payload
  BY <1>1, BlankType, SetField, Zenon
<1>4. DrillReport(e).status = s /\ DrillReport(e).blocking = b
  BY <1>2 DEF Blank
<1> QED BY <1>2, <1>3, <1>4 DEF s, b

LEMMA LocalReportIs ==
  ASSUME NEW e
  PROVE  LocalReport(e) \in Payload
<1> DEFINE s == IF Broken(e) THEN "fail" ELSE "pass"
           b == Broken(e)
<1>1. s \in Said /\ b \in BOOLEAN
  BY DEF Said, Broken
<1>2. LocalReport(e) = [Blank EXCEPT !.status = s, !.blocking = b]
  BY DEF LocalReport
<1> HIDE DEF s, b
<1>3. [Blank EXCEPT !.status = s, !.blocking = b] \in Payload
  BY <1>1, BlankType, SetField, Zenon
<1> QED BY <1>2, <1>3

LEMMA BwrapReportIs ==
  /\ BwrapReport \in Payload
  /\ BwrapReport.status = (IF Broken("bwrap") THEN "fail" ELSE "pass")
  /\ BwrapReport.blocking <=> Broken("bwrap")
  /\ BwrapReport.mode = "production-required" /\ BwrapReport.enforced
  /\ BwrapReport.host = (IF Broken("hosted") THEN "github_hosted" ELSE "none")
  /\ BwrapReport.critical <=> ~Broken("bwrap")
<1> DEFINE s == IF Broken("bwrap") THEN "fail" ELSE "pass"
           b == Broken("bwrap")
           c == ~Broken("bwrap")
           h == IF Broken("hosted") THEN "github_hosted" ELSE "none"
<1>1. /\ s \in Said /\ b \in BOOLEAN /\ c \in BOOLEAN /\ TRUE \in BOOLEAN
      /\ h \in {"none", "github_hosted"}
  BY DEF Said, Broken
<1>2. BwrapReport = [Blank EXCEPT !.status = s, !.blocking = b, !.mode = "production-required",
                                  !.host = h, !.enforced = TRUE, !.critical = c]
  BY DEF BwrapReport
<1> HIDE DEF s, b, c, h
<1>3. BwrapReport \in Payload
  <2>1. "production-required" \in {"none", "production-required"}
    OBVIOUS
  <2> QED BY <1>1, <1>2, <2>1, BlankType, SetField, Zenon
<1>4. /\ BwrapReport.status = s /\ BwrapReport.blocking = b /\ BwrapReport.critical = c
      /\ BwrapReport.mode = "production-required" /\ BwrapReport.host = h /\ BwrapReport.enforced = TRUE
  BY <1>2 DEF Blank
<1> QED BY <1>3, <1>4 DEF s, b, c, h

LEMMA BwrapSkippedIs ==
  /\ BwrapSkipped \in Payload /\ BwrapSkipped.status = "skipped" /\ BwrapSkipped.blocking = TRUE
  /\ BwrapSkipped.host = "none"
<1>1. "skipped" \in Said /\ TRUE \in BOOLEAN
  BY DEF Said
<1>2. BwrapSkipped \in Payload
  BY <1>1, BlankType, SetField, Zenon DEF BwrapSkipped
<1> QED BY <1>2 DEF BwrapSkipped, Blank

LEMMA AuditReportIs ==
  /\ AuditReport \in Payload
  /\ AuditReport.status = (IF Broken("audit") THEN "fail" ELSE "success")
  /\ AuditReport.chain = FALSE /\ AuditReport.anchor = FALSE
<1> DEFINE s == IF Broken("audit") THEN "fail" ELSE "success"
           c == IF Broken("audit") THEN "none" ELSE "success"
<1>1. s \in Said /\ c \in {"none", "success"}
  BY DEF Said, Broken
<1>2. AuditReport = [Blank EXCEPT !.status = s, !.checkpoint = c]
  BY DEF AuditReport
<1> HIDE DEF s, c
<1>3. AuditReport \in Payload
  BY <1>1, <1>2, BlankType, SetField, Zenon
<1>4. AuditReport.status = s /\ AuditReport.chain = FALSE /\ AuditReport.anchor = FALSE
  BY <1>2 DEF Blank
<1> QED BY <1>3, <1>4 DEF s

LEMMA DiedIs ==
  ASSUME build \in 1..Commits
  PROVE  /\ Died \in Payload /\ Died.status = "fail" /\ Died.blocking = TRUE /\ Died.build = build
         /\ Died.matrix = TRUE /\ Died.host = "none" /\ Died.chain = FALSE /\ Died.anchor = FALSE
         /\ Died.checks = {}
<1>1. "fail" \in Said /\ TRUE \in BOOLEAN /\ build \in 0..Commits
  BY EvidenceAssumption DEF Said
<1>2. Died \in Payload
  BY <1>1, BlankType, SetField, Zenon DEF Died
<1> QED BY <1>2 DEF Died, Blank

LEMMA AcceptanceReportIs == ASSUME NEW given PROVE AcceptanceReport(given) \in Payload
<1> DEFINE steps == {StepStatus(i \in given, TRUE) : i \in AcceptanceInputs}
                      \cup {StepStatus(TRUE, ~Broken("quality")), StepStatus(Linux, ~Broken("bwrap"))}
           s == IF steps = {"pass"} THEN "pass" ELSE "not_ready"
<1> HIDE DEF steps
<1>1. s \in Said
  BY DEF Said
<1>2. AcceptanceReport(given) = [Blank EXCEPT !.status = s]
  BY DEF AcceptanceReport, steps
<1> HIDE DEF s
<1> QED BY <1>1, <1>2, BlankType, SetField, Zenon

\* A broken hash chain is among Doctor's checks.
LEMMA DoctorReportIs ==
  ASSUME NEW vouched
  PROVE  /\ DoctorReport(vouched) \in Payload
         /\ Broken("doctor") => \E c \in DoctorReport(vouched).checks :
                                    c.id = "audit.hash_chain" /\ c.status = "fail"
<1> DEFINE checks == DoctorChecks(vouched)
           worst  == {c.status : c \in checks}
           s == IF "fail" \in worst THEN "fail" ELSE IF "warn" \in worst THEN "warn" ELSE "pass"
           b == \E c \in checks : c.blocking
<1>1. checks \in SUBSET [id : CheckIds, status : Said, blocking : BOOLEAN]
  <2> DEFINE S == [id : CheckIds, status : Said, blocking : BOOLEAN]
  <2> USE DEF Check, Finding, Said, CheckIds
  <2>1. Check("sandbox.bubblewrap", ~Linux, TRUE) \in S
    OBVIOUS
  <2>2. Check("sandbox.fail_closed", ~Linux, TRUE) \in S
    OBVIOUS
  <2>3. Check("audit.hash_chain", Broken("doctor"), TRUE) \in S
    OBVIOUS
  <2>4. Check("audit.external_anchor", "anchor" \notin vouched, FALSE) \in S
    OBVIOUS
  <2>5. Check("revocation.configured", Broken("governance"), FALSE) \in S
    OBVIOUS
  <2>6. Check("scanner.configured", "scanner" \notin vouched, TRUE) \in S
    OBVIOUS
  <2> HIDE DEF Check, S
  <2>7. checks \subseteq S
    BY <2>1, <2>2, <2>3, <2>4, <2>5, <2>6 DEF DoctorChecks
  <2> QED BY <2>7 DEF S
<1>2. Broken("doctor") => \E c \in checks : c.id = "audit.hash_chain" /\ c.status = "fail"
  <2>1. Check("audit.hash_chain", Broken("doctor"), TRUE) \in checks
    BY DEF DoctorChecks
  <2>2. /\ Check("audit.hash_chain", Broken("doctor"), TRUE).id = "audit.hash_chain"
        /\ Broken("doctor") => Check("audit.hash_chain", Broken("doctor"), TRUE).status = "fail"
    BY DEF Check, Finding
  <2> HIDE DEF checks
  <2> QED BY <2>1, <2>2
<1> HIDE DEF checks
<1>3. s \in Said /\ b \in BOOLEAN
  BY DEF Said
<1>4. DoctorReport(vouched) = [Blank EXCEPT !.checks = checks, !.blocking = b, !.status = s]
  BY DEF DoctorReport, checks
<1> HIDE DEF s, b, worst
<1>5. DoctorReport(vouched) \in Payload
  <2>1. [Blank EXCEPT !.checks = checks] \in Payload
    BY <1>1, BlankType, SetField
  <2>2. [Blank EXCEPT !.checks = checks, !.blocking = b, !.status = s] \in Payload
    BY <1>3, <2>1, SetField, Zenon
  <2> QED BY <1>4, <2>2
<1>6. DoctorReport(vouched).checks = checks
  BY <1>4 DEF Blank
<1> QED BY <1>2, <1>5, <1>6

LEMMA PipAuditReportIs ==
  ASSUME NEW severities
  PROVE  /\ PipAuditReport(severities) \in Payload
         /\ PipAuditReport(severities).status = PolicyDecision(severities)
         /\ PipAuditReport(severities).policy = PolicyDecision(severities)
         /\ PolicyDecision(severities) \in Said
         /\ PipAuditReport(severities).source = "real_scanner"
<1> DEFINE s == PolicyDecision(severities)
<1>1. s \in Said /\ "real_scanner" \in {"none", "real_scanner", "fixture"} /\ TRUE \in BOOLEAN
  BY DEF Said, PolicyDecision
<1>2. PipAuditReport(severities) = [Blank EXCEPT !.status = s, !.policy = s, !.source = "real_scanner", !.known = TRUE]
  BY DEF PipAuditReport
<1> HIDE DEF s
<1>3. [Blank EXCEPT !.status = s, !.policy = s, !.source = "real_scanner", !.known = TRUE] \in Payload
  BY <1>1, BlankType, SetField, Zenon
<1>4. /\ PipAuditReport(severities).status = s /\ PipAuditReport(severities).policy = s
      /\ PipAuditReport(severities).source = "real_scanner"
  BY <1>2 DEF Blank
<1> QED BY <1>1, <1>2, <1>3, <1>4 DEF s

\* A severe finding fails a real report, in both of its words.
LEMMA ScanReportIs ==
  ASSUME NEW kind \in {"none", "pip", "sca", "unknown", "fixture"}, NEW bad
  PROVE  /\ ScanReport(kind, bad) \in Payload
         /\ bad /\ ScanReport(kind, bad).source = "real_scanner"
              => ScanReport(kind, bad).status = "fail" /\ ScanReport(kind, bad).policy = "fail"
<1>0. PolicyDecision({"high"}) = "fail" /\ PolicyDecision({"critical"}) = "fail"
  BY DEF PolicyDecision
<1>1. CASE kind = "none"
  <2>1. ScanReport(kind, bad) = [Blank EXCEPT !.status = "missing", !.blocking = TRUE]
    BY <1>1 DEF ScanReport
  <2>2. "missing" \in Said /\ TRUE \in BOOLEAN
    BY DEF Said
  <2>3. [Blank EXCEPT !.status = "missing", !.blocking = TRUE] \in Payload
    BY <2>2, BlankType, SetField, Zenon
  <2>4. ScanReport(kind, bad).source = "none"
    BY <2>1 DEF Blank
  <2> QED BY <2>1, <2>3, <2>4
<1>2. CASE kind = "pip"
  <2>1. ScanReport(kind, bad) = PipAuditReport(IF bad THEN {"high"} ELSE {"low"})
    BY <1>2 DEF ScanReport
  <2>2. CASE bad
    <3>1. ScanReport(kind, bad) = PipAuditReport({"high"})
      BY <2>1, <2>2
    <3> QED BY <1>0, <3>1, PipAuditReportIs
  <2>3. CASE ~bad
    <3>1. ScanReport(kind, bad) = PipAuditReport({"low"})
      BY <2>1, <2>3
    <3> QED BY <2>3, <3>1, PipAuditReportIs
  <2> QED BY <2>2, <2>3
<1>3. CASE kind = "sca"
  <2> DEFINE found == IF bad THEN {"critical"} ELSE {}
  <2>1. ScanReport(kind, bad) = [PipAuditReport(found) EXCEPT !.license = TRUE]
    BY <1>3 DEF ScanReport
  <2>2. bad => PolicyDecision(found) = "fail"
    BY <1>0
  <2> HIDE DEF found
  <2>3. PipAuditReport(found) \in Payload /\ TRUE \in BOOLEAN
    BY PipAuditReportIs
  <2>4. ScanReport(kind, bad) \in Payload
    BY <2>1, <2>3, SetField
  <2>5. /\ ScanReport(kind, bad).status = PipAuditReport(found).status
        /\ ScanReport(kind, bad).policy = PipAuditReport(found).policy
    BY <2>1, <2>3 DEF Payload
  <2> QED BY <2>2, <2>4, <2>5, PipAuditReportIs
<1>4. CASE kind = "fixture"
  <2>1. ScanReport(kind, bad) = [Blank EXCEPT !.status = "pass", !.policy = "pass", !.source = "fixture"]
    BY <1>4 DEF ScanReport
  <2>2. "pass" \in Said /\ "fixture" \in {"none", "real_scanner", "fixture"}
    BY DEF Said
  <2>3. [Blank EXCEPT !.status = "pass", !.policy = "pass", !.source = "fixture"] \in Payload
    BY <2>2, BlankType, SetField, Zenon
  <2>4. ScanReport(kind, bad).source = "fixture"
    BY <2>1 DEF Blank
  <2> QED BY <2>1, <2>3, <2>4
<1>5. CASE kind = "unknown"
  <2> DEFINE found == IF bad THEN {"critical"} ELSE {}
             named == [PipAuditReport(found) EXCEPT !.known = FALSE]
  <2>1. ScanReport(kind, bad) = [PipAuditReport(found) EXCEPT !.known = FALSE, !.license = TRUE]
    BY <1>5 DEF ScanReport
  <2>2. bad => PolicyDecision(found) = "fail"
    BY <1>0
  <2> HIDE DEF found
  <2>3. PipAuditReport(found) \in Payload /\ TRUE \in BOOLEAN /\ FALSE \in BOOLEAN
    BY PipAuditReportIs
  <2>4. named \in Payload
    BY <2>3, SetField
  <2>5. ScanReport(kind, bad) = [named EXCEPT !.license = TRUE]
    BY <2>1, <2>3 DEF Payload
  <2>6. named.status = PipAuditReport(found).status /\ named.policy = PipAuditReport(found).policy
    BY <2>3 DEF Payload
  <2> HIDE DEF named
  <2>7. ScanReport(kind, bad) \in Payload
    BY <2>3, <2>4, <2>5, SetField
  <2>8. /\ ScanReport(kind, bad).status = named.status
        /\ ScanReport(kind, bad).policy = named.policy
    BY <2>4, <2>5 DEF Payload
  <2> QED BY <2>2, <2>6, <2>7, <2>8, PipAuditReportIs
<1> QED BY <1>1, <1>2, <1>3, <1>4, <1>5

LEMMA ScannedIs ==
  ASSUME NEW kind \in {"none", "pip", "sca", "unknown", "fixture"}, NEW bad
  PROVE  /\ Scanned(kind, bad) \in Payload
         /\ bad /\ Scanned(kind, bad).source = "real_scanner"
              => Scanned(kind, bad).status = "fail" /\ Scanned(kind, bad).policy = "fail"
<1> DEFINE p == ScanReport(kind, bad)
           b == p.status # "pass" /\ p.policy # "pass"
<1>1. Scanned(kind, bad) = [p EXCEPT !.blocking = b]
  BY DEF Scanned
<1>2. p \in Payload /\ b \in BOOLEAN
  BY ScanReportIs
<1>3. bad /\ p.source = "real_scanner" => p.status = "fail" /\ p.policy = "fail"
  BY ScanReportIs
<1> HIDE DEF p, b
<1>4. [p EXCEPT !.blocking = b] \in Payload
  BY <1>2, SetField
<1>5. /\ Scanned(kind, bad).status = p.status /\ Scanned(kind, bad).policy = p.policy
      /\ Scanned(kind, bad).source = p.source
  BY <1>1, <1>2 DEF Payload
<1> QED BY <1>1, <1>3, <1>4, <1>5

-----------------------------------------------------------------------------
(* What a collection writes keeps the promise. *)

\* A report is a promise whatever its flag, if it promises about its commit.
LEMMA PrintedReports ==
  ASSUME build \in 1..Commits, NEW e \in Ids
  PROVE  LET p == [Printed(e) EXCEPT !.build = build]
         IN e \notin {"scan", "ci", "gate"} => /\ p \in Payload /\ Report(e, p) /\ p.build = build
                                               /\ e = "audit" => ~p.anchor
<1> SUFFICES ASSUME e \notin {"scan", "ci", "gate"}
             PROVE  LET p == [Printed(e) EXCEPT !.build = build]
                    IN /\ p \in Payload /\ Report(e, p) /\ p.build = build
                       /\ e = "audit" => ~p.anchor
  OBVIOUS
<1> DEFINE q == Printed(e)
           p == [q EXCEPT !.build = build]
<1>0. build \in 0..Commits
  BY EvidenceAssumption
<1>1. q \in Payload => /\ p \in Payload /\ SameReport(q, p) /\ p.build = build
                       /\ p.blocking = q.blocking
  BY <1>0, DatedIs
<1>2. CASE e \in Drills
  <2> DEFINE d == DrillReport(e)
  <2>1. q = Judged(d)
    BY <1>2 DEF Printed
  <2>2. /\ d \in Payload /\ d.status = (IF Broken(e) THEN "failed" ELSE "pass")
        /\ d.blocking <=> Broken(e)
    BY DrillReportIs
  <2> HIDE DEF d
  <2>3. /\ q \in Payload /\ SameReport(d, q)
        /\ q.blocking <=> d.blocking \/ d.status # "pass"
    BY <2>1, <2>2, JudgedIs
  <2> HIDE DEF q
  <2>4. /\ p \in Payload /\ p.build = build /\ p.status = d.status
        /\ p.blocking <=> d.status # "pass"
    BY <1>1, <2>2, <2>3 DEF SameReport
  <2> HIDE DEF p
  <2> QED BY <1>2, <2>2, <2>4 DEF Report, Broken, Drills, p, q
<1>3. CASE e = "bwrap" /\ Linux
  <2> DEFINE d == BwrapReport
  <2>1. q = Judged(d)
    BY <1>3 DEF Printed, Drills
  <2>2. /\ d \in Payload /\ d.status = (IF Broken("bwrap") THEN "fail" ELSE "pass")
        /\ d.blocking <=> Broken("bwrap")
        /\ d.mode = "production-required" /\ d.enforced
        /\ d.host = (IF Broken("hosted") THEN "github_hosted" ELSE "none")
        /\ d.critical <=> ~Broken("bwrap")
    BY BwrapReportIs
  <2> HIDE DEF d
  <2>3. /\ q \in Payload /\ SameReport(d, q)
        /\ q.blocking <=> d.blocking \/ d.status # "pass"
    BY <2>1, <2>2, JudgedIs
  <2> HIDE DEF q
  <2>4. /\ p \in Payload /\ p.build = build /\ p.status = d.status
        /\ p.blocking <=> d.status # "pass"
        /\ p.mode = d.mode /\ p.host = d.host
        /\ p.enforced = d.enforced /\ p.critical = d.critical
    BY <1>1, <2>2, <2>3 DEF SameReport
  <2> HIDE DEF p
  <2>5. Report(e, p)
    BY <1>3, <2>2, <2>4 DEF Report, Broken, Drills, Linux
  <2> QED BY <1>3, <2>4, <2>5 DEF p, q
<1>4. CASE e = "bwrap" /\ ~Linux
  <2>1. q = BwrapSkipped
    BY <1>4 DEF Printed, Drills
  <2>2. q \in Payload /\ q.status = "skipped" /\ q.blocking = TRUE /\ q.host = "none"
    BY <2>1, BwrapSkippedIs
  <2> HIDE DEF q
  <2>3. /\ p \in Payload /\ p.build = build /\ p.status = "skipped" /\ p.blocking = TRUE
        /\ p.host = "none"
    BY <1>1, <2>2 DEF SameReport
  <2> HIDE DEF p
  <2>4. Report(e, p)
    BY <1>4, <2>3 DEF Report, Drills
  <2> QED BY <1>4, <2>3, <2>4 DEF p, q
<1>5. CASE e = "doctor"
  <2> DEFINE d == DoctorReport({})
  <2>1. q = Judged(d)
    BY <1>5 DEF Printed, Drills
  <2>2. /\ d \in Payload
        /\ Broken("doctor") => \E c \in d.checks : c.id = "audit.hash_chain" /\ c.status = "fail"
    BY DoctorReportIs
  <2> HIDE DEF d
  <2>3. q \in Payload /\ SameReport(d, q)
    BY <2>1, <2>2, JudgedIs
  <2> HIDE DEF q
  <2>4. p \in Payload /\ p.build = build /\ p.checks = d.checks
    BY <1>1, <2>2, <2>3 DEF SameReport
  <2> HIDE DEF p
  <2>5. Report(e, p)
    BY <1>5, <2>2, <2>4 DEF Report, Broken, Drills
  <2> QED BY <1>5, <2>4, <2>5 DEF p, q
<1>6. CASE e = "audit"
  <2> DEFINE d == AuditReport
  <2>1. q = Judged(d)
    BY <1>6 DEF Printed, Drills
  <2>2. /\ d \in Payload /\ d.status = (IF Broken("audit") THEN "fail" ELSE "success")
        /\ d.chain = FALSE /\ d.anchor = FALSE
    BY AuditReportIs
  <2> HIDE DEF d
  <2>3. q \in Payload /\ SameReport(d, q)
    BY <2>1, <2>2, JudgedIs
  <2> HIDE DEF q
  <2>4. /\ p \in Payload /\ p.build = build /\ p.status = d.status
        /\ p.chain = FALSE /\ p.anchor = FALSE
    BY <1>1, <2>2, <2>3 DEF SameReport
  <2> HIDE DEF p
  <2>5. Report(e, p)
    BY <1>6, <2>2, <2>4 DEF Report, Broken, Drills
  <2> QED BY <1>6, <2>4, <2>5 DEF p, q
<1>7. CASE e \notin Drills \cup {"bwrap", "doctor", "audit"}
  <2>1. q \in Payload
    BY <1>7, AcceptanceReportIs, LocalReportIs, JudgedIs DEF Printed
  <2> HIDE DEF q
  <2>2. p \in Payload /\ p.build = build
    BY <1>1, <2>1
  <2> HIDE DEF p
  <2>3. Report(e, p)
    BY <1>7 DEF Report
  <2> QED BY <1>7, <2>2, <2>3 DEF p, q
<1> QED BY <1>2, <1>3, <1>4, <1>5, <1>6, <1>7

\* A command that dies leaves a failure, or an earlier file that is judged again.
LEMMA DeathReports ==
  ASSUME TypeOK, Reports, NEW e \in Ids, e \notin {"scan", "ci", "gate"}
  PROVE  /\ OnDeath(e) \in Payload /\ Report(e, OnDeath(e)) /\ OnDeath(e).build \in 1..build
         /\ e = "audit" => ~OnDeath(e).anchor
<1>0. build \in 1..Commits
  BY DEF TypeOK
<1>1. CASE e \in Tolerant /\ out[e] # Missing
  <2> DEFINE d == out[e]
  <2>1. d \in Payload /\ Report(e, d) /\ d.build \in 1..build
    BY <1>1 DEF TypeOK, Reports
  <2>2. OnDeath(e) = Judged(d)
    BY <1>1 DEF OnDeath
  <2> HIDE DEF d
  <2> DEFINE p == OnDeath(e)
  <2>3. /\ p \in Payload /\ SameReport(d, p) /\ p.build = d.build
        /\ p.blocking <=> d.blocking \/ d.status # "pass"
    BY <2>1, <2>2, JudgedIs
  <2> HIDE DEF p
  <2>4. CASE e \in Drills
    BY <2>1, <2>3, <2>4 DEF Report, SameReport, Drills, p
  <2>5. CASE e = "bwrap"
    BY <2>1, <2>3, <2>5 DEF Report, SameReport, Drills, p
  <2>6. CASE e = "acceptance"
    BY <2>1, <2>3, <2>6 DEF Report, Drills, p
  <2> QED BY <1>1, <2>4, <2>5, <2>6 DEF Tolerant
<1>2. CASE ~(e \in Tolerant /\ out[e] # Missing)
  <2> DEFINE p == Died
  <2>1. OnDeath(e) = p
    BY <1>2 DEF OnDeath
  <2>2. /\ p \in Payload /\ p.status = "fail" /\ p.blocking = TRUE /\ p.build = build
        /\ p.matrix = TRUE /\ p.host = "none" /\ p.chain = FALSE /\ p.anchor = FALSE
        /\ p.checks = {}
    BY <1>0, DiedIs
  <2> HIDE DEF p
  <2>3. Report(e, p)
    BY <2>2 DEF Report
  <2>4. p.build \in 1..build
    BY <1>0, <2>2, EvidenceAssumption
  <2> QED BY <2>1, <2>2, <2>3, <2>4
<1> QED BY <1>1, <1>2

LEMMA ScanReports ==
  ASSUME TypeOK, NEW kind \in Scans, NEW b \in 1..build
  PROVE  LET p == [Scanned(kind, "scan" \in broken[b]) EXCEPT !.build = b]
         IN p \in Payload /\ Report("scan", p) /\ p.build = b
<1> DEFINE d == Scanned(kind, "scan" \in broken[b])
           p == [d EXCEPT !.build = b]
<1>0. kind \in {"none", "pip", "sca", "unknown", "fixture"}
  BY EvidenceAssumption
<1>1. /\ d \in Payload
      /\ "scan" \in broken[b] /\ d.source = "real_scanner" => d.status = "fail" /\ d.policy = "fail"
  BY <1>0, ScannedIs
<1>2. b \in 0..Commits
  BY EvidenceAssumption DEF TypeOK
<1> HIDE DEF d
<1>3. p \in Payload /\ SameReport(d, p) /\ p.build = b
  BY <1>1, <1>2, DatedIs
<1> HIDE DEF p
<1>4. Report("scan", p)
  BY <1>1, <1>3 DEF Report, SameReport, Drills, RealScanner
<1> QED BY <1>3, <1>4 DEF p, d

LEMMA CiReports ==
  ASSUME TypeOK, NEW b \in 1..build
  PROVE  LET p == [Blank EXCEPT !.status = IF "ci" \in broken[b] THEN "fail" ELSE "pass",
                                !.blocking = "ci" \in broken[b], !.build = b]
         IN p \in Payload /\ Report("ci", p) /\ p.build = b
<1> DEFINE s == IF "ci" \in broken[b] THEN "fail" ELSE "pass"
           x == "ci" \in broken[b]
           p == [Blank EXCEPT !.status = s, !.blocking = x, !.build = b]
<1>1. s \in Said /\ x \in BOOLEAN /\ b \in 0..Commits
  BY EvidenceAssumption DEF Said, TypeOK
<1>2. s = (IF x THEN "fail" ELSE "pass") /\ (x <=> "ci" \in broken[b])
  OBVIOUS
<1> HIDE DEF s, x
<1>3. p \in Payload
  BY <1>1, BlankType, SetField, Zenon
<1>4. p.status = s /\ p.blocking = x /\ p.build = b /\ p.matrix = TRUE
  BY DEF Blank
<1> HIDE DEF p
<1>5. Report("ci", p)
  BY <1>2, <1>4 DEF Report, Drills
<1> QED BY <1>3, <1>4, <1>5 DEF p, s, x

-----------------------------------------------------------------------------
(* What the gate makes of evidence that keeps its promise. *)

LEMMA WordsAre ==
  /\ Word("pass") = "pass" /\ Word("success") = "pass" /\ Word("fail") = "fail" /\ Word("failed") = "fail"
  /\ Word("skipped") = "skipped"
  /\ \A p : p.status # "none" => Normalized(p) = Word(p.status)
  BY DEF Word, PassWords, Normalized

LEMMA DecisionIs ==
  ASSUME NEW in, NEW risk
  PROVE  /\ Decision(in, risk) \in {"NO_GO", "CONTROLLED_GO", "GO"}
         /\ Decision(in, risk) # "NO_GO" =>
              \A f \in Findings(in, risk) : ~f.blocking /\ f.status # "fail"
         /\ Decision(in, risk) = "GO" => \A f \in Findings(in, risk) : f.status # "warn"
  BY DEF Decision

\* The drills: a drill that failed, or did not run, blocks.
LEMMA DrillSound ==
  ASSUME NEW in, NEW risk, NEW d \in Drills, Report(d, in[d]), Decision(in, risk) # "NO_GO"
  PROVE  d \notin broken[in[d].build]
<1>1. DrillFinding(d, in[d]) \in Findings(in, risk)
  BY DEF Findings
<1>2. ~DrillFinding(d, in[d]).blocking
  BY <1>1, DecisionIs
<1>3. in[d] # Missing /\ Normalized(in[d]) = "pass"
  BY <1>2 DEF DrillFinding, Blocked, Verdict, Finding
<1>4. in[d].status = "pass"
  BY <1>3, WordsAre DEF Report
<1> QED BY <1>3, <1>4 DEF Report

LEMMA CiSound ==
  ASSUME NEW in, NEW risk, Report("ci", in["ci"]), in["ci"] # Missing, Decision(in, risk) # "NO_GO"
  PROVE  "ci" \notin broken[in["ci"].build]
<1> DEFINE p == in["ci"]
<1>1. CiFinding(p, risk) \in Findings(in, risk)
  BY DEF Findings
<1>2. ~CiFinding(p, risk).blocking
  BY <1>1, DecisionIs
<1>3. p.status \in {"pass", "fail"} /\ (p.status = "pass" => "ci" \notin broken[p.build])
  BY DEF Report
<1>4. Normalized(p) = "pass"
  BY <1>2, <1>3 DEF CiFinding, Verdict, Finding
<1> QED BY <1>3, <1>4, WordsAre

LEMMA BwrapSound ==
  ASSUME NEW in, NEW risk, Report("bwrap", in["bwrap"]), Decision(in, risk) # "NO_GO"
  PROVE  {"bwrap", "host", "hosted"} \cap broken[in["bwrap"].build] = {}
<1> DEFINE p == in["bwrap"]
<1>1. BwrapFinding(p) \in Findings(in, risk)
  BY DEF Findings
<1>2. ~BwrapFinding(p).blocking
  BY <1>1, DecisionIs
<1>3. p # Missing /\ p.host # "github_hosted" /\ Normalized(p) = "pass"
  BY <1>2 DEF BwrapFinding, Blocked, Verdict, Finding
<1>4. p.status = "pass"
  BY <1>3, WordsAre DEF Report
<1> QED BY <1>3, <1>4 DEF Report

LEMMA AuditSound ==
  ASSUME NEW in, NEW risk, Report("audit", in["audit"]), Decision(in, risk) # "NO_GO"
  PROVE  "audit" \notin broken[in["audit"].build]
<1> DEFINE p == in["audit"]
<1>1. AuditFindings(p, risk) \subseteq Findings(in, risk)
  BY DEF Findings
<1>2. p # Missing /\ AuditVerified(p)
  <2>1. \A f \in AuditFindings(p, risk) : ~f.blocking
    BY <1>1, DecisionIs
  <2>2. Blocked("audit.verify").blocking
    BY DEF Blocked, Finding
  <2> QED BY <2>1, <2>2 DEF AuditFindings
<1>3. p.status \in {"success", "fail"} /\ ~p.chain /\ (p.status = "success" => "audit" \notin broken[p.build])
  BY DEF Report
<1>4. Normalized(p) = "pass"
  BY <1>2, <1>3 DEF AuditVerified
<1> QED BY <1>3, <1>4, WordsAre

\* Without a vouched anchor or an accepted risk the audit evidence refuses;
\* without an anchor it never passes.
LEMMA AuditNeedsAnchor ==
  ASSUME NEW in, NEW risk \in BOOLEAN, in["audit"] # Missing => ~in["audit"].anchor
  PROVE  /\ ~risk => Decision(in, risk) = "NO_GO"
         /\ Decision(in, risk) # "GO"
<1> DEFINE p == in["audit"]
           f == Acceptable("audit.external_anchor_missing", risk)
<1>1. AuditFindings(p, risk) \subseteq Findings(in, risk)
  BY DEF Findings
<1>2. Blocked("audit.verify") \in AuditFindings(p, risk) \/ f \in AuditFindings(p, risk)
  BY DEF AuditFindings
<1>3. Blocked("audit.verify").blocking /\ (~risk => f.blocking) /\ (risk => f.status = "warn")
  BY DEF Blocked, Acceptable, Finding
<1> HIDE DEF f
<1>4. \E g \in Findings(in, risk) : g.blocking \/ (risk /\ g.status = "warn")
  BY <1>1, <1>2, <1>3
<1> QED BY <1>4, DecisionIs

\* Doctor's failed checks are taken over, but for those another finding
\* represents; the hash chain is none of them.
LEMMA DoctorSound ==
  ASSUME NEW in, NEW risk, Report("doctor", in["doctor"]), Decision(in, risk) # "NO_GO"
  PROVE  "doctor" \notin broken[in["doctor"].build]
<1> SUFFICES ASSUME "doctor" \in broken[in["doctor"].build] PROVE FALSE
  OBVIOUS
<1> DEFINE p == in["doctor"]
           hidden == Suppressed(AuditFindings(in["audit"], risk))
<1>1. DoctorFindings(p, hidden) \subseteq Findings(in, risk)
  BY DEF Findings
<1>2. \A f \in DoctorFindings(p, hidden) : ~f.blocking /\ f.status # "fail"
  BY <1>1, DecisionIs
<1>3. "audit.hash_chain" \notin hidden
  BY DEF Suppressed
<1>4. \/ \E c \in p.checks : c.id = "audit.hash_chain" /\ c.status = "fail"
      \/ p.checks = {} /\ p.status = "fail"
  BY DEF Report
<1>5. p # Missing
  <2>1. Blocked("doctor.production").blocking
    BY DEF Blocked, Finding
  <2> QED BY <1>2, <2>1 DEF DoctorFindings
<1> HIDE DEF hidden
<1>6. CASE \E c \in p.checks : c.id = "audit.hash_chain" /\ c.status = "fail"
  <2>1. PICK c \in p.checks : c.id = "audit.hash_chain" /\ c.status = "fail"
    BY <1>6
  <2>2. c \in DoctorFindings(p, hidden)
    BY <1>3, <1>5, <2>1 DEF DoctorFindings
  <2> QED BY <1>2, <2>1, <2>2
<1>7. CASE p.checks = {} /\ p.status = "fail"
  <2>1. Finding("doctor.production", Normalized(p), FALSE) \in DoctorFindings(p, hidden)
    BY <1>5, <1>7 DEF DoctorFindings
  <2>2. Finding("doctor.production", Normalized(p), FALSE).status = "fail"
    BY <1>7, WordsAre DEF Finding
  <2> QED BY <1>2, <2>1, <2>2
<1> QED BY <1>4, <1>6, <1>7

\* A real report of a severe finding blocks; what is no real report needs an
\* accepted risk, and never passes.
LEMMA ScanSound ==
  ASSUME NEW in, NEW risk \in BOOLEAN, Report("scan", in["scan"]), Decision(in, risk) # "NO_GO"
  PROVE  /\ "scan" \in broken[in["scan"].build] => risk /\ ~RealScanner(in["scan"])
         /\ ~risk \/ Decision(in, risk) = "GO" => RealScanner(in["scan"]) /\ in["scan"].license
<1> DEFINE p == in["scan"]
           real == RealScanner(p)
<1>1. ScanFindings(p, risk) \subseteq Findings(in, risk)
  BY DEF Findings
<1>2. \A f \in ScanFindings(p, risk) :
         ~f.blocking /\ f.status # "fail" /\ (Decision(in, risk) = "GO" => f.status # "warn")
  BY <1>1, DecisionIs
<1>3. real => Normalized(p) = "pass" \/ p.policy = "pass"
  <2> SUFFICES ASSUME real PROVE Normalized(p) = "pass" \/ p.policy = "pass"
    OBVIOUS
  <2>1. Verdict("scanner.policy", Normalized(p) = "pass" \/ p.policy = "pass") \in ScanFindings(p, risk)
    BY DEF ScanFindings
  <2>2. Verdict("scanner.policy", Normalized(p) = "pass" \/ p.policy = "pass").blocking
          <=> ~(Normalized(p) = "pass" \/ p.policy = "pass")
    BY DEF Verdict, Finding
  <2> QED BY <1>2, <2>1, <2>2
<1>4. ~real => risk /\ Decision(in, risk) # "GO"
  <2> SUFFICES ASSUME ~real PROVE risk /\ Decision(in, risk) # "GO"
    OBVIOUS
  <2>1. Acceptable("scanner.configured", risk) \in ScanFindings(p, risk)
    BY DEF ScanFindings
  <2>2. /\ ~risk => Acceptable("scanner.configured", risk).blocking
        /\ risk => Acceptable("scanner.configured", risk).status = "warn"
    BY DEF Acceptable, Finding
  <2> QED BY <1>2, <2>1, <2>2
<1>5. ~p.license => risk /\ Decision(in, risk) # "GO"
  <2> SUFFICES ASSUME ~p.license PROVE risk /\ Decision(in, risk) # "GO"
    OBVIOUS
  <2>1. Acceptable("scanner.license", risk) \in ScanFindings(p, risk)
    BY DEF ScanFindings
  <2>2. /\ ~risk => Acceptable("scanner.license", risk).blocking
        /\ risk => Acceptable("scanner.license", risk).status = "warn"
    BY DEF Acceptable, Finding
  <2> QED BY <1>2, <2>1, <2>2
<1>6. "scan" \in broken[p.build] => ~real
  <2> SUFFICES ASSUME "scan" \in broken[p.build], real PROVE FALSE
    OBVIOUS
  <2>1. p.status = "fail" /\ p.policy = "fail"
    BY DEF Report
  <2> QED BY <1>3, <2>1, WordsAre
<1> QED BY <1>4, <1>5, <1>6

-----------------------------------------------------------------------------
(* Steps. *)

LEMMA StepsAre ==
  /\ Len(Steps) = 13 /\ DOMAIN Steps = 1..13 /\ Steps \in Seq(Ids)
  /\ \A i, j \in 1..13 : Steps[i] = Steps[j] => i = j
  /\ \A e \in Ids : \E i \in 1..13 : e = Steps[i]
  /\ \A i \in 1..13 : Steps[i] \in Ids
  /\ Steps[13] = "gate"
  /\ Drills \cup Evidence \cup {"gate", "environment", "acceptance", "quality"} \subseteq Ids
<1>1. /\ Len(Steps) = 13 /\ DOMAIN Steps = 1..13 /\ Steps[13] = "gate"
  BY DEF Steps
<1>2. \A i, j \in 1..13 : Steps[i] = Steps[j] => i = j
  BY DEF Steps
<1>3. /\ \A e \in Ids : \E i \in 1..13 : e = Steps[i]
      /\ \A i \in 1..13 : Steps[i] \in Ids
  BY <1>1 DEF Ids
<1>4. Steps \in Seq(Ids)
  <2>1. /\ "environment" \in Ids /\ "quality" \in Ids /\ "ci" \in Ids /\ "bwrap" \in Ids /\ "scan" \in Ids
        /\ "doctor" \in Ids /\ "acceptance" \in Ids /\ "audit" \in Ids /\ "registry" \in Ids
        /\ "revocation" \in Ids /\ "quarantine" \in Ids /\ "rollback" \in Ids /\ "gate" \in Ids
    BY <1>3 DEF Steps
  <2> HIDE DEF Ids
  <2> QED BY <2>1 DEF Steps
<1>5. Drills \cup Evidence \cup {"gate", "environment", "acceptance", "quality"} \subseteq Ids
  <2>1. Ids = {"environment", "quality", "ci", "bwrap", "scan", "doctor", "acceptance",
               "audit", "registry", "revocation", "quarantine", "rollback", "gate"}
    BY DEF Ids, Steps
  <2> QED BY <2>1 DEF Drills, Evidence
<1> QED BY <1>1, <1>2, <1>3, <1>4, <1>5

\* The list that is left, and its next entry.
LEMMA ListLeft ==
  /\ SubSeq(Steps, 1, 13) = Steps
  /\ \A k \in 0..13 : LET left == SubSeq(Steps, k + 1, 13)
                      IN left # <<>> => /\ k < 13 /\ Head(left) = Steps[k + 1]
                                        /\ Tail(left) = SubSeq(Steps, k + 2, 13)
<1>1. SubSeq(Steps, 1, 13) = Steps
  BY StepsAre, SubSeqFull
<1>2. ASSUME NEW k \in 0..13, SubSeq(Steps, k + 1, 13) # <<>>
      PROVE  /\ k < 13 /\ Head(SubSeq(Steps, k + 1, 13)) = Steps[k + 1]
             /\ Tail(SubSeq(Steps, k + 1, 13)) = SubSeq(Steps, k + 2, 13)
  <2>1. k < 13
    <3> SUFFICES ASSUME k = 13 PROVE FALSE
      OBVIOUS
    <3>1. SubSeq(Steps, 14, 13) = <<>>
      BY StepsAre, SubSeqEmpty
    <3> QED BY <1>2, <3>1
  <2>2. k + 1 \in 1..Len(Steps) /\ 13 \in (k + 1)..Len(Steps) /\ (k + 1) + 1 = k + 2
    BY <2>1, StepsAre
  <2>3. /\ Head(SubSeq(Steps, k + 1, 13)) = Steps[k + 1]
        /\ Tail(SubSeq(Steps, k + 1, 13)) = SubSeq(Steps, (k + 1) + 1, 13)
    BY <2>2, StepsAre, HeadTailOfSubSeq
  <2> QED BY <2>1, <2>2, <2>3
<1> QED BY <1>1, <1>2

LEMMA InitInv == Init => Inv
<1> SUFFICES ASSUME Init PROVE Inv
  OBVIOUS
<1>1. broken \in [1..Commits -> SUBSET Faults]
  BY DEF Init
<1>2. /\ build \in 1..Commits /\ crashes \in 0..Crashes
      /\ out \in [Ids -> {Missing} \cup Payload] /\ items \in [Ids -> {Missing} \cup Item]
      /\ \A e \in Ids : out[e] = Missing /\ items[e] = Missing
  BY EvidenceAssumption DEF Init
<1>3. \E i \in 0..Len(Steps) : todo = SubSeq(Steps, Len(Steps) + 1 - i, Len(Steps))
  <2>1. SubSeq(Steps, 14, 13) = <<>>
    BY StepsAre, SubSeqEmpty
  <2>2. Len(Steps) + 1 - 0 = 14 /\ 0 \in 0..Len(Steps)
    BY StepsAre
  <2> QED BY <2>1, <2>2, StepsAre DEF Init
<1>4. approval.decision = "none" /\ todo = <<>>
  BY DEF Init, NoApproval
<1>5. TypeOK
  BY <1>1, <1>2, <1>3, <1>4 DEF TypeOK
<1> QED BY <1>2, <1>4, <1>5, StepsAre
        DEF Inv, Reports, Progress, GateRefuses, ApprovalIsSound, FullGoNeedsEvidence, Evidence

\* A file that keeps its promise is written and enters the index.
LEMMA WriteKeeps ==
  ASSUME Inv, NEW e \in Ids, NEW p \in Payload, Write(e, p), crashes' \in 0..Crashes,
         Report(e, p), p.build \in 1..build,
         e = "audit" => ~p.anchor, e = "gate" => p.status = "fail"
  PROVE  Inv'
<1>1. PICK k \in 0..13 : Collected(k)
  BY DEF Inv, Progress, Write
<1>2. k < 13 /\ e = Steps[k + 1] /\ todo' = SubSeq(Steps, k + 2, 13)
  BY <1>1, ListLeft DEF Write, Collected
<1>3. /\ out \in [Ids -> {Missing} \cup Payload] /\ items \in [Ids -> {Missing} \cup Item]
      /\ out' = [out EXCEPT ![e] = p] /\ items' = [items EXCEPT ![e] = ItemOf(p)]
      /\ UNCHANGED <<build, broken, approval>>
  BY DEF Inv, TypeOK, Write
<1>4. ItemOf(p) \in Item /\ (p.status = "fail" => ItemOf(p).status = "fail" /\ ItemOf(p).blocking)
  BY DEF ItemOf, Item, Payload
<1>5. /\ out'[e] = p /\ items'[e] = ItemOf(p)
      /\ \A x \in Ids : x # e => out'[x] = out[x] /\ items'[x] = items[x]
  BY <1>3
<1>6. p # Missing
  BY EvidenceAssumption
<1>7. TypeOK'
  <2>1. out' \in [Ids -> {Missing} \cup Payload] /\ items' \in [Ids -> {Missing} \cup Item]
    BY <1>3, <1>4
  <2>2. \A x \in Ids : out'[x] # Missing => out'[x].build \in 1..build
    BY <1>5 DEF Inv, TypeOK
  <2>3. \E i \in 0..Len(Steps) : todo' = SubSeq(Steps, Len(Steps) + 1 - i, Len(Steps))
    <3>1. 12 - k \in 0..Len(Steps) /\ Len(Steps) + 1 - (12 - k) = k + 2
      BY <1>2, StepsAre
    <3> QED BY <1>2, <3>1, StepsAre
  <2> QED BY <1>3, <2>1, <2>2, <2>3 DEF Inv, TypeOK
<1>8. Reports'
  <2>1. \A x \in Ids : out'[x] # Missing => Report(x, out'[x])
    BY <1>5 DEF Inv, Reports
  <2>2. \A x \in Ids : Report(x, out'[x]) <=> Report(x, out[x])'
    BY <1>3 DEF Report, RealScanner
  <2>3. out'["audit"] # Missing => ~out'["audit"].anchor
    BY <1>5, StepsAre DEF Inv, Reports, Evidence
  <2> QED BY <2>1, <2>2, <2>3 DEF Reports
<1>9. Collected(k + 1)'
  <2>1. (k + 1) + 1 = k + 2
    OBVIOUS
  <2>2. ASSUME NEW i \in 1..13
        PROVE  IF i <= k + 1 THEN out'[Steps[i]] # Missing /\ items'[Steps[i]] = ItemOf(out'[Steps[i]])
               ELSE items'[Steps[i]] = Missing
    <3>1. CASE i = k + 1
      BY <1>2, <1>5, <1>6, <3>1
    <3>2. CASE i # k + 1
      <4>1. Steps[i] # e /\ Steps[i] \in Ids
        <5>1. k + 1 \in 1..13
          BY <1>2
        <5> QED BY <1>2, <3>2, <5>1, StepsAre
      <4>2. out'[Steps[i]] = out[Steps[i]] /\ items'[Steps[i]] = items[Steps[i]]
        BY <1>5, <4>1
      <4>3. i <= k + 1 <=> i <= k
        BY <3>2
      <4> QED BY <1>1, <4>2, <4>3 DEF Collected
    <3> QED BY <3>1, <3>2
  <2> QED BY <1>2, <2>1, <2>2 DEF Collected
<1>10. Progress'
  <2>1. k + 1 \in 0..13
    BY <1>2
  <2> QED BY <1>9, <2>1 DEF Progress
<1>11. GateRefuses'
  <2>1. "gate" \in Ids
    BY StepsAre
  <2> QED BY <1>4, <1>5, <2>1 DEF Inv, GateRefuses
<1>12. ApprovalIsSound' /\ FullGoNeedsEvidence'
  BY <1>3 DEF Inv, ApprovalIsSound, FullGoNeedsEvidence, RealScanner
<1> QED BY <1>7, <1>8, <1>10, <1>11, <1>12 DEF Inv

\* The collector's own gate refuses: the audit evidence vouches for no anchor.
LEMMA GateReports ==
  ASSUME Inv
  PROVE  LET p == Judged([Blank EXCEPT !.policy = CollectorDecision,
                                       !.status = IF CollectorDecision = "NO_GO" THEN "fail" ELSE "pass",
                                       !.build = build])
         IN p \in Payload /\ Report("gate", p) /\ p.build = build /\ p.status = "fail"
<1> DEFINE in == [x \in Evidence |-> out[x]]
           d == CollectorDecision
           s == IF d = "NO_GO" THEN "fail" ELSE "pass"
           q == [Blank EXCEPT !.policy = d, !.status = s, !.build = build]
           p == Judged(q)
<1>1. d = "NO_GO" /\ s = "fail"
  <2>1. in["audit"] = out["audit"]
    BY DEF Evidence
  <2>2. in["audit"] # Missing => ~in["audit"].anchor
    BY <2>1 DEF Inv, Reports
  <2> HIDE DEF in
  <2>3. Decision(in, FALSE) = "NO_GO"
    BY <2>2, AuditNeedsAnchor
  <2> QED BY <2>3 DEF CollectorDecision, in
<1>2. build \in 0..Commits /\ d \in Said /\ s \in Said
  BY <1>1 DEF Inv, TypeOK, Said
<1> HIDE DEF d, s
<1>3. q \in Payload
  BY <1>2, BlankType, SetField, Zenon
<1>4. q.status = s /\ q.build = build
  BY DEF Blank
<1> HIDE DEF q
<1>5. p \in Payload /\ p.status = "fail" /\ p.build = build
  BY <1>1, <1>3, <1>4, JudgedIs DEF SameReport
<1> HIDE DEF p
<1>6. Report("gate", p)
  BY DEF Report, Drills
<1> QED BY <1>5, <1>6 DEF p, q, s, d

LEMMA CollectStep == Inv /\ Collect => Inv'
<1> SUFFICES ASSUME Inv, Collect PROVE Inv'
  OBVIOUS
<1>0. build \in 1..Commits /\ TypeOK /\ Reports /\ crashes \in 0..Crashes /\ build \in 1..build
  BY EvidenceAssumption DEF Inv, TypeOK
<1>1. ASSUME NEW e \in Ids, Run(e) PROVE Inv'
  <2> DEFINE p == [Printed(e) EXCEPT !.build = build]
  <2>1. e \notin {"scan", "ci", "gate"} /\ Write(e, p) /\ crashes' = crashes
    BY <1>1 DEF Run
  <2>2. p \in Payload /\ Report(e, p) /\ p.build = build /\ (e = "audit" => ~p.anchor)
    BY <1>0, <2>1, PrintedReports
  <2> HIDE DEF p
  <2> QED BY <1>0, <2>1, <2>2, WriteKeeps
<1>2. ASSUME NEW e \in Ids, Die(e) PROVE Inv'
  <2> DEFINE p == OnDeath(e)
  <2>1. e \notin {"scan", "ci", "gate"} /\ Write(e, p) /\ crashes < Crashes /\ crashes' = crashes + 1
    BY <1>2 DEF Die
  <2>2. p \in Payload /\ Report(e, p) /\ p.build \in 1..build /\ (e = "audit" => ~p.anchor)
    BY <1>0, <2>1, DeathReports
  <2>3. crashes' \in 0..Crashes
    BY <1>0, <2>1, EvidenceAssumption
  <2> HIDE DEF p
  <2> QED BY <2>1, <2>2, <2>3, WriteKeeps
<1>3. ASSUME NEW b \in 1..build, Ci(b) PROVE Inv'
  <2> DEFINE p == [Blank EXCEPT !.status = IF "ci" \in broken[b] THEN "fail" ELSE "pass",
                                !.blocking = "ci" \in broken[b], !.build = b]
  <2>1. Write("ci", p) /\ crashes' = crashes
    BY <1>3 DEF Ci
  <2>2. p \in Payload /\ Report("ci", p) /\ p.build = b /\ "ci" \in Ids
    BY <1>0, CiReports, StepsAre DEF Evidence
  <2> HIDE DEF p
  <2> QED BY <1>0, <2>1, <2>2, WriteKeeps
<1>4. ASSUME NEW b \in 1..build, NEW kind \in Scans, Scan(kind, b) PROVE Inv'
  <2> DEFINE p == [Scanned(kind, "scan" \in broken[b]) EXCEPT !.build = b]
  <2>1. Write("scan", p) /\ crashes' = crashes
    BY <1>4 DEF Scan
  <2>2. p \in Payload /\ Report("scan", p) /\ p.build = b /\ "scan" \in Ids
    BY <1>0, ScanReports, StepsAre DEF Evidence
  <2> HIDE DEF p
  <2> QED BY <1>0, <2>1, <2>2, WriteKeeps
<1>5. ASSUME Gate PROVE Inv'
  <2> DEFINE p == Judged([Blank EXCEPT !.policy = CollectorDecision,
                                       !.status = IF CollectorDecision = "NO_GO" THEN "fail" ELSE "pass",
                                       !.build = build])
  <2>1. Write("gate", p) /\ crashes' = crashes
    BY <1>5 DEF Gate
  <2>2. p \in Payload /\ Report("gate", p) /\ p.build = build /\ p.status = "fail" /\ "gate" \in Ids
    BY GateReports, StepsAre
  <2> HIDE DEF p
  <2> QED BY <1>0, <2>1, <2>2, WriteKeeps
<1> QED BY <1>1, <1>2, <1>3, <1>4, <1>5 DEF Collect

\* After the gate's turn every file has been collected.
LEMMA AllCollected ==
  ASSUME Inv, items["gate"] # Missing
  PROVE  \A e \in Ids : out[e] # Missing /\ out[e] \in Payload /\ Report(e, out[e])
<1>1. PICK k \in 0..13 : Collected(k)
  BY StepsAre DEF Inv, Progress
<1>2. k = 13
  <2>1. 13 \in 1..13
    OBVIOUS
  <2>2. 13 <= k
    BY <1>1, <2>1, StepsAre DEF Collected
  <2> QED BY <2>2
<1>3. \A i \in 1..13 : out[Steps[i]] # Missing
  BY <1>1, <1>2 DEF Collected
<1>4. \A e \in Ids : out[e] # Missing
  BY <1>3, StepsAre
<1> QED BY <1>4 DEF Inv, TypeOK, Reports

LEMMA ApproveStep ==
  ASSUME Inv, NEW external \in BOOLEAN, NEW risk \in BOOLEAN, NEW now \in {1, 3},
         Approve(external, risk, now)
  PROVE  Inv'
<1> DEFINE doctor == [DoctorReport({"anchor", "scanner"}) EXCEPT !.build = build]
           audit  == [out["audit"] EXCEPT !.anchor = external, !.immutable = external]
           in == [[e \in Evidence |-> out[e]] EXCEPT
                    !["audit"]  = [@ EXCEPT !.anchor = external, !.immutable = external],
                    !["doctor"] = IF external THEN [DoctorReport({"anchor", "scanner"}) EXCEPT !.build = build] ELSE @]
           ok == RisksAccepted(IF risk THEN Acceptance ELSE Missing, now)
           accepted == risk /\ now < Expiry
<1>1. /\ items["gate"] # Missing
      /\ approval' = [decision |-> Decision(in, ok), external |-> external, risk |-> accepted, in |-> in]
      /\ UNCHANGED <<build, broken, out, todo, items, crashes>>
  BY DEF Approve
<1>2. \A e \in Ids : out[e] # Missing /\ out[e] \in Payload /\ Report(e, out[e])
  BY <1>1, AllCollected
<1>3. Drills \cup {"ci", "doctor", "bwrap", "audit", "scan"} = Evidence /\ Evidence \subseteq Ids
  BY StepsAre DEF Evidence
<1>4. ok \in BOOLEAN /\ (ok => accepted)
  <2>1. ok \in BOOLEAN
    BY DEF RisksAccepted
  <2>2. ok => risk
    BY DEF RisksAccepted
  <2>3. ok /\ risk => now < Expiry
    BY DEF RisksAccepted, Acceptance
  <2> QED BY <2>1, <2>2, <2>3
<1>5. /\ in["audit"] = audit
      /\ in["doctor"] = IF external THEN doctor ELSE out["doctor"]
      /\ \A e \in Evidence : e \notin {"audit", "doctor"} => in[e] = out[e]
  BY DEF Evidence
<1>6. Report("audit", audit) /\ audit.anchor = external
  <2>1. /\ audit.status = out["audit"].status /\ audit.chain = out["audit"].chain
        /\ audit.build = out["audit"].build /\ audit.anchor = external
    BY <1>2, <1>3 DEF Payload
  <2>2. Report("audit", out["audit"])
    BY <1>2, <1>3
  <2> HIDE DEF audit
  <2> QED BY <2>1, <2>2 DEF Report, Drills
<1>7. Report("doctor", doctor)
  <2> DEFINE d == DoctorReport({"anchor", "scanner"})
  <2>1. /\ d \in Payload
        /\ Broken("doctor") => \E c \in d.checks : c.id = "audit.hash_chain" /\ c.status = "fail"
    BY DoctorReportIs
  <2>2. build \in 0..Commits
    BY EvidenceAssumption DEF Inv, TypeOK
  <2> HIDE DEF d
  <2>3. doctor = [d EXCEPT !.build = build]
    BY DEF d
  <2> HIDE DEF doctor
  <2>4. doctor.checks = d.checks /\ doctor.build = build
    BY <2>1, <2>2, <2>3 DEF Payload
  <2> QED BY <2>1, <2>4 DEF Report, Broken, Drills
<1> HIDE DEF in, ok, audit, doctor, accepted
<1>8. /\ \A e \in Evidence : Report(e, in[e])
      /\ in["ci"] # Missing /\ in["audit"].anchor = external
  <2>1. Report("audit", in["audit"]) /\ Report("doctor", in["doctor"]) /\ in["audit"].anchor = external
    BY <1>2, <1>3, <1>5, <1>6, <1>7
  <2>2. \A e \in Evidence : e \notin {"audit", "doctor"} => Report(e, in[e])
    BY <1>2, <1>3, <1>5
  <2>3. in["ci"] # Missing
    BY <1>2, <1>3, <1>5
  <2> QED BY <2>1, <2>2, <2>3
<1>9. ASSUME Decision(in, ok) # "NO_GO"
      PROVE  \A e \in Evidence :
               /\ e \in broken[in[e].build] => e = "scan" /\ accepted /\ ~RealScanner(in[e])
               /\ e = "bwrap" => {"host", "hosted"} \cap broken[in[e].build] = {}
  <2>1. \A e \in Drills : e \notin broken[in[e].build]
    BY <1>3, <1>8, <1>9, DrillSound
  <2>2. "ci" \notin broken[in["ci"].build]
    BY <1>3, <1>8, <1>9, CiSound
  <2>3. {"bwrap", "host", "hosted"} \cap broken[in["bwrap"].build] = {}
    BY <1>3, <1>8, <1>9, BwrapSound
  <2>4. "audit" \notin broken[in["audit"].build]
    BY <1>3, <1>8, <1>9, AuditSound
  <2>5. "doctor" \notin broken[in["doctor"].build]
    BY <1>3, <1>8, <1>9, DoctorSound
  <2>6. "scan" \in broken[in["scan"].build] => accepted /\ ~RealScanner(in["scan"])
    BY <1>3, <1>4, <1>8, <1>9, ScanSound
  <2> QED BY <1>3, <2>1, <2>2, <2>3, <2>4, <2>5, <2>6
<1>10. ApprovalIsSound'
  <2>1. /\ approval'.decision = Decision(in, ok) /\ approval'.risk = accepted /\ approval'.in = in
        /\ broken' = broken
    BY <1>1
  <2> QED BY <1>9, <2>1 DEF ApprovalIsSound, RealScanner
<1>11. FullGoNeedsEvidence'
  <2>1. /\ approval'.decision = Decision(in, ok) /\ approval'.risk = accepted /\ approval'.in = in
        /\ approval'.external = external
    BY <1>1
  <2>2. ASSUME Decision(in, ok) = "GO" \/ (Decision(in, ok) = "CONTROLLED_GO" /\ ~accepted)
        PROVE  external /\ RealScanner(in["scan"]) /\ in["scan"].license
    <3>1. Report("scan", in["scan"])
      BY <1>3, <1>8
    <3>2. RealScanner(in["scan"]) /\ in["scan"].license
      BY <1>4, <2>2, <3>1, ScanSound
    <3>3. external
      BY <1>4, <1>8, <2>2, AuditNeedsAnchor
    <3> QED BY <3>2, <3>3
  <2> QED BY <2>1, <2>2 DEF FullGoNeedsEvidence, RealScanner
<1>12. TypeOK'
  <2>1. approval'.decision \in {"none", "NO_GO", "CONTROLLED_GO", "GO"}
    BY <1>1, DecisionIs
  <2> QED BY <1>1, <2>1 DEF Inv, TypeOK
<1>13. Reports' /\ Progress' /\ GateRefuses'
  BY <1>1 DEF Inv, Reports, Progress, GateRefuses, Report, RealScanner, Collected
<1> QED BY <1>10, <1>11, <1>12, <1>13 DEF Inv

LEMMA InvStep == Inv /\ [Next]_vars => Inv'
<1> SUFFICES ASSUME Inv, [Next]_vars PROVE Inv'
  OBVIOUS
<1>1. CASE UNCHANGED vars
  BY <1>1 DEF vars, Inv, TypeOK, Reports, Progress, GateRefuses, Report, RealScanner, Collected,
     ApprovalIsSound, FullGoNeedsEvidence
<1>2. CASE NewCommit
  <2>1. build' \in 1..Commits /\ \A e \in Ids : out[e] # Missing => out[e].build \in 1..build'
    BY <1>2, EvidenceAssumption DEF NewCommit, Inv, TypeOK
  <2>2. UNCHANGED <<broken, out, todo, items, approval, crashes>>
    BY <1>2 DEF NewCommit
  <2>3. TypeOK'
    BY <2>1, <2>2 DEF Inv, TypeOK
  <2>4. Reports' /\ Progress' /\ GateRefuses'
    BY <2>2 DEF Inv, Reports, Progress, GateRefuses, Report, RealScanner, Collected
  <2>5. ApprovalIsSound' /\ FullGoNeedsEvidence'
    BY <2>2 DEF Inv, ApprovalIsSound, FullGoNeedsEvidence, RealScanner
  <2> QED BY <2>3, <2>4, <2>5 DEF Inv
<1>3. CASE Begin
  <2>1. todo' = Steps /\ items' = [e \in Ids |-> Missing] /\ UNCHANGED <<build, broken, out, approval, crashes>>
    BY <1>3 DEF Begin
  <2>2. TypeOK'
    <3>1. \E i \in 0..Len(Steps) : todo' = SubSeq(Steps, Len(Steps) + 1 - i, Len(Steps))
      <4>1. Len(Steps) \in 0..Len(Steps) /\ Len(Steps) + 1 - Len(Steps) = 1
        BY StepsAre
      <4>2. todo' = SubSeq(Steps, 1, Len(Steps))
        BY <2>1, StepsAre, ListLeft
      <4> QED BY <4>1, <4>2
    <3>2. items' \in [Ids -> {Missing} \cup Item]
      BY <2>1
    <3> QED BY <2>1, <3>1, <3>2 DEF Inv, TypeOK
  <2>3. Reports'
    BY <2>1 DEF Inv, Reports, Report, RealScanner
  <2>4. Collected(0)'
    <3>1. todo' = SubSeq(Steps, 0 + 1, 13)
      BY <2>1, ListLeft
    <3>2. \A i \in 1..13 : ~(i <= 0) /\ items'[Steps[i]] = Missing
      BY <2>1, StepsAre
    <3> QED BY <3>1, <3>2 DEF Collected
  <2>5. Progress' /\ GateRefuses'
    <3>1. items'["gate"] = Missing
      BY <2>1, StepsAre
    <3> QED BY <2>4, <3>1 DEF Progress, GateRefuses
  <2>6. ApprovalIsSound' /\ FullGoNeedsEvidence'
    BY <2>1 DEF Inv, ApprovalIsSound, FullGoNeedsEvidence, RealScanner
  <2> QED BY <2>2, <2>3, <2>5, <2>6 DEF Inv
<1>4. CASE Collect
  BY <1>4, CollectStep
<1>5. ASSUME NEW external \in BOOLEAN, NEW risk \in BOOLEAN, NEW now \in {1, 3},
             Approve(external, risk, now)
      PROVE  Inv'
  BY <1>5, ApproveStep
<1> QED BY <1>1, <1>2, <1>3, <1>4, <1>5 DEF Next

LEMMA Invariance == Spec => []Inv
  BY InitInv, InvStep, PTL DEF Spec

\* An index entry is that of the file, and the file keeps its promise.
LEMMA EntryOf ==
  ASSUME Inv, NEW e \in Ids, items[e] # Missing
  PROVE  items[e] = ItemOf(out[e]) /\ out[e] \in Payload /\ Report(e, out[e])
<1>1. PICK k \in 0..13 : Collected(k)
  BY DEF Inv, Progress
<1>2. PICK i \in 1..13 : e = Steps[i]
  BY StepsAre
<1>3. out[e] # Missing /\ items[e] = ItemOf(out[e])
  BY <1>1, <1>2 DEF Collected
<1> QED BY <1>3 DEF Inv, TypeOK, Reports

-----------------------------------------------------------------------------
\* Every variable of a collection keeps its type, for all numbers of commits,
\* crashes and scanner reports; no evidence is of a commit still to come.
THEOREM TypeCorrect == Spec => []TypeOK
<1>1. Inv => TypeOK
  BY DEF Inv
<1> QED BY <1>1, Invariance, PTL

\* Whatever is collected and whichever command dies, the collector's own gate
\* refuses and its index is not ready.
THEOREM CollectorRefuses == Spec => []CollectorNeverApproves
<1>1. Inv => CollectorNeverApproves
  BY StepsAre DEF Inv, GateRefuses, CollectorNeverApproves, NotReady
<1> QED BY <1>1, Invariance, PTL

\* What the index holds blocking of a drill, the bubblewrap validation or the CI
\* run the gate blocks; the converse holds but for a passing validation on a
\* GitHub-hosted runner, which the index lets through and the gate blocks.
THEOREM IndexAgrees == Spec => []IndexAgreesWithGate
<1>1. Inv => IndexAgreesWithGate
  <2> SUFFICES ASSUME Inv, NEW e \in Drills \cup {"bwrap", "ci"}, items[e] # Missing, out[e] # Missing
               PROVE  LET f == IF e = "ci" THEN CiFinding(out[e], FALSE)
                               ELSE IF e = "bwrap" THEN BwrapFinding(out[e]) ELSE DrillFinding(e, out[e])
                      IN /\ items[e].blocking => f.blocking
                         /\ f.blocking => items[e].blocking \/ (e = "bwrap" /\ out[e].host = "github_hosted")
    BY DEF IndexAgreesWithGate
  <2> DEFINE p == out[e]
  <2>1. e \in Ids
    BY StepsAre DEF Evidence
  <2>2. items[e] = ItemOf(p) /\ p \in Payload /\ Report(e, p)
    BY <2>1, EntryOf
  <2>3. items[e].blocking = (p.blocking \/ p.status \in {"missing", "failed", "fail"}) /\ p.blocking \in BOOLEAN
    BY <2>2 DEF ItemOf, Payload
  <2>4. CASE e \in Drills
    <3>1. DrillFinding(e, p).blocking = ~(Normalized(p) = "pass")
      BY DEF DrillFinding, Verdict, Finding
    <3>2. p.status \in {"pass", "failed", "fail"} /\ (p.blocking <=> p.status # "pass")
      BY <2>2, <2>4 DEF Report
    <3>3. Normalized(p) = "pass" <=> p.status = "pass"
      BY <3>2, WordsAre
    <3>4. items[e].blocking = ~(Normalized(p) = "pass")
      BY <2>3, <3>2, <3>3
    <3> QED BY <2>4, <3>1, <3>4 DEF Drills
  <2>5. CASE e = "ci"
    <3>1. p.status \in {"pass", "fail"} /\ p.matrix /\ (p.blocking <=> p.status # "pass")
      BY <2>2, <2>5 DEF Report
    <3>2. Normalized(p) = "pass" <=> p.status = "pass"
      BY <3>1, WordsAre
    <3>3. CiFinding(p, FALSE).blocking = ~(Normalized(p) = "pass" /\ p.matrix)
      BY <3>1 DEF CiFinding, Verdict, Finding
    <3>4. items[e].blocking = ~(Normalized(p) = "pass" /\ p.matrix)
      BY <2>3, <3>1, <3>2
    <3> QED BY <2>5, <3>3, <3>4
  <2>6. CASE e = "bwrap"
    <3>1. /\ p.status \in {"pass", "fail", "skipped"}
          /\ p.blocking <=> p.status # "pass"
          /\ p.status = "pass" => p.mode = "production-required" /\ p.enforced /\ p.critical
      BY <2>2, <2>6 DEF Report
    <3>2. Normalized(p) = "pass" <=> p.status = "pass"
      BY <3>1, WordsAre
    <3>3. p.mode # "diagnostic"
      BY <2>2 DEF Payload
    <3>4. p.host # "github_hosted" =>
            BwrapFinding(p).blocking = ~(/\ p.mode \in {"none", "production-required"}
                                         /\ Normalized(p) = "pass" /\ p.enforced /\ p.critical)
      BY <3>3 DEF BwrapFinding, Verdict, Finding
    <3>6. p.host = "github_hosted" => BwrapFinding(p).blocking
      BY DEF BwrapFinding, Blocked, Finding
    <3>5. items[e].blocking = ~(/\ p.mode \in {"none", "production-required"}
                                /\ Normalized(p) = "pass" /\ p.enforced /\ p.critical)
      BY <2>3, <3>1, <3>2
    <3> QED BY <2>6, <3>4, <3>5, <3>6
  <2> QED BY <2>4, <2>5, <2>6
<1> QED BY <1>1, Invariance, PTL

\* An approval stands on evidence that says the truth about its commit,
\* however collections, crashes and commits interleave; a fault passes only
\* in the scanner's place and under an accepted risk.
THEOREM ApprovalsAreSound == Spec => []ApprovalIsSound
<1>1. Inv => ApprovalIsSound
  BY DEF Inv
<1> QED BY <1>1, Invariance, PTL

\* Full GO, or a controlled one without an accepted risk, needs the external
\* anchor and a real scanner report with its licences.
THEOREM FullGoIsEvidenced == Spec => []FullGoNeedsEvidence
<1>1. Inv => FullGoNeedsEvidence
  BY DEF Inv
<1> QED BY <1>1, Invariance, PTL
=============================================================================
