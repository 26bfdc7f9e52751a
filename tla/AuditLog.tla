------------------------------- MODULE AuditLog -------------------------------
(***************************************************************************)
(* The audit log: a file of records, each with the hash of the one before  *)
(* it, that the threads of several processes append to, and the checkpoint *)
(* file that seals a prefix of it.  A record is its number: two records    *)
(* never have the same hash.                                               *)
(*                                                                         *)
(* An append is one write of one line, and a reading of the log sees it    *)
(* whole or not at all.  A checkpoint file is emptied and then written.    *)
(* Whoever verifies reads the log once and the checkpoint twice.           *)
(***************************************************************************)
EXTENDS Naturals, Sequences, FiniteSets

CONSTANTS Proc, Thread,
          ProcOf,      \* the process of a thread; its threads share one AuditLogger
          Records,     \* bound: records begun
          Interval,    \* checkpoint_interval of the sinks
          Readers,     \* bound: verifications at one time
          Crashes,     \* bound: processes that die
          Changes      \* bound: changes to the log from outside

ASSUME AuditAssumption ==
  /\ ProcOf \in [Thread -> Proc] /\ "free" \notin Thread
  /\ Records \in Nat /\ Interval \in Nat \ {0}
  /\ Readers \in Nat /\ Crashes \in Nat /\ Changes \in Nat

VARIABLES log,       \* the lines of the file, see Line
          lock,      \* lock[p]: the thread that holds the logger's lock
          th,        \* per thread [pc, id, prev, view]: the record it writes, the log it read
          anchor,    \* the checkpoint file, see Anchor
          made,      \* records begun
          crashed, changed,
          sealed,    \* history: the log the anchor was taken of
          overlap,   \* history: two processes were in record at once
          broken     \* history: a crash left half a line or half a checkpoint, or two
                     \* writers a mixed one
vars == <<log, lock, th, anchor, made, crashed, changed, sealed, overlap, broken>>

\* A line is whole; or whole without its line feed; or the first part of one;
\* or unreadable; or a record whose content no longer fits its hash.
Line   == [id : Nat, prev : Nat, form : {"whole", "open", "cut", "bad", "edited"}]
Free   == "free"
NoSeal == [seq |-> 0, hash |-> 0, file |-> "none"]
Anchor == [seq : Nat, hash : Nat, file : {"none", "empty", "whole", "torn"}]
Work   == [pc : {"idle", "write", "due", "take", "seal", "fill", "vet", "compare"},
           id : Nat, prev : Nat, view : Seq(Line)]
Idle   == [pc |-> "idle", id |-> 0, prev |-> 0, view |-> <<>>]

Init ==
  /\ log = <<>>
  /\ lock = [p \in Proc |-> Free]
  /\ th = [t \in Thread |-> Idle]
  /\ anchor = NoSeal
  /\ made = 0 /\ crashed = 0 /\ changed = 0
  /\ sealed = <<>> /\ overlap = FALSE /\ broken = FALSE
-----------------------------------------------------------------------------
(* Reading the file. *)

\* The hash the next record starts from: an unreadable last line counts as none.
LastHash(lines) ==
  IF lines = <<>> \/ lines[Len(lines)].form \in {"cut", "bad"} THEN 0 ELSE lines[Len(lines)].id

Linked(lines) == \A i \in 1..Len(lines) : lines[i].prev = (IF i = 1 THEN 0 ELSE lines[i - 1].id)
\* Mutant of Chained: the content of each line is verified, not its place.
ChainedLinesOnly(lines) == \A i \in 1..Len(lines) : lines[i].form \in {"whole", "open"}
Chained(lines) == Linked(lines) /\ \A i \in 1..Len(lines) : lines[i].form \in {"whole", "open"}

Seals(a, lines) == \/ a.seq = 0 /\ a.hash = 0
                   \/ a.seq \in 1..Len(lines) /\ lines[a.seq].id = a.hash
\* create_audit_checkpoint, of the log that was read.
SealOf(lines) == [seq |-> Len(lines), hash |-> LastHash(lines), file |-> "whole"]

\* read_latest_checkpoint raises on what is no JSON.
Readable == anchor.file \in {"none", "whole"}

\* What makes verify_audit_log raise: at its first reading of the checkpoint the
\* lines have been checked, at its second the two are compared.
Raises(t) ==
  CASE th[t].pc = "vet"     -> ~Chained(th[t].view) \/ ~Readable
    [] th[t].pc = "compare" -> ~Readable \/ (anchor.file = "whole" /\ ~Seals(anchor, th[t].view))
    [] OTHER                -> FALSE

\* It returns with the status of a checkpoint it compared the log with.
Verified(t) == th[t].pc = "compare" /\ ~Raises(t) /\ anchor.file = "whole"
-----------------------------------------------------------------------------
(* record, and the checkpoints of a sink or an operator. *)

InRecord == {t \in Thread : th[t].pc = "write"}

\* Mutant of Begin: a logger without a lock.
BeginUnlocked(t) ==
  /\ th[t].pc = "idle" /\ made < Records
  /\ th' = [th EXCEPT ![t] = [Idle EXCEPT !.pc = "write", !.id = made + 1, !.prev = LastHash(log)]]
  /\ made' = made + 1
  /\ overlap' = (overlap \/ \E u \in InRecord : ProcOf[u] # ProcOf[t])
  /\ UNCHANGED <<log, lock, anchor, crashed, changed, sealed, broken>>
Begin(t) ==
  /\ th[t].pc = "idle" /\ made < Records
  /\ lock[ProcOf[t]] = Free
  /\ lock' = [lock EXCEPT ![ProcOf[t]] = t]
  /\ th' = [th EXCEPT ![t] = [Idle EXCEPT !.pc = "write", !.id = made + 1, !.prev = LastHash(log)]]
  /\ made' = made + 1
  /\ overlap' = (overlap \/ \E u \in InRecord : ProcOf[u] # ProcOf[t])
  /\ UNCHANGED <<log, anchor, crashed, changed, sealed, broken>>

\* Opened for appending: what follows half a line becomes part of it.
Extended(lines, r) ==
  IF lines # <<>> /\ lines[Len(lines)].form \in {"open", "cut"}
  THEN [lines EXCEPT ![Len(lines)].form = "bad"]
  ELSE Append(lines, r)

Written(t, form) == Extended(log, [id |-> th[t].id, prev |-> th[t].prev, form |-> form])

\* The lock is released; the append of a sink goes on to see whether a
\* checkpoint is due.
Write(t) ==
  /\ th[t].pc = "write"
  /\ log' = Written(t, "whole")
  /\ lock' = [lock EXCEPT ![ProcOf[t]] = Free]
  /\ \E next \in {"idle", "due"} : th' = [th EXCEPT ![t] = [Idle EXCEPT !.pc = next]]
  /\ UNCHANGED <<anchor, made, crashed, changed, sealed, overlap, broken>>

\* A log that does not verify makes append, flush and the command raise.
Due(t) ==
  /\ th[t].pc = "due"
  /\ th' = [th EXCEPT ![t] = IF Chained(log) /\ log # <<>> /\ Len(log) % Interval = 0
                             THEN [Idle EXCEPT !.pc = "take"] ELSE Idle]
  /\ UNCHANGED <<log, lock, anchor, made, crashed, changed, sealed, overlap, broken>>
Flush(t) ==
  /\ th[t].pc = "idle"
  /\ th' = [th EXCEPT ![t] = [Idle EXCEPT !.pc = "take"]]
  /\ UNCHANGED <<log, lock, anchor, made, crashed, changed, sealed, overlap, broken>>
Take(t) ==
  /\ th[t].pc = "take"
  /\ th' = [th EXCEPT ![t] = IF Chained(log) THEN [Idle EXCEPT !.pc = "seal", !.view = log] ELSE Idle]
  /\ UNCHANGED <<log, lock, anchor, made, crashed, changed, sealed, overlap, broken>>

\* write_text empties the checkpoint file, whatever it held, and then writes it.
Truncate(t) ==
  /\ th[t].pc = "seal"
  /\ anchor' = [NoSeal EXCEPT !.file = "empty"]
  /\ th' = [th EXCEPT ![t].pc = "fill"]
  /\ UNCHANGED <<log, lock, made, crashed, changed, sealed, overlap, broken>>
\* Mutant of Fill: the file is opened for appending.
FillAfter(t) ==
  /\ th[t].pc = "fill"
  /\ anchor' = IF anchor.file = "empty" THEN SealOf(th[t].view) ELSE [anchor EXCEPT !.file = "double"]
  /\ sealed' = th[t].view
  /\ th' = [th EXCEPT ![t] = Idle]
  /\ UNCHANGED <<log, lock, made, crashed, changed, overlap, broken>>
\* The end of a longer checkpoint that another thread wrote meanwhile stays.
Fill(t) ==
  /\ th[t].pc = "fill"
  /\ \/ anchor' = SealOf(th[t].view) /\ UNCHANGED broken
     \/ anchor.file # "empty" /\ anchor' = [NoSeal EXCEPT !.file = "torn"] /\ broken' = TRUE
  /\ sealed' = th[t].view
  /\ th' = [th EXCEPT ![t] = Idle]
  /\ UNCHANGED <<log, lock, made, crashed, changed, overlap>>
-----------------------------------------------------------------------------
(* verify_audit_log, which takes no lock. *)

ReadLog(t) ==
  /\ th[t].pc = "idle"
  /\ Cardinality({u \in Thread : th[u].pc \in {"vet", "compare"}}) < Readers
  /\ th' = [th EXCEPT ![t] = [Idle EXCEPT !.pc = "vet", !.view = log]]
  /\ UNCHANGED <<log, lock, anchor, made, crashed, changed, sealed, overlap, broken>>

\* The chain of what was read, and verify_checkpoint.
Vet(t) ==
  /\ th[t].pc = "vet"
  /\ th' = [th EXCEPT ![t] = IF Raises(t) THEN Idle ELSE [@ EXCEPT !.pc = "compare"]]
  /\ UNCHANGED <<log, lock, anchor, made, crashed, changed, sealed, overlap, broken>>

\* read_latest_checkpoint once more; the comparison raises or returns.
Compare(t) ==
  /\ th[t].pc = "compare"
  /\ th' = [th EXCEPT ![t] = Idle]
  /\ UNCHANGED <<log, lock, anchor, made, crashed, changed, sealed, overlap, broken>>
-----------------------------------------------------------------------------
(* Faults. *)

\* A process dies: the line or the checkpoint it writes may be cut off, and a
\* checkpoint file it has emptied may stay so.
Crash(p) ==
  LET mine == {t \in Thread : ProcOf[t] = p}
      writers == {t \in mine : th[t].pc = "write"}
      fillers == {t \in mine : th[t].pc = "fill"}
  IN /\ crashed < Crashes /\ crashed' = crashed + 1
     /\ th' = [t \in Thread |-> IF t \in mine THEN Idle ELSE th[t]]
     /\ lock' = [lock EXCEPT ![p] = Free]
     /\ \/ /\ broken' = (broken \/ fillers # {})
           /\ UNCHANGED <<log, anchor>>
        \/ /\ \E t \in writers, form \in {"cut", "open"} : log' = Written(t, form)
           /\ broken' = TRUE /\ UNCHANGED anchor
        \/ /\ fillers # {} /\ anchor' = [NoSeal EXCEPT !.file = "torn"]
           /\ broken' = TRUE /\ UNCHANGED log
     /\ UNCHANGED <<made, changed, sealed, overlap>>

\* Someone puts an older copy of the log back, or edits a line, with or
\* without a new hash for it.
Change ==
  /\ changed < Changes /\ changed' = changed + 1
  /\ \/ \E k \in 0..(Len(log) - 1) : log' = SubSeq(log, 1, k)
     \/ \E i \in 1..Len(log) :
          \/ log' = [log EXCEPT ![i].form = "edited"]
          \/ log' = [log EXCEPT ![i].id = Records + changed']
  /\ UNCHANGED <<lock, th, anchor, made, crashed, sealed, overlap, broken>>
-----------------------------------------------------------------------------
Next == \/ \E t \in Thread : \/ Begin(t) \/ Write(t) \/ Due(t) \/ Flush(t)
                             \/ Take(t) \/ Truncate(t) \/ Fill(t)
                             \/ ReadLog(t) \/ Vet(t) \/ Compare(t)
        \/ \E p \in Proc : Crash(p)
        \/ Change
Spec == Init /\ [][Next]_vars
-----------------------------------------------------------------------------
TypeOK ==
  /\ log \in Seq(Line)
  /\ lock \in [Proc -> Thread \cup {Free}]
  /\ th \in [Thread -> Work]
  /\ anchor \in Anchor
  /\ made \in Nat /\ crashed \in Nat /\ changed \in Nat
  /\ sealed \in Seq(Line)
  /\ overlap \in BOOLEAN /\ broken \in BOOLEAN

\* A verification of a log that nobody disturbed (no crash cut off a write, no
\* one changed the log, no two processes recorded and no two threads wrote the
\* checkpoint at once) raises in two cases only: the checkpoint file is being
\* written at that moment, or holds a checkpoint newer than the log that was
\* read.  However the checkpoints of several threads overtake each other, and
\* however the appends of one logger interleave, nothing else sets off the alarm.
CleanLogVerifies ==
  ~overlap /\ ~broken /\ changed = 0 =>
    \A t \in Thread : Raises(t) =>
      (\E u \in Thread : th[u].pc = "fill") \/ anchor.seq > Len(th[t].view)

\* Without those two cases: refuted by a record and a checkpoint of another
\* thread between the two readings, which verify reports as a rollback.
CleanLogNeverRaises ==
  ~overlap /\ ~broken /\ changed = 0 => \A t \in Thread : ~Raises(t)

\* A log that verifies against a checkpoint still holds the records the
\* checkpoint was taken of, whatever was cut off, put back or edited since.
SealedPrefixKept ==
  \A t \in Thread : Verified(t) =>
    /\ Len(sealed) = anchor.seq
    /\ \A i \in 1..anchor.seq : th[t].view[i].id = sealed[i].id
=============================================================================
