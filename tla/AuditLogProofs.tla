---------------------------- MODULE AuditLogProofs ----------------------------
(***************************************************************************)
(* What holds of AuditLog for every set of processes and threads, every    *)
(* interval and any number of records, crashes and changes: type           *)
(* correctness, what alone makes the verification of a log raise that      *)
(* nobody disturbed, and that a log which verifies against its checkpoint  *)
(* has lost no sealed record.                                              *)
(***************************************************************************)
EXTENDS AuditLog, SequenceTheorems, TLAPS

(***************************************************************************)
(* Sequences of lines.                                                     *)
(***************************************************************************)

LEMMA LastHashTyped ==
  ASSUME NEW lines \in Seq(Line) PROVE LastHash(lines) \in Nat
<1>1. CASE lines = <<>>
  BY <1>1 DEF LastHash
<1>2. CASE lines # <<>>
  <2>1. Len(lines) \in 1..Len(lines)
    BY <1>2, EmptySeq
  <2>2. lines[Len(lines)] \in Line
    BY <2>1, ElementOfSeq
  <2>3. lines[Len(lines)].id \in Nat
    BY <2>2 DEF Line
  <2> QED
    BY <2>3 DEF LastHash
<1> QED
  BY <1>1, <1>2

\* A change of one field of one line.
LEMMA LineChanged ==
  ASSUME NEW lines \in Seq(Line), NEW i \in 1..Len(lines)
  PROVE  /\ \A form \in {"bad", "edited"} : [lines EXCEPT ![i].form = form] \in Seq(Line)
         /\ \A id \in Nat : [lines EXCEPT ![i].id = id] \in Seq(Line)
<1>1. \A r \in Line : [lines EXCEPT ![i] = r] \in Seq(Line)
  BY ExceptSeq
<1>0. lines[i] \in Line
  BY ElementOfSeq
<1>2. /\ \A form \in {"bad", "edited"} : [lines[i] EXCEPT !.form = form] \in Line
      /\ \A id \in Nat : [lines[i] EXCEPT !.id = id] \in Line
  BY <1>0 DEF Line
<1> QED
  BY <1>1, <1>2

LEMMA ExtendedTyped ==
  ASSUME NEW lines \in Seq(Line), NEW r \in Line PROVE Extended(lines, r) \in Seq(Line)
<1>1. CASE lines # <<>> /\ lines[Len(lines)].form \in {"open", "cut"}
  <2>1. Len(lines) \in 1..Len(lines)
    BY <1>1, EmptySeq
  <2> QED
    BY <1>1, <2>1, LineChanged DEF Extended
<1>2. CASE ~(lines # <<>> /\ lines[Len(lines)].form \in {"open", "cut"})
  BY <1>2, AppendProperties DEF Extended
<1> QED
  BY <1>1, <1>2

(***************************************************************************)
(* Types and the lock.                                                     *)
(***************************************************************************)

LEMMA WorkTyped ==
  /\ NoSeal \in Anchor
  /\ Idle \in Work /\ Idle.pc = "idle" /\ Idle.view = <<>>
  /\ \A pc \in {"idle", "due", "take"} :
       /\ [Idle EXCEPT !.pc = pc] \in Work
       /\ [Idle EXCEPT !.pc = pc].pc = pc /\ [Idle EXCEPT !.pc = pc].view = <<>>
  /\ \A pc \in {"seal", "vet"}, lines \in Seq(Line) :
       /\ [Idle EXCEPT !.pc = pc, !.view = lines] \in Work
       /\ [Idle EXCEPT !.pc = pc, !.view = lines].pc = pc
       /\ [Idle EXCEPT !.pc = pc, !.view = lines].view = lines
  /\ \A pc \in {"fill", "compare"}, w \in Work :
       /\ [w EXCEPT !.pc = pc] \in Work
       /\ [w EXCEPT !.pc = pc].pc = pc /\ [w EXCEPT !.pc = pc].view = w.view
  /\ \A file \in {"empty", "torn"} :
       /\ [NoSeal EXCEPT !.file = file] \in Anchor
       /\ [NoSeal EXCEPT !.file = file].file = file
BY EmptySeq DEF Idle, Work, NoSeal, Anchor

LEMMA SealTyped ==
  ASSUME NEW lines \in Seq(Line) PROVE SealOf(lines) \in Anchor
BY LastHashTyped, LenProperties DEF SealOf, Anchor

\* The lock of a process is held by its thread in record.
Locks == \A t \in Thread : th[t].pc = "write" <=> lock[ProcOf[t]] = t

LEMMA TypedInit == Init => TypeOK /\ Locks
<1> SUFFICES ASSUME Init PROVE TypeOK /\ Locks
  OBVIOUS
<1>1. log \in Seq(Line) /\ sealed \in Seq(Line)
  BY EmptySeq DEF Init
<1>2. /\ th \in [Thread -> Work] /\ anchor \in Anchor
      /\ \A t \in Thread : th[t].pc = "idle"
  BY WorkTyped DEF Init
<1>3. /\ lock \in [Proc -> Thread \cup {Free}]
      /\ \A t \in Thread : lock[ProcOf[t]] # t
  BY AuditAssumption DEF Init, Free
<1> QED
  BY <1>1, <1>2, <1>3 DEF Init, TypeOK, Locks

\* What the steps outside record have in common: one thread goes on, with what
\* it read before, with the log it reads now or with nothing.
LEMMA Elsewhere ==
  ASSUME TypeOK, NEW t \in Thread,
         Due(t) \/ Flush(t) \/ Take(t) \/ Truncate(t) \/ Fill(t)
           \/ ReadLog(t) \/ Vet(t) \/ Compare(t)
  PROVE  /\ th[t].pc # "write"
         /\ UNCHANGED <<log, lock, made, crashed, changed, overlap>>
         /\ \E w \in Work : /\ w.pc # "write" /\ w.view \in {<<>>, log, th[t].view}
                            /\ th' = [th EXCEPT ![t] = w]
<1>0. th \in [Thread -> Work] /\ th[t] \in Work /\ log \in Seq(Line)
  BY DEF TypeOK
<1>1. CASE Due(t)
  BY <1>1, WorkTyped DEF Due
<1>2. CASE Flush(t)
  BY <1>2, WorkTyped DEF Flush
<1>3. CASE Take(t)
  BY <1>0, <1>3, WorkTyped DEF Take
<1>4. CASE Truncate(t)
  <2>1. th' = [th EXCEPT ![t] = [th[t] EXCEPT !.pc = "fill"]]
    BY <1>0, <1>4 DEF Truncate
  <2> QED
    BY <1>0, <1>4, <2>1, WorkTyped DEF Truncate
<1>5. CASE Fill(t)
  BY <1>5, WorkTyped DEF Fill
<1>6. CASE ReadLog(t)
  BY <1>0, <1>6, WorkTyped DEF ReadLog
<1>7. CASE Vet(t)
  <2>1. \/ th' = [th EXCEPT ![t] = [th[t] EXCEPT !.pc = "compare"]]
        \/ th' = [th EXCEPT ![t] = Idle]
    BY <1>0, <1>7 DEF Vet
  <2> QED
    BY <1>0, <1>7, <2>1, WorkTyped DEF Vet
<1>8. CASE Compare(t)
  BY <1>8, WorkTyped DEF Compare
<1> QED
  BY <1>1, <1>2, <1>3, <1>4, <1>5, <1>6, <1>7, <1>8

\* After its line is written a thread is done, or looks for a due checkpoint.
LEMMA AfterWrite ==
  ASSUME TypeOK, NEW t \in Thread, Write(t)
  PROVE  /\ th' \in [Thread -> Work] /\ \A u \in Thread \ {t} : th'[u] = th[u]
         /\ th'[t].pc \in {"idle", "due"} /\ th'[t].view = <<>>
<1>0. th \in [Thread -> Work]
  BY DEF TypeOK
<1>1. PICK next \in {"idle", "due"} : th' = [th EXCEPT ![t] = [Idle EXCEPT !.pc = next]]
  BY DEF Write
<1> DEFINE w == [Idle EXCEPT !.pc = next]
<1>2. w \in Work /\ w.pc = next /\ w.view = <<>>
  BY EmptySeq DEF Idle, Work
<1>3. th' = [th EXCEPT ![t] = w]
  BY <1>1
<1> HIDE DEF w
<1>4. th' \in [Thread -> Work] /\ th'[t] = w /\ \A u \in Thread \ {t} : th'[u] = th[u]
  BY <1>0, <1>2, <1>3
<1> QED
  BY <1>2, <1>4

LEMMA TypedStep == TypeOK /\ Locks /\ [Next]_vars => (TypeOK /\ Locks)'
<1> SUFFICES ASSUME TypeOK, Locks, [Next]_vars PROVE (TypeOK /\ Locks)'
  OBVIOUS
<1>0. /\ th \in [Thread -> Work] /\ lock \in [Proc -> Thread \cup {Free}] /\ log \in Seq(Line)
      /\ ProcOf \in [Thread -> Proc] /\ Free \notin Thread
      /\ anchor \in Anchor /\ made \in Nat /\ changed \in Nat /\ Records \in Nat
  BY AuditAssumption DEF TypeOK, Free
<1>1. ASSUME NEW t \in Thread, Begin(t) PROVE (TypeOK /\ Locks)'
  <2> DEFINE w == [Idle EXCEPT !.pc = "write", !.id = made + 1, !.prev = LastHash(log)]
  <2>0. LastHash(log) \in Nat /\ made + 1 \in Nat
    BY <1>0, LastHashTyped
  <2>1. w \in Work /\ w.pc = "write"
    BY <2>0, EmptySeq DEF Work, Idle
  <2>2. th' = [th EXCEPT ![t] = w] /\ lock' = [lock EXCEPT ![ProcOf[t]] = t] /\ lock[ProcOf[t]] = Free
    BY <1>1 DEF Begin
  <2> HIDE DEF w
  <2>3. th' \in [Thread -> Work] /\ lock' \in [Proc -> Thread \cup {Free}] /\ Locks'
    BY <1>0, <2>1, <2>2 DEF Locks
  <2>4. made' \in Nat /\ overlap' \in BOOLEAN
    BY <1>1, <1>0 DEF Begin, TypeOK
  <2> QED
    BY <1>1, <2>3, <2>4 DEF Begin, TypeOK
<1>2. ASSUME NEW t \in Thread, Write(t) PROVE (TypeOK /\ Locks)'
  <2>1. /\ th' \in [Thread -> Work] /\ \A u \in Thread \ {t} : th'[u] = th[u]
        /\ th'[t].pc \in {"idle", "due"}
    BY <1>2, AfterWrite
  <2>2. th[t].pc = "write" /\ lock' = [lock EXCEPT ![ProcOf[t]] = Free]
    BY <1>2 DEF Write
  <2>3. lock' \in [Proc -> Thread \cup {Free}] /\ Locks'
    BY <1>0, <2>1, <2>2 DEF Locks
  <2>4. log' \in Seq(Line)
    <3>1. [id |-> th[t].id, prev |-> th[t].prev, form |-> "whole"] \in Line
      BY <1>0 DEF Work, Line
    <3> QED
      BY <1>0, <1>2, <3>1, ExtendedTyped DEF Write, Written
  <2> QED
    BY <1>2, <2>1, <2>3, <2>4 DEF Write, TypeOK
<1>3. ASSUME NEW t \in Thread,
             Due(t) \/ Flush(t) \/ Take(t) \/ Truncate(t) \/ Fill(t)
               \/ ReadLog(t) \/ Vet(t) \/ Compare(t)
      PROVE  (TypeOK /\ Locks)'
  <2>1. PICK w \in Work : w.pc # "write" /\ th' = [th EXCEPT ![t] = w]
    BY <1>3, Elsewhere
  <2>2. th[t].pc # "write" /\ UNCHANGED <<log, lock, made, crashed, changed, overlap>>
    BY <1>3, Elsewhere
  <2>3. th' \in [Thread -> Work] /\ Locks'
    BY <1>0, <2>1, <2>2 DEF Locks
  <2>4. anchor' \in Anchor /\ sealed' \in Seq(Line) /\ broken' \in BOOLEAN
    <3>1. CASE Fill(t)
      <4>1. th[t].view \in Seq(Line)
        BY <1>0 DEF Work
      <4>2. SealOf(th[t].view) \in Anchor /\ [NoSeal EXCEPT !.file = "torn"] \in Anchor
        BY <4>1, SealTyped, WorkTyped
      <4> QED
        BY <3>1, <4>1, <4>2 DEF Fill, TypeOK
    <3>2. CASE Truncate(t)
      BY <3>2, WorkTyped DEF Truncate, TypeOK
    <3>3. CASE ~Fill(t) /\ ~Truncate(t)
      BY <1>3, <3>3 DEF Due, Flush, Take, ReadLog, Vet, Compare, TypeOK
    <3> QED
      BY <3>1, <3>2, <3>3
  <2> QED
    BY <1>0, <2>2, <2>3, <2>4 DEF TypeOK
<1>6. ASSUME NEW p \in Proc, Crash(p) PROVE (TypeOK /\ Locks)'
  <2> DEFINE mine == {t \in Thread : ProcOf[t] = p}
  <2>1. /\ th' = [t \in Thread |-> IF t \in mine THEN Idle ELSE th[t]]
        /\ lock' = [lock EXCEPT ![p] = Free]
        /\ crashed' = crashed + 1 /\ UNCHANGED <<made, changed, sealed, overlap>>
    BY <1>6 DEF Crash
  <2>2. th' \in [Thread -> Work] /\ lock' \in [Proc -> Thread \cup {Free}] /\ Locks'
    BY <1>0, <2>1, WorkTyped DEF Locks
  <2>3. log' \in Seq(Line) /\ anchor' \in Anchor /\ broken' \in BOOLEAN
    <3>1. CASE UNCHANGED <<log, anchor>> /\ broken' \in BOOLEAN
      BY <3>1 DEF TypeOK
    <3>2. ASSUME NEW t \in Thread, NEW form \in {"cut", "open"}, log' = Written(t, form)
          PROVE  log' \in Seq(Line)
      <4>1. [id |-> th[t].id, prev |-> th[t].prev, form |-> form] \in Line
        BY <1>0 DEF Work, Line
      <4> QED
        BY <1>0, <3>2, <4>1, ExtendedTyped DEF Written
    <3>3. CASE (\E t \in Thread, form \in {"cut", "open"} : log' = Written(t, form))
               /\ broken' = TRUE /\ UNCHANGED anchor
      BY <1>0, <3>2, <3>3
    <3>4. CASE anchor' = [NoSeal EXCEPT !.file = "torn"] /\ broken' = TRUE /\ UNCHANGED log
      BY <1>0, <3>4, WorkTyped
    <3>5. (broken \/ {t \in mine : th[t].pc = "fill"} # {}) \in BOOLEAN
      OBVIOUS
    <3> QED
      BY <1>6, <3>1, <3>3, <3>4, <3>5 DEF Crash
  <2> QED
    BY <2>1, <2>2, <2>3 DEF TypeOK
<1>7. CASE Change
  <2>1. changed' \in Nat
    BY <1>0, <1>7 DEF Change
  <2>2. log' \in Seq(Line)
    <3>1. ASSUME NEW k \in 0..(Len(log) - 1) PROVE SubSeq(log, 1, k) \in Seq(Line)
      <4>1. \A i \in 1..k : log[i] \in Line
        BY <1>0, ElementOfSeq, LenProperties
      <4> QED
        BY <4>1, SubSeqProperties
    <3>2. Records + changed' \in Nat
      <4>1. \A m, n \in Nat : m + n \in Nat
        OBVIOUS
      <4>2. Records \in Nat
        BY AuditAssumption
      <4> QED
        BY <2>1, <4>1, <4>2
    <3>3. ASSUME NEW i \in 1..Len(log), NEW id \in Nat
          PROVE  [log EXCEPT ![i].form = "edited"] \in Seq(Line) /\ [log EXCEPT ![i].id = id] \in Seq(Line)
      BY <1>0, LineChanged
    <3> QED
      BY <1>7, <3>1, <3>2, <3>3 DEF Change
  <2> QED
    BY <1>7, <2>1, <2>2 DEF Change, TypeOK, Locks
<1>8. CASE UNCHANGED vars
  BY <1>8 DEF vars, TypeOK, Locks
<1> QED
  BY <1>1, <1>2, <1>3, <1>6, <1>7, <1>8 DEF Next

\* Every variable keeps its type; the log may hold anything a crash or a change
\* can leave in it.
THEOREM TypeCorrect == Spec => []TypeOK
<1>1. Init => TypeOK /\ Locks
  BY TypedInit
<1>2. (TypeOK /\ Locks) /\ [Next]_vars => (TypeOK /\ Locks)'
  BY TypedStep
<1> QED
  BY <1>1, <1>2, PTL DEF Spec

(***************************************************************************)
(* The undisturbed log.                                                    *)
(***************************************************************************)

\* What was read of a log that has only grown since.
Part(v, lines) == Len(v) <= Len(lines) /\ \A i \in 1..Len(v) : v[i] = lines[i]

\* The file is a chain of whole lines, what a writer starts from is its end, it
\* begins with whatever was read of it, and the checkpoint fits it: one that was
\* overtaken too.  Where the checkpoint file is empty somebody is writing it.
Sound ==
  /\ \A t, u \in InRecord : t = u
  /\ Linked(log) /\ \A i \in 1..Len(log) : log[i].form = "whole"
  /\ \A t \in InRecord : th[t].prev = LastHash(log)
  /\ \A t \in Thread : Part(th[t].view, log)
  /\ Seals(anchor, log) /\ anchor.file # "torn"
  /\ anchor.file = "empty" => \E t \in Thread : th[t].pc = "fill"
Disturbed == overlap \/ broken \/ changed # 0

Inv == TypeOK /\ Locks /\ (Disturbed \/ Sound)

LEMMA NothingRead == ASSUME NEW lines \in Seq(Line) PROVE Part(<<>>, lines) /\ Part(lines, lines)
BY EmptySeq, LenProperties DEF Part

LEMMA SoundInit == Init => Sound
<1> SUFFICES ASSUME Init PROVE Sound
  OBVIOUS
<1>1. log \in Seq(Line) /\ Len(log) = 0 /\ \A t \in Thread : th[t].view = <<>> /\ th[t].pc = "idle"
  BY WorkTyped, EmptySeq DEF Init
<1>2. Seals(anchor, log) /\ anchor.file = "none"
  BY DEF Init, Seals, NoSeal
<1>3. \A t \in Thread : Part(th[t].view, log)
  BY <1>1, NothingRead
<1>4. 1..0 = {} /\ InRecord = {}
  BY <1>1 DEF InRecord
<1> QED
  BY <1>1, <1>2, <1>3, <1>4 DEF Sound, Linked

\* What fits a log fits every continuation of it.
LEMMA SealsGrow ==
  ASSUME NEW lines \in Seq(Line), NEW r \in Line, NEW a \in Anchor, Seals(a, lines)
  PROVE  Seals(a, Append(lines, r))
<1>1. Len(lines) \in Nat
  BY LenProperties
<1>2. /\ Len(Append(lines, r)) = Len(lines) + 1
      /\ \A i \in 1..Len(lines) : Append(lines, r)[i] = lines[i]
  BY AppendProperties
<1> QED
  BY <1>1, <1>2 DEF Seals, Anchor

LEMMA PartGrows ==
  ASSUME NEW lines \in Seq(Line), NEW r \in Line, NEW v \in Seq(Line), Part(v, lines)
  PROVE  Part(v, Append(lines, r))
<1>1. Len(lines) \in Nat /\ Len(v) \in Nat
  BY LenProperties
<1>2. /\ Len(Append(lines, r)) = Len(lines) + 1
      /\ \A i \in 1..Len(lines) : Append(lines, r)[i] = lines[i]
  BY AppendProperties
<1> QED
  BY <1>1, <1>2 DEF Part

\* A checkpoint of what was read of a log fits it.
LEMMA PartSeals ==
  ASSUME NEW lines \in Seq(Line), NEW v \in Seq(Line), Part(v, lines),
         \A i \in 1..Len(lines) : lines[i].form = "whole"
  PROVE  Seals(SealOf(v), lines)
<1>0. Len(lines) \in Nat /\ Len(v) \in Nat
  BY LenProperties
<1>1. CASE v = <<>>
  <2>1. Len(v) = 0
    BY <1>1, EmptySeq
  <2> QED
    BY <1>1, <2>1 DEF Seals, SealOf, LastHash
<1>2. CASE v # <<>>
  <2>1. Len(v) \in 1..Len(v)
    BY <1>2, EmptySeq
  <2>2. Len(v) \in 1..Len(lines) /\ v[Len(v)] = lines[Len(v)]
    BY <1>0, <2>1 DEF Part
  <2> QED
    BY <1>2, <2>2 DEF Seals, SealOf, LastHash
<1> QED
  BY <1>1, <1>2

LEMMA LinkedGrows ==
  ASSUME NEW lines \in Seq(Line), NEW r \in Line, Linked(lines), r.prev = LastHash(lines),
         \A i \in 1..Len(lines) : lines[i].form = "whole", r.form = "whole"
  PROVE  /\ Linked(Append(lines, r)) /\ Extended(lines, r) = Append(lines, r)
         /\ \A i \in 1..Len(Append(lines, r)) : Append(lines, r)[i].form = "whole"
<1> DEFINE new == Append(lines, r)
<1>1. /\ Len(new) = Len(lines) + 1 /\ new[Len(lines) + 1] = r
      /\ \A i \in 1..Len(lines) : new[i] = lines[i]
      /\ Len(lines) \in Nat
  BY AppendProperties, LenProperties
<1>2. lines # <<>> => Len(lines) \in 1..Len(lines)
  BY EmptySeq
<1>3. Extended(lines, r) = new
  BY <1>2 DEF Extended
<1>4. r.prev = IF lines = <<>> THEN 0 ELSE lines[Len(lines)].id
  BY <1>2 DEF LastHash
<1>5. lines = <<>> <=> Len(lines) = 0
  BY EmptySeq
<1> HIDE DEF new
<1>6. ASSUME NEW i \in 1..Len(new)
      PROVE  new[i].prev = (IF i = 1 THEN 0 ELSE new[i - 1].id) /\ new[i].form = "whole"
  <2>1. CASE i = Len(lines) + 1
    BY <1>1, <1>4, <1>5, <2>1
  <2>2. CASE i # Len(lines) + 1
    <3>1. i \in 1..Len(lines) /\ (i # 1 => i - 1 \in 1..Len(lines))
      BY <1>1, <2>2
    <3> QED
      BY <1>1, <3>1 DEF Linked
  <2> QED
    BY <2>1, <2>2
<1> QED
  BY <1>3, <1>6 DEF Linked, new

LEMMA SoundStep == Inv /\ [Next]_vars => Disturbed' \/ Sound'
<1> SUFFICES ASSUME Inv, [Next]_vars, ~Disturbed' PROVE Sound'
  OBVIOUS
<1>0. /\ th \in [Thread -> Work] /\ lock \in [Proc -> Thread \cup {Free}] /\ log \in Seq(Line)
      /\ ProcOf \in [Thread -> Proc] /\ Free \notin Thread
      /\ anchor \in Anchor /\ changed \in Nat /\ Locks
  BY AuditAssumption DEF Inv, TypeOK, Free
<1>d. ~Disturbed
  <2>1. ASSUME NEW t \in Thread, Begin(t) PROVE ~Disturbed
    BY <2>1 DEF Begin, Disturbed
  <2>2. ASSUME NEW t \in Thread, Write(t) PROVE ~Disturbed
    BY <2>2 DEF Write, Disturbed
  <2>6. ASSUME NEW t \in Thread,
               Due(t) \/ Flush(t) \/ Take(t) \/ Truncate(t) \/ Fill(t)
                 \/ ReadLog(t) \/ Vet(t) \/ Compare(t)
        PROVE  ~Disturbed
    BY <2>6 DEF Due, Flush, Take, Truncate, Fill, ReadLog, Vet, Compare, Disturbed
  <2>3. ASSUME NEW p \in Proc, Crash(p) PROVE ~Disturbed
    BY <2>3 DEF Crash, Disturbed
  <2>4. CASE Change
    BY <1>0, <2>4 DEF Change, Disturbed
  <2>5. CASE UNCHANGED vars
    BY <2>5 DEF vars, Disturbed
  <2> QED
    BY <2>1, <2>2, <2>3, <2>4, <2>5, <2>6 DEF Next
<1>a. /\ \A t, u \in InRecord : t = u
      /\ Linked(log) /\ \A i \in 1..Len(log) : log[i].form = "whole"
      /\ \A t \in InRecord : th[t].prev = LastHash(log)
      /\ \A t \in Thread : th[t].view \in Seq(Line) /\ Part(th[t].view, log)
      /\ Seals(anchor, log) /\ anchor.file # "torn"
      /\ anchor.file = "empty" => \E t \in Thread : th[t].pc = "fill"
  BY <1>0, <1>d DEF Inv, Sound, Work
<1>1. ASSUME NEW t \in Thread, Begin(t) PROVE Sound'
  <2> DEFINE w == [Idle EXCEPT !.pc = "write", !.id = made + 1, !.prev = LastHash(log)]
  <2>1. w.pc = "write" /\ w.prev = LastHash(log) /\ w.view = <<>>
    BY DEF Idle
  <2>2. th' = [th EXCEPT ![t] = w] /\ UNCHANGED <<log, anchor>> /\ th[t].pc = "idle"
    BY <1>1 DEF Begin
  <2>3. InRecord = {}
    <3>1. ASSUME NEW u \in InRecord, ProcOf[u] # ProcOf[t] PROVE FALSE
      BY <1>1, <3>1 DEF Begin, Disturbed
    <3>2. ASSUME NEW u \in InRecord, ProcOf[u] = ProcOf[t] PROVE FALSE
      BY <1>0, <1>1, <3>2 DEF Begin, InRecord, Locks
    <3> QED
      BY <3>1, <3>2
  <2> HIDE DEF w
  <2>4. Part(w.view, log)
    BY <1>0, <2>1, NothingRead
  <2>5. anchor.file = "empty" => \E u \in Thread : th'[u].pc = "fill"
    BY <1>0, <1>a, <2>2
  <2>6. InRecord' = {t}
    BY <1>0, <2>1, <2>2, <2>3 DEF InRecord
  <2>7. \A u \in Thread : Part(th'[u].view, log)
    BY <1>0, <1>a, <2>2, <2>4
  <2>8. th'[t].prev = LastHash(log)
    BY <1>0, <2>1, <2>2
  <2> QED
    BY <1>a, <2>2, <2>5, <2>6, <2>7, <2>8 DEF Sound
<1>2. ASSUME NEW t \in Thread, Write(t) PROVE Sound'
  <2> DEFINE r == [id |-> th[t].id, prev |-> th[t].prev, form |-> "whole"]
  <2>1. t \in InRecord /\ r \in Line /\ r.form = "whole" /\ r.prev = LastHash(log)
    BY <1>0, <1>2, <1>a DEF Write, InRecord, Work, Line
  <2>2. /\ log' = Extended(log, r) /\ UNCHANGED anchor
        /\ \A u \in Thread \ {t} : th'[u] = th[u]
        /\ th'[t].pc \in {"idle", "due"} /\ th'[t].view = <<>>
    <3>1. TypeOK
      BY DEF Inv
    <3> QED
      BY <1>2, <3>1, AfterWrite DEF Write, Written
  <2> HIDE DEF r
  <2>3. log' = Append(log, r) /\ Linked(log') /\ \A i \in 1..Len(log') : log'[i].form = "whole"
    <3>1. /\ Linked(Append(log, r)) /\ Extended(log, r) = Append(log, r)
          /\ \A i \in 1..Len(Append(log, r)) : Append(log, r)[i].form = "whole"
      BY <1>0, <1>a, <2>1, LinkedGrows
    <3> QED
      BY <2>2, <3>1
  <2>4. Seals(anchor, log')
    BY <1>0, <1>a, <2>1, <2>3, SealsGrow
  <2>5. \A u \in Thread : th'[u].pc # "write"
    BY <1>a, <2>1, <2>2 DEF InRecord
  <2>6. \A u \in Thread : Part(th'[u].view, log')
    <3>1. <<>> \in Seq(Line) /\ Part(<<>>, log)
      BY <1>0, EmptySeq, NothingRead
    <3>2. \A v \in Seq(Line) : Part(v, log) => Part(v, log')
      BY <1>0, <2>1, <2>3, PartGrows
    <3> QED
      BY <1>a, <2>2, <3>1, <3>2
  <2>7. anchor.file = "empty" => \E u \in Thread : th'[u].pc = "fill"
    BY <1>a, <2>1, <2>2 DEF InRecord
  <2>8. InRecord' = {}
    BY <2>5 DEF InRecord
  <2>9. Seals(anchor', log') /\ anchor'.file = anchor.file
    BY <2>2, <2>4
  <2> QED
    BY <1>a, <2>3, <2>6, <2>7, <2>8, <2>9 DEF Sound, Linked
<1>3. ASSUME NEW t \in Thread,
             Due(t) \/ Flush(t) \/ Take(t) \/ Truncate(t) \/ Fill(t)
               \/ ReadLog(t) \/ Vet(t) \/ Compare(t)
      PROVE  Sound'
  <2>0. TypeOK
    BY DEF Inv
  <2>1. PICK w \in Work : /\ w.pc # "write" /\ w.view \in {<<>>, log, th[t].view}
                          /\ th' = [th EXCEPT ![t] = w]
    BY <1>3, <2>0, Elsewhere
  <2>2. th[t].pc # "write" /\ UNCHANGED log
    BY <1>3, <2>0, Elsewhere
  <2>3. InRecord' = InRecord /\ \A u \in InRecord : th'[u] = th[u]
    BY <1>0, <2>1, <2>2 DEF InRecord
  <2>4. \A u \in Thread : Part(th'[u].view, log)
    BY <1>0, <1>a, <2>1, NothingRead
  <2>5. /\ Seals(anchor', log) /\ anchor'.file # "torn"
        /\ anchor'.file = "empty" => \E u \in Thread : th'[u].pc = "fill"
    <3>1. CASE Fill(t)
      <4>1. anchor' = SealOf(th[t].view)
        BY <3>1 DEF Fill, Disturbed
      <4>2. Seals(SealOf(th[t].view), log)
        BY <1>0, <1>a, PartSeals
      <4> QED
        BY <4>1, <4>2 DEF SealOf
    <3>2. CASE Truncate(t)
      <4>1. th'[t].pc = "fill"
        BY <1>0, <3>2, WorkTyped DEF Truncate
      <4>2. anchor' = [NoSeal EXCEPT !.file = "empty"]
        BY <3>2 DEF Truncate
      <4>3. anchor'.seq = 0 /\ anchor'.hash = 0 /\ anchor'.file = "empty"
        BY <4>2 DEF NoSeal
      <4>4. Seals(anchor', log)
        BY <4>3 DEF Seals
      <4> QED
        BY <4>1, <4>3, <4>4
    <3>3. CASE ~Fill(t) /\ ~Truncate(t)
      <4>1. anchor' = anchor /\ th[t].pc # "fill"
        BY <1>3, <3>3 DEF Due, Flush, Take, ReadLog, Vet, Compare
      <4>2. \A u \in Thread : th[u].pc = "fill" => th'[u].pc = "fill"
        BY <1>0, <2>1, <4>1
      <4> QED
        BY <1>a, <4>1, <4>2
    <3> QED
      BY <3>1, <3>2, <3>3
  <2> QED
    BY <1>a, <2>2, <2>3, <2>4, <2>5 DEF Sound, Linked, Seals
<1>6. ASSUME NEW p \in Proc, Crash(p) PROVE Sound'
  <2>1. UNCHANGED <<log, anchor>> /\ {t \in {u \in Thread : ProcOf[u] = p} : th[t].pc = "fill"} = {}
    BY <1>6 DEF Crash, Disturbed
  <2>2. th' = [t \in Thread |-> IF ProcOf[t] = p THEN Idle ELSE th[t]]
    BY <1>6 DEF Crash
  <2>3. \A u \in Thread : th[u].pc = "fill" => th'[u].pc = "fill"
    BY <2>1, <2>2
  <2>4. \A u \in Thread : Part(th'[u].view, log)
    <3>1. Idle.view = <<>> /\ Part(<<>>, log)
      BY <1>0, WorkTyped, NothingRead
    <3> QED
      BY <1>a, <2>2, <3>1
  <2>5. InRecord' \subseteq InRecord /\ \A u \in InRecord' : th'[u] = th[u]
    BY <2>2, WorkTyped DEF InRecord
  <2> QED
    BY <1>a, <2>1, <2>3, <2>4, <2>5 DEF Sound, Linked
<1>7. CASE Change
  BY <1>0, <1>7 DEF Change, Disturbed
<1>8. CASE UNCHANGED vars
  BY <1>a, <1>8 DEF vars, Sound, InRecord
<1> QED
  BY <1>1, <1>2, <1>3, <1>6, <1>7, <1>8 DEF Next

LEMMA SoundVerifies ==
  ASSUME TypeOK, Sound, NEW t \in Thread, Raises(t), ~\E u \in Thread : th[u].pc = "fill"
  PROVE  anchor.seq > Len(th[t].view)
<1>0. /\ th[t].view \in Seq(Line) /\ Len(th[t].view) \in Nat /\ Len(log) \in Nat
      /\ anchor.seq \in Nat /\ anchor.file \in {"none", "empty", "whole", "torn"}
  BY LenProperties DEF TypeOK, Work, Anchor
<1>1. Readable
  BY <1>0 DEF Sound, Readable
<1>2. Chained(th[t].view)
  <2>1. ASSUME NEW i \in 1..Len(th[t].view)
        PROVE  /\ th[t].view[i] = log[i] /\ i \in 1..Len(log)
               /\ i # 1 => th[t].view[i - 1] = log[i - 1]
    <3>1. i # 1 => i - 1 \in 1..Len(th[t].view)
      BY <1>0
    <3>2. /\ Len(th[t].view) <= Len(log)
          /\ \A j \in 1..Len(th[t].view) : th[t].view[j] = log[j]
      BY DEF Sound, Part
    <3> QED
      BY <1>0, <3>1, <3>2
  <2> QED
    BY <2>1 DEF Sound, Chained, Linked
<1>3. th[t].pc = "compare" /\ anchor.file = "whole" /\ ~Seals(anchor, th[t].view)
  BY <1>1, <1>2 DEF Raises
<1>4. anchor.seq \in 1..Len(log) /\ log[anchor.seq].id = anchor.hash
  BY <1>3 DEF Sound, Seals
<1>5. SUFFICES ASSUME anchor.seq \in 1..Len(th[t].view) PROVE FALSE
  BY <1>0, <1>4
<1>6. th[t].view[anchor.seq] = log[anchor.seq]
  BY <1>5 DEF Sound, Part
<1> QED
  BY <1>3, <1>4, <1>5, <1>6 DEF Seals

\* For every interval and any number of threads and records: what makes the
\* verification of an undisturbed log raise is a checkpoint file that somebody is
\* writing, or a checkpoint newer than the log that was read; the checkpoints may
\* be written in any order, since each of them fits the log of its time and the
\* log only grows.
THEOREM CleanVerifies == Spec => []CleanLogVerifies
<1>1. Init => Inv
  BY TypedInit, SoundInit DEF Inv
<1>2. Inv /\ [Next]_vars => Inv'
  BY TypedStep, SoundStep DEF Inv
<1>3. Inv => CleanLogVerifies
  BY SoundVerifies DEF Inv, Disturbed, CleanLogVerifies
<1> QED
  BY <1>1, <1>2, <1>3, PTL DEF Spec

(***************************************************************************)
(* The sealed prefix.  The hash of a record covers the hash of the record  *)
(* before it, and no record is written twice: so where a linked log shows  *)
(* the record a checkpoint ends with, it shows all the records before it.  *)
(* This holds of the log as far as it is linked, whatever was cut off, put *)
(* back or edited, and of every copy a seal was taken of.                  *)
(***************************************************************************)

\* Records written so far, and lines edited with a new hash.
Known == (1..made) \cup (Records + 1..Records + changed)

LinkedTo(lines, k) == \A i \in 1..k : lines[i].prev = (IF i = 1 THEN 0 ELSE lines[i - 1].id)

\* Two texts of the log that show one record, each linked up to there, are the
\* same up to there.
Agrees(s, lines) ==
  \A k \in 1..Len(lines), n \in 1..Len(s) :
    LinkedTo(lines, k) /\ LinkedTo(s, n) /\ lines[k].id = s[n].id
      => k = n /\ \A i \in 1..k : lines[i].id = s[i].id

\* The log, the one the checkpoint was taken of, and what the threads have read.
Texts == {log, sealed, <<>>} \cup {th[t].view : t \in Thread}

InHand == {th[t].id : t \in InRecord}
Shown(s, known, hand) == \A i \in 1..Len(s) : /\ s[i].id \in known /\ s[i].id \notin hand
                                              /\ s[i].prev \in known \cup {0}

Kept ==
  /\ made <= Records
  /\ \A s \in Texts : Shown(s, Known, InHand) /\ \A l \in Texts : Agrees(s, l)
  /\ \A i, j \in 1..Len(log) : log[i].id = log[j].id => i = j
  /\ \A t \in InRecord : /\ th[t].id \in 1..made /\ th[t].prev \in Known \cup {0}
                         /\ \A u \in InRecord : th[u].id = th[t].id => u = t
  /\ \A t \in Thread : th[t].pc \in {"seal", "fill", "compare"} => Chained(th[t].view)
  /\ anchor.file = "whole" => anchor = SealOf(sealed) /\ Chained(sealed)

LEMMA TextTyped == TypeOK => \A s \in Texts : s \in Seq(Line) /\ Len(s) \in Nat
<1> SUFFICES ASSUME TypeOK, NEW s \in Texts PROVE s \in Seq(Line) /\ Len(s) \in Nat
  OBVIOUS
<1>1. s \in Seq(Line)
  <2>1. \A t \in Thread : th[t].view \in Seq(Line)
    BY DEF TypeOK, Work
  <2>2. <<>> \in Seq(Line)
    BY EmptySeq
  <2> QED
    BY <2>1, <2>2 DEF Texts, TypeOK
<1> QED
  BY <1>1, LenProperties

LEMMA AgreesSwap == ASSUME NEW s, NEW lines, Agrees(s, lines) PROVE Agrees(lines, s)
<1> SUFFICES ASSUME NEW k \in 1..Len(s), NEW n \in 1..Len(lines),
                    LinkedTo(s, k), LinkedTo(lines, n), s[k].id = lines[n].id
             PROVE  k = n /\ \A i \in 1..k : s[i].id = lines[i].id
  BY DEF Agrees
<1>1. n = k /\ \A i \in 1..n : lines[i].id = s[i].id
  BY DEF Agrees
<1> QED
  BY <1>1

\* A log without two lines of one record agrees with itself.
LEMMA AgreesSelf ==
  ASSUME NEW lines \in Seq(Line), \A i, j \in 1..Len(lines) : lines[i].id = lines[j].id => i = j
  PROVE  Agrees(lines, lines)
BY DEF Agrees

LEMMA AgreesSame ==
  ASSUME NEW s, NEW lines \in Seq(Line), NEW new \in Seq(Line), Agrees(s, lines),
         Len(new) = Len(lines),
         \A i \in 1..Len(lines) : new[i].id = lines[i].id /\ new[i].prev = lines[i].prev
  PROVE  Agrees(s, new)
<1>1. Len(lines) \in Nat
  BY LenProperties
<1> SUFFICES ASSUME NEW k \in 1..Len(new), NEW n \in 1..Len(s), LinkedTo(new, k), LinkedTo(s, n),
                    new[k].id = s[n].id
             PROVE  k = n /\ \A i \in 1..k : new[i].id = s[i].id
  BY DEF Agrees
<1>2. \A i \in 1..k : i \in 1..Len(lines) /\ (i # 1 => i - 1 \in 1..Len(lines))
  BY <1>1
<1>3. LinkedTo(lines, k)
  BY <1>2 DEF LinkedTo
<1> QED
  BY <1>2, <1>3 DEF Agrees

LEMMA AgreesAppend ==
  ASSUME NEW s, NEW lines \in Seq(Line), NEW r \in Line, Agrees(s, lines),
         \A n \in 1..Len(s) : s[n].id # r.id
  PROVE  Agrees(s, Append(lines, r))
<1> DEFINE new == Append(lines, r)
<1>1. /\ Len(new) = Len(lines) + 1 /\ new[Len(lines) + 1] = r
      /\ \A i \in 1..Len(lines) : new[i] = lines[i]
      /\ Len(lines) \in Nat
  BY AppendProperties, LenProperties
<1> HIDE DEF new
<1> SUFFICES ASSUME NEW k \in 1..Len(new), NEW n \in 1..Len(s), LinkedTo(new, k), LinkedTo(s, n),
                    new[k].id = s[n].id
             PROVE  k = n /\ \A i \in 1..k : new[i].id = s[i].id
  BY DEF Agrees, new
<1>2. k \in 1..Len(lines)
  BY <1>1
<1>3. \A i \in 1..k : i \in 1..Len(lines) /\ (i # 1 => i - 1 \in 1..Len(lines))
  BY <1>1, <1>2
<1>4. LinkedTo(lines, k)
  BY <1>1, <1>3 DEF LinkedTo
<1> QED
  BY <1>1, <1>2, <1>3, <1>4 DEF Agrees

LEMMA AgreesCut ==
  ASSUME NEW s, NEW lines \in Seq(Line), NEW m \in 0..(Len(lines) - 1), Agrees(s, lines)
  PROVE  Agrees(s, SubSeq(lines, 1, m))
<1> DEFINE new == SubSeq(lines, 1, m)
<1>1. /\ Len(lines) \in Nat /\ Len(new) = m
      /\ \A i \in 1..m : new[i] = lines[i]
  BY LenProperties, SubSeqProperties
<1> HIDE DEF new
<1> SUFFICES ASSUME NEW k \in 1..Len(new), NEW n \in 1..Len(s), LinkedTo(new, k), LinkedTo(s, n),
                    new[k].id = s[n].id
             PROVE  k = n /\ \A i \in 1..k : new[i].id = s[i].id
  BY DEF Agrees, new
<1>3. \A i \in 1..k : i \in 1..m /\ i \in 1..Len(lines) /\ (i # 1 => i - 1 \in 1..m)
  BY <1>1
<1>4. LinkedTo(lines, k)
  BY <1>1, <1>3 DEF LinkedTo
<1> QED
  BY <1>1, <1>3, <1>4 DEF Agrees

\* The line after an edited one no longer links to it.
LEMMA AgreesEdit ==
  ASSUME NEW s, NEW lines \in Seq(Line), NEW new \in Seq(Line), NEW j \in 1..Len(lines),
         Agrees(s, lines), Len(new) = Len(lines),
         \A i \in 1..Len(lines) : new[i].prev = lines[i].prev /\ (i # j => new[i].id = lines[i].id),
         \A n \in 1..Len(s) : s[n].id # new[j].id,
         \A i \in 1..Len(lines) : lines[i].prev # new[j].id
  PROVE  Agrees(s, new)
<1>1. Len(lines) \in Nat
  BY LenProperties
<1> SUFFICES ASSUME NEW k \in 1..Len(new), NEW n \in 1..Len(s), LinkedTo(new, k), LinkedTo(s, n),
                    new[k].id = s[n].id
             PROVE  k = n /\ \A i \in 1..k : new[i].id = s[i].id
  BY DEF Agrees
<1>2. \A i \in 1..k : i \in 1..Len(lines) /\ (i # 1 => i - 1 \in 1..Len(lines))
  BY <1>1
<1>3. k # j
  OBVIOUS
<1>4. ~(j < k)
  <2>1. SUFFICES ASSUME j < k PROVE FALSE
    OBVIOUS
  <2>2. j + 1 \in 1..k /\ j + 1 # 1 /\ (j + 1) - 1 = j
    BY <1>1, <2>1
  <2>3. new[j + 1].prev = new[j].id
    BY <2>2 DEF LinkedTo
  <2> QED
    BY <1>2, <2>2, <2>3
<1>5. \A i \in 1..k : i # j
  BY <1>1, <1>3, <1>4
<1>6. LinkedTo(lines, k)
  <2> SUFFICES ASSUME NEW i \in 1..k PROVE lines[i].prev = (IF i = 1 THEN 0 ELSE lines[i - 1].id)
    BY DEF LinkedTo
  <2>1. i # 1 => i - 1 \in 1..k
    BY <1>1
  <2> QED
    BY <1>2, <1>5, <2>1 DEF LinkedTo
<1> QED
  BY <1>2, <1>5, <1>6 DEF Agrees

LEMMA KeptInit == Init => Kept
<1> SUFFICES ASSUME Init PROVE Kept
  OBVIOUS
<1>1. /\ \A t \in Thread : th[t].pc = "idle" /\ th[t].view = <<>>
      /\ log = <<>> /\ sealed = <<>> /\ Len(<<>>) = 0
      /\ made = 0 /\ anchor.file = "none" /\ Records \in Nat
  BY WorkTyped, EmptySeq, AuditAssumption DEF Init, NoSeal
<1>2. 1..0 = {}
  OBVIOUS
<1>3. \A s \in Texts : s = <<>>
  BY <1>1 DEF Texts
<1>4. \A s \in Texts : Shown(s, Known, InHand) /\ \A l \in Texts : Agrees(s, l)
  BY <1>1, <1>2, <1>3 DEF Shown, InHand, Agrees
<1> QED
  BY <1>1, <1>2, <1>4 DEF Kept, InRecord

\* A step that adds no text, or a new state of the log that agrees with the others.
LEMMA TextsStep ==
  ASSUME TypeOK, Kept, Known \subseteq Known', log' \in Seq(Line),
         Texts' \subseteq Texts \cup {log'},
         \A s \in Texts : \A u \in InRecord', i \in 1..Len(s) : s[i].id # th'[u].id,
         Shown(log', Known', InHand'), \A s \in Texts : Agrees(s, log'), Agrees(log', log')
  PROVE  \A s \in Texts' : Shown(s, Known', InHand') /\ \A l \in Texts' : Agrees(s, l)
<1> TAKE s \in Texts'
<1>1. Shown(s, Known', InHand')
  <2>1. CASE s \in Texts
    <3>1. Shown(s, Known, InHand)
      BY <2>1 DEF Kept
    <3> QED
      BY <2>1, <3>1 DEF Shown, InHand
  <2>2. CASE s = log'
    BY <2>2 DEF Shown, InHand
  <2> QED
    BY <2>1, <2>2
<1>2. ASSUME NEW l \in Texts' PROVE Agrees(s, l)
  <2>1. CASE s \in Texts /\ l \in Texts
    BY <2>1 DEF Kept
  <2>2. CASE s = log' \/ l = log'
    BY <2>2, AgreesSwap
  <2> QED
    BY <2>1, <2>2
<1> QED
  BY <1>1, <1>2

\* The log itself, while it stays as it is.
LEMMA SameLog ==
  ASSUME TypeOK, Kept, log' = log, Known \subseteq Known',
         \A s \in Texts : \A u \in InRecord', i \in 1..Len(s) : s[i].id # th'[u].id
  PROVE  /\ log' \in Seq(Line) /\ Shown(log', Known', InHand')
         /\ \A s \in Texts : Agrees(s, log')
         /\ Agrees(log', log')
<1>1. log \in Texts /\ log \in Seq(Line)
  BY DEF Texts, TypeOK
<1>2. Shown(log, Known, InHand) /\ \A s \in Texts : Agrees(s, log)
  BY <1>1 DEF Kept
<1>3. Shown(log', Known', InHand')
  BY <1>1, <1>2 DEF Shown, InHand
<1> QED
  BY <1>1, <1>2, <1>3

\* The lines of a record that is written, whole or in part.
LEMMA WrittenIs ==
  ASSUME NEW lines \in Seq(Line), NEW r \in Line, NEW new, new = Extended(lines, r)
  PROVE  \/ new = Append(lines, r)
         \/ /\ new \in Seq(Line) /\ Len(new) = Len(lines)
            /\ \A i \in 1..Len(lines) : new[i].id = lines[i].id /\ new[i].prev = lines[i].prev
<1>1. CASE lines # <<>> /\ lines[Len(lines)].form \in {"open", "cut"}
  <2>1. new = [lines EXCEPT ![Len(lines)].form = "bad"]
    BY <1>1 DEF Extended
  <2>2. Len(lines) \in 1..Len(lines)
    BY <1>1, EmptySeq
  <2>3. new \in Seq(Line)
    BY <2>1, <2>2, LineChanged
  <2>4. \A i \in 1..Len(lines) : lines[i] \in Line
    BY ElementOfSeq
  <2>5. DOMAIN new = DOMAIN lines
    BY <2>1
  <2>6. lines \in [1..Len(lines) -> Line]
    BY LenProperties
  <2>7. Len(new) = Len(lines)
    BY <2>3, <2>5, LenProperties
  <2>8. \A i \in 1..Len(lines) : new[i].id = lines[i].id /\ new[i].prev = lines[i].prev
    BY <2>1, <2>4, <2>6 DEF Line
  <2> QED
    BY <2>3, <2>7, <2>8
<1>2. CASE ~(lines # <<>> /\ lines[Len(lines)].form \in {"open", "cut"})
  BY <1>2 DEF Extended
<1> QED
  BY <1>1, <1>2

\* What a step has to show of the readings and of the checkpoint.
Checked == /\ \A t \in Thread : th[t].pc \in {"seal", "fill", "compare"} => Chained(th[t].view)
           /\ anchor.file = "whole" => anchor = SealOf(sealed) /\ Chained(sealed)

\* A step that leaves the log as it is and begins no record.
LEMMA KeptReading ==
  ASSUME TypeOK, Kept, UNCHANGED <<log, made, changed>>, Texts' \subseteq Texts,
         InRecord' \subseteq InRecord, \A u \in InRecord' : th'[u] = th[u], Checked'
  PROVE  Kept'
<1>1. Known' = Known
  BY DEF Known
<1>2. \A s \in Texts : \A u \in InRecord', i \in 1..Len(s) : s[i].id # th'[u].id
  BY DEF Kept, Shown, InHand
<1>3. /\ log' \in Seq(Line) /\ Shown(log', Known', InHand')
      /\ \A s \in Texts : Agrees(s, log')
      /\ Agrees(log', log')
  BY <1>1, <1>2, SameLog
<1>4. \A s \in Texts' : Shown(s, Known', InHand') /\ \A l \in Texts' : Agrees(s, l)
  BY <1>1, <1>2, <1>3, TextsStep
<1>5. \A u \in InRecord' : /\ th'[u].id \in 1..made' /\ th'[u].prev \in Known' \cup {0}
                           /\ \A v \in InRecord' : th'[v].id = th'[u].id => v = u
  BY <1>1 DEF Kept
<1> QED
  BY <1>4, <1>5 DEF Kept, Checked

\* A step that writes a record, or the first part of one.
LEMMA KeptWriting ==
  ASSUME TypeOK, Kept, NEW t \in InRecord, NEW form \in {"whole", "cut", "open"},
         log' = Written(t, form), UNCHANGED <<made, changed>>, Texts' \subseteq Texts \cup {log'},
         InRecord' \subseteq InRecord \ {t}, \A u \in InRecord' : th'[u] = th[u], Checked'
  PROVE  Kept'
<1> DEFINE r == [id |-> th[t].id, prev |-> th[t].prev, form |-> form]
<1>0. /\ log \in Seq(Line) /\ Len(log) \in Nat /\ log \in Texts
      /\ r \in Line /\ r.id = th[t].id /\ r.prev = th[t].prev /\ log' = Extended(log, r)
  <2>1. th[t] \in Work
    BY DEF TypeOK, InRecord
  <2> QED
    BY <2>1, LenProperties DEF TypeOK, Texts, Written, Work, Line
<1>1. Known' = Known /\ 1..made \subseteq Known
  BY DEF Known
<1>2. \A s \in Texts : /\ s \in Seq(Line) /\ Shown(s, Known, InHand) /\ Agrees(s, log)
                       /\ \A i \in 1..Len(s) : s[i].id # r.id
  BY <1>0, TextTyped DEF Kept, Shown, InHand
<1>3. \A i, j \in 1..Len(log) : log[i].id = log[j].id => i = j
  BY DEF Kept
<1>4. r.id \in Known /\ r.prev \in Known \cup {0} /\ \A u \in InRecord' : r.id # th'[u].id
  BY <1>0, <1>1 DEF Kept
<1> HIDE DEF r
<1>5. /\ log' \in Seq(Line) /\ Shown(log', Known', InHand')
      /\ \A s \in Texts : Agrees(s, log')
      /\ \A i, j \in 1..Len(log') : log'[i].id = log'[j].id => i = j
  <2>1. CASE log' = Append(log, r)
    <3>1. /\ log' \in Seq(Line) /\ Len(log') = Len(log) + 1 /\ log'[Len(log) + 1] = r
          /\ \A i \in 1..Len(log) : log'[i] = log[i]
      BY <1>0, <2>1, AppendProperties
    <3>2. \A i \in 1..Len(log') : i = Len(log) + 1 \/ i \in 1..Len(log)
      BY <1>0, <3>1
    <3>3. \A s \in Texts : Agrees(s, log')
      BY <1>0, <1>2, <2>1, AgreesAppend
    <3>4. Shown(log', Known', InHand')
      <4>1. Shown(log, Known, InHand)
        BY <1>0, <1>2
      <4>2. ASSUME NEW i \in 1..Len(log')
            PROVE  /\ log'[i].id \in Known /\ log'[i].prev \in Known \cup {0}
                   /\ \A u \in InRecord' : log'[i].id # th'[u].id
        <5>1. CASE i = Len(log) + 1
          BY <1>4, <3>1, <5>1
        <5>2. CASE i \in 1..Len(log)
          BY <3>1, <4>1, <5>2 DEF Shown, InHand
        <5> QED
          BY <3>2, <5>1, <5>2
      <4> QED
        BY <1>1, <4>2 DEF Shown, InHand
    <3>5. \A i, j \in 1..Len(log') : log'[i].id = log'[j].id => i = j
      <4>1. \A i \in 1..Len(log) : log'[i].id # r.id
        BY <1>0, <1>2, <3>1
      <4> QED
        BY <1>3, <3>1, <3>2, <4>1
    <3> QED
      BY <3>1, <3>3, <3>4, <3>5
  <2>2. CASE /\ log' \in Seq(Line) /\ Len(log') = Len(log)
             /\ \A i \in 1..Len(log) : log'[i].id = log[i].id /\ log'[i].prev = log[i].prev
    <3>1. \A s \in Texts : Agrees(s, log')
      BY <1>0, <1>2, <2>2, AgreesSame
    <3>2. Shown(log', Known', InHand')
      <4>1. Shown(log, Known, InHand)
        BY <1>0, <1>2
      <4> QED
        BY <1>1, <2>2, <4>1 DEF Shown, InHand
    <3> QED
      BY <1>3, <2>2, <3>1, <3>2
  <2>3. \/ log' = Append(log, r)
        \/ /\ log' \in Seq(Line) /\ Len(log') = Len(log)
           /\ \A i \in 1..Len(log) : log'[i].id = log[i].id /\ log'[i].prev = log[i].prev
    BY <1>0, WrittenIs
  <2> QED
    BY <2>1, <2>2, <2>3
<1>6. Agrees(log', log')
  BY <1>5, AgreesSelf
<1>7. \A s \in Texts : \A u \in InRecord', i \in 1..Len(s) : s[i].id # th'[u].id
  BY DEF Kept, Shown, InHand
<1>8. \A s \in Texts' : Shown(s, Known', InHand') /\ \A l \in Texts' : Agrees(s, l)
  BY <1>1, <1>5, <1>6, <1>7, TextsStep
<1>9. \A u \in InRecord' : /\ th'[u].id \in 1..made' /\ th'[u].prev \in Known' \cup {0}
                           /\ \A v \in InRecord' : th'[v].id = th'[u].id => v = u
  BY <1>1 DEF Kept
<1> QED
  BY <1>5, <1>8, <1>9 DEF Kept, Checked

\* A change from outside.
LEMMA KeptChanging ==
  ASSUME TypeOK, Kept, UNCHANGED <<th, made, sealed, anchor>>, changed' = changed + 1,
         log' \in Seq(Line), Shown(log', Known', InHand'), \A s \in Texts : Agrees(s, log'),
         \A i, j \in 1..Len(log') : log'[i].id = log'[j].id => i = j
  PROVE  Kept'
<1>1. Known \subseteq Known'
  BY AuditAssumption DEF Known, TypeOK
<1>2. InRecord' = InRecord /\ Texts' \subseteq Texts \cup {log'}
  BY DEF InRecord, Texts
<1>3. \A s \in Texts : \A u \in InRecord', i \in 1..Len(s) : s[i].id # th'[u].id
  BY <1>2 DEF Kept, Shown, InHand
<1>4. Agrees(log', log')
  BY AgreesSelf
<1>5. \A s \in Texts' : Shown(s, Known', InHand') /\ \A l \in Texts' : Agrees(s, l)
  BY <1>1, <1>2, <1>3, <1>4, TextsStep
<1> QED
  BY <1>1, <1>2, <1>5 DEF Kept

LEMMA KeptStep == TypeOK /\ Kept /\ [Next]_vars => Kept'
<1> SUFFICES ASSUME TypeOK, Kept, [Next]_vars PROVE Kept'
  OBVIOUS
<1>0. /\ th \in [Thread -> Work] /\ log \in Seq(Line) /\ Len(log) \in Nat
      /\ made \in Nat /\ changed \in Nat /\ Records \in Nat
      /\ made <= Records /\ Checked
  BY AuditAssumption, LenProperties DEF TypeOK, Kept, Checked
<1>c. Shown(log, Known, InHand) /\ log \in Texts /\ \A s \in Texts : Shown(s, Known, InHand) /\ Agrees(s, log)
  BY DEF Kept, Texts
<1>1. ASSUME NEW t \in Thread, Begin(t) PROVE Kept'
  <2> DEFINE w == [Idle EXCEPT !.pc = "write", !.id = made + 1, !.prev = LastHash(log)]
  <2>1. w.pc = "write" /\ w.id = made + 1 /\ w.prev = LastHash(log) /\ w.view = <<>>
    BY DEF Idle
  <2>2. /\ th' = [th EXCEPT ![t] = w] /\ UNCHANGED <<log, anchor, changed, sealed>>
        /\ made' = made + 1 /\ made < Records
    BY <1>1 DEF Begin
  <2> HIDE DEF w
  <2>3. made + 1 \notin Known /\ Known \subseteq Known' /\ made + 1 \in 1..made' /\ 1..made \subseteq 1..made'
    BY <1>0, <2>2 DEF Known
  <2>4. /\ th'[t] = w /\ \A u \in Thread \ {t} : th'[u] = th[u]
        /\ \A u \in InRecord' : u = t \/ (u \in InRecord /\ th'[u] = th[u])
    BY <1>0, <2>2 DEF InRecord
  <2>5. LastHash(log) \in Known \cup {0}
    <3>1. log # <<>> => Len(log) \in 1..Len(log)
      BY <1>0, EmptySeq
    <3> QED
      BY <1>c, <3>1 DEF LastHash, Shown, InHand
  <2>6. \A s \in Texts : \A u \in InRecord', i \in 1..Len(s) : s[i].id # th'[u].id
    BY <1>c, <2>1, <2>3, <2>4 DEF Shown, InHand
  <2>7. \A u \in InRecord' : /\ th'[u].id \in 1..made' /\ th'[u].prev \in Known' \cup {0}
                             /\ \A v \in InRecord' : th'[v].id = th'[u].id => v = u
    <3>1. made + 1 \notin 1..made
      BY <1>0
    <3>2. \A u \in InRecord : th[u].id \in 1..made /\ th[u].prev \in Known \cup {0}
      BY DEF Kept
    <3>3. \A u, v \in InRecord : th[v].id = th[u].id => v = u
      BY DEF Kept
    <3> QED
      BY <2>1, <2>3, <2>4, <2>5, <3>1, <3>2, <3>3
  <2>8. Texts' \subseteq Texts
    BY <2>1, <2>2, <2>4 DEF Texts
  <2>9. \A s \in Texts' : Shown(s, Known', InHand') /\ \A l \in Texts' : Agrees(s, l)
    <3>1. /\ log' \in Seq(Line) /\ Shown(log', Known', InHand')
          /\ \A s \in Texts : Agrees(s, log')
          /\ Agrees(log', log')
      BY <2>2, <2>3, <2>6, SameLog
    <3> QED
      BY <2>3, <2>6, <2>8, <3>1, TextsStep
  <2>10. Checked'
    BY <1>0, <2>1, <2>2, <2>4 DEF Checked, Chained, Linked, SealOf, LastHash
  <2>11. made' <= Records
    BY <1>0, <2>2
  <2> QED
    BY <2>2, <2>7, <2>9, <2>10, <2>11 DEF Kept, Checked
<1>2. ASSUME NEW t \in Thread, Write(t) PROVE Kept'
  <2>1. t \in InRecord /\ log' = Written(t, "whole") /\ UNCHANGED <<made, changed, sealed, anchor>>
    BY <1>2 DEF Write, InRecord
  <2>2. /\ \A u \in Thread \ {t} : th'[u] = th[u]
        /\ th'[t].pc \in {"idle", "due"} /\ th'[t].view = <<>>
    BY <1>2, AfterWrite
  <2>3. Texts' \subseteq Texts \cup {log'}
    BY <2>1, <2>2 DEF Texts
  <2>4. InRecord' \subseteq InRecord \ {t} /\ \A u \in InRecord' : th'[u] = th[u]
    BY <2>2 DEF InRecord
  <2>5. Checked'
    BY <1>0, <2>1, <2>2 DEF Checked, Chained, Linked, SealOf, LastHash
  <2> QED
    BY <2>1, <2>3, <2>4, <2>5, KeptWriting
<1>3. ASSUME NEW t \in Thread,
             Due(t) \/ Flush(t) \/ Take(t) \/ Truncate(t) \/ Fill(t)
               \/ ReadLog(t) \/ Vet(t) \/ Compare(t)
      PROVE  Kept'
  <2>1. PICK w \in Work : /\ w.pc # "write" /\ w.view \in {<<>>, log, th[t].view}
                          /\ th' = [th EXCEPT ![t] = w]
    BY <1>3, Elsewhere
  <2>2. th[t].pc # "write" /\ UNCHANGED <<log, made, changed>>
    BY <1>3, Elsewhere
  <2>3. InRecord' \subseteq InRecord /\ \A u \in InRecord' : th'[u] = th[u]
    BY <1>0, <2>1, <2>2 DEF InRecord
  <2>4. sealed' \in {sealed, th[t].view}
    BY <1>3 DEF Due, Flush, Take, Truncate, Fill, ReadLog, Vet, Compare
  <2>5. Texts' \subseteq Texts
    BY <1>0, <2>1, <2>2, <2>4 DEF Texts
  <2>6. /\ \A u \in Thread \ {t} : th'[u] = th[u]
        /\ th'[t] = w
    BY <1>0, <2>1
  <2>7. w.pc \in {"seal", "fill", "compare"} => Chained(w.view)
    <3>1. CASE Due(t) \/ Flush(t) \/ Fill(t) \/ ReadLog(t) \/ Compare(t)
      <4>1. th'[t] \in {Idle, [Idle EXCEPT !.pc = "take"], [Idle EXCEPT !.pc = "vet", !.view = log]}
        BY <1>0, <3>1 DEF Due, Flush, Fill, ReadLog, Compare
      <4>2. th'[t].pc \in {"idle", "take", "vet"}
        <5>1. Idle.pc = "idle" /\ [Idle EXCEPT !.pc = "take"].pc = "take"
          BY DEF Idle
        <5>2. [Idle EXCEPT !.pc = "vet", !.view = log].pc = "vet"
          BY DEF Idle
        <5> QED
          BY <4>1, <5>1, <5>2
      <4> QED
        BY <2>6, <4>2
    <3>2. CASE Take(t)
      <4>1. CASE Chained(log) /\ th' = [th EXCEPT ![t] = [Idle EXCEPT !.pc = "seal", !.view = log]]
        BY <1>0, <2>6, <4>1, WorkTyped
      <4>2. CASE th' = [th EXCEPT ![t] = Idle]
        BY <1>0, <2>6, <4>2, WorkTyped
      <4> QED
        BY <3>2, <4>1, <4>2 DEF Take
    <3>3. CASE Truncate(t)
      <4>1. th'[t].view = th[t].view /\ th[t].pc = "seal"
        BY <1>0, <3>3, WorkTyped DEF Truncate
      <4> QED
        BY <1>0, <2>6, <4>1 DEF Checked
    <3>4. CASE Vet(t)
      <4>1. CASE ~Raises(t) /\ th' = [th EXCEPT ![t] = [th[t] EXCEPT !.pc = "compare"]]
        <5>1. th'[t].view = th[t].view
          BY <1>0, <4>1, WorkTyped
        <5>2. Chained(th[t].view)
          BY <3>4, <4>1 DEF Vet, Raises
        <5> QED
          BY <2>6, <5>1, <5>2
      <4>2. CASE th' = [th EXCEPT ![t] = Idle]
        BY <1>0, <2>6, <4>2, WorkTyped
      <4> QED
        BY <1>0, <3>4, <4>1, <4>2 DEF Vet
    <3> QED
      BY <1>3, <3>1, <3>2, <3>3, <3>4
  <2>8. anchor'.file = "whole" => anchor' = SealOf(sealed') /\ Chained(sealed')
    <3>1. CASE Fill(t)
      <4>1. Chained(th[t].view) /\ sealed' = th[t].view
        BY <1>0, <3>1 DEF Fill, Checked
      <4>2. anchor' = SealOf(th[t].view) \/ anchor'.file = "torn"
        BY <3>1, WorkTyped DEF Fill
      <4> QED
        BY <4>1, <4>2
    <3>2. CASE Truncate(t)
      BY <3>2, WorkTyped DEF Truncate
    <3>3. CASE ~Fill(t) /\ ~Truncate(t)
      <4>1. UNCHANGED <<anchor, sealed>>
        BY <1>3, <3>3 DEF Due, Flush, Take, ReadLog, Vet, Compare
      <4> QED
        BY <1>0, <4>1 DEF Checked
    <3> QED
      BY <3>1, <3>2, <3>3
  <2>9. \A u \in Thread : th'[u].pc \in {"seal", "fill", "compare"} => Chained(th'[u].view)
    BY <1>0, <2>6, <2>7 DEF Checked
  <2>10. Checked'
    BY <2>8, <2>9 DEF Checked, Chained, Linked, SealOf, LastHash
  <2> QED
    BY <2>2, <2>3, <2>5, <2>10, KeptReading
<1>6. ASSUME NEW p \in Proc, Crash(p) PROVE Kept'
  <2>1. th' = [t \in Thread |-> IF ProcOf[t] = p THEN Idle ELSE th[t]] /\ UNCHANGED <<made, changed, sealed>>
    BY <1>6 DEF Crash
  <2>2. /\ InRecord' \subseteq {u \in InRecord : ProcOf[u] # p} /\ \A u \in InRecord' : th'[u] = th[u]
        /\ \A u \in Thread : th'[u] = th[u] \/ (th'[u].pc = "idle" /\ th'[u].view = <<>>)
    BY <2>1, WorkTyped DEF InRecord
  <2>3. Texts' \subseteq Texts \cup {log'}
    BY <2>1, <2>2 DEF Texts
  <2>4. anchor' = anchor \/ anchor'.file = "torn"
    BY <1>6, WorkTyped DEF Crash
  <2>5. /\ \A u \in Thread : th'[u].pc \in {"seal", "fill", "compare"} => Chained(th'[u].view)
        /\ anchor'.file = "whole" => anchor' = SealOf(sealed') /\ Chained(sealed')
    BY <1>0, <2>1, <2>2, <2>4 DEF Checked
  <2>6. Checked'
    BY <2>5 DEF Checked, Chained, Linked, SealOf, LastHash
  <2>7. CASE log' = log
    <3>1. Texts' \subseteq Texts
      BY <1>c, <2>3, <2>7
    <3> QED
      BY <2>1, <2>2, <2>6, <2>7, <3>1, KeptReading
  <2>8. CASE \E t \in InRecord, form \in {"cut", "open"} : ProcOf[t] = p /\ log' = Written(t, form)
    <3>1. PICK t \in InRecord, form \in {"cut", "open"} : ProcOf[t] = p /\ log' = Written(t, form)
      BY <2>8
    <3>2. InRecord' \subseteq InRecord \ {t}
      BY <2>2, <3>1
    <3> QED
      BY <2>1, <2>2, <2>3, <2>6, <3>1, <3>2, KeptWriting
  <2> QED
    BY <1>6, <2>7, <2>8 DEF Crash, InRecord
<1>7. CASE Change
  <2>1. UNCHANGED <<th, made, sealed, anchor>> /\ changed' = changed + 1
    BY <1>7 DEF Change
  <2>2. Known \subseteq Known' /\ Records + changed' \in Known' \ Known /\ Records + changed' \in Nat
    BY <1>0, <2>1 DEF Known
  <2>0. \A i \in 1..Len(log) : log[i] \in Line
    BY <1>0, ElementOfSeq
  <2>d. log \in [1..Len(log) -> Line] /\ InRecord' = InRecord
    BY <1>0, <2>1, LenProperties DEF InRecord
  <2>3. ASSUME NEW k \in 0..(Len(log) - 1), log' = SubSeq(log, 1, k) PROVE Kept'
    <3>1. log' \in Seq(Line) /\ Len(log') = k /\ \A i \in 1..k : log'[i] = log[i]
      BY <1>0, <2>3, SubSeqProperties
    <3>2. \A i \in 1..k : i \in 1..Len(log)
      BY <1>0
    <3>3. \A s \in Texts : Agrees(s, log')
      BY <1>0, <1>c, <2>3, AgreesCut
    <3>4. Shown(log', Known', InHand')
      BY <1>c, <2>1, <2>2, <2>d, <3>1, <3>2 DEF Shown, InHand
    <3>5. \A i, j \in 1..Len(log') : log'[i].id = log'[j].id => i = j
      BY <3>1, <3>2 DEF Kept
    <3> QED
      BY <2>1, <3>1, <3>3, <3>4, <3>5, KeptChanging
  <2>4. ASSUME NEW i \in 1..Len(log), log' = [log EXCEPT ![i].form = "edited"] PROVE Kept'
    <3>1. log' \in Seq(Line)
      BY <1>0, <2>4, LineChanged
    <3>2. Len(log') = Len(log)
      <4>1. DOMAIN log' = 1..Len(log)
        BY <2>d, <2>4
      <4> QED
        BY <1>0, <3>1, <4>1, LenProperties
    <3>3. \A j \in 1..Len(log) : log'[j].id = log[j].id /\ log'[j].prev = log[j].prev
      BY <2>0, <2>d, <2>4 DEF Line
    <3>4. \A s \in Texts : Agrees(s, log')
      BY <1>0, <1>c, <3>1, <3>2, <3>3, AgreesSame
    <3>5. Shown(log', Known', InHand')
      BY <1>c, <2>1, <2>2, <2>d, <3>2, <3>3 DEF Shown, InHand
    <3>6. \A j, k \in 1..Len(log') : log'[j].id = log'[k].id => j = k
      BY <3>2, <3>3 DEF Kept
    <3> QED
      BY <2>1, <3>1, <3>4, <3>5, <3>6, KeptChanging
  <2>5. ASSUME NEW i \in 1..Len(log), log' = [log EXCEPT ![i].id = Records + changed'] PROVE Kept'
    <3>1. log' \in Seq(Line)
      BY <1>0, <2>2, <2>5, LineChanged
    <3>2. Len(log') = Len(log)
      <4>1. DOMAIN log' = 1..Len(log)
        BY <2>d, <2>5
      <4> QED
        BY <1>0, <3>1, <4>1, LenProperties
    <3>3. /\ \A j \in 1..Len(log) : log'[j].prev = log[j].prev /\ (j # i => log'[j].id = log[j].id)
          /\ log'[i].id = Records + changed'
      BY <2>0, <2>d, <2>5 DEF Line
    <3>z. Records + changed' # 0
      BY <1>0, <2>1
    <3>6. /\ \A s \in Texts : \A n \in 1..Len(s) : s[n].id # log'[i].id
          /\ \A j \in 1..Len(log) : log[j].prev # log'[i].id /\ log[j].id # log'[i].id
          /\ \A t \in InRecord : th[t].id # log'[i].id
      <4>1. \A n \in 1..made : n \in Known
        BY DEF Known
      <4>2. \A t \in InRecord : th[t].id \in 1..made
        BY DEF Kept
      <4> QED
        BY <1>c, <2>2, <3>3, <3>z, <4>1, <4>2 DEF Shown, InHand
    <3>4. \A s \in Texts : Agrees(s, log')
      BY <1>0, <1>c, <3>1, <3>2, <3>3, <3>6, AgreesEdit
    <3>5. Shown(log', Known', InHand')
      <4>1. ASSUME NEW j \in 1..Len(log')
            PROVE  /\ log'[j].id \in Known' /\ log'[j].prev \in Known' \cup {0}
                   /\ \A t \in InRecord : log'[j].id # th[t].id
        BY <1>c, <2>2, <3>2, <3>3, <3>6 DEF Shown, InHand
      <4> QED
        BY <2>1, <2>d, <4>1 DEF Shown, InHand
    <3>7. \A j, k \in 1..Len(log') : log'[j].id = log'[k].id => j = k
      BY <3>2, <3>3, <3>6 DEF Kept
    <3> QED
      BY <2>1, <3>1, <3>4, <3>5, <3>7, KeptChanging
  <2> QED
    BY <1>7, <2>3, <2>4, <2>5 DEF Change
<1>8. CASE UNCHANGED vars
  <2>1. InRecord' = InRecord /\ Texts' = Texts /\ Checked'
    BY <1>0, <1>8 DEF vars, InRecord, Texts, Checked, Chained, Linked, SealOf, LastHash
  <2> QED
    BY <1>8, <2>1, KeptReading DEF vars
<1> QED
  BY <1>1, <1>2, <1>3, <1>6, <1>7, <1>8 DEF Next

LEMMA KeptSeals == ASSUME TypeOK, Kept PROVE SealedPrefixKept
<1> SUFFICES ASSUME NEW t \in Thread, Verified(t)
             PROVE  /\ Len(sealed) = anchor.seq
                    /\ \A i \in 1..anchor.seq : th[t].view[i].id = sealed[i].id
  BY DEF SealedPrefixKept
<1> DEFINE v == th[t].view
<1>1. Chained(v) /\ Seals(anchor, v) /\ anchor = SealOf(sealed) /\ Chained(sealed)
  BY DEF Verified, Raises, Kept
<1>2. v \in Texts /\ sealed \in Texts /\ sealed \in Seq(Line) /\ Len(sealed) \in Nat /\ Len(v) \in Nat
  BY TextTyped DEF Texts
<1>3. Len(sealed) = anchor.seq /\ anchor.hash = LastHash(sealed)
  BY <1>1 DEF SealOf
<1>4. CASE anchor.seq = 0
  BY <1>3, <1>4
<1>5. CASE anchor.seq # 0
  <2>1. anchor.seq \in 1..Len(v) /\ v[anchor.seq].id = anchor.hash
    BY <1>1, <1>5 DEF Seals
  <2>2. sealed # <<>> /\ anchor.seq \in 1..Len(sealed)
    BY <1>2, <1>3, <1>5, EmptySeq
  <2>3. sealed[anchor.seq].id = anchor.hash
    BY <1>1, <1>3, <2>2 DEF LastHash, Chained
  <2>4. LinkedTo(v, anchor.seq) /\ LinkedTo(sealed, anchor.seq)
    <3>1. \A i \in 1..anchor.seq : i \in 1..Len(v) /\ i \in 1..Len(sealed)
      BY <1>2, <2>1, <2>2
    <3> QED
      BY <1>1, <3>1 DEF Chained, Linked, LinkedTo
  <2>5. Agrees(sealed, v)
    BY <1>2 DEF Kept
  <2> HIDE DEF v
  <2>6. \A i \in 1..anchor.seq : v[i].id = sealed[i].id
    BY <2>1, <2>2, <2>3, <2>4, <2>5 DEF Agrees
  <2> QED
    BY <1>3, <2>6 DEF v
<1> QED
  BY <1>4, <1>5

\* A log that verifies against its checkpoint holds the records the checkpoint
\* was taken of, for any number of processes, records, crashes and changes:
\* what verify reports as success is no rollback and no edit of the prefix.
THEOREM SealKeepsPrefix == Spec => []SealedPrefixKept
<1>1. Init => TypeOK /\ Locks /\ Kept
  BY TypedInit, KeptInit
<1>2. (TypeOK /\ Locks /\ Kept) /\ [Next]_vars => (TypeOK /\ Locks /\ Kept)'
  BY TypedStep, KeptStep
<1>3. TypeOK /\ Locks /\ Kept => SealedPrefixKept
  BY KeptSeals
<1> QED
  BY <1>1, <1>2, <1>3, PTL DEF Spec
=============================================================================
