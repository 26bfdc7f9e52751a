------------------------ MODULE RegistryInstallProofs ------------------------
(***************************************************************************)
(* What holds of RegistryInstall for every set of installers, operators,   *)
(* keys, versions and packages: type correctness and its three action      *)
(* properties.                                                             *)
(***************************************************************************)
EXTENDS RegistryInstall, TLAPS

(***************************************************************************)
(* Type correctness.                                                       *)
(***************************************************************************)

LEMMA JobsTyped ==
  /\ IdleInst \in Job /\ IdleInst.pc = "idle"
  /\ IdleAdm \in Edit
  /\ \A j \in Job, pc \in PC : [j EXCEPT !.pc = pc] \in Job
  /\ \A j \in Job, c \in Content : [j EXCEPT !.pc = "compare", !.sig = c] \in Job
  /\ \A j \in Job : j.want \in Content \cup {None} /\ j.sig \in Content \cup {None}
BY DEF IdleInst, IdleAdm, Store, Job, Edit, PC

LEMMA SlippedTyped ==
  ASSUME NEW j \in Job, NEW s \in SUBSET {"meta", "unpack", "directory"}, NEW r,
         r = [j EXCEPT !.slips = j.slips \cup s]
  PROVE  r \in Job /\ r.want = j.want /\ r.pc = j.pc
<1>1. j.slips \cup s \in SUBSET {"meta", "unpack", "directory"}
  BY DEF Job
<1> QED
  BY <1>1 DEF Job

\* Who is past the choice of an entry wants a package.
Wanting == \A i \in Installer : inst[i].pc # "idle" => inst[i].want \in Content

Typed == TypeOK /\ Wanting

LEMMA TypedInit == Init => Typed
<1> SUFFICES ASSUME Init PROVE Typed
  OBVIOUS
<1>1. index \in Index /\ trust \in Store
  BY DEF Init, Index, Store
<1>2. inst \in [Installer -> Job] /\ admin \in [Admin -> Edit] /\ Wanting
  BY JobsTyped DEF Init, Wanting
<1>3. edits \in 0..Edits
  BY RegistryAssumption DEF Init
<1>4. /\ cache \in [Content -> Content \cup {None, "other"}]
      /\ installed \in Content \cup {None}
  BY DEF Init
<1>5. /\ vetted \subseteq Content
      /\ revoked \subseteq Key /\ clash \in BOOLEAN
  BY DEF Init
<1> QED
  BY <1>1, <1>2, <1>3, <1>4, <1>5 DEF Typed, TypeOK

LEMMA TypedStep == Typed /\ [Next]_vars => Typed'
<1> SUFFICES ASSUME Typed, [Next]_vars PROVE Typed'
  OBVIOUS
<1>0. /\ Edits \in Nat
      /\ inst \in [Installer -> Job] /\ cache \in [Content -> Content \cup {None, "other"}]
      /\ Wanting /\ TypeOK
  BY RegistryAssumption DEF Typed, TypeOK
\* What one installer does: its own job changes, and the job fits.
<1>w. ASSUME NEW i \in Installer, NEW j \in Job, inst' = [inst EXCEPT ![i] = j],
             j.pc = "idle" \/ j.want \in Content
      PROVE  inst' \in [Installer -> Job] /\ Wanting'
  BY <1>w, <1>0 DEF Wanting
<1>t. ASSUME NEW i \in Installer, NEW pc \in PC, inst[i].pc # "idle", To(i, pc)
      PROVE  inst' \in [Installer -> Job] /\ Wanting'
  <2>1. inst' = [inst EXCEPT ![i] = [inst[i] EXCEPT !.pc = pc]]
    BY <1>t DEF To
  <2>2. [inst[i] EXCEPT !.pc = pc] \in Job
    BY <1>0, JobsTyped
  <2>3. [inst[i] EXCEPT !.pc = pc].want = inst[i].want
    BY <1>0 DEF Job
  <2> QED
    BY <1>t, <1>w, <1>0, <2>1, <2>2, <2>3 DEF Wanting
<1>r. ASSUME NEW i \in Installer, Refuse(i)
      PROVE  inst' \in [Installer -> Job] /\ Wanting'
  BY <1>r, <1>w, JobsTyped DEF Refuse
<1>1. CASE Publish
  <2>1. index' \in Index
    BY <1>1, <1>0 DEF Publish, Index, TypeOK
  <2>2. edits' \in 0..Edits
    BY <1>1, <1>0 DEF Publish, TypeOK
  <2> QED
    BY <1>1, <1>0, <2>1, <2>2 DEF Publish, Typed, TypeOK, Wanting
<1>2. ASSUME NEW i \in Installer, ReadIndex(i) PROVE Typed'
  <2>1. PICK v \in Version \ index.bad, asked \in Asking :
          /\ index.lists[v] # None
          /\ inst' = [inst EXCEPT ![i] = [pc |-> "fetch", version |-> v, want |-> index.lists[v],
                                          badKeys |-> index.badKeys, asked |-> asked, sig |-> None,
                                          slips |-> {}]]
    BY <1>2 DEF ReadIndex
  <2>2. index.lists[v] \in Content /\ index.badKeys \in SUBSET Key /\ asked \in BOOLEAN
    BY <2>1, <1>0, RegistryAssumption DEF Index, TypeOK
  <2> DEFINE j == [pc |-> "fetch", version |-> v, want |-> index.lists[v],
                   badKeys |-> index.badKeys, asked |-> asked, sig |-> None, slips |-> {}]
  <2>3. j \in Job /\ j.want \in Content
    BY <2>2 DEF Job, PC
  <2>4. inst' \in [Installer -> Job] /\ Wanting'
    BY <1>w, <2>1, <2>3
  <2> QED
    BY <1>2, <1>0, <2>4 DEF ReadIndex, Checking, Local, Typed, TypeOK
<1>3. ASSUME NEW i \in Installer, Fetch(i) PROVE Typed'
  <2>0. PICK c \in {inst[i].want, "other"} : Write(i, c)
    BY <1>3 DEF Fetch
  <2>1. \A j \in Installer :
          /\ inst'[j] \in Job
          /\ inst'[j].want = inst[j].want /\ (inst'[j].pc # "idle" => inst[j].pc # "idle")
    <3> SUFFICES ASSUME NEW j \in Installer
                 PROVE  /\ inst'[j] \in Job
                        /\ inst'[j].want = inst[j].want /\ (inst'[j].pc # "idle" => inst[j].pc # "idle")
      OBVIOUS
    <3>1. CASE j = i
      <4>1. inst'[j] = [inst[i] EXCEPT !.pc = "hash"] /\ inst[i].pc = "fetch"
        BY <1>3, <2>0, <3>1 DEF Write, Fetch, At
      <4>2. "hash" \in PC
        BY DEF PC
      <4>3. [inst[i] EXCEPT !.pc = "hash"] \in Job
        BY <4>2, <1>0, JobsTyped
      <4> QED
        BY <4>1, <4>3, <1>0, <3>1 DEF Job
    <3>2. CASE j # i /\ inst'[j] = inst[j]
      BY <3>2, <1>0
    <3>3. CASE j # i /\ inst'[j] # inst[j]
      <4>1. inst'[j] = [inst[j] EXCEPT !.slips = inst[j].slips \cup {inst[j].pc}] /\ inst[j].pc \in {"meta", "unpack"}
        BY <2>0, <3>3 DEF Write
      <4>2. {inst[j].pc} \in SUBSET {"meta", "unpack", "directory"}
        BY <4>1
      <4>3. inst[j] \in Job
        BY <1>0
      <4>4. inst'[j] \in Job /\ inst'[j].want = inst[j].want /\ inst'[j].pc = inst[j].pc
        BY <4>1, <4>2, <4>3, SlippedTyped
      <4> QED
        BY <4>4
    <3> QED
      BY <3>1, <3>2, <3>3
  <2>2. inst' \in [Installer -> Job] /\ Wanting'
    <3>1. inst' = [j \in Installer |-> inst'[j]]
      BY <2>0 DEF Write
    <3> QED
      BY <3>1, <2>1, <1>0 DEF Wanting
  <2>3. cache' \in [Content -> Content \cup {None, "other"}]
    BY <2>0, <1>0, JobsTyped DEF Write
  <2> QED
    BY <2>0, <1>0, <2>2, <2>3 DEF Write, Local, Typed, TypeOK
<1>4. ASSUME NEW i \in Installer, CheckHash(i) PROVE Typed'
  <2>1. inst' \in [Installer -> Job] /\ Wanting'
    BY <1>4, <1>t, <1>r DEF CheckHash, At, PC
  <2> QED
    BY <1>4, <1>0, <2>1 DEF CheckHash, Checking, Local, Typed, TypeOK
<1>m. ASSUME NEW i \in Installer, CheckMetadata(i) PROVE Typed'
  <2>1. inst' \in [Installer -> Job] /\ Wanting'
    BY <1>m, <1>t, <1>r DEF CheckMetadata, At, PC
  <2> QED
    BY <1>m, <1>0, <2>1 DEF CheckMetadata, Checking, Local, Typed, TypeOK
<1>5. ASSUME NEW i \in Installer, Verify(i) PROVE Typed'
  <2>1. /\ inst' \in [Installer -> Job] /\ Wanting'
        /\ vetted' \subseteq Content
    <3>1. CASE Refuse(i) /\ UNCHANGED vetted
      BY <3>1, <1>r, <1>0 DEF TypeOK
    <3>2. ASSUME NEW c \in Content, vetted' = vetted \cup {c},
                 inst' = [inst EXCEPT ![i].pc = "compare", ![i].sig = c]
          PROVE  /\ inst' \in [Installer -> Job] /\ Wanting'
                 /\ vetted' \subseteq Content
      <4> DEFINE j == [inst[i] EXCEPT !.pc = "compare", !.sig = c]
      <4>1. inst' = [inst EXCEPT ![i] = j]
        BY <3>2, <1>0
      <4>2. j \in Job
        BY <1>0, JobsTyped
      <4>3. j.want = inst[i].want
        BY <1>0 DEF Job
      <4>4. j.want \in Content
        BY <1>5, <1>0, <4>3 DEF Wanting, Verify, At
      <4>5. inst' \in [Installer -> Job] /\ Wanting'
        BY <1>w, <4>1, <4>2, <4>4
      <4> QED
        BY <3>2, <4>5, <1>0 DEF TypeOK
    <3> QED
      BY <1>5, <3>1, <3>2 DEF Verify
  <2> QED
    BY <1>5, <1>0, <2>1 DEF Verify, Local, Typed, TypeOK
<1>6. ASSUME NEW i \in Installer, Compare(i) PROVE Typed'
  <2>1. inst' \in [Installer -> Job] /\ Wanting'
    BY <1>6, <1>t, <1>r DEF Compare, At, PC
  <2> QED
    BY <1>6, <1>0, <2>1 DEF Compare, Checking, Local, Typed, TypeOK
<1>l. ASSUME NEW i \in Installer, LoadHash(i) PROVE Typed'
  <2>1. inst' \in [Installer -> Job] /\ Wanting'
    BY <1>l, <1>t, <1>r DEF LoadHash, At, PC
  <2> QED
    BY <1>l, <1>0, <2>1 DEF LoadHash, Checking, Local, Typed, TypeOK
<1>7. ASSUME NEW i \in Installer, Unpack(i) PROVE Typed'
  <2>1. CASE Refuse(i) /\ UNCHANGED installed
    BY <1>7, <1>0, <1>r, <2>1 DEF Unpack, Local, Typed, TypeOK
  <2>2. ASSUME NEW d \in Content, Replace(i, d) PROVE Typed'
    <3>1. \A j \in Installer : /\ inst'[j] \in Job
                               /\ inst'[j].pc # "idle" => inst'[j].want \in Content
      <4> SUFFICES ASSUME NEW j \in Installer
                   PROVE  inst'[j] \in Job /\ (inst'[j].pc # "idle" => inst'[j].want \in Content)
        OBVIOUS
      <4>1. CASE inst'[j] \in {IdleInst, inst[j]}
        BY <4>1, <1>0, JobsTyped DEF Wanting
      <4>2. CASE inst'[j] = [inst[j] EXCEPT !.slips = inst[j].slips \cup {"directory"}]
        <5>1. {"directory"} \in SUBSET {"meta", "unpack", "directory"}
          OBVIOUS
        <5>2. inst[j] \in Job
          BY <1>0
        <5>3. inst'[j] \in Job /\ inst'[j].want = inst[j].want /\ inst'[j].pc = inst[j].pc
          BY <4>2, <5>1, <5>2, SlippedTyped
        <5> QED
          BY <5>3, <1>0 DEF Wanting
      <4> QED
        BY <2>2, <4>1, <4>2 DEF Replace
    <3>2. inst' \in [Installer -> Job] /\ Wanting'
      <4>1. inst' = [j \in Installer |-> inst'[j]]
        BY <2>2 DEF Replace
      <4>2. inst' \in [Installer -> Job]
        BY <3>1, <4>1
      <4>3. Wanting'
        BY <3>1 DEF Wanting
      <4> QED
        BY <4>2, <4>3
    <3> QED
      BY <1>7, <1>0, <2>2, <3>2 DEF Unpack, Replace, Local, Typed, TypeOK
  <2> QED
    BY <1>7, <2>1, <2>2 DEF Unpack
<1>8. ASSUME NEW a \in Admin, Begin(a) PROVE Typed'
  <2>1. PICK k \in Key, to \in {"trusted", "revoked"} :
          /\ admin' = [admin EXCEPT ![a] = [pc |-> "write", copy |-> [trust EXCEPT ![k] = to]]]
          /\ revoked' = IF to = "revoked" THEN revoked \cup {k} ELSE revoked \ {k}
    BY <1>8 DEF Begin
  <2>2. [trust EXCEPT ![k] = to] \in Store
    BY <1>0 DEF TypeOK, Store
  <2>3. admin' \in [Admin -> Edit]
    BY <2>1, <2>2, <1>0 DEF TypeOK, Edit
  <2>4. edits' \in 0..Edits
    BY <1>8, <1>0 DEF Begin, TypeOK
  <2>5. clash' \in BOOLEAN
    BY <1>8, <1>0 DEF Begin, TypeOK
  <2> QED
    BY <1>8, <1>0, <2>1, <2>3, <2>4, <2>5 DEF Begin, Typed, TypeOK, Wanting
<1>9. ASSUME NEW a \in Admin, Commit(a) PROVE Typed'
  <2>1. trust' \in Store /\ admin' \in [Admin -> Edit]
    BY <1>9, <1>0, JobsTyped DEF Commit, TypeOK, Edit
  <2> QED
    BY <1>9, <1>0, <2>1 DEF Commit, Typed, TypeOK, Wanting
<1>10. CASE UNCHANGED vars
  BY <1>10 DEF vars, Typed, TypeOK, Wanting
<1> QED
  BY <1>1, <1>2, <1>3, <1>4, <1>m, <1>5, <1>6, <1>l, <1>7, <1>8, <1>9, <1>10 DEF Next

LEMMA TypedAlways == Spec => []Typed
BY TypedInit, TypedStep, PTL DEF Spec

\* Every variable keeps its type, whatever the registry publishes, fetches
\* bring and operators edit.
THEOREM TypeCorrect == Spec => []TypeOK
<1>1. Typed => TypeOK
  BY DEF Typed
<1> QED
  BY <1>1, TypedAlways, PTL

(***************************************************************************)
(* What an install carries to the loader.  An install that asks for        *)
(* signatures holds a verified package; what it compared, and what it saw  *)
(* in the file, still holds unless another one came in between.            *)
(***************************************************************************)

NotOlder(i) == \/ installed \in {None, inst[i].want}
               \/ Older(VersionOf[installed], VersionOf[inst[i].want])

Carried(i) ==
  LET job == inst[i]
  IN /\ job.pc \notin {"idle", "fetch", "hash", "meta"} /\ "meta" \notin job.slips
          => job.version = VersionOf[job.want]
     /\ job.pc \in {"compare", "load", "unpack"} /\ job.asked
          => job.sig = job.want /\ job.sig \in vetted
     /\ job.pc = "meta" /\ "meta" \notin job.slips => cache[job.want] = job.want
     /\ job.pc = "unpack" /\ job.asked /\ "unpack" \notin job.slips
          => cache[job.want] = job.want
     /\ job.pc \in {"load", "unpack"} /\ job.slips = {} => NotOlder(i)
AllCarried == \A i \in Installer : Carried(i)

LEMMA CarriedInit == Init => AllCarried
BY DEF Init, AllCarried, Carried, IdleInst

\* An install whose record stays as it was, and one that has slipped.
LEMMA SameCarries ==
  ASSUME NEW j \in Installer, Carried(j), inst'[j] = inst[j], vetted \subseteq vetted',
         UNCHANGED <<installed, cache>>
  PROVE  Carried(j)'
BY DEF Carried, NotOlder

LEMMA SlippedCarries ==
  ASSUME Typed, AllCarried, NEW j \in Installer,
         NEW s \in SUBSET {"meta", "unpack", "directory"}, vetted \subseteq vetted',
         inst'[j] = [inst[j] EXCEPT !.slips = inst[j].slips \cup s],
         installed' = installed \/ inst[j].pc \notin {"load", "unpack"} \/ s # {},
         \/ cache'[inst[j].want] \in {cache[inst[j].want], inst[j].want}
         \/ inst[j].pc \notin {"meta", "unpack"} \/ inst[j].pc \in s
  PROVE  Carried(j)'
<1>1. Carried(j) /\ inst[j] \in Job
  BY DEF AllCarried, Typed, TypeOK
<1>2. /\ inst'[j].pc = inst[j].pc /\ inst'[j].want = inst[j].want /\ inst'[j].sig = inst[j].sig
      /\ inst'[j].asked = inst[j].asked /\ inst'[j].version = inst[j].version
      /\ inst'[j].slips = inst[j].slips \cup s
  BY <1>1 DEF Job
<1> QED
  BY <1>1, <1>2 DEF Carried, NotOlder

LEMMA CarriedStep == Typed /\ AllCarried /\ [Next]_vars => AllCarried'
<1> SUFFICES ASSUME Typed, AllCarried, [Next]_vars, NEW k \in Installer
             PROVE  Carried(k)'
  BY DEF AllCarried
<1>0. /\ inst \in [Installer -> Job] /\ cache \in [Content -> Content \cup {None, "other"}]
      /\ installed \in Content \cup {None}
      /\ Carried(k) /\ Wanting
  BY DEF Typed, TypeOK, AllCarried
<1>s. ASSUME UNCHANGED <<inst, vetted, installed, cache>> PROVE Carried(k)'
  BY <1>s, <1>0, SameCarries
\* A step of k itself.
<1>t. ASSUME NEW pc \in PC, To(k, pc)
      PROVE  /\ inst'[k].pc = pc /\ inst'[k].asked = inst[k].asked /\ inst'[k].sig = inst[k].sig
             /\ inst'[k].want = inst[k].want /\ inst'[k].version = inst[k].version
             /\ inst'[k].slips = inst[k].slips
  <2>1. inst'[k] = [inst[k] EXCEPT !.pc = pc]
    BY <1>t, <1>0 DEF To
  <2> QED
    BY <1>0, <2>1 DEF Job
\* A step of another install leaves the record of k.
<1>o. ASSUME NEW i \in Installer \ {k}, NEW r, inst' = [inst EXCEPT ![i] = r],
             vetted \subseteq vetted', UNCHANGED <<installed, cache>>
      PROVE  Carried(k)'
  BY <1>o, <1>0, SameCarries
\* An install that is given up carries nothing.
<1>r. ASSUME NEW i \in Installer, Refuse(i), UNCHANGED <<vetted, installed, cache>>
      PROVE  Carried(k)'
  <2>1. CASE i = k
    <3>1. inst'[k] = IdleInst
      BY <1>r, <1>0, <2>1 DEF Refuse
    <3> QED
      BY <3>1 DEF Carried, IdleInst
  <2>2. CASE i # k
    BY <1>r, <1>o, <2>2 DEF Refuse
  <2> QED
    BY <2>1, <2>2
<1>1. CASE Publish
  BY <1>1, <1>s DEF Publish
<1>2. ASSUME NEW i \in Installer, ReadIndex(i) PROVE Carried(k)'
  <2>1. PICK r : r.pc = "fetch" /\ inst' = [inst EXCEPT ![i] = r]
    BY <1>2 DEF ReadIndex
  <2>2. CASE i = k
    <3>1. inst'[k].pc = "fetch"
      BY <1>0, <2>1, <2>2
    <3> QED
      BY <3>1 DEF Carried
  <2>3. CASE i # k
    BY <1>2, <1>o, <2>1, <2>3 DEF ReadIndex, Checking, Local
  <2> QED
    BY <2>2, <2>3
<1>3. ASSUME NEW i \in Installer, Fetch(i) PROVE Carried(k)'
  <2>0. PICK c \in {inst[i].want, "other"} : Write(i, c)
    BY <1>3 DEF Fetch
  <2>w. /\ inst[i].want \in Content
        /\ inst[k].want \in Content => cache'[inst[k].want] =
             IF inst[k].want = inst[i].want THEN c ELSE cache[inst[k].want]
    BY <1>3, <1>0, <2>0 DEF Fetch, At, Wanting, Write
  <2>1. CASE i = k
    <3>1. inst'[k].pc = "hash"
      BY <1>0, <2>0, <2>1 DEF Write, Job
    <3> QED
      BY <3>1 DEF Carried
  <2> DEFINE hit == /\ inst[k].want = inst[i].want /\ c # inst[k].want
                    /\ inst[k].pc \in {"meta", "unpack"}
  <2>2. CASE i # k /\ hit
    <3>1. inst'[k] = [inst[k] EXCEPT !.slips = inst[k].slips \cup {inst[k].pc}]
      BY <2>0, <2>2 DEF Write
    <3>2. {inst[k].pc} \in SUBSET {"meta", "unpack", "directory"}
      BY <2>2
    <3> QED
      BY <2>0, <3>1, <3>2, SlippedCarries DEF Write
  <2>3. CASE i # k /\ ~hit
    <3>1. inst'[k] = inst[k]
      BY <2>0, <2>3 DEF Write
    <3>2. inst[k].pc \in {"meta", "unpack"} => cache'[inst[k].want] \in {cache[inst[k].want], inst[k].want}
      BY <1>0, <2>w, <2>3 DEF Wanting
    <3>3. vetted' = vetted /\ installed' = installed
      BY <2>0 DEF Write
    <3> QED
      BY <1>0, <3>1, <3>2, <3>3 DEF Carried, NotOlder
  <2> QED
    BY <2>1, <2>2, <2>3
<1>4. ASSUME NEW i \in Installer, CheckHash(i) PROVE Carried(k)'
  <2>1. CASE Refuse(i)
    BY <1>4, <1>r, <2>1 DEF CheckHash, Checking
  <2>2. CASE i = k /\ To(k, "meta") /\ cache[inst[k].want] = inst[k].want
    <3>1. inst'[k].pc = "meta" /\ inst'[k].want = inst[k].want
      BY <1>t, <2>2 DEF PC
    <3>2. cache' = cache
      BY <1>4 DEF CheckHash, Checking
    <3> QED
      BY <2>2, <3>1, <3>2 DEF Carried
  <2>3. CASE i # k /\ To(i, "meta")
    BY <1>4, <1>o, <2>3 DEF CheckHash, Checking, To
  <2> QED
    BY <1>4, <2>1, <2>2, <2>3 DEF CheckHash
<1>m. ASSUME NEW i \in Installer, CheckMetadata(i) PROVE Carried(k)'
  <2> DEFINE pc == IF inst[i].asked THEN "verify" ELSE "compare"
  <2>1. CASE Refuse(i)
    BY <1>m, <1>r, <2>1 DEF CheckMetadata, Checking
  <2>2. CASE i = k /\ To(k, pc) /\ (cache[inst[k].want] = inst[k].want
                                      => VersionOf[inst[k].want] = inst[k].version)
    <3>1. pc \in PC
      BY DEF PC
    <3>2. /\ inst'[k].pc = pc /\ inst'[k].asked = inst[k].asked
          /\ inst'[k].want = inst[k].want /\ inst'[k].version = inst[k].version
          /\ inst'[k].slips = inst[k].slips
      BY <1>t, <2>2, <3>1
    <3>3. inst[k].pc = "meta" /\ UNCHANGED <<cache, vetted, installed>>
      BY <1>m, <2>2 DEF CheckMetadata, Checking, At
    <3> QED
      BY <1>0, <2>2, <3>2, <3>3 DEF Carried
  <2>3. CASE i # k /\ To(i, pc)
    BY <1>m, <1>o, <2>3 DEF CheckMetadata, Checking, To
  <2> QED
    BY <1>m, <2>1, <2>2, <2>3 DEF CheckMetadata
<1>5. ASSUME NEW i \in Installer, Verify(i) PROVE Carried(k)'
  <2> DEFINE c == cache[inst[i].want]
  <2>0. UNCHANGED <<installed, cache>>
    BY <1>5 DEF Verify
  <2>1. CASE Refuse(i) /\ UNCHANGED vetted
    BY <1>r, <2>0, <2>1
  <2>2. CASE ~(Refuse(i) /\ UNCHANGED vetted)
    <3>1. /\ inst[i].pc = "verify" /\ c = inst[i].want /\ vetted' = vetted \cup {c}
          /\ inst' = [inst EXCEPT ![i] = [inst[i] EXCEPT !.pc = "compare", !.sig = c]]
      BY <1>5, <2>2, <1>0 DEF Verify, At
    <3>2. CASE i = k
      <4>1. inst'[k] = [inst[k] EXCEPT !.pc = "compare", !.sig = c]
        BY <1>0, <3>1, <3>2
      <4>2. /\ inst'[k].pc = "compare" /\ inst'[k].sig = c
            /\ inst'[k].want = inst[k].want /\ inst'[k].version = inst[k].version
        BY <1>0, <4>1 DEF Job
      <4> HIDE DEF c
      <4> QED
        BY <1>0, <3>1, <3>2, <4>2 DEF Carried
    <3>3. CASE i # k
      BY <1>o, <2>0, <3>1, <3>3
    <3> QED
      BY <3>2, <3>3
  <2> QED
    BY <2>1, <2>2
<1>6. ASSUME NEW i \in Installer, Compare(i) PROVE Carried(k)'
  <2>0. UNCHANGED <<vetted, installed, cache>> /\ inst[i].pc = "compare"
    BY <1>6 DEF Compare, Checking, At
  <2>1. CASE Refuse(i)
    BY <1>r, <2>0, <2>1
  <2>2. CASE /\ i = k /\ To(k, "load")
             /\ \/ installed \in {None, inst[k].want}
                \/ Older(VersionOf[installed], inst[k].version)
    <3>1. /\ inst'[k].pc = "load" /\ inst'[k].asked = inst[k].asked /\ inst'[k].sig = inst[k].sig
          /\ inst'[k].want = inst[k].want /\ inst'[k].version = inst[k].version
          /\ inst'[k].slips = inst[k].slips
      BY <1>t, <2>2 DEF PC
    <3> QED
      BY <1>0, <2>0, <2>2, <3>1 DEF Carried, NotOlder
  <2>3. CASE i # k /\ To(i, "load")
    BY <1>o, <2>0, <2>3 DEF To
  <2> QED
    BY <1>6, <2>1, <2>2, <2>3 DEF Compare
<1>l. ASSUME NEW i \in Installer, LoadHash(i) PROVE Carried(k)'
  <2>0. UNCHANGED <<vetted, installed, cache>> /\ inst[i].pc = "load"
    BY <1>l DEF LoadHash, Checking, At
  <2>1. CASE Refuse(i)
    BY <1>r, <2>0, <2>1
  <2>2. CASE i = k /\ To(k, "unpack") /\ (inst[k].asked => cache[inst[k].want] = inst[k].sig)
    <3>1. /\ inst'[k].pc = "unpack" /\ inst'[k].asked = inst[k].asked /\ inst'[k].sig = inst[k].sig
          /\ inst'[k].want = inst[k].want /\ inst'[k].version = inst[k].version
          /\ inst'[k].slips = inst[k].slips
      BY <1>t, <2>2 DEF PC
    <3> QED
      BY <1>0, <2>0, <2>2, <3>1 DEF Carried, NotOlder
  <2>3. CASE i # k /\ To(i, "unpack")
    BY <1>o, <2>0, <2>3 DEF To
  <2> QED
    BY <1>l, <2>1, <2>2, <2>3 DEF LoadHash
<1>7. ASSUME NEW i \in Installer, Unpack(i) PROVE Carried(k)'
  <2>0. UNCHANGED <<vetted, cache>>
    BY <1>7 DEF Unpack
  <2>1. CASE Refuse(i) /\ UNCHANGED installed
    BY <1>r, <2>0, <2>1
  <2>2. ASSUME NEW d \in Content, Replace(i, d) PROVE Carried(k)'
    <3>1. CASE i = k
      <4>1. inst'[k] = IdleInst
        BY <2>2, <3>1 DEF Replace
      <4> QED
        BY <4>1 DEF Carried, IdleInst
    <3>2. CASE i # k /\ inst[k].pc \in {"load", "unpack"}
      <4>1. inst'[k] = [inst[k] EXCEPT !.slips = inst[k].slips \cup {"directory"}]
        BY <2>2, <3>2 DEF Replace
      <4>2. {"directory"} \in SUBSET {"meta", "unpack", "directory"} /\ {"directory"} # {}
        OBVIOUS
      <4> QED
        BY <2>0, <4>1, <4>2, SlippedCarries
    <3>3. CASE i # k /\ inst[k].pc \notin {"load", "unpack"}
      <4>1. inst'[k] = inst[k]
        BY <2>2, <3>3 DEF Replace
      <4> QED
        BY <1>0, <2>0, <3>3, <4>1 DEF Carried
    <3> QED
      BY <3>1, <3>2, <3>3
  <2> QED
    BY <1>7, <2>1, <2>2 DEF Unpack
<1>8. ASSUME NEW a \in Admin, Begin(a) PROVE Carried(k)'
  BY <1>8, <1>s DEF Begin
<1>9. ASSUME NEW a \in Admin, Commit(a) PROVE Carried(k)'
  BY <1>9, <1>s DEF Commit
<1>10. CASE UNCHANGED vars
  BY <1>10, <1>s DEF vars
<1> QED
  BY <1>1, <1>2, <1>3, <1>4, <1>m, <1>5, <1>6, <1>l, <1>7, <1>8, <1>9, <1>10 DEF Next

LEMMA CarriedAlways == Spec => [](Typed /\ AllCarried)
<1>1. Init => Typed /\ AllCarried
  BY TypedInit, CarriedInit
<1>2. (Typed /\ AllCarried) /\ [Next]_vars => (Typed /\ AllCarried)'
  BY TypedStep, CarriedStep
<1> QED
  BY <1>1, <1>2, PTL DEF Spec

\* What an install that asks for signatures brings is the package it verified.
LEMMA InstallBrings ==
  ASSUME Typed, AllCarried, NEW i \in Installer, Unpack(i), inst[i].asked,
         installed' # installed, "unpack" \notin inst[i].slips
  PROVE  installed' = inst[i].want /\ installed' \in vetted
<1>1. inst[i].pc = "unpack" /\ inst[i].want \in Content
  BY DEF Unpack, At, Typed, Wanting
<1>2. cache[inst[i].want] = inst[i].want /\ inst[i].want \in vetted
  BY <1>1 DEF AllCarried, Carried
<1> QED
  BY <1>1, <1>2 DEF Unpack, Replace

\* The cache may be rewritten between any two reads, and packages that did not
\* verify may lie in it: none of them reaches the plugin directory through an
\* install that asks for signatures, except by a write between the loader's own
\* two reads.
THEOREM VettedOnly == Spec => InstalledWasVetted
<1>1. Typed /\ AllCarried /\ [Next]_vars =>
        [\A i \in Installer :
           Unpack(i) /\ inst[i].asked /\ installed' # installed
             => installed' \in vetted \/ "unpack" \in inst[i].slips]_vars
  BY InstallBrings
<1> QED
  BY <1>1, CarriedAlways, PTL DEF Spec, InstalledWasVetted

LEMMA OlderIsStrict ==
  ASSUME NEW v \in [core : Nat, pre : Nat], NEW w \in [core : Nat, pre : Nat], Older(v, w)
  PROVE  ~Older(w, v)
BY DEF Older

\* Unless another install came between the comparison and the loader, or rewrote
\* the file under one of its reads, no version is replaced by an older one, in the order of _semver_sort_key.
THEOREM NeverOlder == Spec => NoDowngrade
<1>1. Typed /\ AllCarried /\ [Next]_vars =>
        [\A i \in Installer :
           Unpack(i) /\ inst[i].asked /\ inst[i].slips = {} /\ installed # None /\ installed' # None
             => ~Older(VersionOf[installed'], VersionOf[installed])]_vars
  <2> SUFFICES ASSUME Typed, AllCarried, NEW i \in Installer, Unpack(i), inst[i].asked,
                      inst[i].slips = {}, installed # None, installed' # None
               PROVE  ~Older(VersionOf[installed'], VersionOf[installed])
    OBVIOUS
  <2>0. installed \in Content /\ inst[i].want \in Content
    BY RegistryAssumption DEF Typed, TypeOK, Wanting, Unpack, At
  <2>1. VersionOf[installed] \in [core : Nat, pre : Nat] /\ VersionOf[inst[i].want] \in [core : Nat, pre : Nat]
    BY <2>0, RegistryAssumption
  <2>2. \A v \in [core : Nat, pre : Nat] : ~Older(v, v)
    BY DEF Older
  <2>3. CASE installed' = installed
    BY <2>1, <2>2, <2>3
  <2>4. CASE installed' # installed
    <3>1. installed' = inst[i].want
      BY <2>4, InstallBrings
    <3>2. NotOlder(i)
      BY DEF AllCarried, Carried, Unpack, At
    <3>3. Older(VersionOf[installed], VersionOf[inst[i].want])
      BY <2>4, <3>1, <3>2 DEF NotOlder
    <3> QED
      BY <2>1, <3>1, <3>3, OlderIsStrict
  <2> QED
    BY <2>3, <2>4
<1> QED
  BY <1>1, CarriedAlways, PTL DEF Spec, NoDowngrade

(***************************************************************************)
(* Revoked keys.  An operator writes the store it read: while operators    *)
(* take turns, what it read was the store, and only the key it is adding   *)
(* or revoking differs.                                                    *)
(***************************************************************************)

Writing(a) == admin[a].pc = "write"

Turns ==
  \/ clash
  \/ /\ \A a, b \in Admin : Writing(a) /\ Writing(b) => a = b
     /\ \A a \in Admin : Writing(a) => \A k \in revoked : admin[a].copy[k] # "trusted"
     /\ (\A a \in Admin : ~Writing(a)) => \A k \in revoked : trust[k] # "trusted"

LEMMA TurnsInit == Init => Turns
BY DEF Init, Turns, Writing, IdleAdm

LEMMA TurnsStep == Typed /\ Turns /\ [Next]_vars => Turns'
<1> SUFFICES ASSUME Typed, Turns, [Next]_vars PROVE Turns'
  OBVIOUS
<1>0. admin \in [Admin -> Edit] /\ trust \in Store
  BY DEF Typed, TypeOK
<1>s. ASSUME UNCHANGED <<trust, admin, revoked, clash>> PROVE Turns'
  BY <1>s DEF Turns, Writing
<1>1. ASSUME NEW a \in Admin, Begin(a) PROVE Turns'
  <2> SUFFICES ASSUME ~clash' PROVE Turns'
    BY DEF Turns
  <2>1. ~clash /\ \A b \in Admin : ~Writing(b)
    BY <1>1 DEF Begin, Writing
  <2>2. \A k \in revoked : trust[k] # "trusted"
    BY <2>1 DEF Turns
  <2>3. PICK k \in Key, to \in {"trusted", "revoked"} :
          /\ admin' = [admin EXCEPT ![a] = [pc |-> "write", copy |-> [trust EXCEPT ![k] = to]]]
          /\ revoked' = IF to = "revoked" THEN revoked \cup {k} ELSE revoked \ {k}
    BY <1>1 DEF Begin
  <2>4. /\ admin'[a].pc = "write" /\ admin'[a].copy = [trust EXCEPT ![k] = to]
        /\ \A b \in Admin \ {a} : admin'[b] = admin[b]
    BY <2>3, <1>0
  <2>5. \A m \in revoked' : admin'[a].copy[m] # "trusted"
    BY <2>2, <2>3, <2>4, <1>0 DEF Store
  <2> QED
    BY <2>1, <2>4, <2>5 DEF Turns, Writing
<1>2. ASSUME NEW a \in Admin, Commit(a) PROVE Turns'
  <2> SUFFICES ASSUME ~clash' PROVE Turns'
    BY DEF Turns
  <2>1. /\ Writing(a) /\ trust' = admin[a].copy /\ revoked' = revoked /\ ~clash
        /\ admin' = [admin EXCEPT ![a] = IdleAdm]
    BY <1>2 DEF Commit, Writing
  <2>2. /\ \A b \in Admin : Writing(b) => a = b
        /\ \A k \in revoked : trust'[k] # "trusted"
    BY <2>1 DEF Turns
  <2>3. \A b \in Admin : ~Writing(b)'
    BY <2>1, <2>2, <1>0 DEF Writing, IdleAdm
  <2> QED
    BY <2>1, <2>2, <2>3 DEF Turns
<1>3. ASSUME NEW i \in Installer,
             \/ ReadIndex(i) \/ Fetch(i) \/ CheckHash(i) \/ CheckMetadata(i)
             \/ Verify(i) \/ Compare(i) \/ LoadHash(i) \/ Unpack(i)
      PROVE  Turns'
  BY <1>3, <1>s DEF ReadIndex, Fetch, Write, CheckHash, CheckMetadata, Verify, Compare, LoadHash,
                    Unpack, Checking, Local
<1>4. CASE Publish
  BY <1>4, <1>s DEF Publish
<1>5. CASE UNCHANGED vars
  BY <1>5, <1>s DEF vars
<1> QED
  BY <1>1, <1>2, <1>3, <1>4, <1>5 DEF Next

LEMMA VerifyHolds ==
  ASSUME Typed, NEW i \in Installer, Verify(i), inst'[i].sig # None
  PROVE  \/ TrustedKey(i, SignedBy[inst'[i].sig])
         \/ inst'[i] = IdleInst
<1>0. inst \in [Installer -> Job]
  BY DEF Typed, TypeOK
<1>1. CASE Refuse(i)
  BY <1>0, <1>1 DEF Refuse
<1>2. CASE ~Refuse(i)
  <2> DEFINE c == cache[inst[i].want]
  <2>1. /\ c = inst[i].want /\ TrustedKey(i, SignedBy[inst[i].want])
        /\ inst' = [inst EXCEPT ![i] = [inst[i] EXCEPT !.pc = "compare", !.sig = c]]
    BY <1>0, <1>2 DEF Verify
  <2>2. inst'[i].sig = c
    BY <1>0, <2>1 DEF Job
  <2> QED
    BY <2>1, <2>2
<1> QED
  BY <1>1, <1>2

\* A key that was revoked verifies nothing until it is added again, for any
\* number of operators, as long as no two of them edit the store at once.
THEOREM RevokedVerifiesNothing == Spec => RevokedKeyStaysOut
<1>1. Typed /\ Turns /\ [Next]_vars =>
        [\A i \in Installer :
           Verify(i) /\ inst'[i].sig # None
             => LET k == SignedBy[inst'[i].sig]
                IN /\ k \notin inst[i].badKeys
                   /\ k \in revoked => clash \/ \E a \in Admin : admin[a].pc = "write"]_vars
  <2> SUFFICES ASSUME Typed, Turns, NEW i \in Installer, Verify(i), inst'[i].sig # None
               PROVE  /\ SignedBy[inst'[i].sig] \notin inst[i].badKeys
                      /\ SignedBy[inst'[i].sig] \in revoked
                           => clash \/ \E a \in Admin : admin[a].pc = "write"
    OBVIOUS
  <2>1. TrustedKey(i, SignedBy[inst'[i].sig])
    BY VerifyHolds DEF IdleInst
  <2> QED
    BY <2>1 DEF TrustedKey, Turns, Writing
<1>2. Spec => [](Typed /\ Turns)
  <2>1. Init => Typed /\ Turns
    BY TypedInit, TurnsInit
  <2>2. (Typed /\ Turns) /\ [Next]_vars => (Typed /\ Turns)'
    BY TypedStep, TurnsStep
  <2> QED
    BY <2>1, <2>2, PTL DEF Spec
<1> QED
  BY <1>1, <1>2, PTL DEF RevokedKeyStaysOut, Spec
=============================================================================
