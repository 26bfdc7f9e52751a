---------------------------- MODULE RegistryInstall ----------------------------
(***************************************************************************)
(* Installs of one plugin from a registry by several processes that share  *)
(* the cache and the plugin directory, with a registry that changes under  *)
(* them, and the trust store that operators edit meanwhile.  A package is  *)
(* its content; its sha256 identifies it.                                  *)
(***************************************************************************)
EXTENDS Naturals, FiniteSets

CONSTANTS Installer, Admin, Key,
          Version,        \* [core, pre]: pre is 0, or the place of the suffix in the order of texts
          Content,        \* packages
          VersionOf,      \* the version in a package's plugin.yaml
          SignedBy,       \* the key of a package's signature, or none
          Edits,          \* bound: changes of the index and of the trust store
          Asking          \* require_signature, as the installers ask for it

None      == "none"
NoVersion == [core |-> 0, pre |-> 0]
ASSUME RegistryAssumption ==
  /\ Version \subseteq [core : Nat, pre : Nat]
  /\ VersionOf \in [Content -> Version] /\ SignedBy \in [Content -> Key \cup {None}]
  /\ None \notin Key \cup Content /\ "other" \notin Content
  /\ Edits \in Nat /\ Asking \subseteq BOOLEAN

VARIABLES edits,      \* changes of the index and of the trust store so far
          index,      \* [lists, bad, badKeys]: per version a content or none; what is revoked
          cache,      \* the shared cache: per listed content what its file holds
          installed,  \* the content in the plugin directory, or none
          inst,       \* the install of each process
          trust,      \* the trust store
          admin,      \* the edit of each operator
          vetted,     \* history: contents that verified
          revoked,    \* history: keys revoked and not added again since
          clash       \* history: two operators edited the trust store at once
vars == <<edits, index, cache, installed, inst, trust, admin, vetted, revoked, clash>>

Index    == [lists : [Version -> Content \cup {None}], bad : SUBSET Version, badKeys : SUBSET Key]
Store    == [Key -> {"absent", "trusted", "revoked"}]
PC       == {"idle", "fetch", "hash", "meta", "verify", "compare", "load", "unpack"}
Job      == [pc : PC, version : Version \cup {NoVersion}, want : Content \cup {None},
             badKeys : SUBSET Key, asked : BOOLEAN, sig : Content \cup {None},
             slips : SUBSET {"meta", "unpack", "directory"}] \* history: what others changed under it
Edit     == [pc : {"idle", "write"}, copy : Store]
IdleInst == [pc |-> "idle", version |-> NoVersion, want |-> None, badKeys |-> {}, asked |-> FALSE,
              sig |-> None, slips |-> {}]
IdleAdm  == [pc |-> "idle", copy |-> [k \in Key |-> "absent"]]

Init ==
  /\ edits = 0
  /\ index = [lists |-> [v \in Version |-> None], bad |-> {}, badKeys |-> {}]
  /\ cache = [c \in Content |-> None]
  /\ installed = None
  /\ inst = [i \in Installer |-> IdleInst]
  /\ trust = [k \in Key |-> "absent"]
  /\ admin = [a \in Admin |-> IdleAdm]
  /\ vetted = {} /\ revoked = {} /\ clash = FALSE
-----------------------------------------------------------------------------
(* The registry's publisher: an entry is added or replaced, a version or a *)
(* key revoked.                                                            *)

Publish ==
  /\ edits < Edits /\ edits' = edits + 1
  /\ \/ \E v \in Version, c \in Content : index' = [index EXCEPT !.lists[v] = c]
     \/ \E v \in Version : index' = [index EXCEPT !.bad = @ \cup {v}]
     \/ \E k \in Key : index' = [index EXCEPT !.badKeys = @ \cup {k}]
  /\ UNCHANGED <<cache, installed, inst, trust, admin, vetted, revoked, clash>>
-----------------------------------------------------------------------------
(* install. *)

\* _semver_sort_key: a release comes after its pre-releases, suffixes compare
\* as texts.
Older(v, w) == \/ v.core < w.core
               \/ v.core = w.core /\ v.pre # 0 /\ (w.pre = 0 \/ v.pre < w.pre)

At(i, pc) == inst[i].pc = pc
To(i, pc) == inst' = [inst EXCEPT ![i].pc = pc]
Refuse(i) == inst' = [inst EXCEPT ![i] = IdleInst]
Local     == UNCHANGED <<edits, index, trust, admin, revoked, clash>>
Checking  == UNCHANGED <<cache, installed, vetted>> /\ Local

\* The index is read and verified, and an entry is chosen: by its version, or
\* the newest.  A revoked one is refused, and no other is tried.
ReadIndex(i) ==
  /\ At(i, "idle")
  /\ \E v \in Version \ index.bad, asked \in Asking :
       /\ index.lists[v] # None
       /\ inst' = [inst EXCEPT ![i] = [pc |-> "fetch", version |-> v, want |-> index.lists[v],
                                       badKeys |-> index.badKeys, asked |-> asked, sig |-> None,
                                       slips |-> {}]]
  /\ Checking
\* The name of the file is made of the version and the listed hash: every
\* install of this entry writes it, also while another one is reading it.
Write(i, c) ==
  /\ cache' = [cache EXCEPT ![inst[i].want] = c]
  /\ inst' = [j \in Installer |->
       IF j = i THEN [inst[i] EXCEPT !.pc = "hash"]
       ELSE IF /\ inst[j].want = inst[i].want /\ c # inst[j].want
               /\ inst[j].pc \in {"meta", "unpack"}
       THEN [inst[j] EXCEPT !.slips = @ \cup {inst[j].pc}] ELSE inst[j]]
  /\ UNCHANGED <<installed, vetted>> /\ Local
\* Mutant of Fetch: the file is written as it arrives, and a download may break.
FetchAsItComes(i) == At(i, "fetch") /\ \E c \in {inst[i].want, "other", "part"} : Write(i, c)
\* What comes may be anything.
Fetch(i) == At(i, "fetch") /\ \E c \in {inst[i].want, "other"} : Write(i, c)
\* The file must have the listed hash ...
CheckHash(i) ==
  /\ At(i, "hash")
  /\ IF cache[inst[i].want] = inst[i].want THEN To(i, "meta") ELSE Refuse(i)
  /\ Checking
\* ... and, read again, the entry's version in its metadata.
CheckMetadata(i) ==
  /\ At(i, "meta")
  /\ LET c == cache[inst[i].want]
     IN \/ /\ c = inst[i].want => VersionOf[c] = inst[i].version
           /\ To(i, IF inst[i].asked THEN "verify" ELSE "compare")
        \/ /\ c = inst[i].want => VersionOf[c] # inst[i].version
           /\ Refuse(i)
  /\ Checking

\* Mutant of TrustedKey: any key the store holds will do.
KnownKey(i, k)   == trust[k] # "absent" /\ k \notin inst[i].badKeys
TrustedKey(i, k) == trust[k] = "trusted" /\ k \notin inst[i].badKeys
\* The file is read a third time for the signed hash, the trust store for the key.
Verify(i) ==
  /\ At(i, "verify")
  /\ LET c == cache[inst[i].want]
     IN IF c \in Content /\ SignedBy[inst[i].want] # None /\ c = inst[i].want
           /\ TrustedKey(i, SignedBy[inst[i].want])
        THEN /\ inst' = [inst EXCEPT ![i].pc = "compare", ![i].sig = c]
             /\ vetted' = vetted \cup {c}
        ELSE Refuse(i) /\ UNCHANGED vetted
  /\ UNCHANGED <<cache, installed>> /\ Local

\* Mutant of Compare: whatever is older than what is installed goes.
CompareNothing(i) == At(i, "compare") /\ To(i, "load") /\ Checking
\* No downgrade, and no other content for the version that is installed.
Compare(i) ==
  /\ At(i, "compare")
  /\ IF \/ installed \in {None, inst[i].want}
        \/ Older(VersionOf[installed], inst[i].version)
        THEN To(i, "load") ELSE Refuse(i)
  /\ Checking

\* Mutant of LoadHash: the loader trusts its caller's checks.
LoadAsIs(i) == At(i, "load") /\ To(i, "unpack") /\ Checking
\* PluginLoader.install hashes the file once more; with a signature this hash
\* must be the signed one.
LoadHash(i) ==
  /\ At(i, "load")
  /\ IF inst[i].asked => cache[inst[i].want] = inst[i].sig THEN To(i, "unpack") ELSE Refuse(i)
  /\ Checking
Replace(i, c) ==
  /\ installed' = c
  /\ inst' = [j \in Installer |->
       IF j = i THEN IdleInst
       ELSE IF inst[j].pc \in {"load", "unpack"}
       THEN [inst[j] EXCEPT !.slips = @ \cup {"directory"}] ELSE inst[j]]
\* What is unpacked is read from the file after that.  The loader may refuse it
\* for reasons of its own.
Unpack(i) ==
  /\ At(i, "unpack")
  /\ LET c == cache[inst[i].want]
     IN \/ Refuse(i) /\ UNCHANGED installed
        \/ \E d \in IF c \in Content THEN {c} ELSE Content : Replace(i, d)
  /\ UNCHANGED <<cache, vetted>> /\ Local
-----------------------------------------------------------------------------
(* The trust store: read, change, write. *)

Begin(a) ==
  /\ edits < Edits /\ edits' = edits + 1
  /\ admin[a].pc = "idle"
  /\ \E k \in Key, to \in {"trusted", "revoked"} :
       /\ to = "revoked" => trust[k] # "absent"
       /\ admin' = [admin EXCEPT ![a] = [pc |-> "write", copy |-> [trust EXCEPT ![k] = to]]]
       /\ revoked' = IF to = "revoked" THEN revoked \cup {k} ELSE revoked \ {k}
  /\ clash' = (clash \/ \E b \in Admin \ {a} : admin[b].pc = "write")
  /\ UNCHANGED <<index, cache, installed, inst, trust, vetted>>
Commit(a) ==
  /\ admin[a].pc = "write"
  /\ trust' = admin[a].copy
  /\ admin' = [admin EXCEPT ![a] = IdleAdm]
  /\ UNCHANGED <<edits, index, cache, installed, inst, vetted, revoked, clash>>
-----------------------------------------------------------------------------
Next == \/ Publish
        \/ \E i \in Installer : \/ ReadIndex(i) \/ Fetch(i) \/ CheckHash(i) \/ CheckMetadata(i)
                                \/ Verify(i) \/ Compare(i) \/ LoadHash(i) \/ Unpack(i)
        \/ \E a \in Admin : Begin(a) \/ Commit(a)
Spec == Init /\ [][Next]_vars
-----------------------------------------------------------------------------
TypeOK ==
  /\ edits \in 0..Edits
  /\ index \in Index
  /\ cache \in [Content -> Content \cup {None, "other"}]
  /\ installed \in Content \cup {None}
  /\ inst \in [Installer -> Job]
  /\ trust \in Store
  /\ admin \in [Admin -> Edit]
  /\ vetted \subseteq Content
  /\ revoked \subseteq Key /\ clash \in BOOLEAN

\* The cache file is read five times, and others write it in between: still an
\* install that asks for signatures puts only a package that verified into the
\* plugin directory, unless the file was rewritten between the last two reads,
\* where the loader takes its hash and then unpacks it.
InstalledWasVetted ==
  [][\A i \in Installer :
       Unpack(i) /\ inst[i].asked /\ installed' # installed
         => installed' \in vetted \/ "unpack" \in inst[i].slips]_vars

\* While the operators take turns, a revoked key verifies no package until
\* someone adds it again, and one the index has revoked never does.
RevokedKeyStaysOut ==
  [][\A i \in Installer :
       Verify(i) /\ inst'[i].sig # None
         => LET k == SignedBy[inst'[i].sig]
            IN /\ k \notin inst[i].badKeys
               /\ k \in revoked => clash \/ \E a \in Admin : admin[a].pc = "write"]_vars

\* An install that asks for signatures replaces no version by an older one,
\* unless another process installed after the versions were compared, or
\* rewrote the file under one of the two reads whose content nothing checks.
NoDowngrade ==
  [][\A i \in Installer :
       Unpack(i) /\ inst[i].asked /\ inst[i].slips = {} /\ installed # None /\ installed' # None
         => ~Older(VersionOf[installed'], VersionOf[installed])]_vars
=============================================================================
