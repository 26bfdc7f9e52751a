------------------------ MODULE GatewayRequestsProofs -------------------------
(***************************************************************************)
(* What holds of GatewayRequests for every set of threads, hosts,          *)
(* addresses and rules: all five of its invariants.                        *)
(***************************************************************************)
EXTENDS GatewayRequests, TLAPS

(***************************************************************************)
(* Requests and their steps.                                               *)
(***************************************************************************)

LEMMA IdleFits ==
  /\ Unpinned \in Resolver
  /\ Idle \in Request /\ Idle.pc = "idle" /\ Idle.conn = None
BY DEF Unpinned, Resolver, Idle, Request, PC

\* A step that moves one request to its next place changes nothing else of it.
LEMMA Moved ==
  ASSUME th \in [Thread -> Request], NEW t \in Thread, NEW pc \in PC, To(t, pc)
  PROVE  /\ th' \in [Thread -> Request]
         /\ \A u \in Thread \ {t} : th'[u] = th[u]
         /\ th'[t].pc = pc /\ th'[t].use = th[t].use /\ th'[t].target = th[t].target
         /\ th'[t].addr = th[t].addr /\ th'[t].saved = th[t].saved /\ th'[t].conn = th[t].conn
<1> DEFINE r == [th[t] EXCEPT !.pc = pc]
<1>1. th' = [th EXCEPT ![t] = r]
  BY DEF To
<1>2. /\ r \in Request
      /\ r.pc = pc /\ r.use = th[t].use /\ r.target = th[t].target
      /\ r.addr = th[t].addr /\ r.saved = th[t].saved /\ r.conn = th[t].conn
  BY DEF Request
<1> HIDE DEF r
<1> QED
  BY <1>1, <1>2

LEMMA Ended ==
  ASSUME th \in [Thread -> Request], NEW t \in Thread, End(t)
  PROVE  /\ th' \in [Thread -> Request]
         /\ \A u \in Thread \ {t} : th'[u] = th[u]
         /\ th'[t].pc = "idle" /\ th'[t].conn = None
BY IdleFits DEF End

LEMMA Begun ==
  ASSUME th \in [Thread -> Request], NEW t \in Thread, Begin(t)
  PROVE  /\ th' \in [Thread -> Request]
         /\ \A u \in Thread \ {t} : th'[u] = th[u]
         /\ th'[t].pc = "require" /\ th'[t].conn = None
         /\ th'[t].use = "network.outbound" => th'[t].target \in Targets
<1>1. CASE \E p \in Plain : th' = [th EXCEPT ![t] = [Idle EXCEPT !.pc = "require", !.use = p]]
  <2> PICK p \in Plain : th' = [th EXCEPT ![t] = [Idle EXCEPT !.pc = "require", !.use = p]]
    BY <1>1
  <2> DEFINE r == [Idle EXCEPT !.pc = "require", !.use = p]
  <2>1. r \in Request /\ r.pc = "require" /\ r.conn = None /\ r.use # "network.outbound"
    BY IdleFits, GatewayAssumption DEF Idle, Request, PC
  <2>2. th' = [th EXCEPT ![t] = r]
    OBVIOUS
  <2> HIDE DEF r
  <2> QED
    BY <2>1, <2>2
<1>2. CASE \E q \in Targets : th' = [th EXCEPT ![t] =
             [Idle EXCEPT !.pc = "require", !.use = "network.outbound", !.target = q]]
  <2> PICK q \in Targets : th' = [th EXCEPT ![t] =
             [Idle EXCEPT !.pc = "require", !.use = "network.outbound", !.target = q]]
    BY <1>2
  <2> DEFINE r == [Idle EXCEPT !.pc = "require", !.use = "network.outbound", !.target = q]
  <2>1. r \in Request /\ r.pc = "require" /\ r.conn = None /\ r.target \in Targets
    BY IdleFits DEF Idle, Request, PC
  <2>2. th' = [th EXCEPT ![t] = r]
    OBVIOUS
  <2> HIDE DEF r
  <2> QED
    BY <2>1, <2>2
<1> QED
  BY <1>1, <1>2 DEF Begin

LEMMA Resolved ==
  ASSUME th \in [Thread -> Request], NEW t \in Thread, NEW a \in Addr,
         th' = [th EXCEPT ![t].pc = "capture", ![t].addr = a]
  PROVE  /\ th' \in [Thread -> Request]
         /\ \A u \in Thread \ {t} : th'[u] = th[u]
         /\ th'[t].pc = "capture" /\ th'[t].addr = a
         /\ th'[t].target = th[t].target /\ th'[t].conn = th[t].conn
<1> DEFINE r == [th[t] EXCEPT !.pc = "capture", !.addr = a]
<1>1. /\ r \in Request /\ r.pc = "capture" /\ r.addr = a
      /\ r.target = th[t].target /\ r.conn = th[t].conn
  BY DEF Request, PC
<1>2. th' = [th EXCEPT ![t] = r]
  OBVIOUS
<1> HIDE DEF r
<1> QED
  BY <1>1, <1>2

LEMMA Captured ==
  ASSUME th \in [Thread -> Request], resolver \in Resolver, NEW t \in Thread, Capture(t)
  PROVE  /\ th' \in [Thread -> Request]
         /\ \A u \in Thread \ {t} : th'[u] = th[u]
         /\ th'[t].pc = "pin" /\ th'[t].saved = resolver /\ th'[t].addr = th[t].addr
         /\ th'[t].target = th[t].target /\ th'[t].conn = th[t].conn
<1> DEFINE r == [th[t] EXCEPT !.pc = "pin", !.saved = resolver]
<1>1. /\ r \in Request /\ r.pc = "pin" /\ r.saved = resolver /\ r.addr = th[t].addr
      /\ r.target = th[t].target /\ r.conn = th[t].conn
  BY DEF Request, PC
<1>2. th' = [th EXCEPT ![t] = r]
  BY DEF Capture
<1> HIDE DEF r
<1> QED
  BY <1>1, <1>2

LEMMA Connected ==
  ASSUME th \in [Thread -> Request], NEW t \in Thread, NEW c \in Addr \cup {None},
         th' = [th EXCEPT ![t].pc = "unpin", ![t].conn = c]
  PROVE  /\ th' \in [Thread -> Request]
         /\ \A u \in Thread \ {t} : th'[u] = th[u]
         /\ th'[t].pc = "unpin" /\ th'[t].conn = c /\ th'[t].addr = th[t].addr
         /\ th'[t].target = th[t].target /\ th'[t].saved = th[t].saved
<1> DEFINE r == [th[t] EXCEPT !.pc = "unpin", !.conn = c]
<1>1. /\ r \in Request /\ r.pc = "unpin" /\ r.conn = c /\ r.addr = th[t].addr
      /\ r.target = th[t].target /\ r.saved = th[t].saved
  BY DEF Request, PC
<1>2. th' = [th EXCEPT ![t] = r]
  OBVIOUS
<1> HIDE DEF r
<1> QED
  BY <1>1, <1>2

(***************************************************************************)
(* Types, and what a request knows at each of its places.                  *)
(***************************************************************************)

Networked == {"allow", "resolve", "capture"} \cup Pinning

\* A request that is past its permissions has a target; one that is past the
\* resolution has the address it vetted; a connection was made to it.
Placed(t) ==
  /\ (th[t].pc \in Networked \/ (th[t].pc = "require" /\ th[t].use = "network.outbound"))
       => th[t].target \in Targets
  /\ th[t].pc \in {"capture"} \cup Pinning => th[t].addr \in Addr \ Private
  /\ th[t].conn # None => th[t].pc \in {"unpin", "check"} /\ th[t].conn = th[t].addr

\* Who holds the lock has its address pinned when it connects.
Pinned(t) ==
  /\ pinLock = t <=> th[t].pc \in {"connect", "unpin"}
  /\ th[t].pc = "connect" => resolver[th[t].target.host] = th[t].addr

Inv == /\ TypeOK
       /\ \A t \in Thread : Placed(t) /\ Pinned(t)

LEMMA InvInit == Init => Inv
<1> SUFFICES ASSUME Init PROVE Inv
  OBVIOUS
<1>1. resolver \in Resolver /\ th \in [Thread -> Request] /\ late \in [Thread -> Nat]
  BY IdleFits DEF Init
<1>2. \A t \in Thread : th[t].pc = "idle" /\ th[t].conn = None
  BY IdleFits DEF Init
<1>3. TypeOK
  BY <1>1 DEF Init, TypeOK
<1>4. \A t \in Thread : Placed(t) /\ Pinned(t)
  BY <1>2, GatewayAssumption DEF Init, Placed, Pinned, Networked, Pinning
<1> QED
  BY <1>3, <1>4 DEF Inv

\* A thread that does not move is where it was, while the lock and the pin are.
LEMMA StaysPlaced ==
  ASSUME NEW u \in Thread, Placed(u), th'[u] = th[u]
  PROVE  Placed(u)'
BY DEF Placed

LEMMA StaysPinned ==
  ASSUME NEW u \in Thread, Pinned(u), th'[u] = th[u], UNCHANGED <<resolver, pinLock>>
  PROVE  Pinned(u)'
BY DEF Pinned

\* A step outside the lock: the thread comes to a place where it holds nothing.
LEMMA StepOutside ==
  ASSUME Inv, NEW t \in Thread, th' \in [Thread -> Request],
         \A u \in Thread \ {t} : th'[u] = th[u],
         th[t].pc \notin {"connect", "unpin"}, th'[t].pc \notin {"connect", "unpin"},
         UNCHANGED <<rec, dns, resolver, pinLock>>, late' \in [Thread -> Nat],
         overlap' \in BOOLEAN, fooled' \in BOOLEAN, Placed(t)'
  PROVE  Inv'
<1>1. TypeOK'
  BY DEF Inv, TypeOK
<1>2. ASSUME NEW u \in Thread PROVE Placed(u)' /\ Pinned(u)'
  <2>1. CASE u = t
    BY <2>1 DEF Inv, Pinned
  <2>2. CASE u # t
    BY <2>2, StaysPlaced, StaysPinned DEF Inv
  <2> QED
    BY <2>1, <2>2
<1> QED
  BY <1>1, <1>2 DEF Inv

LEMMA InvStep == Inv /\ [Next]_vars => Inv'
<1> SUFFICES ASSUME Inv, [Next]_vars PROVE Inv'
  OBVIOUS
<1>0. /\ TypeOK /\ th \in [Thread -> Request] /\ resolver \in Resolver
      /\ late \in [Thread -> Nat] /\ overlap \in BOOLEAN /\ fooled \in BOOLEAN
      /\ \A t \in Thread : Placed(t) /\ Pinned(t)
      /\ dns \in [Host -> Addr] /\ pinLock \in Thread \cup {None}
  BY DEF Inv, TypeOK
<1>u. ASSUME NEW t \in Thread, Used(t) PROVE late' \in [Thread -> Nat]
  BY <1>u, <1>0 DEF Used
<1>e. ASSUME NEW t \in Thread, End(t), th[t].pc \notin {"connect", "unpin"},
             UNCHANGED <<rec, dns, resolver, pinLock>>, late' \in [Thread -> Nat],
             overlap' \in BOOLEAN, fooled' \in BOOLEAN
      PROVE  Inv'
  <2>1. Placed(t)'
    BY <1>0, <1>e, Ended DEF Placed, Networked, Pinning
  <2> QED
    BY <1>0, <1>e, <2>1, Ended, StepOutside
<1>1. ASSUME NEW t \in Thread, Begin(t) PROVE Inv'
  <2>1. Placed(t)'
    BY <1>0, <1>1, Begun DEF Placed, Networked, Pinning
  <2> QED
    BY <1>0, <1>1, <2>1, Begun, StepOutside DEF Begin, At, Others, Rest
<1>2. ASSUME NEW t \in Thread, Require(t) PROVE Inv'
  <2>1. CASE End(t)
    BY <1>0, <1>e, <1>2, <2>1 DEF Require, At, Others, Rest
  <2>2. CASE ~End(t)
    <3> DEFINE network == th[t].use = "network.outbound"
    <3>1. /\ th[t].pc = "require" /\ To(t, IF network THEN "allow" ELSE "act")
          /\ Others
      BY <1>2, <2>2 DEF Require, At
    <3>2. Placed(t)'
      BY <1>0, <3>1, Moved DEF Placed, Networked, Pinning, PC
    <3> QED
      BY <1>0, <3>1, <3>2, Moved, StepOutside DEF Others, Rest, PC
  <2> QED
    BY <2>1, <2>2
<1>3. ASSUME NEW t \in Thread, Act(t) PROVE Inv'
  BY <1>0, <1>e, <1>u, <1>3 DEF Act, At, Rest
<1>4. ASSUME NEW t \in Thread, Malformed(t) PROVE Inv'
  BY <1>0, <1>e, <1>4 DEF Malformed, Others, Rest
<1>5. ASSUME NEW t \in Thread, Allow(t) PROVE Inv'
  <2>1. CASE End(t)
    BY <1>0, <1>e, <1>5, <2>1 DEF Allow, At, Others, Rest
  <2>2. CASE ~End(t)
    <3>1. th[t].pc = "allow" /\ To(t, "resolve") /\ Others
      BY <1>5, <2>2 DEF Allow, At
    <3>2. Placed(t)'
      BY <1>0, <3>1, Moved DEF Placed, Networked, Pinning, PC
    <3> QED
      BY <1>0, <3>1, <3>2, Moved, StepOutside DEF Others, Rest, PC
  <2> QED
    BY <2>1, <2>2
<1>6. ASSUME NEW t \in Thread, Resolve(t) PROVE Inv'
  <2> DEFINE a == Lookup(th[t].target.host)
  <2>1. CASE End(t)
    BY <1>0, <1>e, <1>6, <2>1 DEF Resolve, At, Others, Rest
  <2>2. CASE ~End(t)
    <3>1. /\ th[t].pc = "resolve" /\ a \notin Private /\ Others
          /\ th' = [th EXCEPT ![t].pc = "capture", ![t].addr = a]
      BY <1>6, <2>2 DEF Resolve, At
    <3>2. th[t].target.host \in Host
      BY <1>0, <3>1, GatewayAssumption DEF Placed, Networked
    <3>3. a \in Addr
      BY <1>0, <3>2 DEF Lookup, Resolver
    <3> HIDE DEF a
    <3>4. Placed(t)'
      BY <1>0, <3>1, <3>3, Resolved DEF Placed, Networked, Pinning
    <3> QED
      BY <1>0, <3>1, <3>3, <3>4, Resolved, StepOutside DEF Others, Rest
  <2> QED
    BY <2>1, <2>2
<1>7. ASSUME NEW t \in Thread, Capture(t) PROVE Inv'
  <2>1. Placed(t)'
    BY <1>0, <1>7, Captured DEF Placed, Networked, Pinning, Capture, At
  <2>2. overlap' \in BOOLEAN
    BY <1>0, <1>7 DEF Capture
  <2> QED
    BY <1>0, <1>7, <2>1, <2>2, Captured, StepOutside DEF Capture, At, Rest
<1>8. ASSUME NEW t \in Thread, Pin(t) PROVE Inv'
  <2>1. /\ th[t].pc = "pin" /\ To(t, "connect") /\ pinLock = None /\ pinLock' = t
        /\ resolver' = [th[t].saved EXCEPT ![th[t].target.host] = th[t].addr]
        /\ UNCHANGED <<rec, dns, late, overlap, fooled>>
    BY <1>8 DEF Pin, At, Rest
  <2>2. th[t].target.host \in Host /\ th[t].addr \in Addr \ Private /\ th[t].saved \in Resolver
    BY <1>0, <2>1, GatewayAssumption DEF Placed, Networked, Pinning, Request
  <2>3. resolver' \in Resolver /\ resolver'[th[t].target.host] = th[t].addr
    BY <2>1, <2>2 DEF Resolver
  <2>4. TypeOK'
    BY <1>0, <2>1, <2>3, Moved DEF TypeOK, PC
  <2>5. Placed(t)' /\ Pinned(t)'
    BY <1>0, <2>1, <2>3, Moved DEF Placed, Pinned, Networked, Pinning, PC
  <2>6. ASSUME NEW u \in Thread \ {t} PROVE Placed(u)' /\ Pinned(u)'
    <3>1. th'[u] = th[u] /\ th[u].pc \notin {"connect", "unpin"}
      BY <1>0, <2>1, Moved, GatewayAssumption DEF Pinned, PC
    <3> QED
      BY <1>0, <2>1, <3>1, StaysPlaced DEF Pinned
  <2> QED
    BY <2>4, <2>5, <2>6 DEF Inv
<1>9. ASSUME NEW t \in Thread, Connect(t) PROVE Inv'
  <2> DEFINE a == Lookup(th[t].target.host)
  <2>1. th[t].pc = "connect" /\ pinLock = t /\ UNCHANGED <<rec, dns, resolver, pinLock, overlap, fooled>>
    BY <1>0, <1>9 DEF Connect, At, Rest, Pinned
  <2>2. a = th[t].addr /\ th[t].addr \in Addr \ Private
    BY <1>0, <2>1, GatewayAssumption DEF Placed, Pinned, Pinning, Lookup
  <2>3. PICK c \in {th[t].addr, None} : th' = [th EXCEPT ![t].pc = "unpin", ![t].conn = c]
    BY <1>9, <2>2 DEF Connect
  <2>4. TypeOK'
    BY <1>0, <1>u, <1>9, <2>1, <2>2, <2>3, Connected DEF TypeOK, Connect
  <2>c. /\ th'[t].pc = "unpin" /\ th'[t].conn = c /\ th'[t].addr = th[t].addr
        /\ th'[t].target = th[t].target
    BY <1>0, <2>2, <2>3, Connected
  <2>5. Placed(t)' /\ Pinned(t)'
    BY <1>0, <2>1, <2>2, <2>c DEF Placed, Pinned, Networked, Pinning
  <2>6. ASSUME NEW u \in Thread \ {t} PROVE Placed(u)' /\ Pinned(u)'
    <3>1. th'[u] = th[u]
      BY <1>0, <2>2, <2>3, Connected
    <3> QED
      BY <1>0, <2>1, <3>1, StaysPlaced, StaysPinned
  <2> QED
    BY <2>4, <2>5, <2>6 DEF Inv
<1>10. ASSUME NEW t \in Thread, Unpin(t) PROVE Inv'
  <2>1. /\ th[t].pc = "unpin" /\ pinLock = t /\ pinLock' = None /\ resolver' = th[t].saved
        /\ UNCHANGED <<rec, dns, late, overlap, fooled>>
        /\ (To(t, "check") \/ End(t))
    BY <1>0, <1>10 DEF Unpin, At, Rest, Pinned
  <2>2. resolver' \in Resolver
    BY <1>0, <2>1 DEF Request
  <2>3. /\ th' \in [Thread -> Request] /\ \A u \in Thread \ {t} : th'[u] = th[u]
        /\ \/ /\ th'[t].pc = "check" /\ th'[t].target = th[t].target
              /\ th'[t].addr = th[t].addr /\ th'[t].conn = th[t].conn
           \/ th'[t].pc = "idle" /\ th'[t].conn = None
    BY <1>0, <2>1, Moved, Ended DEF PC
  <2>4. TypeOK'
    BY <1>0, <2>1, <2>2, <2>3 DEF TypeOK
  <2>5. Placed(t)' /\ Pinned(t)'
    BY <1>0, <2>1, <2>3, GatewayAssumption DEF Placed, Pinned, Networked, Pinning
  <2>6. ASSUME NEW u \in Thread \ {t} PROVE Placed(u)' /\ Pinned(u)'
    <3>1. th'[u] = th[u] /\ th[u].pc \notin {"connect", "unpin"}
      BY <1>0, <2>1, <2>3 DEF Pinned
    <3> QED
      BY <1>0, <2>1, <3>1, StaysPlaced, GatewayAssumption DEF Pinned
  <2> QED
    BY <2>4, <2>5, <2>6 DEF Inv
<1>11. ASSUME NEW t \in Thread, Check(t) PROVE Inv'
  <2>1. fooled' \in BOOLEAN
    BY <1>0, <1>11 DEF Check
  <2> QED
    BY <1>0, <1>e, <1>11, <2>1 DEF Check, At, Rest
<1>12. ASSUME UNCHANGED <<th, resolver, pinLock>>, TypeOK' PROVE Inv'
  BY <1>0, <1>12 DEF Inv, Placed, Pinned
<1>13. CASE Govern
  BY <1>0, <1>12, <1>13 DEF Govern, TypeOK
<1>14. CASE Move
  BY <1>0, <1>12, <1>14 DEF Move, TypeOK
<1>15. CASE UNCHANGED vars
  BY <1>0, <1>12, <1>15 DEF vars, TypeOK
<1> QED
  BY <1>1, <1>2, <1>3, <1>4, <1>5, <1>6, <1>7, <1>8, <1>9, <1>10, <1>11, <1>13, <1>14, <1>15 DEF Next

LEMMA InvAlways == Spec => []Inv
BY InvInit, InvStep, PTL DEF Spec

\* Every variable keeps its type; among them the resolver of the process, which
\* never answers with a blocked address.
THEOREM TypeCorrect == Spec => []TypeOK
<1>1. Inv => TypeOK
  BY DEF Inv
<1> QED
  BY <1>1, InvAlways, PTL

\* Whatever threads do and hosts move, who connects holds the lock and has its
\* own address pinned: the connection goes to the address that was vetted.
THEOREM VettedConnections == Spec => []ConnectsAsVetted
<1>1. Inv => ConnectsAsVetted
  BY DEF Inv, Placed, Pinning, ConnectsAsVetted
<1> QED
  BY <1>1, InvAlways, PTL

(***************************************************************************)
(* A stop.                                                                 *)
(***************************************************************************)

\* A use of a stopped plugin is the last of its thread, which has only the
\* resolver to put back and the answer to look at.
Spent(t) ==
  \/ late[t] = 0
  \/ late[t] = 1 /\ rec.status = "stopped" /\ th[t].pc \in {"idle", "unpin", "check"}
AllSpent == \A t \in Thread : Spent(t)

LEMMA SpentInit == Init => AllSpent
BY DEF Init, AllSpent, Spent

LEMMA SpentStep == Inv /\ AllSpent /\ [Next]_vars => AllSpent'
<1> SUFFICES ASSUME Inv, AllSpent, [Next]_vars, NEW u \in Thread PROVE Spent(u)'
  BY DEF AllSpent
<1>0. /\ th \in [Thread -> Request] /\ late \in [Thread -> Nat] /\ Spent(u)
      /\ rec.status \in {"enabled", "stopped"} /\ resolver \in Resolver
  BY DEF Inv, TypeOK, AllSpent
<1>s. ASSUME UNCHANGED <<rec, late>>, th'[u].pc = th[u].pc PROVE Spent(u)'
  BY <1>0, <1>s DEF Spent
\* A step to a place where a spent thread may be, or of a thread that is not spent.
<1>m. ASSUME NEW t \in Thread, UNCHANGED <<rec, late>>,
             \A v \in Thread \ {t} : th'[v] = th[v],
             late[t] = 0 \/ th'[t].pc \in {"idle", "unpin", "check"}
      PROVE  Spent(u)'
  BY <1>0, <1>m DEF Spent
<1>e. ASSUME NEW t \in Thread, End(t), UNCHANGED <<rec, late>> PROVE Spent(u)'
  BY <1>0, <1>m, <1>e, Ended
<1>f. ASSUME NEW t \in Thread, th[t].pc \notin {"idle", "unpin", "check"} PROVE late[t] = 0
  BY <1>f DEF AllSpent, Spent
\* A use.
<1>u. ASSUME NEW t \in Thread, Used(t), UNCHANGED rec, late[t] = 0,
             \A v \in Thread \ {t} : th'[v] = th[v],
             th'[t].pc \in {"idle", "unpin", "check"}
      PROVE  Spent(u)'
  BY <1>0, <1>u DEF Used, Spent
<1>1. ASSUME NEW t \in Thread, Begin(t) PROVE Spent(u)'
  <2>1. late[t] = 0
    BY <1>1 DEF Begin, Enabled, AllSpent, Spent
  <2> QED
    BY <1>0, <1>1, <1>m, <2>1, Begun DEF Begin, Others, Rest
<1>2. ASSUME NEW t \in Thread, Require(t) \/ Allow(t) PROVE Spent(u)'
  <2>1. /\ late[t] = 0 /\ UNCHANGED <<rec, late>>
        /\ End(t) \/ \E pc \in PC : To(t, pc)
    BY <1>2, <1>f DEF Require, Allow, At, Others, Rest, PC
  <2> QED
    BY <1>0, <1>e, <1>m, <2>1, Moved
<1>3. ASSUME NEW t \in Thread, Act(t) PROVE Spent(u)'
  <2>1. late[t] = 0
    BY <1>3, <1>f DEF Act, At
  <2> QED
    BY <1>0, <1>3, <1>u, <2>1, Ended DEF Act, Rest
<1>4. ASSUME NEW t \in Thread, Malformed(t) \/ Check(t) PROVE Spent(u)'
  BY <1>4, <1>e DEF Malformed, Check, Others, Rest
<1>5. ASSUME NEW t \in Thread, Resolve(t) PROVE Spent(u)'
  <2>1. late[t] = 0 /\ UNCHANGED <<rec, late>>
    BY <1>5, <1>f DEF Resolve, At, Others, Rest
  <2>2. \A v \in Thread \ {t} : th'[v] = th[v]
    BY <1>0, <1>5, Ended DEF Resolve
  <2> QED
    BY <1>m, <2>1, <2>2
<1>6. ASSUME NEW t \in Thread, Capture(t) PROVE Spent(u)'
  <2>1. late[t] = 0
    BY <1>6, <1>f DEF Capture, At
  <2> QED
    BY <1>0, <1>6, <1>m, <2>1, Captured DEF Capture, Rest
<1>7. ASSUME NEW t \in Thread, Pin(t) PROVE Spent(u)'
  <2>1. late[t] = 0
    BY <1>7, <1>f DEF Pin, At
  <2> QED
    BY <1>0, <1>7, <1>m, <2>1, Moved DEF Pin, Rest, PC
<1>8. ASSUME NEW t \in Thread, Connect(t) PROVE Spent(u)'
  <2>1. late[t] = 0 /\ UNCHANGED rec /\ Used(t)
    BY <1>8, <1>f DEF Connect, At, Rest
  <2>2. /\ \A v \in Thread \ {t} : th'[v] = th[v]
        /\ th'[t].pc = "unpin"
    BY <1>0, <1>8 DEF Connect, Request
  <2> QED
    BY <1>u, <2>1, <2>2
<1>9. ASSUME NEW t \in Thread, Unpin(t) PROVE Spent(u)'
  <2>1. (To(t, "check") \/ End(t)) /\ UNCHANGED <<rec, late>>
    BY <1>9 DEF Unpin, Rest
  <2> QED
    BY <1>0, <1>m, <2>1, Moved, Ended DEF PC
<1>10. CASE Govern
  <2>1. rec \in [status : {"enabled", "stopped"}, plain : SUBSET Plain, rule : Grants]
    BY DEF Inv, TypeOK
  <2>2. CASE rec' = [rec EXCEPT !.status = "stopped"] /\ UNCHANGED late
    BY <1>0, <1>10, <2>1, <2>2 DEF Govern, Spent
  <2>3. CASE late' = [t \in Thread |-> 0]
    BY <2>3 DEF Spent
  <2> QED
    BY <1>10, <2>2, <2>3 DEF Govern
<1>11. CASE Move
  BY <1>11, <1>s DEF Move
<1>12. CASE UNCHANGED vars
  BY <1>12, <1>s DEF vars
<1> QED
  BY <1>1, <1>2, <1>3, <1>4, <1>5, <1>6, <1>7, <1>8, <1>9, <1>10, <1>11, <1>12 DEF Next

\* However many threads call a plugin, its stop lets each finish at most the
\* one use it had begun.
THEOREM StopReaches == Spec => []StopReachesRequests
<1>1. Inv /\ AllSpent => StopReachesRequests
  BY DEF AllSpent, Spent, StopReachesRequests
<1>2. Init => Inv /\ AllSpent
  BY InvInit, SpentInit
<1>3. (Inv /\ AllSpent) /\ [Next]_vars => (Inv /\ AllSpent)'
  BY InvStep, SpentStep
<1> QED
  BY <1>1, <1>2, <1>3, PTL DEF Spec

(***************************************************************************)
(* One request at a time between capture and check.                        *)
(***************************************************************************)

\* While requests take turns, the resolver that is put back is the plain one,
\* and it is in place whenever nobody holds the lock: also at a check.
Alone ==
  \/ overlap
  \/ /\ \A t, u \in Thread : th[t].pc \in Pinning /\ th[u].pc \in Pinning => t = u
     /\ \A t \in Thread : th[t].pc \in {"pin", "connect", "unpin"} => th[t].saved = Unpinned
     /\ (\A t \in Thread : th[t].pc \notin {"connect", "unpin"}) => resolver = Unpinned
     /\ ~fooled

LEMMA AloneInit == Init => Alone
BY IdleFits DEF Init, Alone, Pinning

LEMMA AloneStep == Inv /\ Alone /\ [Next]_vars => Alone'
<1> SUFFICES ASSUME Inv, Alone, [Next]_vars, ~overlap' PROVE Alone'
  BY DEF Alone
<1>0. /\ th \in [Thread -> Request] /\ resolver \in Resolver /\ dns \in [Host -> Addr]
      /\ \A t \in Thread : Placed(t)
  BY DEF Inv, TypeOK
<1>v. ~overlap
  <2>1. ASSUME UNCHANGED overlap PROVE ~overlap
    BY <2>1
  <2>2. ASSUME NEW t \in Thread, Capture(t) PROVE ~overlap
    BY <2>2 DEF Capture
  <2>3. ASSUME NEW t \in Thread, Begin(t) \/ Require(t) \/ Act(t) \/ Malformed(t) \/ Allow(t)
                                  \/ Resolve(t) \/ Pin(t) \/ Connect(t) \/ Unpin(t) \/ Check(t)
        PROVE  ~overlap
    BY <2>1, <2>3 DEF Begin, Require, Act, Malformed, Allow, Resolve, Pin, Connect, Unpin, Check, Others
  <2>4. CASE Govern \/ Move \/ UNCHANGED vars
    BY <2>1, <2>4 DEF Govern, Move, vars
  <2> QED
    BY <2>2, <2>3, <2>4 DEF Next
<1>a. /\ \A t, u \in Thread : th[t].pc \in Pinning /\ th[u].pc \in Pinning => t = u
      /\ \A t \in Thread : th[t].pc \in {"pin", "connect", "unpin"} => th[t].saved = Unpinned
      /\ (\A t \in Thread : th[t].pc \notin {"connect", "unpin"}) => resolver = Unpinned
      /\ ~fooled
  BY <1>v DEF Alone
\* A step of a thread outside the pinned part, or out of it.
<1>e. ASSUME NEW t \in Thread, \A u \in Thread \ {t} : th'[u] = th[u],
             th[t].pc \notin {"connect", "unpin"}, th'[t].pc \notin Pinning,
             UNCHANGED resolver, ~fooled'
      PROVE  Alone'
  BY <1>a, <1>e DEF Alone, Pinning
<1>1. ASSUME NEW t \in Thread, Begin(t) PROVE Alone'
  BY <1>0, <1>a, <1>e, <1>1, Begun DEF Begin, At, Others, Pinning
<1>2. ASSUME NEW t \in Thread, Require(t) \/ Allow(t) PROVE Alone'
  <2>1. /\ th[t].pc \in {"require", "allow"} /\ UNCHANGED <<resolver, fooled>>
        /\ End(t) \/ \E pc \in PC \ Pinning : To(t, pc)
    BY <1>2 DEF Require, Allow, At, Others, PC, Pinning
  <2> QED
    BY <1>0, <1>a, <1>e, <2>1, Moved, Ended DEF Pinning
<1>3. ASSUME NEW t \in Thread, Act(t) \/ Malformed(t) PROVE Alone'
  BY <1>0, <1>a, <1>e, <1>3, Ended DEF Act, Malformed, At, Others, Pinning
<1>4. ASSUME NEW t \in Thread, Resolve(t) PROVE Alone'
  <2>1. th[t].pc = "resolve" /\ UNCHANGED <<resolver, fooled>>
    BY <1>4 DEF Resolve, At, Others
  <2>2. /\ \A u \in Thread \ {t} : th'[u] = th[u]
        /\ th'[t].pc \in {"idle", "capture"}
    BY <1>0, <1>4, IdleFits DEF Resolve, End, Request
  <2> QED
    BY <1>a, <1>e, <2>1, <2>2 DEF Pinning
<1>5. ASSUME NEW t \in Thread, Capture(t) PROVE Alone'
  <2>1. /\ \A u \in Thread \ {t} : th[u].pc \notin Pinning
        /\ th[t].pc = "capture" /\ UNCHANGED <<resolver, fooled>>
    BY <1>5 DEF Capture, At
  <2>2. resolver = Unpinned
    BY <1>a, <2>1 DEF Pinning
  <2> QED
    BY <1>0, <1>5, <1>a, <2>1, <2>2, Captured DEF Alone, Pinning
\* Pin and Connect: the thread stays in the pinned part.
<1>6. ASSUME NEW t \in Thread, Pin(t) \/ Connect(t) PROVE Alone'
  <2>1. /\ th[t].pc \in {"pin", "connect"} /\ UNCHANGED fooled
        /\ \A u \in Thread \ {t} : th'[u] = th[u]
        /\ th'[t].pc \in {"connect", "unpin"} /\ th'[t].saved = th[t].saved
    BY <1>0, <1>6, Moved DEF Pin, Connect, At, PC, Request
  <2> QED
    BY <1>a, <2>1 DEF Alone, Pinning
<1>7. ASSUME NEW t \in Thread, Unpin(t) PROVE Alone'
  <2>1. /\ th[t].pc = "unpin" /\ UNCHANGED fooled /\ resolver' = th[t].saved
        /\ (To(t, "check") \/ End(t))
    BY <1>7 DEF Unpin, At
  <2>2. \A u \in Thread \ {t} : th'[u] = th[u]
    BY <1>0, <2>1, Moved, Ended DEF PC
  <2>3. th'[t].pc \in {"check", "idle"}
    BY <1>0, <2>1, Moved, Ended DEF PC
  <2> QED
    BY <1>a, <2>1, <2>2, <2>3 DEF Alone, Pinning
<1>8. ASSUME NEW t \in Thread, Check(t) PROVE Alone'
  <2>1. th[t].pc = "check" /\ UNCHANGED resolver
    BY <1>8 DEF Check, At
  <2>2. resolver = Unpinned /\ th[t].target.host \in Host
    BY <1>0, <1>a, <2>1, GatewayAssumption DEF Pinning, Placed, Networked
  <2>3. Lookup(th[t].target.host) = dns[th[t].target.host]
    BY <2>2 DEF Lookup, Unpinned
  <2>4. ~fooled'
    BY <1>8, <1>a, <2>3 DEF Check
  <2> QED
    BY <1>0, <1>8, <1>e, <2>1, <2>4, Ended DEF Check, Pinning
<1>9. ASSUME UNCHANGED <<th, resolver, fooled>> PROVE Alone'
  BY <1>a, <1>9 DEF Alone
<1>10. CASE Govern \/ Move \/ UNCHANGED vars
  BY <1>9, <1>10 DEF Govern, Move, vars
<1> QED
  BY <1>1, <1>2, <1>3, <1>4, <1>5, <1>6, <1>7, <1>8, <1>10 DEF Next

LEMMA AloneAlways == Spec => []Alone
<1>1. Init => Inv /\ Alone
  BY InvInit, AloneInit
<1>2. (Inv /\ Alone) /\ [Next]_vars => (Inv /\ Alone)'
  BY InvStep, AloneStep
<1> QED
  BY <1>1, <1>2, PTL DEF Spec

\* A request that no other overlaps is not taken in by a host that moves: the
\* check asks the plain resolver.
THEOREM AloneNotFooled == Spec => []RebindingSeenAlone
<1>1. Alone => RebindingSeenAlone
  BY DEF Alone, RebindingSeenAlone
<1> QED
  BY <1>1, AloneAlways, PTL

\* And it leaves the process the resolver it found.
THEOREM AloneRestores == Spec => []ResolverComesBack
<1>1. Alone => ResolverComesBack
  BY DEF Alone, ResolverComesBack
<1> QED
  BY <1>1, AloneAlways, PTL
=============================================================================
