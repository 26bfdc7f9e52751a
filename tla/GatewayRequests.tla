---------------------------- MODULE GatewayRequests ----------------------------
(***************************************************************************)
(* What the gateway does with the requests of a plugin's calls: the checks *)
(* of the record, the whitelist, and the network request with its pinned   *)
(* resolver.  socket.getaddrinfo is one variable of the process: requests  *)
(* of several threads replace it and put it back.                          *)
(***************************************************************************)
EXTENDS Naturals, FiniteSets

CONSTANTS Thread, Host, Addr,
          Private,       \* addresses that are blocked
          Plain,         \* permissions that are checked once, then used
          Targets,       \* network requests: [scheme, host, port, path, method]
          Declared,      \* the network rule the plugin declares
          Grants         \* network rules an operator may grant

None == "none"
ASSUME GatewayAssumption ==
  /\ Private \subseteq Addr /\ None \notin Addr /\ None \notin Thread
  /\ "network.outbound" \notin Plain
  /\ \A r \in Targets : r.host \in Host

VARIABLES rec,        \* what the gateway knows of the plugin: [status, plain, rule]
          dns,        \* what the name servers say
          resolver,   \* per host: a pinned address, or none
          pinLock,    \* _DNS_PIN_LOCK
          th,         \* the request of each thread
          late,       \* history: uses of a permission since the plugin was stopped
          overlap,    \* history: two requests were between pin and check at once
          fooled      \* history: a request passed though its host had moved
vars == <<rec, dns, resolver, pinLock, th, late, overlap, fooled>>

Unpinned == [h \in Host |-> None]
PC       == {"idle", "require", "act", "allow", "resolve", "capture", "pin", "connect", "unpin", "check"}
NoTarget == [scheme |-> None, host |-> None, port |-> 0, path |-> None, method |-> None]
Resolver == [Host -> (Addr \ Private) \cup {None}]
Request  == [pc : PC, use : Plain \cup {"network.outbound", None}, target : Targets \cup {NoTarget},
             addr : Addr \cup {None}, saved : Resolver, conn : Addr \cup {None}]
Idle     == [pc |-> "idle", use |-> None, target |-> NoTarget, addr |-> None, saved |-> Unpinned,
             conn |-> None]
NoRule   == {}

Init ==
  /\ rec \in [status : {"enabled"}, plain : SUBSET Plain, rule : Grants]
  /\ dns \in [Host -> Addr]
  /\ resolver = Unpinned
  /\ pinLock = None
  /\ th = [t \in Thread |-> Idle]
  /\ late = [t \in Thread |-> 0]
  /\ overlap = FALSE /\ fooled = FALSE
-----------------------------------------------------------------------------
(* The checks. *)

\* Mutant of Enabled: any plugin that is registered.
Registered == rec.status \in {"enabled", "stopped"}
Enabled    == rec.status = "enabled"

\* A rule is a set of patterns [scheme, host, port, path, methods]; TRUE for a
\* rule allows nothing.  A pattern without a path allows every path (one
\* without methods has both of them); the port must be the same, or absent in both.
PatternAllows(p, r) ==
  /\ r.method \in p.methods
  /\ p.port = r.port /\ p.scheme = r.scheme /\ p.host = r.host
  /\ p.path \in {None, r.path}
RuleAllows(rule, r) == \E p \in rule : PatternAllows(p, r)
Whitelisted(r) == RuleAllows(Declared, r) /\ RuleAllows(rec.rule, r)

Lookup(h) == IF resolver[h] = None THEN dns[h] ELSE resolver[h]
-----------------------------------------------------------------------------
(* One request: Begin, then the steps of network_request or the one use. *)

At(t, pc) == th[t].pc = pc
To(t, pc) == th' = [th EXCEPT ![t].pc = pc]
End(t)    == th' = [th EXCEPT ![t] = Idle]
Used(t)   == late' = [late EXCEPT ![t] = IF rec.status = "enabled" THEN @ ELSE @ + 1]
Rest      == UNCHANGED <<rec, dns>>
Others    == UNCHANGED <<resolver, pinLock, late, overlap, fooled>> /\ Rest

\* handle_sandbox_request: an unknown plugin, a stopped one or an unknown
\* request is refused at once.
Begin(t) ==
  /\ At(t, "idle") /\ Enabled
  /\ \/ \E p \in Plain : th' = [th EXCEPT ![t] = [Idle EXCEPT !.pc = "require", !.use = p]]
     \/ \E r \in Targets :
          th' = [th EXCEPT ![t] = [Idle EXCEPT !.pc = "require", !.use = "network.outbound", !.target = r]]
  /\ Others

\* _require; for the network, also that a rule is declared.
Require(t) ==
  /\ At(t, "require")
  /\ LET network == th[t].use = "network.outbound"
         granted == IF network THEN rec.rule # NoRule /\ Declared # NoRule ELSE th[t].use \in rec.plain
     IN IF Enabled /\ granted THEN To(t, IF network THEN "allow" ELSE "act") ELSE End(t)
  /\ Others
\* The memory, the configuration, a file, the output.
Act(t) ==
  /\ At(t, "act")
  /\ Used(t) /\ End(t)
  /\ UNCHANGED <<resolver, pinLock, overlap, fooled>> /\ Rest
\* The shape of the request is judged first: URL, method, time-out, headers, body.
Malformed(t) == /\ th[t].pc \in {"allow", "act"}
                /\ End(t) /\ Others
Allow(t) ==
  /\ At(t, "allow")
  /\ IF Enabled /\ Whitelisted(th[t].target) THEN To(t, "resolve") ELSE End(t)
  /\ Others
Resolve(t) ==
  /\ At(t, "resolve")
  /\ LET a == Lookup(th[t].target.host)
     IN IF a \in Private THEN End(t)
        ELSE th' = [th EXCEPT ![t].pc = "capture", ![t].addr = a]
  /\ Others

Pinning == {"pin", "connect", "unpin", "check"}
\* The resolver to put back is read before the lock is taken.
Capture(t) ==
  /\ At(t, "capture")
  /\ th' = [th EXCEPT ![t].pc = "pin", ![t].saved = resolver]
  /\ overlap' = (overlap \/ \E u \in Thread \ {t} : th[u].pc \in Pinning)
  /\ UNCHANGED <<resolver, pinLock, late, fooled>> /\ Rest
\* Mutant of Pin: no lock around the pinned resolver.
PinUnlocked(t) ==
  /\ At(t, "pin")
  /\ resolver' = [th[t].saved EXCEPT ![th[t].target.host] = th[t].addr]
  /\ To(t, "connect")
  /\ UNCHANGED <<pinLock, late, overlap, fooled>> /\ Rest
Pin(t) ==
  /\ At(t, "pin") /\ pinLock = None
  /\ pinLock' = t
  /\ resolver' = [th[t].saved EXCEPT ![th[t].target.host] = th[t].addr]
  /\ To(t, "connect")
  /\ UNCHANGED <<late, overlap, fooled>> /\ Rest
\* The connection is made, or fails: an HTTP error, a redirect, no answer.
Connect(t) ==
  /\ At(t, "connect")
  /\ \E made \in BOOLEAN :
       th' = [th EXCEPT ![t].pc = "unpin", ![t].conn = IF made THEN Lookup(th[t].target.host) ELSE None]
  /\ Used(t)
  /\ UNCHANGED <<resolver, pinLock, overlap, fooled>> /\ Rest
\* Mutant of Unpin: the host keeps the address it has now.
UnpinForgets(t) ==
  /\ At(t, "unpin")
  /\ pinLock' = None
  /\ resolver' = [h \in Host |-> IF h = th[t].target.host THEN dns[h] ELSE resolver[h]]
  /\ IF th[t].conn # None THEN To(t, "check") ELSE End(t)
  /\ UNCHANGED <<late, overlap, fooled>> /\ Rest
\* Mutant of Unpin: a connection that failed leaves the pin.
UnpinAfterSuccess(t) ==
  /\ At(t, "unpin")
  /\ pinLock' = None
  /\ resolver' = IF th[t].conn # None THEN th[t].saved ELSE resolver
  /\ IF th[t].conn # None THEN To(t, "check") ELSE End(t)
  /\ UNCHANGED <<late, overlap, fooled>> /\ Rest
Unpin(t) ==
  /\ At(t, "unpin")
  /\ pinLock' = None
  /\ resolver' = th[t].saved
  /\ IF th[t].conn # None THEN To(t, "check") ELSE End(t)
  /\ UNCHANGED <<late, overlap, fooled>> /\ Rest
\* Mutant of Check: the addresses are compared with those of the connection.
CheckConnection(t) ==
  /\ At(t, "check")
  /\ fooled' = (fooled \/ (th[t].conn = th[t].addr /\ dns[th[t].target.host] # th[t].addr))
  /\ End(t)
  /\ UNCHANGED <<resolver, pinLock, late, overlap>> /\ Rest
\* The second resolution must give the addresses of the first, or the response
\* is dropped; a response that is too long or has bad headers is dropped, too.
Check(t) ==
  /\ At(t, "check")
  /\ LET h == th[t].target.host
     IN fooled' = (fooled \/ (Lookup(h) = th[t].addr /\ dns[h] # th[t].addr))
  /\ End(t)
  /\ UNCHANGED <<resolver, pinLock, late, overlap>> /\ Rest
-----------------------------------------------------------------------------
(* The operator and the name servers. *)

Govern ==
  /\ \/ /\ rec' = [rec EXCEPT !.status = "stopped"]
        /\ UNCHANGED late
     \/ /\ \E plain \in SUBSET Plain, rule \in Grants :
             rec' = [status |-> "enabled", plain |-> plain, rule |-> rule]
        /\ late' = [t \in Thread |-> 0]
  /\ UNCHANGED <<dns, resolver, pinLock, th, overlap, fooled>>
Move ==
  /\ \E h \in Host, a \in Addr : dns' = [dns EXCEPT ![h] = a]
  /\ UNCHANGED <<rec, resolver, pinLock, th, late, overlap, fooled>>
-----------------------------------------------------------------------------
Next == \/ \E t \in Thread : \/ Begin(t) \/ Require(t) \/ Act(t) \/ Malformed(t) \/ Allow(t)
                             \/ Resolve(t) \/ Capture(t) \/ Pin(t) \/ Connect(t) \/ Unpin(t) \/ Check(t)
        \/ Govern \/ Move
Spec == Init /\ [][Next]_vars
-----------------------------------------------------------------------------
TypeOK ==
  /\ rec \in [status : {"enabled", "stopped"}, plain : SUBSET Plain, rule : Grants]
  /\ dns \in [Host -> Addr]
  /\ resolver \in Resolver
  /\ pinLock \in Thread \cup {None}
  /\ th \in [Thread -> Request]
  /\ late \in [Thread -> Nat] /\ overlap \in BOOLEAN /\ fooled \in BOOLEAN

\* However requests overlap and hosts move, a connection goes to the address
\* that was vetted for this very request, which is never a blocked one.
ConnectsAsVetted ==
  \A t \in Thread : th[t].conn # None => th[t].conn = th[t].addr /\ th[t].conn \notin Private

\* A request that is alone between its pin and its check notices that its host
\* has moved, and leaves the resolver as it found it.
RebindingSeenAlone == ~overlap => ~fooled
ResolverComesBack ==
  ~overlap /\ (\A t \in Thread : th[t].pc \notin {"connect", "unpin"}) => resolver = Unpinned

\* A stop reaches the requests of a call that is still running: each thread
\* finishes at most the use it had begun.
StopReachesRequests == \A t \in Thread : late[t] <= 1

\* PRODUCTION_CHECKLIST.md: the gateway rejects DNS rebinding.
RebindingRejected == ~fooled
=============================================================================
