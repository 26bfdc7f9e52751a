---------------------------- MODULE PluginEngine ----------------------------
(***************************************************************************)
(* PluginEngine (engine.py) and what it coordinates for one plugin: the    *)
(* sandbox objects (sandbox.py), the gateway's tables (gateway.py), the    *)
(* listeners on the event bus (event_bus.py) and the runtime state with    *)
(* its semaphore and failure counter.  Several threads of one process call *)
(* the engine, which takes no lock: a call is split wherever another       *)
(* thread sees the difference.  The plugin runs in a subprocess.           *)
(*                                                                         *)
(* The loader changes the status of its record without a lock: the check   *)
(* and the write of a transition are two steps.  What other processes do   *)
(* to its files is in PluginLoader.                                        *)
(***************************************************************************)
EXTENDS PluginStatus, FiniteSets, Naturals

CONSTANTS
  Thread,     \* the threads that call the engine
  Ops,        \* bound: the operations they call
  Pkg,        \* the packages of the plugin
  Limit,      \* [Pkg -> runtime.max_concurrency]
  Trips,      \* the packages with runtime.disable_on_failure_threshold
  Threshold,  \* runtime.failure_threshold
  Entries,    \* middleware entries of the plugin
  Box,        \* bound: the sandbox objects that exist at one time
  FailBound,  \* bound: failures in a row after which nobody calls any more
  None

Uses  == {"tool", "provider", "middleware"}
Stops == {"stop", "disable", "quarantine", "revoke"}

ASSUME EngineAssumption ==
  /\ IsFiniteSet(Thread)
  /\ Ops \subseteq Uses \cup Stops \cup {"start", "publish", "enable", "install", "discover"}
  /\ Limit \in [Pkg -> Nat \ {0}]
  /\ Trips \subseteq Pkg
  /\ Threshold \in Nat \ {0}
  /\ Entries \in Nat \ {0}
  /\ Box \subseteq Nat /\ IsFiniteSet(Box)
  /\ FailBound \in Nat
  /\ None \notin Pkg /\ None \notin Nat

VARIABLES
  rec,      \* the record loader.installed_plugins holds: package and status
  gate,     \* the record gateway.plugins holds, see Holder
  slot,     \* engine.sandboxes[name]
  active,   \* gateway.active_sandboxes[name]
  live,     \* the sandboxes whose process runs
  subs,     \* the callbacks on the event bus, named after the start that made them
  own,      \* those the engine remembers in _event_listener_callbacks[name]
  limiter,  \* _runtime_states[name]: semaphore and consecutive_failures
  th,       \* [Thread -> its current call]
  streak,   \* history: failures recorded since the last success, enable or install
  overtaken \* history: a status was written that its check would have refused by then

vars == <<rec, gate, slot, active, live, subs, own, limiter, th, streak, overtaken>>

(***************************************************************************)
(* The loader changes the status of its record in place, so whoever holds  *)
(* the same object sees it: "shared".  A discovery and an install make a   *)
(* new object and leave the holders of the old one with the status it had. *)
(***************************************************************************)
Holder == {"none", "shared"} \cup Status

StatusOf(h) == IF h = "shared" THEN rec.status ELSE h

(***************************************************************************)
(* A call: the operation, the step it is at, the status it leads to,       *)
(* the sandbox object and the record it holds, the permit it owns ("old"   *)
(* when the semaphore it came from has been replaced) and what is left of  *)
(* a loop over middleware entries or event callbacks.                      *)
(***************************************************************************)
PC == {"idle", "check", "launch", "boot", "register", "listen", "lookup",
       "deliver", "admit", "create", "run", "work",
       "unlisten", "pop", "halt", "deregister", "settle", "assign", "mirror"}

Goal == {"none", "disabled", "quarantined", "revoked", "enabled"}

Call == [op : Ops \cup {"none"}, pc : PC, goal : Goal, sb : Box \cup {None},
         hold : Holder, permit : {"none", "current", "old"}, todo : Nat]

Idle == [op |-> "none", pc |-> "idle", goal |-> "none", sb |-> None,
         hold |-> "none", permit |-> "none", todo |-> 0]

AllIdle == \A t \in Thread : th[t].pc = "idle"

Limiter == [cap : Nat, free : Nat, fails : Nat]

ASSUME StateAssumption == None \notin Limiter

TypeOK ==
  /\ rec \in [pkg : Pkg, status : Status]
  /\ gate \in Holder
  /\ slot \in Box \cup {None}
  /\ active \in Box \cup {None}
  /\ live \subseteq Box
  /\ subs \subseteq Box
  /\ own \in Box \cup {None}
  /\ limiter \in Limiter \cup {None}
  /\ th \in [Thread -> Call]
  /\ streak \in Nat
  /\ overtaken \in BOOLEAN

\* The engine of a new process: the plugin is as _default_status left it.
Init ==
  /\ rec \in [pkg : Pkg, status : {"pending_approval", "enabled"}]
  /\ gate = "none"
  /\ slot = None
  /\ active = None
  /\ live = {}
  /\ subs = {}
  /\ own = None
  /\ limiter = None
  /\ th = [t \in Thread |-> Idle]
  /\ streak = 0
  /\ overtaken = FALSE

Goto(t, step) == th' = [th EXCEPT ![t].pc = step]

\* The call returns or raises.
Leave(t) == th' = [th EXCEPT ![t] = Idle]

(***************************************************************************)
(* Calls begin.                                                            *)
(***************************************************************************)

Free == Box \ (live \cup subs \cup {slot, active, own} \cup {th[t].sb : t \in Thread})

\* A call begins only while the bounds leave room for what it may create.
Room == Cardinality(Free) >= Cardinality(Thread)
Calm == limiter # None => limiter.fails < FailBound

Begin(t, o, step, goal, todo) ==
  /\ o \in Ops
  /\ th[t].pc = "idle"
  /\ th' = [th EXCEPT ![t] = [Idle EXCEPT !.op = o, !.pc = step, !.goal = goal, !.todo = todo]]
  /\ UNCHANGED <<rec, gate, slot, active, live, subs, own, limiter, streak, overtaken>>

BeginStart(t) == Room /\ Begin(t, "start", "check", "none", 0)

\* call_tool, call_memory_provider and run_middlewares start the plugin when
\* engine.sandboxes does not hold it.
BeginUse(t) ==
  \E o \in Uses :
    /\ Room /\ Calm
    /\ Begin(t, o, IF slot = None THEN "check" ELSE "lookup", "none",
             IF o = "middleware" THEN Entries ELSE 1)

\* EventBus.publish goes through a copy of the callbacks.
BeginPublish(t) == Calm /\ Begin(t, "publish", "deliver", "none", Cardinality(subs))

GoalOf == [o \in Stops |->
             CASE o = "stop" -> "none" [] o = "disable" -> "disabled"
               [] o = "quarantine" -> "quarantined" [] o = "revoke" -> "revoked"]

\* Mutant of BeginStop: disable changes the status and leaves the plugin running.
BeginStopRunning(t) ==
  \E o \in Stops : Begin(t, o, IF o = "disable" THEN "settle" ELSE "unlisten", GoalOf[o], 0)

BeginStop(t) == \E o \in Stops : Begin(t, o, "unlisten", GoalOf[o], 0)

(***************************************************************************)
(* start_plugin.  Free sandbox objects are taken in order.  A policy, the  *)
(* integrity check or the scan of the code may refuse at any time.         *)
(***************************************************************************)

\* The record is looked up once; SandboxManager keeps it as installed_plugin.
StartCheck(t) ==
  /\ th[t].pc = "check"
  /\ rec.status = "enabled"
  /\ \E b \in Free :
       /\ \A c \in Free : b <= c
       /\ th' = [th EXCEPT ![t].pc = "launch", ![t].sb = b, ![t].hold = "shared"]
  /\ UNCHANGED <<rec, gate, slot, active, live, subs, own, limiter, streak, overtaken>>

StartRefused(t) ==
  /\ th[t].pc \in {"check", "launch"}
  /\ Leave(t)
  /\ UNCHANGED <<rec, gate, slot, active, live, subs, own, limiter, streak, overtaken>>

\* SandboxManager.start.
Launch(t) ==
  /\ th[t].pc = "launch"
  /\ StatusOf(th[t].hold) = "enabled"
  /\ gate' = th[t].hold
  /\ live' = live \cup {th[t].sb}
  /\ Goto(t, "boot")
  /\ UNCHANGED <<rec, slot, active, subs, own, limiter, streak, overtaken>>

\* The worker reports an error or nothing within five seconds.
BootFail(t) ==
  /\ th[t].pc = "boot"
  /\ live' = live \ {th[t].sb}
  /\ Leave(t)
  /\ UNCHANGED <<rec, gate, slot, active, subs, own, limiter, streak, overtaken>>

Ready(t) ==
  /\ th[t].pc = "boot"
  /\ slot' = th[t].sb
  /\ Goto(t, "register")
  /\ UNCHANGED <<rec, gate, active, live, subs, own, limiter, streak, overtaken>>

\* gateway.register_sandbox.
Register(t) ==
  /\ th[t].pc = "register"
  /\ active' = th[t].sb
  /\ gate' = th[t].hold
  /\ Goto(t, "listen")
  /\ UNCHANGED <<rec, slot, live, subs, own, limiter, streak, overtaken>>

\* _register_event_listeners: the list of callbacks is replaced, not extended.
Listen(t) ==
  /\ th[t].pc = "listen"
  /\ subs' = subs \cup {th[t].sb}
  /\ own' = th[t].sb
  /\ IF th[t].op = "start" THEN Leave(t)
     ELSE th' = [th EXCEPT ![t].pc = "lookup", ![t].hold = "none"]
  /\ UNCHANGED <<rec, gate, slot, active, live, limiter, streak, overtaken>>

(***************************************************************************)
(* stop_plugin, then the status a disable, a quarantine or a revoke sets.  *)
(***************************************************************************)

\* _unregister_event_listeners.
Unlisten(t) ==
  /\ th[t].pc = "unlisten"
  /\ subs' = subs \ {own}
  /\ own' = None
  /\ Goto(t, "pop")
  /\ UNCHANGED <<rec, gate, slot, active, live, limiter, streak, overtaken>>

AfterStop(t) ==
  IF th[t].goal = "none" THEN Leave(t)
  ELSE th' = [th EXCEPT ![t].pc = "settle", ![t].sb = None]

\* Mutant of Pop: the sandbox is looked up and left in engine.sandboxes.
PopKept(t) ==
  /\ th[t].pc = "pop"
  /\ IF slot = None THEN AfterStop(t)
     ELSE th' = [th EXCEPT ![t].pc = "halt", ![t].sb = slot]
  /\ UNCHANGED <<rec, gate, slot, active, live, subs, own, limiter, streak, overtaken>>

Pop(t) ==
  /\ th[t].pc = "pop"
  /\ slot' = None
  /\ IF slot = None THEN AfterStop(t)
     ELSE th' = [th EXCEPT ![t].pc = "halt", ![t].sb = slot]
  /\ UNCHANGED <<rec, gate, active, live, subs, own, limiter, streak, overtaken>>

\* Mutant of Halt: the stop waits for the calls in progress.
HaltPatient(t) ==
  /\ th[t].pc = "halt"
  /\ \A u \in Thread : ~(th[u].pc = "work" /\ th[u].sb = th[t].sb)
  /\ live' = live \ {th[t].sb}
  /\ Goto(t, "deregister")
  /\ UNCHANGED <<rec, gate, slot, active, subs, own, limiter, streak, overtaken>>

\* SandboxManager.stop: whatever is running in the sandbox is killed.
Halt(t) ==
  /\ th[t].pc = "halt"
  /\ live' = live \ {th[t].sb}
  /\ Goto(t, "deregister")
  /\ UNCHANGED <<rec, gate, slot, active, subs, own, limiter, streak, overtaken>>

\* Mutant of Deregister: the gateway is not told.
DeregisterSkipped(t) ==
  /\ th[t].pc = "deregister"
  /\ AfterStop(t)
  /\ UNCHANGED <<rec, gate, slot, active, live, subs, own, limiter, streak, overtaken>>

\* gateway.unregister_sandbox goes by name, whichever sandbox is there.
Deregister(t) ==
  /\ th[t].pc = "deregister"
  /\ active' = None
  /\ AfterStop(t)
  /\ UNCHANGED <<rec, gate, slot, live, subs, own, limiter, streak, overtaken>>

\* The semaphore after the call whose record is c gives its permit back.
Returned(l, c) == IF c.permit = "current" THEN [l EXCEPT !.free = @ + 1] ELSE l

\* What a call does once its action is over: the next callback, the next
\* middleware entry if this one succeeded, or nothing.
AfterAction(c, ok) ==
  IF c.op = "publish"
    THEN [Idle EXCEPT !.op = c.op, !.pc = "deliver", !.todo = c.todo]
  ELSE IF c.op = "middleware" /\ ok /\ c.todo > 1
    THEN [c EXCEPT !.pc = "admit", !.permit = "none", !.todo = @ - 1]
  ELSE Idle

\* transition_status up to its check; the object that was checked is kept.
Settle(t) ==
  /\ th[t].pc = "settle"
  /\ CanTransition(rec.status, th[t].goal)
  /\ th' = [th EXCEPT ![t].pc = "assign", ![t].hold = "shared"]
  /\ UNCHANGED <<rec, gate, slot, active, live, subs, own, limiter, streak, overtaken>>

\* Nothing condemned the record, or replaced it, between the check and the write.
StillAllowed(t) == th[t].hold = "shared" /\ CanTransition(rec.status, th[t].goal)

\* Mutant of Assign: the loader puts a changed copy of the record in its table.
AssignCopy(t) ==
  /\ th[t].pc = "assign"
  /\ rec' = [rec EXCEPT !.status = th[t].goal]
  /\ gate' = StatusOf(gate)
  /\ th' = [u \in Thread |-> IF u = t THEN [th[t] EXCEPT !.pc = "mirror", !.hold = "shared"]
                               ELSE [th[u] EXCEPT !.hold = StatusOf(@)]]
  /\ overtaken' = (overtaken \/ ~StillAllowed(t))
  /\ UNCHANGED <<slot, active, live, subs, own, limiter, streak>>

\* The write.  An object that is no longer in the loader's table is seen by its
\* holders only; two that are left with the same status may be the same one.
Assign(t) ==
  /\ th[t].pc = "assign"
  /\ IF th[t].hold = "shared"
       THEN /\ rec' = [rec EXCEPT !.status = th[t].goal]
            /\ th' = [th EXCEPT ![t].pc = "mirror"]
            /\ UNCHANGED gate
       ELSE /\ \E same \in SUBSET {u \in Thread : th[u].hold = th[t].hold} :
                 th' = [u \in Thread |->
                          IF u = t THEN [th[t] EXCEPT !.pc = "mirror", !.hold = th[t].goal]
                          ELSE IF u \in same THEN [th[u] EXCEPT !.hold = th[t].goal] ELSE th[u]]
            /\ gate' \in {gate} \cup (IF gate = th[t].hold THEN {th[t].goal} ELSE {})
            /\ UNCHANGED rec
  /\ streak' = IF th[t].goal = "enabled" THEN 0 ELSE streak
  /\ overtaken' = (overtaken \/ ~StillAllowed(t))
  /\ UNCHANGED <<slot, active, live, subs, own, limiter>>

\* Mutant of SettleFail: the permit is returned on the normal path only.
SettleFailKept(t) ==
  /\ th[t].pc = "settle"
  /\ ~CanTransition(rec.status, th[t].goal)
  /\ th' = [th EXCEPT ![t] = AfterAction(th[t], FALSE)]
  /\ UNCHANGED <<rec, gate, slot, active, live, subs, own, limiter, streak, overtaken>>

\* The transition is illegal.  When the breaker asked for it, the exception
\* passes through the finally of _execute_plugin_action; publish swallows it.
SettleFail(t) ==
  /\ th[t].pc = "settle"
  /\ ~CanTransition(rec.status, th[t].goal)
  /\ limiter' = Returned(limiter, th[t])
  /\ th' = [th EXCEPT ![t] = AfterAction(th[t], FALSE)]
  /\ UNCHANGED <<rec, gate, slot, active, live, subs, own, streak, overtaken>>

\* gateway.register_plugin with the record the loader returned.
Mirror(t) ==
  /\ th[t].pc = "mirror"
  /\ gate' = th[t].hold
  /\ limiter' = Returned(limiter, th[t])
  /\ th' = [th EXCEPT ![t] = AfterAction(th[t], FALSE)]
  /\ UNCHANGED <<rec, slot, active, live, subs, own, streak, overtaken>>

(***************************************************************************)
(* Grants, enables, installs and discoveries while the engine runs.        *)
(***************************************************************************)

\* grant_permissions and enable_plugin, up to their check of the status.  What
\* they ask of the grant and of the review is in PluginLoader.
Grant(t) ==
  /\ "enable" \in Ops
  /\ th[t].pc = "idle"
  /\ rec.status \notin Condemned
  /\ CanTransition(rec.status, "enabled")
  /\ th' = [th EXCEPT ![t] = [Idle EXCEPT !.op = "enable", !.pc = "assign",
                                           !.goal = "enabled", !.hold = "shared"]]
  /\ UNCHANGED <<rec, gate, slot, active, live, subs, own, limiter, streak, overtaken>>

\* The holders of the old record keep it.
NewObject ==
  /\ gate' = StatusOf(gate)
  /\ th' = [u \in Thread |-> [th[u] EXCEPT !.hold = StatusOf(@)]]

\* An upgrade keeps the status, or asks for a review unless the plugin is
\* revoked.  A running sandbox is left as it is.
Install(t, k) ==
  /\ "install" \in Ops
  /\ th[t].pc = "idle"
  /\ \E s \in {rec.status, "pending_approval"} :
       /\ rec.status = "revoked" => s = "revoked"
       /\ rec' = [pkg |-> k, status |-> s]
  /\ NewObject
  /\ streak' = 0
  /\ UNCHANGED <<slot, active, live, subs, own, limiter, overtaken>>

Discover(t) ==
  /\ "discover" \in Ops
  /\ th[t].pc = "idle"
  /\ NewObject
  /\ UNCHANGED <<rec, slot, active, live, subs, own, limiter, streak, overtaken>>

(***************************************************************************)
(* Calls of the plugin: call_tool, call_memory_provider, run_middlewares   *)
(* and the callbacks of a publish, through _execute_plugin_action.         *)
(***************************************************************************)

\* sandbox = self.sandboxes[plugin_name], which raises when it is gone.
Lookup(t) ==
  /\ th[t].pc = "lookup"
  /\ IF slot = None THEN Leave(t)
     ELSE th' = [th EXCEPT ![t].pc = "admit", ![t].sb = slot]
  /\ UNCHANGED <<rec, gate, slot, active, live, subs, own, limiter, streak, overtaken>>

\* The callback looks the sandbox up by name and answers "not active" without one.
Deliver(t) ==
  /\ th[t].pc = "deliver"
  /\ IF th[t].todo = 0 THEN Leave(t)
     ELSE th' = [th EXCEPT ![t].todo = @ - 1,
                           ![t].pc = IF slot = None THEN "deliver" ELSE "admit",
                           ![t].sb = slot]
  /\ UNCHANGED <<rec, gate, slot, active, live, subs, own, limiter, streak, overtaken>>

\* _runtime_state_for: the state kept for the plugin, unless max_concurrency
\* has changed since; permits of the one it replaces count for nothing any more.
NewState == [cap |-> Limit[rec.pkg], free |-> Limit[rec.pkg], fails |-> 0]
Fits     == limiter # None /\ limiter.cap = Limit[rec.pkg]
State    == IF Fits THEN limiter ELSE NewState
Demoted  == [u \in Thread |->
               [th[u] EXCEPT !.permit = IF @ = "current" THEN "old" ELSE @]]
Callers  == IF Fits THEN th ELSE Demoted

Denied(t) ==
  /\ th[t].pc = "admit"
  /\ rec.status # "enabled" \/ (Fits /\ limiter.free = 0)
  /\ th' = [th EXCEPT ![t] = AfterAction(th[t], FALSE)]
  /\ UNCHANGED <<rec, gate, slot, active, live, subs, own, limiter, streak, overtaken>>

\* Mutant of Admit: the call goes on whether or not it got a permit.
AdmitUnchecked(t) ==
  /\ th[t].pc = "admit"
  /\ rec.status = "enabled"
  /\ Fits
  /\ limiter' = [limiter EXCEPT !.free = @ - 1]
  /\ th' = [th EXCEPT ![t].pc = "run", ![t].permit = "current"]
  /\ UNCHANGED <<rec, gate, slot, active, live, subs, own, streak, overtaken>>

Admit(t) ==
  /\ th[t].pc = "admit"
  /\ rec.status = "enabled"
  /\ Fits /\ limiter.free > 0
  /\ limiter' = [limiter EXCEPT !.free = @ - 1]
  /\ th' = [th EXCEPT ![t].pc = "run", ![t].permit = "current"]
  /\ UNCHANGED <<rec, gate, slot, active, live, subs, own, streak, overtaken>>

\* No state that fits was found; one is created, whoever created one meanwhile.
NoState(t) ==
  /\ th[t].pc = "admit"
  /\ rec.status = "enabled"
  /\ ~Fits
  /\ Goto(t, "create")
  /\ UNCHANGED <<rec, gate, slot, active, live, subs, own, limiter, streak, overtaken>>

Create(t) ==
  /\ th[t].pc = "create"
  /\ limiter' = [NewState EXCEPT !.free = @ - 1]
  /\ th' = [Demoted EXCEPT ![t].pc = "run", ![t].permit = "current"]
  /\ UNCHANGED <<rec, gate, slot, active, live, subs, own, streak, overtaken>>

\* _record_plugin_success, and the permit.
Succeed(t) ==
  /\ limiter' = Returned([State EXCEPT !.fails = 0], Callers[t])
  /\ th' = [Callers EXCEPT ![t] = AfterAction(Callers[t], TRUE)]
  /\ streak' = 0

\* Mutant of Tripped: one failure more than the threshold.
TrippedLate(n) == rec.pkg \in Trips /\ n > Threshold

\* The breaker: consecutive failures, of a plugin that is to be disabled.
Tripped(n) == rec.pkg \in Trips /\ n >= Threshold

\* _record_plugin_failure; disable_plugin runs before the permit is returned.
Fail(t) ==
  LET counted == [State EXCEPT !.fails = @ + 1] IN
  /\ streak' = streak + 1
  /\ IF Tripped(counted.fails)
       THEN /\ limiter' = counted
            /\ th' = [Callers EXCEPT ![t].pc = "unlisten", ![t].goal = "disabled"]
       ELSE /\ limiter' = Returned(counted, Callers[t])
            /\ th' = [Callers EXCEPT ![t] = AfterAction(Callers[t], FALSE)]

\* gateway.call_plugin_tool takes the sandbox from its own table; the others
\* use the object they hold.  A sandbox that is not running fails at once.
Run(t) ==
  LET b == IF th[t].op = "tool" THEN active ELSE th[t].sb IN
  /\ th[t].pc = "run"
  /\ IF b \in live
       THEN /\ th' = [th EXCEPT ![t].pc = "work", ![t].sb = b]
            /\ UNCHANGED <<limiter, streak>>
       ELSE Fail(t)
  /\ UNCHANGED <<rec, gate, slot, active, live, subs, own, overtaken>>

\* The plugin answers, with success or an error.
Answer(t) ==
  /\ th[t].pc = "work"
  /\ \/ th[t].sb \in live /\ Succeed(t)
     \/ Fail(t)
  /\ UNCHANGED <<rec, gate, slot, active, live, subs, own, overtaken>>

\* execute_with_timeout stops the sandbox, which stays registered.
TimeOut(t) ==
  /\ th[t].pc = "work"
  /\ th[t].sb \in live
  /\ live' = live \ {th[t].sb}
  /\ Fail(t)
  /\ UNCHANGED <<rec, gate, slot, active, subs, own, overtaken>>

\* The worker dies by itself.
Die(b) ==
  /\ b \in live
  /\ live' = live \ {b}
  /\ UNCHANGED <<rec, gate, slot, active, subs, own, limiter, th, streak, overtaken>>

(***************************************************************************)
(* The specification.  A thread of the engine goes on with its call; the   *)
(* plugin owes no answer (each message it sends restarts the timeout).     *)
(***************************************************************************)

Advance(t) ==
  \/ StartCheck(t) \/ StartRefused(t) \/ Launch(t) \/ BootFail(t) \/ Ready(t)
  \/ Register(t) \/ Listen(t)
  \/ Unlisten(t) \/ Pop(t) \/ Halt(t) \/ Deregister(t)
  \/ Settle(t) \/ SettleFail(t) \/ Assign(t) \/ Mirror(t)
  \/ Lookup(t) \/ Deliver(t) \/ Denied(t) \/ Admit(t) \/ NoState(t) \/ Create(t)
  \/ Run(t)

Request(t) ==
  \/ BeginStart(t) \/ BeginUse(t) \/ BeginPublish(t) \/ BeginStop(t)
  \/ Grant(t) \/ (\E k \in Pkg : Install(t, k)) \/ Discover(t)

Next ==
  \/ \E t \in Thread : Request(t) \/ Advance(t) \/ Answer(t) \/ TimeOut(t)
  \/ \E b \in Box : Die(b)

Spec == Init /\ [][Next]_vars

FairSpec == Spec /\ \A t \in Thread : WF_vars(Advance(t))

(***************************************************************************)
(* Properties.                                                             *)
(***************************************************************************)

Blocked == {"disabled", "quarantined", "revoked"}

\* Between calls, a plugin that was disabled (by an operator or by the
\* breaker), quarantined or revoked is in neither table of sandboxes, whatever
\* starts, upgrades and failed calls came before.
BlockedIsUnregistered ==
  AllIdle /\ rec.status \in Blocked => slot = None /\ active = None

\* Between calls, the gateway routes tool calls to the sandbox the engine
\* would stop: register and unregister by name keep the two tables together.
GatewayFollowsEngine == AllIdle => active = slot

\* Between calls, no plugin with disable_on_failure_threshold is enabled after
\* failure_threshold failures without a success: the count survives restarts of
\* the sandbox, denied calls and calls of other kinds.
BreakerTrips ==
  AllIdle /\ rec.pkg \in Trips /\ streak >= Threshold => rec.status # "enabled"

\* Whatever a stopped plugin still does, the gateway does not take it for
\* enabled: the record it was given last changes with the loader's, even when a
\* start that overtook the stop registers its sandbox afterwards.
GatewayDenies ==
  rec.status \in Blocked /\ (\A t \in Thread : th[t].pc # "mirror")
    => StatusOf(gate) # "enabled"

\* The semaphore counts the calls that hold its permits: none is lost on a
\* timeout, on a stop during the call or when the breaker's disable raises, and
\* none is returned to a semaphore it was not taken from.
NoPermitLost ==
  limiter # None =>
    limiter.cap = limiter.free + Cardinality({t \in Thread : th[t].permit = "current"})

\* A quarantine that was called ends in a quarantined plugin for good, whether or
\* not a call of the plugin ever returns and whatever the other threads do, unless
\* one of them writes a status on the strength of a check made before another
\* write: an enable or a disable past its check overwrites the quarantine.
QuarantineTakesHold ==
  \A t \in Thread :
    (th[t].op = "quarantine") ~> [](rec.status \in {"quarantined", "revoked"} \/ overtaken)

\* PRODUCTION_CHECKLIST.md: "illegal status transitions are rejected".  Refuted
\* by an enable whose check precedes a quarantine and whose write follows it.
IllegalMovesRejected ==
  [][rec'.pkg = rec.pkg => CanTransition(rec.status, rec'.status)]_vars

\* What a caller who is alone can rely on.
Lifecycle == INSTANCE PluginLifecycle
               WITH status <- rec.status, registered <- active # None

Implements == Lifecycle!Spec

\* OPERATIONS.md: a quarantine or a revoke through the engine stops a
\* running plugin, so between calls none of its processes runs.
BlockedIsStopped == AllIdle /\ rec.status \in Blocked => live = {}

=============================================================================
