---------------------- MODULE PluginEngineAloneProofs ----------------------
(***************************************************************************)
(* What a caller who is alone can rely on: with one thread, for every set  *)
(* of packages, limits, thresholds and operations, the engine's and the    *)
(* gateway's tables agree between calls, no blocked plugin is in either,   *)
(* the breaker trips, and PluginEngine implements PluginLifecycle.         *)
(***************************************************************************)
EXTENDS PluginEngineProofs

Alone == \E t \in Thread : Thread = {t}

(***************************************************************************)
(* What the tables hold at each step of the call.  A start puts its        *)
(* sandbox into the engine's table first and into the gateway's next; a    *)
(* stop empties them in the same order; in between the two differ.  Only   *)
(* an enabled plugin is on its way into them.  And nobody changes the      *)
(* status between the check of a transition and its write.                 *)
(***************************************************************************)

MayAssign(c) ==
  /\ c.hold = "shared"
  /\ CanTransition(rec.status, c.goal)
  /\ IF c.goal = "enabled" THEN rec.status \notin Condemned ELSE slot = None

OnTables(t) ==
  /\ th[t].pc \notin {"register", "halt", "deregister"} => active = slot
  /\ th[t].pc \in {"launch", "boot", "register", "listen"} => rec.status = "enabled"
  /\ th[t].pc = "register" => slot = th[t].sb
  /\ th[t].pc \in {"halt", "deregister", "settle"} => slot = None
  /\ slot # None \/ active # None => rec.status \notin Blocked
  /\ th[t].pc = "assign" => MayAssign(th[t])

(***************************************************************************)
(* What the counter of the runtime state says.  It may run ahead of the    *)
(* history, since an enable and an install leave it as it is; it never     *)
(* lags behind.  A plugin that has failed too often and is still enabled   *)
(* is being disabled.                                                      *)
(***************************************************************************)

Disabling(c) ==
  /\ c.goal = "disabled"
  /\ c.pc \in {"unlisten", "pop", "halt", "deregister", "settle", "assign"}

OnFailures(t) ==
  /\ th[t].pc = "create" => ~Fits
  /\ streak <= State.fails
  /\ rec.pkg \in Trips /\ streak >= Threshold /\ rec.status = "enabled"
       => Disabling(th[t])

AInv == \A t \in Thread : OnTables(t) /\ OnFailures(t)

LEMMA OnlyThread ==
  ASSUME Alone, NEW t \in Thread
  PROVE  /\ AInv <=> OnTables(t) /\ OnFailures(t)
         /\ AInv' <=> OnTables(t)' /\ OnFailures(t)'
<1>1. \A u \in Thread : u = t
  BY DEF Alone
<1> QED
  BY <1>1 DEF AInv

\* How the action of a call may end, and where the call goes from there.
LEMMA AfterActionPc ==
  ASSUME NEW c \in Call, NEW ok \in BOOLEAN
  PROVE  AfterAction(c, ok).pc \in {"deliver", "admit", "idle"}
<1>1. [Idle EXCEPT !.op = c.op, !.pc = "deliver", !.todo = c.todo].pc = "deliver"
  BY DEF Idle
<1>2. [c EXCEPT !.pc = "admit", !.permit = "none", !.todo = @ - 1].pc = "admit"
  BY DEF Call
<1>3. Idle.pc = "idle"
  BY DEF Idle
<1> QED
  BY <1>1, <1>2, <1>3 DEF AfterAction

LEMMA LeavePc ==
  ASSUME TInv, NEW t \in Thread, Leave(t)
  PROVE  th'[t].pc = "idle"
BY DEF Leave, Idle, TInv, TypeOK

LEMMA GotoCall ==
  ASSUME TInv, NEW t \in Thread, NEW step, Goto(t, step)
  PROVE  th'[t] = [th[t] EXCEPT !.pc = step] /\ th'[t].pc = step
         /\ th'[t].sb = th[t].sb /\ th'[t].goal = th[t].goal
<1>1. th[t] \in Call
  BY GoodCall
<1>2. th'[t] = [th[t] EXCEPT !.pc = step]
  BY DEF Goto, TInv, TypeOK
<1> QED
  BY <1>1, <1>2 DEF Call

LEMMA AfterStopCall ==
  ASSUME TInv, NEW t \in Thread, AfterStop(t)
  PROVE  \/ th[t].goal = "none" /\ th'[t].pc = "idle"
         \/ th[t].goal # "none" /\ th'[t].pc = "settle" /\ th'[t].goal = th[t].goal
<1>1. th[t] \in Call /\ th \in [Thread -> Call]
  BY GoodCall DEF TInv, TypeOK
<1>2. CASE th[t].goal = "none"
  BY <1>2, LeavePc DEF AfterStop
<1>3. CASE th[t].goal # "none"
  <2>1. th'[t] = [th[t] EXCEPT !.pc = "settle", !.sb = None]
    BY <1>1, <1>3 DEF AfterStop
  <2> QED
    BY <1>1, <1>3, <2>1 DEF Call
<1> QED
  BY <1>2, <1>3

(***************************************************************************)
(* The tables.                                                             *)
(***************************************************************************)

\* The steps of a call at which the tables agree and nothing is asked of the
\* status.
Settled == {"idle", "check", "lookup", "deliver", "admit", "create", "run", "work",
            "unlisten", "pop", "mirror"}

LEMMA SettledStep ==
  ASSUME NEW t \in Thread, OnTables(t), th[t].pc \notin {"register", "halt", "deregister"},
         th'[t].pc \in Settled, UNCHANGED <<slot, active>>,
         slot # None \/ active # None => rec'.status \notin Blocked
  PROVE  OnTables(t)'
<1>1. active' = slot' /\ (slot' # None \/ active' # None => rec'.status \notin Blocked)
  BY DEF OnTables
<1>2. th'[t].pc \notin {"launch", "boot", "register", "listen", "halt", "deregister", "settle", "assign"}
  BY DEF Settled
<1> QED
  BY <1>1, <1>2 DEF OnTables, Blocked

LEMMA RequestTables ==
  ASSUME TInv, NEW t \in Thread, OnTables(t), Request(t)
  PROVE  OnTables(t)'
<1>0. th \in [Thread -> Call] /\ th[t] \in Call
  BY GoodCall DEF TInv, TypeOK
<1>1. ASSUME NEW o, NEW step \in Settled, NEW goal, NEW todo, Begin(t, o, step, goal, todo)
      PROVE  OnTables(t)'
  <2>1. th'[t] = [Idle EXCEPT !.op = o, !.pc = step, !.goal = goal, !.todo = todo]
    BY <1>0, <1>1 DEF Begin
  <2>2. th'[t].pc = step
    BY <2>1 DEF Idle
  <2> QED
    BY <1>1, <2>2, SettledStep DEF Begin, OnTables
<1>2. CASE BeginStart(t)
  BY <1>1, <1>2 DEF BeginStart, Settled
<1>3. CASE BeginUse(t)
  BY <1>1, <1>3 DEF BeginUse, Settled
<1>4. CASE BeginPublish(t)
  BY <1>1, <1>4 DEF BeginPublish, Settled
<1>5. CASE BeginStop(t)
  BY <1>1, <1>5 DEF BeginStop, Settled
<1>6. CASE Grant(t)
  <2>1. th'[t] = [Idle EXCEPT !.op = "enable", !.pc = "assign", !.goal = "enabled",
                              !.hold = "shared"]
    BY <1>0, <1>6 DEF Grant
  <2>2. th'[t].pc = "assign" /\ th'[t].goal = "enabled" /\ th'[t].hold = "shared"
    BY <2>1 DEF Idle
  <2>3. MayAssign(th'[t]) /\ UNCHANGED <<rec, slot, active>>
    BY <1>6, <2>2 DEF Grant, MayAssign
  <2>4. MayAssign(th[t])'
    BY <2>3 DEF MayAssign
  <2> QED
    BY <1>6, <2>2, <2>3, <2>4 DEF Grant, OnTables
<1>7. ASSUME NewObject, th[t].pc = "idle" PROVE th'[t].pc = "idle"
  <2>1. th'[t] = [th[t] EXCEPT !.hold = StatusOf(@)]
    BY <1>7 DEF NewObject
  <2> QED
    BY <1>0, <1>7, <2>1 DEF Call
<1>8. ASSUME NEW k \in Pkg, Install(t, k) PROVE OnTables(t)'
  <2>1. rec'.status \in {rec.status, "pending_approval"}
    BY <1>8 DEF Install
  <2> QED
    BY <1>7, <1>8, <2>1, SettledStep DEF Install, Settled, Blocked, OnTables
<1>9. CASE Discover(t)
  BY <1>7, <1>9, SettledStep DEF Discover, Settled, OnTables
<1> QED
  BY <1>2, <1>3, <1>4, <1>5, <1>6, <1>8, <1>9 DEF Request

LEMMA StartTables ==
  ASSUME TInv, NEW t \in Thread, OnTables(t),
         StartCheck(t) \/ StartRefused(t) \/ Launch(t) \/ BootFail(t) \/ Ready(t)
           \/ Register(t) \/ Listen(t)
  PROVE  OnTables(t)'
<1>0. th \in [Thread -> Call] /\ th[t] \in Call /\ th[t] \in Good
  BY GoodCall DEF TInv, TypeOK
<1>1. CASE StartCheck(t)
  <2>1. PICK b \in Free :
          th' = [th EXCEPT ![t] = [th[t] EXCEPT !.pc = "launch", !.sb = b, !.hold = "shared"]]
    BY <1>0, <1>1 DEF StartCheck
  <2>2. th'[t].pc = "launch"
    BY <1>0, <2>1 DEF Call
  <2> QED
    BY <1>1, <2>2 DEF StartCheck, OnTables
<1>2. CASE StartRefused(t)
  BY <1>2, LeavePc, SettledStep DEF StartRefused, Settled, OnTables
<1>3. CASE Launch(t)
  <2>1. th'[t].pc = "boot"
    BY <1>3, GotoCall DEF Launch
  <2> QED
    BY <1>3, <2>1 DEF Launch, OnTables, Blocked
<1>4. CASE BootFail(t)
  BY <1>4, LeavePc, SettledStep DEF BootFail, Settled, OnTables
<1>5. CASE Ready(t)
  <2>1. th'[t].pc = "register" /\ th'[t].sb = th[t].sb
    BY <1>5, GotoCall DEF Ready
  <2> QED
    BY <1>5, <2>1 DEF Ready, OnTables, Blocked
<1>6. CASE Register(t)
  <2>1. th'[t].pc = "listen"
    BY <1>6, GotoCall DEF Register
  <2> QED
    BY <1>6, <2>1 DEF Register, OnTables, Blocked
<1>7. CASE Listen(t)
  <2>1. th'[t].pc \in {"idle", "lookup"}
    <3>1. CASE th[t].op = "start"
      BY <1>7, <3>1, LeavePc DEF Listen
    <3>2. CASE th[t].op # "start"
      <4>1. th'[t] = [th[t] EXCEPT !.pc = "lookup", !.hold = "none"]
        BY <1>0, <1>7, <3>2 DEF Listen
      <4> QED
        BY <1>0, <4>1 DEF Call
    <3> QED
      BY <3>1, <3>2
  <2> QED
    BY <1>7, <2>1, SettledStep DEF Listen, Settled, OnTables
<1> QED
  BY <1>1, <1>2, <1>3, <1>4, <1>5, <1>6, <1>7

LEMMA StopTables ==
  ASSUME TInv, NEW t \in Thread, OnTables(t),
         Unlisten(t) \/ Pop(t) \/ Halt(t) \/ Deregister(t)
           \/ Settle(t) \/ SettleFail(t) \/ Assign(t) \/ Mirror(t)
  PROVE  OnTables(t)'
<1>0. th \in [Thread -> Call] /\ th[t] \in Call /\ th[t] \in Good
  BY GoodCall DEF TInv, TypeOK
<1>1. CASE Unlisten(t)
  BY <1>1, GotoCall, SettledStep DEF Unlisten, Settled, OnTables
<1>2. CASE Pop(t)
  <2>1. CASE slot = None
    BY <1>2, <2>1, AfterStopCall DEF Pop, OnTables
  <2>2. CASE slot # None
    <3>1. th'[t] = [th[t] EXCEPT !.pc = "halt", !.sb = slot]
      BY <1>0, <1>2, <2>2 DEF Pop
    <3>2. th'[t].pc = "halt"
      BY <1>0, <3>1 DEF Call
    <3> QED
      BY <1>2, <2>2, <3>2 DEF Pop, OnTables
  <2> QED
    BY <2>1, <2>2
<1>3. CASE Halt(t)
  <2>1. th'[t].pc = "deregister"
    BY <1>3, GotoCall DEF Halt
  <2> QED
    BY <1>3, <2>1 DEF Halt, OnTables, Blocked
<1>4. CASE Deregister(t)
  BY <1>4, AfterStopCall DEF Deregister, OnTables
<1>5. CASE Settle(t)
  <2>1. th'[t] = [th[t] EXCEPT !.pc = "assign", !.hold = "shared"]
    BY <1>0, <1>5 DEF Settle
  <2>2. th'[t].pc = "assign" /\ th'[t].hold = "shared" /\ th'[t].goal = th[t].goal
    BY <1>0, <2>1 DEF Call
  <2>3. slot = None /\ active = None /\ CanTransition(rec.status, th[t].goal)
    BY <1>5 DEF Settle, OnTables
  <2>4. UNCHANGED <<rec, slot, active>>
    BY <1>5 DEF Settle
  <2>5. th[t].goal # "enabled"
    BY <1>0, <1>5 DEF Settle, Good
  <2>6. MayAssign(th[t])'
    BY <2>2, <2>3, <2>4, <2>5 DEF MayAssign
  <2> QED
    BY <1>5, <2>2, <2>3, <2>4, <2>6 DEF OnTables
<1>6. AfterAction(th[t], FALSE).pc \in Settled
  BY <1>0, AfterActionPc DEF Settled
<1>7. CASE SettleFail(t)
  BY <1>0, <1>6, <1>7, SettledStep DEF SettleFail, OnTables
<1>8. CASE Mirror(t)
  BY <1>0, <1>6, <1>8, SettledStep DEF Mirror, OnTables
<1>9. CASE Assign(t)
  <2>1. MayAssign(th[t]) /\ active = slot
    BY <1>9 DEF Assign, OnTables
  <2>2. th' = [th EXCEPT ![t].pc = "mirror"] /\ rec' = [rec EXCEPT !.status = th[t].goal]
    BY <1>9, <2>1 DEF Assign, MayAssign
  <2>3. th'[t].pc = "mirror" /\ rec'.status = th[t].goal
    BY <1>0, <2>2 DEF Call, TInv, TypeOK
  <2>4. slot # None => rec'.status \notin Blocked
    BY <2>1, <2>3 DEF MayAssign, Blocked
  <2> QED
    BY <1>9, <2>1, <2>3, <2>4, SettledStep DEF Assign, Settled
<1> QED
  BY <1>1, <1>2, <1>3, <1>4, <1>5, <1>7, <1>8, <1>9

\* Where the plugin's answer takes the call.
LEMMA ResultPc ==
  ASSUME TInv, NEW t \in Thread, Succeed(t) \/ Fail(t)
  PROVE  th'[t].pc \in {"deliver", "admit", "idle", "unlisten"}
<1>1. Callers \in [Thread -> Call] /\ Callers[t] \in Call
  BY DemotedGood DEF Good
<1>2. CASE Succeed(t)
  <2>1. th'[t] = AfterAction(Callers[t], TRUE)
    BY <1>1, <1>2 DEF Succeed
  <2> QED
    BY <1>1, <2>1, AfterActionPc
<1>3. CASE Fail(t)
  <2>1. \/ th'[t] = AfterAction(Callers[t], FALSE)
        \/ th'[t] = [Callers[t] EXCEPT !.pc = "unlisten", !.goal = "disabled"]
    BY <1>1, <1>3 DEF Fail
  <2>2. [Callers[t] EXCEPT !.pc = "unlisten", !.goal = "disabled"].pc = "unlisten"
    BY <1>1 DEF Call
  <2> QED
    BY <1>1, <2>1, <2>2, AfterActionPc
<1> QED
  BY <1>2, <1>3

LEMMA UseTables ==
  ASSUME TInv, NEW t \in Thread, OnTables(t),
         Lookup(t) \/ Deliver(t) \/ Denied(t) \/ Admit(t) \/ NoState(t) \/ Create(t)
           \/ Run(t) \/ Answer(t) \/ TimeOut(t)
  PROVE  OnTables(t)'
<1>0. th \in [Thread -> Call] /\ th[t] \in Call
  BY GoodCall DEF TInv, TypeOK
<1>1. ASSUME th'[t].pc \in Settled PROVE OnTables(t)'
  <2>1. th[t].pc \in {"lookup", "deliver", "admit", "create", "run", "work"}
    BY DEF Lookup, Deliver, Denied, Admit, NoState, Create, Run, Answer, TimeOut
  <2>2. UNCHANGED <<rec, slot, active>>
    BY DEF Lookup, Deliver, Denied, Admit, NoState, Create, Run, Answer, TimeOut
  <2> QED
    BY <1>1, <2>1, <2>2, SettledStep DEF OnTables
<1>2. CASE Lookup(t)
  <2>1. CASE slot = None
    BY <1>1, <1>2, <2>1, LeavePc DEF Lookup, Settled
  <2>2. CASE slot # None
    <3>1. th'[t] = [th[t] EXCEPT !.pc = "admit", !.sb = slot]
      BY <1>0, <1>2, <2>2 DEF Lookup
    <3>2. th'[t].pc = "admit"
      BY <1>0, <3>1 DEF Call
    <3> QED
      BY <1>1, <3>2 DEF Settled
  <2> QED
    BY <2>1, <2>2
<1>3. CASE Deliver(t)
  <2>1. CASE th[t].todo = 0
    BY <1>1, <1>3, <2>1, LeavePc DEF Deliver, Settled
  <2>2. CASE th[t].todo # 0
    <3> DEFINE step == IF slot = None THEN "deliver" ELSE "admit"
    <3>1. th'[t] = [th[t] EXCEPT !.todo = @ - 1, !.pc = step, !.sb = slot]
      BY <1>0, <1>3, <2>2 DEF Deliver
    <3>2. th'[t].pc = step
      BY <1>0, <3>1 DEF Call
    <3> QED
      BY <1>1, <3>2 DEF Settled
  <2> QED
    BY <2>1, <2>2
<1>4. CASE Denied(t)
  <2>1. th'[t] = AfterAction(th[t], FALSE)
    BY <1>0, <1>4 DEF Denied
  <2> QED
    BY <1>0, <1>1, <2>1, AfterActionPc DEF Settled
<1>5. CASE Admit(t)
  <2>1. th'[t] = [th[t] EXCEPT !.pc = "run", !.permit = "current"]
    BY <1>0, <1>5 DEF Admit
  <2>2. th'[t].pc = "run"
    BY <1>0, <2>1 DEF Call
  <2> QED
    BY <1>1, <2>2 DEF Settled
<1>6. CASE NoState(t)
  BY <1>1, <1>6, GotoCall DEF NoState, Settled
<1>7. CASE Create(t)
  <2>1. Demoted \in [Thread -> Call] /\ Demoted[t] \in Call
    BY DemotedGood DEF Good
  <2>2. th'[t] = [Demoted[t] EXCEPT !.pc = "run", !.permit = "current"]
    BY <1>7, <2>1 DEF Create
  <2>3. th'[t].pc = "run"
    BY <2>1, <2>2 DEF Call
  <2> QED
    BY <1>1, <2>3 DEF Settled
<1>8. CASE Run(t)
  <2> DEFINE b == IF th[t].op = "tool" THEN active ELSE th[t].sb
  <2>1. CASE b \in live
    <3>1. th'[t] = [th[t] EXCEPT !.pc = "work", !.sb = b]
      BY <1>0, <1>8, <2>1 DEF Run
    <3>2. th'[t].pc = "work"
      BY <1>0, <3>1 DEF Call
    <3> QED
      BY <1>1, <3>2 DEF Settled
  <2>2. CASE b \notin live
    BY <1>1, <1>8, <2>2, ResultPc DEF Run, Settled
  <2> QED
    BY <2>1, <2>2
<1>9. CASE Answer(t)
  BY <1>1, <1>9, ResultPc DEF Answer, Settled
<1>10. CASE TimeOut(t)
  BY <1>1, <1>10, ResultPc DEF TimeOut, Settled
<1> QED
  BY <1>2, <1>3, <1>4, <1>5, <1>6, <1>7, <1>8, <1>9, <1>10

(***************************************************************************)
(* The failures.                                                           *)
(***************************************************************************)

LEMMA StateOf ==
  ASSUME TInv
  PROVE  /\ State \in Limiter /\ State.cap = Limit[rec.pkg]
         /\ State.fails \in Nat /\ streak \in Nat /\ Threshold \in Nat /\ Threshold > 0
<1>1. State.cap = Limit[rec.pkg]
  BY DEF State, NewState, Fits
<1> QED
  BY <1>1, StateType, EngineAssumption DEF TInv, TypeOK, Limiter

\* A semaphore of the right capacity that replaces or continues the old one is
\* the state the next call finds.
LEMMA StateFound ==
  ASSUME limiter' \in Limiter, limiter'.cap = Limit[rec'.pkg]
  PROVE  Fits' /\ State' = limiter'
BY StateAssumption DEF Fits, State

LEMMA ReturnedFields ==
  ASSUME NEW l \in Limiter, NEW c
  PROVE  Returned(l, c).cap = l.cap /\ Returned(l, c).fails = l.fails
BY DEF Returned, Limiter

\* A step that leaves the counter alone, or counts as much as the history.
LEMMA CountedStep ==
  ASSUME NEW t \in Thread, OnFailures(t), th'[t].pc # "create",
         streak' = streak, State'.fails = State.fails,
         rec'.pkg = rec.pkg, rec'.status = "enabled" => rec.status = "enabled",
         Disabling(th[t]) /\ rec'.status = "enabled" => Disabling(th'[t])
  PROVE  OnFailures(t)'
<1>1. streak' <= State'.fails
  BY DEF OnFailures
<1>2. rec'.pkg \in Trips /\ streak' >= Threshold /\ rec'.status = "enabled"
        => Disabling(th'[t])
  BY DEF OnFailures
<1>3. Disabling(th'[t]) <=> Disabling(th[t])'
  BY DEF Disabling
<1> QED
  BY <1>1, <1>2, <1>3 DEF OnFailures

\* A step that starts the history anew.
LEMMA ForgottenStep ==
  ASSUME TInv', NEW t \in Thread, th'[t].pc # "create", streak' = 0
  PROVE  OnFailures(t)'
<1>1. State'.fails \in Nat
  <2>1. limiter' \in Limiter \cup {None} /\ Limit[rec'.pkg] \in Nat
    BY EngineAssumption DEF TInv, TypeOK
  <2>2. State' = IF Fits' THEN limiter' ELSE NewState'
    BY DEF State
  <2>3. Fits' => limiter' \in Limiter
    BY <2>1 DEF Fits
  <2>4. NewState' \in Limiter
    BY <2>1 DEF NewState, Limiter
  <2> QED
    BY <2>2, <2>3, <2>4 DEF Limiter
<1>2. Threshold \in Nat /\ Threshold > 0
  BY EngineAssumption
<1>3. streak' <= State'.fails /\ ~(streak' >= Threshold)
  BY <1>1, <1>2
<1> QED
  BY <1>3 DEF OnFailures

\* What a call gives back leaves the counter alone.
LEMMA ReturnCounted ==
  ASSUME TInv, Backed, NEW t \in Thread,
         limiter' = limiter \/ limiter' = Returned(limiter, th[t]), rec'.pkg = rec.pkg
  PROVE  State'.fails = State.fails
<1>1. CASE limiter' = limiter
  BY <1>1 DEF State, Fits, NewState
<1>2. CASE limiter' = Returned(limiter, th[t]) /\ th[t].permit # "current"
  BY <1>1, <1>2 DEF Returned
<1>3. CASE limiter' = Returned(limiter, th[t]) /\ th[t].permit = "current"
  <2>1. limiter \in Limiter
    BY <1>3 DEF Backed
  <2>2. limiter'.cap = limiter.cap /\ limiter'.fails = limiter.fails /\ limiter' \in Limiter
    BY <1>3, <2>1, ReturnedFields, ReturnedType
  <2> QED
    BY <2>1, <2>2, StateAssumption DEF State, Fits, NewState
<1> QED
  BY <1>1, <1>2, <1>3

LEMMA RequestFailures ==
  ASSUME TInv, TInv', Backed, NEW t \in Thread, OnFailures(t), Request(t)
  PROVE  OnFailures(t)'
<1>0. th \in [Thread -> Call] /\ th[t] \in Call
  BY GoodCall DEF TInv, TypeOK
<1>1. th[t].pc = "idle" => ~Disabling(th[t])
  BY DEF Disabling
<1>2. ASSUME NEW o, NEW step \in Settled \ {"create"}, NEW goal, NEW todo,
             Begin(t, o, step, goal, todo)
      PROVE  OnFailures(t)'
  <2>1. th'[t] = [Idle EXCEPT !.op = o, !.pc = step, !.goal = goal, !.todo = todo]
    BY <1>0, <1>2 DEF Begin
  <2>2. th'[t].pc = step
    BY <2>1 DEF Idle
  <2>3. State'.fails = State.fails
    BY <1>2, ReturnCounted DEF Begin
  <2> QED
    BY <1>1, <1>2, <2>2, <2>3, CountedStep DEF Begin
<1>3. CASE BeginStart(t)
  BY <1>2, <1>3 DEF BeginStart, Settled
<1>4. CASE BeginUse(t)
  BY <1>2, <1>4 DEF BeginUse, Settled
<1>5. CASE BeginPublish(t)
  BY <1>2, <1>5 DEF BeginPublish, Settled
<1>6. CASE BeginStop(t)
  BY <1>2, <1>6 DEF BeginStop, Settled
<1>7. CASE Grant(t)
  <2>1. th'[t] = [Idle EXCEPT !.op = "enable", !.pc = "assign", !.goal = "enabled",
                              !.hold = "shared"]
    BY <1>0, <1>7 DEF Grant
  <2>2. th'[t].pc = "assign"
    BY <2>1 DEF Idle
  <2>3. State'.fails = State.fails
    BY <1>7, ReturnCounted DEF Grant
  <2> QED
    BY <1>1, <1>7, <2>2, <2>3, CountedStep DEF Grant
<1>8. ASSUME NewObject, th[t].pc = "idle" PROVE th'[t].pc = "idle"
  <2>1. th'[t] = [th[t] EXCEPT !.hold = StatusOf(@)]
    BY <1>8 DEF NewObject
  <2> QED
    BY <1>0, <1>8, <2>1 DEF Call
<1>9. ASSUME NEW k \in Pkg, Install(t, k) PROVE OnFailures(t)'
  BY <1>8, <1>9, ForgottenStep DEF Install
<1>10. CASE Discover(t)
  <2>1. State'.fails = State.fails
    BY <1>10, ReturnCounted DEF Discover
  <2> QED
    BY <1>1, <1>8, <1>10, <2>1, CountedStep DEF Discover
<1> QED
  BY <1>3, <1>4, <1>5, <1>6, <1>7, <1>9, <1>10 DEF Request

LEMMA StartFailures ==
  ASSUME TInv, Backed, NEW t \in Thread, OnFailures(t),
         StartCheck(t) \/ StartRefused(t) \/ Launch(t) \/ BootFail(t) \/ Ready(t)
           \/ Register(t) \/ Listen(t)
  PROVE  OnFailures(t)'
<1>0. th \in [Thread -> Call] /\ th[t] \in Call
  BY GoodCall DEF TInv, TypeOK
<1>1. UNCHANGED <<rec, limiter, streak>>
  BY DEF StartCheck, StartRefused, Launch, BootFail, Ready, Register, Listen
<1>2. ~Disabling(th[t])
  BY DEF StartCheck, StartRefused, Launch, BootFail, Ready, Register, Listen, Disabling
<1>3. th'[t].pc # "create"
  <2>1. CASE StartCheck(t)
    <3>1. PICK b \in Free :
            th' = [th EXCEPT ![t] = [th[t] EXCEPT !.pc = "launch", !.sb = b, !.hold = "shared"]]
      BY <1>0, <2>1 DEF StartCheck
    <3> QED
      BY <1>0, <3>1 DEF Call
  <2>2. CASE StartRefused(t) \/ BootFail(t)
    BY <2>2, LeavePc DEF StartRefused, BootFail
  <2>3. CASE Launch(t) \/ Ready(t) \/ Register(t)
    <3>1. PICK step \in {"boot", "register", "listen"} : Goto(t, step)
      BY <2>3 DEF Launch, Ready, Register
    <3> QED
      BY <3>1, GotoCall
  <2>4. CASE Listen(t) /\ th[t].op = "start"
    BY <2>4, LeavePc DEF Listen
  <2>5. CASE Listen(t) /\ th[t].op # "start"
    <3>1. th'[t] = [th[t] EXCEPT !.pc = "lookup", !.hold = "none"]
      BY <1>0, <2>5 DEF Listen
    <3> QED
      BY <1>0, <3>1 DEF Call
  <2> QED
    BY <2>1, <2>2, <2>3, <2>4, <2>5
<1>4. State'.fails = State.fails
  BY <1>1, ReturnCounted
<1> QED
  BY <1>1, <1>2, <1>3, <1>4, CountedStep

\* The breaker's stop goes on to the transition, which disables the plugin:
\* an enabled plugin may be disabled.
LEMMA MayDisable == CanTransition("enabled", "disabled")
BY DEF CanTransition, AllowedTransitions, Reviewable, Status

LEMMA StopFailures ==
  ASSUME TInv, TInv', Backed, NEW t \in Thread, OnTables(t), OnFailures(t),
         Unlisten(t) \/ Pop(t) \/ Halt(t) \/ Deregister(t)
           \/ Settle(t) \/ SettleFail(t) \/ Assign(t) \/ Mirror(t)
  PROVE  OnFailures(t)'
<1>0. th \in [Thread -> Call] /\ th[t] \in Call /\ th[t] \in Good
  BY GoodCall DEF TInv, TypeOK
<1>1. ASSUME limiter' = limiter \/ limiter' = Returned(limiter, th[t]), UNCHANGED rec
      PROVE  State'.fails = State.fails
  BY <1>1, ReturnCounted
<1>2. ASSUME NEW step \in {"pop", "halt", "deregister", "settle"},
             th'[t].pc = step, th'[t].goal = th[t].goal, UNCHANGED <<rec, limiter, streak>>
      PROVE  OnFailures(t)'
  BY <1>1, <1>2, CountedStep DEF Disabling
<1>3. ASSUME AfterStop(t), UNCHANGED <<rec, limiter, streak>> PROVE OnFailures(t)'
  <2>1. CASE th[t].goal = "none"
    <3>1. th'[t].pc = "idle" /\ ~Disabling(th[t])
      BY <1>3, <2>1, AfterStopCall DEF Disabling
    <3> QED
      BY <1>1, <1>3, <3>1, CountedStep
  <2>2. CASE th[t].goal # "none"
    BY <1>2, <1>3, <2>2, AfterStopCall
  <2> QED
    BY <2>1, <2>2
<1>4. CASE Unlisten(t)
  BY <1>2, <1>4, GotoCall DEF Unlisten
<1>5. CASE Pop(t)
  <2>1. CASE slot = None
    BY <1>3, <1>5, <2>1 DEF Pop
  <2>2. CASE slot # None
    <3>1. th'[t] = [th[t] EXCEPT !.pc = "halt", !.sb = slot]
      BY <1>0, <1>5, <2>2 DEF Pop
    <3>2. th'[t].pc = "halt" /\ th'[t].goal = th[t].goal
      BY <1>0, <3>1 DEF Call
    <3> QED
      BY <1>2, <1>5, <3>2 DEF Pop
  <2> QED
    BY <2>1, <2>2
<1>6. CASE Halt(t)
  BY <1>2, <1>6, GotoCall DEF Halt
<1>7. CASE Deregister(t)
  BY <1>3, <1>7 DEF Deregister
<1>8. CASE Settle(t)
  <2>1. th'[t] = [th[t] EXCEPT !.pc = "assign", !.hold = "shared"]
    BY <1>0, <1>8 DEF Settle
  <2>2. th'[t].pc = "assign" /\ th'[t].goal = th[t].goal
    BY <1>0, <2>1 DEF Call
  <2>3. State'.fails = State.fails
    BY <1>8, ReturnCounted DEF Settle
  <2> QED
    BY <1>8, <2>2, <2>3, CountedStep DEF Settle, Disabling
<1>9. AfterAction(th[t], FALSE).pc # "create"
  BY <1>0, AfterActionPc
<1>10. CASE SettleFail(t)
  <2>1. Disabling(th[t]) => rec.status # "enabled"
    BY <1>10, MayDisable DEF SettleFail, Disabling
  <2>2. th'[t] = AfterAction(th[t], FALSE)
    BY <1>0, <1>10 DEF SettleFail
  <2>3. State'.fails = State.fails
    BY <1>1, <1>10 DEF SettleFail
  <2> QED
    BY <1>9, <1>10, <2>1, <2>2, <2>3, CountedStep DEF SettleFail
<1>11. CASE Mirror(t)
  <2>1. ~Disabling(th[t])
    BY <1>11 DEF Mirror, Disabling
  <2>2. th'[t] = AfterAction(th[t], FALSE)
    BY <1>0, <1>11 DEF Mirror
  <2>3. State'.fails = State.fails
    BY <1>1, <1>11 DEF Mirror
  <2> QED
    BY <1>9, <1>11, <2>1, <2>2, <2>3, CountedStep DEF Mirror
<1>12. CASE Assign(t)
  <2>1. th' = [th EXCEPT ![t].pc = "mirror"] /\ rec' = [rec EXCEPT !.status = th[t].goal]
    BY <1>12 DEF Assign, OnTables, MayAssign
  <2>2. th'[t].pc = "mirror" /\ rec'.status = th[t].goal /\ rec'.pkg = rec.pkg
    BY <1>0, <2>1 DEF Call, TInv, TypeOK
  <2>3. CASE th[t].goal = "enabled"
    <3>1. streak' = 0
      BY <1>12, <2>3 DEF Assign
    <3> QED
      BY <2>2, <3>1, ForgottenStep
  <2>4. CASE th[t].goal # "enabled"
    <3>1. State'.fails = State.fails
      BY <1>12, <2>2, ReturnCounted DEF Assign
    <3>2. streak' = streak
      BY <1>12, <2>4 DEF Assign
    <3> QED
      BY <2>2, <2>4, <3>1, <3>2, CountedStep
  <2> QED
    BY <2>3, <2>4
<1> QED
  BY <1>4, <1>5, <1>6, <1>7, <1>8, <1>10, <1>11, <1>12

LEMMA SucceedFailures ==
  ASSUME TInv, TInv', NEW t \in Thread, Succeed(t)
  PROVE  OnFailures(t)'
<1>1. th'[t].pc # "create"
  BY ResultPc
<1> QED
  BY <1>1, ForgottenStep DEF Succeed

LEMMA FailFailures ==
  ASSUME TInv, NEW t \in Thread, OnFailures(t), Fail(t), UNCHANGED rec
  PROVE  OnFailures(t)'
<1> DEFINE counted == [State EXCEPT !.fails = @ + 1]
<1>1. /\ counted \in Limiter
      /\ counted.cap = Limit[rec.pkg]
      /\ counted.fails = State.fails + 1
  BY StateOf DEF Limiter
<1>2. limiter' = counted \/ limiter' = Returned(counted, Callers[t])
  BY DEF Fail
<1>3. limiter' \in Limiter /\ limiter'.cap = Limit[rec.pkg] /\ limiter'.fails = State.fails + 1
  <2>1. CASE limiter' = counted
    BY <1>1, <2>1
  <2>2. CASE limiter' = Returned(counted, Callers[t])
    <3> HIDE DEF counted
    <3> QED
      BY <1>1, <2>2, ReturnedFields, ReturnedType
  <2> QED
    BY <1>2, <2>1, <2>2
<1>4. State'.fails = State.fails + 1
  BY <1>3, StateFound
<1>5. streak' = streak + 1 /\ streak' <= State'.fails
  BY <1>4, StateOf DEF Fail, OnFailures
<1>6. th'[t].pc # "create"
  BY ResultPc
<1>7. CASE Tripped(counted.fails)
  <2>1. Callers \in [Thread -> Call] /\ Callers[t] \in Call
    BY DemotedGood DEF Good
  <2>2. th'[t] = [Callers[t] EXCEPT !.pc = "unlisten", !.goal = "disabled"]
    BY <1>7, <2>1 DEF Fail
  <2>3. th'[t].pc = "unlisten" /\ th'[t].goal = "disabled"
    BY <2>1, <2>2 DEF Call
  <2> QED
    BY <1>5, <1>6, <2>3 DEF OnFailures, Disabling
<1>8. CASE ~Tripped(counted.fails)
  <2>1. ~(rec.pkg \in Trips /\ streak' >= Threshold)
    BY <1>1, <1>4, <1>5, <1>8, StateOf DEF Tripped
  <2> QED
    BY <1>5, <1>6, <2>1 DEF OnFailures
<1> QED
  BY <1>7, <1>8

LEMMA UseFailures ==
  ASSUME TInv, TInv', Backed, NEW t \in Thread, OnFailures(t),
         Lookup(t) \/ Deliver(t) \/ Denied(t) \/ Admit(t) \/ NoState(t) \/ Create(t)
           \/ Run(t) \/ Answer(t) \/ TimeOut(t)
  PROVE  OnFailures(t)'
<1>0. th \in [Thread -> Call] /\ th[t] \in Call
  BY GoodCall DEF TInv, TypeOK
<1>1. ~Disabling(th[t])
  BY DEF Disabling, Lookup, Deliver, Denied, Admit, NoState, Create, Run, Answer, TimeOut
<1>2. UNCHANGED rec
  BY DEF Lookup, Deliver, Denied, Admit, NoState, Create, Run, Answer, TimeOut
<1>3. ASSUME th'[t].pc # "create", UNCHANGED <<limiter, streak>> PROVE OnFailures(t)'
  BY <1>1, <1>2, <1>3, ReturnCounted, CountedStep
<1>4. CASE Lookup(t)
  <2>1. CASE slot = None
    BY <1>3, <1>4, <2>1, LeavePc DEF Lookup
  <2>2. CASE slot # None
    <3>1. th'[t] = [th[t] EXCEPT !.pc = "admit", !.sb = slot]
      BY <1>0, <1>4, <2>2 DEF Lookup
    <3>2. th'[t].pc = "admit"
      BY <1>0, <3>1 DEF Call
    <3> QED
      BY <1>3, <1>4, <3>2 DEF Lookup
  <2> QED
    BY <2>1, <2>2
<1>5. CASE Deliver(t)
  <2>1. CASE th[t].todo = 0
    BY <1>3, <1>5, <2>1, LeavePc DEF Deliver
  <2>2. CASE th[t].todo # 0
    <3> DEFINE step == IF slot = None THEN "deliver" ELSE "admit"
    <3>1. th'[t] = [th[t] EXCEPT !.todo = @ - 1, !.pc = step, !.sb = slot]
      BY <1>0, <1>5, <2>2 DEF Deliver
    <3>2. th'[t].pc = step
      BY <1>0, <3>1 DEF Call
    <3> QED
      BY <1>3, <1>5, <3>2 DEF Deliver
  <2> QED
    BY <2>1, <2>2
<1>6. CASE Denied(t)
  <2>1. th'[t] = AfterAction(th[t], FALSE)
    BY <1>0, <1>6 DEF Denied
  <2> QED
    BY <1>0, <1>3, <1>6, <2>1, AfterActionPc DEF Denied
<1>7. CASE Admit(t)
  <2>1. th'[t] = [th[t] EXCEPT !.pc = "run", !.permit = "current"]
    BY <1>0, <1>7 DEF Admit
  <2>2. th'[t].pc = "run"
    BY <1>0, <2>1 DEF Call
  <2>3. limiter \in Limiter /\ limiter' \in Limiter
    BY <1>7 DEF Admit, Fits, TInv, TypeOK, Limiter
  <2>4. limiter'.cap = limiter.cap /\ limiter'.fails = limiter.fails
    BY <1>7, <2>3 DEF Admit, Limiter
  <2>5. State' = limiter' /\ State = limiter
    BY <1>2, <1>7, <2>3, <2>4, StateFound DEF Admit, Fits, State
  <2> QED
    BY <1>1, <1>2, <1>7, <2>2, <2>4, <2>5, CountedStep DEF Admit
<1>8. CASE NoState(t)
  <2>1. th'[t].pc = "create" /\ th'[t].goal = th[t].goal
    BY <1>8, GotoCall DEF NoState
  <2>2. ~Fits' /\ State'.fails = State.fails
    BY <1>8 DEF NoState, Fits, State, NewState
  <2> QED
    BY <1>1, <1>8, <2>1, <2>2 DEF NoState, OnFailures
<1>9. CASE Create(t)
  <2>1. Demoted \in [Thread -> Call] /\ Demoted[t] \in Call
    BY DemotedGood DEF Good
  <2>2. th'[t] = [Demoted[t] EXCEPT !.pc = "run", !.permit = "current"]
    BY <1>9, <2>1 DEF Create
  <2>3. th'[t].pc = "run"
    BY <2>1, <2>2 DEF Call
  <2>4. NewState \in Limiter /\ State = NewState
    BY <1>9, StateType DEF Create, OnFailures, State, TInv
  <2>5. limiter'.cap = Limit[rec.pkg] /\ limiter'.fails = State.fails
    BY <1>9, <2>4 DEF Create, NewState, Limiter
  <2>6. limiter' \in Limiter
    <3>1. Limit[rec.pkg] \in Nat /\ Limit[rec.pkg] - 1 \in Nat
      BY EngineAssumption DEF TInv, TypeOK
    <3>2. limiter' = [cap |-> Limit[rec.pkg], free |-> Limit[rec.pkg] - 1, fails |-> 0]
      BY <1>9 DEF Create, NewState
    <3> QED
      BY <3>1, <3>2 DEF Limiter
  <2>7. State'.fails = State.fails
    BY <1>2, <2>5, <2>6, StateFound
  <2> QED
    BY <1>1, <1>2, <1>9, <2>3, <2>7, CountedStep DEF Create
<1>10. CASE Run(t)
  <2> DEFINE b == IF th[t].op = "tool" THEN active ELSE th[t].sb
  <2>1. CASE b \in live
    <3>1. th'[t] = [th[t] EXCEPT !.pc = "work", !.sb = b]
      BY <1>0, <1>10, <2>1 DEF Run
    <3>2. th'[t].pc = "work"
      BY <1>0, <3>1 DEF Call
    <3> QED
      BY <1>3, <1>10, <2>1, <3>2 DEF Run
  <2>2. CASE b \notin live
    BY <1>2, <1>10, <2>2, FailFailures DEF Run
  <2> QED
    BY <2>1, <2>2
<1>11. CASE Answer(t)
  BY <1>2, <1>11, FailFailures, SucceedFailures DEF Answer
<1>12. CASE TimeOut(t)
  BY <1>2, <1>12, FailFailures DEF TimeOut
<1> QED
  BY <1>4, <1>5, <1>6, <1>7, <1>8, <1>9, <1>10, <1>11, <1>12

(***************************************************************************)
(* The invariant and what it says between calls.                           *)
(***************************************************************************)

LEMMA AloneStep ==
  ASSUME Alone, PInv, PInv', AInv, [Next]_vars
  PROVE  AInv'
<1>0. TInv /\ Backed /\ TInv'
  BY DEF PInv
<1>1. PICK t \in Thread : Thread = {t}
  BY DEF Alone
<1>2. OnTables(t) /\ OnFailures(t)
  BY OnlyThread
<1>3. CASE (\E b \in Box : Die(b)) \/ UNCHANGED vars
  <2>1. UNCHANGED <<rec, slot, active, limiter, th, streak>>
    BY <1>3 DEF Die, vars
  <2>2. OnTables(t)' /\ OnFailures(t)'
    BY <1>2, <2>1 DEF OnTables, MayAssign, OnFailures, Disabling, Fits, State, NewState
  <2> QED
    BY <2>2, OnlyThread
<1>4. CASE Request(t)
  BY <1>0, <1>2, <1>4, RequestTables, RequestFailures, OnlyThread
<1>5. CASE Advance(t) \/ Answer(t) \/ TimeOut(t)
  BY <1>0, <1>2, <1>5, OnlyThread, StartTables, StopTables, UseTables,
     StartFailures, StopFailures, UseFailures DEF Advance
<1> QED
  BY <1>1, <1>3, <1>4, <1>5 DEF Next

LEMMA AInvInvariant ==
  ASSUME Alone
  PROVE  Spec => [](PInv /\ AInv)
<1>1. Init => AInv
  <2> SUFFICES ASSUME Init, NEW t \in Thread PROVE OnTables(t) /\ OnFailures(t)
    BY DEF AInv
  <2>1. th[t].pc = "idle"
    BY DEF Init, Idle
  <2>2. OnTables(t)
    BY <2>1 DEF Init, OnTables
  <2>3. State.fails = 0 /\ streak = 0
    BY DEF Init, State, Fits, NewState
  <2> QED
    BY <2>1, <2>2, <2>3, EngineAssumption DEF OnFailures
<1>2. PInv /\ PInv' /\ AInv /\ [Next]_vars => AInv'
  BY AloneStep
<1> QED
  BY <1>1, <1>2, PInvInvariant, PTL DEF Spec

\* Between the calls of a caller who is alone, no disabled, quarantined or revoked
\* plugin is left in the engine's or the gateway's table of sandboxes.
THEOREM BlockedStaysOut ==
  ASSUME Alone
  PROVE  Spec => []BlockedIsUnregistered
<1>1. AInv => BlockedIsUnregistered
  BY DEF AInv, OnTables, Alone, BlockedIsUnregistered
<1> QED
  BY <1>1, AInvInvariant, PTL

\* Between the calls of a caller who is alone, the gateway routes tool calls to the
\* sandbox that the engine would stop.
THEOREM GatewayAgrees ==
  ASSUME Alone
  PROVE  Spec => []GatewayFollowsEngine
<1>1. AInv => GatewayFollowsEngine
  BY DEF AInv, OnTables, Alone, AllIdle, GatewayFollowsEngine
<1> QED
  BY <1>1, AInvInvariant, PTL

\* Between the calls of a caller who is alone, no plugin that asked to be disabled
\* is enabled after failure_threshold failures without a success, whatever the
\* threshold, the packages and their limits.
THEOREM BreakerHolds ==
  ASSUME Alone
  PROVE  Spec => []BreakerTrips
<1>1. AInv => BreakerTrips
  BY DEF AInv, OnFailures, Disabling, Alone, AllIdle, BreakerTrips
<1> QED
  BY <1>1, AInvInvariant, PTL

(***************************************************************************)
(* The refinement.  Five actions change what PluginLifecycle sees: the     *)
(* rest are its stutters.                                                  *)
(***************************************************************************)

LEMMA SameTable ==
  /\ Lifecycle!AllowedTransitions = AllowedTransitions
  /\ Lifecycle!Condemned = Condemned
  /\ Lifecycle!Status = Status
BY DEF Lifecycle!AllowedTransitions, AllowedTransitions, Lifecycle!Reviewable, Reviewable,
       Lifecycle!Condemned, Condemned, Lifecycle!Status, Status

LEMMA LifecycleMove ==
  ASSUME NEW s \in Status, s \in AllowedTransitions[rec.status],
         s \in Blocked => active = None,
         s = "enabled" => rec.status \notin Condemned,
         s \in Blocked \cup {"enabled"}, rec'.status = s, active' = active
  PROVE  Lifecycle!Next
<1>1. Lifecycle!Move(s)
  BY SameTable DEF Lifecycle!Move, Lifecycle!StopStatus, Blocked
<1> QED
  BY <1>1, SameTable DEF Lifecycle!Next

LEMMA RefinementStep ==
  ASSUME Alone, PInv, AInv, [Next]_vars
  PROVE  [Lifecycle!Next]_Lifecycle!lifecycle
<1>0. TInv /\ rec \in [pkg : Pkg, status : Status]
  BY DEF PInv, TInv, TypeOK
<1>1. ASSUME rec'.status = rec.status, active' = active
      PROVE  UNCHANGED Lifecycle!lifecycle
  BY <1>1 DEF Lifecycle!lifecycle
<1>2. CASE (\E b \in Box : Die(b)) \/ UNCHANGED vars
  BY <1>1, <1>2 DEF Die, vars
<1>3. ASSUME NEW t \in Thread, Request(t) \/ Advance(t) \/ Answer(t) \/ TimeOut(t)
      PROVE  [Lifecycle!Next]_Lifecycle!lifecycle
  <2>0. OnTables(t) /\ th[t] \in Good /\ th[t] \in Call
    BY <1>0, GoodCall DEF AInv
  <2>1. CASE Register(t)
    <3>1. rec.status = "enabled" /\ rec' = rec /\ active' # None
      <4>1. th[t].sb \in Box
        BY <2>0, <2>1 DEF Register, Good
      <4>2. None \notin Box
        BY EngineAssumption
      <4>3. rec.status = "enabled"
        BY <2>0, <2>1 DEF Register, OnTables
      <4>4. rec' = rec /\ active' = th[t].sb
        BY <2>1 DEF Register
      <4> QED
        BY <4>1, <4>2, <4>3, <4>4
    <3> QED
      BY <3>1 DEF Lifecycle!Next, Lifecycle!Activate
  <2>2. CASE Deregister(t)
    BY <2>2 DEF Deregister, Lifecycle!Next, Lifecycle!Deactivate
  <2>3. CASE Assign(t)
    <3>1. MayAssign(th[t]) /\ active = slot
      BY <2>0, <2>3 DEF Assign, OnTables
    <3>2. rec'.status = th[t].goal /\ active' = active
      BY <1>0, <2>3, <3>1 DEF Assign, MayAssign
    <3>3. th[t].goal \in Blocked \cup {"enabled"}
      BY <2>0, <2>3 DEF Assign, Good, Call, Goal, Blocked
    <3>4. th[t].goal \in Status /\ (th[t].goal \in Blocked => th[t].goal # "enabled")
      BY <3>3 DEF Blocked, Status
    <3>5. th[t].goal = rec.status \/ th[t].goal \in AllowedTransitions[rec.status]
      BY <3>1 DEF MayAssign, CanTransition
    <3>6. th[t].goal = "enabled" => rec.status \notin Condemned
      BY <3>1 DEF MayAssign
    <3>7. th[t].goal \in Blocked => active = None
      BY <3>1, <3>4 DEF MayAssign
    <3> QED
      BY <1>1, <3>2, <3>3, <3>4, <3>5, <3>6, <3>7, LifecycleMove
  <2>5. ASSUME NEW k \in Pkg, Install(t, k) PROVE [Lifecycle!Next]_Lifecycle!lifecycle
    <3>1. /\ active' = active
          /\ rec'.status \in {rec.status, "pending_approval"}
          /\ rec.status = "revoked" => rec'.status = "revoked"
      BY <2>5 DEF Install
    <3>2. CASE rec'.status = rec.status
      BY <1>1, <3>1, <3>2
    <3>3. CASE rec'.status # rec.status
      <4>1. Lifecycle!Review
        BY <3>1, <3>3 DEF Lifecycle!Review
      <4> QED
        BY <4>1 DEF Lifecycle!Next
    <3> QED
      BY <3>2, <3>3
  <2>6. CASE BeginStart(t) \/ BeginUse(t) \/ BeginPublish(t) \/ BeginStop(t)
               \/ Grant(t) \/ Discover(t)
    BY <1>1, <2>6
       DEF BeginStart, BeginUse, BeginPublish, BeginStop, Begin, Grant, Discover
  <2>7. CASE StartCheck(t) \/ StartRefused(t) \/ Launch(t) \/ BootFail(t) \/ Ready(t)
               \/ Listen(t) \/ Unlisten(t) \/ Pop(t) \/ Halt(t)
               \/ Settle(t) \/ SettleFail(t) \/ Mirror(t)
    BY <1>1, <2>7 DEF StartCheck, StartRefused, Launch, BootFail, Ready, Listen,
       Unlisten, Pop, Halt, Settle, SettleFail, Mirror
  <2>8. CASE Lookup(t) \/ Deliver(t) \/ Denied(t) \/ Admit(t) \/ NoState(t) \/ Create(t)
               \/ Run(t) \/ Answer(t) \/ TimeOut(t)
    BY <1>1, <2>8 DEF Lookup, Deliver, Denied, Admit, NoState, Create, Run, Answer, TimeOut
  <2> QED
    BY <1>3, <2>1, <2>2, <2>3, <2>5, <2>6, <2>7, <2>8 DEF Request, Advance
<1> QED
  BY <1>2, <1>3 DEF Next

\* PluginEngine, called by one thread, implements PluginLifecycle: every step of
\* every call is a step of the abstract plugin or leaves it as it is.
THEOREM EngineImplements ==
  ASSUME Alone
  PROVE  Spec => Implements
<1>1. Init => Lifecycle!Init
  BY DEF Init, Lifecycle!Init
<1>2. PInv /\ AInv /\ [Next]_vars => [Lifecycle!Next]_Lifecycle!lifecycle
  BY RefinementStep
<1> QED
  BY <1>1, <1>2, AInvInvariant, PTL DEF Spec, Implements, Lifecycle!Spec

=============================================================================
