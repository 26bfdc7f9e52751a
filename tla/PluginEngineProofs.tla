------------------------ MODULE PluginEngineProofs -------------------------
(***************************************************************************)
(* What holds of PluginEngine for every set of threads, packages and       *)
(* operations: type correctness, and that the semaphore never loses a      *)
(* permit; and, while nothing replaces the loader's record, that the       *)
(* gateway never takes a blocked plugin for enabled.                       *)
(***************************************************************************)
EXTENDS PluginEngine, FiniteSetTheorems, TLAPS

(***************************************************************************)
(* Type correctness is not inductive alone: a start adds the sandbox it    *)
(* holds to the tables, so it must hold one.  And a call holds a permit    *)
(* only where it gives it back or passes it on: in the plugin's action,    *)
(* and in the stop that the breaker asks for.  A call that is about to     *)
(* write a status has the record it checked and a status to write.         *)
(***************************************************************************)

HoldsPermit(c) ==
  \/ c.pc \in {"run", "work"}
  \/ c.pc \in {"unlisten", "pop", "halt", "deregister", "settle", "assign", "mirror"} /\ c.goal # "none"

Good ==
  {c \in Call :
     /\ c.pc \in {"launch", "boot", "register", "listen"} => c.sb \in Box
     /\ c.pc \in {"settle", "assign"} => c.goal # "none"
     /\ c.pc = "assign" => c.hold # "none"
     /\ c.goal = "enabled" => c.op = "enable" /\ c.pc \in {"assign", "mirror"}
     /\ c.permit # "none" => HoldsPermit(c)}

TInv == TypeOK /\ th \in [Thread -> Good]

\* A permit comes from the semaphore of some state.
Backed == \A t \in Thread : th[t].permit = "current" => limiter \in Limiter

LEMMA GoodCall ==
  ASSUME TInv, NEW t \in Thread
  PROVE  th[t] \in Good /\ th[t] \in Call
BY DEF TInv, Good

\* Replacing the call of one thread.
LEMMA OneCall ==
  ASSUME TInv, NEW t \in Thread, NEW c \in Good, th' = [th EXCEPT ![t] = c]
  PROVE  th' \in [Thread -> Call] /\ th' \in [Thread -> Good]
BY DEF TInv, Good

LEMMA IdleGood == Idle \in Good
BY DEF Idle, Good, Call, Goal, PC, Holder

LEMMA LeaveGood ==
  ASSUME TInv, NEW t \in Thread, Leave(t)
  PROVE  th' \in [Thread -> Call] /\ th' \in [Thread -> Good]
BY IdleGood, OneCall DEF Leave

LEMMA StatusOfType ==
  ASSUME TypeOK, NEW h \in Holder
  PROVE  StatusOf(h) \in Holder
<1>1. rec.status \in Status
  BY DEF TypeOK
<1>2. Status \subseteq Holder
  BY DEF Holder
<1> QED
  BY <1>1, <1>2 DEF StatusOf

LEMMA AfterActionGood ==
  ASSUME NEW c \in Good, NEW ok \in BOOLEAN
  PROVE  AfterAction(c, ok) \in Good
<1>1. [Idle EXCEPT !.op = c.op, !.pc = "deliver", !.todo = c.todo] \in Good
  BY DEF Idle, Good, Call, Goal, PC, Holder
<1>2. ASSUME c.op = "middleware", c.todo > 1
      PROVE  [c EXCEPT !.pc = "admit", !.permit = "none", !.todo = @ - 1] \in Good
  <2>1. c.todo - 1 \in Nat
    BY <1>2 DEF Good, Call
  <2> QED
    BY <1>2, <2>1 DEF Good, Call, PC
<1> QED
  BY <1>1, <1>2, IdleGood DEF AfterAction

LEMMA ReturnedType ==
  ASSUME NEW l \in Limiter, NEW c
  PROVE  Returned(l, c) \in Limiter
BY DEF Returned, Limiter

LEMMA StateType ==
  ASSUME TypeOK
  PROVE  NewState \in Limiter /\ State \in Limiter
BY EngineAssumption DEF TypeOK, NewState, State, Fits, Limiter

LEMMA DemotedGood ==
  ASSUME TInv
  PROVE  /\ Demoted \in [Thread -> Good]
         /\ Callers \in [Thread -> Good]
<1>1. ASSUME NEW u \in Thread
      PROVE  [th[u] EXCEPT !.permit = IF @ = "current" THEN "old" ELSE @] \in Good
  BY GoodCall DEF Good, Call, HoldsPermit
<1> QED
  BY <1>1 DEF TInv, Demoted, Callers

LEMMA SubsFinite ==
  ASSUME TypeOK
  PROVE  Cardinality(subs) \in Nat
<1>1. IsFiniteSet(subs)
  BY EngineAssumption, FS_Subset DEF TypeOK
<1> QED
  BY <1>1, FS_CardinalityType

(***************************************************************************)
(* Type correctness, one step per action.                                  *)
(***************************************************************************)

LEMMA BeginType ==
  ASSUME TInv, NEW t \in Thread, NEW o,
         NEW step \in {"check", "lookup", "deliver", "unlisten"},
         NEW goal \in {"none", "disabled", "quarantined", "revoked"}, NEW todo \in Nat,
         Begin(t, o, step, goal, todo)
  PROVE  TInv'
<1>1. [Idle EXCEPT !.op = o, !.pc = step, !.goal = goal, !.todo = todo] \in Good
  BY DEF Begin, Idle, Good, Call, Goal, PC, Holder
<1> QED
  BY <1>1, OneCall DEF TInv, TypeOK, Begin

LEMMA RequestType ==
  ASSUME TInv, NEW t \in Thread, Request(t)
  PROVE  TInv'
<1>1. CASE BeginStart(t)
  BY <1>1, BeginType DEF BeginStart
<1>2. CASE BeginUse(t)
  BY <1>2, BeginType, EngineAssumption DEF BeginUse
<1>3. CASE BeginPublish(t)
  BY <1>3, BeginType, SubsFinite DEF BeginPublish, TInv
<1>4. CASE BeginStop(t)
  <2>1. PICK o \in Stops : Begin(t, o, "unlisten", GoalOf[o], 0)
    BY <1>4 DEF BeginStop
  <2>2. GoalOf[o] \in {"none", "disabled", "quarantined", "revoked"}
    BY DEF Stops, GoalOf
  <2> QED
    BY <2>1, <2>2, BeginType
<1>5. CASE Grant(t)
  <2>1. [Idle EXCEPT !.op = "enable", !.pc = "assign", !.goal = "enabled",
                     !.hold = "shared"] \in Good
    BY <1>5 DEF Grant, Idle, Good, Call, Goal, PC, Holder, HoldsPermit
  <2> QED
    BY <1>5, <2>1, OneCall DEF Grant, TInv, TypeOK
<1>6. ASSUME NewObject PROVE gate' \in Holder /\ th' \in [Thread -> Good]
  <2>1. ASSUME NEW u \in Thread PROVE [th[u] EXCEPT !.hold = StatusOf(@)] \in Good
    <3>1. th[u] \in Good /\ StatusOf(th[u].hold) \in Holder
      BY GoodCall, StatusOfType DEF TInv, Call
    <3>2. th[u].hold # "none" => StatusOf(th[u].hold) # "none"
      BY DEF StatusOf, TInv, TypeOK, Status
    <3> QED
      BY <3>1, <3>2 DEF Good, Call, HoldsPermit
  <2> QED
    BY <1>6, <2>1, StatusOfType DEF NewObject, TInv, TypeOK
<1>7. th' \in [Thread -> Good] => th' \in [Thread -> Call]
  BY DEF Good
<1>8. ASSUME NEW k \in Pkg, Install(t, k) PROVE TInv'
  BY <1>6, <1>7, <1>8 DEF Install, TInv, TypeOK, Status
<1>9. CASE Discover(t)
  BY <1>6, <1>7, <1>9 DEF Discover, TInv, TypeOK
<1> QED
  BY <1>1, <1>2, <1>3, <1>4, <1>5, <1>8, <1>9 DEF Request

LEMMA StartType ==
  ASSUME TInv, NEW t \in Thread,
         StartCheck(t) \/ StartRefused(t) \/ Launch(t) \/ BootFail(t) \/ Ready(t)
           \/ Register(t) \/ Listen(t)
  PROVE  TInv'
<1>0. th[t] \in Good /\ th[t] \in Call
  BY GoodCall
<1>1. CASE StartCheck(t)
  <2>1. PICK b \in Free :
          th' = [th EXCEPT ![t] = [th[t] EXCEPT !.pc = "launch", !.sb = b, !.hold = "shared"]]
    BY <1>1 DEF StartCheck, TInv, TypeOK
  <2>2. [th[t] EXCEPT !.pc = "launch", !.sb = b, !.hold = "shared"] \in Good
    <3>1. th[t].permit = "none" /\ th[t].goal # "enabled" /\ b \in Box
      BY <1>0, <1>1 DEF StartCheck, Good, Call, HoldsPermit, Free
    <3> QED
      BY <1>0, <3>1 DEF Good, Call, PC, Holder
  <2> QED
    BY <1>1, <2>1, <2>2, OneCall DEF StartCheck, TInv, TypeOK
<1>2. CASE StartRefused(t)
  BY <1>2, LeaveGood DEF StartRefused, TInv, TypeOK
<1>3. th[t].pc \in {"launch", "boot", "register", "listen"} => th[t].sb \in Box
  BY <1>0 DEF Good
<1>4. th[t].hold \in Holder
  BY <1>0 DEF Call
<1>5. ASSUME NEW step \in {"boot", "register", "listen"},
             th[t].pc \in {"launch", "boot", "register"}, Goto(t, step)
      PROVE  th' \in [Thread -> Call] /\ th' \in [Thread -> Good]
  <2>1. [th[t] EXCEPT !.pc = step] \in Good
    BY <1>0, <1>5 DEF Good, Call, PC, HoldsPermit
  <2>2. th' = [th EXCEPT ![t] = [th[t] EXCEPT !.pc = step]]
    BY <1>5 DEF Goto, TInv, TypeOK
  <2> QED
    BY <2>1, <2>2, OneCall
<1>6. CASE Launch(t)
  BY <1>6, <1>3, <1>4, <1>5 DEF Launch, TInv, TypeOK
<1>7. CASE BootFail(t)
  BY <1>7, LeaveGood DEF BootFail, TInv, TypeOK
<1>8. CASE Ready(t)
  BY <1>8, <1>3, <1>5 DEF Ready, TInv, TypeOK
<1>9. CASE Register(t)
  BY <1>9, <1>3, <1>4, <1>5 DEF Register, TInv, TypeOK
<1>10. CASE Listen(t)
  <2>1. th[t].sb \in Box
    BY <1>3, <1>10 DEF Listen
  <2>2. [th[t] EXCEPT !.pc = "lookup", !.hold = "none"] \in Good
    BY <1>0, <1>10 DEF Listen, Good, Call, PC, Holder, HoldsPermit
  <2>3. th' \in [Thread -> Call] /\ th' \in [Thread -> Good]
    <3>1. CASE th[t].op = "start"
      BY <1>10, <3>1, LeaveGood DEF Listen
    <3>2. CASE th[t].op # "start"
      <4>1. th' = [th EXCEPT ![t] = [th[t] EXCEPT !.pc = "lookup", !.hold = "none"]]
        BY <1>10, <3>2 DEF Listen, TInv, TypeOK
      <4> QED
        BY <4>1, <2>2, OneCall
    <3> QED
      BY <3>1, <3>2
  <2> QED
    BY <1>10, <2>1, <2>3 DEF Listen, TInv, TypeOK
<1> QED
  BY <1>1, <1>2, <1>6, <1>7, <1>8, <1>9, <1>10

LEMMA ReturnedGood ==
  ASSUME TInv, Backed, NEW t \in Thread
  PROVE  Returned(limiter, th[t]) \in Limiter \cup {None}
<1>1. CASE th[t].permit = "current"
  BY <1>1, ReturnedType DEF Backed
<1>2. CASE th[t].permit # "current"
  BY <1>2 DEF Returned, TInv, TypeOK
<1> QED
  BY <1>1, <1>2

LEMMA StopType ==
  ASSUME TInv, Backed, NEW t \in Thread,
         Unlisten(t) \/ Pop(t) \/ Halt(t) \/ Deregister(t)
           \/ Settle(t) \/ SettleFail(t) \/ Assign(t) \/ Mirror(t)
  PROVE  TInv'
<1>0. th[t] \in Good /\ th[t] \in Call
  BY GoodCall
<1>1. CASE Unlisten(t)
  <2>1. [th[t] EXCEPT !.pc = "pop"] \in Good
    BY <1>0, <1>1 DEF Unlisten, Good, Call, PC, HoldsPermit
  <2>2. th' = [th EXCEPT ![t] = [th[t] EXCEPT !.pc = "pop"]]
    BY <1>1 DEF Unlisten, Goto, TInv, TypeOK
  <2> QED
    BY <1>1, <2>1, <2>2, OneCall DEF Unlisten, TInv, TypeOK
<1>2. ASSUME th[t].pc \in {"pop", "deregister"}, AfterStop(t)
      PROVE  th' \in [Thread -> Call] /\ th' \in [Thread -> Good]
  <2>1. CASE th[t].goal = "none"
    BY <1>2, <2>1, LeaveGood DEF AfterStop
  <2>2. CASE th[t].goal # "none"
    <3>1. [th[t] EXCEPT !.pc = "settle", !.sb = None] \in Good
      BY <1>0, <1>2, <2>2 DEF Good, Call, PC, HoldsPermit
    <3>2. th' = [th EXCEPT ![t] = [th[t] EXCEPT !.pc = "settle", !.sb = None]]
      BY <1>2, <2>2 DEF AfterStop, TInv, TypeOK
    <3> QED
      BY <3>1, <3>2, OneCall
  <2> QED
    BY <2>1, <2>2
<1>3. CASE Pop(t)
  <2>1. CASE slot = None
    BY <1>2, <1>3, <2>1 DEF Pop, TInv, TypeOK
  <2>2. CASE slot # None
    <3>1. [th[t] EXCEPT !.pc = "halt", !.sb = slot] \in Good
      BY <1>0, <1>3 DEF Pop, Good, Call, PC, HoldsPermit, TInv, TypeOK
    <3>2. th' = [th EXCEPT ![t] = [th[t] EXCEPT !.pc = "halt", !.sb = slot]]
      BY <1>3, <2>2 DEF Pop, TInv, TypeOK
    <3> QED
      BY <1>3, <3>1, <3>2, OneCall DEF Pop, TInv, TypeOK
  <2> QED
    BY <2>1, <2>2
<1>4. CASE Halt(t)
  <2>1. [th[t] EXCEPT !.pc = "deregister"] \in Good
    BY <1>0, <1>4 DEF Halt, Good, Call, PC, HoldsPermit
  <2>2. th' = [th EXCEPT ![t] = [th[t] EXCEPT !.pc = "deregister"]]
    BY <1>4 DEF Halt, Goto, TInv, TypeOK
  <2> QED
    BY <1>4, <2>1, <2>2, OneCall DEF Halt, TInv, TypeOK
<1>5. CASE Deregister(t)
  BY <1>2, <1>5 DEF Deregister, TInv, TypeOK
<1>6. CASE Settle(t)
  <2>1. [th[t] EXCEPT !.pc = "assign", !.hold = "shared"] \in Good
    BY <1>0, <1>6 DEF Settle, Good, Call, PC, HoldsPermit, Holder
  <2>2. th' = [th EXCEPT ![t] = [th[t] EXCEPT !.pc = "assign", !.hold = "shared"]]
    BY <1>6 DEF Settle, TInv, TypeOK
  <2> QED
    BY <1>6, <2>1, <2>2, OneCall DEF Settle, TInv, TypeOK
<1>7. AfterAction(th[t], FALSE) \in Good
  BY <1>0, AfterActionGood
<1>8. CASE SettleFail(t)
  BY <1>7, <1>8, ReturnedGood, OneCall DEF SettleFail, TInv, TypeOK
<1>9. CASE Mirror(t)
  <2>1. th[t].hold \in Holder
    BY <1>0 DEF Call
  <2> QED
    BY <1>7, <1>9, <2>1, ReturnedGood, OneCall DEF Mirror, TInv, TypeOK
<1>10. CASE Assign(t)
  <2>1. th[t].goal \in Status /\ Status \subseteq Holder /\ "none" \notin Status
    <3>1. th[t].goal # "none"
      BY <1>0, <1>10 DEF Assign, Good
    <3> QED
      BY <1>0, <3>1 DEF Call, Goal, Status, Holder
  <2>2. rec' \in [pkg : Pkg, status : Status] /\ gate' \in Holder
    BY <1>10, <2>1 DEF Assign, TInv, TypeOK
  <2>3. streak' \in Nat /\ overtaken' \in BOOLEAN
    BY <1>10 DEF Assign, StillAllowed, TInv, TypeOK
  <2>4. [th[t] EXCEPT !.pc = "mirror"] \in Good
    BY <1>0, <1>10 DEF Assign, Good, Call, PC, HoldsPermit
  <2>5. CASE th[t].hold = "shared"
    <3>1. th' = [th EXCEPT ![t] = [th[t] EXCEPT !.pc = "mirror"]]
      BY <1>10, <2>5 DEF Assign, TInv, TypeOK
    <3> QED
      BY <1>10, <2>2, <2>3, <2>4, <3>1, OneCall DEF Assign, TInv, TypeOK
  <2>6. CASE th[t].hold # "shared"
    <3>1. PICK same \in SUBSET {u \in Thread : th[u].hold = th[t].hold} :
            th' = [u \in Thread |->
                     IF u = t THEN [th[t] EXCEPT !.pc = "mirror", !.hold = th[t].goal]
                     ELSE IF u \in same THEN [th[u] EXCEPT !.hold = th[t].goal] ELSE th[u]]
      BY <1>10, <2>6 DEF Assign
    <3>2. ASSUME NEW u \in Thread PROVE [th[u] EXCEPT !.hold = th[t].goal] \in Good
      BY <2>1, GoodCall DEF Good, Call, HoldsPermit
    <3>3. [th[t] EXCEPT !.pc = "mirror", !.hold = th[t].goal] \in Good
      BY <1>0, <1>10, <2>1 DEF Assign, Good, Call, PC, HoldsPermit
    <3>4. th' \in [Thread -> Good]
      BY <3>1, <3>2, <3>3, GoodCall
    <3>5. th' \in [Thread -> Call]
      BY <3>4 DEF Good
    <3> QED
      BY <1>10, <2>2, <2>3, <3>4, <3>5 DEF Assign, TInv, TypeOK
  <2> QED
    BY <2>5, <2>6
<1> QED
  BY <1>1, <1>3, <1>4, <1>5, <1>6, <1>8, <1>9, <1>10

LEMMA SucceedType ==
  ASSUME TInv, NEW t \in Thread, Succeed(t)
  PROVE  /\ limiter' \in Limiter
         /\ th' \in [Thread -> Good]
         /\ streak' \in Nat
<1>1. [State EXCEPT !.fails = 0] \in Limiter
  BY StateType DEF TInv, Limiter
<1>2. AfterAction(Callers[t], TRUE) \in Good
  BY DemotedGood, AfterActionGood DEF Good
<1> QED
  BY <1>1, <1>2, DemotedGood, ReturnedType DEF Succeed

LEMMA FailType ==
  ASSUME TInv, NEW t \in Thread, th[t].pc \in {"run", "work"}, Fail(t)
  PROVE  /\ limiter' \in Limiter
         /\ th' \in [Thread -> Good]
         /\ streak' \in Nat
<1> DEFINE counted == [State EXCEPT !.fails = @ + 1]
<1>1. counted \in Limiter
  BY StateType DEF TInv, Limiter
<1>2. AfterAction(Callers[t], FALSE) \in Good
  BY DemotedGood, AfterActionGood DEF Good
<1>3. [Callers[t] EXCEPT !.pc = "unlisten", !.goal = "disabled"] \in Good
  <2>1. Callers[t] \in Call
    BY DemotedGood DEF Good
  <2>2. [Callers[t] EXCEPT !.pc = "unlisten", !.goal = "disabled"] \in Call
    BY <2>1 DEF Call, Goal, PC
  <2> QED
    BY <2>1, <2>2 DEF Good, Call, HoldsPermit
<1>4. streak' \in Nat
  BY DEF Fail, TInv, TypeOK
<1>5. CASE Tripped(counted.fails)
  <2>1. th' = [Callers EXCEPT ![t] = [Callers[t] EXCEPT !.pc = "unlisten", !.goal = "disabled"]]
    BY <1>5, DemotedGood DEF Fail
  <2> QED
    BY <1>1, <1>3, <1>4, <1>5, <2>1, DemotedGood DEF Fail
<1>6. CASE ~Tripped(counted.fails)
  BY <1>1, <1>2, <1>4, <1>6, DemotedGood, ReturnedType DEF Fail
<1> QED
  BY <1>5, <1>6

LEMMA UseType ==
  ASSUME TInv, NEW t \in Thread,
         Lookup(t) \/ Deliver(t) \/ Denied(t) \/ Admit(t) \/ NoState(t) \/ Create(t)
           \/ Run(t) \/ Answer(t) \/ TimeOut(t)
  PROVE  TInv'
<1>0. th[t] \in Good /\ th[t] \in Call
  BY GoodCall
<1>1. \A f : f \in [Thread -> Good] => f \in [Thread -> Call]
  BY DEF Good
<1>2. CASE Lookup(t)
  <2>1. [th[t] EXCEPT !.pc = "admit", !.sb = slot] \in Good
    BY <1>0, <1>2 DEF Lookup, Good, Call, PC, HoldsPermit, TInv, TypeOK
  <2>2. CASE slot = None
    BY <1>2, <2>2, LeaveGood DEF Lookup, TInv, TypeOK
  <2>3. CASE slot # None
    <3>1. th' = [th EXCEPT ![t] = [th[t] EXCEPT !.pc = "admit", !.sb = slot]]
      BY <1>2, <2>3 DEF Lookup, TInv, TypeOK
    <3> QED
      BY <1>2, <2>1, <3>1, OneCall DEF Lookup, TInv, TypeOK
  <2> QED
    BY <2>2, <2>3
<1>3. CASE Deliver(t)
  <2>1. CASE th[t].todo = 0
    BY <1>3, <2>1, LeaveGood DEF Deliver, TInv, TypeOK
  <2>2. CASE th[t].todo # 0
    <3> DEFINE c == [th[t] EXCEPT !.todo = @ - 1,
                                  !.pc = IF slot = None THEN "deliver" ELSE "admit",
                                  !.sb = slot]
    <3>1. c \in Good
      <4>1. th[t].todo - 1 \in Nat
        BY <1>0, <2>2 DEF Call
      <4>2. th[t].permit = "none"
        BY <1>0, <1>3 DEF Deliver, Good, HoldsPermit
      <4>3. th[t].goal # "enabled"
        BY <1>0, <1>3 DEF Deliver, Good
      <4>4. /\ c.pc \in {"deliver", "admit"} /\ c.permit = "none"
            /\ c.goal # "enabled" /\ c \in Call
        BY <1>0, <4>1, <4>2, <4>3 DEF Call, PC, TInv, TypeOK
      <4> QED
        BY <4>4 DEF Good
    <3>2. th' = [th EXCEPT ![t] = c]
      BY <1>3, <2>2 DEF Deliver, TInv, TypeOK
    <3> QED
      BY <1>3, <3>1, <3>2, OneCall DEF Deliver, TInv, TypeOK
  <2> QED
    BY <2>1, <2>2
<1>4. CASE Denied(t)
  BY <1>0, <1>4, AfterActionGood, OneCall DEF Denied, TInv, TypeOK
<1>5. th[t].pc = "admit" => [th[t] EXCEPT !.pc = "run", !.permit = "current"] \in Good
  BY <1>0 DEF Good, Call, PC, HoldsPermit
<1>6. CASE Admit(t)
  <2>1. limiter' \in Limiter
    BY <1>6 DEF Admit, Fits, TInv, TypeOK, Limiter
  <2>2. th' = [th EXCEPT ![t] = [th[t] EXCEPT !.pc = "run", !.permit = "current"]]
    BY <1>6 DEF Admit, TInv, TypeOK
  <2> QED
    BY <1>5, <1>6, <2>1, <2>2, OneCall DEF Admit, TInv, TypeOK
<1>7. CASE NoState(t)
  <2>1. [th[t] EXCEPT !.pc = "create"] \in Good
    BY <1>0, <1>7 DEF NoState, Good, Call, PC, HoldsPermit
  <2>2. th' = [th EXCEPT ![t] = [th[t] EXCEPT !.pc = "create"]]
    BY <1>7 DEF NoState, Goto, TInv, TypeOK
  <2> QED
    BY <1>7, <2>1, <2>2, OneCall DEF NoState, TInv, TypeOK
<1>8. CASE Create(t)
  <2>0. Limit[rec.pkg] \in Nat /\ Limit[rec.pkg] - 1 \in Nat
    BY EngineAssumption DEF TInv, TypeOK
  <2>1. limiter' \in Limiter
    <3>1. limiter' = [cap |-> Limit[rec.pkg], free |-> Limit[rec.pkg] - 1, fails |-> 0]
      BY <1>8, <2>0 DEF Create, NewState
    <3> QED
      BY <2>0, <3>1 DEF Limiter
  <2>2. [Demoted[t] EXCEPT !.pc = "run", !.permit = "current"] \in Good
    <3>1. Demoted[t] \in Good /\ Demoted[t].pc # "assign" /\ Demoted[t].pc # "mirror"
      <4>1. Demoted[t] = [th[t] EXCEPT !.permit = IF @ = "current" THEN "old" ELSE @]
        BY DEF Demoted
      <4>2. Demoted[t].pc = "create"
        BY <1>0, <1>8, <4>1 DEF Create, Call
      <4> QED
        BY <4>2, DemotedGood
    <3> QED
      BY <3>1 DEF Good, Call, PC, HoldsPermit
  <2>3. th' = [Demoted EXCEPT ![t] = [Demoted[t] EXCEPT !.pc = "run", !.permit = "current"]]
    BY <1>8, DemotedGood DEF Create
  <2>4. th' \in [Thread -> Good]
    BY <2>2, <2>3, DemotedGood
  <2> QED
    BY <1>1, <1>8, <2>1, <2>4 DEF Create, TInv, TypeOK
<1>9. CASE Run(t)
  <2> DEFINE b == IF th[t].op = "tool" THEN active ELSE th[t].sb
  <2>1. CASE b \in live
    <3>0. b \in Box
      BY <2>1 DEF TInv, TypeOK
    <3>1. [th[t] EXCEPT !.pc = "work", !.sb = b] \in Good
      BY <1>0, <1>9, <3>0 DEF Run, Good, Call, PC, HoldsPermit
    <3>2. th' = [th EXCEPT ![t] = [th[t] EXCEPT !.pc = "work", !.sb = b]]
      BY <1>9, <2>1 DEF Run, TInv, TypeOK
    <3> QED
      BY <1>9, <2>1, <3>1, <3>2, OneCall DEF Run, TInv, TypeOK
  <2>2. CASE b \notin live
    BY <1>1, <1>9, <2>2, FailType DEF Run, TInv, TypeOK
  <2> QED
    BY <2>1, <2>2
<1>10. CASE Answer(t)
  BY <1>1, <1>10, FailType, SucceedType DEF Answer, TInv, TypeOK
<1>11. CASE TimeOut(t)
  BY <1>1, <1>11, FailType DEF TimeOut, TInv, TypeOK
<1> QED
  BY <1>2, <1>3, <1>4, <1>6, <1>7, <1>8, <1>9, <1>10, <1>11

LEMMA TypeStep ==
  ASSUME TInv, Backed, [Next]_vars
  PROVE  TInv'
<1>1. ASSUME NEW b \in Box, Die(b) PROVE TInv'
  BY <1>1 DEF Die, TInv, TypeOK
<1>2. CASE UNCHANGED vars
  BY <1>2 DEF vars, TInv, TypeOK
<1>3. ASSUME NEW t \in Thread, Request(t) \/ Advance(t) \/ Answer(t) \/ TimeOut(t)
      PROVE  TInv'
  BY <1>3, RequestType, StartType, StopType, UseType DEF Advance
<1> QED
  BY <1>1, <1>2, <1>3 DEF Next

(***************************************************************************)
(* How a step may change the permits held and the semaphore: not at all,   *)
(* one taken, one returned, or a new semaphore that counts for nobody or   *)
(* for the caller that made it.                                            *)
(***************************************************************************)

Holding == {u \in Thread : th[u].permit = "current"}

Quiet ==
  /\ Holding' = Holding
  /\ \/ limiter' = limiter
     \/ /\ limiter \in Limiter /\ limiter' \in Limiter
        /\ limiter'.cap = limiter.cap /\ limiter'.free = limiter.free

Taken(t) ==
  /\ limiter \in Limiter /\ limiter' \in Limiter
  /\ t \notin Holding /\ Holding' = Holding \cup {t}
  /\ limiter'.cap = limiter.cap /\ limiter'.free = limiter.free - 1

Given(t) ==
  /\ limiter \in Limiter /\ limiter' \in Limiter
  /\ t \in Holding /\ Holding' = Holding \ {t}
  /\ limiter'.cap = limiter.cap /\ limiter'.free = limiter.free + 1

Renewed ==
  limiter' \in Limiter /\ Holding' = {} /\ limiter'.cap = limiter'.free

RenewedFor(t) ==
  limiter' \in Limiter /\ Holding' = {t} /\ limiter'.cap = limiter'.free + 1

PermitMove ==
  Quiet \/ Renewed \/ \E t \in Thread : Taken(t) \/ Given(t) \/ RenewedFor(t)

LEMMA HoldingFinite == IsFiniteSet(Holding) /\ Cardinality(Holding) \in Nat
<1>1. IsFiniteSet(Holding)
  BY EngineAssumption, FS_Subset DEF Holding
<1> QED
  BY <1>1, FS_CardinalityType

LEMMA MoveCounts ==
  ASSUME TInv, Backed, NoPermitLost, PermitMove
  PROVE  Backed' /\ NoPermitLost'
<1> DEFINE Counts == limiter # None => limiter.cap = limiter.free + Cardinality(Holding)
<1>1. Counts /\ (limiter \in Limiter => limiter # None)
  BY StateAssumption DEF NoPermitLost, Holding
<1>2. Backed <=> (Holding # {} => limiter \in Limiter)
  BY DEF Backed, Holding
<1>3. Backed' <=> (Holding' # {} => limiter' \in Limiter)
  BY DEF Backed, Holding
<1>4. NoPermitLost' <=> Counts'
  BY DEF NoPermitLost, Holding
<1>5. CASE Quiet
  BY <1>1, <1>2, <1>3, <1>4, <1>5 DEF Quiet
<1>6. CASE Renewed
  BY <1>3, <1>4, <1>6, FS_EmptySet DEF Renewed, Limiter
<1>7. ASSUME NEW t \in Thread, Taken(t) PROVE Backed' /\ NoPermitLost'
  <2>1. Cardinality(Holding') = Cardinality(Holding) + 1
    BY <1>7, HoldingFinite, FS_AddElement DEF Taken
  <2>2. limiter.cap = limiter.free + Cardinality(Holding)
    BY <1>1, <1>7 DEF Taken
  <2>3. limiter.free \in Nat
    BY <1>7 DEF Taken, Limiter
  <2>4. Counts'
    BY <1>7, <2>1, <2>2, <2>3, HoldingFinite DEF Taken
  <2> QED
    BY <1>3, <1>4, <1>7, <2>4 DEF Taken
<1>8. ASSUME NEW t \in Thread, Given(t) PROVE Backed' /\ NoPermitLost'
  <2>1. Cardinality(Holding') = Cardinality(Holding) - 1
    BY <1>8, HoldingFinite, FS_RemoveElement DEF Given
  <2>2. limiter.cap = limiter.free + Cardinality(Holding)
    BY <1>1, <1>8 DEF Given
  <2>3. limiter.free \in Nat
    BY <1>8 DEF Given, Limiter
  <2>4. Counts'
    BY <1>8, <2>1, <2>2, <2>3, HoldingFinite DEF Given
  <2> QED
    BY <1>3, <1>4, <1>8, <2>4 DEF Given
<1>9. ASSUME NEW t \in Thread, RenewedFor(t) PROVE Backed' /\ NoPermitLost'
  <2>1. Cardinality(Holding') = 1
    BY <1>9, FS_Singleton DEF RenewedFor
  <2> QED
    BY <1>3, <1>4, <1>9, <2>1 DEF RenewedFor
<1> QED
  BY <1>5, <1>6, <1>7, <1>8, <1>9 DEF PermitMove

\* A call that keeps what it holds.
LEMMA OneQuiet ==
  ASSUME TInv, NEW t \in Thread, NEW c, th' = [th EXCEPT ![t] = c], limiter' = limiter,
         c.permit = "current" <=> th[t].permit = "current"
  PROVE  PermitMove
<1>1. \A u \in Thread : th'[u].permit = "current" <=> th[u].permit = "current"
  BY DEF TInv, TypeOK
<1> QED
  BY <1>1 DEF PermitMove, Quiet, Holding

\* A call that ends, with the semaphore l, which counts as the present one does.
LEMMA ReturnMove ==
  ASSUME TInv, NEW t \in Thread, NEW c, th' = [th EXCEPT ![t] = c],
         c.permit # "current", NEW l \in Limiter, limiter \in Limiter,
         l.cap = limiter.cap, l.free = limiter.free, limiter' = Returned(l, th[t])
  PROVE  PermitMove
<1>1. \A u \in Thread : th'[u].permit = "current" <=> th[u].permit = "current" /\ u # t
  BY DEF TInv, TypeOK
<1>2. CASE th[t].permit = "current"
  <2>1. Holding' = Holding \ {t} /\ t \in Holding
    BY <1>1, <1>2 DEF Holding
  <2>2. limiter' = [l EXCEPT !.free = @ + 1]
    BY <1>2 DEF Returned
  <2>3. limiter' \in Limiter /\ limiter'.cap = l.cap /\ limiter'.free = l.free + 1
    BY <2>2 DEF Limiter
  <2> QED
    BY <2>1, <2>3 DEF PermitMove, Given
<1>3. CASE th[t].permit # "current"
  <2>1. Holding' = Holding
    BY <1>1, <1>3 DEF Holding
  <2>2. limiter' = l
    BY <1>3 DEF Returned
  <2> QED
    BY <2>1, <2>2 DEF PermitMove, Quiet
<1> QED
  BY <1>2, <1>3

LEMMA AfterActionHolds ==
  ASSUME NEW c \in Call, NEW ok \in BOOLEAN
  PROVE  AfterAction(c, ok).permit # "current"
<1>1. [Idle EXCEPT !.op = c.op, !.pc = "deliver", !.todo = c.todo].permit = "none"
  BY DEF Idle
<1>2. [c EXCEPT !.pc = "admit", !.permit = "none", !.todo = @ - 1].permit = "none"
  BY DEF Call
<1>3. Idle.permit = "none"
  BY DEF Idle
<1> QED
  BY <1>1, <1>2, <1>3 DEF AfterAction

\* The end of the stop that the breaker asked for, or of a stop of an operator.
LEMMA StopEndMove ==
  ASSUME TInv, Backed, NEW t \in Thread,
         limiter' = Returned(limiter, th[t]),
         th' = [th EXCEPT ![t] = AfterAction(th[t], FALSE)]
  PROVE  PermitMove
<1>0. AfterAction(th[t], FALSE).permit # "current"
  BY GoodCall, AfterActionHolds
<1>1. CASE th[t].permit = "current"
  <2>1. limiter \in Limiter
    BY <1>1 DEF Backed
  <2> QED
    BY <1>0, <2>1, ReturnMove
<1>2. CASE th[t].permit # "current"
  <2>1. limiter' = limiter
    BY <1>2 DEF Returned
  <2> QED
    BY <1>0, <1>2, <2>1, OneQuiet
<1> QED
  BY <1>1, <1>2

\* After a step that finds another max_concurrency, no call holds a permit of
\* the semaphore in place.
LEMMA CallersHold ==
  ASSUME TInv, NEW u \in Thread
  PROVE  /\ Demoted[u].permit # "current"
         /\ Fits => Callers = th /\ State = limiter /\ limiter \in Limiter
         /\ ~Fits => Callers = Demoted /\ State = NewState
<1>1. Demoted[u].permit # "current"
  <2>1. Demoted[u] = [th[u] EXCEPT !.permit = IF @ = "current" THEN "old" ELSE @]
    BY DEF Demoted
  <2>2. th[u] \in Call
    BY GoodCall
  <2> QED
    BY <2>1, <2>2 DEF Call
<1> QED
  BY <1>1 DEF Callers, State, Fits, TInv, TypeOK

LEMMA SucceedMove ==
  ASSUME TInv, Backed, NEW t \in Thread, Succeed(t)
  PROVE  PermitMove
<1> DEFINE l == [State EXCEPT !.fails = 0]
<1>1. l \in Limiter /\ l.cap = State.cap /\ l.free = State.free
  BY StateType DEF TInv, Limiter
<1>2. Callers[t] \in Call
  BY DemotedGood DEF Good
<1>3. AfterAction(Callers[t], TRUE).permit # "current"
  BY <1>2, AfterActionHolds
<1>4. CASE Fits
  <2>1. Callers = th /\ State = limiter /\ limiter \in Limiter
    BY <1>4, CallersHold
  <2> QED
    BY <1>1, <1>3, <2>1, ReturnMove DEF Succeed
<1>5. CASE ~Fits
  <2>1. Callers = Demoted /\ State = NewState /\ \A u \in Thread : Demoted[u].permit # "current"
    BY <1>5, CallersHold
  <2>2. limiter' = l
    BY <2>1 DEF Succeed, Returned
  <2>3. Holding' = {}
    BY <1>3, <2>1, DemotedGood DEF Succeed, Holding
  <2>4. l.cap = l.free
    BY <1>1, <2>1 DEF NewState
  <2> QED
    BY <1>1, <2>2, <2>3, <2>4 DEF PermitMove, Renewed
<1> QED
  BY <1>4, <1>5

LEMMA FailMove ==
  ASSUME TInv, Backed, NEW t \in Thread, Fail(t)
  PROVE  PermitMove
<1> DEFINE l == [State EXCEPT !.fails = @ + 1]
<1>1. l \in Limiter /\ l.cap = State.cap /\ l.free = State.free
  BY StateType DEF TInv, Limiter
<1>2. Callers[t] \in Call
  BY DemotedGood DEF Good
<1>3. AfterAction(Callers[t], FALSE).permit # "current"
  BY <1>2, AfterActionHolds
<1> DEFINE c == [Callers[t] EXCEPT !.pc = "unlisten", !.goal = "disabled"]
<1>4. c.permit = Callers[t].permit
  BY <1>2 DEF Call
<1>5. Tripped(l.fails) => limiter' = l /\ th' = [Callers EXCEPT ![t] = c]
  BY DemotedGood DEF Fail
<1>6. ~Tripped(l.fails) =>
        /\ limiter' = Returned(l, Callers[t])
        /\ th' = [Callers EXCEPT ![t] = AfterAction(Callers[t], FALSE)]
  BY DEF Fail
<1>7. CASE Fits
  <2>1. Callers = th /\ State = limiter /\ limiter \in Limiter
    BY <1>7, CallersHold
  <2>2. CASE Tripped(l.fails)
    <3>1. \A u \in Thread : th'[u].permit = "current" <=> th[u].permit = "current"
      BY <1>4, <1>5, <2>1, <2>2 DEF TInv, TypeOK
    <3> QED
      BY <1>1, <1>5, <2>1, <2>2, <3>1 DEF PermitMove, Quiet, Holding
  <2>3. CASE ~Tripped(l.fails)
    BY <1>1, <1>3, <1>6, <2>1, <2>3, ReturnMove
  <2> QED
    BY <2>2, <2>3
<1>8. CASE ~Fits
  <2>1. Callers = Demoted /\ State = NewState /\ \A u \in Thread : Demoted[u].permit # "current"
    BY <1>8, CallersHold
  <2>2. limiter' = l
    BY <1>5, <1>6, <2>1 DEF Returned
  <2>3. Holding' = {}
    BY <1>3, <1>4, <1>5, <1>6, <2>1, DemotedGood DEF Holding
  <2>4. l.cap = l.free
    BY <1>1, <2>1 DEF NewState
  <2> QED
    BY <1>1, <2>2, <2>3, <2>4 DEF PermitMove, Renewed
<1> QED
  BY <1>7, <1>8

LEMMA IdleMove ==
  ASSUME TInv, NEW t \in Thread, th[t].permit = "none",
         Leave(t), limiter' = limiter
  PROVE  PermitMove
BY OneQuiet DEF Leave, Idle

LEMMA RequestMove ==
  ASSUME TInv, NEW t \in Thread, Request(t)
  PROVE  PermitMove
<1>0. th[t].pc = "idle" => th[t].permit = "none"
  BY GoodCall DEF Good, HoldsPermit
<1>1. ASSUME NEW o, NEW step, NEW goal, NEW todo, Begin(t, o, step, goal, todo)
      PROVE  PermitMove
  <2>1. [Idle EXCEPT !.op = o, !.pc = step, !.goal = goal, !.todo = todo].permit = "none"
    BY DEF Idle
  <2> QED
    BY <1>0, <1>1, <2>1, OneQuiet DEF Begin
<1>2. CASE BeginStart(t) \/ BeginUse(t) \/ BeginPublish(t) \/ BeginStop(t)
  BY <1>1, <1>2 DEF BeginStart, BeginUse, BeginPublish, BeginStop
<1>3. CASE Grant(t)
  <2>1. [Idle EXCEPT !.op = "enable", !.pc = "assign", !.goal = "enabled",
                     !.hold = "shared"].permit = "none"
    BY DEF Idle
  <2> QED
    BY <1>0, <1>3, <2>1, OneQuiet DEF Grant
<1>4. ASSUME NewObject, limiter' = limiter PROVE PermitMove
  <2>1. ASSUME NEW u \in Thread PROVE th'[u].permit = th[u].permit
    <3>1. th[u] \in Call
      BY GoodCall
    <3> QED
      BY <1>4, <3>1 DEF NewObject, Call
  <2> QED
    BY <1>4, <2>1 DEF PermitMove, Quiet, Holding
<1>5. ASSUME NEW k \in Pkg, Install(t, k) PROVE PermitMove
  BY <1>4, <1>5 DEF Install
<1>6. CASE Discover(t)
  BY <1>4, <1>6 DEF Discover
<1> QED
  BY <1>2, <1>3, <1>5, <1>6 DEF Request

LEMMA StartMove ==
  ASSUME TInv, NEW t \in Thread,
         StartCheck(t) \/ StartRefused(t) \/ Launch(t) \/ BootFail(t) \/ Ready(t)
           \/ Register(t) \/ Listen(t)
  PROVE  PermitMove
<1>1. th[t].permit = "none"
  BY GoodCall DEF Good, HoldsPermit, StartCheck, StartRefused, Launch, BootFail, Ready, Register, Listen
<1>2. limiter' = limiter
  BY DEF StartCheck, StartRefused, Launch, BootFail, Ready, Register, Listen
<1>3. CASE Leave(t)
  BY <1>1, <1>2, <1>3, IdleMove
<1>4. CASE ~Leave(t)
  <2>1. \A u \in Thread : th'[u].permit = th[u].permit
    <3>1. th \in [Thread -> Call] /\ th[t] \in Call
      BY GoodCall DEF TInv, TypeOK
    <3>2. CASE StartCheck(t)
      <4>1. PICK b :
              th' = [th EXCEPT ![t] = [th[t] EXCEPT !.pc = "launch", !.sb = b, !.hold = "shared"]]
        BY <3>1, <3>2 DEF StartCheck
      <4>2. [th[t] EXCEPT !.pc = "launch", !.sb = b, !.hold = "shared"].permit = th[t].permit
        BY <3>1 DEF Call
      <4> QED
        BY <3>1, <4>1, <4>2
    <3>3. CASE Launch(t) \/ Ready(t) \/ Register(t)
      BY <3>1, <3>3 DEF Launch, Ready, Register, Goto, Call
    <3>4. CASE Listen(t)
      BY <1>4, <3>1, <3>4 DEF Listen, Call
    <3> QED
      BY <1>4, <3>2, <3>3, <3>4 DEF StartRefused, BootFail
  <2> QED
    BY <1>2, <2>1 DEF PermitMove, Quiet, Holding
<1> QED
  BY <1>3, <1>4

LEMMA StopMove ==
  ASSUME TInv, Backed, NEW t \in Thread,
         Unlisten(t) \/ Pop(t) \/ Halt(t) \/ Deregister(t)
           \/ Settle(t) \/ SettleFail(t) \/ Assign(t) \/ Mirror(t)
  PROVE  PermitMove
<1>0. th \in [Thread -> Call] /\ th[t] \in Call
  BY GoodCall DEF TInv, TypeOK
<1>1. ASSUME NEW c, th' = [th EXCEPT ![t] = c], c.permit = th[t].permit, limiter' = limiter
      PROVE  PermitMove
  BY <1>1, OneQuiet
<1>2. ASSUME th[t].pc \in {"pop", "deregister"}, AfterStop(t), limiter' = limiter
      PROVE  PermitMove
  <2>1. CASE th[t].goal = "none"
    <3>1. th[t].permit = "none"
      BY <1>2, <2>1, GoodCall DEF Good, HoldsPermit
    <3> QED
      BY <1>2, <2>1, <3>1, IdleMove DEF AfterStop
  <2>2. CASE th[t].goal # "none"
    <3>1. [th[t] EXCEPT !.pc = "settle", !.sb = None].permit = th[t].permit
      BY <1>0 DEF Call
    <3>2. th' = [th EXCEPT ![t] = [th[t] EXCEPT !.pc = "settle", !.sb = None]]
      BY <1>0, <1>2, <2>2 DEF AfterStop
    <3> QED
      BY <1>1, <1>2, <3>1, <3>2
  <2> QED
    BY <2>1, <2>2
<1>3. CASE Unlisten(t) \/ Halt(t)
  <2>1. PICK step : Goto(t, step)
    BY <1>3 DEF Unlisten, Halt
  <2>2. [th[t] EXCEPT !.pc = step].permit = th[t].permit
    BY <1>0 DEF Call
  <2>3. th' = [th EXCEPT ![t] = [th[t] EXCEPT !.pc = step]]
    BY <1>0, <2>1 DEF Goto
  <2> QED
    BY <1>1, <1>3, <2>2, <2>3 DEF Unlisten, Halt
<1>4. CASE Pop(t)
  <2>1. CASE slot = None
    BY <1>2, <1>4, <2>1 DEF Pop
  <2>2. CASE slot # None
    <3>1. [th[t] EXCEPT !.pc = "halt", !.sb = slot].permit = th[t].permit
      BY <1>0 DEF Call
    <3>2. th' = [th EXCEPT ![t] = [th[t] EXCEPT !.pc = "halt", !.sb = slot]]
      BY <1>0, <1>4, <2>2 DEF Pop
    <3> QED
      BY <1>1, <1>4, <3>1, <3>2 DEF Pop
  <2> QED
    BY <2>1, <2>2
<1>5. CASE Deregister(t)
  BY <1>2, <1>5 DEF Deregister
<1>6. CASE Settle(t)
  <2>1. [th[t] EXCEPT !.pc = "assign", !.hold = "shared"].permit = th[t].permit
    BY <1>0 DEF Call
  <2>2. th' = [th EXCEPT ![t] = [th[t] EXCEPT !.pc = "assign", !.hold = "shared"]]
    BY <1>0, <1>6 DEF Settle
  <2> QED
    BY <1>1, <1>6, <2>1, <2>2 DEF Settle
<1>7. CASE SettleFail(t) \/ Mirror(t)
  BY <1>7, StopEndMove DEF SettleFail, Mirror
<1>8. CASE Assign(t)
  <2>1. ASSUME NEW u \in Thread PROVE th'[u].permit = th[u].permit
    <3>1. th[u] \in Call
      BY GoodCall
    <3>2. CASE th[t].hold = "shared"
      <4>1. th' = [th EXCEPT ![t] = [th[t] EXCEPT !.pc = "mirror"]]
        BY <1>0, <1>8, <3>2 DEF Assign
      <4>2. [th[t] EXCEPT !.pc = "mirror"].permit = th[t].permit
        BY <1>0 DEF Call
      <4> QED
        BY <1>0, <4>1, <4>2
    <3>3. CASE th[t].hold # "shared"
      <4>1. PICK same \in SUBSET {v \in Thread : th[v].hold = th[t].hold} :
              th' = [v \in Thread |->
                       IF v = t THEN [th[t] EXCEPT !.pc = "mirror", !.hold = th[t].goal]
                       ELSE IF v \in same THEN [th[v] EXCEPT !.hold = th[t].goal] ELSE th[v]]
        BY <1>8, <3>3 DEF Assign
      <4>2. [th[t] EXCEPT !.pc = "mirror", !.hold = th[t].goal].permit = th[t].permit
        BY <1>0 DEF Call
      <4>3. [th[u] EXCEPT !.hold = th[t].goal].permit = th[u].permit
        BY <3>1 DEF Call
      <4> QED
        BY <4>1, <4>2, <4>3
    <3> QED
      BY <3>2, <3>3
  <2> QED
    BY <1>8, <2>1 DEF Assign, PermitMove, Quiet, Holding
<1> QED
  BY <1>3, <1>4, <1>5, <1>6, <1>7, <1>8

LEMMA UseMove ==
  ASSUME TInv, Backed, NEW t \in Thread,
         Lookup(t) \/ Deliver(t) \/ Denied(t) \/ Admit(t) \/ NoState(t) \/ Create(t)
           \/ Run(t) \/ Answer(t) \/ TimeOut(t)
  PROVE  PermitMove
<1>0. th \in [Thread -> Call] /\ th[t] \in Call
  BY GoodCall DEF TInv, TypeOK
<1>1. th[t].pc \in {"lookup", "deliver", "admit", "create"} => th[t].permit = "none"
  BY GoodCall DEF Good, HoldsPermit
<1>2. CASE Lookup(t) \/ Deliver(t) \/ NoState(t)
  <2>1. \A u \in Thread : th'[u].permit = "current" <=> th[u].permit = "current"
    <3>1. CASE Leave(t)
      BY <1>0, <1>1, <1>2, <3>1 DEF Leave, Idle, Lookup, Deliver, NoState
    <3>2. CASE ~Leave(t) /\ Lookup(t)
      BY <1>0, <3>2 DEF Lookup, Call
    <3>3. CASE ~Leave(t) /\ Deliver(t)
      BY <1>0, <3>3 DEF Deliver, Call
    <3>4. CASE NoState(t)
      BY <1>0, <3>4 DEF NoState, Goto, Call
    <3> QED
      BY <1>2, <3>1, <3>2, <3>3, <3>4
  <2> QED
    BY <1>2, <2>1 DEF PermitMove, Quiet, Holding, Lookup, Deliver, NoState
<1>3. CASE Denied(t)
  <2>1. AfterAction(th[t], FALSE).permit # "current"
    BY <1>0, AfterActionHolds
  <2> QED
    BY <1>1, <1>3, <2>1, OneQuiet DEF Denied
<1>4. CASE Admit(t)
  <2>1. \A u \in Thread : th'[u].permit = "current" <=> th[u].permit = "current" \/ u = t
    BY <1>0, <1>4 DEF Admit, Call
  <2>2. limiter \in Limiter /\ limiter.free - 1 \in Nat
    BY <1>4 DEF Admit, Fits, TInv, TypeOK, Limiter
  <2>3. limiter' \in Limiter /\ limiter'.cap = limiter.cap /\ limiter'.free = limiter.free - 1
    BY <1>4, <2>2 DEF Admit, Limiter
  <2>4. t \notin Holding /\ Holding' = Holding \cup {t}
    BY <1>1, <1>4, <2>1 DEF Admit, Holding
  <2> QED
    BY <2>2, <2>3, <2>4 DEF PermitMove, Taken
<1>5. CASE Create(t)
  <2>1. Holding' = {t}
    <3>1. \A u \in Thread : Demoted[u].permit # "current"
      BY CallersHold
    <3>2. th' = [Demoted EXCEPT ![t] = [Demoted[t] EXCEPT !.pc = "run", !.permit = "current"]]
      BY <1>5, DemotedGood DEF Create
    <3>3. [Demoted[t] EXCEPT !.pc = "run", !.permit = "current"].permit = "current"
      <4>1. Demoted[t] \in Call
        BY DemotedGood DEF Good
      <4> QED
        BY <4>1 DEF Call
    <3> QED
      BY <3>1, <3>2, <3>3, DemotedGood DEF Holding
  <2>2. Limit[rec.pkg] \in Nat /\ Limit[rec.pkg] - 1 \in Nat
    BY EngineAssumption DEF TInv, TypeOK
  <2>3. limiter' = [cap |-> Limit[rec.pkg], free |-> Limit[rec.pkg] - 1, fails |-> 0]
    BY <1>5, <2>2 DEF Create, NewState
  <2>4. limiter' \in Limiter /\ limiter'.cap = limiter'.free + 1
    BY <2>2, <2>3 DEF Limiter
  <2> QED
    BY <2>1, <2>4 DEF PermitMove, RenewedFor
<1>6. CASE Run(t)
  <2> DEFINE b == IF th[t].op = "tool" THEN active ELSE th[t].sb
  <2>1. CASE b \in live
    <3>1. [th[t] EXCEPT !.pc = "work", !.sb = b].permit = th[t].permit
      BY <1>0 DEF Call
    <3>2. th' = [th EXCEPT ![t] = [th[t] EXCEPT !.pc = "work", !.sb = b]]
      BY <1>0, <1>6, <2>1 DEF Run
    <3> QED
      BY <1>6, <2>1, <3>1, <3>2, OneQuiet DEF Run
  <2>2. CASE b \notin live
    BY <1>6, <2>2, FailMove DEF Run
  <2> QED
    BY <2>1, <2>2
<1>7. CASE Answer(t)
  BY <1>7, SucceedMove, FailMove DEF Answer
<1>8. CASE TimeOut(t)
  BY <1>8, FailMove DEF TimeOut
<1> QED
  BY <1>2, <1>3, <1>4, <1>5, <1>6, <1>7, <1>8

LEMMA Moves ==
  ASSUME TInv, Backed, [Next]_vars
  PROVE  PermitMove
<1>1. ASSUME NEW b \in Box, Die(b) PROVE PermitMove
  BY <1>1 DEF Die, PermitMove, Quiet, Holding
<1>2. CASE UNCHANGED vars
  BY <1>2 DEF vars, PermitMove, Quiet, Holding
<1>3. ASSUME NEW t \in Thread, Request(t) \/ Advance(t) \/ Answer(t) \/ TimeOut(t)
      PROVE  PermitMove
  BY <1>3, RequestMove, StartMove, StopMove, UseMove DEF Advance
<1> QED
  BY <1>1, <1>2, <1>3 DEF Next

(***************************************************************************)
(* The theorems.                                                           *)
(***************************************************************************)

PInv == TInv /\ Backed /\ NoPermitLost

LEMMA PInvInvariant == Spec => []PInv
<1>1. Init => PInv
  <2> SUFFICES ASSUME Init PROVE PInv
    OBVIOUS
  <2>1. th \in [Thread -> Good] /\ th \in [Thread -> Call]
    BY IdleGood DEF Init, Good
  <2>2. TypeOK
    BY <2>1 DEF Init, TypeOK, Holder, Status
  <2>3. Backed
    BY DEF Init, Backed, Idle
  <2>4. NoPermitLost
    BY DEF Init, NoPermitLost
  <2> QED
    BY <2>1, <2>2, <2>3, <2>4 DEF PInv, TInv
<1>2. PInv /\ [Next]_vars => PInv'
  BY TypeStep, Moves, MoveCounts DEF PInv
<1> QED
  BY <1>1, <1>2, PTL DEF Spec

\* Every variable of the engine keeps its type, for every set of threads,
\* packages and operations.
THEOREM TypeCorrect == Spec => []TypeOK
<1>1. PInv => TypeOK
  BY DEF PInv, TInv
<1> QED
  BY <1>1, PInvInvariant, PTL

\* The permits the calls hold and those the semaphore has left are always all
\* of max_concurrency: _execute_plugin_action loses none, however many threads
\* call, whatever stops, trips, upgrades and timeouts happen meanwhile.
THEOREM PermitsAccounted == Spec => []NoPermitLost
<1>1. PInv => NoPermitLost
  BY DEF PInv
<1> QED
  BY <1>1, PInvInvariant, PTL

(***************************************************************************)
(* While nothing gives the loader a new record, everyone who holds the     *)
(* record of the plugin holds the loader's.                                *)
(***************************************************************************)

Own == {"none", "shared"}

Aliased == gate \in Own /\ \A t \in Thread : th[t].hold \in Own

\* One call changes, or all change in nothing but their permits.
LEMMA OneHold ==
  ASSUME TInv, Aliased, NEW t \in Thread, NEW c, c.hold \in Own,
         NEW f \in [Thread -> Call], \A u \in Thread : f[u].hold = th[u].hold
  PROVE  \A u \in Thread : [f EXCEPT ![t] = c][u].hold \in Own
BY DEF Aliased

LEMMA CallersKeepHold ==
  ASSUME TInv
  PROVE  /\ \A u \in Thread : th[u].hold = th[u].hold
         /\ \A u \in Thread : Demoted[u].hold = th[u].hold
         /\ \A u \in Thread : Callers[u].hold = th[u].hold
<1>1. ASSUME NEW u \in Thread PROVE Demoted[u].hold = th[u].hold
  <2>1. Demoted[u] = [th[u] EXCEPT !.permit = IF @ = "current" THEN "old" ELSE @]
    BY DEF Demoted
  <2>2. th[u] \in Call
    BY GoodCall
  <2> QED
    BY <2>1, <2>2 DEF Call
<1> QED
  BY <1>1 DEF Callers

LEMMA AfterActionHold ==
  ASSUME NEW c \in Call, NEW ok \in BOOLEAN, c.hold \in Own
  PROVE  AfterAction(c, ok).hold \in Own
<1>1. [Idle EXCEPT !.op = c.op, !.pc = "deliver", !.todo = c.todo].hold = "none"
  BY DEF Idle
<1>2. [c EXCEPT !.pc = "admit", !.permit = "none", !.todo = @ - 1].hold = c.hold
  BY DEF Call
<1>3. Idle.hold = "none"
  BY DEF Idle
<1> QED
  BY <1>1, <1>2, <1>3 DEF AfterAction, Own

LEMMA AliasedCall ==
  ASSUME TInv, Aliased, NEW t \in Thread, NEW c, c.hold \in Own,
         th' = [th EXCEPT ![t] = c], gate' \in Own
  PROVE  Aliased'
BY OneHold, CallersKeepHold DEF TInv, TypeOK, Aliased

LEMMA AliasedResult ==
  ASSUME TInv, Aliased, NEW t \in Thread, Succeed(t) \/ Fail(t), gate' = gate
  PROVE  Aliased'
<1>1. Callers \in [Thread -> Call] /\ Callers[t] \in Call /\ Callers[t].hold \in Own
  BY DemotedGood, CallersKeepHold DEF Good, Aliased
<1>2. AfterAction(Callers[t], TRUE).hold \in Own /\ AfterAction(Callers[t], FALSE).hold \in Own
  BY <1>1, AfterActionHold
<1> DEFINE c == [Callers[t] EXCEPT !.pc = "unlisten", !.goal = "disabled"]
<1>3. c.hold \in Own
  BY <1>1 DEF Call
<1>4. PICK d \in {AfterAction(Callers[t], TRUE), AfterAction(Callers[t], FALSE), c} :
        th' = [Callers EXCEPT ![t] = d]
  BY <1>1 DEF Succeed, Fail
<1> QED
  BY <1>1, <1>2, <1>3, <1>4, OneHold, CallersKeepHold DEF Aliased

LEMMA AliasedStep ==
  ASSUME TInv, Aliased, {"install", "discover"} \cap Ops = {}, [Next]_vars
  PROVE  Aliased'
<1>1. CASE (\E b \in Box : Die(b)) \/ UNCHANGED vars
  BY <1>1 DEF Die, vars, Aliased
<1>2. ASSUME NEW t \in Thread, Request(t) \/ Advance(t) \/ Answer(t) \/ TimeOut(t)
      PROVE  Aliased'
  <2>0. th \in [Thread -> Call] /\ th[t] \in Call /\ th[t].hold \in Own /\ gate \in Own
    BY GoodCall DEF TInv, TypeOK, Aliased
  <2>1. ASSUME Leave(t), gate' = gate PROVE Aliased'
    <3>1. Idle.hold \in Own
      BY DEF Idle, Own
    <3> QED
      BY <2>0, <2>1, <3>1, AliasedCall DEF Leave
  <2>2. ASSUME NEW step, Goto(t, step), gate' \in Own PROVE Aliased'
    <3>1. [th[t] EXCEPT !.pc = step].hold \in Own
      BY <2>0 DEF Call
    <3>2. th' = [th EXCEPT ![t] = [th[t] EXCEPT !.pc = step]]
      BY <2>0, <2>2 DEF Goto
    <3> QED
      BY <2>2, <3>1, <3>2, AliasedCall
  <2>3. ASSUME AfterStop(t), gate' = gate PROVE Aliased'
    <3>1. CASE Leave(t)
      BY <2>1, <2>3, <3>1
    <3>2. CASE ~Leave(t)
      <4>1. [th[t] EXCEPT !.pc = "settle", !.sb = None].hold \in Own
        BY <2>0 DEF Call
      <4>2. th' = [th EXCEPT ![t] = [th[t] EXCEPT !.pc = "settle", !.sb = None]]
        BY <2>0, <2>3, <3>2 DEF AfterStop
      <4> QED
        BY <2>0, <2>3, <4>1, <4>2, AliasedCall
    <3> QED
      BY <3>1, <3>2
  <2>4. ASSUME NEW o, NEW step, NEW goal, NEW todo, Begin(t, o, step, goal, todo)
        PROVE  Aliased'
    <3>1. [Idle EXCEPT !.op = o, !.pc = step, !.goal = goal, !.todo = todo].hold \in Own
      BY DEF Idle, Own
    <3> QED
      BY <2>0, <2>4, <3>1, AliasedCall DEF Begin
  <2>5. CASE Request(t)
    <3>1. CASE Grant(t)
      <4>1. [Idle EXCEPT !.op = "enable", !.pc = "assign", !.goal = "enabled",
                         !.hold = "shared"].hold \in Own
        BY DEF Idle, Own
      <4> QED
        BY <2>0, <3>1, <4>1, AliasedCall DEF Grant
    <3>2. ~Discover(t) /\ \A k \in Pkg : ~Install(t, k)
      BY DEF Discover, Install
    <3> QED
      BY <2>4, <2>5, <3>1, <3>2 DEF Request, BeginStart, BeginUse, BeginPublish, BeginStop
  <2>6. CASE StartCheck(t)
    <3>1. PICK b :
            th' = [th EXCEPT ![t] = [th[t] EXCEPT !.pc = "launch", !.sb = b, !.hold = "shared"]]
      BY <2>0, <2>6 DEF StartCheck
    <3>2. [th[t] EXCEPT !.pc = "launch", !.sb = b, !.hold = "shared"].hold \in Own
      BY <2>0 DEF Call, Own
    <3> QED
      BY <2>0, <2>6, <3>1, <3>2, AliasedCall DEF StartCheck
  <2>7. CASE StartRefused(t) \/ BootFail(t)
    BY <2>1, <2>7 DEF StartRefused, BootFail
  <2>8. CASE Launch(t) \/ Ready(t) \/ Register(t) \/ Unlisten(t) \/ Halt(t) \/ NoState(t)
    BY <2>0, <2>2, <2>8 DEF Launch, Ready, Register, Unlisten, Halt, NoState
  <2>9. CASE Listen(t)
    <3>1. CASE ~Leave(t)
      <4>1. [th[t] EXCEPT !.pc = "lookup", !.hold = "none"].hold \in Own
        BY <2>0 DEF Call, Own
      <4>2. th' = [th EXCEPT ![t] = [th[t] EXCEPT !.pc = "lookup", !.hold = "none"]]
        BY <2>0, <2>9, <3>1 DEF Listen
      <4> QED
        BY <2>0, <2>9, <4>1, <4>2, AliasedCall DEF Listen
    <3> QED
      BY <2>1, <2>9, <3>1 DEF Listen
  <2>10. CASE Pop(t)
    <3>1. CASE slot # None
      <4>1. [th[t] EXCEPT !.pc = "halt", !.sb = slot].hold \in Own
        BY <2>0 DEF Call
      <4>2. th' = [th EXCEPT ![t] = [th[t] EXCEPT !.pc = "halt", !.sb = slot]]
        BY <2>0, <2>10, <3>1 DEF Pop
      <4> QED
        BY <2>0, <2>10, <4>1, <4>2, AliasedCall DEF Pop
    <3> QED
      BY <2>3, <2>10, <3>1 DEF Pop
  <2>11. CASE Deregister(t)
    BY <2>3, <2>11 DEF Deregister
  <2>12. CASE Settle(t)
    <3>1. [th[t] EXCEPT !.pc = "assign", !.hold = "shared"].hold \in Own
      BY <2>0 DEF Call, Own
    <3>2. th' = [th EXCEPT ![t] = [th[t] EXCEPT !.pc = "assign", !.hold = "shared"]]
      BY <2>0, <2>12 DEF Settle
    <3> QED
      BY <2>0, <2>12, <3>1, <3>2, AliasedCall DEF Settle
  <2>13. CASE SettleFail(t) \/ Mirror(t) \/ Denied(t)
    <3>1. AfterAction(th[t], FALSE).hold \in Own
      BY <2>0, AfterActionHold
    <3> QED
      BY <2>0, <2>13, <3>1, AliasedCall DEF SettleFail, Mirror, Denied
  <2>14. CASE Lookup(t) \/ Deliver(t)
    <3>1. \A u \in Thread : th'[u].hold \in Own
      <4>1. CASE Leave(t)
        BY <2>0, <4>1 DEF Leave, Idle, Own, Aliased
      <4>2. CASE ~Leave(t) /\ Lookup(t)
        BY <2>0, <4>2 DEF Lookup, Call, Aliased
      <4>3. CASE ~Leave(t) /\ Deliver(t)
        BY <2>0, <4>3 DEF Deliver, Call, Aliased
      <4> QED
        BY <2>14, <4>1, <4>2, <4>3
    <3> QED
      BY <2>0, <2>14, <3>1 DEF Lookup, Deliver, Aliased
  <2>15. CASE Admit(t)
    BY <2>0, <2>15 DEF Admit, Call, Aliased
  <2>16. CASE Create(t)
    <3> DEFINE c == [Demoted[t] EXCEPT !.pc = "run", !.permit = "current"]
    <3>1. Demoted \in [Thread -> Call] /\ Demoted[t] \in Call
      BY DemotedGood DEF Good
    <3>2. th' = [Demoted EXCEPT ![t] = c]
      BY <2>16, <3>1 DEF Create
    <3>3. c.hold \in Own
      BY <2>0, <3>1, CallersKeepHold DEF Call
    <3> QED
      BY <2>0, <2>16, <3>1, <3>2, <3>3, OneHold, CallersKeepHold DEF Create, Aliased
  <2>17. CASE Run(t)
    <3> DEFINE b == IF th[t].op = "tool" THEN active ELSE th[t].sb
    <3>1. CASE b \in live
      <4>1. [th[t] EXCEPT !.pc = "work", !.sb = b].hold \in Own
        BY <2>0 DEF Call
      <4>2. th' = [th EXCEPT ![t] = [th[t] EXCEPT !.pc = "work", !.sb = b]]
        BY <2>0, <2>17, <3>1 DEF Run
      <4> QED
        BY <2>0, <2>17, <4>1, <4>2, AliasedCall DEF Run
    <3>2. CASE b \notin live
      BY <2>17, <3>2, AliasedResult DEF Run
    <3> QED
      BY <3>1, <3>2
  <2>18. CASE Answer(t) \/ TimeOut(t)
    BY <2>18, AliasedResult DEF Answer, TimeOut
  <2>19. CASE Assign(t)
    <3>1. th[t].hold = "shared"
      BY <2>0, <2>19, GoodCall DEF Assign, Good, Own
    <3>2. [th[t] EXCEPT !.pc = "mirror"].hold \in Own
      BY <2>0 DEF Call
    <3>3. th' = [th EXCEPT ![t] = [th[t] EXCEPT !.pc = "mirror"]] /\ gate' = gate
      BY <2>0, <2>19, <3>1 DEF Assign
    <3> QED
      BY <2>0, <3>2, <3>3, AliasedCall
  <2> QED
    BY <1>2, <2>5, <2>6, <2>7, <2>8, <2>9, <2>10, <2>11, <2>12, <2>13, <2>14, <2>15,
       <2>16, <2>17, <2>18, <2>19 DEF Advance
<1> QED
  BY <1>1, <1>2 DEF Next

\* Unless a package is installed or the directory discovered anew while the engine
\* runs, no start that overtakes a disable, a quarantine or a revoke makes the
\* gateway take the plugin for enabled again.
THEOREM GatewayRefuses ==
  ASSUME {"install", "discover"} \cap Ops = {}
  PROVE  Spec => []GatewayDenies
<1>1. Init => Aliased
  BY DEF Init, Aliased, Idle, Own
<1>2. PInv /\ Aliased /\ [Next]_vars => Aliased'
  BY AliasedStep DEF PInv
<1>3. Aliased => GatewayDenies
  BY DEF Aliased, Own, GatewayDenies, Blocked, StatusOf
<1> QED
  BY <1>1, <1>2, <1>3, PInvInvariant, PTL DEF Spec

=============================================================================
