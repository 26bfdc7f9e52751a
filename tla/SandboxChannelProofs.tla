------------------------- MODULE SandboxChannelProofs -------------------------
(***************************************************************************)
(* Proofs about SandboxChannel: type correctness, and, where the engine    *)
(* lets in one call at a time, that every answer is that of the call it is *)
(* returned for.  The code puts no number into a message; what keeps the   *)
(* calls apart is that a manager and its worker pass a single message back *)
(* and forth.  Exchange says where that message can be.                    *)
(***************************************************************************)
EXTENDS SandboxChannel, SequenceTheorems, FiniteSetTheorems, TLAPS

-----------------------------------------------------------------------------
(* The inductive invariant. *)

\* One thread at most is in a call, and only one in a call waits.
OneCall ==
  /\ \A t, u \in InCall : t = u
  /\ \A t \in Thread : /\ th[t].pc = "idle" => th[t].call = 0
                       /\ th[t].pc \in {"wait", "gateway"} => th[t].call # 0

\* Before the sandbox is up nobody calls, and what it has sent is "ready".
Starting ==
  mode \in {"new", "starting"} =>
    /\ InCall = {} /\ req = <<>>
    /\ mode = "new" => worker.pc = "none" /\ ans = <<>>
    /\ Alive => \/ worker.pc = "loading" /\ ans = <<>>
                \/ worker.pc = "idle" /\ ans = <<Msg("ready", 0)>>

\* The one message of a call: on its way to the worker, with it, or on its
\* way back; or the gateway is about to send it.
Exchange(t) ==
  LET c == th[t].call
  IN \/ /\ th[t].pc # "gateway" /\ worker.pc = "idle"
        /\ \/ req = <<Msg("request", c)>> /\ ans = <<>>
           \/ req = <<>> /\ \E kind \in {"result", "big", "bad"} : ans = <<Msg(kind, c)>>
     \/ /\ th[t].pc # "gateway" /\ worker = [pc |-> "run", call |-> c]
        /\ req = <<>> /\ ans = <<>>
     \/ /\ th[t].pc # "gateway" /\ worker = [pc |-> "await", call |-> c]
        /\ \/ req = <<>> /\ \E kind \in {"ask", "big", "bad"} : ans = <<Msg(kind, c)>>
           \/ req = <<Msg("reply", c)>> /\ ans = <<>>
     \/ /\ th[t].pc = "gateway" /\ worker = [pc |-> "await", call |-> c]
        /\ req = <<>> /\ ans = <<>>
Resting == worker.pc = "idle" /\ req = <<>> /\ ans = <<>>
Up == mode = "up" /\ Alive => /\ InCall = {} => Resting
                              /\ \A t \in InCall : Exchange(t)

\* A shutdown request that cuts into no call is the next the worker reads.
Closing ==
  mode = "closing" /\ Alive /\ InCall \subseteq Pending =>
    /\ worker.pc = "idle" /\ ans = <<>>
    /\ req # <<>> /\ Head(req).kind = "shutdown"
    /\ \A t \in InCall : th[t].pc = "wait"

\* Once the worker has ended, only the answer of the call that waits is left.
Ended ==
  /\ mode = "down" => ~Alive
  /\ ~Alive => \A t \in Pending : \A i \in 1..Len(ans) :
                 ans[i].kind = "result" => ans[i].call = th[t].call

InOrder == /\ ~deaf /\ Starting /\ Up /\ Closing /\ Ended
           /\ \A n \in 1..Calls : got[n] # "other"
Inv == TypeOK /\ OneCall /\ (~tainted => InOrder)

\* While a caller that timed out closes the sandbox, a worker that is still in
\* the call has shutdown requests before it, and at most one message of its
\* own call before those.
Stops(q) == \A i \in 1..Len(q) : q[i].kind = "shutdown"
First(m) == req # <<>> /\ Head(req) = m /\ Stops(Tail(req))
LeftOver(t) ==
  LET c == th[t].call
  IN \/ /\ worker.pc = "idle"
        /\ \/ Stops(req)
           \/ req # <<>> /\ Head(req).kind = "shutdown"
           \/ First(Msg("request", c))
     \/ worker = [pc |-> "run", call |-> c] /\ Stops(req)
     \/ worker = [pc |-> "await", call |-> c] /\ (Stops(req) \/ First(Msg("reply", c)))
GivenUp == mode = "closing" /\ Alive /\ ~tainted => \A t \in InCall \ Pending : LeftOver(t)
-----------------------------------------------------------------------------
(* Type correctness. *)

\* The sets TypeOK names, for the lemmas about their members.
Requests     == [kind : {"request", "reply", "shutdown"}, call : 0..Calls]
Answers      == [kind : Lifecycle \cup {"ask", "result", "big", "bad"}, call : 0..Calls]
WorkerStates == [pc : {"none", "loading", "idle", "run", "await", "gone"}, call : 0..Calls]
CallStates   == [pc : {"idle", "wait", "gateway", "stop", "close"}, call : 0..Calls]

LEMMA TypeParts ==
  TypeOK <=> /\ mode \in {"new", "starting", "up", "closing", "down"}
             /\ transport \in Transports
             /\ worker \in WorkerStates
             /\ req \in Seq(Requests) /\ ans \in Seq(Answers)
             /\ deaf \in BOOLEAN /\ tainted \in BOOLEAN
             /\ th \in [Thread -> CallStates]
             /\ calls \in 0..Calls
             /\ got \in [1..Calls -> Outcome]
  BY DEF TypeOK, Requests, Answers, WorkerStates, CallStates

\* The members of those sets that the steps build.
LEMMA MsgType ==
  ASSUME NEW n \in 0..Calls
  PROVE  /\ \A kind \in {"request", "reply", "shutdown"} : Msg(kind, n) \in Requests
         /\ \A kind \in Lifecycle \cup {"ask", "result", "big", "bad"} : Msg(kind, n) \in Answers
  BY DEF Requests, Answers, Msg
LEMMA Fields ==
  /\ \A m \in Requests : m.kind \in {"request", "reply", "shutdown"} /\ m.call \in 0..Calls
  /\ \A m \in Answers : m.kind \in Lifecycle \cup {"ask", "result", "big", "bad"} /\ m.call \in 0..Calls
  /\ \A w \in WorkerStates : w.pc \in {"none", "loading", "idle", "run", "await", "gone"} /\ w.call \in 0..Calls
  /\ \A s \in CallStates : s.pc \in {"idle", "wait", "gateway", "stop", "close"} /\ s.call \in 0..Calls
  BY DEF Requests, Answers, WorkerStates, CallStates

\* What a step does with a queue keeps its type.
LEMMA QueueType ==
  ASSUME TypeOK
  PROVE  /\ req \in Seq(Requests) /\ \A m \in Requests : Append(req, m) \in Seq(Requests)
         /\ ans \in Seq(Answers) /\ \A m \in Answers : Append(ans, m) \in Seq(Answers)
         /\ req # <<>> => Head(req) \in Requests /\ Tail(req) \in Seq(Requests)
         /\ ans # <<>> => Head(ans) \in Answers /\ Tail(ans) \in Seq(Answers)
<1>1. req \in Seq(Requests) /\ ans \in Seq(Answers)
  BY TypeParts
<1>2. /\ \A m \in Requests : Append(req, m) \in Seq(Requests)
      /\ \A m \in Answers : Append(ans, m) \in Seq(Answers)
  BY <1>1, AppendProperties
<1>3. req # <<>> => Head(req) \in Requests /\ Tail(req) \in Seq(Requests)
  BY <1>1, HeadTailProperties
<1>4. ans # <<>> => Head(ans) \in Answers /\ Tail(ans) \in Seq(Answers)
  BY <1>1, HeadTailProperties
<1> QED BY <1>1, <1>2, <1>3, <1>4

\* A thread that goes on to another point of its call, and one that returns.
LEMMA ThreadGoes ==
  ASSUME TypeOK, NEW t \in Thread, NEW p \in {"idle", "wait", "gateway", "stop", "close"},
         th' = [th EXCEPT ![t].pc = p]
  PROVE  /\ th' \in [Thread -> CallStates]
         /\ th'[t].pc = p /\ th'[t].call = th[t].call
         /\ \A u \in Thread : u # t => th'[u] = th[u]
<1>1. th \in [Thread -> CallStates] /\ th[t] \in [pc : {"idle", "wait", "gateway", "stop", "close"}, call : 0..Calls]
  BY TypeParts DEF CallStates
<1>2. th'[t].pc = p /\ th'[t].call = th[t].call /\ \A u \in Thread : u # t => th'[u] = th[u]
  BY <1>1 DEF CallStates
<1>3. th'[t] \in CallStates
  BY <1>1 DEF CallStates
<1> QED BY <1>1, <1>2, <1>3
LEMMA ThreadReturns ==
  ASSUME TypeOK, NEW t \in Thread, NEW what \in Outcome, Return(t, what)
  PROVE  /\ th' \in [Thread -> CallStates] /\ got' \in [1..Calls -> Outcome]
         /\ th'[t].pc = "idle" /\ th'[t].call = 0
         /\ \A u \in Thread : u # t => th'[u] = th[u]
<1>1. NoCall \in CallStates
  BY ChannelAssumption DEF NoCall, CallStates
<1> QED BY <1>1, TypeParts DEF Return, NoCall
\* A worker that goes on with the call it has.
LEMMA WorkerGoes ==
  ASSUME TypeOK, NEW p \in {"none", "loading", "idle", "run", "await", "gone"},
         worker' = [worker EXCEPT !.pc = p]
  PROVE  worker' \in WorkerStates /\ worker'.pc = p /\ worker'.call = worker.call
  BY TypeParts DEF WorkerStates

LEMMA TypeInit == Init => TypeOK
<1> SUFFICES ASSUME Init PROVE TypeOK
  OBVIOUS
<1>1. worker \in WorkerStates
  BY ChannelAssumption DEF Init, WorkerStates
<1>2. NoCall \in CallStates
  BY ChannelAssumption DEF NoCall, CallStates
<1>3. req \in Seq(Requests) /\ ans \in Seq(Answers)
  BY DEF Init
<1>4. th \in [Thread -> CallStates] /\ got \in [1..Calls -> Outcome]
  BY <1>2 DEF Init, Outcome
<1>5. mode \in {"new", "starting", "up", "closing", "down"} /\ transport \in Transports
  BY DEF Init
<1>6. deaf \in BOOLEAN /\ tainted \in BOOLEAN
  BY DEF Init
<1>7. calls \in 0..Calls
  BY ChannelAssumption DEF Init
<1> QED BY <1>1, <1>3, <1>4, <1>5, <1>6, <1>7, TypeParts

LEMMA TypeStart == TypeOK /\ Start => TypeOK'
<1> SUFFICES ASSUME TypeOK, Start PROVE TypeOK'
  OBVIOUS
<1> USE DEF Start, Launch, StartReady, StartFails
<1>1. mode' \in {"new", "starting", "up", "closing", "down"}
  OBVIOUS
<1>2. worker' \in WorkerStates
  BY WorkerGoes, TypeParts
<1>3. ans' \in Seq(Answers)
  <2>1. <<>> \in Seq(Answers)
    OBVIOUS
  <2> QED BY <2>1, QueueType
<1>4. UNCHANGED <<transport, req, deaf, th, calls, got, tainted>>
  OBVIOUS
<1> QED BY <1>1, <1>2, <1>3, <1>4 DEF TypeOK, WorkerStates, Answers

LEMMA TypeWorker == TypeOK /\ Worker => TypeOK'
<1> SUFFICES ASSUME TypeOK, Worker PROVE TypeOK'
  OBVIOUS
<1>0. worker \in WorkerStates /\ worker.call \in 0..Calls
  BY TypeParts, Fields
<1>1. req' \in Seq(Requests)
  BY QueueType DEF Worker, Load, Take, Ask, TakeReply, Finish, Die
<1>2. worker' \in WorkerStates /\ ans' \in Seq(Answers)
  <2>1. CASE Load
    <3>1. Msg("ready", 0) \in Answers /\ Msg("failed", 0) \in Answers
      BY MsgType, ChannelAssumption DEF Lifecycle
    <3> QED BY <2>1, <3>1, QueueType, WorkerGoes DEF Load, Send
  <2>2. CASE Take
    <3>1. Head(req) \in Requests /\ Head(req).call \in 0..Calls
      BY <2>2, QueueType, Fields DEF Take
    <3>2. [pc |-> "run", call |-> Head(req).call] \in WorkerStates
      BY <3>1 DEF WorkerStates
    <3>3. Msg("stopped", 0) \in Answers /\ Msg("result", Head(req).call) \in Answers
      BY <3>1, MsgType, ChannelAssumption DEF Lifecycle
    <3> QED BY <2>2, <1>0, <3>2, <3>3, QueueType, WorkerGoes DEF Take, Send
  <2>3. CASE Ask
    <3>1. \A kind \in {"ask", "big", "bad"} : Msg(kind, worker.call) \in Answers
      BY <1>0, MsgType
    <3> QED BY <2>3, <3>1, QueueType, WorkerGoes DEF Ask, Spoilt, Send
  <2>4. CASE TakeReply
    BY <2>4, QueueType, WorkerGoes DEF TakeReply
  <2>5. CASE Finish
    <3>1. \A kind \in {"result", "big", "bad"} : Msg(kind, worker.call) \in Answers
      BY <1>0, MsgType
    <3> QED BY <2>5, <3>1, QueueType, WorkerGoes DEF Finish, Spoilt, Send
  <2>6. CASE Die
    <3>1. Msg("failed", worker.call) \in Answers
      BY <1>0, MsgType DEF Lifecycle
    <3> QED BY <2>6, <3>1, QueueType, WorkerGoes DEF Die
  <2> QED BY <2>1, <2>2, <2>3, <2>4, <2>5, <2>6 DEF Worker
<1>3. UNCHANGED <<mode, transport, deaf, th, calls, got, tainted>>
  BY DEF Worker, WorkerOnly, Load, Take, Ask, TakeReply, Finish, Die
<1> QED BY <1>1, <1>2, <1>3 DEF TypeOK, WorkerStates, Answers, Requests

LEMMA TypeManager == ASSUME NEW t \in Thread PROVE TypeOK /\ Manager(t) => TypeOK'
<1> SUFFICES ASSUME TypeOK, Manager(t) PROVE TypeOK'
  OBVIOUS
<1>0. /\ mode \in {"new", "starting", "up", "closing", "down"}
      /\ worker \in WorkerStates /\ deaf \in BOOLEAN /\ tainted \in BOOLEAN
      /\ th \in [Thread -> CallStates] /\ th[t].call \in 0..Calls
      /\ calls \in 0..Calls /\ got \in [1..Calls -> Outcome]
  BY TypeParts, Fields
<1>1. mode' \in {"new", "starting", "up", "closing", "down"} /\ calls' \in 0..Calls
  BY <1>0, ChannelAssumption DEF Manager, Proceed, Call, CallUnsent, BeginStop, Receive, ReceiveError,
     ReceiveAsk, Reply, ReplyUnsent, ReadFails, Timeout, Shutdown, Close
<1>2. worker' \in WorkerStates /\ deaf' \in BOOLEAN /\ tainted' \in BOOLEAN
  BY <1>0, WorkerGoes DEF Manager, Proceed, Call, CallUnsent, BeginStop, Receive, ReceiveError,
     ReceiveAsk, Reply, ReplyUnsent, ReadFails, Timeout, Shutdown, Close
<1>3. ans' \in Seq(Answers)
  <2>1. <<>> \in Seq(Answers)
    OBVIOUS
  <2> QED BY <2>1, QueueType DEF Manager, Proceed, Call, CallUnsent, BeginStop, Receive, ReceiveError,
     ReceiveAsk, Reply, ReplyUnsent, ReadFails, Timeout, Shutdown, Close, Readable
<1>4. req' \in Seq(Requests)
  <2>1. /\ Msg("request", calls') \in Requests /\ Msg("reply", th[t].call) \in Requests
        /\ Msg("shutdown", 0) \in Requests
    BY <1>0, <1>1, MsgType, ChannelAssumption
  <2> QED BY <2>1, QueueType
     DEF Manager, Proceed, Call, CallUnsent, BeginStop, Receive, ReceiveError,
     ReceiveAsk, Reply, ReplyUnsent, ReadFails, Timeout, Shutdown, Close
<1>5. th' \in [Thread -> CallStates] /\ got' \in [1..Calls -> Outcome]
  <2>1. CASE Call(t)
    <3>1. [pc |-> "wait", call |-> calls'] \in CallStates
      BY <1>1 DEF CallStates
    <3> QED BY <2>1, <1>0, <1>1, <3>1 DEF Call, Outcome
  <2>2. CASE CallUnsent(t)
    BY <2>2, <1>0 DEF CallUnsent, Outcome
  <2>3. CASE BeginStop(t) \/ ReceiveAsk(t) \/ Timeout(t) \/ Shutdown(t)
    BY <2>3, <1>0, ThreadGoes DEF BeginStop, ReceiveAsk, Timeout, Shutdown
  <2>4. CASE \E what \in Outcome : Return(t, what)
    BY <2>4, ThreadReturns
  <2>5. CASE Receive(t) \/ ReceiveError(t) \/ ReplyUnsent(t) \/ ReadFails(t)
    BY <2>5, <2>4 DEF Receive, ReceiveError, ReplyUnsent, ReadFails, Outcome
  <2>6. CASE Reply(t)
    <3>1. CASE Return(t, "error")
      BY <3>1, <2>4 DEF Outcome
    <3> QED BY <2>6, <3>1, <1>0, ThreadGoes DEF Reply
  <2>7. CASE Close(t)
    <3>1. CASE Return(t, "error")
      BY <3>1, <2>4 DEF Outcome
    <3>2. NoCall \in CallStates
      BY ChannelAssumption DEF NoCall, CallStates
    <3> QED BY <2>7, <3>1, <3>2, <1>0 DEF Close
  <2> QED BY <2>1, <2>2, <2>3, <2>5, <2>6, <2>7 DEF Manager, Proceed
<1>6. UNCHANGED transport
  BY DEF Manager, Proceed, Call, CallUnsent, BeginStop, Receive, ReceiveError,
     ReceiveAsk, Reply, ReplyUnsent, ReadFails, Timeout, Shutdown, Close
<1> QED BY <1>1, <1>2, <1>3, <1>4, <1>5, <1>6 DEF TypeOK, WorkerStates, Answers, Requests, CallStates

LEMMA TypeStep == TypeOK /\ [Next]_vars => TypeOK'
<1>1. TypeOK /\ UNCHANGED vars => TypeOK'
  BY DEF TypeOK, vars
<1> QED BY <1>1, TypeStart, TypeWorker, TypeManager DEF Next

\* Every variable of a sandbox keeps its type, for all threads, transports,
\* numbers of calls and troubles.
THEOREM TypeCorrect == Spec => []TypeOK
  BY TypeInit, TypeStep, PTL DEF Spec
-----------------------------------------------------------------------------
(* One call at a time. *)

\* A step of thread t leaves the other threads where they are.
LEMMA OtherThreads ==
  ASSUME TypeOK, NEW t \in Thread, Manager(t)
  PROVE  \A u \in Thread : u # t => th'[u] = th[u]
<1>0. th \in [Thread -> CallStates]
  BY TypeParts
<1>1. CASE Call(t) \/ CallUnsent(t) \/ BeginStop(t)
  BY <1>0, <1>1 DEF Call, CallUnsent, BeginStop
<1>2. ASSUME NEW what, Return(t, what) PROVE \A u \in Thread : u # t => th'[u] = th[u]
  BY <1>0, <1>2 DEF Return
<1>3. CASE Proceed(t)
  BY <1>0, <1>2, <1>3 DEF Proceed, Receive, ReceiveError, ReceiveAsk, Reply, ReplyUnsent, ReadFails,
     Timeout, Shutdown, Close
<1> QED BY <1>1, <1>3 DEF Manager

\* Where a thread is after a step of its own.
LEMMA OwnThread ==
  ASSUME TypeOK, NEW t \in Thread
  PROVE  /\ Call(t) => \/ th'[t] = [pc |-> "wait", call |-> calls'] /\ calls' # 0
                       \/ th' = th
         /\ CallUnsent(t) => th' = th
         /\ BeginStop(t) => th'[t].pc = "stop" /\ th'[t].call = th[t].call
         /\ ReceiveAsk(t) => th'[t].pc = "gateway" /\ th'[t].call = th[t].call
         /\ Timeout(t) => th'[t].pc = "stop" /\ th'[t].call = th[t].call
         /\ Shutdown(t) => th'[t].pc = "close" /\ th'[t].call = th[t].call
         /\ Reply(t) => \/ th'[t].pc = "wait" /\ th'[t].call = th[t].call
                        \/ th'[t].pc = "idle" /\ th'[t].call = 0
         /\ (Receive(t) \/ ReceiveError(t) \/ ReplyUnsent(t) \/ ReadFails(t) \/ Close(t))
              => th'[t].pc = "idle" /\ th'[t].call = 0
<1>0. th \in [Thread -> CallStates] /\ calls \in Nat
  BY TypeParts, ChannelAssumption
<1>1. ASSUME NEW what, Return(t, what) PROVE th'[t].pc = "idle" /\ th'[t].call = 0
  BY <1>0, <1>1 DEF Return, NoCall
<1>2. Call(t) => \/ th'[t] = [pc |-> "wait", call |-> calls'] /\ calls' # 0
                 \/ th' = th
  BY <1>0 DEF Call
<1>3. CallUnsent(t) => th' = th
  BY DEF CallUnsent
<1>4. /\ BeginStop(t) => th'[t].pc = "stop" /\ th'[t].call = th[t].call
      /\ ReceiveAsk(t) => th'[t].pc = "gateway" /\ th'[t].call = th[t].call
      /\ Timeout(t) => th'[t].pc = "stop" /\ th'[t].call = th[t].call
      /\ Shutdown(t) => th'[t].pc = "close" /\ th'[t].call = th[t].call
  BY ThreadGoes DEF BeginStop, ReceiveAsk, Timeout, Shutdown
<1>5. Reply(t) => \/ th'[t].pc = "wait" /\ th'[t].call = th[t].call
                  \/ th'[t].pc = "idle" /\ th'[t].call = 0
  BY <1>1, ThreadGoes DEF Reply
<1>6. (Receive(t) \/ ReceiveError(t) \/ ReplyUnsent(t) \/ ReadFails(t))
        => th'[t].pc = "idle" /\ th'[t].call = 0
  BY <1>1 DEF Receive, ReceiveError, ReplyUnsent, ReadFails
<1>7. Close(t) => th'[t].pc = "idle" /\ th'[t].call = 0
  BY <1>0, <1>1 DEF Close, NoCall
<1> QED BY <1>2, <1>3, <1>4, <1>5, <1>6, <1>7

\* Where the engine lets in one call, a call begins only when none is open.
LEMMA CallsAlone ==
  ASSUME MaxConcurrency = 1, NEW t \in Thread, Call(t)
  PROVE  InCall = {}
<1>1. IsFiniteSet(InCall)
  BY ChannelAssumption, FS_Subset DEF InCall
<1>2. Cardinality(InCall) \in Nat /\ Cardinality(InCall) < 1
  BY <1>1, FS_CardinalityType DEF Call
<1> QED BY <1>1, <1>2, FS_EmptySet

LEMMA OneCallStep ==
  ASSUME MaxConcurrency = 1, TypeOK, OneCall, [Next]_vars
  PROVE  OneCall'
<1>1. CASE UNCHANGED vars \/ Start \/ Worker
  <2>1. UNCHANGED th
    BY <1>1 DEF vars, Start, Launch, StartReady, StartFails,
       Worker, WorkerOnly, Load, Take, Ask, TakeReply, Finish, Die
  <2> QED BY <2>1 DEF OneCall, InCall
<1>2. ASSUME NEW t \in Thread, Manager(t) PROVE OneCall'
  <2>1. \A u \in Thread : u # t => th'[u] = th[u]
    BY <1>2, OtherThreads
  <2>2. /\ th'[t].pc = "idle" => th'[t].call = 0
        /\ th'[t].pc \in {"wait", "gateway"} => th'[t].call # 0
    BY <1>2, OwnThread DEF Manager, Proceed, OneCall, ReceiveAsk, Reply
  <2>3. \/ Call(t) /\ InCall = {}
        \/ th'[t].call = 0
        \/ th'[t].call = th[t].call
    BY <1>2, OwnThread, CallsAlone DEF Manager, Proceed
  <2>4. \A u, v \in Thread : th'[u].call # 0 /\ th'[v].call # 0 => u = v
    BY <2>1, <2>3 DEF OneCall, InCall
  <2> QED BY <2>1, <2>2, <2>4 DEF OneCall, InCall
<1> QED BY <1>1, <1>2 DEF Next
-----------------------------------------------------------------------------
(* The message of the call. *)

\* While a call waits and the worker lives, either their message is under way
\* or a shutdown request is the next the worker reads.
LEMMA WaitingAlive ==
  ASSUME TypeOK, OneCall, InOrder, Alive, NEW u \in Pending
  PROVE  /\ InCall = {u} /\ Pending = {u}
         /\ \/ mode = "up" /\ Exchange(u)
            \/ /\ mode = "closing" /\ th[u].pc = "wait" /\ worker.pc = "idle"
               /\ ans = <<>> /\ req # <<>> /\ Head(req).kind = "shutdown"
<1>1. InCall = {u} /\ Pending = {u}
  BY DEF OneCall, InCall, Pending
<1>2. mode \in {"up", "closing"}
  BY <1>1, TypeParts DEF InOrder, Starting, Ended
<1> QED BY <1>1, <1>2 DEF InOrder, Up, Closing

\* Whether the worker lives or not, a result that can still be read is that of
\* the call that waits.
LEMMA ResultsAreOurs ==
  ASSUME TypeOK, OneCall, InOrder, NEW u \in Pending
  PROVE  \A i \in 1..Len(ans) : ans[i].kind = "result" => ans[i].call = th[u].call
<1>1. CASE ~Alive
  BY <1>1 DEF InOrder, Ended
<1>2. CASE Alive
  BY <1>2, WaitingAlive DEF Exchange, Msg
<1> QED BY <1>1, <1>2

\* A step that leaves the channel and the threads alone.
LEMMA Untouched ==
  ASSUME InOrder, UNCHANGED <<mode, worker, req, ans, deaf, th>>,
         \A n \in 1..Calls : got'[n] # "other"
  PROVE  InOrder'
<1>1. UNCHANGED <<InCall, Pending, Alive>>
  BY DEF InCall, Pending, Alive
<1>2. \A t \in InCall : Exchange(t)' <=> Exchange(t)
  BY DEF Exchange
<1> QED BY <1>1, <1>2 DEF InOrder, Starting, Up, Closing, Ended, Resting

LEMMA InOrderInit == Init => OneCall /\ InOrder
<1> SUFFICES ASSUME Init PROVE OneCall /\ InOrder
  OBVIOUS
<1>1. \A t \in Thread : th[t].pc = "idle" /\ th[t].call = 0
  BY DEF Init, NoCall
<1>2. InCall = {} /\ Pending = {} /\ ~Alive /\ mode = "new"
  BY <1>1 DEF Init, InCall, Pending, Alive
<1> QED BY <1>1, <1>2 DEF Init, OneCall, InOrder, Starting, Up, Closing, Ended

LEMMA InOrderStart ==
  ASSUME TypeOK, OneCall, InOrder, Start
  PROVE  InOrder'
<1>1. InCall = {} /\ req = <<>> /\ UNCHANGED <<InCall, Pending, req, got, deaf>>
  BY DEF InOrder, Starting, Start, Launch, StartReady, StartFails, InCall, Pending
<1>2. Pending = {}
  BY <1>1 DEF OneCall, InCall, Pending
<1>3. CASE Launch
  <2>1. worker'.pc = "loading" /\ mode' = "starting" /\ ans' = <<>>
    BY <1>3, WorkerGoes DEF Launch, InOrder, Starting
  <2> QED BY <1>1, <1>2, <2>1 DEF InOrder, Starting, Up, Closing, Ended, Alive
<1>4. CASE StartReady
  <2>1. mode' = "up" /\ (Alive' => worker'.pc = "idle" /\ ans' = <<>>)
    BY <1>4 DEF StartReady, InOrder, Starting, Alive
  <2> QED BY <1>1, <1>2, <2>1 DEF InOrder, Starting, Up, Closing, Ended, Resting
<1>5. CASE StartFails
  <2>1. mode' = "down" /\ ~Alive'
    BY <1>5, WorkerGoes DEF StartFails, Alive
  <2> QED BY <1>1, <1>2, <2>1 DEF InOrder, Starting, Up, Closing, Ended
<1> QED BY <1>3, <1>4, <1>5 DEF Start

\* A step of the worker in the exchange of a call: the message goes on, or the
\* worker ends and leaves no result but that of the call.
LEMMA ExchangeGoesOn ==
  ASSUME TypeOK, NEW u \in Thread, Exchange(u), Worker
  PROVE  \/ Exchange(u)'
         \/ /\ ~Alive'
            /\ \A i \in 1..Len(ans') : ans'[i].kind = "result" => ans'[i].call = th[u].call
<1> DEFINE c == th[u].call
<1>0. UNCHANGED th /\ \A m : Append(<<>>, m) = <<m>> /\ Tail(<<m>>) = <<>>
  BY DEF Worker, WorkerOnly, Load, Take, Ask, TakeReply, Finish, Die
<1>1. CASE Load
  BY <1>1 DEF Load, Exchange
<1>2. CASE Take
  <2>1. th[u].pc # "gateway" /\ req = <<Msg("request", c)>> /\ ans = <<>>
    BY <1>2 DEF Take, Exchange
  <2>2. worker' = [pc |-> "run", call |-> c] /\ req' = <<>> /\ ans' = <<>>
    BY <1>2, <2>1 DEF Take, Msg
  <2> QED BY <1>0, <2>1, <2>2 DEF Exchange
<1>3. CASE Ask
  <2>1. th[u].pc # "gateway" /\ worker = [pc |-> "run", call |-> c] /\ req = <<>> /\ ans = <<>>
    BY <1>3 DEF Ask, Exchange
  <2>2. /\ worker' = [pc |-> "await", call |-> c] /\ req' = <<>>
        /\ \E kind \in {"ask", "big", "bad"} : ans' = <<Msg(kind, c)>>
    BY <1>0, <1>3, <2>1 DEF Ask, Spoilt, Send
  <2> QED BY <1>0, <2>1, <2>2 DEF Exchange
<1>4. CASE TakeReply
  <2>1. /\ th[u].pc # "gateway" /\ worker = [pc |-> "await", call |-> c]
        /\ req = <<Msg("reply", c)>> /\ ans = <<>>
    BY <1>4 DEF TakeReply, Exchange
  <2>2. worker' = [pc |-> "run", call |-> c] /\ req' = <<>> /\ ans' = <<>>
    BY <1>4, <2>1 DEF TakeReply
  <2> QED BY <1>0, <2>1, <2>2 DEF Exchange
<1>5. CASE Finish
  <2>1. th[u].pc # "gateway" /\ worker = [pc |-> "run", call |-> c] /\ req = <<>> /\ ans = <<>>
    BY <1>5 DEF Finish, Exchange
  <2>2. /\ worker' = [pc |-> "idle", call |-> c] /\ req' = <<>>
        /\ \E kind \in {"result", "big", "bad"} : ans' = <<Msg(kind, c)>>
    BY <1>0, <1>5, <2>1 DEF Finish, Spoilt, Send
  <2> QED BY <1>0, <2>1, <2>2 DEF Exchange
<1>6. CASE Die
  <2>1. ~Alive'
    BY <1>6, WorkerGoes DEF Die, Alive
  <2>2. CASE UNCHANGED ans
    BY <2>1, <2>2 DEF Exchange, Msg
  <2>3. CASE worker.pc = "run" /\ ans' = Append(ans, Msg("failed", worker.call))
    <3>0. ans = <<>>
      BY <2>3 DEF Exchange
    <3>1. ans' = <<Msg("failed", worker.call)>>
      BY <1>0, <2>3, <3>0
    <3> QED BY <2>1, <3>1 DEF Msg
  <2> QED BY <1>6, <2>2, <2>3 DEF Die
<1> QED BY <1>1, <1>2, <1>3, <1>4, <1>5, <1>6 DEF Worker

LEMMA InOrderWorker ==
  ASSUME TypeOK, OneCall, InOrder, Worker
  PROVE  InOrder'
<1>0. UNCHANGED <<InCall, Pending, mode, th, got, deaf>>
  BY DEF Worker, WorkerOnly, Load, Take, Ask, TakeReply, Finish, Die, InCall, Pending
<1>1. Alive
  BY DEF Worker, Load, Take, Ask, TakeReply, Finish, Die, Alive
<1>2. mode \in {"starting", "up", "closing"}
  BY <1>1, TypeParts DEF InOrder, Starting, Ended, Alive
<1>3. ~deaf' /\ \A n \in 1..Calls : got'[n] # "other"
  BY <1>0 DEF InOrder
<1>4. CASE mode = "starting"
  <2>1. InCall' = {} /\ Pending' = {} /\ req = <<>>
    BY <1>0, <1>4 DEF InOrder, Starting, OneCall, InCall, Pending
  <2>2. CASE Load
    <3>1. ans = <<>> /\ req' = <<>>
      BY <1>4, <2>1, <2>2 DEF Load, InOrder, Starting, Alive
    <3>2. \/ worker'.pc = "idle" /\ ans' = <<Msg("ready", 0)>>
          \/ worker'.pc = "gone"
      BY <2>2, <3>1, WorkerGoes DEF Load, Send
    <3> QED BY <1>0, <1>3, <1>4, <2>1, <3>1, <3>2 DEF InOrder, Starting, Up, Closing, Ended, Alive
  <2>3. CASE Die
    <3>1. worker'.pc = "gone" /\ req' = <<>>
      BY <2>1, <2>3, WorkerGoes DEF Die
    <3> QED BY <1>0, <1>3, <1>4, <2>1, <3>1 DEF InOrder, Starting, Up, Closing, Ended, Alive
  <2>4. ~Take /\ ~Ask /\ ~TakeReply /\ ~Finish
    BY <1>1, <1>4, <2>1 DEF InOrder, Starting, Take, Ask, TakeReply, Finish
  <2> QED BY <2>2, <2>3, <2>4 DEF Worker
<1>5. CASE mode = "up"
  <2>1. CASE InCall = {}
    <3>1. Pending' = {} /\ worker.pc = "idle" /\ req = <<>>
      BY <1>0, <1>1, <1>5, <2>1 DEF InOrder, Up, Resting, OneCall, InCall, Pending
    <3>2. Die
      BY <3>1 DEF Worker, Load, Take, Ask, TakeReply, Finish
    <3>3. ~Alive'
      BY <3>2, WorkerGoes DEF Die, Alive
    <3> QED BY <1>0, <1>3, <1>5, <3>1, <3>3 DEF InOrder, Starting, Up, Closing, Ended
  <2>2. ASSUME NEW u \in InCall PROVE InOrder'
    <3>1. u \in Thread /\ Exchange(u) /\ InCall' = {u} /\ Pending' \subseteq {u}
      BY <1>0, <1>1, <1>5, <2>2 DEF InOrder, Up, OneCall, InCall, Pending
    <3>2. CASE Exchange(u)'
      <4>1. Alive'
        BY <3>2 DEF Exchange, Alive
      <4> QED BY <1>0, <1>3, <1>5, <3>1, <3>2, <4>1 DEF InOrder, Starting, Up, Closing, Ended
    <3>3. CASE /\ ~Alive'
               /\ \A i \in 1..Len(ans') : ans'[i].kind = "result" => ans'[i].call = th[u].call
      BY <1>0, <1>3, <1>5, <3>1, <3>3 DEF InOrder, Starting, Up, Closing, Ended
    <3> QED BY <3>1, <3>2, <3>3, ExchangeGoesOn
  <2> QED BY <2>1, <2>2
<1>6. CASE mode = "closing"
  <2>1. CASE InCall \subseteq Pending
    <3>1. /\ worker.pc = "idle" /\ ans = <<>>
          /\ req # <<>> /\ Head(req).kind = "shutdown"
      BY <1>1, <1>6, <2>1 DEF InOrder, Closing
    <3>2. Take \/ Die
      BY <3>1 DEF Worker, Load, Ask, TakeReply, Finish
    <3>3. ~Alive' /\ (ans' = <<>> \/ ans' = <<Msg("stopped", 0)>>)
      BY <3>1, <3>2, WorkerGoes DEF Take, Die, Send, Alive
    <3> QED BY <1>0, <1>3, <1>6, <3>3 DEF InOrder, Starting, Up, Closing, Ended, Msg
  <2>2. CASE ~(InCall \subseteq Pending)
    <3>1. Pending = {}
      BY <2>2 DEF OneCall, InCall, Pending
    <3> QED BY <1>0, <1>3, <1>6, <2>2, <3>1 DEF InOrder, Starting, Up, Closing, Ended
  <2> QED BY <2>1, <2>2
<1> QED BY <1>2, <1>4, <1>5, <1>6

\* What thread t does to a channel nothing has gone wrong in.
LEMMA InOrderManager ==
  ASSUME MaxConcurrency = 1, TypeOK, OneCall, OneCall', InOrder, NEW t \in Thread, Manager(t), ~tainted'
  PROVE  InOrder'
<1>0. \A u \in Thread : u # t => th'[u] = th[u]
  BY OtherThreads
<1>a. \A n \in 1..Calls : got[n] # "other"
  BY DEF InOrder
<1>b. th \in [Thread -> CallStates] /\ got \in [1..Calls -> Outcome] /\ calls \in Nat
  BY TypeParts, ChannelAssumption
<1>c. ASSUME th[t].pc \in {"wait", "gateway"}
      PROVE  t \in Pending /\ InCall = {t} /\ Pending = {t} /\ mode \notin {"new", "starting"}
  BY <1>c DEF OneCall, InCall, Pending, InOrder, Starting
<1>d. ASSUME th'[t].pc = "idle", th[t].call # 0
      PROVE  InCall' = {} /\ Pending' = {}
  BY <1>0, <1>d DEF OneCall, InCall, Pending
<1>1. CASE Call(t)
  <2>1. CASE mode # "down" /\ Alive
    <3>1. InCall = {} /\ th'[t] = [pc |-> "wait", call |-> calls'] /\ calls' # 0
      BY <1>1, <1>b, <2>1, CallsAlone DEF Call
    <3>2. InCall' = {t} /\ Pending' = {t}
      BY <1>0, <3>1 DEF InCall, Pending, OneCall
    <3>3. mode \in {"up", "closing"} /\ UNCHANGED <<mode, worker, ans, deaf, got>> /\ Alive'
      BY <1>1, <2>1 DEF Call, Alive
    <3>4. req' = Append(req, Msg("request", calls'))
      BY <1>1, <2>1 DEF Call
    <3>5. CASE mode = "up"
      <4>1. worker.pc = "idle" /\ req' = <<Msg("request", calls')>> /\ ans = <<>>
        BY <2>1, <3>1, <3>4, <3>5 DEF InOrder, Up, Resting
      <4>2. Exchange(t)'
        BY <3>1, <3>3, <4>1 DEF Exchange
      <4> QED BY <1>a, <3>2, <3>3, <3>5, <4>2 DEF InOrder, Starting, Up, Closing, Ended
    <3>6. CASE mode = "closing"
      <4>1. worker.pc = "idle" /\ ans = <<>> /\ req # <<>> /\ Head(req).kind = "shutdown"
        BY <2>1, <3>1, <3>6 DEF InOrder, Closing
      <4>2. req' # <<>> /\ Head(req') = Head(req)
        BY <3>4, <4>1, TypeParts, HeadTailAppend, AppendProperties
      <4> QED BY <1>a, <3>1, <3>2, <3>3, <3>6, <4>1, <4>2 DEF InOrder, Starting, Up, Closing, Ended
    <3> QED BY <3>3, <3>5, <3>6
  <2>2. CASE ~(mode # "down" /\ Alive)
    <3>1. \A n \in 1..Calls : got'[n] # "other"
      BY <1>1, <1>a, <1>b, <2>2 DEF Call
    <3> QED BY <1>1, <2>2, <3>1, Untouched DEF Call
  <2> QED BY <2>1, <2>2
<1>2. CASE CallUnsent(t)
  <2>1. \A n \in 1..Calls : got'[n] # "other"
    BY <1>2, <1>a, <1>b DEF CallUnsent
  <2> QED BY <1>2, <2>1, Untouched DEF CallUnsent
<1>3. CASE BeginStop(t)
  <2>1. th'[t].pc = "stop" /\ th'[t].call = 0 /\ th[t].call = 0 /\ th[t].pc = "idle"
    BY <1>3, OwnThread DEF BeginStop, OneCall
  <2>2. UNCHANGED <<InCall, Pending, mode, worker, req, ans, deaf, got, Alive>> /\ t \notin InCall
    BY <1>0, <1>3, <2>1 DEF BeginStop, InCall, Pending, Alive
  <2>3. \A u \in InCall : th'[u] = th[u] /\ u \in Thread
    BY <1>0, <2>2 DEF InCall
  <2>4. \A u \in InCall : Exchange(u) => Exchange(u)'
    BY <2>2, <2>3 DEF Exchange
  <2>5. \A u \in Pending : th'[u] = th[u]
    BY <1>0, <2>1 DEF Pending
  <2> QED BY <2>2, <2>3, <2>4, <2>5 DEF InOrder, Starting, Up, Closing, Ended, Resting
<1>4. CASE Receive(t)
  <2>1. /\ t \in Pending /\ InCall = {t} /\ InCall' = {} /\ Pending' = {}
        /\ mode \notin {"new", "starting"}
    BY <1>4, <1>c, <1>d, OwnThread DEF Receive, OneCall
  <2>2. Head(ans) = ans[1] /\ 1 \in 1..Len(ans)
    BY <1>4, TypeParts DEF Receive, Readable
  <2>3. Head(ans).kind = "result" => Head(ans).call = th[t].call
    BY <2>1, <2>2, ResultsAreOurs
  <2>4. \A n \in 1..Calls : got'[n] # "other"
    <3>1. CASE Return(t, "lifecycle")
      BY <1>a, <1>b, <3>1 DEF Return
    <3>2. CASE Return(t, "own")
      BY <1>a, <1>b, <3>2 DEF Return
    <3> QED BY <1>4, <2>3, <3>1, <3>2 DEF Receive
  <2>5. Alive' => mode = "up" /\ Resting'
    <3> SUFFICES ASSUME Alive' PROVE mode = "up" /\ Resting'
      OBVIOUS
    <3>1. Alive /\ ans # <<>>
      BY <1>4 DEF Receive, Readable, Alive
    <3>2. mode = "up" /\ Exchange(t)
      BY <2>1, <3>1, WaitingAlive
    <3>3. worker.pc = "idle" /\ req = <<>> /\ \E m : ans = <<m>>
      BY <1>4, <3>1, <3>2 DEF Receive, Exchange, Msg, Lifecycle
    <3> QED BY <1>4, <3>2, <3>3 DEF Receive, Resting
  <2>6. UNCHANGED <<mode, worker, req, deaf>>
    BY <1>4 DEF Receive
  <2> QED BY <2>1, <2>4, <2>5, <2>6 DEF InOrder, Starting, Up, Closing, Ended, Alive
<1>5. CASE ReceiveError(t) \/ ReplyUnsent(t)
  BY <1>5 DEF ReceiveError, ReplyUnsent
<1>6. CASE ReceiveAsk(t)
  <2>1. /\ t \in Pending /\ InCall = {t} /\ Pending = {t} /\ mode \notin {"new", "starting"}
    BY <1>6, <1>c DEF ReceiveAsk
  <2>2. th'[t].pc = "gateway" /\ th'[t].call = th[t].call
    BY <1>6, OwnThread
  <2>3. InCall' = {t} /\ Pending' = {t}
    BY <1>0, <2>1, <2>2 DEF InCall, Pending
  <2>4. UNCHANGED <<mode, worker, req, deaf, got>>
    BY <1>6 DEF ReceiveAsk
  <2>5. Alive' => mode = "up" /\ Exchange(t)'
    <3> SUFFICES ASSUME Alive' PROVE mode = "up" /\ Exchange(t)'
      OBVIOUS
    <3>1. Alive /\ ans # <<>>
      BY <1>6 DEF ReceiveAsk, Readable, Alive
    <3>2. mode = "up" /\ Exchange(t)
      BY <2>1, <3>1, WaitingAlive
    <3>3. /\ worker = [pc |-> "await", call |-> th[t].call] /\ req = <<>>
          /\ \E m : ans = <<m>>
      BY <1>6, <3>1, <3>2 DEF ReceiveAsk, Exchange, Msg
    <3>4. ans' = <<>>
      BY <1>6, <3>3 DEF ReceiveAsk
    <3> QED BY <2>2, <2>4, <3>2, <3>3, <3>4 DEF Exchange
  <2>6. \A i \in 1..Len(ans') : ans'[i].kind = "result" => ans'[i].call = th[t].call
    <3>1. ans \in Seq(Answers) /\ ans # <<>> /\ ans' = Tail(ans)
      BY <1>6, TypeParts DEF ReceiveAsk, Readable
    <3>2. /\ Len(ans') = Len(ans) - 1 /\ \A i \in 1..Len(ans') : ans'[i] = ans[i + 1]
          /\ Len(ans) \in Nat
      BY <3>1, HeadTailProperties
    <3>3. \A i \in 1..Len(ans) : ans[i].kind = "result" => ans[i].call = th[t].call
      BY <2>1, ResultsAreOurs
    <3>4. \A i \in 1..Len(ans') : i + 1 \in 1..Len(ans)
      BY <3>2
    <3> QED BY <3>2, <3>3, <3>4
  <2> QED BY <1>a, <2>1, <2>2, <2>3, <2>4, <2>5, <2>6 DEF InOrder, Starting, Up, Closing, Ended, Alive
<1>7. CASE Reply(t)
  <2>1. /\ t \in Pending /\ InCall = {t} /\ Pending = {t} /\ mode \notin {"new", "starting"}
        /\ UNCHANGED <<mode, worker, ans, deaf>>
    BY <1>7, <1>c DEF Reply
  <2>2. CASE mode # "down" /\ Alive
    <3>1. mode = "up" /\ Exchange(t) /\ th[t].pc = "gateway"
      BY <1>7, <2>1, <2>2, WaitingAlive DEF Reply
    <3>2. /\ worker = [pc |-> "await", call |-> th[t].call] /\ req = <<>> /\ ans = <<>>
      BY <3>1 DEF Exchange
    <3>3. th'[t].pc = "wait" /\ th'[t].call = th[t].call /\ got' = got
      BY <1>7, <2>2, ThreadGoes DEF Reply
    <3>4. req' = <<Msg("reply", th[t].call)>>
      BY <1>7, <2>2, <3>2 DEF Reply
    <3>5. Exchange(t)' /\ Alive'
      BY <2>1, <3>2, <3>3, <3>4 DEF Exchange, Alive
    <3>6. InCall' = {t}
      BY <1>0, <2>1, <3>3 DEF InCall, Pending
    <3> QED BY <1>a, <2>1, <3>1, <3>3, <3>5, <3>6 DEF InOrder, Starting, Up, Closing, Ended
  <2>3. CASE ~(mode # "down" /\ Alive)
    <3>1. Return(t, "error") /\ UNCHANGED req
      BY <1>7, <2>3 DEF Reply
    <3>2. InCall' = {} /\ Pending' = {}
      BY <1>7, <1>d, <3>1, ThreadReturns DEF Reply, OneCall, Outcome
    <3>3. \A n \in 1..Calls : got'[n] # "other"
      BY <1>a, <1>b, <3>1 DEF Return
    <3>4. ~Alive'
      BY <2>1, <2>3 DEF InOrder, Ended, Alive
    <3> QED BY <2>1, <3>2, <3>3, <3>4 DEF InOrder, Starting, Up, Closing, Ended
  <2> QED BY <2>2, <2>3
<1>8. CASE ReadFails(t)
  <2>1. /\ InCall' = {} /\ Pending' = {} /\ mode \notin {"new", "starting"}
        /\ UNCHANGED <<mode, worker, deaf>>
    BY <1>8, <1>c, <1>d, OwnThread DEF ReadFails, OneCall
  <2>2. ~Alive'
    BY <1>8 DEF ReadFails, InOrder, Ended, Alive
  <2>3. \A n \in 1..Calls : got'[n] # "other"
    BY <1>8, <1>a, <1>b DEF ReadFails, Return
  <2> QED BY <2>1, <2>2, <2>3 DEF InOrder, Starting, Up, Closing, Ended
<1>9. CASE Timeout(t)
  <2>1. /\ t \in Pending /\ InCall = {t} /\ Pending = {t} /\ mode \notin {"new", "starting"}
        /\ UNCHANGED <<mode, worker, req, ans, deaf, got>>
    BY <1>9, <1>c DEF Timeout
  <2>2. th'[t].pc = "stop" /\ th'[t].call = th[t].call /\ th[t].pc = "wait"
    BY <1>9, OwnThread DEF Timeout
  <2>3. InCall' = {t} /\ Pending' = {}
    BY <1>0, <2>1, <2>2 DEF InCall, Pending
  <2>4. mode = "up" /\ Alive' => Exchange(t)'
    <3> SUFFICES ASSUME mode = "up", Alive' PROVE Exchange(t)'
      OBVIOUS
    <3>1. Exchange(t)
      BY <2>1, WaitingAlive DEF Alive
    <3> QED BY <2>1, <2>2, <3>1 DEF Exchange
  <2> QED BY <1>a, <2>1, <2>3, <2>4 DEF InOrder, Starting, Up, Closing, Ended, Alive
<1>10. CASE Shutdown(t)
  <2>1. th'[t].pc = "close" /\ th'[t].call = th[t].call /\ th[t].pc = "stop"
    BY <1>10, OwnThread DEF Shutdown
  <2>2. UNCHANGED <<InCall, Pending, worker, ans, deaf, got, Alive>>
    BY <1>0, <1>10, <2>1 DEF Shutdown, InCall, Pending, Alive
  <2>3. CASE mode \in {"up", "closing"}
    <3>1. Pending = {} /\ mode' = "closing"
      BY <1>10, <2>3 DEF Shutdown
    <3>2. ASSUME Alive, InCall = {}
          PROVE  worker.pc = "idle" /\ ans = <<>> /\ req' # <<>> /\ Head(req').kind = "shutdown"
      <4>1. req' = Append(req, Msg("shutdown", 0))
        BY <1>10, <2>3, <3>2 DEF Shutdown
      <4>2. CASE mode = "up"
        <5>1. worker.pc = "idle" /\ req = <<>> /\ ans = <<>>
          BY <3>2, <4>2 DEF InOrder, Up, Resting
        <5>2. req' = <<Msg("shutdown", 0)>>
          BY <4>1, <5>1
        <5> QED BY <5>1, <5>2 DEF Msg
      <4>3. CASE mode = "closing"
        <5>1. worker.pc = "idle" /\ ans = <<>> /\ req # <<>> /\ Head(req).kind = "shutdown"
          BY <3>2, <4>3 DEF InOrder, Closing
        <5>2. req' # <<>> /\ Head(req') = Head(req)
          BY <4>1, <5>1, TypeParts, HeadTailAppend, AppendProperties
        <5> QED BY <5>1, <5>2
      <4> QED BY <2>3, <4>2, <4>3
    <3>3. \A u \in Pending : FALSE
      BY <3>1
    <3> QED BY <1>a, <2>2, <3>1, <3>2, <3>3 DEF InOrder, Starting, Up, Closing, Ended
  <2>4. CASE mode \notin {"up", "closing"}
    <3>1. UNCHANGED <<mode, req>>
      BY <1>10, <2>4 DEF Shutdown
    <3>2. \A u \in Pending : th'[u] = th[u]
      BY <1>0, <2>1 DEF Pending
    <3> QED BY <2>2, <2>4, <3>1, <3>2 DEF InOrder, Starting, Up, Closing, Ended
  <2> QED BY <2>3, <2>4
<1>11. CASE Close(t)
  <2>1. mode' = "down" /\ UNCHANGED deaf /\ ans' \in {ans, <<>>}
    BY <1>11 DEF Close
  <2>2. ~Alive'
    BY <1>11, WorkerGoes DEF Close, Alive
  <2>3. \A n \in 1..Calls : got'[n] # "other"
    BY <1>11, <1>a, <1>b DEF Close, Return
  <2>4. \A u \in Pending' : u \in Pending /\ th'[u] = th[u]
    <3>1. th'[t].pc = "idle"
      BY <1>11, OwnThread
    <3> QED BY <1>0, <3>1 DEF Pending
  <2>5. \A u \in Pending' : \A i \in 1..Len(ans') :
           ans'[i].kind = "result" => ans'[i].call = th'[u].call
    BY <2>1, <2>4, ResultsAreOurs
  <2> QED BY <2>1, <2>2, <2>3, <2>5 DEF InOrder, Starting, Up, Closing, Ended
<1> QED BY <1>1, <1>2, <1>3, <1>4, <1>5, <1>6, <1>7, <1>8, <1>9, <1>10, <1>11 DEF Manager, Proceed

\* A sandbox in which an exchange broke off stays such a sandbox.
LEMMA TaintStays == TypeOK /\ [Next]_vars /\ ~tainted' => ~tainted
<1> SUFFICES ASSUME TypeOK, [Next]_vars, tainted PROVE tainted'
  BY TypeParts
<1>1. CASE UNCHANGED vars \/ Start \/ Worker
  BY <1>1 DEF vars, Start, Launch, StartReady, StartFails,
     Worker, WorkerOnly, Load, Take, Ask, TakeReply, Finish, Die
<1>2. ASSUME NEW t \in Thread, Manager(t) PROVE tainted'
  BY <1>2 DEF Manager, Proceed, Call, CallUnsent, BeginStop, Receive, ReceiveError,
     ReceiveAsk, Reply, ReplyUnsent, ReadFails, Timeout, Shutdown, Close
<1> QED BY <1>1, <1>2 DEF Next

LEMMA InvStep == MaxConcurrency = 1 /\ Inv /\ [Next]_vars => Inv'
<1> SUFFICES ASSUME MaxConcurrency = 1, Inv, [Next]_vars PROVE Inv'
  OBVIOUS
<1>1. TypeOK' /\ OneCall'
  BY TypeStep, OneCallStep DEF Inv
<1>2. ASSUME ~tainted' PROVE InOrder'
  <2>1. TypeOK /\ OneCall /\ InOrder
    BY <1>2, TaintStays DEF Inv
  <2>2. CASE UNCHANGED vars
    BY <2>1, <2>2, Untouched DEF vars, InOrder
  <2>3. CASE Start
    BY <2>1, <2>3, InOrderStart
  <2>4. CASE Worker
    BY <2>1, <2>4, InOrderWorker
  <2>5. ASSUME NEW t \in Thread, Manager(t) PROVE InOrder'
    BY <1>1, <1>2, <2>1, <2>5, InOrderManager
  <2> QED BY <2>2, <2>3, <2>4, <2>5 DEF Next
<1> QED BY <1>1, <1>2 DEF Inv

LEMMA Invariance == ASSUME MaxConcurrency = 1 PROVE Spec => []Inv
<1>1. Init => Inv
  BY TypeInit, InOrderInit DEF Inv
<1>2. Inv /\ [Next]_vars => Inv'
  BY InvStep
<1> QED BY <1>1, <1>2, PTL DEF Spec

\* Where the engine lets in one call at a time, no call returns the result of
\* another, for all threads, transports and troubles: not after a time-out, a
\* worker that ended, or a stop between two calls.
THEOREM AnswersAreOwn == ASSUME MaxConcurrency = 1 PROVE Spec => []AnswersMatch
<1>1. Inv => AnswersMatch
  BY DEF Inv, InOrder, AnswersMatch
<1> QED BY <1>1, Invariance, PTL

\* Between two calls the channel of a sandbox nothing went wrong in is empty,
\* and its worker waits for a request.
THEOREM NothingLeftOver == ASSUME MaxConcurrency = 1 PROVE Spec => []QuietBetweenCalls
<1>1. Inv => QuietBetweenCalls
  BY DEF Inv, OneCall, InCall, InOrder, Up, Resting, QuietBetweenCalls
<1> QED BY <1>1, Invariance, PTL

-----------------------------------------------------------------------------
(* What the worker reads once its caller has given up. *)

\* A queue of shutdown requests, read and written.
LEMMA StopQueue ==
  ASSUME NEW q \in Seq(Requests), NEW m \in Requests
  PROVE  /\ Stops(<<>>)
         /\ Stops(q) /\ q # <<>> => Head(q).kind = "shutdown" /\ Stops(Tail(q))
         /\ Stops(q) /\ m.kind = "shutdown" => Stops(Append(q, m))
         /\ q # <<>> => /\ Append(q, m) # <<>> /\ Head(Append(q, m)) = Head(q)
                        /\ Tail(Append(q, m)) = Append(Tail(q), m)
<1>1. Stops(<<>>)
  BY DEF Stops
<1>2. ASSUME Stops(q), q # <<>> PROVE Head(q).kind = "shutdown" /\ Stops(Tail(q))
  <2>1. /\ Len(q) \in Nat \ {0} /\ Head(q) = q[1] /\ Len(Tail(q)) = Len(q) - 1
        /\ \A i \in 1..Len(Tail(q)) : Tail(q)[i] = q[i + 1]
    BY <1>2, HeadTailProperties, EmptySeq, LenProperties
  <2>2. 1 \in 1..Len(q) /\ \A i \in 1..Len(Tail(q)) : i + 1 \in 1..Len(q)
    BY <2>1
  <2> QED BY <1>2, <2>1, <2>2 DEF Stops
<1>3. ASSUME Stops(q), m.kind = "shutdown" PROVE Stops(Append(q, m))
  <2>1. /\ Len(q) \in Nat /\ Len(Append(q, m)) = Len(q) + 1
        /\ \A i \in 1..Len(q) : Append(q, m)[i] = q[i]
        /\ Append(q, m)[Len(q) + 1] = m
    BY AppendProperties, LenProperties
  <2>2. \A i \in 1..(Len(q) + 1) : i \in 1..Len(q) \/ i = Len(q) + 1
    BY <2>1
  <2> QED BY <1>3, <2>1, <2>2 DEF Stops
<1>4. q # <<>> => /\ Append(q, m) # <<>> /\ Head(Append(q, m)) = Head(q)
                  /\ Tail(Append(q, m)) = Append(Tail(q), m)
  BY HeadTailAppend, AppendProperties
<1> QED BY <1>1, <1>2, <1>3, <1>4

\* One more shutdown request changes nothing of it.
LEMMA StopAfterStop ==
  ASSUME TypeOK, NEW t \in Thread, LeftOver(t), UNCHANGED worker, th'[t].call = th[t].call,
         req' = Append(req, Msg("shutdown", 0))
  PROVE  LeftOver(t)'
<1>0. Msg("shutdown", 0) \in Requests
  BY MsgType, ChannelAssumption
<1>1. Msg("shutdown", 0) \in Requests /\ Msg("shutdown", 0).kind = "shutdown"
  BY <1>0 DEF Msg
<1>2. req \in Seq(Requests) /\ (req # <<>> => Tail(req) \in Seq(Requests))
  BY QueueType
<1>3. Stops(req) => Stops(req')
  BY <1>1, <1>2, StopQueue
<1>4. req # <<>> => req' # <<>> /\ Head(req') = Head(req) /\ Tail(req') = Append(Tail(req), Msg("shutdown", 0))
  BY <1>1, <1>2, StopQueue
<1>5. req # <<>> /\ Stops(Tail(req)) => Stops(Tail(req'))
  BY <1>1, <1>2, <1>4, StopQueue
<1> QED BY <1>3, <1>4, <1>5 DEF LeftOver, First

\* A step of the worker reads from it, or ends the worker.
LEMMA GivenUpWorker ==
  ASSUME TypeOK, NEW t \in Thread, LeftOver(t), Worker, Alive'
  PROVE  LeftOver(t)'
<1>0. UNCHANGED th
  BY DEF Worker, WorkerOnly, Load, Take, Ask, TakeReply, Finish, Die
<1>1. CASE Load \/ Die
  BY <1>1, WorkerGoes DEF Load, Die, LeftOver, Alive
<1>2. CASE Take
  <2>1. worker.pc = "idle" /\ req # <<>> /\ req' = Tail(req)
    BY <1>2 DEF Take
  <2>2. CASE Head(req).kind = "shutdown"
    BY <1>2, <2>2, WorkerGoes DEF Take, Send, Alive
  <2>3. CASE First(Msg("request", th[t].call))
    <3>1. worker' = [pc |-> "run", call |-> th[t].call] /\ Stops(req')
      BY <1>2, <2>1, <2>3 DEF Take, First, Msg
    <3> QED BY <1>0, <3>1 DEF LeftOver
  <2>4. CASE Stops(req)
    BY <2>1, <2>2, <2>4, QueueType, StopQueue
  <2> QED BY <2>1, <2>2, <2>3, <2>4 DEF LeftOver
<1>3. CASE Ask
  <2>1. worker = [pc |-> "run", call |-> th[t].call] /\ Stops(req)
    BY <1>3 DEF Ask, LeftOver
  <2>2. worker' = [pc |-> "await", call |-> th[t].call] /\ UNCHANGED req
    BY <1>3, <2>1 DEF Ask, Send
  <2> QED BY <1>0, <2>1, <2>2 DEF LeftOver
<1>4. CASE TakeReply
  <2>1. /\ worker = [pc |-> "await", call |-> th[t].call] /\ req # <<>> /\ req' = Tail(req)
        /\ Stops(req) \/ First(Msg("reply", th[t].call))
    BY <1>4 DEF TakeReply, LeftOver
  <2>2. Stops(req')
    BY <2>1, QueueType, StopQueue DEF First
  <2>3. worker' = [pc |-> "run", call |-> th[t].call]
    BY <1>4, <2>1 DEF TakeReply
  <2> QED BY <1>0, <2>2, <2>3 DEF LeftOver
<1>5. CASE Finish
  <2>1. worker = [pc |-> "run", call |-> th[t].call] /\ Stops(req)
    BY <1>5 DEF Finish, LeftOver
  <2>2. worker'.pc = "idle" /\ UNCHANGED req
    BY <1>5, <2>1 DEF Finish, Send
  <2> QED BY <1>0, <2>1, <2>2 DEF LeftOver
<1> QED BY <1>1, <1>2, <1>3, <1>4, <1>5 DEF Worker

\* A step of a manager's thread: the caller that gives up leaves it so, and
\* nobody begins a call while the old one has not returned.
LEMMA GivenUpManager ==
  ASSUME MaxConcurrency = 1, TypeOK, OneCall, OneCall', InOrder, GivenUp, NEW u \in Thread, Manager(u),
         mode' = "closing", Alive', ~tainted', ~tainted, NEW t \in (InCall \ Pending)'
  PROVE  LeftOver(t)'
<1>0. /\ t \in Thread /\ th'[t].call # 0 /\ th'[t].pc \notin {"wait", "gateway"}
      /\ \A w \in Thread : w # u => th'[w] = th[w]
  BY OtherThreads DEF InCall, Pending
<1>1. CASE Call(u)
  <2>1. InCall = {}
    BY <1>1, CallsAlone DEF Call
  <2>2. t = u /\ th'[u] # th[u]
    BY <1>0, <2>1 DEF InCall
  <2> QED BY <1>0, <1>1, <2>2, OwnThread
<1>2. CASE CallUnsent(u)
  BY <1>2 DEF CallUnsent
<1>3. CASE BeginStop(u)
  <2>1. t # u
    BY <1>0, <1>3, OwnThread DEF BeginStop, OneCall
  <2>2. t \in InCall \ Pending /\ th'[t] = th[t]
    BY <1>0, <2>1 DEF InCall, Pending
  <2>3. UNCHANGED <<mode, worker, req>> /\ Alive
    BY <1>3 DEF BeginStop, Alive
  <2>4. LeftOver(t)
    BY <2>2, <2>3 DEF GivenUp
  <2> QED BY <2>2, <2>3, <2>4 DEF LeftOver, First
<1>4. CASE Receive(u) \/ ReceiveError(u) \/ ReceiveAsk(u) \/ Reply(u) \/ ReplyUnsent(u) \/ ReadFails(u)
  <2>1. u \in InCall
    BY <1>4 DEF OneCall, InCall, Receive, ReceiveError, ReceiveAsk, Reply, ReplyUnsent, ReadFails
  <2>2. t = u
    BY <1>0, <2>1 DEF OneCall, InCall
  <2> QED BY <1>0, <1>4, <2>2, OwnThread
<1>5. CASE Timeout(u)
  <2>1. u \in Pending /\ u \in InCall /\ UNCHANGED <<mode, worker, req>> /\ Alive
    BY <1>5 DEF OneCall, InCall, Pending, Timeout, Alive
  <2>2. worker.pc = "idle" /\ req # <<>> /\ Head(req).kind = "shutdown"
    BY <2>1, WaitingAlive
  <2> QED BY <2>1, <2>2 DEF LeftOver
<1>6. CASE Shutdown(u)
  <2>1. mode \in {"up", "closing"} /\ UNCHANGED worker /\ Alive
    BY <1>6 DEF Shutdown, Alive
  <2>2. req' = Append(req, Msg("shutdown", 0))
    BY <1>6, <2>1 DEF Shutdown
  <2>3. th'[t].call = th[t].call /\ t \in InCall \ Pending
    BY <1>0, <1>6, OwnThread DEF Shutdown, InCall, Pending
  <2>4. LeftOver(t)
    <3>1. CASE mode = "closing"
      BY <2>1, <2>3, <3>1 DEF GivenUp
    <3>2. CASE mode = "up"
      <4>1. Exchange(t)
        BY <2>1, <2>3, <3>2 DEF InOrder, Up
      <4>2. Stops(<<>>) /\ \A m : <<m>> # <<>> /\ Head(<<m>>) = m /\ Tail(<<m>>) = <<>>
        BY DEF Stops
      <4> QED BY <4>1, <4>2 DEF Exchange, LeftOver, First
    <3> QED BY <2>1, <3>1, <3>2
  <2> QED BY <1>0, <2>1, <2>2, <2>3, <2>4, StopAfterStop
<1>7. CASE Close(u)
  BY <1>7 DEF Close
<1> QED BY <1>1, <1>2, <1>3, <1>4, <1>5, <1>6, <1>7 DEF Manager, Proceed

LEMMA GivenUpStep == MaxConcurrency = 1 /\ Inv /\ Inv' /\ GivenUp /\ [Next]_vars => GivenUp'
<1> SUFFICES ASSUME MaxConcurrency = 1, Inv, Inv', GivenUp, [Next]_vars,
                    mode' = "closing", Alive', ~tainted', NEW t \in (InCall \ Pending)'
             PROVE  LeftOver(t)'
  BY DEF GivenUp
<1>0. TypeOK /\ OneCall /\ OneCall' /\ ~tainted /\ InOrder /\ t \in Thread
  BY TaintStays DEF Inv, InCall
<1>1. CASE UNCHANGED vars
  <2>1. t \in InCall \ Pending /\ mode = "closing" /\ Alive
    BY <1>1 DEF vars, InCall, Pending, Alive
  <2> QED BY <1>0, <1>1, <2>1 DEF vars, GivenUp, LeftOver, First
<1>2. CASE Start
  BY <1>2 DEF Start, Launch, StartReady, StartFails
<1>3. CASE Worker
  <2>1. t \in InCall \ Pending /\ mode = "closing" /\ Alive
    BY <1>3 DEF Worker, WorkerOnly, Load, Take, Ask, TakeReply, Finish, Die, InCall, Pending, Alive
  <2> QED BY <1>0, <1>3, <2>1, GivenUpWorker DEF GivenUp
<1>4. ASSUME NEW u \in Thread, Manager(u) PROVE LeftOver(t)'
  BY <1>0, <1>4, GivenUpManager
<1> QED BY <1>1, <1>2, <1>3, <1>4 DEF Next

\* Where the engine lets in one call at a time, a worker that waits for the
\* gateway takes no message of another call, as long as no exchange broke off
\* and no stop cut into one: it takes the response to its own request, or,
\* once its caller has given up and the sandbox is being closed, the shutdown
\* request in its place.
THEOREM RepliesAreOwn == ASSUME MaxConcurrency = 1 PROVE Spec => RepliesReachTheirCall
<1> DEFINE Right == \/ Head(req) = Msg("reply", worker.call)
                    \/ mode = "closing" /\ Head(req).kind = "shutdown"
<1>1. Inv /\ GivenUp /\ TakeReply /\ ~tainted => Right
  <2> SUFFICES ASSUME Inv, GivenUp, TakeReply, ~tainted PROVE Right
    OBVIOUS
  <2>1. Alive /\ worker.pc = "await" /\ req # <<>> /\ TypeOK /\ InOrder
    BY DEF TakeReply, Alive, Inv
  <2>2. mode \in {"up", "closing"}
    BY <2>1, TypeParts DEF InOrder, Starting, Ended
  <2>3. CASE mode = "up"
    <3>1. PICK u \in InCall : Exchange(u)
      BY <2>1, <2>3 DEF InOrder, Up, Resting
    <3>2. worker = [pc |-> "await", call |-> th[u].call] /\ req = <<Msg("reply", th[u].call)>>
      BY <2>1, <3>1 DEF Exchange
    <3> QED BY <3>2
  <2>4. CASE mode = "closing"
    <3>1. PICK u \in InCall \ Pending : LeftOver(u)
      BY <2>1, <2>4 DEF InOrder, Closing, GivenUp
    <3>2. /\ worker = [pc |-> "await", call |-> th[u].call]
          /\ Stops(req) \/ First(Msg("reply", th[u].call))
      BY <2>1, <3>1 DEF LeftOver
    <3>3. Msg("shutdown", 0) \in Requests /\ req \in Seq(Requests)
      BY <2>1, MsgType, TypeParts, ChannelAssumption
    <3>4. Stops(req) => Head(req).kind = "shutdown"
      BY <2>1, <3>3, StopQueue
    <3> QED BY <2>4, <3>2, <3>4 DEF First
  <2> QED BY <2>2, <2>3, <2>4
<1>2. Inv /\ GivenUp /\ [Next]_vars => [(TakeReply /\ ~tainted) => Right]_vars
  BY <1>1
<1>3. Init => GivenUp
  BY DEF Init, GivenUp
<1>4. Inv /\ Inv' /\ GivenUp /\ [Next]_vars => GivenUp'
  BY GivenUpStep
<1> QED BY <1>2, <1>3, <1>4, Invariance, PTL DEF Spec, RepliesReachTheirCall
=============================================================================
