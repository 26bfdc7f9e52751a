---------------------------- MODULE SandboxChannel ----------------------------
(***************************************************************************)
(* One SandboxManager and the worker process behind it: start-up, calls,   *)
(* gateway requests that the plugin makes during a call, time-outs and     *)
(* stop.  Both directions of the transport are queues.  A message carries  *)
(* the number of the call it belongs to; the code sends no such number, so *)
(* only the properties and the call field of the worker look at it.        *)
(***************************************************************************)
EXTENDS Naturals, Sequences, FiniteSets

CONSTANTS Thread,          \* threads of the engine
          Calls,           \* bound: calls made
          MaxConcurrency,  \* calls the engine lets in at once
          Transports,      \* "pipe", "stdio"
          Troubles         \* what may go wrong: see Trouble

Trouble == {"unsent",      \* a request or a gateway response does not fit or cannot be encoded
            "big", "bad",  \* the worker sends a message that is too long, or not valid
            "dies"}        \* the worker is killed, or plugin code ends it

ASSUME ChannelAssumption == /\ Calls \in Nat /\ MaxConcurrency \in Nat \ {0}
                            /\ Transports \subseteq {"pipe", "stdio"} /\ Transports # {}
                            /\ Troubles \subseteq Trouble /\ IsFiniteSet(Thread)

VARIABLES mode,      \* the manager: new, starting, up, closing, down
          transport,
          worker,    \* [pc, call]
          req,       \* to the worker: stdin or its end of the pipe
          ans,       \* to the manager: the pipe, or stdout and the reader's queue
          deaf,      \* nothing more can be read
          th,        \* per thread [pc, call]
          calls,     \* calls begun
          got,       \* got[n]: what call n returned
          tainted    \* history: an exchange broke off, or a shutdown request
                     \* went into one, and the sandbox went on
vars == <<mode, transport, worker, req, ans, deaf, th, calls, got, tainted>>

Msg(kind, n) == [kind |-> kind, call |-> n]
Lifecycle    == {"ready", "stopped", "failed"}
NoCall       == [pc |-> "idle", call |-> 0]
Alive        == worker.pc \notin {"none", "gone"}
Outcome      == {"none", "own", "other", "lifecycle", "error"}

Init ==
  /\ mode = "new"
  /\ transport \in Transports
  /\ worker = [pc |-> "none", call |-> 0]
  /\ req = <<>> /\ ans = <<>> /\ deaf = FALSE
  /\ th = [t \in Thread |-> NoCall]
  /\ calls = 0
  /\ got = [n \in 1..Calls |-> "none"]
  /\ tainted = FALSE
-----------------------------------------------------------------------------
(* The manager. *)

Launch ==
  /\ mode = "new"
  /\ mode' = "starting"
  /\ worker' = [worker EXCEPT !.pc = "loading"]
  /\ UNCHANGED <<transport, req, ans, deaf, th, calls, got, tainted>>

\* The first message decides.  Anything but "ready" stops the sandbox again;
\* so does silence.
StartReady ==
  /\ mode = "starting"
  /\ ans # <<>> /\ Head(ans).kind = "ready"
  /\ mode' = "up"
  /\ ans' = Tail(ans)
  /\ UNCHANGED <<transport, worker, req, deaf, th, calls, got, tainted>>
StartFails ==
  /\ mode = "starting"
  /\ ans # <<>> => Head(ans).kind # "ready"
  /\ mode' = "down"
  /\ worker' = [worker EXCEPT !.pc = "gone"]
  /\ ans' = <<>>
  /\ UNCHANGED <<transport, req, deaf, th, calls, got, tainted>>
InCall == {t \in Thread : th[t].call # 0}
Return(t, what) ==
  /\ got' = [got EXCEPT ![th[t].call] = what]
  /\ th' = [th EXCEPT ![t] = NoCall]

\* Mutant of Call: any number of threads may be in a call.
CallUnlimited(t) ==
  /\ th[t].pc = "idle" /\ mode \in {"up", "closing", "down"} /\ calls < Calls
  /\ calls' = calls + 1
  /\ IF mode # "down" /\ Alive
     THEN /\ th' = [th EXCEPT ![t] = [pc |-> "wait", call |-> calls']]
          /\ req' = Append(req, Msg("request", calls'))
          /\ UNCHANGED got
     ELSE /\ got' = [got EXCEPT ![calls'] = "error"]
          /\ UNCHANGED <<th, req>>
  /\ UNCHANGED <<mode, transport, worker, ans, deaf, tainted>>
\* execute_with_timeout: the request is written, or the call ends at once.
Call(t) ==
  /\ th[t].pc = "idle" /\ Cardinality(InCall) < MaxConcurrency
  /\ mode \in {"up", "closing", "down"} /\ calls < Calls
  /\ calls' = calls + 1
  /\ IF mode # "down" /\ Alive
     THEN /\ th' = [th EXCEPT ![t] = [pc |-> "wait", call |-> calls']]
          /\ req' = Append(req, Msg("request", calls'))
          /\ UNCHANGED got
     ELSE /\ got' = [got EXCEPT ![calls'] = "error"]
          /\ UNCHANGED <<th, req>>
  /\ UNCHANGED <<mode, transport, worker, ans, deaf, tainted>>
\* The payload cannot be encoded or is too long: nothing was sent.
CallUnsent(t) ==
  /\ "unsent" \in Troubles
  /\ th[t].pc = "idle" /\ Cardinality(InCall) < MaxConcurrency
  /\ mode = "up" /\ calls < Calls
  /\ calls' = calls + 1
  /\ got' = [got EXCEPT ![calls'] = "error"]
  /\ UNCHANGED <<mode, transport, worker, req, ans, deaf, th, tainted>>

\* What the manager can still read: the pipe is closed by stop, the reader's
\* queue outlives it.
Readable == ~deaf /\ ans # <<>> /\ (transport = "pipe" => mode # "down")

\* A message that is no gateway request is the answer, whoever it was for.
Receive(t) ==
  /\ th[t].pc = "wait" /\ Readable
  /\ Head(ans).kind \in Lifecycle \cup {"result"}
  /\ ans' = Tail(ans)
  /\ Return(t, IF Head(ans).kind # "result" THEN "lifecycle"
               ELSE IF Head(ans).call = th[t].call THEN "own" ELSE "other")
  /\ UNCHANGED <<mode, transport, worker, req, deaf, calls, tainted>>
\* A message that is not valid, or too long, ends the call and not the
\* sandbox.  After a long one nothing can be read: the connection is no longer
\* readable, or the reader thread has returned.
ReceiveError(t) ==
  /\ th[t].pc = "wait" /\ Readable
  /\ Head(ans).kind \in {"big", "bad"}
  /\ ans' = Tail(ans)
  /\ deaf' = (Head(ans).kind = "big")
  /\ tainted' = TRUE
  /\ Return(t, "error")
  /\ UNCHANGED <<mode, transport, worker, req, calls>>
ReceiveAsk(t) ==
  /\ th[t].pc = "wait" /\ Readable
  /\ Head(ans).kind = "ask"
  /\ ans' = Tail(ans)
  /\ th' = [th EXCEPT ![t].pc = "gateway"]
  /\ UNCHANGED <<mode, transport, worker, req, deaf, calls, got, tainted>>
\* Mutant of Reply: a refusal ends the call and is not sent.
ReplyOrReturn(t) ==
  /\ th[t].pc = "gateway"
  /\ \/ /\ mode # "down" /\ Alive
        /\ req' = Append(req, Msg("reply", th[t].call))
        /\ th' = [th EXCEPT ![t].pc = "wait"]
        /\ UNCHANGED got
     \/ Return(t, "error") /\ UNCHANGED req
  /\ UNCHANGED <<mode, transport, worker, ans, deaf, calls, tainted>>
\* handle_sandbox_request has answered, with data or with a refusal.
Reply(t) ==
  /\ th[t].pc = "gateway"
  /\ IF mode # "down" /\ Alive
     THEN /\ req' = Append(req, Msg("reply", th[t].call))
          /\ th' = [th EXCEPT ![t].pc = "wait"]
          /\ UNCHANGED got
     ELSE Return(t, "error") /\ UNCHANGED req
  /\ UNCHANGED <<mode, transport, worker, ans, deaf, calls, tainted>>
\* The response does not fit: the call ends, the worker goes on waiting.
ReplyUnsent(t) ==
  /\ "unsent" \in Troubles
  /\ th[t].pc = "gateway"
  /\ tainted' = TRUE
  /\ Return(t, "error")
  /\ UNCHANGED <<mode, transport, worker, req, ans, deaf, calls>>

\* Reading raises at once: the worker's end is closed, the connection is not
\* readable, or stop has taken it away.
ReadFails(t) ==
  /\ th[t].pc = "wait" /\ transport = "pipe"
  /\ mode = "down" \/ deaf \/ (ans = <<>> /\ ~Alive)
  /\ Return(t, "error")
  /\ UNCHANGED <<mode, transport, worker, req, ans, deaf, calls, tainted>>
\* Mutant of Timeout: the caller returns and leaves the sandbox running.
TimeoutOnly(t) ==
  /\ th[t].pc = "wait"
  /\ ans = <<>> \/ (deaf /\ transport = "stdio")
  /\ Return(t, "error")
  /\ UNCHANGED <<mode, transport, worker, req, ans, deaf, calls, tainted>>
\* Mutant of Timeout: only a worker that has ended is given up on.
TimeoutIfEnded(t) ==
  /\ th[t].pc = "wait" /\ ~Alive
  /\ ans = <<>> \/ (deaf /\ transport = "stdio")
  /\ th' = [th EXCEPT ![t].pc = "stop"]
  /\ UNCHANGED <<mode, transport, worker, req, ans, deaf, calls, got, tainted>>
\* Silence for the whole time-out: the caller stops the sandbox, then returns.
Timeout(t) ==
  /\ th[t].pc = "wait"
  /\ ans = <<>> \/ (deaf /\ transport = "stdio")
  /\ th' = [th EXCEPT ![t].pc = "stop"]
  /\ UNCHANGED <<mode, transport, worker, req, ans, deaf, calls, got, tainted>>

\* stop: ask the worker to shut down; on a pipe, wait a little for one
\* message and drop it; then end the process and forget it.
BeginStop(t) == /\ th[t].pc = "idle" /\ mode \in {"up", "closing"}
                /\ th' = [th EXCEPT ![t].pc = "stop"]
                /\ UNCHANGED <<mode, transport, worker, req, ans, deaf, calls, got, tainted>>
Pending == {t \in Thread : th[t].pc \in {"wait", "gateway"}}
Shutdown(t) ==
  /\ th[t].pc = "stop"
  /\ th' = [th EXCEPT ![t].pc = "close"]
  /\ IF mode \in {"up", "closing"}
     THEN /\ mode' = "closing"
          /\ req' = IF Alive THEN Append(req, Msg("shutdown", 0)) ELSE req
          /\ tainted' = (tainted \/ Pending # {})
     ELSE UNCHANGED <<mode, req, tainted>>
  /\ UNCHANGED <<transport, worker, ans, deaf, calls, got>>
Close(t) ==
  /\ th[t].pc = "close"
  /\ mode' = "down"
  /\ worker' = [worker EXCEPT !.pc = "gone"]
  /\ IF transport = "pipe" THEN ans' = <<>> ELSE UNCHANGED ans
  /\ IF th[t].call = 0 THEN th' = [th EXCEPT ![t] = NoCall] /\ UNCHANGED got ELSE Return(t, "error")
  /\ UNCHANGED <<transport, req, deaf, calls, tainted>>
-----------------------------------------------------------------------------
(* The worker: one message at a time. *)

Send(m, w) == ans' = Append(ans, m) /\ worker' = w
WorkerOnly == UNCHANGED <<mode, transport, deaf, th, calls, got, tainted>>

Load ==
  /\ worker.pc = "loading"
  /\ \/ Send(Msg("ready", 0), [worker EXCEPT !.pc = "idle"])
     \/ Send(Msg("failed", 0), [worker EXCEPT !.pc = "gone"])
  /\ UNCHANGED req /\ WorkerOnly
\* Mutant of Take: the answer to an unknown action has a kind of its own.
TakeUnknown ==
  /\ worker.pc = "idle" /\ req # <<>>
  /\ req' = Tail(req)
  /\ LET m == Head(req)
     IN \/ m.kind = "request" /\ worker' = [pc |-> "run", call |-> m.call] /\ UNCHANGED ans
        \/ m.kind = "shutdown" /\ Send(Msg("stopped", 0), [worker EXCEPT !.pc = "gone"])
        \/ m.kind = "reply" /\ Send(Msg("unknown", m.call), worker)
  /\ WorkerOnly
Take ==
  /\ worker.pc = "idle" /\ req # <<>>
  /\ req' = Tail(req)
  /\ LET m == Head(req)
     IN \/ m.kind = "request" /\ worker' = [pc |-> "run", call |-> m.call] /\ UNCHANGED ans
        \/ m.kind = "shutdown" /\ Send(Msg("stopped", 0), [worker EXCEPT !.pc = "gone"])
        \/ m.kind = "reply" /\ Send(Msg("result", m.call), worker)    \* unknown action
  /\ WorkerOnly
\* A message of the worker may come out invalid, or too long for the manager;
\* the stdio worker measures what it sends.
Spoilt == {kind \in {"big", "bad"} \cap Troubles : kind = "big" => transport = "pipe"}
\* A request to the gateway.  The worker waits for the response, whatever the
\* manager makes of the request.
Ask ==
  /\ worker.pc = "run"
  /\ \E kind \in {"ask"} \cup Spoilt :
       Send(Msg(kind, worker.call), [worker EXCEPT !.pc = "await"])
  /\ UNCHANGED req /\ WorkerOnly
\* Whatever comes next is taken for the response; without a status it counts
\* as a refusal, which plugin code may catch.
TakeReply ==
  /\ worker.pc = "await" /\ req # <<>>
  /\ req' = Tail(req)
  /\ worker' = [worker EXCEPT !.pc = "run"]
  /\ UNCHANGED ans /\ WorkerOnly
Finish ==
  /\ worker.pc = "run"
  /\ \E kind \in {"result"} \cup Spoilt :
       Send(Msg(kind, worker.call), [worker EXCEPT !.pc = "idle"])
  /\ UNCHANGED req /\ WorkerOnly
\* Killed by a limit; or an exit of plugin code, which is reported.
Die ==
  /\ "dies" \in Troubles
  /\ worker.pc \in {"loading", "idle", "run", "await"}
  /\ worker' = [worker EXCEPT !.pc = "gone"]
  /\ \/ UNCHANGED ans
     \/ worker.pc = "run" /\ ans' = Append(ans, Msg("failed", worker.call))
  /\ UNCHANGED req /\ WorkerOnly
-----------------------------------------------------------------------------
\* What the manager's threads do once a call or a stop is under way.
Proceed(t) == \/ Receive(t) \/ ReceiveError(t) \/ ReceiveAsk(t) \/ Reply(t) \/ ReplyUnsent(t)
              \/ ReadFails(t) \/ Timeout(t) \/ Shutdown(t) \/ Close(t)
Manager(t) == Call(t) \/ CallUnsent(t) \/ BeginStop(t) \/ Proceed(t)
Worker     == Load \/ Take \/ Ask \/ TakeReply \/ Finish \/ Die
Start      == Launch \/ StartReady \/ StartFails
Next       == Start \/ Worker \/ \E t \in Thread : Manager(t)
Spec       == Init /\ [][Next]_vars
\* A thread that is in a call runs on; poll and get return in the end.  The
\* worker is plugin code: nothing is assumed of it.
FairSpec   == Spec /\ \A t \in Thread : WF_vars(Proceed(t))
-----------------------------------------------------------------------------
TypeOK ==
  /\ mode \in {"new", "starting", "up", "closing", "down"}
  /\ transport \in Transports
  /\ worker \in [pc : {"none", "loading", "idle", "run", "await", "gone"}, call : 0..Calls]
  /\ req \in Seq([kind : {"request", "reply", "shutdown"}, call : 0..Calls])
  /\ ans \in Seq([kind : Lifecycle \cup {"ask", "result", "big", "bad"}, call : 0..Calls])
  /\ deaf \in BOOLEAN /\ tainted \in BOOLEAN
  /\ th \in [Thread -> [pc : {"idle", "wait", "gateway", "stop", "close"}, call : 0..Calls]]
  /\ calls \in 0..Calls
  /\ got \in [1..Calls -> Outcome]

\* execute_with_timeout matches no answer with its request.  With one call at
\* a time a result is still that of the call it is returned for, unless an
\* exchange broke off or a stop cut into one: the answer of a call that timed
\* out never reaches the next.
AnswersMatch == ~tainted => \A n \in 1..Calls : got[n] # "other"

\* The reason: between two calls the channel of such a sandbox is empty and
\* its worker waits for a request.
QuietBetweenCalls ==
  (mode = "up" /\ Alive /\ ~tainted /\ Pending = {} /\ \A t \in Thread : th[t].pc = "idle")
    => req = <<>> /\ ans = <<>> /\ worker.pc = "idle"

\* Any message would do as the response a worker waits for; messages carry no
\* number.  As long as no exchange broke off and no stop cut into one, and with
\* one call at a time, it never takes the request or the response of another
\* call.  While the sandbox is up it takes the response to its own request.
\* Once the caller has given up and asked for a stop, it may take the shutdown
\* request for the response: that is the other message this leaves.
RepliesReachTheirCall ==
  [][(TakeReply /\ ~tainted) => \/ Head(req) = Msg("reply", worker.call)
                                \/ mode = "closing" /\ Head(req).kind = "shutdown"]_vars

\* The time-out is per message: a call comes back, unless its plugin asks the
\* gateway for ever.
CallsReturnOrAsk == \A t \in Thread : []<>(th[t].pc \notin {"wait", "gateway"}) \/ []<><<Ask>>_vars
=============================================================================
