----------------------------- MODULE RpcSession -----------------------------
(***************************************************************************)
(* One stdio RPC session: the Host over the Harness, the event stream and  *)
(* its forwarder, the server with its dispatch tasks, the JSONL connection *)
(* and the typed Python client at the other end of the pipes.              *)
(*                                                                         *)
(* A request is a record that carries the step its client side (c) and its *)
(* server side (s) are in.  Every step of the server is one run of a task  *)
(* between two awaits.  Two orderings are those of asyncio's FIFO ready    *)
(* queue and of the reader thread, and are stated as guards where they     *)
(* matter: a line is read only when the previous request has reached its   *)
(* first await, and a done callback runs before a task created after it    *)
(* was scheduled.                                                          *)
(***************************************************************************)
EXTENDS EventStream, FiniteSets

CONSTANTS MaxReq,          \* requests the client may send
          MaxRuns,         \* Runs the Harness may be asked for
          InboundCapacity, \* client side: inbound queue and local history
          RpcScopes        \* what the peer and the Runs of a session may do

(* A scope bounds one session: its protocol, the methods its user calls,   *)
(* the Runs it may ask for, the Runs whose Policy wants a confirmation,    *)
(* the events a Run publishes between agent_start and agent_end, the       *)
(* requests it may send and those whose caller gives up, the user requests *)
(* in flight, and whether the server process may die.                      *)
ASSUME SessionAssumption ==
  /\ MaxReq \in Nat /\ MaxRuns \in Nat /\ InboundCapacity \in Nat \ {0}
  /\ \A s \in RpcScopes :
       s \in [proto : {1, 2}, methods : SUBSET {"badinit", "steer", "abort", "close"}, runs : 0 .. MaxRuns,
              confirm : SUBSET (1 .. MaxRuns), mid : Nat, reqs : 0 .. MaxReq, cancels : Nat, flight : Nat,
              dies : BOOLEAN]

VARIABLES scope,    \* fixed by the session; the first line of the peer selects its protocol
          log, streamClosed, sub, fwd,
          task,     \* the prompt() task of each Run
          aborted,  \* the Runs that harness.abort() or a cancellation reached
          conf,     \* the confirmation record of each Run, by its revision
          host,     \* HarnessRpcHost
          harnessClosed,
          srv,      \* RpcServer / RpcV2Server
          link,     \* the server's connection and then run_stdio_rpc's finally
          req, toServer, toClient, eof,
          cl,       \* EvoPiRpcClient and its connection
          handle,   \* RpcRunHandle of each Run
          shown,    \* what each handle has yielded
          cutShort  \* history: close() was cancelled while it awaited the Run

stream  == <<log, streamClosed, sub>>
runs    == <<task, aborted, conf>>
pipes   == <<toServer, toClient, eof>>
client  == <<cl, handle, shown>>
rpcVars == <<scope, stream, fwd, runs, host, harnessClosed, srv, link, req, pipes,
          client, cutShort>>

proto == scope.proto
Runs == 1 .. MaxRuns
Reqs == 1 .. MaxReq
NoReq == [m |-> "none", run |-> 0, c |-> "none", s |-> "none", code |-> "none", n |-> 0]
Used == {q \in Reqs : req[q].m # "none"}
At(step) == {q \in Used : req[q].s = step}

(* The requests that await a Run through asyncio.gather, which passes a    *)
(* cancellation on to it; run_start's asyncio.wait does not.               *)
Gathering == {q \in At("wait") : req[q].m \in {"abort", "shutdown"} /\ req[q].n # 0}

(***************************************************************************)
(* Publishing: HarnessRpcHost._on_event with EventStream.publish.          *)
(***************************************************************************)
Publish(r, type, onLoop) ==
  /\ ~streamClosed
  /\ log' = Append(log, [type |-> type, run |-> r])
  /\ sub' = Put(sub, Len(log) + 1, onLoop)
  /\ UNCHANGED streamClosed

OnAgentStartSilent(r) == [host EXCEPT !.active = r, !.last = r, !.lastSeq = Len(log) + 1]

OnAgentStart(r) ==
  [host EXCEPT !.active = r, !.last = r, !.lastSeq = Len(log) + 1,
               !.acked = IF host.future = 0 THEN @ ELSE @ \union {host.future}]

(***************************************************************************)
(* The prompt() task of a Run.                                             *)
(***************************************************************************)
RunStart(r) ==
  /\ task[r] = "created" /\ host.callbacks = {}
  /\ ~\E q \in At("wait") : req[q].m = "start" /\ req[q].run \in host.acked
  /\ Publish(r, "start", TRUE)
  /\ host' = OnAgentStart(r)
  /\ task' = [task EXCEPT ![r] = "running"]
  /\ UNCHANGED <<scope, fwd, aborted, conf, harnessClosed, srv, link, req, pipes, client, cutShort>>

(* a done task schedules its callbacks behind the steps that are ready     *)
Scheduled(r) == [host EXCEPT !.callbacks = {r}, !.ready = At("invoke")]

RunStartFails(r) ==
  /\ task[r] = "created" /\ host.callbacks = {}
  /\ task' = [task EXCEPT ![r] = "done"]
  /\ host' = Scheduled(r)
  /\ UNCHANGED <<scope, stream, fwd, aborted, conf, harnessClosed, srv, link, req, pipes, client, cutShort>>

Published(r, type) == Cardinality({n \in DOMAIN log : log[n].run = r /\ log[n].type = type})

(* a Run publishes, and asks, while it runs and again in the tail of       *)
(* prompt(): _maybe_compact evaluates a Policy that may want a confirmation *)
MayPublish(r) == task[r] = "tail" \/ (task[r] = "running" /\ r \notin aborted)

RunEvent(r, onLoop) ==
  /\ MayPublish(r)
  /\ conf[r] # 1
  /\ Published(r, "mid") < scope.mid
  /\ Publish(r, "mid", onLoop)
  /\ UNCHANGED <<scope, fwd, runs, host, harnessClosed, srv, link, req, pipes, client, cutShort>>

RunAsks(r) ==
  /\ MayPublish(r)
  /\ r \in scope.confirm /\ conf[r] = 0
  /\ conf' = [conf EXCEPT ![r] = 1]
  /\ Publish(r, "confirm", TRUE)
  /\ UNCHANGED <<scope, fwd, task, aborted, host, harnessClosed, srv, link, req, pipes, client, cutShort>>

(* The Agent publishes agent_end; its listeners and the tail of prompt()   *)
(* are still to come, for which a new run.start is refused.                *)
RunEnd(r) ==
  /\ task[r] = "running" /\ (conf[r] # 1 \/ r \in aborted)
  /\ Publish(r, "end", TRUE)
  /\ task' = [task EXCEPT ![r] = "tail"]
  /\ conf' = [conf EXCEPT ![r] = IF @ = 1 THEN 2 ELSE @]
  /\ UNCHANGED <<scope, fwd, aborted, host, harnessClosed, srv, link, req, pipes, client, cutShort>>

(* prompt() returns.  Its tail hears no abort: a confirmation that it asks *)
(* for is resolved, or the task itself is cancelled.                       *)
RunReturns(r) ==
  /\ task[r] = "tail" /\ host.callbacks = {}
  /\ conf[r] # 1 \/ (link = "finishing" /\ \E q \in Gathering : req[q].n = r)
  /\ task' = [task EXCEPT ![r] = "done"]
  /\ conf' = [conf EXCEPT ![r] = IF @ = 1 THEN 2 ELSE @]
  /\ host' = Scheduled(r)
  /\ UNCHANGED <<scope, stream, fwd, aborted, harnessClosed, srv, link, req, pipes, client, cutShort>>

(* _run_finished, the done callback of the task of Run r                   *)
RunFinished(r) ==
  /\ r \in host.callbacks
  /\ host' = [host EXCEPT !.callbacks = {}, !.ready = {}, !.active = 0, !.future = 0,
                          !.wiped = IF host.future \notin {0, r} THEN @ \union {host.future}
                                    ELSE @,
                          !.task = IF @ = r THEN 0 ELSE @]
  /\ UNCHANGED <<scope, stream, fwd, runs, harnessClosed, srv, link, req, pipes, client, cutShort>>

RunActive == host.task # 0 /\ task[host.task] # "done"

(* call_soon_threadsafe(_put_nowait) reaches the loop                      *)
ScheduledPut ==
  /\ sub.soon # <<>>
  /\ sub' = RunScheduled(sub)
  /\ UNCHANGED <<scope, log, streamClosed, fwd, runs, host, harnessClosed, srv, link, req, pipes, client, cutShort>>

(***************************************************************************)
(* run_stdio_rpc's forward_events: the connection refuses events once it   *)
(* is closed, a v2 peer is sent none before initialize has succeeded.      *)
(***************************************************************************)
Forward ==
  /\ fwd = "running" /\ HasNext(sub)
  /\ LET kind == NextKind(sub)
         sends == kind = "event" /\ link = "open" /\ (proto = 1 \/ srv.initialized)
     IN /\ fwd' = CASE kind = "end" -> "ended"
                    [] kind = "dropped" -> "dead"
                    [] kind = "event" /\ link # "open" -> "dead"
                    [] OTHER -> "running"
        /\ sub' = IF kind = "dropped" THEN sub ELSE Consumed(sub)
        /\ toClient' = IF sends THEN Append(toClient, [k |-> "event", n |-> NextItem(sub)])
                       ELSE toClient
  /\ UNCHANGED <<scope, log, streamClosed, runs, host, harnessClosed, srv, link, req, toServer, eof, client, cutShort>>

(***************************************************************************)
(* The server.  A line becomes a task of its own (_dispatch_request).      *)
(***************************************************************************)
(* the dispatch task resumes with the response and writes it               *)
Answer(q, code, n) ==
  /\ req' = [req EXCEPT ![q].s = "written", ![q].code = code, ![q].n = n]
  /\ toClient' = Append(toClient, [k |-> "response", n |-> q])

(* the reader thread hands over a line only when the task of the previous  *)
(* one has reached its first await                                         *)
NextLine(q) == link = "open" /\ toServer # <<>> /\ q = Head(toServer) /\ At("invoke") = {}

Accept(q) == req' = [req EXCEPT ![q].s = "invoke"] /\ UNCHANGED toClient

(* RpcServer.dispatch                                                      *)
DispatchV1(q) == proto = 1 /\ Accept(q) /\ UNCHANGED srv

(* RpcV2Server.dispatch: the initialization state machine comes first, and *)
(* an initialize that fails its params check leaves _initializing set      *)
ParamsRefused(q) == req[q].m = "badinit"
DispatchV2(q) ==
  LET init == req[q].m \in {"initialize", "badinit"} IN
  /\ proto = 2
  /\ \/ /\ ~srv.initialized /\ ~init
        /\ Answer(q, "not_initialized", 0) /\ UNCHANGED srv
     \/ /\ init /\ (srv.initialized \/ srv.initializing)
        /\ Answer(q, "already_initialized", 0) /\ UNCHANGED srv
     \/ /\ init /\ ~srv.initialized /\ ~srv.initializing
        /\ srv' = [srv EXCEPT !.initializing = TRUE]
        /\ IF ParamsRefused(q) THEN Answer(q, "invalid_params", 0) ELSE Accept(q)
     \/ srv.initialized /\ ~init /\ Accept(q) /\ UNCHANGED srv

Dispatch(q) ==
  /\ NextLine(q) /\ toServer' = Tail(toServer)
  /\ DispatchV1(q) \/ DispatchV2(q)
  /\ UNCHANGED <<scope, stream, fwd, runs, host, harnessClosed, link, eof, client, cutShort>>

(* a handler runs to its first await; while a done callback is scheduled   *)
(* only the handlers that were ready before it may                         *)
MayInvoke(q) == req[q].s = "invoke" /\ link = "open" /\ (host.callbacks = {} \/ q \in host.ready)

Handled(q, code, n) ==
  /\ Answer(q, code, n)
  /\ UNCHANGED <<scope, stream, fwd, runs, host, harnessClosed, srv, link, toServer, eof, client, cutShort>>

(* initialize answers with the stream's cursor; a closed stream refuses    *)
(* the snapshot, but nothing closes it before the first initialize         *)
Initialize(q) ==
  /\ MayInvoke(q) /\ req[q].m = "initialize"
  /\ Answer(q, "ok", Len(log))
  /\ srv' = [initialized |-> TRUE, initializing |-> FALSE]
  /\ UNCHANGED <<scope, stream, fwd, runs, host, harnessClosed, link, toServer, eof, client, cutShort>>

(* run_start up to its asyncio.wait, or its refusal                        *)
StartRefused(q) ==
  /\ MayInvoke(q) /\ req[q].m = "start" /\ (host.closed \/ RunActive)
  /\ Handled(q, IF host.closed THEN "host_closed" ELSE "run_already_active", 0)

StartTask(q) ==
  /\ MayInvoke(q) /\ req[q].m = "start" /\ ~host.closed /\ ~RunActive
  /\ \E r \in Runs :
       /\ task[r] = "none" /\ \A x \in Runs : x < r => task[x] # "none"
       /\ task' = [task EXCEPT ![r] = "created"]
       /\ host' = [host EXCEPT !.task = r, !.future = r]
       /\ req' = [req EXCEPT ![q].s = "wait", ![q].run = r]
  /\ UNCHANGED <<scope, stream, fwd, aborted, conf, harnessClosed, srv, link, pipes, client, cutShort>>

(* run_start after its wait: the future was set, or the task is done; the  *)
(* v2 Host then reads the sequence of the last agent_start                 *)
StartReturns(q) ==
  LET r == req[q].run IN
  /\ req[q].s = "wait" /\ req[q].m = "start" /\ link = "open"
  /\ \/ /\ r \in host.acked
        /\ Handled(q, IF proto = 2 /\ host.last # r THEN "run_start_failed" ELSE "ok",
                   host.lastSeq)
     \/ /\ r \notin host.acked /\ task[r] = "done"
        /\ Handled(q, "run_start_failed", 0)

AnyActiveRun(q) == TRUE

(* _require_active_run, v2 only: the request names the Run it is meant for *)
ActiveRun(q) == proto = 1 \/ host.active = req[q].run

(* run_steer and run_follow_up; the queue itself is InteractionQueue       *)
Steer(q) ==
  /\ MayInvoke(q) /\ req[q].m = "steer"
  /\ Handled(q, CASE ~ActiveRun(q) -> "run_mismatch"
                  [] ActiveRun(q) /\ host.closed -> "host_closed"
                  [] ActiveRun(q) /\ ~host.closed /\ ~RunActive -> "run_not_active"
                  [] OTHER -> IF task[host.task] = "tail" THEN "interaction_closed" ELSE "ok",
             host.task)

AbortRefused(q) ==
  /\ MayInvoke(q) /\ req[q].m = "abort" /\ (~ActiveRun(q) \/ ~RunActive)
  /\ Handled(q, IF ActiveRun(q) THEN "ok" ELSE "run_mismatch", 0)

AbortRun(q) ==
  /\ MayInvoke(q) /\ req[q].m = "abort" /\ ActiveRun(q) /\ RunActive
  /\ aborted' = aborted \union {host.task}
  /\ req' = [req EXCEPT ![q].s = "wait", ![q].n = host.task]
  /\ UNCHANGED <<scope, stream, fwd, task, conf, host, harnessClosed, srv, link, pipes, client, cutShort>>

AbortReturns(q) ==
  /\ req[q].s = "wait" /\ req[q].m = "abort" /\ link = "open" /\ task[req[q].n] = "done"
  /\ Handled(q, "ok", req[q].n)

(* confirmation.list and confirmation.respond with its revision check      *)
ListConfirmations(q) ==
  /\ MayInvoke(q) /\ req[q].m = "list"
  /\ Handled(q, IF conf[req[q].run] = 1 THEN "ok" ELSE "unknown_request", conf[req[q].run])

RespondConfirmation(q) ==
  /\ MayInvoke(q) /\ req[q].m = "respond"
  /\ LET pending == conf[req[q].run] = 1 IN
     /\ conf' = IF pending THEN [conf EXCEPT ![req[q].run] = 2] ELSE conf
     /\ Answer(q, IF pending THEN "ok" ELSE "duplicate_response", 2)
  /\ UNCHANGED <<scope, stream, fwd, task, aborted, host, harnessClosed, srv, link, toServer, eof, client, cutShort>>

(* events_replay: n carries the cursor in the request and the snapshot     *)
(* boundary in the answer                                                  *)
ReplayEvents(q) ==
  /\ MayInvoke(q) /\ req[q].m = "replay"
  /\ Handled(q, IF req[q].n > Len(log) THEN "event_cursor_invalid"
                ELSE IF streamClosed THEN "event_stream_closed"
                ELSE IF Expired(log, req[q].n) THEN "event_cursor_expired"
                ELSE "ok", Len(log))

(* close() of the Host: up to the wait for the Run, and behind it          *)
CloseBegins ==
  /\ host' = [host EXCEPT !.closed = TRUE]
  /\ aborted' = IF RunActive THEN aborted \union {host.task} ELSE aborted

CloseEndsHarnessOnly == harnessClosed' = TRUE /\ UNCHANGED <<streamClosed, sub>>

CloseEnds ==
  /\ harnessClosed' = TRUE
  /\ streamClosed' = TRUE
  /\ sub' = CloseSubscriber(sub)

Shutdown(q) ==
  /\ MayInvoke(q) /\ req[q].m = "shutdown"
  /\ \/ host.closed /\ Handled(q, "ok", 0)
     \/ /\ ~host.closed /\ CloseBegins
        /\ req' = [req EXCEPT ![q].s = "wait", ![q].n = IF RunActive THEN host.task ELSE 0]
        /\ UNCHANGED <<scope, stream, fwd, task, conf, harnessClosed, srv, link, pipes, client, cutShort>>

ShutdownReturns(q) ==
  /\ req[q].s = "wait" /\ req[q].m = "shutdown" /\ link = "open"
  /\ (req[q].n # 0 => task[req[q].n] = "done")
  /\ CloseEnds /\ Answer(q, "ok", 0)
  /\ UNCHANGED <<scope, log, fwd, runs, host, srv, link, toServer, eof, client, cutShort>>

(* the read loop ends at EOF: _finish cancels every dispatch task          *)
Finish ==
  /\ link = "open" /\ eof /\ toServer = <<>>
  /\ link' = "finishing"
  /\ aborted' = aborted \union {req[q].n : q \in Gathering}
  /\ cutShort' = (cutShort \/ \E q \in At("wait") : req[q].m = "shutdown")
  /\ UNCHANGED <<scope, stream, fwd, task, conf, host, harnessClosed, srv, req, pipes, client>>

(* the cancelled tasks are awaited, then the server is closed              *)
FinishEnds ==
  /\ link = "finishing" /\ \A q \in Gathering : task[req[q].n] = "done"
  /\ link' = "closed"
  /\ req' = [q \in Reqs |-> IF req[q].s \in {"invoke", "wait"}
                            THEN [req[q] EXCEPT !.s = "cancelled"] ELSE req[q]]
  /\ srv' = [srv EXCEPT !.initializing = FALSE]
  /\ UNCHANGED <<scope, stream, fwd, runs, host, harnessClosed, pipes, client, cutShort>>

(* run_stdio_rpc's finally: host.close(), which does nothing a second time *)
HostClose ==
  /\ link = "closed"
  /\ \/ host.closed /\ link' = "over" /\ UNCHANGED <<host, aborted>>
     \/ ~host.closed /\ link' = "hostwait" /\ CloseBegins
  /\ UNCHANGED <<scope, stream, fwd, task, conf, harnessClosed, srv, req, pipes, client, cutShort>>

HostCloseEnds ==
  /\ link = "hostwait" /\ ~RunActive
  /\ link' = "over"
  /\ CloseEnds
  /\ UNCHANGED <<scope, log, fwd, runs, host, srv, req, pipes, client, cutShort>>

(***************************************************************************)
(* The client.                                                             *)
(***************************************************************************)
Free == CHOOSE q \in Reqs : req[q].m = "none" /\ \A x \in Reqs : x < q => req[x].m # "none"
CanSend == cl.conn = "open" /\ Cardinality(Used) < scope.reqs

(* send_request: the future is registered and the line written             *)
Sent(m, r, n) ==
  /\ CanSend
  /\ req' = [req EXCEPT ![Free] = [NoReq EXCEPT !.m = m, !.run = r, !.n = n,
                                                !.c = "pending", !.s = "wire"]]
  /\ toServer' = Append(toServer, Free)

(* connect(): initialize is the first request; a peer that is not this     *)
(* client may send one whose params are refused, and try again             *)
Handshake(m) ==
  /\ cl.st = "new" /\ proto = 2 /\ Sent(m, 0, 0)
  /\ \A q \in Used : req[q].c = "done"
  /\ cl' = [cl EXCEPT !.init = Free]
  /\ UNCHANGED <<scope, stream, fwd, runs, host, harnessClosed, srv, link, toClient, eof, handle, shown, cutShort>>

(* connect() goes on with the answer, or gives the transport up            *)
HandshakeEnds ==
  /\ cl.st = "new" /\ cl.init # 0 /\ req[cl.init].c \in {"done", "closed"}
  /\ IF req[cl.init].c = "done" /\ req[cl.init].code = "ok"
     THEN cl' = [cl EXCEPT !.st = "open", !.last = req[cl.init].n] /\ UNCHANGED eof
     ELSE /\ cl' = [cl EXCEPT !.st = "closed", !.conn = "closed", !.loop = "ended"]
          /\ eof' = TRUE
  /\ UNCHANGED <<scope, stream, fwd, runs, host, harnessClosed, srv, link, req, toServer, toClient, handle, shown, cutShort>>

(* a run.start that was refused used none of the scope's Runs              *)
Refused == {"host_closed", "run_already_active", "not_initialized"}

UserRequest(m, r) ==
  /\ cl.st = "open" /\ Sent(m, r, 0)
  /\ Cardinality({q \in Used : req[q].m \in {"start", "steer", "abort"}
                              /\ req[q].c = "pending"}) < scope.flight
  /\ m \in {"steer", "abort"} => \E q \in Used : req[q].m = "start" /\ req[q].c = "done"
                                                 /\ req[q].code = "ok" /\ req[q].run = r
  /\ m = "start" => Cardinality({q \in Used : req[q].m = "start" /\ req[q].code \notin Refused})
                      < scope.runs
  /\ UNCHANGED <<scope, stream, fwd, runs, host, harnessClosed, srv, link, toClient, eof, client, cutShort>>

(* The caller gives up: the response of a request that was fully sent is   *)
(* expected and dropped, that of one cancelled while its line was being    *)
(* flushed is not (v2).                                                    *)
CancelRequest(q, flushed) ==
  /\ q \in Used /\ req[q].c = "pending" /\ req[q].m \in {"start", "steer", "abort"}
  /\ Cardinality({x \in Used : req[x].c \in {"abandoned", "unsent"}}) < scope.cancels
  /\ flushed \/ req[q].s = "wire"
  /\ req' = [req EXCEPT ![q].c = IF flushed THEN "abandoned" ELSE "unsent"]
  /\ UNCHANGED <<scope, stream, fwd, runs, host, harnessClosed, srv, link, pipes, client, cutShort>>

PendingKept(rs) == rs

(* _finish of the client's connection: pending futures are resolved        *)
PendingClosed(rs) == [q \in Reqs |-> IF rs[q].c = "pending" THEN [rs[q] EXCEPT !.c = "closed"]
                                    ELSE rs[q]]

ClientReadResponse ==
  /\ cl.conn = "open" /\ toClient # <<>> /\ Head(toClient).k = "response"
  /\ LET q == Head(toClient).n
         lost == req[q].c = "unsent" /\ proto = 2
         got == [req EXCEPT ![q].c = IF @ = "pending" THEN "done" ELSE "gone"]
     IN /\ req' = IF lost THEN PendingClosed(req) ELSE got
        /\ cl' = IF lost THEN [cl EXCEPT !.conn = "closed"] ELSE cl
  /\ toClient' = Tail(toClient)
  /\ UNCHANGED <<scope, stream, fwd, runs, host, harnessClosed, srv, link, toServer, eof, handle, shown, cutShort>>

(* _deliver_inbound: an overflow is a protocol failure of the connection   *)
ClientReadEvent ==
  /\ cl.conn = "open" /\ toClient # <<>> /\ Head(toClient).k = "event"
  /\ LET full == Len(cl.inbound) = InboundCapacity IN
     /\ cl' = IF full THEN [cl EXCEPT !.conn = "closed"]
              ELSE [cl EXCEPT !.inbound = Append(@, Head(toClient).n)]
     /\ req' = IF full THEN PendingClosed(req) ELSE req
  /\ toClient' = Tail(toClient)
  /\ UNCHANGED <<scope, stream, fwd, runs, host, harnessClosed, srv, link, toServer, eof, handle, shown, cutShort>>

(* the server process dies, without any of its cleanup                     *)
ServerDies ==
  /\ scope.dies /\ link = "open"
  /\ link' = "dead"
  /\ UNCHANGED <<scope, stream, fwd, runs, host, harnessClosed, srv, req, pipes, client, cutShort>>

(* everything the dead server wrote has been read                          *)
ClientReadEof ==
  /\ cl.conn = "open" /\ toClient = <<>> /\ link = "dead"
  /\ cl' = [cl EXCEPT !.conn = "closed"]
  /\ req' = PendingClosed(req)
  /\ UNCHANGED <<scope, stream, fwd, runs, host, harnessClosed, srv, link, pipes, handle, shown, cutShort>>

(* _event_loop over received_events: only consecutive numbers get through  *)
EventLoop ==
  /\ cl.st \in {"open", "closing"} /\ cl.loop = "running"
  /\ \/ /\ cl.inbound # <<>>
        /\ LET n == Head(cl.inbound)
               rest == [cl EXCEPT !.inbound = Tail(@)]
               kept == Append(cl.history, n)
           IN cl' = CASE proto = 1 \/ n <= cl.last -> rest
                      [] proto = 2 /\ n > cl.last + 1 -> [rest EXCEPT !.loop = "ended", !.error = TRUE]
                      [] OTHER ->
                           [rest EXCEPT !.last = n,
                              !.history = IF Len(kept) > InboundCapacity THEN Tail(kept) ELSE kept,
                              !.asked = IF log[n].type = "confirm" THEN Append(@, log[n].run)
                                        ELSE @]
     \/ /\ cl.inbound = <<>> /\ cl.conn = "closed"
        /\ cl' = [cl EXCEPT !.loop = "ended", !.error = @ \/ cl.st # "closing"]
  /\ UNCHANGED <<scope, stream, fwd, runs, host, harnessClosed, srv, link, req, pipes, handle, shown, cutShort>>

(* _confirmation_loop: list, ask the handler, respond                      *)
ConfirmationLoop ==
  /\ cl.st = "open" /\ cl.asked # <<>>
  /\ LET r == Head(cl.asked)
         q == cl.asking
     IN \/ /\ q = 0 /\ Sent("list", r, 0)
           /\ cl' = [cl EXCEPT !.asking = Free]
        \/ /\ q # 0 /\ req[q].m = "list" /\ req[q].c = "done" /\ req[q].code = "ok"
           /\ Sent("respond", r, 1)
           /\ cl' = [cl EXCEPT !.asking = Free]
        \/ /\ q # 0
           /\ \/ req[q].c = "closed"
              \/ req[q].c = "done" /\ (req[q].m = "respond" \/ req[q].code # "ok")
           /\ cl' = [cl EXCEPT !.asked = Tail(@), !.asking = 0]
           /\ UNCHANGED <<req, toServer>>
  /\ UNCHANGED <<scope, stream, fwd, runs, host, harnessClosed, srv, link, toClient, eof, handle, shown, cutShort>>

(***************************************************************************)
(* RpcRunHandle: _wait_for_end over events(), a replay and then the local  *)
(* live history.                                                           *)
(***************************************************************************)
(* the consecutive numbers of a replay                                     *)
Span(from, to) == [i \in 1 .. (to - from + 1) |-> from + i - 1]

HandleOpens(q) ==
  LET r == req[q].run IN
  /\ proto = 2 /\ cl.st = "open" /\ req[q].m = "start" /\ req[q].c = "done" /\ req[q].code = "ok"
  /\ handle[r].st = "none" /\ Sent("replay", r, req[q].n - 1)
  /\ handle' = [handle EXCEPT ![r] = [st |-> "replay", seq |-> req[q].n - 1, q |-> Free]]
  /\ UNCHANGED <<scope, stream, fwd, runs, host, harnessClosed, srv, link, toClient, eof, cl, shown, cutShort>>

(* what the handle yields of some events: it stops behind agent_end        *)
EndsAt(r, items) == {i \in DOMAIN items : log[items[i]].type = "end" /\ log[items[i]].run = r}

Yields(r, items) ==
  LET ends == EndsAt(r, items)
      n == IF ends = {} THEN Len(items) ELSE CHOOSE i \in ends : \A x \in ends : i <= x
  IN /\ shown' = [shown EXCEPT ![r] = @ \o SubSeq(items, 1, n)]
     /\ handle' = [handle EXCEPT ![r] = [st |-> IF ends = {} THEN "live" ELSE "done",
                                         seq |-> IF n = 0 THEN @.seq ELSE items[n], q |-> 0]]

Fails(r) == handle' = [handle EXCEPT ![r] = [@ EXCEPT !.st = "failed"]] /\ UNCHANGED shown

HandleReplayed(r) ==
  /\ handle[r].st = "replay"
  /\ LET q == req[handle[r].q] IN
     \/ q.c = "done" /\ q.code = "ok" /\ Yields(r, Span(handle[r].seq + 1, q.n))
     \/ q.c \in {"done", "closed"} /\ (q.c = "closed" \/ q.code # "ok") /\ Fails(r)
  /\ UNCHANGED <<scope, stream, fwd, runs, host, harnessClosed, srv, link, req, pipes, cl, cutShort>>

(* the numbers of a sequence behind a cursor: SelectSeq(s, LAMBDA n : n >  *)
(* cursor), as a recursive function, which proofs can unfold               *)
Behind(s, cursor) ==
  LET f[i \in 0 .. Len(s)] == IF i = 0 THEN <<>>
                              ELSE IF s[i] > cursor THEN Append(f[i - 1], s[i]) ELSE f[i - 1]
  IN f[Len(s)]

(* what the local history holds behind the handle's cursor                 *)
Available(r) == Behind(cl.history, handle[r].seq)

HandleLiveUnchecked(r) ==
  /\ handle[r].st = "live" /\ Available(r) # <<>> /\ Yields(r, Available(r))
  /\ UNCHANGED <<scope, stream, fwd, runs, host, harnessClosed, srv, link, req, pipes, cl, cutShort>>

HandleLive(r) ==
  /\ handle[r].st = "live"
  /\ LET events == Available(r) IN
     \/ events # <<>> /\ Head(events) = handle[r].seq + 1 /\ Yields(r, events)
     \/ events # <<>> /\ Head(events) # handle[r].seq + 1 /\ Fails(r)
     \/ events = <<>> /\ (cl.error \/ cl.st = "closed") /\ Fails(r)
  /\ UNCHANGED <<scope, stream, fwd, runs, host, harnessClosed, srv, link, req, pipes, cl, cutShort>>

(* aclose(): shutdown is asked for, waited for up to a timeout, and the    *)
(* transport closed                                                        *)
Aclose ==
  /\ cl.st = "open" /\ "close" \in scope.methods
  /\ IF CanSend
     THEN Sent("shutdown", 0, 0) /\ cl' = [cl EXCEPT !.st = "closing", !.bye = Free]
     ELSE cl' = [cl EXCEPT !.st = "closing"] /\ UNCHANGED <<req, toServer>>
  /\ UNCHANGED <<scope, stream, fwd, runs, host, harnessClosed, srv, link, toClient, eof, handle, shown, cutShort>>

CloseTransport ==
  /\ cl.st = "closing"
  /\ cl' = [cl EXCEPT !.st = "closed", !.conn = "closed", !.loop = "ended"]
  /\ req' = PendingClosed(req)
  /\ eof' = TRUE
  /\ UNCHANGED <<scope, stream, fwd, runs, host, harnessClosed, srv, link, toServer, toClient, handle, shown, cutShort>>

-----------------------------------------------------------------------------
RpcInit ==
  /\ scope \in RpcScopes
  /\ log = <<>> /\ streamClosed = FALSE
  /\ sub = Subscribe(<<>>, 0) /\ fwd = "running"
  /\ task = [r \in Runs |-> "none"] /\ aborted = {} /\ conf = [r \in Runs |-> 0]
  /\ host = [task |-> 0, future |-> 0, active |-> 0, last |-> 0, lastSeq |-> 0,
             acked |-> {}, wiped |-> {}, closed |-> FALSE, callbacks |-> {}, ready |-> {}]
  /\ harnessClosed = FALSE
  /\ srv = [initialized |-> FALSE, initializing |-> FALSE]
  /\ link = "open"
  /\ req = [q \in Reqs |-> NoReq]
  /\ toServer = <<>> /\ toClient = <<>> /\ eof = FALSE
  /\ cl = [st |-> IF proto = 1 THEN "open" ELSE "new", conn |-> "open", loop |-> "running",
           error |-> FALSE, inbound |-> <<>>, history |-> <<>>, last |-> 0,
           asked |-> <<>>, asking |-> 0, init |-> 0, bye |-> 0]
  /\ handle = [r \in Runs |-> [st |-> "none", seq |-> 0, q |-> 0]]
  /\ shown = [r \in Runs |-> <<>>]
  /\ cutShort = FALSE

HostStep ==
  \/ \E r \in Runs : RunStart(r) \/ RunStartFails(r) \/ RunAsks(r) \/ RunFinished(r) \/ RunEnd(r)
                    \/ RunReturns(r)
  \/ \E r \in Runs, onLoop \in BOOLEAN : RunEvent(r, onLoop)
  \/ ScheduledPut \/ Forward

ServerStep ==
  \/ Finish \/ FinishEnds \/ HostClose \/ HostCloseEnds
  \/ \E q \in Reqs :
       \/ Dispatch(q) \/ Initialize(q) \/ StartRefused(q) \/ StartTask(q) \/ StartReturns(q)
       \/ Steer(q) \/ AbortRefused(q) \/ AbortRun(q) \/ AbortReturns(q) \/ ListConfirmations(q)
       \/ RespondConfirmation(q) \/ ReplayEvents(q) \/ Shutdown(q) \/ ShutdownReturns(q)

RpcClientStep ==
  \/ HandshakeEnds \/ ClientReadResponse \/ ClientReadEvent \/ ClientReadEof \/ EventLoop
  \/ ConfirmationLoop \/ CloseTransport
  \/ \E q \in Reqs : HandleOpens(q)
  \/ \E r \in Runs : HandleReplayed(r) \/ HandleLive(r)

UserStep ==
  \/ \E m \in {"initialize"} \union (scope.methods \intersect {"badinit"}) : Handshake(m)
  \/ \E r \in Runs, m \in scope.methods \intersect {"steer", "abort"} : UserRequest(m, r)
  \/ UserRequest("start", 0)
  \/ \E q \in Reqs, flushed \in BOOLEAN : CancelRequest(q, flushed)
  \/ Aclose

RpcNext == (link # "dead" /\ (HostStep \/ ServerStep)) \/ ServerDies \/ RpcClientStep \/ UserStep

(* The event loop runs what is ready.  How long a Run and the tail of its   *)
(* prompt() take is up to Models, Tools and users, aborted or not: neither *)
(* RunEnd nor RunReturns is fair.                                          *)
RpcLoopStep ==
  \/ /\ link # "dead"
     /\ \/ \E r \in Runs : RunStart(r) \/ RunStartFails(r) \/ RunFinished(r)
        \/ ScheduledPut \/ Forward \/ ServerStep
  \/ RpcClientStep

RpcSpec == RpcInit /\ [][RpcNext]_rpcVars /\ WF_rpcVars(RpcLoopStep)

-----------------------------------------------------------------------------
(***************************************************************************)
(* The feed of every handle implements EventFeed: replay and live delivery *)
(* join without a gap, a repetition or an exchange, through the bounded    *)
(* stream, the forwarder's queue, the pipe, the client's inbound queue and *)
(* its bounded history, or the handle fails explicitly (client.py          *)
(* replay_events, live_events, _event_loop; event_stream.py subscribe).    *)
(***************************************************************************)
Abstract(st) == IF st \in {"replay", "live"} THEN "open" ELSE st
Feed == INSTANCE EventFeed WITH state <- [r \in Runs |-> Abstract(handle[r].st)]
FeedImplemented == Feed!Spec

(* A run.start that is answered run_start_failed either never published an *)
(* agent_start, or lost its future to the done callback of the previous    *)
(* Run (_run_finished clears _run_started of whoever set it last).         *)
StartAcknowledged ==
  \A q \in Used :
    req[q].m = "start" /\ req[q].code = "run_start_failed"
      => Published(req[q].run, "start") = 0 \/ req[q].run \in host.wiped

(* "A handle from an earlier Run cannot affect a later Run": a v2 abort or *)
(* interaction that took effect reached the Run that the request names.    *)
HandleBound ==
  \A q \in Used :
    proto = 2 /\ req[q].m \in {"steer", "abort"} /\ req[q].n # 0
      /\ (req[q].s = "wait" \/ req[q].code = "ok") => req[q].n = req[q].run

(* When run_stdio_rpc returns, the Harness and the stream are closed,      *)
(* unless the connection ended while a shutdown request was still waiting  *)
(* for the Run: its cancelled close() had already set _closed, and the     *)
(* second close() does nothing.                                            *)
SessionFinalized == link = "over" => cutShort \/ (harnessClosed /\ streamClosed)

(* an abort or a shutdown that awaits its Run; a run.start that lost its   *)
(* future to a done callback and so awaits its whole Run                   *)
AwaitsRun(q) ==
  LET r == IF req[q].m = "start" THEN req[q].run ELSE req[q].n
  IN /\ req[q].s = "wait" /\ r # 0 /\ task[r] # "done"
     /\ req[q].m = "start" => r \in host.wiped

(* Nobody waits but for a Run: every request gets its answer, or the news  *)
(* that the connection is closed, unless it awaits a Run that is not over, *)
(* and the handle of a Run that published agent_end, or of a server that   *)
(* died, ends.  One exception: once the forwarder has died (its            *)
(* subscription overflowed) the connection stays open and a handle waits   *)
(* for events that never come.                                             *)
NobodyStuck ==
  /\ \A q \in Reqs : (req[q].c = "pending") ~> (req[q].c # "pending" \/ AwaitsRun(q))
  /\ \A r \in Runs : (handle[r].st \in {"replay", "live"} /\ Published(r, "end") # 0)
                       ~> (handle[r].st \in {"done", "failed"} \/ fwd = "dead")
  /\ \A r \in Runs : (handle[r].st \in {"replay", "live"} /\ link = "dead")
                       ~> handle[r].st \in {"done", "failed"}
=============================================================================
