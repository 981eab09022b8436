---------------------------- MODULE RemoteProofs ----------------------------
(***************************************************************************)
(* Proofs about the two components that serve a peer outside the process:  *)
(* RpcSession, the stdio session of one client, and RemoteGateway, the     *)
(* shared gateway of many devices.                                         *)
(*                                                                         *)
(* RpcSession is proved for every number of requests and Runs, every size  *)
(* of the stream, of the subscriber's queue and of the client's inbound    *)
(* queue, and every scope.  Its invariant has two halves.  The server's    *)
(* (HostSide, Finishing): a request is handled step by step, at most one   *)
(* handler stands before its first await, one Run is active at a time, and *)
(* each answer says what was true when it was written.  The client's       *)
(* (ClientSide): every number on its way from the log to a handle is one   *)
(* of the log, the local history is an unbroken piece of it, and what a    *)
(* handle shows next follows what it has shown.  A step touches few        *)
(* variables, so each group of steps (those that answer, those that only   *)
(* move the client, those that only extend the log, ...) has one lemma     *)
(* that keeps the invariant, and an action is an instance of one of them.  *)
(* From the second half every step is one of EventFeed or stutters.        *)
(*                                                                         *)
(* RemoteGateway is proved for every set of devices and connections, every *)
(* registry a Host may load, every limit and every number of admin         *)
(* operations and faults.  The registry: a copy whose base is the registry *)
(* in force differs from it only where its operation says, so only a       *)
(* commit that overtakes another one can undo a revocation, and state.json *)
(* is the registry or the copy that is about to become it.  The            *)
(* connections: the two threads only schedule closes on the connections of *)
(* the other, so the connection of the handler in progress stays where its *)
(* handler left it, and the lease stays with a served connection.  The     *)
(* authority: what a served connection captured was current when it        *)
(* registered, and every step that makes it stale also closes it.          *)
(***************************************************************************)
EXTENDS RemoteGateway, RpcSession, FiniteSetTheorems, SequenceTheorems, WellFoundedInduction, TLAPS

(***************************************************************************)
(* RpcSession.                                                             *)
(***************************************************************************)
-----------------------------------------------------------------------------
(* Types.                                                                  *)

Methods == {"none", "initialize", "badinit", "start", "steer", "abort", "list", "respond",
            "replay", "shutdown"}
Steps == {"none", "wire", "invoke", "wait", "written", "cancelled"}
Fates == {"none", "pending", "done", "gone", "closed", "abandoned", "unsent"}
Codes == {"none", "ok", "not_initialized", "already_initialized", "invalid_params", "host_closed",
          "run_already_active", "run_start_failed", "run_mismatch", "run_not_active",
          "interaction_closed", "unknown_request", "duplicate_response", "event_cursor_invalid", "event_stream_closed",
          "event_cursor_expired"}
Event == [type : {"start", "mid", "confirm", "end"}, run : Runs]
Request == [m : Methods, run : 0 .. MaxRuns, c : Fates, s : Steps, code : Codes, n : Int]

SubTyped ==
  sub \in [reg : BOOLEAN, failed : BOOLEAN, replay : {<<>>}, queue : Seq(Nat), soon : Seq(Nat)]

StreamTyped ==
  /\ log \in Seq(Event) /\ streamClosed \in BOOLEAN /\ SubTyped
  /\ fwd \in {"running", "ended", "dead"}

RunsTyped ==
  /\ task \in [Runs -> {"none", "created", "running", "tail", "done"}]
  /\ aborted \subseteq Runs /\ conf \in [Runs -> 0 .. 2]

HostTyped ==
  host \in [task : 0 .. MaxRuns, future : 0 .. MaxRuns, active : 0 .. MaxRuns, last : 0 .. MaxRuns,
            lastSeq : Nat, acked : SUBSET Runs, wiped : SUBSET Runs, closed : BOOLEAN,
            callbacks : SUBSET Runs, ready : SUBSET Reqs]

ServerTyped ==
  /\ scope \in RpcScopes
  /\ harnessClosed \in BOOLEAN /\ cutShort \in BOOLEAN /\ eof \in BOOLEAN
  /\ srv \in [initialized : BOOLEAN, initializing : BOOLEAN]
  /\ link \in {"open", "finishing", "closed", "hostwait", "over", "dead"}

PipesTyped ==
  /\ req \in [Reqs -> Request]
  /\ toServer \in Seq(Reqs)
  /\ toClient \in Seq([k : {"event", "response"}, n : Nat])

ClientTyped ==
  /\ cl \in [st : {"new", "open", "closing", "closed"}, conn : {"open", "closed"},
             loop : {"running", "ended"}, error : BOOLEAN, inbound : Seq(Nat), history : Seq(Nat),
             last : Int, asked : Seq(Runs), asking : 0 .. MaxReq, init : 0 .. MaxReq,
             bye : 0 .. MaxReq]
  /\ handle \in [Runs -> [st : {"none", "replay", "live", "done", "failed"}, seq : Int,
                          q : 0 .. MaxReq]]
  /\ shown \in [Runs -> Seq(Int)]

RpcTypeOK == StreamTyped /\ RunsTyped /\ HostTyped /\ ServerTyped /\ PipesTyped /\ ClientTyped

-----------------------------------------------------------------------------
(* The inductive invariant.                                                *)

Starts(n, r) == n \in 1 .. Len(log) /\ log[n].type = "start" /\ log[n].run = r
NeverStarted(r) == \A n \in 1 .. Len(log) : ~Starts(n, r)

(* A request is on the wire at most once and then handled step by step; at *)
(* most one handler stands before its first await.                         *)
Wire ==
  /\ \A q \in Reqs : req[q].m = "none" <=> req[q].s = "none"
  /\ \A q \in Reqs : req[q].s \in {"none", "wire", "invoke", "wait"} => req[q].code = "none"
  /\ \A q \in Reqs : req[q].s = "wait" => req[q].m \in {"start", "abort", "shutdown"}
  /\ \A q \in Reqs : req[q].s = "wait" /\ req[q].m # "start" => req[q].n \in 0 .. MaxRuns
  /\ \A i \in 1 .. Len(toServer) : req[toServer[i]].s = "wire"
  /\ \A i, j \in 1 .. Len(toServer) : toServer[i] = toServer[j] => i = j
  /\ \A p, q \in Reqs : req[p].s = "invoke" /\ req[q].s = "invoke" => p = q
  /\ \A q \in host.ready : req[q].s \notin {"none", "wire"}

(* One Run at a time, and what the Host knows of it.                       *)
OneRun ==
  /\ \A r \in Runs : task[r] \in {"created", "running", "tail"} => host.task = r
  /\ host.future # 0 => host.future = host.task
  /\ \A r \in Runs : task[r] = "created" => host.future = r \/ r \in host.wiped
  /\ \A r \in host.acked : task[r] \in {"running", "tail", "done"}
  /\ \A r \in host.callbacks : task[r] = "done"
  /\ \A r \in Runs : task[r] \in {"running", "tail"} => host.callbacks = {}
  /\ host.task # 0 => task[host.task] # "none"
  /\ host.active # 0 => \/ task[host.active] \in {"running", "tail"}
                        \/ task[host.active] = "done" /\ host.active \in host.callbacks

(* The agent_start of a Run, the one published last, and who heard of it.  *)
Started ==
  /\ \A n \in 1 .. Len(log) : \A r \in Runs :
       Starts(n, r) => task[r] \in {"running", "tail", "done"} /\ (r \in host.acked \/ r \in host.wiped)
  /\ host.last # 0 => Starts(host.lastSeq, host.last)

(* What the answer to a run.start says.                                    *)
StartsAnswered ==
  \A q \in Reqs : req[q].m = "start" =>
    /\ req[q].s = "wait" => /\ req[q].run \in Runs /\ task[req[q].run] # "none"
                            /\ req[q].run \in host.acked => host.last = req[q].run
    /\ req[q].code = "ok" => req[q].run \in Runs /\ (proto = 2 => Starts(req[q].n, req[q].run))
    /\ req[q].code = "run_start_failed" =>
         /\ req[q].run \in Runs /\ task[req[q].run] = "done"
         /\ NeverStarted(req[q].run) \/ req[q].run \in host.wiped

(* Whom a steer or an abort reaches.  Between the end of a Run and its     *)
(* done callback active is stale; a handler that was ready then may have   *)
(* begun the next Run, and no other one runs before the callback.          *)
Bound ==
  /\ \A q \in Reqs : req[q].m \in {"steer", "abort", "list", "respond"} => req[q].run \in Runs
  /\ host.active # 0 /\ host.task # host.active
       => \A q \in Reqs : req[q].s = "invoke" => q \notin host.ready
  /\ \A q \in Reqs : proto = 2 /\ req[q].m \in {"steer", "abort"} /\ req[q].n # 0
       /\ (req[q].s = "wait" \/ req[q].code = "ok") => req[q].n = req[q].run

(* Who finishes a close() that has begun.                                  *)
BothClosed == harnessClosed /\ streamClosed
ShutdownWaits == \E q \in Reqs : req[q].s = "wait" /\ req[q].m = "shutdown"

Finishing ==
  /\ host.closed => \/ cutShort \/ BothClosed \/ link = "hostwait"
                    \/ link \in {"open", "dead"} /\ ShutdownWaits
  /\ link = "over" => cutShort \/ BothClosed

(* Every number on its way to a handle is one of the log.                  *)
Logged(s) == \A i \in 1 .. Len(s) : s[i] \in 1 .. Len(log)

SubLogged(n) == /\ \A i \in 1 .. Len(sub.queue) : sub.queue[i] <= n
                /\ \A i \in 1 .. Len(sub.soon) : sub.soon[i] <= n

Transit ==
  /\ SubLogged(Len(log))
  /\ \A i \in 1 .. Len(toClient) : toClient[i].n \in IF toClient[i].k = "event" THEN 1 .. Len(log) ELSE Reqs
  /\ Logged(cl.inbound)

(* The local history is an unbroken piece of the log.                      *)
Consecutive(s) == \A i \in 1 .. Len(s) : s[i] = s[1] + i - 1

History ==
  /\ Logged(cl.history) /\ Consecutive(cl.history)
  /\ cl.history # <<>> => cl.history[Len(cl.history)] = cl.last
  /\ cl.st = "new" => cl.history = <<>>

(* What a handle shows next is what follows what it has shown; the first   *)
(* thing it shows is the agent_start of its Run.                           *)
Handles ==
  /\ \A q \in Reqs : req[q].m = "replay" /\ req[q].code = "ok" => req[q].n \in 0 .. Len(log)
  /\ \A r \in Runs :
       /\ handle[r].st = "none" => shown[r] = <<>>
       /\ handle[r].st \in {"replay", "live"} =>
            IF shown[r] = <<>> THEN Starts(handle[r].seq + 1, r)
            ELSE shown[r][Len(shown[r])] = handle[r].seq
       /\ handle[r].st = "replay" =>
            shown[r] = <<>> /\ handle[r].q \in Reqs /\ req[handle[r].q].m = "replay"

RpcInv == /\ RpcTypeOK /\ Wire /\ OneRun /\ Started /\ StartsAnswered /\ Bound /\ Finishing
          /\ Transit /\ History /\ Handles

-----------------------------------------------------------------------------
(* Numbers and sequences.                                                  *)

(* A set of naturals has a least element.                                  *)
LEMMA LeastOf ==
  ASSUME NEW S \in SUBSET Nat, S # {}
  PROVE  \E n \in S : \A m \in S : n <= m
<1>1. PICK n \in S : \A m \in S : <<m, n>> \notin OpToRel(<, Nat)
  BY WFMin, NatLessThanWellFounded, Zenon
<1>2. \A m \in S : ~(m < n)
  BY <1>1, Zenon DEF OpToRel
<1>3. ASSUME NEW m \in S PROVE n <= m
  <2>1. m \in Nat /\ n \in Nat /\ ~(m < n)
    BY <1>2
  <2> QED BY <2>1
<1> QED BY <1>3

(* The elements of an appended and of a shortened sequence.                *)
LEMMA Appended ==
  ASSUME NEW T, NEW s \in Seq(T), NEW e \in T
  PROVE  /\ Append(s, e) \in Seq(T) /\ Len(Append(s, e)) = Len(s) + 1
         /\ \A i \in 1 .. Len(s) : Append(s, e)[i] = s[i]
         /\ Append(s, e)[Len(s) + 1] = e
  BY AppendProperties

LEMMA Shortened ==
  ASSUME NEW T, NEW s \in Seq(T), s # <<>>
  PROVE  /\ Head(s) \in T /\ Head(s) = s[1] /\ Len(s) \in Nat \ {0}
         /\ Tail(s) \in Seq(T) /\ Len(Tail(s)) = Len(s) - 1
         /\ \A i \in 1 .. Len(s) - 1 : Tail(s)[i] = s[i + 1]
  BY HeadTailProperties

(* A request that may be sent takes an identifier nobody has used.         *)
LEMMA FreeIsUnused ==
  ASSUME RpcTypeOK, CanSend
  PROVE  Free \in Reqs /\ req[Free].m = "none"
<1>0. MaxReq \in Nat /\ scope.reqs \in 0 .. MaxReq
  BY SessionAssumption DEF RpcTypeOK, ServerTyped
<1>1. IsFiniteSet(Reqs) /\ Cardinality(Reqs) = MaxReq
  BY <1>0, FS_Interval DEF Reqs
<1>2. Used \in SUBSET Reqs
  BY DEF Used
<1>3. Used # Reqs
  BY <1>0, <1>1 DEF CanSend
<1> DEFINE U == {q \in Reqs : req[q].m = "none"}
<1>4. U \in SUBSET Nat /\ U # {}
  BY <1>2, <1>3 DEF Used, Reqs
<1>5. PICK q \in U : \A x \in U : q <= x
  BY <1>4, LeastOf
<1>6. \A x \in Reqs : x < q => req[x].m # "none"
  BY <1>5 DEF Reqs
<1> QED BY <1>5, <1>6 DEF Free

-----------------------------------------------------------------------------
(* What the steps do to the requests.                                      *)

(* The invariants look at all of a request but its fate at the client.     *)
Same(q) == /\ req'[q].m = req[q].m /\ req'[q].run = req[q].run /\ req'[q].s = req[q].s
           /\ req'[q].code = req[q].code /\ req'[q].n = req[q].n

Elsewhere(q) == \A p \in Reqs \ {q} : Same(p)

LEMMA AnswerEffect ==
  ASSUME PipesTyped, NEW q \in Reqs, NEW code \in Codes, NEW n \in Int, Answer(q, code, n)
  PROVE  /\ req' \in [Reqs -> Request] /\ Elsewhere(q)
         /\ req'[q].m = req[q].m /\ req'[q].run = req[q].run
         /\ req'[q].s = "written" /\ req'[q].code = code /\ req'[q].n = n
         /\ toClient' = Append(toClient, [k |-> "response", n |-> q])
         /\ toClient' \in Seq([k : {"event", "response"}, n : Nat])
<1>1. req \in [Reqs -> Request] /\ toClient \in Seq([k : {"event", "response"}, n : Nat])
  BY DEF PipesTyped
<1>2. req' = [req EXCEPT ![q] = [@ EXCEPT !.s = "written", !.code = code, !.n = n]]
  BY DEF Answer
<1>3. req' \in [Reqs -> Request] /\ Elsewhere(q)
  BY <1>1, <1>2 DEF Request, Steps, Elsewhere, Same
<1>4. /\ req'[q].m = req[q].m /\ req'[q].run = req[q].run
      /\ req'[q].s = "written" /\ req'[q].code = code /\ req'[q].n = n
  BY <1>1, <1>2 DEF Request
<1>5. [k |-> "response", n |-> q] \in [k : {"event", "response"}, n : Nat]
  BY DEF Reqs
<1>6. /\ toClient' = Append(toClient, [k |-> "response", n |-> q])
      /\ toClient' \in Seq([k : {"event", "response"}, n : Nat])
  BY <1>1, <1>5, Appended DEF Answer
<1> QED BY <1>3, <1>4, <1>6

LEMMA SentEffect ==
  ASSUME RpcTypeOK, NEW m \in Methods, NEW r \in 0 .. MaxRuns, NEW n \in Int, Sent(m, r, n)
  PROVE  /\ Free \in Reqs /\ req[Free].m = "none"
         /\ req' \in [Reqs -> Request] /\ Elsewhere(Free)
         /\ req'[Free].m = m /\ req'[Free].run = r /\ req'[Free].n = n
         /\ req'[Free].s = "wire" /\ req'[Free].code = "none"
         /\ toServer' = Append(toServer, Free) /\ toServer' \in Seq(Reqs)
<1>1. req \in [Reqs -> Request] /\ toServer \in Seq(Reqs)
  BY DEF RpcTypeOK, PipesTyped
<1>2. Free \in Reqs /\ req[Free].m = "none"
  BY FreeIsUnused DEF Sent
<1> DEFINE new == [NoReq EXCEPT !.m = m, !.run = r, !.n = n, !.c = "pending", !.s = "wire"]
<1>3. /\ new \in Request
      /\ new.m = m /\ new.run = r /\ new.n = n /\ new.s = "wire" /\ new.code = "none"
  <2>1. NoReq \in Request
    BY SessionAssumption DEF NoReq, Request, Methods, Codes, Fates, Steps
  <2>2. NoReq.code = "none"
    BY DEF NoReq
  <2> QED BY <2>1, <2>2 DEF Request, Fates, Steps
<1>4. PICK f \in Reqs : f = Free
  BY <1>2
<1>5. req' = [req EXCEPT ![f] = new]
  BY <1>4, Zenon DEF Sent
<1> HIDE DEF new
<1>6. req' \in [Reqs -> Request] /\ Elsewhere(f)
  BY <1>1, <1>3, <1>5 DEF Elsewhere, Same
<1>7. /\ req'[f].m = m /\ req'[f].run = r /\ req'[f].n = n
      /\ req'[f].s = "wire" /\ req'[f].code = "none"
  BY <1>1, <1>3, <1>5
<1>8. toServer' = Append(toServer, Free) /\ toServer' \in Seq(Reqs)
  BY <1>1, <1>2, Appended DEF Sent
<1> QED BY <1>2, <1>4, <1>6, <1>7, <1>8

(* The fate of a request at the client is no part of what is proved.       *)
LEMMA FateEffect ==
  ASSUME PipesTyped, NEW f \in [Reqs -> Fates], req' = [q \in Reqs |-> [req[q] EXCEPT !.c = f[q]]]
  PROVE  req' \in [Reqs -> Request] /\ \A q \in Reqs : Same(q)
<1>1. req \in [Reqs -> Request]
  BY DEF PipesTyped
<1> QED BY <1>1 DEF Request, Same

-----------------------------------------------------------------------------
(* Steps that leave a part of the invariant alone.                         *)

Quiet == \A q \in Reqs : Same(q)

(* close() sets its flag in a Host that stays the same otherwise.          *)
HostKept ==
  /\ host'.task = host.task /\ host'.future = host.future /\ host'.active = host.active
  /\ host'.last = host.last /\ host'.lastSeq = host.lastSeq /\ host'.acked = host.acked
  /\ host'.wiped = host.wiped /\ host'.callbacks = host.callbacks /\ host'.ready = host.ready

(* The log only grows.                                                     *)
Grows == Len(log) <= Len(log') /\ \A n \in 1 .. Len(log) : log'[n] = log[n]

GrowsQuietly == Grows /\ \A n \in 1 .. Len(log') : log'[n].type = "start" => n <= Len(log)

LEMMA UnchangedGrows ==
  ASSUME StreamTyped, UNCHANGED log
  PROVE  GrowsQuietly
  BY DEF StreamTyped, GrowsQuietly, Grows

LEMMA StartsStay ==
  ASSUME StreamTyped, StreamTyped', Grows, NEW n, NEW r, Starts(n, r)
  PROVE  Starts(n, r)'
<1>1. Len(log) \in Nat /\ Len(log') \in Nat
  BY DEF StreamTyped
<1> QED BY <1>1 DEF Starts, Grows

LEMMA NoNewStarts ==
  ASSUME StreamTyped, StreamTyped', GrowsQuietly, NEW n, NEW r, Starts(n, r)'
  PROVE  Starts(n, r)
<1>1. Len(log) \in Nat /\ Len(log') \in Nat
  BY DEF StreamTyped
<1> QED BY <1>1 DEF Starts, Grows, GrowsQuietly

LEMMA PublishEffect ==
  ASSUME StreamTyped, NEW r \in Runs, NEW type \in {"start", "mid", "confirm", "end"},
         NEW onLoop \in BOOLEAN, Publish(r, type, onLoop)
  PROVE  /\ log' \in Seq(Event) /\ Len(log') = Len(log) + 1 /\ Grows
         /\ log'[Len(log) + 1].type = type /\ log'[Len(log) + 1].run = r
         /\ type # "start" => GrowsQuietly
<1>1. log \in Seq(Event) /\ Len(log) \in Nat
  BY DEF StreamTyped
<1> DEFINE e == [type |-> type, run |-> r]
<1>2. e \in Event /\ e.type = type /\ e.run = r
  BY DEF Event
<1>3. log' = Append(log, e)
  BY DEF Publish
<1> HIDE DEF e
<1>4. /\ log' \in Seq(Event) /\ Len(log') = Len(log) + 1
      /\ \A n \in 1 .. Len(log) : log'[n] = log[n]
      /\ log'[Len(log) + 1] = e
  BY <1>1, <1>2, <1>3, Appended
<1>5. Grows
  BY <1>1, <1>4 DEF Grows
<1>6. ASSUME type # "start", NEW n \in 1 .. Len(log'), log'[n].type = "start" PROVE n <= Len(log)
  <2>1. n # Len(log) + 1
    BY <1>2, <1>4, <1>6
  <2> QED BY <1>1, <1>4, <2>1
<1> QED BY <1>2, <1>4, <1>5, <1>6 DEF GrowsQuietly

(* A subscriber that holds no number above n.                              *)
SubFits(s, n) ==
  /\ s \in [reg : BOOLEAN, failed : BOOLEAN, replay : {<<>>}, queue : Seq(Nat), soon : Seq(Nat)]
  /\ \A i \in 1 .. Len(s.queue) : s.queue[i] <= n
  /\ \A i \in 1 .. Len(s.soon) : s.soon[i] <= n

LEMMA AppendFits ==
  ASSUME NEW s \in Seq(Nat), NEW n \in Nat, NEW m \in Nat, n <= m, NEW v \in Nat, v <= m,
         \A i \in 1 .. Len(s) : s[i] <= n
  PROVE  Append(s, v) \in Seq(Nat) /\ \A i \in 1 .. Len(Append(s, v)) : Append(s, v)[i] <= m
<1>1. /\ Append(s, v) \in Seq(Nat) /\ Len(Append(s, v)) = Len(s) + 1 /\ Len(s) \in Nat
      /\ \A i \in 1 .. Len(s) : Append(s, v)[i] = s[i] /\ s[i] \in Nat
      /\ Append(s, v)[Len(s) + 1] = v
  BY Appended
<1>2. ASSUME NEW i \in 1 .. Len(s) + 1 PROVE Append(s, v)[i] <= m
  <2>1. CASE i \in 1 .. Len(s)
    BY <1>1, <2>1
  <2>2. CASE i = Len(s) + 1
    BY <1>1, <2>2
  <2> QED BY <1>1, <2>1, <2>2
<1> QED BY <1>1, <1>2

LEMMA RaiseFits ==
  ASSUME NEW s \in Seq(Nat), NEW n \in Nat, NEW m \in Nat, n <= m, \A i \in 1 .. Len(s) : s[i] <= n
  PROVE  \A i \in 1 .. Len(s) : s[i] <= m
<1>1. \A i \in 1 .. Len(s) : s[i] \in Nat
  OBVIOUS
<1> QED BY <1>1

LEMMA PutNowaitFits ==
  ASSUME NEW s, NEW n \in Nat, SubFits(s, n), NEW v \in Nat, NEW m \in Nat, n <= m, v <= m
  PROVE  SubFits(PutNowait(s, v), m)
<1>1. /\ s \in [reg : BOOLEAN, failed : BOOLEAN, replay : {<<>>}, queue : Seq(Nat), soon : Seq(Nat)]
      /\ s.queue \in Seq(Nat) /\ s.soon \in Seq(Nat)
      /\ \A i \in 1 .. Len(s.queue) : s.queue[i] <= n
      /\ \A i \in 1 .. Len(s.soon) : s.soon[i] <= n
  BY DEF SubFits
<1>2. \A i \in 1 .. Len(s.soon) : s.soon[i] <= m
  BY <1>1, RaiseFits
<1>3. CASE Len(s.queue) < QueueCapacity
  <2>1. PutNowait(s, v) = [s EXCEPT !.queue = Append(s.queue, v)]
    BY <1>3 DEF PutNowait
  <2>2. /\ Append(s.queue, v) \in Seq(Nat)
        /\ \A i \in 1 .. Len(Append(s.queue, v)) : Append(s.queue, v)[i] <= m
    BY <1>1, AppendFits
  <2> QED BY <1>1, <1>2, <2>1, <2>2 DEF SubFits
<1>4. CASE ~(Len(s.queue) < QueueCapacity)
  <2>1. PutNowait(s, v) = [s EXCEPT !.failed = TRUE, !.reg = FALSE]
    BY <1>4 DEF PutNowait
  <2>2. \A i \in 1 .. Len(s.queue) : s.queue[i] <= m
    BY <1>1, RaiseFits
  <2> QED BY <1>1, <1>2, <2>1, <2>2 DEF SubFits
<1> QED BY <1>3, <1>4

LEMMA PutFits ==
  ASSUME NEW s, NEW n \in Nat, SubFits(s, n), NEW v \in Nat, NEW m \in Nat, n <= m, v <= m,
         NEW onLoop \in BOOLEAN
  PROVE  SubFits(Put(s, v, onLoop), m)
<1>1. /\ s \in [reg : BOOLEAN, failed : BOOLEAN, replay : {<<>>}, queue : Seq(Nat), soon : Seq(Nat)]
      /\ s.queue \in Seq(Nat) /\ s.soon \in Seq(Nat)
      /\ \A i \in 1 .. Len(s.queue) : s.queue[i] <= n
      /\ \A i \in 1 .. Len(s.soon) : s.soon[i] <= n
  BY DEF SubFits
<1>2. \A i \in 1 .. Len(s.queue) : s.queue[i] <= m
  BY <1>1, RaiseFits
<1>3. CASE ~s.reg
  <2>1. Put(s, v, onLoop) = s /\ \A i \in 1 .. Len(s.soon) : s.soon[i] <= m
    BY <1>1, <1>3, RaiseFits DEF Put
  <2> QED BY <1>1, <1>2, <2>1 DEF SubFits
<1>4. CASE s.reg /\ onLoop
  BY <1>4, PutNowaitFits DEF Put
<1>5. CASE s.reg /\ ~onLoop
  <2>1. Put(s, v, onLoop) = [s EXCEPT !.soon = Append(s.soon, v)]
    BY <1>5 DEF Put
  <2>2. /\ Append(s.soon, v) \in Seq(Nat)
        /\ \A i \in 1 .. Len(Append(s.soon, v)) : Append(s.soon, v)[i] <= m
    BY <1>1, AppendFits
  <2> QED BY <1>1, <1>2, <2>1, <2>2 DEF SubFits
<1> QED BY <1>1, <1>3, <1>4, <1>5

LEMMA RunScheduledFits ==
  ASSUME NEW s, NEW n \in Nat, SubFits(s, n), s.soon # <<>>
  PROVE  SubFits(RunScheduled(s), n)
<1>1. /\ s \in [reg : BOOLEAN, failed : BOOLEAN, replay : {<<>>}, queue : Seq(Nat), soon : Seq(Nat)]
      /\ s.soon \in Seq(Nat) /\ \A i \in 1 .. Len(s.soon) : s.soon[i] <= n
  BY DEF SubFits
<1>2. /\ Head(s.soon) \in Nat /\ Head(s.soon) = s.soon[1] /\ Len(s.soon) \in Nat \ {0}
      /\ Tail(s.soon) \in Seq(Nat) /\ Len(Tail(s.soon)) = Len(s.soon) - 1
      /\ \A i \in 1 .. Len(s.soon) - 1 : Tail(s.soon)[i] = s.soon[i + 1]
  BY <1>1, Shortened
<1> DEFINE rest == [s EXCEPT !.soon = Tail(s.soon)]
<1>3. /\ rest \in [reg : BOOLEAN, failed : BOOLEAN, replay : {<<>>}, queue : Seq(Nat), soon : Seq(Nat)]
      /\ rest.queue = s.queue /\ rest.soon = Tail(s.soon)
  BY <1>1, <1>2
<1> HIDE DEF rest
<1>4. \A i \in 1 .. Len(s.soon) - 1 : i + 1 \in 1 .. Len(s.soon)
  BY <1>2
<1>5. SubFits(rest, n)
  BY <1>1, <1>2, <1>3, <1>4 DEF SubFits
<1>6. Head(s.soon) <= n
  BY <1>1, <1>2
<1>7. SubFits(PutNowait(rest, Head(s.soon)), n)
  BY <1>2, <1>5, <1>6, PutNowaitFits
<1>8. RunScheduled(s) = PutNowait(rest, Head(s.soon))
  BY DEF RunScheduled, rest
<1> QED BY <1>7, <1>8

LEMMA CloseFits ==
  ASSUME NEW s, NEW n \in Nat, SubFits(s, n)
  PROVE  SubFits(CloseSubscriber(s), n)
<1>1. SubFits(Put(s, CloseMark, TRUE), n)
  <2>1. CloseMark \in Nat /\ CloseMark <= n /\ n <= n /\ TRUE \in BOOLEAN
    BY DEF CloseMark
  <2> QED BY <2>1, PutFits
<1> DEFINE p == Put(s, CloseMark, TRUE)
<1>2. SubFits(p, n) /\ CloseSubscriber(s) = [p EXCEPT !.reg = FALSE]
  BY <1>1 DEF CloseSubscriber
<1> HIDE DEF p
<1> QED BY <1>2 DEF SubFits

(* What the Host and its requests look like is not touched by a step that  *)
(* answers, takes and sends no request and moves no Run.                   *)
HostSide == Wire /\ OneRun /\ Started /\ StartsAnswered /\ Bound

LEMMA Undisturbed ==
  ASSUME RpcTypeOK, RpcTypeOK', HostSide, Quiet, HostKept, GrowsQuietly,
         UNCHANGED <<scope, task, toServer>>
  PROVE  HostSide'
<1>1. /\ StreamTyped /\ StreamTyped' /\ RunsTyped /\ HostTyped /\ PipesTyped
      /\ Wire /\ OneRun /\ Started /\ StartsAnswered /\ Bound
  BY DEF RpcTypeOK, HostSide
<1>2. \A n, r : Starts(n, r) <=> Starts(n, r)'
  BY <1>1, StartsStay, NoNewStarts DEF GrowsQuietly
<1>3. Wire'
  <2>1. /\ \A i \in 1 .. Len(toServer) : toServer[i] \in Reqs
        /\ \A q \in host.ready : q \in Reqs
    BY <1>1 DEF PipesTyped, HostTyped
  <2> QED BY <1>1, <2>1 DEF Wire, Quiet, Same, HostKept
<1>4. OneRun'
  BY <1>1 DEF OneRun, HostKept
<1>5. Started'
  <2>1. \A n \in 1 .. Len(log') : \A r \in Runs : Starts(n, r)' =>
          task'[r] \in {"running", "tail", "done"} /\ (r \in host'.acked \/ r \in host'.wiped)
    <3> SUFFICES ASSUME NEW n \in 1 .. Len(log'), NEW r \in Runs, Starts(n, r)'
                 PROVE  task'[r] \in {"running", "tail", "done"} /\ (r \in host'.acked \/ r \in host'.wiped)
      OBVIOUS
    <3>1. Starts(n, r) /\ n \in 1 .. Len(log)
      BY <1>2 DEF Starts
    <3> QED BY <1>1, <3>1 DEF Started, HostKept
  <2>2. host'.last # 0 => Starts(host.lastSeq, host.last)'
    <3>1. host'.last = host.last /\ host'.lastSeq = host.lastSeq
      BY DEF HostKept
    <3>2. host.last # 0 => Starts(host.lastSeq, host.last)
      BY <1>1, Zenon DEF Started
    <3>3. PICK n, x : n = host.lastSeq /\ x = host.last
      OBVIOUS
    <3>4. x # 0 => Starts(n, x)'
      BY <1>2, <3>2, <3>3, Zenon
    <3> QED BY <3>1, <3>3, <3>4, Zenon DEF Starts
  <2> QED BY <2>1, <2>2 DEF Started
<1>6. StartsAnswered'
  <2> SUFFICES ASSUME NEW q \in Reqs, req'[q].m = "start"
               PROVE  /\ req'[q].s = "wait" => /\ req'[q].run \in Runs /\ task'[req'[q].run] # "none"
                                               /\ req'[q].run \in host'.acked => host'.last = req'[q].run
                      /\ req'[q].code = "ok" => /\ req'[q].run \in Runs
                                                /\ proto' = 2 => Starts(req[q].n, req[q].run)'
                      /\ req'[q].code = "run_start_failed" =>
                           /\ req'[q].run \in Runs /\ task'[req'[q].run] = "done"
                           /\ NeverStarted(req[q].run)' \/ req'[q].run \in host'.wiped
    BY DEF StartsAnswered
  <2>1. Same(q)
    BY DEF Quiet
  <2>2. proto' = proto
    BY DEF proto
  <2>3. NeverStarted(req[q].run) => NeverStarted(req[q].run)'
    BY <1>2, <2>1 DEF NeverStarted, Same, Starts
  <2>4. Starts(req[q].n, req[q].run) => Starts(req[q].n, req[q].run)'
    BY <1>2, <2>1 DEF Starts, Same
  <2> QED BY <1>1, <2>1, <2>2, <2>3, <2>4 DEF StartsAnswered, Same, HostKept
<1>7. Bound'
  BY <1>1 DEF Bound, Quiet, Same, HostKept, proto
<1> QED BY <1>3, <1>4, <1>5, <1>6, <1>7 DEF HostSide

(* One request moves on: the server takes it from the wire, or its handler *)
(* stops at an await or answers.                                           *)
Moves(q) == /\ Elsewhere(q) /\ req'[q].m = req[q].m /\ req'[q].run = req[q].run

(* A handler that stands at its first await or behind it moves on.         *)
Handles1(q) ==
  /\ Elsewhere(q) /\ req'[q].m = req[q].m
  /\ req[q].s \in {"invoke", "wait"} /\ req'[q].s \in {"wait", "written"}
  /\ req'[q].s = "wait" => /\ req'[q].m \in {"start", "abort", "shutdown"}
                           /\ req'[q].code = "none"
                           /\ req'[q].m # "start" => req'[q].n \in 0 .. MaxRuns

LEMMA HandledWire ==
  ASSUME RpcTypeOK, RpcTypeOK', Wire, NEW q \in Reqs, Handles1(q),
         UNCHANGED toServer, host'.ready = host.ready
  PROVE  Wire'
<1>1. /\ \A i \in 1 .. Len(toServer) : toServer[i] \in Reqs
      /\ \A p \in host.ready : p \in Reqs
  BY SMTT(30) DEF RpcTypeOK, PipesTyped, HostTyped
<1>2. \A i \in 1 .. Len(toServer) : toServer[i] # q
  BY DEF Wire, Handles1
<1> QED BY <1>1, <1>2 DEF Wire, Handles1, Moves, Elsewhere, Same

(* The head of the wire is taken while no handler stands before its first  *)
(* await.                                                                  *)
LEMMA TakenWire ==
  ASSUME RpcTypeOK, RpcTypeOK', Wire, NEW q \in Reqs, Moves(q), toServer # <<>>, q = Head(toServer),
         At("invoke") = {}, toServer' = Tail(toServer), UNCHANGED host,
         req'[q].s \in {"invoke", "written"}, req'[q].s = "invoke" => req'[q].code = "none"
  PROVE  Wire'
<1>1. /\ toServer \in Seq(Reqs) /\ \A p \in host.ready : p \in Reqs
  BY DEF RpcTypeOK, PipesTyped, HostTyped
<1>2. /\ q = toServer[1] /\ Len(toServer) \in Nat \ {0} /\ Len(toServer') = Len(toServer) - 1
      /\ \A i \in 1 .. Len(toServer) - 1 : toServer'[i] = toServer[i + 1]
  BY <1>1, Shortened
<1>3. req[q].s = "wire"
  BY <1>2 DEF Wire
<1>4. \A p \in Reqs : req[p].s # "invoke"
  BY DEF At, Used, Wire
<1>5. \A i \in 1 .. Len(toServer') : toServer'[i] \in Reqs /\ toServer'[i] # q /\ req[toServer'[i]].s = "wire"
  <2> SUFFICES ASSUME NEW i \in 1 .. Len(toServer')
               PROVE  toServer'[i] \in Reqs /\ toServer'[i] # q /\ req[toServer'[i]].s = "wire"
    OBVIOUS
  <2>1. i + 1 \in 1 .. Len(toServer) /\ i + 1 # 1 /\ toServer'[i] = toServer[i + 1] /\ 1 \in 1 .. Len(toServer)
    BY <1>2
  <2> QED BY <1>1, <1>2, <2>1 DEF Wire
<1>6. \A i, j \in 1 .. Len(toServer') : toServer'[i] = toServer'[j] => i = j
  <2> SUFFICES ASSUME NEW i \in 1 .. Len(toServer'), NEW j \in 1 .. Len(toServer'), toServer'[i] = toServer'[j]
               PROVE  i = j
    OBVIOUS
  <2>1. /\ i + 1 \in 1 .. Len(toServer) /\ j + 1 \in 1 .. Len(toServer)
        /\ toServer[i + 1] = toServer[j + 1]
    BY <1>2
  <2>2. i + 1 = j + 1
    BY <2>1 DEF Wire
  <2> QED BY <2>2
<1> QED
  BY SMTT(30), <1>1, <1>3, <1>4, <1>5, <1>6 DEF Wire, Moves, Elsewhere, Same

(* The rest of the Host's side, for a request that is not a run.start or   *)
(* is answered as StartsAnswered wants it.                                 *)
StartMoves(q) ==
  req[q].m = "start" =>
    /\ req'[q].s # "wait"
    /\ req'[q].code = "ok" => req[q].run \in Runs /\ (proto = 2 => Starts(req'[q].n, req[q].run))
    /\ req'[q].code = "run_start_failed" =>
         /\ req[q].run \in Runs /\ task[req[q].run] = "done"
         /\ NeverStarted(req[q].run) \/ req[q].run \in host.wiped

BoundMoves(q) ==
  /\ proto = 2 /\ req[q].m \in {"steer", "abort"} /\ req'[q].n # 0
       /\ (req'[q].s = "wait" \/ req'[q].code = "ok") => req'[q].n = req[q].run
  /\ req'[q].s = "invoke" => q \notin host.ready

LEMMA MovesKeep ==
  ASSUME RpcTypeOK, RpcTypeOK', HostSide, NEW q \in Reqs, Moves(q), StartMoves(q), BoundMoves(q),
         HostKept, UNCHANGED <<scope, task, log>>
  PROVE  OneRun' /\ Started' /\ StartsAnswered' /\ Bound'
<1>1. /\ OneRun /\ Started /\ StartsAnswered /\ Bound
      /\ req'[q].m = req[q].m /\ req'[q].run = req[q].run /\ Elsewhere(q)
  BY DEF HostSide, Moves
<1>2. \A n, r : Starts(n, r) <=> Starts(n, r)'
  BY DEF Starts
<1>3. proto' = proto
  BY DEF proto
<1>4. OneRun'
  BY <1>1 DEF OneRun, HostKept
<1>5. Started'
  BY <1>1, <1>2 DEF Started, HostKept, Starts
<1>6. StartsAnswered'
  <2> SUFFICES ASSUME NEW p \in Reqs, req'[p].m = "start"
               PROVE  /\ req'[p].s = "wait" => /\ req'[p].run \in Runs /\ task'[req'[p].run] # "none"
                                               /\ req'[p].run \in host'.acked => host'.last = req'[p].run
                      /\ req'[p].code = "ok" => /\ req'[p].run \in Runs
                                                /\ proto' = 2 => Starts(req[p].n, req[p].run)'
                      /\ req'[p].code = "run_start_failed" =>
                           /\ req'[p].run \in Runs /\ task'[req'[p].run] = "done"
                           /\ NeverStarted(req[p].run)' \/ req'[p].run \in host'.wiped
    BY DEF StartsAnswered
  <2>1. CASE p = q
    BY <1>1, <1>3, <2>1 DEF StartMoves, NeverStarted, Starts, HostKept
  <2>2. CASE p # q
    <3>1. Same(p)
      BY <2>2, <1>1 DEF Elsewhere
    <3> QED BY <1>1, <1>3, <3>1 DEF StartsAnswered, NeverStarted, Starts, Same, HostKept
  <2> QED BY <2>1, <2>2
<1>7. Bound'
  BY <1>1, <1>3 DEF Bound, BoundMoves, Elsewhere, Same, HostKept
<1> QED BY <1>4, <1>5, <1>6, <1>7

(* A new request on the wire.                                              *)
LEMMA SentKeeps ==
  ASSUME RpcTypeOK, RpcTypeOK', HostSide, NEW q \in Reqs, req[q].m = "none", Elsewhere(q),
         req'[q].m # "none", req'[q].s = "wire", req'[q].code = "none",
         req'[q].m \in {"steer", "abort", "list", "respond"} => req'[q].run \in Runs,
         toServer' = Append(toServer, q), UNCHANGED <<scope, task, log, host>>
  PROVE  HostSide'
<1>1. /\ Wire /\ OneRun /\ Started /\ StartsAnswered /\ Bound
      /\ req[q].s = "none" /\ toServer \in Seq(Reqs) /\ \A p \in host.ready : p \in Reqs
  BY DEF HostSide, Wire, RpcTypeOK, PipesTyped, HostTyped
<1>2. /\ Len(toServer') = Len(toServer) + 1 /\ toServer'[Len(toServer) + 1] = q
      /\ \A i \in 1 .. Len(toServer) : toServer'[i] = toServer[i]
      /\ Len(toServer) \in Nat
  BY <1>1, Appended
<1>3. \A i \in 1 .. Len(toServer) : toServer[i] \in Reqs /\ toServer[i] # q /\ req[toServer[i]].s = "wire"
  BY <1>1 DEF Wire
<1>4. proto' = proto
  BY DEF proto
<1>5. Wire'
  <2>1. \A i \in 1 .. Len(toServer') : req'[toServer'[i]].s = "wire"
    <3> SUFFICES ASSUME NEW i \in 1 .. Len(toServer') PROVE req'[toServer'[i]].s = "wire"
      OBVIOUS
    <3>1. CASE i = Len(toServer) + 1
      BY <1>2, <3>1
    <3>2. CASE i \in 1 .. Len(toServer)
      BY <1>2, <1>3, <3>2 DEF Elsewhere, Same
    <3> QED BY <1>2, <3>1, <3>2
  <2>2. \A i, j \in 1 .. Len(toServer') : toServer'[i] = toServer'[j] => i = j
    <3> SUFFICES ASSUME NEW i \in 1 .. Len(toServer'), NEW j \in 1 .. Len(toServer'), toServer'[i] = toServer'[j]
                 PROVE  i = j
      OBVIOUS
    <3>1. CASE i \in 1 .. Len(toServer) /\ j \in 1 .. Len(toServer)
      BY <1>1, <1>2, <3>1 DEF Wire
    <3>2. CASE i = Len(toServer) + 1 \/ j = Len(toServer) + 1
      BY <1>2, <1>3, <3>2
    <3> QED BY <1>2, <3>1, <3>2
  <2> QED BY <1>1, <2>1, <2>2 DEF Wire, Elsewhere, Same
<1>6. OneRun' /\ Started'
  BY <1>1 DEF OneRun, Started, Starts
<1>7. StartsAnswered'
  BY <1>1, <1>4 DEF StartsAnswered, NeverStarted, Starts, Elsewhere, Same
<1>8. Bound'
  BY <1>1, <1>4 DEF Bound, Elsewhere, Same
<1> QED BY <1>5, <1>6, <1>7, <1>8 DEF HostSide

-----------------------------------------------------------------------------
(* The client's side and the end of the session, in a step that shows      *)
(* nothing and hands nothing over.                                         *)
ClientSide == Transit /\ History /\ Handles

RpcInvParts == RpcTypeOK /\ HostSide /\ Finishing /\ ClientSide

LEMMA Parts == RpcInv <=> RpcInvParts
  BY Zenon DEF RpcInv, RpcInvParts, HostSide, ClientSide

PipeOf(s) == \A i \in 1 .. Len(s) : s[i].n \in IF s[i].k = "event" THEN 1 .. Len(log) ELSE Reqs

PipeMoves ==
  \/ toClient' = toClient
  \/ toClient # <<>> /\ toClient' = Tail(toClient)
  \/ \E e \in [k : {"event", "response"}, n : Nat] :
       /\ toClient' = Append(toClient, e)
       /\ e.n \in IF e.k = "event" THEN 1 .. Len(log) ELSE Reqs

LEMMA PipeKept ==
  ASSUME RpcTypeOK, RpcTypeOK', Grows, PipeOf(toClient), PipeMoves
  PROVE  \A i \in 1 .. Len(toClient') :
           toClient'[i].n \in IF toClient'[i].k = "event" THEN 1 .. Len(log') ELSE Reqs
<1>1. /\ toClient \in Seq([k : {"event", "response"}, n : Nat]) /\ Len(toClient) \in Nat
      /\ Len(log) \in Nat /\ Len(log') \in Nat /\ Len(log) <= Len(log')
  BY DEF RpcTypeOK, PipesTyped, StreamTyped, Grows
<1>2. \A i \in 1 .. Len(toClient) :
        toClient[i].n \in IF toClient[i].k = "event" THEN 1 .. Len(log') ELSE Reqs
  BY <1>1 DEF PipeOf
<1>3. CASE toClient' = toClient
  BY <1>2, <1>3
<1>4. CASE toClient # <<>> /\ toClient' = Tail(toClient)
  <2>1. /\ Len(toClient') = Len(toClient) - 1
        /\ \A i \in 1 .. Len(toClient) - 1 : toClient'[i] = toClient[i + 1]
    BY <1>1, <1>4, Shortened
  <2>2. \A i \in 1 .. Len(toClient') : i + 1 \in 1 .. Len(toClient) /\ toClient'[i] = toClient[i + 1]
    BY <1>1, <2>1
  <2> QED BY <1>2, <2>2
<1>5. ASSUME NEW e \in [k : {"event", "response"}, n : Nat], toClient' = Append(toClient, e),
             e.n \in IF e.k = "event" THEN 1 .. Len(log) ELSE Reqs
      PROVE  \A i \in 1 .. Len(toClient') :
               toClient'[i].n \in IF toClient'[i].k = "event" THEN 1 .. Len(log') ELSE Reqs
  <2>1. /\ Len(toClient') = Len(toClient) + 1 /\ toClient'[Len(toClient) + 1] = e
        /\ \A i \in 1 .. Len(toClient) : toClient'[i] = toClient[i]
    BY <1>1, <1>5, Appended
  <2>2. e.n \in IF e.k = "event" THEN 1 .. Len(log') ELSE Reqs
    BY <1>1, <1>5
  <2>3. \A i \in 1 .. Len(toClient') : i \in 1 .. Len(toClient) \/ i = Len(toClient) + 1
    BY <1>1, <2>1
  <2> QED BY <1>2, <2>1, <2>2, <2>3
<1> QED BY <1>3, <1>4, <1>5 DEF PipeMoves

ReplaysKept ==
  /\ \A q \in Reqs : req[q].m = "replay" => req'[q].m = "replay"
  /\ \A q \in Reqs : req'[q].m = "replay" /\ req'[q].code = "ok" => req'[q].n \in 0 .. Len(log')

LEMMA QuietReplays ==
  ASSUME RpcTypeOK, RpcTypeOK', Handles, Grows, Quiet
  PROVE  ReplaysKept
<1>1. Len(log) \in Nat /\ Len(log') \in Nat /\ Len(log) <= Len(log')
  BY DEF RpcTypeOK, StreamTyped, Grows
<1> QED BY <1>1 DEF ReplaysKept, Handles, Quiet, Same

LEMMA MovedReplays ==
  ASSUME RpcTypeOK, Handles, UNCHANGED log, NEW q \in Reqs, Elsewhere(q),
         req[q].m = "replay" => req'[q].m = "replay",
         req'[q].m = "replay" /\ req'[q].code = "ok" => req'[q].n \in 0 .. Len(log)
  PROVE  ReplaysKept
  BY DEF ReplaysKept, Handles, Elsewhere, Same

(* the handles, when the log grows and no handle moves                     *)
LEMMA HandlesKept ==
  ASSUME RpcTypeOK, RpcTypeOK', Handles, Grows, ReplaysKept, UNCHANGED <<handle, shown>>
  PROVE  Handles'
<1>1. StreamTyped /\ StreamTyped'
  BY DEF RpcTypeOK
<1>2. \A r \in Runs : Starts(handle[r].seq + 1, r) => Starts(handle[r].seq + 1, r)'
  BY <1>1, StartsStay
<1>3. \A r \in Runs : handle[r].st \in {"replay", "live"} =>
          IF shown[r] = <<>> THEN Starts(handle[r].seq + 1, r)'
          ELSE shown[r][Len(shown[r])] = handle[r].seq
  BY <1>2 DEF Handles
<1>4. \A r \in Runs : handle[r].st = "replay" =>
          shown[r] = <<>> /\ handle[r].q \in Reqs /\ req'[handle[r].q].m = "replay"
  BY DEF Handles, ReplaysKept
<1> QED BY <1>3, <1>4 DEF Handles, ReplaysKept, Starts

LEMMA LoggedKept ==
  ASSUME NEW s \in Seq(Nat), Logged(s), RpcTypeOK, RpcTypeOK', Grows
  PROVE  \A i \in 1 .. Len(s) : s[i] \in 1 .. Len(log')
<1>1. Len(log) \in Nat /\ Len(log') \in Nat /\ Len(log) <= Len(log')
  BY DEF RpcTypeOK, StreamTyped, Grows
<1> QED BY <1>1 DEF Logged

LEMMA ClientKept ==
  ASSUME RpcTypeOK, RpcTypeOK', ClientSide, Grows, SubLogged(Len(log))', PipeMoves, ReplaysKept,
         UNCHANGED <<handle, shown>>, cl'.inbound = cl.inbound, cl'.history = cl.history,
         cl.history # <<>> => cl'.last = cl.last, cl'.st = "new" => cl.st = "new"
  PROVE  ClientSide'
<1>1. /\ Transit /\ History /\ Handles
      /\ cl.inbound \in Seq(Nat) /\ cl.history \in Seq(Nat)
  BY DEF ClientSide, RpcTypeOK, ClientTyped
<1>2. Handles'
  BY <1>1, HandlesKept
<1>3. \A i \in 1 .. Len(toClient') :
        toClient'[i].n \in IF toClient'[i].k = "event" THEN 1 .. Len(log') ELSE Reqs
  BY <1>1, PipeKept DEF Transit, PipeOf
<1>4. /\ \A i \in 1 .. Len(cl.inbound) : cl.inbound[i] \in 1 .. Len(log')
      /\ \A i \in 1 .. Len(cl.history) : cl.history[i] \in 1 .. Len(log')
  BY <1>1, LoggedKept DEF Transit, History
<1>5. Transit'
  BY <1>3, <1>4 DEF Transit, Logged
<1>6. History'
  BY <1>1, <1>4 DEF History, Logged, Consecutive
<1> QED BY <1>2, <1>5, <1>6 DEF ClientSide

(* a subscriber that is left alone                                         *)
LEMMA SubKept ==
  ASSUME RpcTypeOK, RpcTypeOK', ClientSide, Grows, UNCHANGED sub
  PROVE  SubLogged(Len(log))'
<1>1. Len(log) \in Nat /\ Len(log') \in Nat /\ Len(log) <= Len(log')
  BY DEF RpcTypeOK, StreamTyped, Grows
<1>2. /\ \A i \in 1 .. Len(sub.queue) : sub.queue[i] \in Nat
      /\ \A i \in 1 .. Len(sub.soon) : sub.soon[i] \in Nat
  BY DEF RpcTypeOK, StreamTyped, SubTyped
<1> QED BY <1>1, <1>2 DEF ClientSide, Transit, SubLogged

(* the end of the session                                                  *)
LEMMA FinishingKept ==
  ASSUME Finishing, host'.closed = host.closed, UNCHANGED cutShort,
         link' = link \/ (link = "open" /\ link' = "dead"),
         harnessClosed => harnessClosed', streamClosed => streamClosed',
         ShutdownWaits => ShutdownWaits' \/ BothClosed'
  PROVE  Finishing'
  BY DEF Finishing, BothClosed

LEMMA QuietWaits ==
  ASSUME Quiet, ShutdownWaits
  PROVE  ShutdownWaits'
  BY DEF Quiet, Same, ShutdownWaits

-----------------------------------------------------------------------------
(* The server's steps.  A handler is reached when it stands at an await,   *)
(* or is a line that the reader takes.                                     *)
Reached(q) ==
  \/ req[q].s \in {"invoke", "wait"} /\ UNCHANGED toServer
  \/ toServer # <<>> /\ q = Head(toServer) /\ At("invoke") = {} /\ toServer' = Tail(toServer)

(* What the answer of a handler may say.                                   *)
AnswerFits(q, code, n) ==
  /\ req[q].m = "start" =>
       /\ code = "ok" => req[q].run \in Runs /\ (proto = 2 => Starts(n, req[q].run))
       /\ code = "run_start_failed" =>
            /\ req[q].run \in Runs /\ task[req[q].run] = "done"
            /\ NeverStarted(req[q].run) \/ req[q].run \in host.wiped
  /\ proto = 2 /\ req[q].m \in {"steer", "abort"} /\ n # 0 /\ code = "ok" => n = req[q].run
  /\ req[q].m = "replay" /\ code = "ok" => n \in 0 .. Len(log)
  /\ req[q].m = "shutdown" /\ req[q].s = "wait" => BothClosed'

LEMMA AnswerKeeps ==
  ASSUME RpcInv, NEW q \in Reqs, NEW code \in Codes, NEW n \in Int, Answer(q, code, n),
         Reached(q), AnswerFits(q, code, n),
         UNCHANGED <<scope, log, fwd, task, aborted, host, link, eof, cl, handle, shown, cutShort>>,
         conf' \in [Runs -> 0 .. 2], SubTyped', SubLogged(Len(log))',
         streamClosed' \in BOOLEAN, harnessClosed' \in BOOLEAN,
         harnessClosed => harnessClosed', streamClosed => streamClosed',
         srv' \in [initialized : BOOLEAN, initializing : BOOLEAN]
  PROVE  RpcInv'
<1>1. RpcTypeOK /\ HostSide /\ Finishing /\ ClientSide
  BY Parts DEF RpcInvParts
<1>2. /\ req' \in [Reqs -> Request] /\ Elsewhere(q)
      /\ req'[q].m = req[q].m /\ req'[q].run = req[q].run
      /\ req'[q].s = "written" /\ req'[q].code = code /\ req'[q].n = n
      /\ toClient' = Append(toClient, [k |-> "response", n |-> q])
      /\ toClient' \in Seq([k : {"event", "response"}, n : Nat])
  BY <1>1, AnswerEffect DEF RpcTypeOK
<1>3. toServer' \in Seq(Reqs)
  <2>1. toServer \in Seq(Reqs)
    BY <1>1 DEF RpcTypeOK, PipesTyped
  <2> QED BY <2>1, Shortened DEF Reached
<1>4. RpcTypeOK'
  <2>1. StreamTyped' /\ RunsTyped' /\ HostTyped'
    BY <1>1 DEF RpcTypeOK, StreamTyped, RunsTyped, HostTyped, Event
  <2>2. ServerTyped'
    BY <1>1 DEF RpcTypeOK, ServerTyped
  <2>3. PipesTyped'
    BY <1>2, <1>3 DEF PipesTyped
  <2>4. ClientTyped'
    BY <1>1 DEF RpcTypeOK, ClientTyped
  <2> QED BY <2>1, <2>2, <2>3, <2>4 DEF RpcTypeOK
<1>5. Wire'
  <2>1. Wire
    BY <1>1 DEF HostSide
  <2>2. CASE req[q].s \in {"invoke", "wait"} /\ UNCHANGED toServer
    <3>1. Handles1(q)
      BY <1>2, <2>2 DEF Handles1
    <3> QED BY <1>1, <1>4, <2>1, <2>2, <3>1, HandledWire
  <2>3. CASE toServer # <<>> /\ q = Head(toServer) /\ At("invoke") = {} /\ toServer' = Tail(toServer)
    <3>1. Moves(q)
      BY <1>2 DEF Moves
    <3> QED BY <1>1, <1>2, <1>4, <2>1, <2>3, <3>1, TakenWire
  <2> QED BY <2>2, <2>3 DEF Reached
<1>6. Moves(q) /\ StartMoves(q) /\ BoundMoves(q)
  BY <1>2 DEF Moves, StartMoves, BoundMoves, AnswerFits
<1>7. HostKept
  BY DEF HostKept
<1>8. HostSide'
  BY <1>1, <1>4, <1>5, <1>6, <1>7, MovesKeep DEF HostSide
<1>9. Finishing'
  <2>1. ShutdownWaits => ShutdownWaits' \/ BothClosed'
    <3> SUFFICES ASSUME NEW p \in Reqs, req[p].s = "wait", req[p].m = "shutdown"
                 PROVE  ShutdownWaits' \/ BothClosed'
      BY DEF ShutdownWaits
    <3>1. CASE p = q
      BY <3>1 DEF AnswerFits
    <3>2. CASE p # q
      BY <1>2, <3>2 DEF Elsewhere, Same, ShutdownWaits
    <3> QED BY <3>1, <3>2
  <2> QED BY <1>1, <2>1, FinishingKept
<1>10. ClientSide'
  <2>1. Grows
    BY <1>1, UnchangedGrows DEF RpcTypeOK, GrowsQuietly
  <2>2. ReplaysKept
    BY <1>1, <1>2, MovedReplays DEF ClientSide, AnswerFits
  <2>3. PipeMoves
    <3>1. [k |-> "response", n |-> q] \in [k : {"event", "response"}, n : Nat]
      BY DEF Reqs
    <3> QED BY <1>2, <3>1 DEF PipeMoves
  <2> QED BY <1>1, <1>4, <2>1, <2>2, <2>3, ClientKept
<1> QED BY <1>4, <1>8, <1>9, <1>10, Zenon DEF RpcInv, HostSide, ClientSide

(* most handlers answer and change nothing else                            *)
LEMMA HandledKeeps ==
  ASSUME RpcInv, NEW q \in Reqs, NEW code \in Codes, NEW n \in Int, Handled(q, code, n),
         req[q].s \in {"invoke", "wait"}, AnswerFits(q, code, n)
  PROVE  RpcInv'
<1>1. /\ Answer(q, code, n)
      /\ UNCHANGED <<scope, log, streamClosed, sub, fwd, task, aborted, conf, host, harnessClosed,
                     srv, link, toServer, eof, cl, handle, shown, cutShort>>
  BY DEF Handled, stream, runs, client
<1>2. /\ RpcTypeOK /\ SubLogged(Len(log))
  BY DEF RpcInv, Transit
<1>3. /\ conf' \in [Runs -> 0 .. 2] /\ SubTyped' /\ SubLogged(Len(log))'
      /\ streamClosed' \in BOOLEAN /\ harnessClosed' \in BOOLEAN
      /\ srv' \in [initialized : BOOLEAN, initializing : BOOLEAN]
  BY <1>1, <1>2 DEF RpcTypeOK, RunsTyped, StreamTyped, ServerTyped, SubTyped, SubLogged
<1>4. Reached(q)
  BY <1>1 DEF Reached
<1> QED BY <1>1, <1>3, <1>4, AnswerKeeps

LEMMA InitializeKeeps ==
  ASSUME RpcInv, NEW q \in Reqs, Initialize(q)
  PROVE  RpcInv'
<1>1. /\ Answer(q, "ok", Len(log)) /\ req[q].s = "invoke" /\ req[q].m = "initialize"
      /\ srv' = [initialized |-> TRUE, initializing |-> FALSE]
      /\ UNCHANGED <<scope, log, streamClosed, sub, fwd, task, aborted, conf, host, harnessClosed,
                     link, toServer, eof, cl, handle, shown, cutShort>>
  BY DEF Initialize, MayInvoke, stream, runs, client
<1>2. /\ RpcTypeOK /\ SubLogged(Len(log)) /\ Len(log) \in Int
  BY DEF RpcInv, Transit, RpcTypeOK, StreamTyped
<1>3. /\ conf' \in [Runs -> 0 .. 2] /\ SubTyped' /\ SubLogged(Len(log))'
      /\ streamClosed' \in BOOLEAN /\ harnessClosed' \in BOOLEAN
      /\ srv' \in [initialized : BOOLEAN, initializing : BOOLEAN]
  BY <1>1, <1>2 DEF RpcTypeOK, RunsTyped, StreamTyped, ServerTyped, SubTyped, SubLogged
<1>4. Reached(q) /\ AnswerFits(q, "ok", Len(log))
  BY <1>1 DEF Reached, AnswerFits
<1> QED BY <1>1, <1>2, <1>3, <1>4, AnswerKeeps DEF Codes

LEMMA StartRefusedKeeps ==
  ASSUME RpcInv, NEW q \in Reqs, StartRefused(q)
  PROVE  RpcInv'
<1> DEFINE code == IF host.closed THEN "host_closed" ELSE "run_already_active"
<1>1. Handled(q, code, 0) /\ req[q].s = "invoke" /\ code \in {"host_closed", "run_already_active"}
      /\ req[q].m = "start"
  BY DEF StartRefused, MayInvoke
<1> HIDE DEF code
<1>2. AnswerFits(q, code, 0) /\ code \in Codes
  BY <1>1 DEF AnswerFits, Codes
<1> QED BY <1>1, <1>2, HandledKeeps

(* the future was set, or the task is done                                 *)
LEMMA StartReturnsKeeps ==
  ASSUME RpcInv, NEW q \in Reqs, StartReturns(q)
  PROVE  RpcInv'
<1> DEFINE r == req[q].run
<1>1. /\ req[q].s = "wait" /\ req[q].m = "start"
      /\ StartsAnswered /\ Started /\ host.lastSeq \in Int /\ RpcTypeOK
  BY DEF StartReturns, RpcInv, RpcTypeOK, HostTyped
<1>2. r \in Runs /\ task[r] # "none" /\ (r \in host.acked => host.last = r)
  BY <1>1 DEF StartsAnswered
<1>3. CASE r \in host.acked /\ Handled(q, IF proto = 2 /\ host.last # r THEN "run_start_failed" ELSE "ok",
                                       host.lastSeq)
  <2>1. Handled(q, "ok", host.lastSeq)
    BY <1>2, <1>3
  <2>2. Starts(host.lastSeq, r)
    BY <1>1, <1>2, <1>3 DEF Started, Runs
  <2>3. AnswerFits(q, "ok", host.lastSeq)
    BY <1>1, <1>2, <2>2 DEF AnswerFits
  <2> QED BY <1>1, <2>1, <2>3, HandledKeeps DEF Codes
<1>4. CASE r \notin host.acked /\ task[r] = "done" /\ Handled(q, "run_start_failed", 0)
  <2>1. NeverStarted(r) \/ r \in host.wiped
    BY <1>1, <1>2, <1>4 DEF Started, NeverStarted
  <2>2. AnswerFits(q, "run_start_failed", 0)
    BY <1>1, <1>2, <1>4, <2>1 DEF AnswerFits
  <2> QED BY <1>1, <1>4, <2>2, HandledKeeps DEF Codes
<1> QED BY <1>3, <1>4 DEF StartReturns

(* A v2 steer that is accepted reaches the Run that it names.              *)
LEMMA ActiveIsTheTask ==
  ASSUME RpcInv, NEW q \in Reqs, MayInvoke(q), RunActive, host.active # 0
  PROVE  host.task = host.active
<1>1. /\ req[q].s = "invoke" /\ (host.callbacks = {} \/ q \in host.ready)
      /\ Bound /\ OneRun /\ host.active \in Runs
  BY DEF MayInvoke, RpcInv, RpcTypeOK, HostTyped, Runs
<1>2. CASE q \in host.ready
  BY <1>1, <1>2 DEF Bound
<1>3. CASE host.callbacks = {}
  BY <1>1, <1>3 DEF OneRun
<1> QED BY <1>1, <1>2, <1>3

LEMMA SteerKeeps ==
  ASSUME RpcInv, NEW q \in Reqs, Steer(q)
  PROVE  RpcInv'
<1> DEFINE code == CASE ~ActiveRun(q) -> "run_mismatch"
                     [] ActiveRun(q) /\ host.closed -> "host_closed"
                     [] ActiveRun(q) /\ ~host.closed /\ ~RunActive -> "run_not_active"
                     [] OTHER -> IF task[host.task] = "tail" THEN "interaction_closed" ELSE "ok"
<1>1. /\ MayInvoke(q) /\ req[q].s = "invoke" /\ req[q].m = "steer" /\ Handled(q, code, host.task)
      /\ host.task \in Int /\ req[q].run \in Runs
  BY DEF Steer, MayInvoke, RpcInv, RpcTypeOK, HostTyped, Bound
<1>2. /\ code \in {"run_mismatch", "host_closed", "run_not_active", "interaction_closed", "ok"}
      /\ code = "ok" => ActiveRun(q) /\ RunActive
  OBVIOUS
<1> HIDE DEF code
<1>3. ASSUME proto = 2, code = "ok" PROVE host.task = req[q].run
  <2>1. host.active = req[q].run /\ host.active # 0
    BY <1>1, <1>2, <1>3 DEF ActiveRun, Runs
  <2> QED BY <1>1, <1>2, <1>3, <2>1, ActiveIsTheTask
<1>4. AnswerFits(q, code, host.task) /\ code \in Codes
  BY <1>1, <1>2, <1>3 DEF AnswerFits, Codes
<1> QED BY <1>1, <1>4, HandledKeeps

LEMMA AbortAnswersKeep ==
  ASSUME RpcInv, NEW q \in Reqs, AbortRefused(q) \/ AbortReturns(q)
  PROVE  RpcInv'
<1>1. CASE AbortRefused(q)
  <2>1. PICK code \in {"ok", "run_mismatch"} : Handled(q, code, 0)
    BY <1>1 DEF AbortRefused
  <2>2. req[q].s = "invoke" /\ req[q].m = "abort"
    BY <1>1 DEF AbortRefused, MayInvoke
  <2>3. AnswerFits(q, code, 0) /\ code \in Codes
    BY <2>2 DEF AnswerFits, Codes
  <2> QED BY <2>1, <2>2, <2>3, HandledKeeps
<1>2. CASE AbortReturns(q)
  <2>1. /\ req[q].s = "wait" /\ req[q].m = "abort" /\ Handled(q, "ok", req[q].n)
        /\ RpcTypeOK /\ Bound
    BY <1>2 DEF AbortReturns, RpcInv
  <2>2. req[q].n \in Int
    BY <2>1 DEF RpcTypeOK, PipesTyped, Request
  <2>3. AnswerFits(q, "ok", req[q].n)
    BY <2>1 DEF AnswerFits, Bound
  <2> QED BY <2>1, <2>2, <2>3, HandledKeeps DEF Codes
<1> QED BY <1>1, <1>2

LEMMA ConfirmationAnswersKeep ==
  ASSUME RpcInv, NEW q \in Reqs, ListConfirmations(q) \/ RespondConfirmation(q)
  PROVE  RpcInv'
<1>1. req[q].s = "invoke" /\ req[q].m \in {"list", "respond"}
  BY DEF ListConfirmations, RespondConfirmation, MayInvoke
<1>2. /\ RpcTypeOK /\ conf \in [Runs -> 0 .. 2] /\ req[q].run \in Runs /\ SubLogged(Len(log))
  BY <1>1 DEF RpcInv, RpcTypeOK, RunsTyped, Bound, Transit
<1>3. CASE ListConfirmations(q)
  <2>1. PICK code \in {"ok", "unknown_request"} : Handled(q, code, conf[req[q].run])
    BY <1>3 DEF ListConfirmations
  <2>2. AnswerFits(q, code, conf[req[q].run]) /\ code \in Codes
    BY <1>1 DEF AnswerFits, Codes
  <2> QED BY <1>1, <1>2, <2>1, <2>2, HandledKeeps
<1>4. CASE RespondConfirmation(q)
  <2>1. /\ UNCHANGED <<scope, log, streamClosed, sub, fwd, task, aborted, host, harnessClosed, srv,
                       link, toServer, eof, cl, handle, shown, cutShort>>
        /\ conf' = conf \/ conf' = [conf EXCEPT ![req[q].run] = 2]
    BY <1>4 DEF RespondConfirmation, stream, client
  <2>2. PICK code \in {"ok", "duplicate_response"} : Answer(q, code, 2)
    BY <1>4 DEF RespondConfirmation
  <2>3. /\ conf' \in [Runs -> 0 .. 2] /\ SubTyped' /\ SubLogged(Len(log))'
        /\ streamClosed' \in BOOLEAN /\ harnessClosed' \in BOOLEAN
        /\ srv' \in [initialized : BOOLEAN, initializing : BOOLEAN]
    <3>1. conf' \in [Runs -> 0 .. 2]
      BY <1>2, <2>1 DEF RpcTypeOK, RunsTyped
    <3>2. SubTyped' /\ SubLogged(Len(log))' /\ streamClosed' \in BOOLEAN
      BY <1>2, <2>1 DEF RpcTypeOK, StreamTyped, SubTyped, SubLogged
    <3>3. harnessClosed' \in BOOLEAN /\ srv' \in [initialized : BOOLEAN, initializing : BOOLEAN]
      BY <1>2, <2>1 DEF RpcTypeOK, ServerTyped
    <3> QED BY <3>1, <3>2, <3>3
  <2>4. Reached(q) /\ AnswerFits(q, code, 2) /\ code \in Codes
    BY <1>1, <2>1 DEF Reached, AnswerFits, Codes
  <2> QED BY <2>1, <2>2, <2>3, <2>4, AnswerKeeps
<1> QED BY <1>3, <1>4

LEMMA ReplayEventsKeeps ==
  ASSUME RpcInv, NEW q \in Reqs, ReplayEvents(q)
  PROVE  RpcInv'
<1>1. /\ req[q].s = "invoke" /\ req[q].m = "replay" /\ Len(log) \in Nat
  BY DEF ReplayEvents, MayInvoke, RpcInv, RpcTypeOK, StreamTyped
<1>2. PICK code \in {"event_cursor_invalid", "event_stream_closed", "event_cursor_expired", "ok"} :
        Handled(q, code, Len(log))
  BY DEF ReplayEvents
<1>3. AnswerFits(q, code, Len(log)) /\ code \in Codes
  BY <1>1 DEF AnswerFits, Codes
<1> QED BY <1>1, <1>2, <1>3, HandledKeeps

-----------------------------------------------------------------------------
(* the lines of the wire                                                   *)
LEMMA AcceptKeeps ==
  ASSUME RpcInv, NEW q \in Reqs, NextLine(q), Accept(q), toServer' = Tail(toServer),
         srv' \in [initialized : BOOLEAN, initializing : BOOLEAN],
         UNCHANGED <<scope, log, streamClosed, sub, fwd, task, aborted, conf, host, harnessClosed,
                     link, eof, cl, handle, shown, cutShort>>
  PROVE  RpcInv'
<1>1. RpcTypeOK /\ HostSide /\ Finishing /\ ClientSide
  BY Parts DEF RpcInvParts
<1>2. /\ toServer # <<>> /\ q = Head(toServer) /\ At("invoke") = {} /\ UNCHANGED toClient
      /\ toServer \in Seq(Reqs) /\ req \in [Reqs -> Request]
      /\ req' = [req EXCEPT ![q] = [@ EXCEPT !.s = "invoke"]]
  BY <1>1 DEF NextLine, Accept, RpcTypeOK, PipesTyped
<1>3. toServer' \in Seq(Reqs) /\ q = toServer[1] /\ Len(toServer) \in Nat \ {0}
  BY <1>2, Shortened
<1>4. req' \in [Reqs -> Request] /\ Elsewhere(q)
  BY ZenonT(30), <1>2 DEF Request, Steps, Elsewhere, Same
<1>5. /\ req'[q].m = req[q].m /\ req'[q].run = req[q].run /\ req'[q].s = "invoke"
      /\ req'[q].code = req[q].code /\ req'[q].n = req[q].n
  BY <1>2 DEF Request
<1>6. req[q].s = "wire" /\ req[q].code = "none"
  BY <1>1, <1>3 DEF HostSide, Wire
<1>7. RpcTypeOK'
  <2>1. StreamTyped' /\ RunsTyped' /\ HostTyped'
    BY <1>1 DEF RpcTypeOK, StreamTyped, SubTyped, RunsTyped, HostTyped, Event
  <2>2. ServerTyped' /\ ClientTyped'
    BY <1>1 DEF RpcTypeOK, ServerTyped, ClientTyped
  <2>3. PipesTyped'
    BY <1>1, <1>2, <1>3, <1>4 DEF RpcTypeOK, PipesTyped
  <2> QED BY <2>1, <2>2, <2>3 DEF RpcTypeOK
<1>8. HostSide'
  <2>1. Wire'
    BY <1>1, <1>2, <1>4, <1>5, <1>6, <1>7, TakenWire DEF HostSide, Moves
  <2>2. q \notin host.ready
    BY <1>1, <1>6 DEF HostSide, Wire
  <2>3. Moves(q) /\ StartMoves(q) /\ BoundMoves(q) /\ HostKept
    BY <1>4, <1>5, <1>6, <2>2 DEF Moves, StartMoves, BoundMoves, HostKept
  <2> QED BY <1>1, <1>7, <2>1, <2>3, MovesKeep DEF HostSide
<1>9. Finishing'
  <2>1. ShutdownWaits => ShutdownWaits'
    BY <1>4, <1>6 DEF ShutdownWaits, Elsewhere, Same
  <2> QED BY <1>1, <2>1, FinishingKept
<1>10. ClientSide'
  <2>1. Grows
    BY <1>1, UnchangedGrows DEF RpcTypeOK, GrowsQuietly
  <2>2. ReplaysKept
    BY <1>1, <1>4, <1>5, <1>6, MovedReplays DEF ClientSide
  <2>3. PipeMoves /\ SubLogged(Len(log))'
    BY <1>1, <1>2 DEF PipeMoves, ClientSide, Transit, SubLogged
  <2> QED BY <1>1, <1>7, <2>1, <2>2, <2>3, ClientKept
<1> QED BY <1>7, <1>8, <1>9, <1>10, Zenon DEF RpcInv, HostSide, ClientSide

LEMMA DispatchKeeps ==
  ASSUME RpcInv, NEW q \in Reqs, Dispatch(q)
  PROVE  RpcInv'
<1>1. /\ NextLine(q) /\ toServer' = Tail(toServer)
      /\ UNCHANGED <<scope, log, streamClosed, sub, fwd, task, aborted, conf, host, harnessClosed,
                     link, eof, cl, handle, shown, cutShort>>
  BY DEF Dispatch, stream, runs, client
<1>2. /\ RpcTypeOK /\ srv \in [initialized : BOOLEAN, initializing : BOOLEAN]
      /\ SubLogged(Len(log)) /\ toServer \in Seq(Reqs)
  BY DEF RpcInv, RpcTypeOK, ServerTyped, PipesTyped, Transit
<1>3. CASE Accept(q) /\ (UNCHANGED srv \/ srv' = [srv EXCEPT !.initializing = TRUE])
  <2>1. srv' \in [initialized : BOOLEAN, initializing : BOOLEAN]
    BY <1>2, <1>3
  <2> QED BY <1>1, <1>3, <2>1, AcceptKeeps
<1>4. ASSUME NEW code \in {"not_initialized", "already_initialized", "invalid_params"},
             Answer(q, code, 0), UNCHANGED srv \/ srv' = [srv EXCEPT !.initializing = TRUE]
      PROVE  RpcInv'
  <2>1. /\ srv' \in [initialized : BOOLEAN, initializing : BOOLEAN]
        /\ conf' \in [Runs -> 0 .. 2] /\ SubTyped' /\ SubLogged(Len(log))'
        /\ streamClosed' \in BOOLEAN /\ harnessClosed' \in BOOLEAN
    BY <1>1, <1>2, <1>4 DEF RpcTypeOK, RunsTyped, StreamTyped, ServerTyped, SubTyped, SubLogged
  <2>2. req[q].s = "wire"
    <3>1. q = toServer[1] /\ Len(toServer) \in Nat \ {0}
      BY <1>1, <1>2, Shortened DEF NextLine
    <3> QED BY <3>1 DEF RpcInv, Wire
  <2>3. Reached(q) /\ AnswerFits(q, code, 0) /\ code \in Codes
    BY <1>1, <2>2 DEF Reached, NextLine, AnswerFits, Codes
  <2> QED BY <1>1, <1>4, <2>1, <2>3, AnswerKeeps
<1>5. CASE DispatchV1(q)
  BY <1>3, <1>5 DEF DispatchV1
<1>6. CASE DispatchV2(q)
  BY <1>3, <1>4, <1>6 DEF DispatchV2
<1> QED BY <1>5, <1>6 DEF Dispatch

-----------------------------------------------------------------------------
(* A handler that goes on to wait for a Run.                               *)
LEMMA WaitKeeps ==
  ASSUME RpcInv, NEW q \in Reqs, req[q].s = "invoke", NEW n \in 0 .. MaxRuns,
         req[q].m \in {"abort", "shutdown"},
         req' = [req EXCEPT ![q].s = "wait", ![q].n = n],
         req[q].m = "abort" /\ proto = 2 => n = req[q].run,
         aborted' \subseteq Runs, HostKept, host' = host \/ host' = [host EXCEPT !.closed = TRUE],
         host'.closed # host.closed => req[q].m = "shutdown" /\ link = "open",
         UNCHANGED <<scope, log, streamClosed, sub, fwd, task, conf, harnessClosed, srv, link,
                     toServer, toClient, eof, cl, handle, shown, cutShort>>
  PROVE  RpcInv'
<1>1. RpcTypeOK /\ HostSide /\ Finishing /\ ClientSide
  BY Parts DEF RpcInvParts
<1>2. /\ req \in [Reqs -> Request] /\ n \in Int
      /\ req' = [req EXCEPT ![q] = [@ EXCEPT !.s = "wait", !.n = n]]
  <2>1. req' = [req EXCEPT ![q] = [@ EXCEPT !.s = "wait", !.n = n]]
    OBVIOUS
  <2>2. n \in Int
    BY SessionAssumption
  <2>3. req \in [Reqs -> Request]
    BY <1>1 DEF RpcTypeOK, PipesTyped
  <2> QED BY <2>1, <2>2, <2>3
<1>3. req' \in [Reqs -> Request] /\ Elsewhere(q)
  BY <1>2 DEF Request, Steps, Elsewhere, Same
<1>4. /\ req'[q].m = req[q].m /\ req'[q].run = req[q].run /\ req'[q].s = "wait"
      /\ req'[q].code = req[q].code /\ req'[q].n = n
  BY <1>2 DEF Request
<1>5. RpcTypeOK'
  <2>1. StreamTyped' /\ RunsTyped'
    BY <1>1 DEF RpcTypeOK, StreamTyped, SubTyped, RunsTyped, Event
  <2>2. HostTyped'
    BY <1>1 DEF RpcTypeOK, HostTyped
  <2>3. ServerTyped' /\ ClientTyped'
    BY <1>1 DEF RpcTypeOK, ServerTyped, ClientTyped
  <2>4. PipesTyped'
    BY <1>1, <1>3 DEF RpcTypeOK, PipesTyped
  <2> QED BY <2>1, <2>2, <2>3, <2>4 DEF RpcTypeOK
<1>6. req[q].code = "none"
  BY <1>1 DEF HostSide, Wire
<1>7. HostSide'
  <2>1. Wire'
    <3>1. Handles1(q)
      BY <1>3, <1>4, <1>6 DEF Handles1
    <3> QED BY <1>1, <1>5, <3>1, HandledWire DEF HostSide, HostKept
  <2>2. Moves(q) /\ StartMoves(q) /\ BoundMoves(q)
    BY <1>3, <1>4, <1>6 DEF Moves, StartMoves, BoundMoves
  <2> QED BY <1>1, <1>5, <2>1, <2>2, MovesKeep DEF HostSide
<1>8. Finishing'
  <2>1. ShutdownWaits => ShutdownWaits'
    BY <1>3, <1>4 DEF ShutdownWaits, Elsewhere, Same
  <2>2. req[q].m = "shutdown" => ShutdownWaits'
    BY <1>4 DEF ShutdownWaits
  <2> QED BY <1>1, <2>1, <2>2 DEF Finishing, BothClosed
<1>9. ClientSide'
  <2>1. Grows
    BY <1>1, UnchangedGrows DEF RpcTypeOK, GrowsQuietly
  <2>2. ReplaysKept
    BY <1>1, <1>3, <1>4, <1>6, MovedReplays DEF ClientSide
  <2>3. PipeMoves /\ SubLogged(Len(log))'
    BY <1>1 DEF PipeMoves, ClientSide, Transit, SubLogged
  <2> QED BY <1>1, <1>5, <2>1, <2>2, <2>3, ClientKept
<1> QED BY <1>5, <1>7, <1>8, <1>9, Zenon DEF RpcInv, HostSide, ClientSide

LEMMA AbortRunKeeps ==
  ASSUME RpcInv, NEW q \in Reqs, AbortRun(q)
  PROVE  RpcInv'
<1>1. /\ MayInvoke(q) /\ req[q].s = "invoke" /\ req[q].m = "abort" /\ ActiveRun(q) /\ RunActive
      /\ aborted' = aborted \union {host.task}
      /\ req' = [req EXCEPT ![q].s = "wait", ![q].n = host.task]
      /\ UNCHANGED <<scope, log, streamClosed, sub, fwd, task, conf, host, harnessClosed, srv, link,
                     toServer, toClient, eof, cl, handle, shown, cutShort>>
  BY DEF AbortRun, MayInvoke, stream, pipes, client
<1>2. host.task \in Runs /\ aborted \subseteq Runs /\ req[q].run \in Runs
  BY <1>1 DEF RunActive, RpcInv, RpcTypeOK, HostTyped, RunsTyped, Bound, Runs
<1>3. ASSUME proto = 2 PROVE host.task = req[q].run
  BY <1>1, <1>2, <1>3, ActiveIsTheTask DEF ActiveRun, Runs
<1>4. host.task \in 0 .. MaxRuns
  BY <1>2 DEF Runs
<1>5. HostKept
  BY <1>1 DEF HostKept
<1> QED BY <1>1, <1>2, <1>3, <1>4, <1>5, WaitKeeps

(* what close() does to the Host before it waits                           *)
LEMMA CloseBeginsEffect ==
  ASSUME RpcTypeOK, CloseBegins
  PROVE  /\ HostKept /\ host' = [host EXCEPT !.closed = TRUE] /\ aborted' \subseteq Runs
         /\ host'.closed
<1>1. /\ host' = [host EXCEPT !.closed = TRUE]
      /\ aborted' = IF RunActive THEN aborted \union {host.task} ELSE aborted
  BY DEF CloseBegins
<1>2. HostKept /\ host'.closed
  BY <1>1 DEF RpcTypeOK, HostTyped, HostKept
<1>3. aborted \subseteq Runs /\ (RunActive => host.task \in Runs)
  BY DEF RpcTypeOK, HostTyped, RunsTyped, RunActive, Runs
<1> QED BY <1>1, <1>2, <1>3

LEMMA ShutdownKeeps ==
  ASSUME RpcInv, NEW q \in Reqs, Shutdown(q)
  PROVE  RpcInv'
<1>1. req[q].s = "invoke" /\ req[q].m = "shutdown" /\ link = "open"
  BY DEF Shutdown, MayInvoke
<1>2. CASE host.closed /\ Handled(q, "ok", 0)
  <2>1. AnswerFits(q, "ok", 0)
    BY <1>1 DEF AnswerFits
  <2> QED BY <1>1, <1>2, <2>1, HandledKeeps DEF Codes
<1>3. CASE ~host.closed /\ ~(host.closed /\ Handled(q, "ok", 0))
  <2> DEFINE n == IF RunActive THEN host.task ELSE 0
  <2>1. /\ CloseBegins /\ req' = [req EXCEPT ![q].s = "wait", ![q].n = n]
        /\ UNCHANGED <<scope, log, streamClosed, sub, fwd, task, conf, harnessClosed, srv, link,
                       toServer, toClient, eof, cl, handle, shown, cutShort>>
    BY <1>3 DEF Shutdown, stream, pipes, client
  <2>2. RpcTypeOK /\ n \in 0 .. MaxRuns
    BY SessionAssumption DEF RpcInv, RpcTypeOK, HostTyped
  <2>3. HostKept /\ host' = [host EXCEPT !.closed = TRUE] /\ aborted' \subseteq Runs
    BY <2>1, <2>2, CloseBeginsEffect
  <2> HIDE DEF n
  <2> QED BY <1>1, <2>1, <2>2, <2>3, WaitKeeps
<1> QED BY <1>2, <1>3 DEF Shutdown

LEMMA ShutdownReturnsKeeps ==
  ASSUME RpcInv, NEW q \in Reqs, ShutdownReturns(q)
  PROVE  RpcInv'
<1>1. /\ req[q].s = "wait" /\ req[q].m = "shutdown"
      /\ harnessClosed' = TRUE /\ streamClosed' = TRUE /\ sub' = CloseSubscriber(sub)
      /\ Answer(q, "ok", 0)
      /\ UNCHANGED <<scope, log, fwd, task, aborted, conf, host, srv, link, toServer, eof, cl,
                     handle, shown, cutShort>>
  BY DEF ShutdownReturns, CloseEnds, runs, client
<1>2. RpcTypeOK /\ Transit /\ Len(log) \in Nat
  BY DEF RpcInv, RpcTypeOK, StreamTyped
<1>3. SubFits(sub, Len(log))
  BY <1>2 DEF RpcTypeOK, StreamTyped, SubTyped, SubFits, Transit, SubLogged
<1>4. SubFits(sub', Len(log))
  BY <1>1, <1>2, <1>3, CloseFits
<1>5. /\ conf' \in [Runs -> 0 .. 2] /\ SubTyped' /\ SubLogged(Len(log))'
      /\ streamClosed' \in BOOLEAN /\ harnessClosed' \in BOOLEAN
      /\ srv' \in [initialized : BOOLEAN, initializing : BOOLEAN]
  BY <1>1, <1>2, <1>4 DEF RpcTypeOK, RunsTyped, ServerTyped, SubFits, SubTyped, SubLogged
<1>6. Reached(q) /\ AnswerFits(q, "ok", 0)
  BY <1>1 DEF Reached, AnswerFits, BothClosed
<1> QED BY <1>1, <1>5, <1>6, AnswerKeeps DEF Codes

-----------------------------------------------------------------------------
(* run.start creates the task of the next Run                              *)
LEMMA StartTaskKeeps ==
  ASSUME RpcInv, NEW q \in Reqs, StartTask(q)
  PROVE  RpcInv'
<1>1. /\ RpcTypeOK /\ HostSide /\ Finishing /\ ClientSide
      /\ Wire /\ OneRun /\ Started /\ StartsAnswered /\ Bound
  BY Parts DEF RpcInvParts, HostSide
<1>2. PICK r \in Runs :
        /\ task[r] = "none" /\ task' = [task EXCEPT ![r] = "created"]
        /\ host' = [host EXCEPT !.task = r, !.future = r]
        /\ req' = [req EXCEPT ![q].s = "wait", ![q].run = r]
  BY DEF StartTask
<1>3. /\ req[q].s = "invoke" /\ req[q].m = "start" /\ ~host.closed /\ ~RunActive
      /\ UNCHANGED <<scope, log, streamClosed, sub, fwd, aborted, conf, harnessClosed, srv, link,
                     toServer, toClient, eof, cl, handle, shown, cutShort>>
  BY DEF StartTask, MayInvoke, stream, pipes, client
<1>4. /\ req' \in [Reqs -> Request] /\ Elsewhere(q)
      /\ req'[q].m = "start" /\ req'[q].run = r /\ req'[q].s = "wait"
      /\ req'[q].code = "none" /\ req'[q].n = req[q].n
  <2>1. req' = [req EXCEPT ![q] = [@ EXCEPT !.s = "wait", !.run = r]]
    BY <1>2
  <2>2. req \in [Reqs -> Request] /\ r \in 0 .. MaxRuns /\ req[q].code = "none"
    BY <1>1, <1>3, SessionAssumption DEF RpcTypeOK, PipesTyped, Runs, Wire
  <2>3. req' \in [Reqs -> Request] /\ Elsewhere(q)
    BY <2>1, <2>2 DEF Request, Steps, Elsewhere, Same
  <2> QED BY <1>3, <2>1, <2>2, <2>3 DEF Request
<1>5. /\ host'.task = r /\ host'.future = r /\ host'.active = host.active /\ host'.last = host.last
      /\ host'.lastSeq = host.lastSeq /\ host'.acked = host.acked /\ host'.wiped = host.wiped
      /\ host'.callbacks = host.callbacks /\ host'.ready = host.ready /\ host'.closed = host.closed
  BY <1>1, <1>2 DEF RpcTypeOK, HostTyped
<1>6. task'[r] = "created" /\ \A x \in Runs \ {r} : task'[x] = task[x]
  BY <1>1, <1>2 DEF RpcTypeOK, RunsTyped
<1>7. RpcTypeOK'
  <2>1. StreamTyped' /\ RunsTyped'
    BY <1>1, <1>2, <1>3 DEF RpcTypeOK, StreamTyped, SubTyped, RunsTyped, Event
  <2>2. HostTyped'
    <3>1. r \in 0 .. MaxRuns
      BY SessionAssumption DEF Runs
    <3> QED BY <1>1, <1>2, <3>1 DEF RpcTypeOK, HostTyped
  <2>3. ServerTyped' /\ ClientTyped'
    BY <1>1, <1>3 DEF RpcTypeOK, ServerTyped, ClientTyped
  <2>4. PipesTyped'
    BY <1>1, <1>3, <1>4 DEF RpcTypeOK, PipesTyped
  <2> QED BY <2>1, <2>2, <2>3, <2>4 DEF RpcTypeOK
<1>8. \A x \in Runs : task[x] \notin {"created", "running", "tail"}
  BY <1>1, <1>3 DEF OneRun, RunActive, Runs
<1>9. Wire'
  <2>1. Handles1(q)
    BY <1>3, <1>4 DEF Handles1
  <2> QED BY <1>1, <1>3, <1>5, <1>7, <2>1, HandledWire
<1>10. OneRun'
  <2>1. r # 0
    BY DEF Runs
  <2>2. \A x \in Runs : task'[x] \in {"created", "running", "tail"} => host'.task = x
    BY <1>5, <1>6, <1>8
  <2>3. \A x \in Runs : task'[x] = "created" => host'.future = x \/ x \in host'.wiped
    BY <1>5, <1>6, <1>8
  <2>4. \A x \in host.acked \union host.callbacks : x \in Runs /\ x # r
    BY <1>1, <1>2 DEF OneRun, RpcTypeOK, HostTyped
  <2>5. host.active # 0 => task[host.active] = "done" /\ host.active \in host.callbacks
    BY <1>1, <1>8 DEF OneRun, RpcTypeOK, HostTyped, Runs
  <2> QED BY <1>1, <1>5, <1>6, <2>2, <2>3, <2>4, <2>5 DEF OneRun
<1>11. Started'
  <2>1. \A n \in 1 .. Len(log) : \A x \in Runs : Starts(n, x) => x # r
    BY <1>1, <1>2 DEF Started
  <2> QED BY <1>1, <1>3, <1>5, <1>6, <2>1 DEF Started, Starts
<1>12. StartsAnswered'
  <2> SUFFICES ASSUME NEW p \in Reqs, req'[p].m = "start"
               PROVE  /\ req'[p].s = "wait" => /\ req'[p].run \in Runs /\ task'[req'[p].run] # "none"
                                               /\ req'[p].run \in host'.acked => host'.last = req'[p].run
                      /\ req'[p].code = "ok" => /\ req'[p].run \in Runs
                                                /\ proto' = 2 => Starts(req[p].n, req[p].run)'
                      /\ req'[p].code = "run_start_failed" =>
                           /\ req'[p].run \in Runs /\ task'[req'[p].run] = "done"
                           /\ NeverStarted(req[p].run)' \/ req'[p].run \in host'.wiped
    BY DEF StartsAnswered
  <2>1. CASE p = q
    <3>1. r \notin host.acked
      BY <1>1, <1>2 DEF OneRun
    <3> QED BY <1>4, <1>5, <1>6, <2>1, <3>1
  <2>2. CASE p # q
    <3>1. Same(p) /\ proto' = proto
      BY <1>3, <1>4, <2>2 DEF Elsewhere, proto
    <3>2. \A x \in Runs : task[x] # "none" => task'[x] = task[x]
      BY <1>2, <1>6
    <3> QED BY <1>1, <1>3, <1>5, <3>1, <3>2 DEF StartsAnswered, NeverStarted, Starts, Same
  <2> QED BY <2>1, <2>2
<1>13. Bound'
  <2>1. \A p \in Reqs : req'[p].s # "invoke"
    BY <1>1, <1>3, <1>4 DEF Wire, Elsewhere, Same
  <2>2. proto' = proto
    BY <1>3 DEF proto
  <2>3. \A p \in Reqs : req'[p].m \in {"steer", "abort", "list", "respond"} => p # q
    BY <1>4
  <2> QED BY <1>1, <1>4, <2>1, <2>2, <2>3 DEF Bound, Elsewhere, Same
<1>14. Finishing'
  <2>1. ShutdownWaits => ShutdownWaits'
    BY <1>3, <1>4 DEF ShutdownWaits, Elsewhere, Same
  <2> QED BY <1>1, <1>3, <1>5, <2>1, FinishingKept
<1>15. ClientSide'
  <2>1. Grows
    BY <1>1, <1>3, UnchangedGrows DEF RpcTypeOK, GrowsQuietly
  <2>2. ReplaysKept
    BY <1>1, <1>3, <1>4, MovedReplays DEF ClientSide
  <2>3. PipeMoves /\ SubLogged(Len(log))'
    BY <1>1, <1>3 DEF PipeMoves, ClientSide, Transit, SubLogged
  <2> QED BY <1>1, <1>3, <1>7, <2>1, <2>2, <2>3, ClientKept
<1> QED BY <1>7, <1>9, <1>10, <1>11, <1>12, <1>13, <1>14, <1>15, Zenon DEF RpcInv, ClientSide

-----------------------------------------------------------------------------
(* A step that leaves every request alone but for its fate.                *)
LEMMA QuietKeeps ==
  ASSUME RpcInv, RpcTypeOK', Quiet, HostKept, GrowsQuietly, UNCHANGED <<scope, task, toServer>>,
         Finishing', SubLogged(Len(log))', PipeMoves, UNCHANGED <<handle, shown>>,
         cl'.inbound = cl.inbound, cl'.history = cl.history,
         cl.history # <<>> => cl'.last = cl.last, cl'.st = "new" => cl.st = "new"
  PROVE  RpcInv'
<1>1. RpcTypeOK /\ HostSide /\ ClientSide
  BY Parts DEF RpcInvParts
<1>2. HostSide'
  BY <1>1, Undisturbed
<1>3. Grows /\ ReplaysKept
  BY <1>1, QuietReplays DEF GrowsQuietly, ClientSide
<1>4. ClientSide'
  BY <1>1, <1>3, ClientKept
<1> QED BY <1>2, <1>4, Zenon DEF RpcInv, HostSide, ClientSide

(* the end of the connection and run_stdio_rpc's finally                   *)
LEMMA FinishKeeps ==
  ASSUME RpcInv, Finish
  PROVE  RpcInv'
<1>1. /\ link = "open" /\ link' = "finishing"
      /\ aborted' = aborted \union {req[q].n : q \in Gathering}
      /\ cutShort' = (cutShort \/ \E q \in At("wait") : req[q].m = "shutdown")
      /\ UNCHANGED <<scope, log, streamClosed, sub, fwd, task, conf, host, harnessClosed, srv, req,
                     toServer, toClient, eof, cl, handle, shown>>
  BY DEF Finish, stream, pipes, client
<1>2. RpcTypeOK /\ HostSide /\ Finishing /\ ClientSide /\ Wire
  BY Parts DEF RpcInvParts, HostSide
<1>3. RpcTypeOK'
  <2>1. \A q \in Gathering : req[q].n \in Runs
    BY <1>2 DEF Gathering, At, Used, Wire, Runs
  <2>2. StreamTyped' /\ RunsTyped' /\ HostTyped'
    BY <1>1, <1>2, <2>1 DEF RpcTypeOK, StreamTyped, SubTyped, RunsTyped, HostTyped, Event
  <2>3. ServerTyped'
    BY <1>1, <1>2 DEF RpcTypeOK, ServerTyped
  <2>4. PipesTyped' /\ ClientTyped'
    BY <1>1, <1>2 DEF RpcTypeOK, PipesTyped, ClientTyped
  <2> QED BY <2>2, <2>3, <2>4 DEF RpcTypeOK
<1>4. Finishing'
  <2>1. ShutdownWaits => cutShort'
    BY <1>1, <1>2 DEF ShutdownWaits, At, Used, Wire
  <2>2. cutShort => cutShort'
    BY <1>1
  <2> QED BY <1>1, <1>2, <2>1, <2>2 DEF Finishing, BothClosed
<1>5. Quiet /\ HostKept /\ GrowsQuietly /\ PipeMoves /\ SubLogged(Len(log))'
  BY <1>1, <1>2, UnchangedGrows
     DEF Quiet, Same, HostKept, PipeMoves, RpcTypeOK, ClientSide, Transit, SubLogged
<1> QED BY <1>1, <1>3, <1>4, <1>5, QuietKeeps

LEMMA FinishEndsKeeps ==
  ASSUME RpcInv, FinishEnds
  PROVE  RpcInv'
<1>1. /\ link = "finishing" /\ link' = "closed"
      /\ req' = [q \in Reqs |-> IF req[q].s \in {"invoke", "wait"}
                                THEN [req[q] EXCEPT !.s = "cancelled"] ELSE req[q]]
      /\ srv' = [srv EXCEPT !.initializing = FALSE]
      /\ UNCHANGED <<scope, log, streamClosed, sub, fwd, task, aborted, conf, host, harnessClosed,
                     toServer, toClient, eof, cl, handle, shown, cutShort>>
  BY DEF FinishEnds, stream, runs, pipes, client
<1>2. /\ RpcTypeOK /\ HostSide /\ Finishing /\ ClientSide
      /\ Wire /\ OneRun /\ Started /\ StartsAnswered /\ Bound
  BY Parts DEF RpcInvParts, HostSide
<1>3. req \in [Reqs -> Request] /\ \A i \in 1 .. Len(toServer) : toServer[i] \in Reqs
  BY <1>2 DEF RpcTypeOK, PipesTyped
<1>4. \A q \in Reqs :
        /\ req'[q].m = req[q].m /\ req'[q].run = req[q].run
        /\ req'[q].code = req[q].code /\ req'[q].n = req[q].n
        /\ req'[q].s = IF req[q].s \in {"invoke", "wait"} THEN "cancelled" ELSE req[q].s
  BY <1>1, <1>3 DEF Request
<1>5. RpcTypeOK'
  <2>1. StreamTyped' /\ RunsTyped' /\ HostTyped'
    BY <1>1, <1>2 DEF RpcTypeOK, StreamTyped, SubTyped, RunsTyped, HostTyped, Event
  <2>2. ServerTyped' /\ ClientTyped'
    BY <1>1, <1>2 DEF RpcTypeOK, ServerTyped, ClientTyped
  <2>3. req' \in [Reqs -> Request]
    BY ZenonT(30), <1>1, <1>3 DEF Request, Steps
  <2>4. PipesTyped'
    BY <1>1, <1>2, <2>3 DEF RpcTypeOK, PipesTyped
  <2> QED BY <2>1, <2>2, <2>4 DEF RpcTypeOK
<1>6. Wire'
  <2>1. \A q \in host.ready : q \in Reqs
    BY <1>2 DEF RpcTypeOK, HostTyped
  <2> QED BY <1>1, <1>2, <1>3, <1>4, <2>1 DEF Wire
<1>7. OneRun' /\ Started'
  BY <1>1, <1>2 DEF OneRun, Started, Starts
<1>8. StartsAnswered'
  BY <1>1, <1>2, <1>4 DEF StartsAnswered, NeverStarted, Starts, proto
<1>9. Bound'
  BY <1>1, <1>2, <1>4 DEF Bound, proto
<1>10. Finishing'
  BY <1>1, <1>2 DEF Finishing, BothClosed
<1>11. ClientSide'
  <2>1. Grows
    BY <1>1, <1>2, UnchangedGrows DEF RpcTypeOK, GrowsQuietly
  <2>2. ReplaysKept
    BY <1>1, <1>2, <1>4 DEF ReplaysKept, ClientSide, Handles
  <2>3. PipeMoves /\ SubLogged(Len(log))'
    BY <1>1, <1>2 DEF PipeMoves, ClientSide, Transit, SubLogged
  <2> QED BY <1>1, <1>2, <1>5, <2>1, <2>2, <2>3, ClientKept
<1> QED BY <1>5, <1>6, <1>7, <1>8, <1>9, <1>10, <1>11, Zenon DEF RpcInv, ClientSide

LEMMA HostCloseKeeps ==
  ASSUME RpcInv, HostClose
  PROVE  RpcInv'
<1>1. /\ link = "closed"
      /\ \/ host.closed /\ link' = "over" /\ UNCHANGED <<host, aborted>>
         \/ ~host.closed /\ link' = "hostwait" /\ CloseBegins
      /\ UNCHANGED <<scope, log, streamClosed, sub, fwd, task, conf, harnessClosed, srv, req,
                     toServer, toClient, eof, cl, handle, shown, cutShort>>
  BY DEF HostClose, stream, pipes, client
<1>2. RpcTypeOK /\ HostSide /\ Finishing /\ ClientSide
  BY Parts DEF RpcInvParts
<1>3. HostKept /\ aborted' \subseteq Runs /\ (host' = host \/ host' = [host EXCEPT !.closed = TRUE])
  <2>1. CASE UNCHANGED <<host, aborted>>
    BY <1>2, <2>1 DEF HostKept, RpcTypeOK, RunsTyped
  <2>2. CASE CloseBegins
    BY <1>2, <2>2, CloseBeginsEffect
  <2> QED BY <1>1, <2>1, <2>2
<1>4. RpcTypeOK'
  <2>1. StreamTyped' /\ RunsTyped'
    BY <1>1, <1>2, <1>3 DEF RpcTypeOK, StreamTyped, SubTyped, RunsTyped, Event
  <2>2. HostTyped'
    BY <1>2, <1>3 DEF RpcTypeOK, HostTyped
  <2>3. ServerTyped'
    BY <1>1, <1>2 DEF RpcTypeOK, ServerTyped
  <2>4. PipesTyped' /\ ClientTyped'
    BY <1>1, <1>2 DEF RpcTypeOK, PipesTyped, ClientTyped
  <2> QED BY <2>1, <2>2, <2>3, <2>4 DEF RpcTypeOK
<1>5. Finishing'
  BY <1>1, <1>2 DEF Finishing, BothClosed
<1>6. Quiet /\ GrowsQuietly /\ PipeMoves /\ SubLogged(Len(log))'
  BY <1>1, <1>2, UnchangedGrows
     DEF Quiet, Same, PipeMoves, RpcTypeOK, ClientSide, Transit, SubLogged
<1> QED BY <1>1, <1>3, <1>4, <1>5, <1>6, QuietKeeps

LEMMA HostCloseEndsKeeps ==
  ASSUME RpcInv, HostCloseEnds
  PROVE  RpcInv'
<1>1. /\ link = "hostwait" /\ link' = "over" /\ harnessClosed' = TRUE /\ streamClosed' = TRUE
      /\ sub' = CloseSubscriber(sub)
      /\ UNCHANGED <<scope, log, fwd, task, aborted, conf, host, srv, req,
                     toServer, toClient, eof, cl, handle, shown, cutShort>>
  BY DEF HostCloseEnds, CloseEnds, runs, pipes, client
<1>2. RpcTypeOK /\ HostSide /\ ClientSide /\ Transit /\ Len(log) \in Nat
  BY Parts DEF RpcInvParts, ClientSide, RpcTypeOK, StreamTyped
<1>3. SubTyped' /\ SubLogged(Len(log))'
  <2>1. SubFits(sub, Len(log))
    BY <1>2 DEF RpcTypeOK, StreamTyped, SubTyped, SubFits, Transit, SubLogged
  <2>2. SubFits(sub', Len(log))
    BY <1>1, <1>2, <2>1, CloseFits
  <2> QED BY <1>1, <2>2 DEF SubFits, SubTyped, SubLogged
<1>4. RpcTypeOK'
  <2>1. StreamTyped' /\ RunsTyped' /\ HostTyped'
    BY <1>1, <1>2, <1>3 DEF RpcTypeOK, StreamTyped, RunsTyped, HostTyped, Event
  <2>2. ServerTyped'
    BY <1>1, <1>2 DEF RpcTypeOK, ServerTyped
  <2>3. PipesTyped' /\ ClientTyped'
    BY <1>1, <1>2 DEF RpcTypeOK, PipesTyped, ClientTyped
  <2> QED BY <2>1, <2>2, <2>3 DEF RpcTypeOK
<1>5. Finishing'
  BY <1>1 DEF Finishing, BothClosed
<1>6. Quiet /\ HostKept /\ GrowsQuietly /\ PipeMoves
  BY <1>1, <1>2, UnchangedGrows DEF Quiet, Same, HostKept, PipeMoves, RpcTypeOK
<1> QED BY <1>1, <1>3, <1>4, <1>5, <1>6, QuietKeeps

-----------------------------------------------------------------------------
(* The Runs.                                                               *)
LEMMA PublishTypes ==
  ASSUME RpcInv, NEW r \in Runs, NEW type \in {"start", "mid", "confirm", "end"},
         NEW onLoop \in BOOLEAN, Publish(r, type, onLoop), UNCHANGED fwd
  PROVE  StreamTyped' /\ SubLogged(Len(log))' /\ UNCHANGED streamClosed
<1>1. /\ StreamTyped /\ Transit /\ Len(log) \in Nat
  BY DEF RpcInv, RpcTypeOK, StreamTyped
<1>2. log' \in Seq(Event) /\ Len(log') = Len(log) + 1
  BY <1>1, PublishEffect
<1>3. SubFits(sub, Len(log))
  BY <1>1 DEF StreamTyped, SubTyped, SubFits, Transit, SubLogged
<1>4. UNCHANGED streamClosed /\ sub' = Put(sub, Len(log) + 1, onLoop)
  BY DEF Publish
<1>5. SubFits(Put(sub, Len(log) + 1, onLoop), Len(log) + 1)
  BY <1>1, <1>3, PutFits
<1>6. SubTyped' /\ SubLogged(Len(log))'
  BY <1>2, <1>4, <1>5 DEF SubFits, SubTyped, SubLogged
<1> QED BY <1>1, <1>2, <1>4, <1>6 DEF StreamTyped

(* nothing but the log, its subscriber and the Runs changes                *)
LEMMA PublishClient ==
  ASSUME RpcInv, RpcTypeOK', Grows, SubLogged(Len(log))', UNCHANGED <<req, toClient, cl, handle, shown>>
  PROVE  ClientSide'
<1>1. RpcTypeOK /\ ClientSide
  BY Parts DEF RpcInvParts
<1>2. ReplaysKept
  BY <1>1, QuietReplays DEF Quiet, Same, ClientSide
<1>3. PipeMoves
  BY DEF PipeMoves
<1> QED BY <1>1, <1>2, <1>3, ClientKept

LEMMA FinishingStays ==
  ASSUME Finishing, host'.closed = host.closed,
         UNCHANGED <<cutShort, link, harnessClosed, streamClosed, req>>
  PROVE  Finishing'
  BY DEF Finishing, BothClosed, ShutdownWaits

(* agent_start: _on_event takes the Run over and resolves the future       *)
LEMMA RunStartKeeps ==
  ASSUME RpcInv, NEW r \in Runs, RunStart(r)
  PROVE  RpcInv'
<1>1. /\ task[r] = "created" /\ host.callbacks = {}
      /\ ~\E q \in At("wait") : req[q].m = "start" /\ req[q].run \in host.acked
      /\ Publish(r, "start", TRUE) /\ host' = OnAgentStart(r)
      /\ task' = [task EXCEPT ![r] = "running"]
      /\ UNCHANGED <<scope, fwd, aborted, conf, harnessClosed, srv, link, req, toServer, toClient,
                     eof, cl, handle, shown, cutShort>>
  BY DEF RunStart, pipes, client
<1>2. /\ RpcTypeOK /\ StreamTyped /\ Finishing
      /\ Wire /\ OneRun /\ Started /\ StartsAnswered /\ Bound
  BY DEF RpcInv, RpcTypeOK
<1>3. /\ log' \in Seq(Event) /\ Len(log') = Len(log) + 1 /\ Grows /\ Len(log) \in Nat
      /\ log'[Len(log) + 1].type = "start" /\ log'[Len(log) + 1].run = r
  <2>1. "start" \in {"start", "mid", "confirm", "end"} /\ TRUE \in BOOLEAN
    OBVIOUS
  <2>2. Len(log) \in Nat
    BY <1>2 DEF StreamTyped
  <2> QED BY <1>1, <1>2, <2>1, <2>2, PublishEffect
<1>4. StreamTyped' /\ SubLogged(Len(log))' /\ UNCHANGED streamClosed
  BY <1>1, PublishTypes
<1>5. host' = [host EXCEPT !.active = r, !.last = r, !.lastSeq = Len(log) + 1,
                           !.acked = IF host.future = 0 THEN host.acked
                                     ELSE host.acked \union {host.future}]
  BY <1>1 DEF OnAgentStart
<1>6. /\ host'.task = host.task /\ host'.future = host.future /\ host'.active = r /\ host'.last = r
      /\ host'.lastSeq = Len(log) + 1 /\ host'.wiped = host.wiped /\ host'.closed = host.closed
      /\ host'.callbacks = {} /\ host'.ready = host.ready
      /\ host'.acked = IF host.future = 0 THEN host.acked ELSE host.acked \union {host.future}
  BY <1>1, <1>2, <1>5 DEF RpcTypeOK, HostTyped
<1>7. host.task = r /\ (host.future = r \/ r \in host.wiped) /\ host.future \in {0, r} /\ r # 0
  BY <1>1, <1>2 DEF OneRun, Runs
<1>8. host'.acked = (IF host.future = 0 THEN host.acked ELSE host.acked \union {r})
  BY <1>6, <1>7
<1>9. task'[r] = "running" /\ \A x \in Runs \ {r} : task'[x] = task[x]
  BY <1>1, <1>2 DEF RpcTypeOK, RunsTyped
<1>10. RpcTypeOK'
  <2>1. RunsTyped'
    BY <1>1, <1>2 DEF RpcTypeOK, RunsTyped
  <2>2. HostTyped'
    <3>1. r \in 0 .. MaxRuns /\ Len(log) + 1 \in Nat
      BY <1>3, SessionAssumption DEF Runs
    <3>2. host'.acked \in SUBSET Runs
      BY <1>2, <1>8 DEF RpcTypeOK, HostTyped
    <3> DEFINE heard == IF host.future = 0 THEN host.acked ELSE host.acked \union {host.future}
    <3>3. heard \in SUBSET Runs /\ host' = [host EXCEPT !.active = r, !.last = r, !.lastSeq = Len(log) + 1,
                                                        !.acked = heard]
      BY <1>5, <1>6, <3>2
    <3> HIDE DEF heard
    <3> QED BY <1>2, <3>1, <3>3 DEF RpcTypeOK, HostTyped
  <2>3. ServerTyped'
    BY <1>1, <1>2 DEF RpcTypeOK, ServerTyped
  <2>4. PipesTyped' /\ ClientTyped'
    BY <1>1, <1>2 DEF RpcTypeOK, PipesTyped, ClientTyped
  <2> QED BY <1>4, <2>1, <2>2, <2>3, <2>4 DEF RpcTypeOK
<1>11. Wire'
  BY <1>1, <1>2, <1>6 DEF Wire
<1>12. OneRun'
  <2>1. \A x \in Runs : task'[x] \in {"created", "running", "tail"} => host'.task = x
    BY <1>1, <1>2, <1>6, <1>9 DEF OneRun
  <2>2. \A x \in Runs : task'[x] = "created" => host'.future = x \/ x \in host'.wiped
    BY <1>2, <1>6, <1>9 DEF OneRun
  <2>3. \A x \in host'.acked : task'[x] \in {"running", "tail", "done"}
    BY <1>2, <1>8, <1>9 DEF OneRun, RpcTypeOK, HostTyped
  <2> QED BY <1>2, <1>6, <1>7, <1>9, <2>1, <2>2, <2>3 DEF OneRun
<1>13. \A n, x : Starts(n, x)' => Starts(n, x) \/ (n = Len(log) + 1 /\ x = r)
  BY <1>3 DEF Starts, Grows
<1>14. \A n, x : Starts(n, x) => Starts(n, x)'
  BY <1>2, <1>3, <1>4, StartsStay
<1>15. Started'
  <2>1. ASSUME NEW n \in 1 .. Len(log'), NEW x \in Runs, Starts(n, x)'
        PROVE  task'[x] \in {"running", "tail", "done"} /\ (x \in host'.acked \/ x \in host'.wiped)
    <3>1. CASE x = r
      BY <1>6, <1>7, <1>8, <1>9, <3>1
    <3>2. CASE x # r
      <4>1. Starts(n, x) /\ n \in 1 .. Len(log)
        BY <1>13, <2>1, <3>2 DEF Starts
      <4> QED BY <1>2, <1>6, <1>8, <1>9, <3>2, <4>1 DEF Started
    <3> QED BY <3>1, <3>2
  <2>2. Starts(host.lastSeq, host.last)'
    BY <1>3, <1>6 DEF Starts
  <2> QED BY <2>1, <2>2 DEF Started
<1>16. StartsAnswered'
  <2> SUFFICES ASSUME NEW q \in Reqs, req[q].m = "start"
               PROVE  /\ req[q].s = "wait" => /\ req[q].run \in Runs /\ task'[req[q].run] # "none"
                                              /\ req[q].run \in host'.acked => host'.last = req[q].run
                      /\ req[q].code = "ok" => /\ req[q].run \in Runs
                                               /\ proto' = 2 => Starts(req[q].n, req[q].run)'
                      /\ req[q].code = "run_start_failed" =>
                           /\ req[q].run \in Runs /\ task'[req[q].run] = "done"
                           /\ NeverStarted(req[q].run)' \/ req[q].run \in host'.wiped
    BY <1>1 DEF StartsAnswered
  <2>1. CASE req[q].s = "wait"
    <3>1. req[q].run \notin host.acked /\ req[q].code = "none" /\ req[q].run \in Runs
          /\ task[req[q].run] # "none"
      BY <1>1, <1>2, <2>1 DEF At, Used, Wire, StartsAnswered
    <3> QED BY <1>6, <1>8, <1>9, <2>1, <3>1
  <2>2. CASE req[q].code = "ok"
    <3>1. req[q].s # "wait" /\ proto' = proto
      BY <1>1, <1>2, <2>2 DEF Wire, proto
    <3>2. Starts(req[q].n, req[q].run) => Starts(req[q].n, req[q].run)'
      BY <1>1, <1>14 DEF Starts
    <3> QED BY <1>2, <2>2, <3>1, <3>2 DEF StartsAnswered
  <2>3. CASE req[q].code = "run_start_failed"
    <3>1. req[q].s # "wait" /\ req[q].run \in Runs /\ task[req[q].run] = "done" /\ req[q].run # r
      BY <1>1, <1>2, <2>3 DEF Wire, StartsAnswered
    <3>2. NeverStarted(req[q].run) => NeverStarted(req[q].run)'
      BY <1>1, <1>13, <3>1 DEF NeverStarted, Starts
    <3> QED BY <1>2, <1>6, <1>9, <2>3, <3>1, <3>2 DEF StartsAnswered
  <2> QED BY <2>1, <2>2, <2>3
<1>17. Bound'
  BY <1>1, <1>2, <1>6, <1>7 DEF Bound, proto
<1>18. Finishing'
  BY <1>1, <1>2, <1>4, <1>6, FinishingStays
<1>19. ClientSide'
  BY <1>1, <1>3, <1>4, <1>10, PublishClient
<1> QED BY <1>10, <1>11, <1>12, <1>15, <1>16, <1>17, <1>18, <1>19, Zenon DEF RpcInv, ClientSide

(* The task of a Run that is not over moves on: agent_end, the return of   *)
(* prompt(), or a prompt() that failed before agent_start.                 *)
LEMMA TaskEndsKeeps ==
  ASSUME RpcInv, RpcTypeOK', NEW r \in Runs, task[r] \in {"created", "running", "tail"}, NEW to,
         task' = [task EXCEPT ![r] = to], GrowsQuietly,
         \/ to = "done" /\ host.callbacks = {} /\ host' = Scheduled(r)
         \/ to = "tail" /\ task[r] = "running" /\ host' = host,
         SubLogged(Len(log))',
         UNCHANGED <<scope, streamClosed, harnessClosed, link, req, toServer, toClient, cl, handle,
                     shown, cutShort>>
  PROVE  RpcInv'
<1>2. /\ RpcTypeOK /\ StreamTyped /\ Finishing
      /\ Wire /\ OneRun /\ Started /\ StartsAnswered /\ Bound
  BY DEF RpcInv, RpcTypeOK
<1>3. /\ host'.task = host.task /\ host'.future = host.future /\ host'.active = host.active
      /\ host'.last = host.last /\ host'.lastSeq = host.lastSeq /\ host'.acked = host.acked
      /\ host'.wiped = host.wiped /\ host'.closed = host.closed
      /\ \/ to = "done" /\ host.callbacks = {} /\ host'.callbacks = {r} /\ host'.ready = At("invoke")
         \/ to = "tail" /\ task[r] = "running" /\ host'.callbacks = host.callbacks /\ host'.ready = host.ready
  BY <1>2 DEF Scheduled, RpcTypeOK, HostTyped
<1>4. /\ task'[r] = to /\ to \in {"tail", "done"} /\ \A x \in Runs \ {r} : task'[x] = task[x]
  BY <1>2, <1>3 DEF RpcTypeOK, RunsTyped
<1>5. host.task = r /\ r # 0
  BY <1>2 DEF OneRun, Runs
<1>6. host.active # 0 => host.active = r
  BY <1>2, <1>5 DEF OneRun, RpcTypeOK, HostTyped, Runs
<1>7. \A n, x : Starts(n, x) <=> Starts(n, x)'
  BY <1>2, StartsStay, NoNewStarts DEF GrowsQuietly, RpcTypeOK
<1>8. Wire'
  BY <1>2, <1>3 DEF Wire, At
<1>9. OneRun'
  <2>1. \A x \in host.acked : x \in Runs
    BY <1>2 DEF RpcTypeOK, HostTyped
  <2> QED BY <1>2, <1>3, <1>4, <1>5, <1>6, <2>1 DEF OneRun
<1>10. Started'
  <2>1. ASSUME NEW n \in 1 .. Len(log'), NEW x \in Runs, Starts(n, x)'
        PROVE  task'[x] \in {"running", "tail", "done"} /\ (x \in host'.acked \/ x \in host'.wiped)
    <3>1. Starts(n, x) /\ n \in 1 .. Len(log)
      BY <1>7, <2>1 DEF Starts
    <3> QED BY <1>2, <1>3, <1>4, <3>1 DEF Started
  <2>2. host'.last # 0 => Starts(host.lastSeq, host.last)'
    <3>1. PICK n, x : n = host.lastSeq /\ x = host.last
      OBVIOUS
    <3>2. x # 0 => Starts(n, x)
      BY <1>2, <3>1, Zenon DEF Started
    <3>3. n = host'.lastSeq /\ x = host'.last
      BY <1>3, <3>1, Zenon
    <3>4. x # 0 => Starts(n, x)'
      BY <1>7, <3>2, Zenon
    <3> QED BY <3>3, <3>4, Zenon DEF Starts
  <2> QED BY <2>1, <2>2 DEF Started
<1>11. StartsAnswered'
  <2> SUFFICES ASSUME NEW q \in Reqs, req[q].m = "start"
               PROVE  /\ req[q].s = "wait" => /\ req[q].run \in Runs /\ task'[req[q].run] # "none"
                                              /\ req[q].run \in host'.acked => host'.last = req[q].run
                      /\ req[q].code = "ok" => /\ req[q].run \in Runs
                                               /\ proto' = 2 => Starts(req[q].n, req[q].run)'
                      /\ req[q].code = "run_start_failed" =>
                           /\ req[q].run \in Runs /\ task'[req[q].run] = "done"
                           /\ NeverStarted(req[q].run)' \/ req[q].run \in host'.wiped
    BY DEF StartsAnswered
  <2>1. proto' = proto
    BY DEF proto
  <2>2. NeverStarted(req[q].run) => NeverStarted(req[q].run)'
    BY ZenonT(30), <1>7 DEF NeverStarted, Starts
  <2>3. Starts(req[q].n, req[q].run) => Starts(req[q].n, req[q].run)'
    BY <1>7 DEF Starts
  <2>4. \A x \in Runs : task[x] # "none" => task'[x] # "none"
    BY <1>4
  <2>5. \A x \in Runs : task[x] = "done" => task'[x] = "done"
    BY <1>4
  <2> QED BY <1>2, <1>3, <2>1, <2>2, <2>3, <2>4, <2>5 DEF StartsAnswered
<1>12. Bound'
  BY <1>2, <1>3, <1>5, <1>6 DEF Bound, proto
<1>13. Finishing'
  BY <1>2, <1>3, FinishingStays
<1>14. ClientSide'
  BY PublishClient DEF GrowsQuietly
<1> QED BY <1>8, <1>9, <1>10, <1>11, <1>12, <1>13, <1>14, Zenon DEF RpcInv, ClientSide

LEMMA ScheduledTypes ==
  ASSUME RpcTypeOK, NEW r \in Runs, host' = Scheduled(r)
  PROVE  HostTyped'
<1>1. host' = [host EXCEPT !.callbacks = {r}, !.ready = At("invoke")]
  BY DEF Scheduled
<1>2. At("invoke") \in SUBSET Reqs
  BY DEF At, Used
<1> QED BY ZenonT(30), <1>1, <1>2 DEF RpcTypeOK, HostTyped

LEMMA RunEndsKeep ==
  ASSUME RpcInv, NEW r \in Runs, RunStartFails(r) \/ RunEnd(r) \/ RunReturns(r)
  PROVE  RpcInv'
<1>1. RpcTypeOK /\ StreamTyped /\ SubLogged(Len(log))
  BY DEF RpcInv, RpcTypeOK, Transit
<1>2. CASE RunStartFails(r)
  <2>1. /\ task[r] = "created" /\ host.callbacks = {}
        /\ task' = [task EXCEPT ![r] = "done"] /\ host' = Scheduled(r)
        /\ UNCHANGED <<scope, log, streamClosed, sub, fwd, aborted, conf, harnessClosed, srv, link,
                       req, toServer, toClient, eof, cl, handle, shown, cutShort>>
    BY <1>2 DEF RunStartFails, stream, pipes, client
  <2>2. RpcTypeOK'
    <3>1. StreamTyped' /\ RunsTyped'
      BY <1>1, <2>1 DEF RpcTypeOK, StreamTyped, SubTyped, RunsTyped, Event
    <3>2. ServerTyped' /\ PipesTyped' /\ ClientTyped'
      BY <1>1, <2>1 DEF RpcTypeOK, ServerTyped, PipesTyped, ClientTyped
    <3> QED BY <1>1, <2>1, <3>1, <3>2, ScheduledTypes DEF RpcTypeOK
  <2>3. GrowsQuietly /\ SubLogged(Len(log))'
    BY <1>1, <2>1, UnchangedGrows DEF SubLogged
  <2> QED BY <2>1, <2>2, <2>3, TaskEndsKeeps
<1>3. CASE RunEnd(r)
  <2>1. /\ task[r] = "running" /\ Publish(r, "end", TRUE)
        /\ task' = [task EXCEPT ![r] = "tail"] /\ host' = host
        /\ conf' = [conf EXCEPT ![r] = IF conf[r] = 1 THEN 2 ELSE conf[r]]
        /\ UNCHANGED <<scope, fwd, aborted, harnessClosed, srv, link, req, toServer, toClient, eof,
                       cl, handle, shown, cutShort>>
    BY <1>3 DEF RunEnd, pipes, client
  <2>2. StreamTyped' /\ SubLogged(Len(log))' /\ UNCHANGED streamClosed
    BY <2>1, PublishTypes
  <2>3. GrowsQuietly
    BY <1>1, <2>1, PublishEffect
  <2>4. RpcTypeOK'
    <3>1. RunsTyped'
      BY <1>1, <2>1 DEF RpcTypeOK, RunsTyped
    <3>2. ServerTyped'
      BY <1>1, <2>1 DEF RpcTypeOK, ServerTyped
    <3>3. PipesTyped' /\ ClientTyped' /\ HostTyped'
      BY <1>1, <2>1 DEF RpcTypeOK, PipesTyped, ClientTyped, HostTyped
    <3> QED BY <2>2, <3>1, <3>2, <3>3 DEF RpcTypeOK
  <2> QED BY <2>1, <2>2, <2>3, <2>4, TaskEndsKeeps
<1>4. CASE RunReturns(r)
  <2>1. /\ task[r] = "tail" /\ host.callbacks = {}
        /\ task' = [task EXCEPT ![r] = "done"] /\ host' = Scheduled(r)
        /\ conf' = [conf EXCEPT ![r] = IF conf[r] = 1 THEN 2 ELSE conf[r]]
        /\ UNCHANGED <<scope, log, streamClosed, sub, fwd, aborted, harnessClosed, srv, link, req,
                       toServer, toClient, eof, cl, handle, shown, cutShort>>
    BY <1>4 DEF RunReturns, stream, pipes, client
  <2>2. RpcTypeOK'
    <3>1. StreamTyped' /\ RunsTyped'
      BY <1>1, <2>1 DEF RpcTypeOK, StreamTyped, SubTyped, RunsTyped, Event
    <3>2. ServerTyped' /\ PipesTyped' /\ ClientTyped'
      BY <1>1, <2>1 DEF RpcTypeOK, ServerTyped, PipesTyped, ClientTyped
    <3> QED BY <1>1, <2>1, <3>1, <3>2, ScheduledTypes DEF RpcTypeOK
  <2>3. GrowsQuietly /\ SubLogged(Len(log))'
    BY <1>1, <2>1, UnchangedGrows DEF SubLogged
  <2> QED BY <2>1, <2>2, <2>3, TaskEndsKeeps
<1> QED BY <1>2, <1>3, <1>4

(* _run_finished clears the future of whoever set it last                  *)
LEMMA RunFinishedKeeps ==
  ASSUME RpcInv, NEW r \in Runs, RunFinished(r)
  PROVE  RpcInv'
<1>1. /\ r \in host.callbacks
      /\ host' = [host EXCEPT !.callbacks = {}, !.ready = {}, !.active = 0, !.future = 0,
                          !.wiped = IF host.future \notin {0, r} THEN host.wiped \union {host.future}
                                    ELSE host.wiped,
                          !.task = IF host.task = r THEN 0 ELSE host.task]
      /\ UNCHANGED <<scope, log, streamClosed, sub, fwd, task, aborted, conf, harnessClosed, srv,
                     link, req, toServer, toClient, eof, cl, handle, shown, cutShort>>
  BY DEF RunFinished, stream, runs, pipes, client
<1>2. /\ RpcTypeOK /\ StreamTyped /\ Finishing /\ SubLogged(Len(log))
      /\ Wire /\ OneRun /\ Started /\ StartsAnswered /\ Bound
  BY DEF RpcInv, RpcTypeOK, Transit
<1>3. /\ host'.task = (IF host.task = r THEN 0 ELSE host.task) /\ host'.future = 0 /\ host'.active = 0
      /\ host'.last = host.last /\ host'.lastSeq = host.lastSeq /\ host'.acked = host.acked
      /\ host'.wiped = (IF host.future \notin {0, r} THEN host.wiped \union {host.future} ELSE host.wiped)
      /\ host'.closed = host.closed /\ host'.callbacks = {} /\ host'.ready = {}
  BY <1>1, <1>2 DEF RpcTypeOK, HostTyped
<1>4. task[r] = "done" /\ host.wiped \subseteq host'.wiped
  BY <1>1, <1>2, <1>3 DEF OneRun
<1>5. RpcTypeOK'
  <2>1. StreamTyped' /\ RunsTyped'
    BY <1>1, <1>2 DEF RpcTypeOK, StreamTyped, SubTyped, RunsTyped, Event
  <2>2. ServerTyped' /\ PipesTyped' /\ ClientTyped'
    BY SMTT(30), <1>1, <1>2 DEF RpcTypeOK, ServerTyped, PipesTyped, ClientTyped
  <2>3. HostTyped'
    <3> DEFINE wiped == IF host.future \notin {0, r} THEN host.wiped \union {host.future} ELSE host.wiped
               t == IF host.task = r THEN 0 ELSE host.task
    <3>1. wiped \in SUBSET Runs /\ t \in 0 .. MaxRuns /\ 0 \in 0 .. MaxRuns
      BY <1>2, SessionAssumption DEF RpcTypeOK, HostTyped, Runs
    <3>2. host' = [host EXCEPT !.callbacks = {}, !.ready = {}, !.active = 0, !.future = 0,
                               !.wiped = wiped, !.task = t]
      BY <1>1
    <3> HIDE DEF wiped, t
    <3> QED BY <1>2, <3>1, <3>2 DEF RpcTypeOK, HostTyped
  <2> QED BY <2>1, <2>2, <2>3 DEF RpcTypeOK
<1>6. Wire'
  BY <1>1, <1>2, <1>3 DEF Wire
<1>7. OneRun'
  BY <1>1, <1>2, <1>3, <1>4 DEF OneRun
<1>8. Started'
  BY <1>1, <1>2, <1>3, <1>4 DEF Started, Starts
<1>9. StartsAnswered'
  BY <1>1, <1>2, <1>3, <1>4 DEF StartsAnswered, NeverStarted, Starts, proto
<1>10. Bound'
  BY <1>1, <1>2, <1>3 DEF Bound, proto
<1>11. Finishing'
  BY <1>1, <1>2, <1>3, FinishingStays
<1>12. ClientSide'
  <2>1. Grows /\ SubLogged(Len(log))'
    BY <1>1, <1>2, UnchangedGrows DEF GrowsQuietly, SubLogged
  <2> QED BY <1>1, <1>5, <2>1, PublishClient
<1> QED BY <1>5, <1>6, <1>7, <1>8, <1>9, <1>10, <1>11, <1>12, Zenon DEF RpcInv, ClientSide

-----------------------------------------------------------------------------
(* An event of a Run, or the request for a confirmation.                   *)
LEMMA EventsKeep ==
  ASSUME RpcInv, NEW r \in Runs, NEW type \in {"mid", "confirm"}, NEW onLoop \in BOOLEAN,
         Publish(r, type, onLoop), conf' \in [Runs -> 0 .. 2],
         UNCHANGED <<scope, fwd, task, aborted, host, harnessClosed, srv, link, req, toServer,
                     toClient, eof, cl, handle, shown, cutShort>>
  PROVE  RpcInv'
<1>1. RpcTypeOK /\ StreamTyped /\ Finishing
  BY DEF RpcInv, RpcTypeOK
<1>2. StreamTyped' /\ SubLogged(Len(log))' /\ UNCHANGED streamClosed
  BY PublishTypes
<1>3. GrowsQuietly
  BY <1>1, PublishEffect
<1>4. RpcTypeOK'
  <2>1. RunsTyped' /\ HostTyped'
    BY <1>1 DEF RpcTypeOK, RunsTyped, HostTyped
  <2>2. ServerTyped'
    BY <1>1 DEF RpcTypeOK, ServerTyped
  <2>3. PipesTyped' /\ ClientTyped'
    BY <1>1 DEF RpcTypeOK, PipesTyped, ClientTyped
  <2> QED BY <1>2, <2>1, <2>2, <2>3 DEF RpcTypeOK
<1>5. Finishing'
  BY <1>1, <1>2, FinishingStays
<1>6. Quiet /\ HostKept /\ PipeMoves
  BY DEF Quiet, Same, HostKept, PipeMoves
<1> QED BY <1>2, <1>3, <1>4, <1>5, <1>6, QuietKeeps

LEMMA RunEventsKeep ==
  ASSUME RpcInv, NEW r \in Runs, RunAsks(r) \/ \E onLoop \in BOOLEAN : RunEvent(r, onLoop)
  PROVE  RpcInv'
<1>1. conf \in [Runs -> 0 .. 2]
  BY DEF RpcInv, RpcTypeOK, RunsTyped
<1>2. CASE RunAsks(r)
  <2>1. /\ conf' = [conf EXCEPT ![r] = 1] /\ Publish(r, "confirm", TRUE)
        /\ UNCHANGED <<scope, fwd, task, aborted, host, harnessClosed, srv, link, req, toServer,
                       toClient, eof, cl, handle, shown, cutShort>>
    BY <1>2 DEF RunAsks, pipes, client
  <2>2. conf' \in [Runs -> 0 .. 2]
    BY <1>1, <2>1
  <2> QED BY <2>1, <2>2, EventsKeep
<1>3. ASSUME NEW onLoop \in BOOLEAN, RunEvent(r, onLoop) PROVE RpcInv'
  <2>1. /\ Publish(r, "mid", onLoop)
        /\ UNCHANGED <<scope, fwd, task, aborted, conf, host, harnessClosed, srv, link, req, toServer,
                       toClient, eof, cl, handle, shown, cutShort>>
    BY <1>3 DEF RunEvent, runs, pipes, client
  <2> QED BY <1>1, <2>1, EventsKeep
<1> QED BY <1>2, <1>3

(* the subscriber's queue and its forwarder                                *)
LEMMA StreamMovesKeep ==
  ASSUME RpcInv, SubFits(sub', Len(log)), fwd' \in {"running", "ended", "dead"},
         toClient' \in Seq([k : {"event", "response"}, n : Nat]), PipeMoves,
         UNCHANGED <<scope, log, streamClosed, task, aborted, conf, host, harnessClosed, srv, link,
                     req, toServer, eof, cl, handle, shown, cutShort>>
  PROVE  RpcInv'
<1>1. RpcTypeOK /\ StreamTyped /\ Finishing
  BY DEF RpcInv, RpcTypeOK
<1>2. SubTyped' /\ SubLogged(Len(log))'
  BY DEF SubFits, SubTyped, SubLogged
<1>3. RpcTypeOK'
  <2>1. StreamTyped' /\ RunsTyped' /\ HostTyped'
    BY <1>1, <1>2 DEF RpcTypeOK, StreamTyped, RunsTyped, HostTyped, Event
  <2>2. ServerTyped'
    BY <1>1 DEF RpcTypeOK, ServerTyped
  <2>3. PipesTyped' /\ ClientTyped'
    BY <1>1 DEF RpcTypeOK, PipesTyped, ClientTyped
  <2> QED BY <2>1, <2>2, <2>3 DEF RpcTypeOK
<1>4. Finishing'
  BY <1>1, FinishingStays
<1>5. Quiet /\ HostKept /\ GrowsQuietly
  BY <1>1, UnchangedGrows DEF Quiet, Same, HostKept
<1> QED BY <1>2, <1>3, <1>4, <1>5, QuietKeeps

LEMMA ScheduledPutKeeps ==
  ASSUME RpcInv, ScheduledPut
  PROVE  RpcInv'
<1>1. /\ sub.soon # <<>> /\ sub' = RunScheduled(sub)
      /\ UNCHANGED <<scope, log, streamClosed, fwd, task, aborted, conf, host, harnessClosed, srv,
                     link, req, toServer, toClient, eof, cl, handle, shown, cutShort>>
  BY DEF ScheduledPut, runs, pipes, client
<1>2. RpcTypeOK /\ StreamTyped /\ Transit /\ Len(log) \in Nat
  BY DEF RpcInv, RpcTypeOK, StreamTyped
<1>3. SubFits(sub, Len(log))
  BY <1>2 DEF StreamTyped, SubTyped, SubFits, Transit, SubLogged
<1>4. SubFits(RunScheduled(sub), Len(log))
  BY <1>1, <1>2, <1>3, RunScheduledFits
<1>5. /\ fwd' \in {"running", "ended", "dead"} /\ PipeMoves
      /\ toClient' \in Seq([k : {"event", "response"}, n : Nat])
  BY <1>1, <1>2 DEF StreamTyped, PipeMoves, RpcTypeOK, PipesTyped
<1> QED BY <1>1, <1>4, <1>5, StreamMovesKeep

LEMMA ForwardKeeps ==
  ASSUME RpcInv, Forward
  PROVE  RpcInv'
<1> DEFINE kind == NextKind(sub)
           e == [k |-> "event", n |-> NextItem(sub)]
<1>1. /\ HasNext(sub)
      /\ fwd' = CASE kind = "end" -> "ended"
                  [] kind = "dropped" -> "dead"
                  [] kind = "event" /\ link # "open" -> "dead"
                  [] OTHER -> "running"
      /\ sub' = IF kind = "dropped" THEN sub ELSE Consumed(sub)
      /\ toClient' = toClient \/ (kind = "event" /\ toClient' = Append(toClient, e))
      /\ UNCHANGED <<scope, log, streamClosed, task, aborted, conf, host, harnessClosed, srv,
                     link, req, toServer, eof, cl, handle, shown, cutShort>>
  BY DEF Forward, runs, client
<1>2. /\ RpcTypeOK /\ StreamTyped /\ Transit /\ Len(log) \in Nat
      /\ toClient \in Seq([k : {"event", "response"}, n : Nat])
  BY DEF RpcInv, RpcTypeOK, StreamTyped, PipesTyped
<1>3. SubFits(sub, Len(log)) /\ sub.replay = <<>> /\ sub.queue \in Seq(Nat)
  BY <1>2 DEF StreamTyped, SubTyped, SubFits, Transit, SubLogged
<1>4. fwd' \in {"running", "ended", "dead"}
  <2> HIDE DEF kind
  <2> QED BY <1>1
<1>5. kind \in {"event", "end"} =>
        /\ sub.queue # <<>> /\ Head(sub.queue) \in 0 .. Len(log)
        /\ kind = "event" => Head(sub.queue) # 0 /\ NextItem(sub) = Head(sub.queue)
        /\ Consumed(sub) = [sub EXCEPT !.queue = Tail(sub.queue)]
  <2> SUFFICES ASSUME kind \in {"event", "end"}
               PROVE  /\ sub.queue # <<>> /\ Head(sub.queue) \in 0 .. Len(log)
                      /\ kind = "event" => Head(sub.queue) # 0 /\ NextItem(sub) = Head(sub.queue)
                      /\ Consumed(sub) = [sub EXCEPT !.queue = Tail(sub.queue)]
    OBVIOUS
  <2>1. sub.queue # <<>> /\ (kind = "event" => Head(sub.queue) # CloseMark)
    BY <1>1, <1>3 DEF HasNext, NextKind
  <2>2. Head(sub.queue) \in Nat /\ Head(sub.queue) = sub.queue[1] /\ Len(sub.queue) \in Nat \ {0}
    BY <1>3, <2>1, Shortened
  <2>3. Head(sub.queue) \in 0 .. Len(log)
    BY <1>2, <1>3, <2>2 DEF SubFits
  <2>4. NextItem(sub) = Head(sub.queue) /\ Consumed(sub) = [sub EXCEPT !.queue = Tail(sub.queue)]
    BY <1>3 DEF NextItem, Consumed
  <2> QED BY <2>1, <2>3, <2>4 DEF CloseMark
<1>6. kind \in {"event", "end", "dropped"}
  BY DEF NextKind
<1>7. SubFits(sub', Len(log))
  <2>1. CASE kind = "dropped"
    BY <1>1, <1>3, <2>1
  <2>2. CASE kind # "dropped"
    <3>1. sub' = [sub EXCEPT !.queue = Tail(sub.queue)] /\ sub.queue # <<>>
      BY <1>1, <1>5, <1>6, <2>2
    <3>2. /\ Tail(sub.queue) \in Seq(Nat) /\ Len(Tail(sub.queue)) = Len(sub.queue) - 1
          /\ Len(sub.queue) \in Nat \ {0}
          /\ \A i \in 1 .. Len(sub.queue) - 1 : Tail(sub.queue)[i] = sub.queue[i + 1]
      BY <1>3, <3>1, Shortened
    <3>3. \A i \in 1 .. Len(Tail(sub.queue)) : Tail(sub.queue)[i] <= Len(log)
      <4>1. \A i \in 1 .. Len(sub.queue) - 1 : i + 1 \in 1 .. Len(sub.queue)
        BY <3>2
      <4> QED BY <1>3, <3>2, <4>1 DEF SubFits
    <3> QED BY <1>3, <3>1, <3>2, <3>3 DEF SubFits
  <2> QED BY <2>1, <2>2
<1>8. toClient' \in Seq([k : {"event", "response"}, n : Nat]) /\ PipeMoves
  <2>1. CASE toClient' = toClient
    BY <1>2, <2>1 DEF PipeMoves
  <2>2. CASE kind = "event" /\ toClient' = Append(toClient, e)
    <3>1. NextItem(sub) \in 1 .. Len(log)
      BY <1>2, <1>5, <2>2
    <3>2. e \in [k : {"event", "response"}, n : Nat] /\ e.k = "event" /\ e.n \in 1 .. Len(log)
      BY <1>2, <3>1
    <3> HIDE DEF e
    <3> QED BY <1>2, <2>2, <3>2, Appended DEF PipeMoves
  <2> QED BY <1>1, <2>1, <2>2
<1> QED BY <1>1, <1>4, <1>7, <1>8, StreamMovesKeep

LEMMA ServerDiesKeeps ==
  ASSUME RpcInv, ServerDies
  PROVE  RpcInv'
<1>1. /\ link = "open" /\ link' = "dead"
      /\ UNCHANGED <<scope, log, streamClosed, sub, fwd, task, aborted, conf, host, harnessClosed,
                     srv, req, toServer, toClient, eof, cl, handle, shown, cutShort>>
  BY DEF ServerDies, stream, runs, pipes, client
<1>2. RpcTypeOK /\ StreamTyped /\ Finishing /\ SubLogged(Len(log))
  BY DEF RpcInv, RpcTypeOK, Transit
<1>3. RpcTypeOK'
  <2>1. StreamTyped' /\ RunsTyped' /\ HostTyped'
    BY <1>1, <1>2 DEF RpcTypeOK, StreamTyped, SubTyped, RunsTyped, HostTyped, Event
  <2>2. ServerTyped'
    BY <1>1, <1>2 DEF RpcTypeOK, ServerTyped
  <2>3. PipesTyped' /\ ClientTyped'
    BY <1>1, <1>2 DEF RpcTypeOK, PipesTyped, ClientTyped
  <2> QED BY <2>1, <2>2, <2>3 DEF RpcTypeOK
<1>4. Finishing'
  BY <1>1, <1>2 DEF Finishing, BothClosed, ShutdownWaits
<1>5. Quiet /\ HostKept /\ GrowsQuietly /\ PipeMoves /\ SubLogged(Len(log))'
  BY <1>1, <1>2, UnchangedGrows DEF Quiet, Same, HostKept, PipeMoves, SubLogged
<1> QED BY <1>1, <1>3, <1>4, <1>5, QuietKeeps

-----------------------------------------------------------------------------
(* The client reads, gives up and closes.                                  *)
ClType == [st : {"new", "open", "closing", "closed"}, conn : {"open", "closed"},
           loop : {"running", "ended"}, error : BOOLEAN, inbound : Seq(Nat), history : Seq(Nat),
           last : Int, asked : Seq(Runs), asking : 0 .. MaxReq, init : 0 .. MaxReq,
           bye : 0 .. MaxReq]

ServerSame == UNCHANGED <<scope, log, streamClosed, sub, fwd, task, aborted, conf, host,
                          harnessClosed, srv, toServer, link, cutShort>>

LEMMA ClientMovesKeep ==
  ASSUME RpcInv, ServerSame, req' \in [Reqs -> Request], Quiet, eof' \in BOOLEAN,
         toClient' \in Seq([k : {"event", "response"}, n : Nat]), PipeMoves,
         cl' \in ClType, Logged(cl.inbound)', History', UNCHANGED <<handle, shown>>
  PROVE  RpcInv'
<1>1. RpcTypeOK /\ StreamTyped /\ HostSide /\ Finishing /\ Transit /\ Handles
  BY Parts DEF RpcInvParts, ClientSide, RpcTypeOK
<1>2. RpcTypeOK'
  <2>1. StreamTyped' /\ RunsTyped' /\ HostTyped'
    BY <1>1 DEF ServerSame, RpcTypeOK, StreamTyped, SubTyped, RunsTyped, HostTyped, Event
  <2>2. ServerTyped'
    BY <1>1 DEF ServerSame, RpcTypeOK, ServerTyped
  <2>3. PipesTyped' /\ ClientTyped'
    BY <1>1 DEF ServerSame, RpcTypeOK, PipesTyped, ClientTyped, ClType
  <2> QED BY <2>1, <2>2, <2>3 DEF RpcTypeOK
<1>3. GrowsQuietly /\ Grows /\ HostKept
  BY <1>1, UnchangedGrows DEF ServerSame, GrowsQuietly, HostKept
<1>4. HostSide'
  BY <1>1, <1>2, <1>3, Undisturbed DEF ServerSame
<1>5. Finishing'
  BY <1>1, QuietWaits, FinishingKept DEF ServerSame
<1>6. Handles'
  BY <1>1, <1>2, <1>3, QuietReplays, HandlesKept
<1>7. Transit'
  <2>1. PipeOf(toClient)
    BY <1>1 DEF Transit, PipeOf
  <2>2. \A i \in 1 .. Len(toClient') :
          toClient'[i].n \in IF toClient'[i].k = "event" THEN 1 .. Len(log') ELSE Reqs
    BY <1>1, <1>2, <1>3, <2>1, PipeKept
  <2>3. SubLogged(Len(log))'
    BY <1>1 DEF ServerSame, Transit, SubLogged
  <2> QED BY <2>2, <2>3 DEF Transit
<1> QED BY <1>2, <1>4, <1>5, <1>6, <1>7, Zenon DEF RpcInv, HostSide

LEMMA InboundStays ==
  ASSUME RpcInv, UNCHANGED log, cl'.inbound = cl.inbound
  PROVE  Logged(cl.inbound)'
  BY DEF RpcInv, Transit, Logged

LEMMA HistoryStays ==
  ASSUME RpcInv, UNCHANGED log, cl'.history = cl.history,
         cl.history # <<>> => cl'.last = cl.last, cl'.st = "new" => cl.st = "new"
  PROVE  History'
  BY DEF RpcInv, History, Logged, Consecutive

LEMMA ClosedEffect ==
  ASSUME RpcInv, req' = PendingClosed(req)
  PROVE  req' \in [Reqs -> Request] /\ Quiet
<1>1. req \in [Reqs -> Request]
  BY DEF RpcInv, RpcTypeOK, PipesTyped
<1>2. \A q \in Reqs : req'[q] = IF req[q].c = "pending" THEN [req[q] EXCEPT !.c = "closed"] ELSE req[q]
  BY DEF PendingClosed
<1>3. \A q \in Reqs : req'[q] \in Request /\ Same(q)
  BY ZenonT(30), <1>1, <1>2 DEF Request, Fates, Same
<1> QED BY <1>3 DEF PendingClosed, Quiet

LEMMA OneFateEffect ==
  ASSUME RpcInv, NEW q \in Reqs, NEW f \in Fates, req' = [req EXCEPT ![q].c = f]
  PROVE  req' \in [Reqs -> Request] /\ Quiet
<1>1. req \in [Reqs -> Request]
  BY DEF RpcInv, RpcTypeOK, PipesTyped
<1>2. req' = [req EXCEPT ![q] = [@ EXCEPT !.c = f]]
  OBVIOUS
<1> QED BY <1>1, <1>2 DEF Request, Quiet, Same

LEMMA CancelRequestKeeps ==
  ASSUME RpcInv, NEW q \in Reqs, NEW flushed \in BOOLEAN, CancelRequest(q, flushed)
  PROVE  RpcInv'
<1>1. PICK f \in {"abandoned", "unsent"} : req' = [req EXCEPT ![q].c = f]
  BY DEF CancelRequest
<1>2. ServerSame /\ UNCHANGED <<toClient, eof, cl, handle, shown>>
  BY DEF CancelRequest, ServerSame, stream, runs, pipes, client
<1>3. f \in Fates
  BY DEF Fates
<1>4. req' \in [Reqs -> Request] /\ Quiet
  BY <1>1, <1>3, OneFateEffect
<1>5. /\ eof' \in BOOLEAN /\ toClient' \in Seq([k : {"event", "response"}, n : Nat])
      /\ cl' \in ClType /\ PipeMoves
  BY <1>2 DEF RpcInv, RpcTypeOK, ServerTyped, PipesTyped, ClientTyped, ClType, PipeMoves
<1>6. Logged(cl.inbound)' /\ History'
  BY <1>2, InboundStays, HistoryStays DEF ServerSame
<1> QED BY <1>2, <1>4, <1>5, <1>6, ClientMovesKeep

(* the client takes a line off the pipe                                    *)
LEMMA TakenLine ==
  ASSUME RpcInv, toClient # <<>>, toClient' = Tail(toClient)
  PROVE  /\ toClient' \in Seq([k : {"event", "response"}, n : Nat]) /\ PipeMoves
         /\ Head(toClient).n \in IF Head(toClient).k = "event" THEN 1 .. Len(log) ELSE Reqs
<1>1. toClient \in Seq([k : {"event", "response"}, n : Nat]) /\ Transit
  BY DEF RpcInv, RpcTypeOK, PipesTyped
<1>2. /\ Head(toClient) = toClient[1] /\ Len(toClient) \in Nat \ {0}
      /\ Tail(toClient) \in Seq([k : {"event", "response"}, n : Nat])
  BY <1>1, Shortened
<1>3. Head(toClient).n \in IF Head(toClient).k = "event" THEN 1 .. Len(log) ELSE Reqs
  BY <1>1, <1>2 DEF Transit
<1> QED BY <1>2, <1>3 DEF PipeMoves

LEMMA ClientReadResponseKeeps ==
  ASSUME RpcInv, ClientReadResponse
  PROVE  RpcInv'
<1> DEFINE q == Head(toClient).n
<1>1. /\ toClient # <<>> /\ Head(toClient).k = "response" /\ toClient' = Tail(toClient)
      /\ \/ req' = PendingClosed(req)
         \/ req' = [req EXCEPT ![q].c = IF req[q].c = "pending" THEN "done" ELSE "gone"]
      /\ cl' = cl \/ cl' = [cl EXCEPT !.conn = "closed"]
      /\ UNCHANGED <<eof, handle, shown>>
  BY DEF ClientReadResponse
<1>2. ServerSame
  BY DEF ClientReadResponse, ServerSame, stream, runs
<1>3. toClient' \in Seq([k : {"event", "response"}, n : Nat]) /\ PipeMoves /\ q \in Reqs
  BY <1>1, TakenLine
<1>4. req' \in [Reqs -> Request] /\ Quiet
  <2>1. CASE req' = PendingClosed(req)
    BY <2>1, ClosedEffect
  <2>2. CASE req' = [req EXCEPT ![q].c = IF req[q].c = "pending" THEN "done" ELSE "gone"]
    <3> DEFINE f == IF req[q].c = "pending" THEN "done" ELSE "gone"
    <3>1. f \in Fates /\ req' = [req EXCEPT ![q].c = f]
      BY <2>2 DEF Fates
    <3> HIDE DEF f
    <3> QED BY <1>3, <3>1, OneFateEffect
  <2> QED BY <1>1, <2>1, <2>2
<1>5. /\ eof' \in BOOLEAN /\ cl' \in ClType
      /\ cl'.inbound = cl.inbound /\ cl'.history = cl.history /\ cl'.last = cl.last /\ cl'.st = cl.st
  BY <1>1 DEF RpcInv, RpcTypeOK, ServerTyped, ClientTyped, ClType
<1>6. Logged(cl.inbound)' /\ History'
  BY <1>2, <1>5, InboundStays, HistoryStays DEF ServerSame
<1> QED BY <1>1, <1>2, <1>3, <1>4, <1>5, <1>6, ClientMovesKeep

LEMMA ClientReadEventKeeps ==
  ASSUME RpcInv, ClientReadEvent
  PROVE  RpcInv'
<1>1. /\ toClient # <<>> /\ Head(toClient).k = "event" /\ toClient' = Tail(toClient)
      /\ \/ cl' = [cl EXCEPT !.conn = "closed"] /\ req' = PendingClosed(req)
         \/ cl' = [cl EXCEPT !.inbound = Append(cl.inbound, Head(toClient).n)] /\ req' = req
      /\ UNCHANGED <<eof, handle, shown>>
  BY DEF ClientReadEvent
<1>2. ServerSame
  BY DEF ClientReadEvent, ServerSame, stream, runs
<1>3. /\ toClient' \in Seq([k : {"event", "response"}, n : Nat]) /\ PipeMoves
      /\ Head(toClient).n \in 1 .. Len(log)
  BY <1>1, TakenLine
<1>4. /\ RpcTypeOK /\ Transit /\ Len(log) \in Nat /\ cl \in ClType /\ cl.inbound \in Seq(Nat)
  BY DEF RpcInv, RpcTypeOK, StreamTyped, ClientTyped, ClType
<1>5. req' \in [Reqs -> Request] /\ Quiet
  <2>1. CASE req' = PendingClosed(req)
    BY <2>1, ClosedEffect
  <2>2. CASE req' = req
    BY <1>4, <2>2 DEF RpcTypeOK, PipesTyped, Quiet, Same
  <2> QED BY <1>1, <2>1, <2>2
<1>6. cl' \in ClType /\ cl'.history = cl.history /\ cl'.last = cl.last /\ cl'.st = cl.st /\ Logged(cl.inbound)'
  <2>1. CASE cl' = [cl EXCEPT !.conn = "closed"]
    <3>1. cl' \in ClType /\ cl'.history = cl.history /\ cl'.last = cl.last /\ cl'.st = cl.st
          /\ cl'.inbound = cl.inbound
      BY <1>4, <2>1 DEF ClType
    <3> QED BY <1>2, <3>1, InboundStays DEF ServerSame
  <2>2. CASE cl' = [cl EXCEPT !.inbound = Append(cl.inbound, Head(toClient).n)]
    <3> DEFINE e == Head(toClient).n
               more == Append(cl.inbound, e)
    <3>1. e \in Nat
      BY <1>3, <1>4
    <3>2. /\ more \in Seq(Nat) /\ Len(more) = Len(cl.inbound) + 1 /\ Len(cl.inbound) \in Nat
          /\ \A i \in 1 .. Len(cl.inbound) : more[i] = cl.inbound[i]
          /\ more[Len(cl.inbound) + 1] = e
      BY <1>4, <3>1, Appended
    <3>3. \A i \in 1 .. Len(cl.inbound) : cl.inbound[i] \in 1 .. Len(log)
      BY <1>4 DEF Transit, Logged
    <3>4. \A i \in 1 .. Len(more) : more[i] \in 1 .. Len(log)
      <4>1. \A i \in 1 .. Len(more) : i \in 1 .. Len(cl.inbound) \/ i = Len(cl.inbound) + 1
        BY <3>2
      <4> QED BY <1>3, <3>2, <3>3, <4>1
    <3> HIDE DEF more, e
    <3>5. cl' = [cl EXCEPT !.inbound = more]
      BY <2>2 DEF more, e
    <3>6. cl' \in ClType /\ cl'.history = cl.history /\ cl'.last = cl.last /\ cl'.st = cl.st
          /\ cl'.inbound = more
      BY <1>4, <3>2, <3>5 DEF ClType
    <3> QED BY <1>2, <3>4, <3>6 DEF Logged, ServerSame
  <2> QED BY <1>1, <2>1, <2>2
<1>7. History' /\ eof' \in BOOLEAN
  BY <1>1, <1>2, <1>4, <1>6, HistoryStays DEF ServerSame, RpcTypeOK, ServerTyped
<1> QED BY <1>1, <1>2, <1>3, <1>5, <1>6, <1>7, ClientMovesKeep

(* the end of the pipe, and the transport given up                         *)
LEMMA ClientClosesKeep ==
  ASSUME RpcInv, ClientReadEof \/ CloseTransport \/ HandshakeEnds
  PROVE  RpcInv'
<1>1. /\ RpcTypeOK /\ History /\ cl \in ClType /\ req \in [Reqs -> Request]
      /\ toClient \in Seq([k : {"event", "response"}, n : Nat]) /\ eof \in BOOLEAN
  BY DEF RpcInv, RpcTypeOK, ServerTyped, PipesTyped, ClientTyped, ClType
<1>2. ServerSame /\ UNCHANGED <<toClient, handle, shown>>
  BY DEF ClientReadEof, CloseTransport, HandshakeEnds, ServerSame, stream, runs, pipes
<1>3. (req' = PendingClosed(req) \/ req' = req) /\ eof' \in BOOLEAN
  BY <1>1 DEF ClientReadEof, CloseTransport, HandshakeEnds, pipes
<1>4. req' \in [Reqs -> Request] /\ Quiet
  <2>1. CASE req' = PendingClosed(req)
    BY <2>1, ClosedEffect
  <2>2. CASE req' = req
    BY <1>1, <2>2 DEF Quiet, Same
  <2> QED BY <1>3, <2>1, <2>2
<1>5. cl' \in ClType /\ cl'.inbound = cl.inbound /\ cl'.history = cl.history
      /\ (cl.history # <<>> => cl'.last = cl.last) /\ (cl'.st = "new" => cl.st = "new")
  <2>1. CASE ClientReadEof
    <3>1. cl' = [cl EXCEPT !.conn = "closed"]
      BY <2>1 DEF ClientReadEof
    <3> QED BY <1>1, <3>1 DEF ClType
  <2>2. CASE CloseTransport
    <3>1. cl' = [cl EXCEPT !.st = "closed", !.conn = "closed", !.loop = "ended"]
      BY <2>2 DEF CloseTransport
    <3> QED BY <1>1, <3>1 DEF ClType
  <2>3. CASE HandshakeEnds
    <3>1. cl.init \in Reqs /\ cl.history = <<>>
      BY <1>1, <2>3 DEF HandshakeEnds, ClType, Reqs, History
    <3>2. req[cl.init].n \in Int
      BY <1>1, <3>1 DEF Request
    <3>3. \/ cl' = [cl EXCEPT !.st = "open", !.last = req[cl.init].n]
          \/ cl' = [cl EXCEPT !.st = "closed", !.conn = "closed", !.loop = "ended"]
      BY <2>3 DEF HandshakeEnds
    <3> QED BY ZenonT(30), <1>1, <3>1, <3>2, <3>3 DEF ClType
  <2> QED BY <2>1, <2>2, <2>3
<1>6. Logged(cl.inbound)' /\ History' /\ PipeMoves
  BY <1>2, <1>5, InboundStays, HistoryStays DEF ServerSame, PipeMoves
<1>7. toClient' \in Seq([k : {"event", "response"}, n : Nat])
  BY <1>1, <1>2
<1> QED BY <1>2, <1>3, <1>4, <1>5, <1>6, <1>7, ClientMovesKeep

-----------------------------------------------------------------------------
(* _event_loop: only consecutive numbers get into the history.             *)
LEMMA ConsecutiveAppend ==
  ASSUME NEW s \in Seq(Nat), Consecutive(s), NEW n \in Nat, s # <<>> => s[Len(s)] = n - 1
  PROVE  Consecutive(Append(s, n))
<1>1. /\ Len(Append(s, n)) = Len(s) + 1 /\ Len(s) \in Nat
      /\ \A i \in 1 .. Len(s) : Append(s, n)[i] = s[i] /\ s[i] \in Nat
      /\ Append(s, n)[Len(s) + 1] = n
  BY Appended
<1>2. s # <<>> => s[Len(s)] = s[1] + Len(s) - 1
  BY <1>1 DEF Consecutive
<1>3. ASSUME NEW i \in 1 .. Len(s) + 1 PROVE Append(s, n)[i] = Append(s, n)[1] + i - 1
  <2>1. CASE i \in 1 .. Len(s)
    BY <1>1, <2>1 DEF Consecutive
  <2>2. CASE i = Len(s) + 1 /\ s # <<>>
    <3>1. 1 \in 1 .. Len(s)
      BY <1>1, <2>2
    <3> QED BY SMTT(30), <1>1, <1>2, <2>2, <3>1
  <2>3. CASE i = Len(s) + 1 /\ s = <<>>
    BY <1>1, <2>3
  <2> QED BY <1>1, <2>1, <2>2, <2>3
<1> QED BY <1>1, <1>3 DEF Consecutive

LEMMA ConsecutiveTail ==
  ASSUME NEW s \in Seq(Nat), Consecutive(s), s # <<>>
  PROVE  /\ Consecutive(Tail(s))
         /\ Tail(s) # <<>> => Tail(s)[Len(Tail(s))] = s[Len(s)]
<1>1. /\ Len(s) \in Nat \ {0} /\ Len(Tail(s)) = Len(s) - 1 /\ Tail(s) \in Seq(Nat)
      /\ \A i \in 1 .. Len(s) - 1 : Tail(s)[i] = s[i + 1]
  BY Shortened
<1>2. ASSUME NEW i \in 1 .. Len(Tail(s)) PROVE Tail(s)[i] = Tail(s)[1] + i - 1
  <2>1. /\ i \in 1 .. Len(s) - 1 /\ 1 \in 1 .. Len(s) - 1 /\ i + 1 \in 1 .. Len(s) /\ 2 \in 1 .. Len(s)
        /\ 1 \in 1 .. Len(s)
    BY <1>1
  <2>2. s[i + 1] = s[1] + i /\ s[2] = s[1] + 1 /\ s[1] \in Nat
    <3>1. s[i + 1] = s[1] + (i + 1) - 1 /\ s[2] = s[1] + 2 - 1
      BY <2>1 DEF Consecutive
    <3>2. s[1] \in Nat
      BY <2>1
    <3> QED BY <3>1, <3>2
  <2>3. Tail(s)[i] = s[i + 1] /\ Tail(s)[1] = s[2]
    BY <1>1, <2>1
  <2> QED BY <2>2, <2>3
<1>3. ASSUME Tail(s) # <<>> PROVE Tail(s)[Len(Tail(s))] = s[Len(s)]
  <2>1. Len(s) - 1 \in 1 .. Len(s) - 1
    BY <1>1, <1>3
  <2> QED BY <1>1, <2>1
<1> QED BY <1>2, <1>3 DEF Consecutive

LEMMA EventLoopKeeps ==
  ASSUME RpcInv, EventLoop
  PROVE  RpcInv'
<1>1. /\ RpcTypeOK /\ Transit /\ History /\ cl \in ClType /\ log \in Seq(Event) /\ Len(log) \in Nat
      /\ cl.inbound \in Seq(Nat) /\ cl.history \in Seq(Nat) /\ cl.asked \in Seq(Runs)
      /\ scope.proto \in {1, 2} /\ cl.st \in {"open", "closing"} /\ cl.last \in Int
  <2>1. RpcTypeOK /\ Transit /\ History /\ cl \in ClType /\ log \in Seq(Event) /\ scope \in RpcScopes
    BY DEF RpcInv, RpcTypeOK, ServerTyped, StreamTyped, ClientTyped, ClType
  <2>2. scope.proto \in {1, 2}
    BY <2>1, SessionAssumption
  <2>3. cl.st \in {"open", "closing"}
    BY DEF EventLoop
  <2> QED BY <2>1, <2>2, <2>3 DEF ClType
<1>2. ServerSame /\ UNCHANGED <<req, toClient, eof, handle, shown>>
  BY DEF EventLoop, ServerSame, stream, runs, pipes
<1>3. /\ req' \in [Reqs -> Request] /\ Quiet /\ eof' \in BOOLEAN /\ PipeMoves
      /\ toClient' \in Seq([k : {"event", "response"}, n : Nat])
  BY <1>1, <1>2 DEF RpcTypeOK, PipesTyped, ServerTyped, Quiet, Same, PipeMoves
<1>4. CASE cl' = [cl EXCEPT !.loop = "ended", !.error = cl.error \/ cl.st # "closing"]
  <2>1. (cl.error \/ cl.st # "closing") \in BOOLEAN
    OBVIOUS
  <2>2. PICK b \in BOOLEAN : b = (cl.error \/ cl.st # "closing")
    BY <2>1
  <2>3. cl' = [cl EXCEPT !.loop = "ended", !.error = b]
    BY <1>4, <2>2, Zenon
  <2>4. cl' \in ClType /\ cl'.inbound = cl.inbound /\ cl'.history = cl.history
        /\ cl'.last = cl.last /\ cl'.st = cl.st
    BY <1>1, <2>3 DEF ClType
  <2>5. Logged(cl.inbound)' /\ History'
    BY <1>2, <2>4, InboundStays, HistoryStays DEF ServerSame
  <2> QED BY <1>2, <1>3, <2>4, <2>5, ClientMovesKeep
<1>5. ASSUME cl.inbound # <<>>
      PROVE  /\ Head(cl.inbound) \in 1 .. Len(log) /\ Tail(cl.inbound) \in Seq(Nat)
             /\ Logged(Tail(cl.inbound))
  <2>1. /\ Head(cl.inbound) = cl.inbound[1] /\ Len(cl.inbound) \in Nat \ {0}
        /\ Tail(cl.inbound) \in Seq(Nat) /\ Len(Tail(cl.inbound)) = Len(cl.inbound) - 1
        /\ \A i \in 1 .. Len(cl.inbound) - 1 : Tail(cl.inbound)[i] = cl.inbound[i + 1]
    BY <1>1, <1>5, Shortened
  <2>2. \A i \in 1 .. Len(cl.inbound) : cl.inbound[i] \in 1 .. Len(log)
    BY <1>1 DEF Transit, Logged
  <2>3. \A i \in 1 .. Len(cl.inbound) - 1 : i + 1 \in 1 .. Len(cl.inbound)
    BY <2>1
  <2> QED BY SMTT(30), <2>1, <2>2, <2>3 DEF Logged
<1> DEFINE rest == Tail(cl.inbound)
           base == [cl EXCEPT !.inbound = rest]
           n == Head(cl.inbound)
           kept == Append(cl.history, n)
           hist == IF Len(kept) > InboundCapacity THEN Tail(kept) ELSE kept
           ask == IF log[n].type = "confirm" THEN Append(cl.asked, log[n].run) ELSE cl.asked
<1>6. cl.inbound # <<>> =>
        /\ base \in ClType /\ base.inbound = rest /\ base.history = cl.history
        /\ base.last = cl.last /\ base.st = cl.st /\ base.asked = cl.asked
  <2> HIDE DEF rest
  <2> QED BY <1>1, <1>5 DEF ClType, rest
<1>7. CASE cl.inbound # <<>> /\ (cl' = base \/ cl' = [base EXCEPT !.loop = "ended", !.error = TRUE])
  <2>1. rest \in Seq(Nat) /\ Logged(rest)
    BY <1>5, <1>7
  <2>2. cl' \in ClType /\ cl'.inbound = rest /\ cl'.history = cl.history
        /\ cl'.last = cl.last /\ cl'.st = cl.st
    <3> HIDE DEF base
    <3> QED BY <1>7, <1>6 DEF ClType
  <2>3. Logged(cl.inbound)' /\ History'
    BY <1>2, <2>1, <2>2, HistoryStays DEF ServerSame, Logged
  <2> QED BY <1>2, <1>3, <2>2, <2>3, ClientMovesKeep
<1>8. CASE /\ cl.inbound # <<>> /\ n = cl.last + 1
           /\ cl' = [base EXCEPT !.last = n, !.history = hist, !.asked = ask]
  <2>1. rest \in Seq(Nat) /\ Logged(rest) /\ n \in 1 .. Len(log) /\ n \in Nat /\ n \in Int
    BY <1>1, <1>5, <1>8
  <2>2. /\ kept \in Seq(Nat) /\ Len(kept) = Len(cl.history) + 1 /\ Len(cl.history) \in Nat
        /\ \A i \in 1 .. Len(cl.history) : kept[i] = cl.history[i]
        /\ kept[Len(cl.history) + 1] = n
    BY <1>1, <2>1, Appended
  <2>3. kept # <<>> /\ kept[Len(kept)] = n /\ Logged(kept)
    <3>1. \A i \in 1 .. Len(kept) : i \in 1 .. Len(cl.history) \/ i = Len(cl.history) + 1
      BY <2>2
    <3>2. Logged(kept)
      BY <1>1, <2>1, <2>2, <3>1 DEF History, Logged
    <3>3. kept[Len(kept)] = n /\ Len(kept) # 0
      BY <2>2
    <3> QED BY SMTT(30), <3>2, <3>3
  <2>4. Consecutive(kept)
    <3>1. cl.history # <<>> => cl.history[Len(cl.history)] = n - 1
      BY SMTT(30), <1>1, <1>8 DEF History
    <3> QED BY <1>1, <2>1, <3>1, ConsecutiveAppend DEF History
  <2>5. /\ hist \in Seq(Nat) /\ Logged(hist) /\ Consecutive(hist)
        /\ hist # <<>> => hist[Len(hist)] = n
    <3> HIDE DEF kept
    <3>1. CASE Len(kept) > InboundCapacity
      <4>1. hist = Tail(kept)
        BY <3>1
      <4>2. /\ Tail(kept) \in Seq(Nat) /\ Len(Tail(kept)) = Len(kept) - 1 /\ Len(kept) \in Nat
            /\ \A i \in 1 .. Len(kept) - 1 : Tail(kept)[i] = kept[i + 1]
        BY <2>2, <2>3, Shortened
      <4>3. Logged(Tail(kept))
        <5>1. \A i \in 1 .. Len(kept) - 1 : i + 1 \in 1 .. Len(kept)
          BY <4>2
        <5> QED BY <2>3, <4>2, <5>1 DEF Logged
      <4> QED BY <2>2, <2>3, <2>4, <4>1, <4>2, <4>3, ConsecutiveTail
    <3>2. CASE ~(Len(kept) > InboundCapacity)
      BY <2>2, <2>3, <2>4, <3>2
    <3> QED BY <3>1, <3>2
  <2>6. ask \in Seq(Runs)
    <3>1. log[n] \in Event
      BY <1>1, <2>1
    <3>2. log[n].run \in Runs
      BY <3>1 DEF Event
    <3> QED BY <1>1, <3>2, Appended
  <2> HIDE DEF base, rest, n, kept, hist, ask
  <2>7. /\ cl' \in ClType /\ cl'.inbound = rest /\ cl'.history = hist /\ cl'.last = n
        /\ cl'.st = cl.st
    BY <1>8, <1>6, <2>1, <2>5, <2>6 DEF ClType
  <2>8. Logged(cl.inbound)' /\ History'
    BY <1>1, <1>2, <2>1, <2>5, <2>7 DEF ServerSame, Logged, History, Consecutive
  <2> QED BY <1>2, <1>3, <2>7, <2>8, ClientMovesKeep
<1>9. \/ cl' = [cl EXCEPT !.loop = "ended", !.error = cl.error \/ cl.st # "closing"]
      \/ /\ cl.inbound # <<>>
         /\ \/ cl' = base
            \/ cl' = [base EXCEPT !.loop = "ended", !.error = TRUE]
            \/ /\ n = cl.last + 1
               /\ cl' = [base EXCEPT !.last = n, !.history = hist, !.asked = ask]
  <2>1. CASE cl.inbound = <<>>
    BY <2>1 DEF EventLoop
  <2>2. CASE cl.inbound # <<>>
    <3>1. n \in Int /\ base.asked = cl.asked
      BY <1>1, <1>5, <1>6, <2>2
    <3>2. cl' = CASE scope.proto = 1 \/ n <= cl.last -> base
                  [] scope.proto = 2 /\ n > cl.last + 1 -> [base EXCEPT !.loop = "ended", !.error = TRUE]
                  [] OTHER -> [base EXCEPT !.last = n, !.history = hist,
                                           !.asked = IF log[n].type = "confirm"
                                                     THEN Append(base.asked, log[n].run) ELSE base.asked]
      BY <2>2 DEF EventLoop, proto
    <3> HIDE DEF base, n, hist
    <3>3. ~(scope.proto = 1 \/ n <= cl.last) /\ ~(scope.proto = 2 /\ n > cl.last + 1) => n = cl.last + 1
      BY <1>1, <3>1
    <3> QED BY <2>2, <3>1, <3>2, <3>3
  <2> QED BY <2>1, <2>2
<1> QED BY <1>4, <1>7, <1>8, <1>9

-----------------------------------------------------------------------------
(* The client sends.                                                       *)
HandleType == [st : {"none", "replay", "live", "done", "failed"}, seq : Int, q : 0 .. MaxReq]

LEMMA SentMovesKeep ==
  ASSUME RpcInv, NEW m \in Methods \ {"none"}, NEW r \in 0 .. MaxRuns, NEW n \in Int, Sent(m, r, n),
         m \in {"steer", "abort", "list", "respond"} => r \in Runs,
         UNCHANGED <<scope, log, streamClosed, sub, fwd, task, aborted, conf, host, harnessClosed,
                     srv, link, toClient, eof, shown, cutShort>>,
         cl' \in ClType, cl'.inbound = cl.inbound, cl'.history = cl.history, cl'.last = cl.last,
         cl'.st = "new" => cl.st = "new", handle' \in [Runs -> HandleType]
  PROVE  /\ RpcTypeOK' /\ HostSide' /\ Finishing' /\ Transit' /\ History' /\ ReplaysKept
         /\ Free \in Reqs /\ req'[Free].m = m
<1>1. RpcTypeOK /\ HostSide /\ Finishing /\ Transit /\ Handles /\ StreamTyped
  BY Parts DEF RpcInvParts, ClientSide, RpcTypeOK
<1>2. /\ Free \in Reqs /\ req[Free].m = "none"
      /\ req' \in [Reqs -> Request] /\ Elsewhere(Free)
      /\ req'[Free].m = m /\ req'[Free].run = r /\ req'[Free].n = n
      /\ req'[Free].s = "wire" /\ req'[Free].code = "none"
      /\ toServer' = Append(toServer, Free) /\ toServer' \in Seq(Reqs)
  BY <1>1, SentEffect
<1>3. PICK f \in Reqs : f = Free
  BY <1>2
<1>4. RpcTypeOK'
  <2>1. StreamTyped' /\ RunsTyped' /\ HostTyped'
    BY <1>1 DEF RpcTypeOK, StreamTyped, SubTyped, RunsTyped, HostTyped, Event
  <2>2. ServerTyped'
    BY <1>1 DEF RpcTypeOK, ServerTyped
  <2>3. PipesTyped'
    BY <1>1, <1>2 DEF RpcTypeOK, PipesTyped
  <2>4. ClientTyped'
    BY <1>1 DEF RpcTypeOK, ClientTyped, ClType, HandleType
  <2> QED BY <2>1, <2>2, <2>3, <2>4 DEF RpcTypeOK
<1>5. /\ req[f].m = "none" /\ Elsewhere(f) /\ req'[f].m = m /\ req'[f].run = r
      /\ req'[f].s = "wire" /\ req'[f].code = "none" /\ toServer' = Append(toServer, f)
  BY <1>2, <1>3
<1>6. HostSide'
  BY <1>1, <1>4, <1>5, SentKeeps
<1>7. Finishing'
  <2>1. req[f].s = "none"
    BY <1>1, <1>5 DEF HostSide, Wire
  <2>2. ShutdownWaits => ShutdownWaits'
    BY <1>5, <2>1 DEF ShutdownWaits, Elsewhere, Same
  <2> QED BY <1>1, <2>2, FinishingKept
<1>8. Transit'
  BY <1>1 DEF Transit, SubLogged, Logged
<1>9. History'
  BY HistoryStays
<1>10. ReplaysKept
  BY <1>1, <1>5, MovedReplays
<1> QED BY <1>2, <1>4, <1>6, <1>7, <1>8, <1>9, <1>10

LEMMA SentRequestKeeps ==
  ASSUME RpcInv, NEW m \in Methods \ {"none"}, NEW r \in 0 .. MaxRuns, NEW n \in Int, Sent(m, r, n),
         m \in {"steer", "abort", "list", "respond"} => r \in Runs,
         UNCHANGED <<scope, log, streamClosed, sub, fwd, task, aborted, conf, host, harnessClosed,
                     srv, link, toClient, eof, handle, shown, cutShort>>,
         cl' \in ClType, cl'.inbound = cl.inbound, cl'.history = cl.history, cl'.last = cl.last,
         cl'.st = "new" => cl.st = "new"
  PROVE  RpcInv'
<1>1. RpcTypeOK /\ Handles /\ StreamTyped
  BY DEF RpcInv, RpcTypeOK
<1>2. handle' \in [Runs -> HandleType]
  BY <1>1 DEF RpcTypeOK, ClientTyped, HandleType
<1>3. RpcTypeOK' /\ HostSide' /\ Finishing' /\ Transit' /\ History' /\ ReplaysKept
  BY <1>2, SentMovesKeep
<1>4. Grows
  BY <1>1, UnchangedGrows DEF GrowsQuietly
<1>5. Handles'
  BY <1>1, <1>3, <1>4, HandlesKept
<1> QED BY <1>3, <1>5, Zenon DEF RpcInv, HostSide

LEMMA HandshakeKeeps ==
  ASSUME RpcInv, NEW m \in {"initialize", "badinit"}, Handshake(m)
  PROVE  RpcInv'
<1>1. /\ Sent(m, 0, 0) /\ cl' = [cl EXCEPT !.init = Free]
      /\ UNCHANGED <<scope, log, streamClosed, sub, fwd, task, aborted, conf, host, harnessClosed,
                     srv, link, toClient, eof, handle, shown, cutShort>>
  BY DEF Handshake, stream, runs
<1>2. RpcTypeOK /\ cl \in ClType
  BY DEF RpcInv, RpcTypeOK, ClientTyped, ClType
<1>3. Free \in 0 .. MaxReq /\ 0 \in 0 .. MaxRuns
  <2>1. Free \in Reqs
    BY <1>1, <1>2, FreeIsUnused DEF Sent
  <2> QED BY <2>1, SessionAssumption DEF Reqs
<1>4. PICK f \in 0 .. MaxReq : f = Free
  BY <1>3
<1>5. cl' = [cl EXCEPT !.init = f]
  BY <1>1, <1>4
<1>6. /\ cl' \in ClType /\ cl'.inbound = cl.inbound /\ cl'.history = cl.history
      /\ cl'.last = cl.last /\ cl'.st = cl.st
  BY <1>2, <1>5 DEF ClType
<1>7. m \in Methods \ {"none"} /\ m \notin {"steer", "abort", "list", "respond"}
  BY DEF Methods
<1> QED BY <1>1, <1>3, <1>6, <1>7, SentRequestKeeps

LEMMA UserRequestKeeps ==
  ASSUME RpcInv, NEW m \in {"start", "steer", "abort"}, NEW r \in 0 .. MaxRuns, UserRequest(m, r),
         m # "start" => r \in Runs
  PROVE  RpcInv'
<1>1. /\ Sent(m, r, 0)
      /\ UNCHANGED <<scope, log, streamClosed, sub, fwd, task, aborted, conf, host, harnessClosed,
                     srv, link, toClient, eof, cl, handle, shown, cutShort>>
  BY DEF UserRequest, stream, runs, client
<1>2. cl' \in ClType
  BY <1>1 DEF RpcInv, RpcTypeOK, ClientTyped, ClType
<1>3. m \in Methods \ {"none"} /\ (m \in {"steer", "abort", "list", "respond"} => r \in Runs)
  BY DEF Methods
<1> QED BY <1>1, <1>2, <1>3, SentRequestKeeps

LEMMA ConfirmationLoopKeeps ==
  ASSUME RpcInv, ConfirmationLoop
  PROVE  RpcInv'
<1> DEFINE r == Head(cl.asked)
<1>1. /\ cl.asked # <<>>
      /\ \/ \E m \in {"list", "respond"}, n \in {0, 1} :
              Sent(m, r, n) /\ cl' = [cl EXCEPT !.asking = Free]
         \/ cl' = [cl EXCEPT !.asked = Tail(cl.asked), !.asking = 0] /\ UNCHANGED <<req, toServer>>
      /\ UNCHANGED <<scope, log, streamClosed, sub, fwd, task, aborted, conf, host, harnessClosed,
                     srv, link, toClient, eof, handle, shown, cutShort>>
  BY DEF ConfirmationLoop, stream, runs
<1>2. RpcTypeOK /\ cl \in ClType /\ cl.asked \in Seq(Runs)
  BY DEF RpcInv, RpcTypeOK, ClientTyped, ClType
<1>3. r \in Runs /\ r \in 0 .. MaxRuns /\ Tail(cl.asked) \in Seq(Runs)
  <2>1. r \in Runs /\ Tail(cl.asked) \in Seq(Runs)
    BY <1>1, <1>2, Shortened
  <2> HIDE DEF r
  <2> QED BY <2>1, SessionAssumption DEF Runs
<1> HIDE DEF r
<1>4. ASSUME NEW m \in {"list", "respond"}, NEW n \in {0, 1}, Sent(m, r, n),
             cl' = [cl EXCEPT !.asking = Free]
      PROVE  RpcInv'
  <2>1. Free \in 0 .. MaxReq
    <3>1. Free \in Reqs
      BY <1>2, <1>4, FreeIsUnused DEF Sent
    <3> QED BY <3>1, SessionAssumption DEF Reqs
  <2>2. PICK f \in 0 .. MaxReq : f = Free
    BY <2>1
  <2>3. cl' = [cl EXCEPT !.asking = f]
    BY <1>4, <2>2
  <2>4. /\ cl' \in ClType /\ cl'.inbound = cl.inbound /\ cl'.history = cl.history
        /\ cl'.last = cl.last /\ cl'.st = cl.st
    BY <1>2, <2>3 DEF ClType
  <2>5. m \in Methods \ {"none"} /\ n \in Int
    BY DEF Methods
  <2> QED BY <1>1, <1>3, <1>4, <2>4, <2>5, SentRequestKeeps
<1>5. CASE cl' = [cl EXCEPT !.asked = Tail(cl.asked), !.asking = 0] /\ UNCHANGED <<req, toServer>>
  <2>1. 0 \in 0 .. MaxReq
    BY SessionAssumption
  <2>2. /\ cl' \in ClType /\ cl'.inbound = cl.inbound /\ cl'.history = cl.history
        /\ cl'.last = cl.last /\ cl'.st = cl.st
    BY <1>2, <1>3, <1>5, <2>1 DEF ClType
  <2>3. /\ ServerSame /\ Quiet /\ PipeMoves /\ eof' \in BOOLEAN /\ req' \in [Reqs -> Request]
        /\ toClient' \in Seq([k : {"event", "response"}, n : Nat])
    BY <1>1, <1>2, <1>5 DEF ServerSame, Quiet, Same, PipeMoves, RpcTypeOK, ServerTyped, PipesTyped
  <2>4. Logged(cl.inbound)' /\ History'
    BY <1>1, <2>2, InboundStays, HistoryStays
  <2> QED BY <1>1, <2>2, <2>3, <2>4, ClientMovesKeep
<1> QED BY <1>1, <1>4, <1>5

LEMMA AcloseKeeps ==
  ASSUME RpcInv, Aclose
  PROVE  RpcInv'
<1>1. /\ \/ Sent("shutdown", 0, 0) /\ cl' = [cl EXCEPT !.st = "closing", !.bye = Free]
         \/ cl' = [cl EXCEPT !.st = "closing"] /\ UNCHANGED <<req, toServer>>
      /\ UNCHANGED <<scope, log, streamClosed, sub, fwd, task, aborted, conf, host, harnessClosed,
                     srv, link, toClient, eof, handle, shown, cutShort>>
  BY DEF Aclose, stream, runs
<1>2. RpcTypeOK /\ cl \in ClType
  BY DEF RpcInv, RpcTypeOK, ClientTyped, ClType
<1>3. CASE Sent("shutdown", 0, 0) /\ cl' = [cl EXCEPT !.st = "closing", !.bye = Free]
  <2>1. Free \in 0 .. MaxReq /\ 0 \in 0 .. MaxRuns
    <3>1. Free \in Reqs
      BY <1>2, <1>3, FreeIsUnused DEF Sent
    <3> QED BY <3>1, SessionAssumption DEF Reqs
  <2>2. PICK f \in 0 .. MaxReq : f = Free
    BY <2>1
  <2>3. cl' = [cl EXCEPT !.st = "closing", !.bye = f]
    BY <1>3, <2>2
  <2>4. /\ cl' \in ClType /\ cl'.inbound = cl.inbound /\ cl'.history = cl.history
        /\ cl'.last = cl.last /\ cl'.st = "closing"
    BY <1>2, <2>3 DEF ClType
  <2>5. "shutdown" \in Methods \ {"none"}
    BY DEF Methods
  <2> QED BY <1>1, <1>3, <2>1, <2>4, <2>5, SentRequestKeeps
<1>4. CASE cl' = [cl EXCEPT !.st = "closing"] /\ UNCHANGED <<req, toServer>>
  <2>1. /\ cl' \in ClType /\ cl'.inbound = cl.inbound /\ cl'.history = cl.history
        /\ cl'.last = cl.last /\ cl'.st = "closing"
    BY <1>2, <1>4 DEF ClType
  <2>2. /\ ServerSame /\ Quiet /\ PipeMoves /\ eof' \in BOOLEAN /\ req' \in [Reqs -> Request]
        /\ toClient' \in Seq([k : {"event", "response"}, n : Nat])
    BY <1>1, <1>2, <1>4 DEF ServerSame, Quiet, Same, PipeMoves, RpcTypeOK, ServerTyped, PipesTyped
  <2>3. Logged(cl.inbound)' /\ History'
    BY <1>1, <2>1, InboundStays, HistoryStays
  <2> QED BY <1>1, <2>1, <2>2, <2>3, ClientMovesKeep
<1> QED BY <1>1, <1>3, <1>4

-----------------------------------------------------------------------------
(* The handles.  Opening one asks for a replay behind the cursor that its  *)
(* run.start returned.                                                     *)
LEMMA HandleOpensKeeps ==
  ASSUME RpcInv, NEW q \in Reqs, HandleOpens(q)
  PROVE  RpcInv'
<1>1. /\ proto = 2 /\ req[q].m = "start" /\ req[q].code = "ok" /\ handle[req[q].run].st = "none"
      /\ Sent("replay", req[q].run, req[q].n - 1)
      /\ handle' = [handle EXCEPT ![req[q].run] = [st |-> "replay", seq |-> req[q].n - 1, q |-> Free]]
      /\ UNCHANGED <<scope, log, streamClosed, sub, fwd, task, aborted, conf, host, harnessClosed,
                     srv, link, toClient, eof, cl, shown, cutShort>>
  BY DEF HandleOpens, stream, runs
<1>2. /\ RpcTypeOK /\ Handles /\ StartsAnswered /\ StreamTyped /\ cl \in ClType
      /\ handle \in [Runs -> HandleType] /\ req[q].n \in Int
  BY DEF RpcInv, RpcTypeOK, ClientTyped, PipesTyped, ClType, HandleType, Request
<1>3. PICK r \in Runs, n \in Int : r = req[q].run /\ n = req[q].n
  BY <1>1, <1>2 DEF StartsAnswered
<1>4. Starts(n, r) /\ r \in 0 .. MaxRuns
  BY <1>1, <1>2, <1>3, SessionAssumption DEF StartsAnswered, Runs
<1>5. Free \in Reqs /\ Free \in 0 .. MaxReq
  <2>1. Free \in Reqs
    BY <1>1, <1>2, FreeIsUnused DEF Sent
  <2> QED BY <2>1, SessionAssumption DEF Reqs
<1>6. PICK f \in Reqs : f = Free /\ f \in 0 .. MaxReq
  BY <1>5
<1> DEFINE h == [st |-> "replay", seq |-> n - 1, q |-> f]
<1>7. h \in HandleType /\ h.st = "replay" /\ h.seq = n - 1 /\ h.q = f
  BY <1>6 DEF HandleType
<1>8. handle' = [handle EXCEPT ![r] = h]
  BY <1>1, <1>3, <1>6
<1> HIDE DEF h
<1>9. /\ handle' \in [Runs -> HandleType] /\ handle'[r] = h
      /\ \A x \in Runs \ {r} : handle'[x] = handle[x]
  BY <1>2, <1>7, <1>8
<1>10. /\ RpcTypeOK' /\ HostSide' /\ Finishing' /\ Transit' /\ History' /\ ReplaysKept
       /\ req'[f].m = "replay"
  <2>1. "replay" \in Methods \ {"none"} /\ n - 1 \in Int /\ Sent("replay", r, n - 1)
    BY <1>1, <1>3 DEF Methods
  <2>2. cl' \in ClType /\ cl'.inbound = cl.inbound /\ cl'.history = cl.history
        /\ cl'.last = cl.last /\ cl'.st = cl.st
    BY <1>1, <1>2
  <2>3. /\ RpcTypeOK' /\ HostSide' /\ Finishing' /\ Transit' /\ History' /\ ReplaysKept
        /\ req'[Free].m = "replay"
    BY <1>1, <1>4, <1>9, <2>1, <2>2, SentMovesKeep
  <2> QED BY <1>6, <2>3
<1>11. Handles'
  <2>1. shown[r] = <<>>
    BY <1>1, <1>2, <1>3 DEF Handles
  <2>2. Starts(n, r)'
    BY <1>1, <1>4 DEF Starts
  <2> SUFFICES ASSUME NEW x \in Runs
               PROVE  /\ handle'[x].st = "none" => shown'[x] = <<>>
                      /\ handle'[x].st \in {"replay", "live"} =>
                           IF shown'[x] = <<>> THEN Starts(handle[x].seq + 1, x)'
                           ELSE shown'[x][Len(shown'[x])] = handle'[x].seq
                      /\ handle'[x].st = "replay" =>
                           shown'[x] = <<>> /\ handle'[x].q \in Reqs /\ req'[handle'[x].q].m = "replay"
    BY <1>10 DEF Handles, ReplaysKept
  <2>3. CASE x = r
    <3>1. Starts(handle[x].seq + 1, x)'
      <4>1. handle'[x].seq + 1 = n
        BY <1>7, <1>9, <2>3
      <4> QED BY <2>2, <2>3, <4>1 DEF Starts
    <3> QED BY <1>1, <1>7, <1>9, <1>10, <2>1, <2>3, <3>1
  <2>4. CASE x # r
    <3>1. handle'[x] = handle[x]
      BY <1>9, <2>4
    <3>2. Starts(handle[x].seq + 1, x) => Starts(handle[x].seq + 1, x)'
      BY <1>1, <3>1 DEF Starts
    <3> QED BY <1>1, <1>2, <1>10, <3>1, <3>2 DEF Handles, ReplaysKept
  <2> QED BY <2>3, <2>4
<1> QED BY <1>10, <1>11, Zenon DEF RpcInv, HostSide

-----------------------------------------------------------------------------
(* What the local history holds behind a cursor.                           *)
Behinds(f, s, cursor, m) ==
  f = [i \in 0 .. m |-> IF i = 0 THEN <<>>
                        ELSE IF s[i] > cursor THEN Append(f[i - 1], s[i]) ELSE f[i - 1]]

(* the recursion of Behind is that of a function                           *)
LEMMA BehindDefined ==
  ASSUME NEW s, Len(s) \in Nat, NEW cursor
  PROVE  \E f : Behinds(f, s, cursor, Len(s)) /\ Behind(s, cursor) = f[Len(s)]
<1>1. \A m \in Nat : \E f : Behinds(f, s, cursor, m)
  <2> DEFINE None == {m \in Nat : ~\E f : Behinds(f, s, cursor, m)}
  <2> SUFFICES ASSUME None # {} PROVE FALSE
    OBVIOUS
  <2>1. PICK m \in None : \A x \in None : m <= x
    BY LeastOf
  <2>2. m # 0
    <3>1. Behinds([i \in 0 .. 0 |-> <<>>], s, cursor, 0)
      BY DEF Behinds
    <3> QED BY <2>1, <3>1
  <2>3. m - 1 \in Nat /\ m - 1 \notin None
    BY <2>1, <2>2
  <2>4. PICK g : Behinds(g, s, cursor, m - 1)
    BY <2>3
  <2> DEFINE last == IF s[m] > cursor THEN Append(g[m - 1], s[m]) ELSE g[m - 1]
             f == [i \in 0 .. m |-> IF i = m THEN last ELSE g[i]]
  <2>5. \A i \in 0 .. m : f[i] = IF i = 0 THEN <<>>
                                 ELSE IF s[i] > cursor THEN Append(f[i - 1], s[i]) ELSE f[i - 1]
    <3> SUFFICES ASSUME NEW i \in 0 .. m
                 PROVE  f[i] = IF i = 0 THEN <<>>
                               ELSE IF s[i] > cursor THEN Append(f[i - 1], s[i]) ELSE f[i - 1]
      OBVIOUS
    <3>1. CASE i = m
      <4>1. i # 0 /\ i - 1 \in 0 .. m - 1 /\ f[i - 1] = g[i - 1] /\ f[i] = last
        BY <2>2, <2>3, <3>1
      <4> QED BY <3>1, <4>1
    <3>2. CASE i # m
      <4>1. i \in 0 .. m - 1 /\ f[i] = g[i]
        BY <2>3, <3>2
      <4>2. i # 0 => i - 1 \in 0 .. m - 1 /\ f[i - 1] = g[i - 1]
        BY <2>3, <3>2
      <4>3. g[i] = IF i = 0 THEN <<>>
                   ELSE IF s[i] > cursor THEN Append(g[i - 1], s[i]) ELSE g[i - 1]
        BY <2>4, <4>1 DEF Behinds
      <4> QED BY <4>1, <4>2, <4>3
    <3> QED BY <3>1, <3>2
  <2>6. Behinds(f, s, cursor, m)
    <3>1. f = [i \in 0 .. m |-> f[i]]
      OBVIOUS
    <3> HIDE DEF f
    <3> QED BY <2>5, <3>1 DEF Behinds
  <2> QED BY <2>1, <2>6
<1> DEFINE f == CHOOSE f : Behinds(f, s, cursor, Len(s))
<1>2. Behinds(f, s, cursor, Len(s))
  BY <1>1, Zenon
<1>3. Behind(s, cursor) = f[Len(s)]
  BY DEF Behind, Behinds
<1> QED BY <1>2, <1>3

(* of an unbroken piece of the log it is an unbroken piece                 *)
LEMMA BehindConsecutive ==
  ASSUME NEW s \in Seq(Nat), Consecutive(s), NEW cursor \in Int
  PROVE  /\ Behind(s, cursor) \in Seq(Nat) /\ Consecutive(Behind(s, cursor))
         /\ \A i \in 1 .. Len(Behind(s, cursor)) : \E j \in 1 .. Len(s) : Behind(s, cursor)[i] = s[j]
<1>1. Len(s) \in Nat /\ \A i \in 1 .. Len(s) : s[i] \in Nat
  OBVIOUS
<1>2. PICK f : Behinds(f, s, cursor, Len(s)) /\ Behind(s, cursor) = f[Len(s)]
  BY <1>1, BehindDefined
<1> DEFINE Good(m) == /\ f[m] \in Seq(Nat) /\ Consecutive(f[m])
                      /\ \A i \in 1 .. Len(f[m]) : \E j \in 1 .. Len(s) : f[m][i] = s[j]
                      /\ f[m] # <<>> => m # 0 /\ f[m][Len(f[m])] = s[m] /\ s[m] > cursor
           Bad == {m \in 0 .. Len(s) : ~Good(m)}
<1>3. Good(0)
  <2>1. f[0] = <<>>
    BY <1>1, <1>2 DEF Behinds
  <2> QED BY <2>1 DEF Consecutive
<1>4. ASSUME NEW m \in 1 .. Len(s), Good(m - 1) PROVE Good(m)
  <2>1. f[m] = IF s[m] > cursor THEN Append(f[m - 1], s[m]) ELSE f[m - 1]
    <3>1. m \in 0 .. Len(s) /\ m # 0
      BY <1>1
    <3>2. f = [i \in 0 .. Len(s) |-> IF i = 0 THEN <<>>
                                    ELSE IF s[i] > cursor THEN Append(f[i - 1], s[i]) ELSE f[i - 1]]
      BY <1>2, Zenon DEF Behinds
    <3> HIDE DEF Good
    <3>3. f[m] = IF m = 0 THEN <<>> ELSE IF s[m] > cursor THEN Append(f[m - 1], s[m]) ELSE f[m - 1]
      BY <3>1, <3>2, Zenon
    <3> QED BY <3>1, <3>3
  <2>2. /\ f[m - 1] \in Seq(Nat) /\ Consecutive(f[m - 1])
        /\ \A i \in 1 .. Len(f[m - 1]) : \E j \in 1 .. Len(s) : f[m - 1][i] = s[j]
        /\ f[m - 1] # <<>> => m - 1 # 0 /\ f[m - 1][Len(f[m - 1])] = s[m - 1] /\ s[m - 1] > cursor
    BY <1>4
  <2> HIDE DEF Good
  <2>3. m - 1 # 0 => m - 1 \in 1 .. Len(s) /\ s[m] = s[m - 1] + 1
    <3> SUFFICES ASSUME m - 1 # 0 PROVE m - 1 \in 1 .. Len(s) /\ s[m] = s[m - 1] + 1
      OBVIOUS
    <3>1. m - 1 \in 1 .. Len(s) /\ 1 \in 1 .. Len(s)
      BY <1>1
    <3>2. s[m - 1] = s[1] + (m - 1) - 1 /\ s[m] = s[1] + m - 1 /\ s[1] \in Nat
      BY <1>1, <3>1 DEF Consecutive
    <3> QED BY SMTT(30), <3>1, <3>2
  <2>4. s[m] \in Nat
    BY <1>1
  <2>5. CASE s[m] > cursor
    <3>1. f[m] = Append(f[m - 1], s[m])
      BY <2>1, <2>5
    <3>2. f[m - 1] # <<>> => f[m - 1][Len(f[m - 1])] = s[m] - 1
      <4> SUFFICES ASSUME f[m - 1] # <<>> PROVE f[m - 1][Len(f[m - 1])] = s[m] - 1
        OBVIOUS
      <4>1. m - 1 \in 1 .. Len(s) /\ s[m] = s[m - 1] + 1 /\ f[m - 1][Len(f[m - 1])] = s[m - 1]
        BY <2>2, <2>3
      <4>2. s[m - 1] \in Nat
        BY <1>1, <4>1
      <4> QED BY <4>1, <4>2
    <3>3. Consecutive(f[m])
      BY <2>2, <2>4, <3>1, <3>2, ConsecutiveAppend
    <3>4. /\ f[m] \in Seq(Nat) /\ Len(f[m]) = Len(f[m - 1]) + 1 /\ Len(f[m - 1]) \in Nat
          /\ \A i \in 1 .. Len(f[m - 1]) : f[m][i] = f[m - 1][i]
          /\ f[m][Len(f[m - 1]) + 1] = s[m]
      BY SMTT(30), <2>2, <2>4, <3>1, Appended
    <3>5. \A i \in 1 .. Len(f[m]) : \E j \in 1 .. Len(s) : f[m][i] = s[j]
      <4>1. \A i \in 1 .. Len(f[m]) : i \in 1 .. Len(f[m - 1]) \/ i = Len(f[m - 1]) + 1
        BY <3>4
      <4> QED BY <2>2, <3>4, <4>1
    <3> QED BY <2>5, <3>3, <3>4, <3>5 DEF Good
  <2>6. CASE ~(s[m] > cursor)
    <3>1. f[m] = f[m - 1]
      BY <2>1, <2>6
    <3>2. f[m - 1] = <<>>
      <4> SUFFICES ASSUME f[m - 1] # <<>> PROVE FALSE
        OBVIOUS
      <4>1. m - 1 \in 1 .. Len(s) /\ s[m] = s[m - 1] + 1 /\ s[m - 1] > cursor
        BY <2>2, <2>3
      <4>2. s[m - 1] \in Nat
        BY <1>1, <4>1
      <4> QED BY <2>6, <4>1, <4>2
    <3> QED BY <2>2, <3>1, <3>2 DEF Good
  <2> QED BY <2>5, <2>6
<1> HIDE DEF Good
<1>5. Bad = {}
  <2> SUFFICES ASSUME Bad # {} PROVE FALSE
    OBVIOUS
  <2>1. Bad \in SUBSET Nat
    BY <1>1
  <2>2. PICK m \in Bad : \A x \in Bad : m <= x
    BY <2>1, LeastOf
  <2>3. m \in 1 .. Len(s) /\ m - 1 \in 0 .. Len(s)
    BY <1>1, <1>3, <2>2
  <2>4. m - 1 \notin Bad
    BY <2>2, <2>3
  <2> QED BY <1>4, <2>2, <2>3, <2>4
<1>6. Good(Len(s))
  BY <1>1, <1>5
<1> QED BY <1>2, <1>6 DEF Good

-----------------------------------------------------------------------------
(* What a handle yields of some consecutive numbers behind its cursor.     *)
Ends(n, r) == log[n].type = "end" /\ log[n].run = r

LEMMA SpanIs ==
  ASSUME NEW from \in Int, NEW to \in Int, to >= from - 1
  PROVE  /\ Span(from, to) \in Seq(Int) /\ Len(Span(from, to)) = to - from + 1
         /\ \A i \in 1 .. to - from + 1 : Span(from, to)[i] = from + i - 1
<1>1. PICK n \in Nat : n = to - from + 1
  OBVIOUS
<1>2. Span(from, to) = [i \in 1 .. n |-> from + i - 1]
  BY <1>1 DEF Span
<1>3. \A i \in 1 .. n : from + i - 1 \in Int
  OBVIOUS
<1>4. [i \in 1 .. n |-> from + i - 1] \in Seq(Int)
  BY <1>3
<1>5. Span(from, to) \in Seq(Int) /\ Len(Span(from, to)) = n
  BY <1>2, <1>4
<1> QED BY <1>1, <1>2, <1>5

LEMMA SpanEmpty ==
  ASSUME NEW from \in Int, NEW to \in Int, to < from
  PROVE  Span(from, to) = <<>>
<1>1. 1 .. (to - from + 1) = {}
  OBVIOUS
<1>2. Span(from, to) = [i \in {} |-> from + i - 1]
  BY <1>1 DEF Span
<1> QED BY <1>2

LEMMA SpanBehind ==
  ASSUME NEW k \in Int, NEW n \in Nat
  PROVE  Span(k + 1, k + n) = [i \in 1 .. n |-> k + i]
<1>1. PICK a \in Int : a = k + 1
  OBVIOUS
<1>2. PICK b \in Int : b = k + n
  OBVIOUS
<1>3. b - a + 1 = n
  BY <1>1, <1>2
<1>4. \A i \in 1 .. n : a + i - 1 = k + i
  BY <1>1
<1>5. Span(a, b) = [i \in 1 .. n |-> a + i - 1]
  BY <1>3 DEF Span
<1> QED BY <1>1, <1>2, <1>4, <1>5

LEMMA ConcatSpan ==
  ASSUME NEW s \in Seq(Int), NEW k \in Int, NEW n \in Nat
  PROVE  /\ s \o Span(k + 1, k + n) \in Seq(Int)
         /\ n = 0 => s \o Span(k + 1, k + n) = s
         /\ n # 0 => LET t == s \o Span(k + 1, k + n) IN t # <<>> /\ t[Len(t)] = k + n
<1> DEFINE p == Span(k + 1, k + n)
           t == s \o p
<1>1. p \in Seq(Int) /\ Len(p) = n /\ \A i \in 1 .. n : p[i] = k + i
  <2>1. PICK a \in Int, b \in Int : a = k + 1 /\ b = k + n /\ b >= a - 1
    OBVIOUS
  <2>2. /\ Span(a, b) \in Seq(Int) /\ Len(Span(a, b)) = b - a + 1
        /\ \A i \in 1 .. b - a + 1 : Span(a, b)[i] = a + i - 1
    BY <2>1, SpanIs
  <2>3. b - a + 1 = n /\ \A i \in 1 .. n : a + i - 1 = k + i
    BY <2>1
  <2>4. p = Span(a, b)
    BY <2>1
  <2> HIDE DEF p
  <2> QED BY <2>2, <2>3, <2>4
<1> HIDE DEF p
<1>2. t \in Seq(Int) /\ Len(t) = Len(s) + n /\ \A i \in 1 .. n : t[Len(s) + i] = p[i]
  BY SMTT(30), <1>1
<1>3. n = 0 => t = s
  <2> SUFFICES ASSUME n = 0 PROVE t = s
    OBVIOUS
  <2>1. p = <<>>
    BY <1>1, EmptySeq
  <2> QED BY <2>1
<1>4. n # 0 => t # <<>> /\ t[Len(t)] = k + n
  <2> SUFFICES ASSUME n # 0 PROVE t # <<>> /\ t[Len(t)] = k + n
    OBVIOUS
  <2>1. n \in 1 .. n /\ t[Len(s) + n] = p[n] /\ p[n] = k + n /\ Len(t) # 0
    BY <1>1, <1>2
  <2> QED BY <1>2, <2>1
<1> QED BY <1>2, <1>3, <1>4 DEF p

Yielded(r, k, n, m) ==
  /\ shown' = [shown EXCEPT ![r] = shown[r] \o Span(k + 1, k + n)]
  /\ handle' \in [Runs -> HandleType] /\ \A x \in Runs \ {r} : handle'[x] = handle[x]
  /\ handle'[r].seq = k + n /\ handle'[r].st \in {"live", "done"}
  /\ handle'[r].st = "done" => n # 0 /\ Ends(k + n, r)
  /\ handle'[r].st = "live" => n = m /\ \A i \in 1 .. n : ~Ends(k + i, r)
  /\ \A i \in 1 .. n - 1 : ~Ends(k + i, r)

LEMMA YieldsEffect ==
  ASSUME handle \in [Runs -> HandleType], shown \in [Runs -> Seq(Int)], NEW r \in Runs,
         NEW k \in Int, k = handle[r].seq, NEW items \in Seq(Int),
         \A i \in 1 .. Len(items) : items[i] = k + i, Yields(r, items), UNCHANGED log
  PROVE  \E n \in 0 .. Len(items) : Yielded(r, k, n, Len(items))
<1> DEFINE ends == EndsAt(r, items)
           n == IF ends = {} THEN Len(items) ELSE CHOOSE i \in ends : \A x \in ends : i <= x
           h == [st |-> IF ends = {} THEN "live" ELSE "done",
                 seq |-> IF n = 0 THEN handle[r].seq ELSE items[n], q |-> 0]
<1>1. /\ shown' = [shown EXCEPT ![r] = shown[r] \o SubSeq(items, 1, n)]
      /\ handle' = [handle EXCEPT ![r] = h]
  BY Zenon DEF Yields
<1>2. Len(items) \in Nat /\ ends = {i \in 1 .. Len(items) : Ends(k + i, r)}
  <2>1. Len(items) \in Nat /\ DOMAIN items = 1 .. Len(items)
    OBVIOUS
  <2>2. ends = {i \in 1 .. Len(items) : Ends(items[i], r)}
    BY <2>1, Zenon DEF EndsAt, Ends
  <2> HIDE DEF ends
  <2> QED BY <2>1, <2>2
<1>3. /\ n \in 0 .. Len(items)
      /\ ends = {} => n = Len(items) /\ \A i \in 1 .. n : ~Ends(k + i, r)
      /\ ends # {} => n \in ends /\ n # 0 /\ Ends(k + n, r)
      /\ \A i \in 1 .. n - 1 : ~Ends(k + i, r)
  <2> HIDE DEF ends
  <2>1. CASE ends = {}
    <3>1. n = Len(items)
      BY <2>1
    <3> HIDE DEF n
    <3>2. \A i \in 1 .. Len(items) : ~Ends(k + i, r)
      BY <1>2, <2>1
    <3> QED BY <1>2, <2>1, <3>1, <3>2
  <2>2. CASE ends # {}
    <3>1. ends \in SUBSET Nat
      BY <1>2
    <3>2. \E i \in ends : \A x \in ends : i <= x
      BY <2>2, <3>1, LeastOf
    <3>3. n \in ends /\ \A x \in ends : n <= x
      BY <2>2, <3>2
    <3> HIDE DEF n
    <3>4. n \in 1 .. Len(items) /\ Ends(k + n, r)
      BY <1>2, <3>3
    <3>5. ASSUME NEW i \in 1 .. n - 1, Ends(k + i, r) PROVE FALSE
      <4>1. i \in ends
        BY <1>2, <3>4, <3>5
      <4> QED BY <3>3, <3>4, <4>1
    <3> QED BY <1>2, <2>2, <3>3, <3>4, <3>5
  <2> QED BY <2>1, <2>2
<1>4. SubSeq(items, 1, n) = Span(k + 1, k + n)
  <2> HIDE DEF n
  <2>1. SubSeq(items, 1, n) = [i \in 1 .. n |-> items[i]]
    BY <1>2, <1>3
  <2>2. Span(k + 1, k + n) = [i \in 1 .. n |-> k + i]
    BY <1>2, <1>3, SpanBehind
  <2>3. \A i \in 1 .. n : items[i] = k + i
    BY <1>2, <1>3
  <2> QED BY <2>1, <2>2, <2>3
<1>5. /\ h \in HandleType /\ h.seq = k + n
      /\ h.st = IF ends = {} THEN "live" ELSE "done"
  <2> HIDE DEF n, ends
  <2>1. (IF n = 0 THEN handle[r].seq ELSE items[n]) = k + n
    BY <1>2, <1>3
  <2>2. k + n \in Int /\ 0 \in 0 .. MaxReq
    BY <1>2, <1>3, SessionAssumption
  <2>3. h = [st |-> IF ends = {} THEN "live" ELSE "done", seq |-> k + n, q |-> 0]
    BY <2>1
  <2> HIDE DEF h
  <2> QED BY <2>2, <2>3 DEF HandleType
<1> HIDE DEF h, n, ends
<1>6. /\ handle' \in [Runs -> HandleType] /\ handle'[r] = h
      /\ \A x \in Runs \ {r} : handle'[x] = handle[x]
  BY <1>1, <1>5
<1>7. shown' = [shown EXCEPT ![r] = shown[r] \o Span(k + 1, k + n)]
  BY <1>1, <1>4
<1>8. handle'[r].st = IF ends = {} THEN "live" ELSE "done"
  BY <1>5, <1>6
<1>9. handle'[r].seq = k + n
  BY <1>5, <1>6
<1>10. Yielded(r, k, n, Len(items))
  BY <1>3, <1>6, <1>7, <1>8, <1>9 DEF Yielded
<1> QED BY <1>3, <1>10

(* the numbers a handle is given are those of the log behind its cursor    *)
Offered(r, items) ==
  /\ items \in Seq(Int)
  /\ \A i \in 1 .. Len(items) : items[i] = handle[r].seq + i /\ items[i] \in 1 .. Len(log)

LEMMA ReplayOffers ==
  ASSUME RpcInv, NEW r \in Runs, handle[r].st = "replay", req[handle[r].q].code = "ok"
  PROVE  Offered(r, Span(handle[r].seq + 1, req[handle[r].q].n))
<1>1. /\ Handles /\ handle \in [Runs -> HandleType] /\ Len(log) \in Nat
  BY DEF RpcInv, RpcTypeOK, StreamTyped, ClientTyped, HandleType
<1>2. /\ handle[r].q \in Reqs /\ req[handle[r].q].m = "replay" /\ Starts(handle[r].seq + 1, r)
  BY <1>1 DEF Handles
<1>3. req[handle[r].q].n \in 0 .. Len(log)
  BY <1>1, <1>2 DEF Handles
<1>4. handle[r].seq + 1 \in 1 .. Len(log) /\ handle[r].seq \in Int
  BY <1>1, <1>2 DEF Starts, HandleType
<1>5. PICK k \in Int, n \in Int : k = handle[r].seq /\ n = req[handle[r].q].n
  BY <1>3, <1>4
<1>6. k + 1 >= 1 /\ n <= Len(log)
  BY <1>1, <1>3, <1>4, <1>5
<1>7. /\ Span(k + 1, n) \in Seq(Int)
      /\ \A i \in 1 .. Len(Span(k + 1, n)) : Span(k + 1, n)[i] = k + i /\ k + i <= n
  <2>1. PICK a \in Int : a = k + 1
    OBVIOUS
  <2>2. CASE n < a
    <3>1. Span(a, n) = <<>>
      BY <2>2, SpanEmpty
    <3>2. Span(k + 1, n) = <<>>
      BY <2>1, <3>1
    <3>3. Len(<<>>) = 0 /\ <<>> \in Seq(Int) /\ 1 .. 0 = {}
      OBVIOUS
    <3> QED BY <3>2, <3>3
  <2>3. CASE n >= a
    <3>1. /\ Span(a, n) \in Seq(Int) /\ Len(Span(a, n)) = n - a + 1
          /\ \A i \in 1 .. n - a + 1 : Span(a, n)[i] = a + i - 1
      BY <2>3, SpanIs
    <3>2. \A i \in 1 .. n - a + 1 : a + i - 1 = k + i /\ k + i <= n
      BY <2>1
    <3> QED BY <2>1, <3>1, <3>2
  <2>4. n < a \/ n >= a
    OBVIOUS
  <2> QED BY <2>2, <2>3, <2>4, Zenon
<1>8. ASSUME NEW i \in 1 .. Len(Span(k + 1, n))
      PROVE  Span(k + 1, n)[i] = k + i /\ Span(k + 1, n)[i] \in 1 .. Len(log)
  <2>1. Len(Span(k + 1, n)) \in Nat
    BY <1>7
  <2> QED BY <1>1, <1>6, <1>7, <2>1
<1> QED BY <1>5, <1>7, <1>8 DEF Offered

LEMMA HistoryOffers ==
  ASSUME RpcInv, NEW r \in Runs, Available(r) # <<>>, Head(Available(r)) = handle[r].seq + 1
  PROVE  Offered(r, Available(r))
<1>1. /\ History /\ handle \in [Runs -> HandleType] /\ Len(log) \in Nat /\ cl.history \in Seq(Nat)
  BY DEF RpcInv, RpcTypeOK, StreamTyped, ClientTyped, HandleType
<1>2. handle[r].seq \in Int
  BY <1>1 DEF HandleType
<1> DEFINE a == Available(r)
<1>3. /\ a \in Seq(Nat) /\ Consecutive(a)
      /\ \A i \in 1 .. Len(a) : \E j \in 1 .. Len(cl.history) : a[i] = cl.history[j]
  BY <1>1, <1>2, BehindConsecutive DEF Available, History
<1> HIDE DEF a
<1>4. a[1] = handle[r].seq + 1
  BY <1>3 DEF a
<1>5. ASSUME NEW i \in 1 .. Len(a) PROVE a[i] = handle[r].seq + i /\ a[i] \in 1 .. Len(log)
  <2>1. a[i] = handle[r].seq + 1 + i - 1
    BY <1>3, <1>4 DEF Consecutive
  <2>2. a[i] \in 1 .. Len(log)
    BY <1>1, <1>3 DEF History, Logged
  <2> QED BY <1>2, <2>1, <2>2
<1>6. a \in Seq(Int)
  BY <1>3
<1> QED BY <1>5, <1>6 DEF Offered, a

(* A handle that moves leaves the rest of the session alone.               *)
LEMMA HandleMovesKeep ==
  ASSUME RpcInv, NEW r \in Runs, handle' \in [Runs -> HandleType], shown' \in [Runs -> Seq(Int)],
         \A x \in Runs \ {r} : handle'[x] = handle[x] /\ shown'[x] = shown[x],
         handle'[r].st \in {"live", "done", "failed"},
         handle'[r].st = "live" =>
           IF shown'[r] = <<>> THEN Starts(handle[r].seq + 1, r)'
           ELSE shown'[r][Len(shown'[r])] = handle'[r].seq,
         UNCHANGED <<scope, log, streamClosed, sub, fwd, task, aborted, conf, host, harnessClosed,
                     srv, link, req, toServer, toClient, eof, cl, cutShort>>
  PROVE  RpcInv'
<1>1. RpcTypeOK /\ StreamTyped /\ HostSide /\ Finishing /\ Transit /\ History /\ Handles
  BY Parts DEF RpcInvParts, ClientSide, RpcTypeOK
<1>2. RpcTypeOK'
  <2>1. StreamTyped' /\ RunsTyped' /\ HostTyped'
    BY <1>1 DEF RpcTypeOK, StreamTyped, SubTyped, RunsTyped, HostTyped, Event
  <2>2. ServerTyped' /\ PipesTyped'
    BY <1>1 DEF RpcTypeOK, ServerTyped, PipesTyped
  <2>3. ClientTyped'
    BY <1>1 DEF RpcTypeOK, ClientTyped, HandleType
  <2> QED BY <2>1, <2>2, <2>3 DEF RpcTypeOK
<1>3. GrowsQuietly /\ HostKept /\ Quiet
  BY <1>1, UnchangedGrows DEF HostKept, Quiet, Same
<1>4. HostSide'
  BY <1>1, <1>2, <1>3, Undisturbed
<1>5. Finishing' /\ Transit' /\ History'
  BY <1>1 DEF Finishing, BothClosed, ShutdownWaits, Transit, SubLogged, Logged, History, Consecutive
<1>6. Handles'
  <2>1. \A q \in Reqs : req[q].m = "replay" /\ req[q].code = "ok" => req[q].n \in 0 .. Len(log)
    BY <1>1 DEF Handles
  <2> SUFFICES ASSUME NEW x \in Runs
               PROVE  /\ handle'[x].st = "none" => shown'[x] = <<>>
                      /\ handle'[x].st \in {"replay", "live"} =>
                           IF shown'[x] = <<>> THEN Starts(handle[x].seq + 1, x)'
                           ELSE shown'[x][Len(shown'[x])] = handle'[x].seq
                      /\ handle'[x].st = "replay" =>
                           shown'[x] = <<>> /\ handle'[x].q \in Reqs /\ req'[handle'[x].q].m = "replay"
    BY <2>1 DEF Handles
  <2>2. CASE x = r
    BY <2>2
  <2>3. CASE x # r
    <3>1. handle'[x] = handle[x] /\ shown'[x] = shown[x]
      BY <2>3
    <3>2. Starts(handle[x].seq + 1, x) => Starts(handle[x].seq + 1, x)'
      BY <3>1 DEF Starts
    <3> QED BY <1>1, <3>1, <3>2 DEF Handles
  <2> QED BY <2>2, <2>3
<1> QED BY <1>2, <1>4, <1>5, <1>6, Zenon DEF RpcInv, HostSide

LEMMA YieldsKeep ==
  ASSUME RpcInv, NEW r \in Runs, handle[r].st \in {"replay", "live"}, NEW items, Offered(r, items),
         Yields(r, items),
         UNCHANGED <<scope, log, streamClosed, sub, fwd, task, aborted, conf, host, harnessClosed,
                     srv, link, req, toServer, toClient, eof, cl, cutShort>>
  PROVE  RpcInv'
<1>1. /\ Handles /\ handle \in [Runs -> HandleType] /\ shown \in [Runs -> Seq(Int)]
      /\ handle[r].seq \in Int
  BY DEF RpcInv, RpcTypeOK, ClientTyped, HandleType
<1>2. PICK k \in Int : k = handle[r].seq
  BY <1>1
<1>3. items \in Seq(Int) /\ \A i \in 1 .. Len(items) : items[i] = k + i
  BY <1>2 DEF Offered
<1>3a. PICK n \in 0 .. Len(items) : Yielded(r, k, n, Len(items))
  BY <1>1, <1>2, <1>3, YieldsEffect
<1>4. /\ shown' = [shown EXCEPT ![r] = shown[r] \o Span(k + 1, k + n)]
      /\ handle' \in [Runs -> HandleType] /\ \A x \in Runs \ {r} : handle'[x] = handle[x]
      /\ handle'[r].seq = k + n /\ handle'[r].st \in {"live", "done"}
  BY <1>3a DEF Yielded
<1>5. n \in Nat /\ shown[r] \in Seq(Int)
  BY <1>1, <1>3
<1>6. /\ shown[r] \o Span(k + 1, k + n) \in Seq(Int)
      /\ n = 0 => shown[r] \o Span(k + 1, k + n) = shown[r]
      /\ n # 0 => LET t == shown[r] \o Span(k + 1, k + n) IN t # <<>> /\ t[Len(t)] = k + n
  BY <1>5, ConcatSpan
<1>7. /\ shown' \in [Runs -> Seq(Int)] /\ shown'[r] = shown[r] \o Span(k + 1, k + n)
      /\ \A x \in Runs \ {r} : shown'[x] = shown[x]
  BY <1>1, <1>4, <1>6
<1>8. IF shown'[r] = <<>> THEN Starts(handle[r].seq + 1, r)'
      ELSE shown'[r][Len(shown'[r])] = handle'[r].seq
  <2>1. CASE n = 0
    <3>1. shown'[r] = shown[r] /\ handle'[r].seq = handle[r].seq
      BY <1>2, <1>4, <1>6, <1>7, <2>1
    <3>2. Starts(handle[r].seq + 1, r) => Starts(handle[r].seq + 1, r)'
      BY <3>1 DEF Starts
    <3>3. IF shown[r] = <<>> THEN Starts(handle[r].seq + 1, r)
          ELSE shown[r][Len(shown[r])] = handle[r].seq
      BY <1>1 DEF Handles
    <3> QED BY <3>1, <3>2, <3>3
  <2>2. CASE n # 0
    <3>1. shown'[r] # <<>> /\ shown'[r][Len(shown'[r])] = k + n
      BY <1>6, <1>7, <2>2
    <3> QED BY <1>4, <3>1
  <2> QED BY <2>1, <2>2
<1> QED BY <1>4, <1>7, <1>8, HandleMovesKeep

LEMMA FailsKeeps ==
  ASSUME RpcInv, NEW r \in Runs, Fails(r),
         UNCHANGED <<scope, log, streamClosed, sub, fwd, task, aborted, conf, host, harnessClosed,
                     srv, link, req, toServer, toClient, eof, cl, cutShort>>
  PROVE  RpcInv'
<1>1. handle \in [Runs -> HandleType] /\ shown \in [Runs -> Seq(Int)]
  BY DEF RpcInv, RpcTypeOK, ClientTyped, HandleType
<1>2. handle' = [handle EXCEPT ![r] = [@ EXCEPT !.st = "failed"]] /\ UNCHANGED shown
  BY DEF Fails
<1>3. /\ handle' \in [Runs -> HandleType] /\ handle'[r].st = "failed"
      /\ \A x \in Runs \ {r} : handle'[x] = handle[x]
  BY <1>1, <1>2 DEF HandleType
<1> QED BY <1>1, <1>2, <1>3, HandleMovesKeep

LEMMA HandleStepsKeep ==
  ASSUME RpcInv, NEW r \in Runs, HandleReplayed(r) \/ HandleLive(r)
  PROVE  RpcInv'
<1>1. UNCHANGED <<scope, log, streamClosed, sub, fwd, task, aborted, conf, host, harnessClosed,
                  srv, link, req, toServer, toClient, eof, cl, cutShort>>
  BY DEF HandleReplayed, HandleLive, stream, runs, pipes
<1>2. CASE HandleReplayed(r)
  <2>1. CASE Fails(r)
    BY <1>1, <2>1, FailsKeeps
  <2>2. CASE /\ req[handle[r].q].code = "ok"
             /\ Yields(r, Span(handle[r].seq + 1, req[handle[r].q].n))
    <3>1. handle[r].st = "replay"
      BY <1>2 DEF HandleReplayed
    <3> QED BY <1>1, <2>2, <3>1, ReplayOffers, YieldsKeep
  <2> QED BY <1>2, <2>1, <2>2 DEF HandleReplayed
<1>3. CASE HandleLive(r)
  <2>1. CASE Fails(r)
    BY <1>1, <2>1, FailsKeeps
  <2>2. CASE /\ Available(r) # <<>> /\ Head(Available(r)) = handle[r].seq + 1
             /\ Yields(r, Available(r))
    <3>1. handle[r].st = "live"
      BY <1>3 DEF HandleLive
    <3> QED BY <1>1, <2>2, <3>1, HistoryOffers, YieldsKeep
  <2> QED BY <1>3, <2>1, <2>2 DEF HandleLive
<1> QED BY <1>2, <1>3

-----------------------------------------------------------------------------
(* The inductive invariant holds: at the start, and after every step.      *)
LEMMA RpcInitHolds == RpcInit => RpcInv
<1> SUFFICES ASSUME RpcInit PROVE RpcInv
  OBVIOUS
<1>1. sub = [reg |-> TRUE, failed |-> FALSE, replay |-> <<>>, queue |-> <<>>, soon |-> <<>>]
  BY DEF RpcInit, Subscribe, NoSubscriber, Retained
<1>2. \A q \in Reqs : req[q] = NoReq
  BY DEF RpcInit
<1>3. \A r \in Runs : task[r] = "none" /\ shown[r] = <<>> /\ handle[r] = [st |-> "none", seq |-> 0, q |-> 0]
  BY DEF RpcInit
<1>4. MaxRuns \in Nat /\ MaxReq \in Nat
  BY SessionAssumption
<1>5. RpcTypeOK
  <2>1. StreamTyped
    <3>1. SubTyped
      BY <1>1 DEF SubTyped
    <3>2. log = <<>> /\ streamClosed = FALSE /\ fwd = "running"
      BY DEF RpcInit
    <3>3. <<>> \in Seq(Event)
      OBVIOUS
    <3>4. log \in Seq(Event)
      BY <3>2, <3>3
    <3> QED BY <3>1, <3>2, <3>4 DEF StreamTyped
  <2>2. RunsTyped
    BY <1>4 DEF RunsTyped, RpcInit
  <2>3. HostTyped
    BY <1>4 DEF HostTyped, RpcInit
  <2>4. ServerTyped
    BY DEF ServerTyped, RpcInit
  <2>5. PipesTyped
    <3>1. NoReq \in Request
      BY <1>4 DEF NoReq, Request, Methods, Fates, Steps, Codes
    <3> QED BY <3>1 DEF PipesTyped, RpcInit
  <2>6. ClientTyped
    <3>1. handle \in [Runs -> [st : {"none", "replay", "live", "done", "failed"}, seq : Int, q : 0 .. MaxReq]]
      BY <1>4 DEF RpcInit
    <3>2. shown \in [Runs -> Seq(Int)]
      BY DEF RpcInit
    <3>3. cl \in ClType
      <4>1. PICK st \in {"new", "open"} : st = IF proto = 1 THEN "open" ELSE "new"
        OBVIOUS
      <4>2. cl = [st |-> st, conn |-> "open", loop |-> "running", error |-> FALSE, inbound |-> <<>>,
                  history |-> <<>>, last |-> 0, asked |-> <<>>, asking |-> 0, init |-> 0, bye |-> 0]
        BY <4>1 DEF RpcInit
      <4>3. 0 \in 0 .. MaxReq
        BY <1>4
      <4> QED BY <4>2, <4>3 DEF ClType
    <3> QED BY <3>1, <3>2, <3>3 DEF ClientTyped, ClType
  <2> QED BY <2>1, <2>2, <2>3, <2>4, <2>5, <2>6 DEF RpcTypeOK
<1>6. Wire
  BY <1>2 DEF Wire, NoReq, RpcInit
<1>7. OneRun
  BY <1>3 DEF OneRun, RpcInit
<1>8. Started
  BY DEF Started, Starts, RpcInit
<1>9. StartsAnswered
  BY <1>2 DEF StartsAnswered, NoReq
<1>10. Bound
  BY <1>2 DEF Bound, NoReq, RpcInit
<1>11. Finishing
  BY DEF Finishing, RpcInit
<1>12. Transit
  BY <1>1 DEF Transit, SubLogged, Logged, RpcInit
<1>13. History
  BY DEF History, Logged, Consecutive, RpcInit
<1>14. Handles
  BY <1>2, <1>3 DEF Handles, NoReq
<1> QED BY <1>5, <1>6, <1>7, <1>8, <1>9, <1>10, <1>11, <1>12, <1>13, <1>14 DEF RpcInv

LEMMA StutterKeeps ==
  ASSUME RpcInv, UNCHANGED rpcVars
  PROVE  RpcInv'
<1>1. UNCHANGED <<scope, log, streamClosed, sub, fwd, task, aborted, conf, host, harnessClosed, srv,
                  link, req, toServer, toClient, eof, cl, handle, shown, cutShort>>
  BY DEF rpcVars, stream, runs, pipes, client
<1>2. RpcTypeOK /\ StreamTyped /\ HostSide /\ Finishing /\ Transit /\ History /\ Handles
  BY Parts DEF RpcInvParts, ClientSide, RpcTypeOK
<1>3. RpcTypeOK'
  <2>1. StreamTyped' /\ RunsTyped' /\ HostTyped'
    BY <1>1, <1>2 DEF RpcTypeOK, StreamTyped, SubTyped, RunsTyped, HostTyped, Event
  <2>2. ServerTyped' /\ PipesTyped' /\ ClientTyped'
    BY <1>1, <1>2 DEF RpcTypeOK, ServerTyped, PipesTyped, ClientTyped
  <2> QED BY <2>1, <2>2 DEF RpcTypeOK
<1>4. GrowsQuietly /\ HostKept /\ Quiet
  BY <1>1, <1>2, UnchangedGrows DEF HostKept, Quiet, Same
<1>5. HostSide'
  BY <1>1, <1>2, <1>3, <1>4, Undisturbed
<1>6. Finishing' /\ Transit' /\ History' /\ Handles'
  BY <1>1, <1>2 DEF Finishing, BothClosed, ShutdownWaits, Transit, SubLogged, Logged, History, Consecutive,
                    Handles, Starts
<1> QED BY <1>3, <1>5, <1>6, Zenon DEF RpcInv, HostSide

LEMMA HostStepKeeps == ASSUME RpcInv, HostStep PROVE RpcInv'
<1>1. ASSUME NEW r \in Runs, RunStart(r) PROVE RpcInv'
  BY <1>1, RunStartKeeps
<1>2. ASSUME NEW r \in Runs, RunStartFails(r) \/ RunEnd(r) \/ RunReturns(r) PROVE RpcInv'
  BY <1>2, RunEndsKeep
<1>3. ASSUME NEW r \in Runs, RunAsks(r) \/ \E onLoop \in BOOLEAN : RunEvent(r, onLoop) PROVE RpcInv'
  BY <1>3, RunEventsKeep
<1>4. ASSUME NEW r \in Runs, RunFinished(r) PROVE RpcInv'
  BY <1>4, RunFinishedKeeps
<1>5. ASSUME ScheduledPut PROVE RpcInv'
  BY <1>5, ScheduledPutKeeps
<1>6. ASSUME Forward PROVE RpcInv'
  BY <1>6, ForwardKeeps
<1> QED BY <1>1, <1>2, <1>3, <1>4, <1>5, <1>6 DEF HostStep

LEMMA ServerStepKeeps == ASSUME RpcInv, ServerStep PROVE RpcInv'
<1>1. CASE Finish \/ FinishEnds \/ HostClose \/ HostCloseEnds
  BY <1>1, FinishKeeps, FinishEndsKeeps, HostCloseKeeps, HostCloseEndsKeeps
<1>2. ASSUME NEW q \in Reqs,
             \/ Dispatch(q) \/ Initialize(q) \/ StartRefused(q) \/ StartTask(q) \/ StartReturns(q)
             \/ Steer(q) \/ AbortRefused(q) \/ AbortRun(q) \/ AbortReturns(q) \/ ListConfirmations(q)
             \/ RespondConfirmation(q) \/ ReplayEvents(q) \/ Shutdown(q) \/ ShutdownReturns(q)
      PROVE  RpcInv'
  <2>1. CASE Dispatch(q) \/ Initialize(q) \/ StartRefused(q) \/ StartTask(q) \/ StartReturns(q)
    BY <2>1, DispatchKeeps, InitializeKeeps, StartRefusedKeeps, StartTaskKeeps, StartReturnsKeeps
  <2>2. CASE Steer(q) \/ AbortRefused(q) \/ AbortRun(q) \/ AbortReturns(q)
    BY <2>2, SteerKeeps, AbortAnswersKeep, AbortRunKeeps
  <2>3. CASE ListConfirmations(q) \/ RespondConfirmation(q)
    BY <2>3, ConfirmationAnswersKeep
  <2>4. CASE ReplayEvents(q) \/ Shutdown(q) \/ ShutdownReturns(q)
    BY <2>4, ReplayEventsKeeps, ShutdownKeeps, ShutdownReturnsKeeps
  <2> QED BY <1>2, <2>1, <2>2, <2>3, <2>4
<1> QED BY <1>1, <1>2 DEF ServerStep

LEMMA RpcClientStepKeeps == ASSUME RpcInv, RpcClientStep PROVE RpcInv'
<1>1. CASE ClientReadEof \/ CloseTransport \/ HandshakeEnds
  BY <1>1, ClientClosesKeep
<1>2. CASE ClientReadResponse \/ ClientReadEvent \/ EventLoop
  BY <1>2, ClientReadResponseKeeps, ClientReadEventKeeps, EventLoopKeeps
<1>3. CASE ConfirmationLoop
  BY <1>3, ConfirmationLoopKeeps
<1>4. ASSUME NEW q \in Reqs, HandleOpens(q) PROVE RpcInv'
  BY <1>4, HandleOpensKeeps
<1>5. ASSUME NEW r \in Runs, HandleReplayed(r) \/ HandleLive(r) PROVE RpcInv'
  BY <1>5, HandleStepsKeep
<1> QED BY <1>1, <1>2, <1>3, <1>4, <1>5 DEF RpcClientStep

LEMMA UserStepKeeps == ASSUME RpcInv, UserStep PROVE RpcInv'
<1>1. ASSUME NEW m \in {"initialize", "badinit"}, Handshake(m) PROVE RpcInv'
  BY <1>1, HandshakeKeeps
<1>2. ASSUME NEW r \in Runs, NEW m \in {"steer", "abort"}, UserRequest(m, r) PROVE RpcInv'
  <2>1. r \in 0 .. MaxRuns /\ m \in {"start", "steer", "abort"}
    BY SessionAssumption DEF Runs
  <2> QED BY <1>2, <2>1, UserRequestKeeps
<1>3. ASSUME UserRequest("start", 0) PROVE RpcInv'
  <2>1. 0 \in 0 .. MaxRuns
    BY SessionAssumption
  <2>2. "start" \in {"start", "steer", "abort"}
    OBVIOUS
  <2> QED BY <1>3, <2>1, <2>2, UserRequestKeeps
<1>4. ASSUME NEW q \in Reqs, NEW flushed \in BOOLEAN, CancelRequest(q, flushed) PROVE RpcInv'
  BY <1>4, CancelRequestKeeps
<1>5. ASSUME Aclose PROVE RpcInv'
  BY <1>5, AcloseKeeps
<1> QED BY <1>1, <1>2, <1>3, <1>4, <1>5 DEF UserStep

LEMMA StepKeeps == RpcInv /\ [RpcNext]_rpcVars => RpcInv'
<1> SUFFICES ASSUME RpcInv, [RpcNext]_rpcVars PROVE RpcInv'
  OBVIOUS
<1> QED BY HostStepKeeps, ServerStepKeeps, RpcClientStepKeeps, UserStepKeeps, ServerDiesKeeps, StutterKeeps
        DEF RpcNext

(* Every reachable state of a session satisfies the inductive invariant:   *)
(* one Run at a time, requests that are handled step by step, what the     *)
(* Host knows of its Runs, and the numbers on their way to each handle.    *)
THEOREM RpcInvariant == RpcSpec => []RpcInv
<1> QED BY RpcInitHolds, StepKeeps, PTL DEF RpcSpec

(* The session keeps its types.                                            *)
THEOREM RpcTypeCorrect == RpcSpec => []RpcTypeOK
<1>1. RpcInv => RpcTypeOK
  BY DEF RpcInv
<1> QED BY <1>1, RpcInvariant, PTL

(* A run.start is answered run_start_failed only when its Run published no *)
(* agent_start, or when the done callback of the Run before took its       *)
(* future away (host.py run_start, _run_finished).                         *)
THEOREM StartAcknowledgedHolds == RpcSpec => []StartAcknowledged
<1>1. RpcInv => StartAcknowledged
  <2> SUFFICES ASSUME RpcInv, NEW q \in Used, req[q].m = "start", req[q].code = "run_start_failed",
                      req[q].run \notin host.wiped
               PROVE  Published(req[q].run, "start") = 0
    BY DEF StartAcknowledged
  <2>1. NeverStarted(req[q].run)
    BY DEF RpcInv, StartsAnswered, Used
  <2>2. log \in Seq(Event)
    BY DEF RpcInv, RpcTypeOK, StreamTyped
  <2>3. {n \in DOMAIN log : log[n].run = req[q].run /\ log[n].type = "start"} = {}
    BY <2>1, <2>2 DEF NeverStarted, Starts
  <2> QED BY <2>3, FS_EmptySet DEF Published
<1> QED BY <1>1, RpcInvariant, PTL

(* A v2 steer or abort that took effect reached the Run its handle names:  *)
(* host.active may be stale between the end of a Run and its callback, but *)
(* no handler runs then that could have begun the next Run (host.py        *)
(* _require_active_run).                                                   *)
THEOREM HandleBoundHolds == RpcSpec => []HandleBound
<1>1. RpcInv => HandleBound
  BY DEF RpcInv, Bound, HandleBound, Used
<1> QED BY <1>1, RpcInvariant, PTL

(* When run_stdio_rpc has returned, the Harness and the stream are closed  *)
(* unless a shutdown request was cut short (stdio.py, host.py close).      *)
THEOREM SessionFinalizedHolds == RpcSpec => []SessionFinalized
<1>1. RpcInv => SessionFinalized
  BY DEF RpcInv, Finishing, BothClosed, SessionFinalized
<1> QED BY <1>1, RpcInvariant, PTL

-----------------------------------------------------------------------------
(* The session implements the feed: each of its steps is one of EventFeed  *)
(* or leaves what EventFeed sees alone.                                    *)
FeedState == [r \in Runs |-> Abstract(handle[r].st)]
feedVars == <<log, shown, FeedState>>

LEMMA FeedStarts == RpcInit => Feed!Init
<1> SUFFICES ASSUME RpcInit PROVE Feed!Init
  OBVIOUS
<1>1. \A r \in Runs : Abstract(handle[r].st) = "none"
  BY DEF RpcInit, Abstract
<1> QED BY <1>1 DEF RpcInit, Feed!Init

LEMMA FeedPublish ==
  ASSUME RpcInv, NEW r, NEW type, NEW onLoop, Publish(r, type, onLoop), UNCHANGED <<handle, shown>>
  PROVE  Feed!Publish
<1>1. log \in Seq(Event) /\ log' = Append(log, [type |-> type, run |-> r])
  BY DEF RpcInv, RpcTypeOK, StreamTyped, Publish
<1>2. PICK e : e = [type |-> type, run |-> r]
  OBVIOUS
<1>3. Len(log') = Len(log) + 1 /\ SubSeq(log', 1, Len(log)) = log
  BY <1>1, <1>2
<1> QED BY <1>3 DEF Feed!Publish

(* what a handle becomes is what its feed becomes                          *)
LEMMA FeedMoves ==
  ASSUME handle \in [Runs -> HandleType], NEW r \in Runs, NEW st,
         \A x \in Runs \ {r} : handle'[x] = handle[x], Abstract(handle'[r].st) = st
  PROVE  FeedState' = [FeedState EXCEPT ![r] = st]
<1>1. \A x \in Runs : Abstract(handle'[x].st) = IF x = r THEN st ELSE Abstract(handle[x].st)
  OBVIOUS
<1>2. FeedState' = [x \in Runs |-> Abstract(handle'[x].st)]
  BY DEF FeedState, Abstract
<1> QED BY <1>1, <1>2 DEF FeedState

LEMMA FeedOpens ==
  ASSUME RpcInv, NEW q \in Reqs, HandleOpens(q)
  PROVE  \E r \in Runs : Feed!Open(r)
<1>1. StartsAnswered /\ handle \in [Runs -> HandleType]
  BY DEF RpcInv, RpcTypeOK, ClientTyped, HandleType
<1>2. PICK r \in Runs : r = req[q].run
  BY <1>1 DEF HandleOpens, StartsAnswered
<1>3. /\ handle[r].st = "none" /\ UNCHANGED <<log, shown>>
      /\ handle' = [handle EXCEPT ![r] = [st |-> "replay", seq |-> req[q].n - 1, q |-> Free]]
  BY <1>2 DEF HandleOpens, stream
<1>4. handle'[r].st = "replay" /\ \A x \in Runs \ {r} : handle'[x] = handle[x]
  BY <1>1, <1>3
<1>5. FeedState' = [FeedState EXCEPT ![r] = "open"]
  BY <1>1, <1>4, FeedMoves DEF Abstract
<1>6. FeedState[r] = "none"
  BY <1>3 DEF FeedState, Abstract
<1>7. Feed!Open(r)
  BY <1>3, <1>5, <1>6 DEF Feed!Open, FeedState
<1> QED BY <1>7

LEMMA FeedFails ==
  ASSUME RpcInv, NEW r \in Runs, handle[r].st \in {"replay", "live"}, Fails(r), UNCHANGED log
  PROVE  Feed!Fail(r)
<1>1. handle \in [Runs -> HandleType] /\ UNCHANGED shown
  BY DEF RpcInv, RpcTypeOK, ClientTyped, HandleType, Fails
<1>2. handle'[r].st = "failed" /\ \A x \in Runs \ {r} : handle'[x] = handle[x]
  BY <1>1 DEF Fails, HandleType
<1>3. FeedState' = [FeedState EXCEPT ![r] = "failed"]
  BY <1>1, <1>2, FeedMoves DEF Abstract
<1>4. FeedState[r] = "open"
  BY DEF FeedState, Abstract
<1> QED BY <1>1, <1>3, <1>4 DEF Feed!Fail, FeedState

LEMMA FeedDelivers ==
  ASSUME RpcInv, NEW r \in Runs, handle[r].st \in {"replay", "live"}, NEW items, Offered(r, items),
         Yields(r, items), UNCHANGED log
  PROVE  Feed!Deliver(r) \/ UNCHANGED feedVars
<1>1. /\ Handles /\ handle \in [Runs -> HandleType] /\ shown \in [Runs -> Seq(Int)]
      /\ log \in Seq(Event) /\ handle[r].seq \in Int
  BY DEF RpcInv, RpcTypeOK, StreamTyped, ClientTyped, HandleType
<1>2. PICK k \in Int : k = handle[r].seq
  BY <1>1
<1>3. items \in Seq(Int) /\ \A i \in 1 .. Len(items) : items[i] = k + i
  BY <1>2 DEF Offered
<1>3a. PICK n \in 0 .. Len(items) : Yielded(r, k, n, Len(items))
  BY <1>1, <1>2, <1>3, YieldsEffect
<1>4. /\ shown' = [shown EXCEPT ![r] = shown[r] \o Span(k + 1, k + n)]
      /\ handle' \in [Runs -> HandleType] /\ \A x \in Runs \ {r} : handle'[x] = handle[x]
      /\ handle'[r].seq = k + n /\ handle'[r].st \in {"live", "done"}
      /\ handle'[r].st = "done" => n # 0 /\ Ends(k + n, r)
      /\ handle'[r].st = "live" => n = Len(items) /\ \A i \in 1 .. n : ~Ends(k + i, r)
      /\ \A i \in 1 .. n - 1 : ~Ends(k + i, r)
  BY <1>3a DEF Yielded
<1>5. n \in Nat /\ shown[r] \in Seq(Int) /\ FeedState[r] = "open"
  BY <1>1, <1>3 DEF FeedState, Abstract
<1>6. CASE n = 0
  <2>1. shown[r] \o Span(k + 1, k + n) = shown[r]
    BY <1>5, <1>6, ConcatSpan
  <2>2. UNCHANGED shown
    BY <1>1, <1>4, <2>1
  <2>3. Abstract(handle'[r].st) = "open"
    BY <1>4, <1>6 DEF Abstract
  <2>4. FeedState' = [FeedState EXCEPT ![r] = "open"]
    BY <1>1, <1>4, <2>3, FeedMoves
  <2>5. UNCHANGED FeedState
    BY <1>5, <2>4 DEF FeedState
  <2> QED BY <2>2, <2>5 DEF feedVars
<1>7. CASE n # 0
  <2>1. n \in 1 .. Len(items) /\ 1 \in 1 .. Len(items)
    BY <1>3, <1>5, <1>7
  <2>2. PICK from \in Int, to \in Int : from = k + 1 /\ to = k + n
    BY <1>5
  <2>3. from \in 1 .. Len(log) /\ to \in 1 .. Len(log) /\ from <= to
    <3>1. items[1] = from /\ items[n] = to
      BY <1>3, <2>1, <2>2
    <3>2. items[1] \in 1 .. Len(log) /\ items[n] \in 1 .. Len(log)
      BY <2>1 DEF Offered
    <3> QED BY <2>1, <2>2, <3>1, <3>2
  <2>4. IF shown[r] = <<>> THEN Feed!First(r, from) ELSE from = shown[r][Len(shown[r])] + 1
    BY <1>1, <1>2, <2>2 DEF Handles, Starts, Feed!First
  <2>5. ASSUME NEW m \in from .. (to - 1) PROVE ~Feed!Last(r, m)
    <3>1. PICK i \in Int : i = m - k
      OBVIOUS
    <3>2. i \in 1 .. n - 1 /\ m = k + i
      BY <1>5, <2>2, <3>1
    <3> QED BY <1>4, <3>2 DEF Ends, Feed!Last
  <2>6. Feed!Span(from, to) = Span(k + 1, k + n)
    BY <2>2 DEF Span, Feed!Span
  <2>7. Abstract(handle'[r].st) = IF Feed!Last(r, to) THEN "done" ELSE "open"
    <3>1. CASE handle'[r].st = "done"
      BY <1>4, <2>2, <3>1 DEF Abstract, Ends, Feed!Last
    <3>2. CASE handle'[r].st = "live"
      <4>1. n \in 1 .. n
        BY <2>1
      <4>2. ~Ends(k + n, r)
        BY <1>4, <3>2, <4>1
      <4> QED BY <2>2, <3>2, <4>2 DEF Abstract, Ends, Feed!Last
    <3> QED BY <1>4, <3>1, <3>2
  <2>8. FeedState' = [FeedState EXCEPT ![r] = IF Feed!Last(r, to) THEN "done" ELSE "open"]
    BY <1>1, <1>4, <2>7, FeedMoves
  <2>9. DOMAIN log = 1 .. Len(log)
    BY <1>1
  <2>10. shown' = [shown EXCEPT ![r] = shown[r] \o Feed!Span(from, to)]
    BY <1>4, <2>6
  <2>11. \A m \in from .. (to - 1) : ~Feed!Last(r, m)
    BY <2>5
  <2>12. Feed!Deliver(r)
    BY <1>5, <2>3, <2>4, <2>8, <2>9, <2>10, <2>11 DEF Feed!Deliver, FeedState
  <2> QED BY <2>12
<1> QED BY <1>6, <1>7

LEMMA FeedHandles ==
  ASSUME RpcInv, NEW r \in Runs, HandleReplayed(r) \/ HandleLive(r)
  PROVE  Feed!Deliver(r) \/ Feed!Fail(r) \/ UNCHANGED feedVars
<1>1. UNCHANGED log /\ handle[r].st \in {"replay", "live"}
  BY DEF HandleReplayed, HandleLive, stream
<1>2. CASE Fails(r)
  BY <1>1, <1>2, FeedFails
<1>3. CASE /\ handle[r].st = "replay" /\ req[handle[r].q].code = "ok"
           /\ Yields(r, Span(handle[r].seq + 1, req[handle[r].q].n))
  BY <1>1, <1>3, ReplayOffers, FeedDelivers
<1>4. CASE /\ Available(r) # <<>> /\ Head(Available(r)) = handle[r].seq + 1
           /\ Yields(r, Available(r))
  BY <1>1, <1>4, HistoryOffers, FeedDelivers
<1> QED BY <1>2, <1>3, <1>4 DEF HandleReplayed, HandleLive

LEMMA FeedUnmoved == UNCHANGED <<log, handle, shown>> => UNCHANGED feedVars
  BY DEF feedVars, FeedState, Abstract, Runs

LEMMA FeedSteps ==
  ASSUME RpcInv, [RpcNext]_rpcVars
  PROVE  [Feed!Next]_feedVars
<1> USE DEF stream, runs, pipes, client
<1>1. CASE HostStep
  <2>1. ASSUME NEW r \in Runs, RunStart(r) \/ RunAsks(r) \/ RunEnd(r) \/ \E onLoop \in BOOLEAN : RunEvent(r, onLoop)
        PROVE  Feed!Publish
    <3>1. UNCHANGED <<handle, shown>> /\ \E type, onLoop : Publish(r, type, onLoop)
      BY <2>1 DEF RunStart, RunAsks, RunEnd, RunEvent
    <3> QED BY <3>1, FeedPublish
  <2>2. ASSUME NEW r \in Runs, RunStartFails(r) \/ RunReturns(r) \/ RunFinished(r)
        PROVE  UNCHANGED feedVars
    BY <2>2, FeedUnmoved DEF RunStartFails, RunReturns, RunFinished
  <2>3. ASSUME ScheduledPut \/ Forward PROVE UNCHANGED feedVars
    BY <2>3, FeedUnmoved DEF ScheduledPut, Forward
  <2> QED BY <1>1, <2>1, <2>2, <2>3 DEF HostStep, Feed!Next
<1>2. CASE ServerStep
  <2>1. UNCHANGED <<log, handle, shown>>
    <3>1. CASE Finish \/ FinishEnds \/ HostClose \/ HostCloseEnds
      BY <3>1 DEF Finish, FinishEnds, HostClose, HostCloseEnds
    <3>2. ASSUME NEW q \in Reqs,
                 Dispatch(q) \/ Initialize(q) \/ StartRefused(q) \/ StartTask(q) \/ StartReturns(q)
          PROVE  UNCHANGED <<log, handle, shown>>
      BY <3>2 DEF Dispatch, Initialize, StartRefused, StartTask, StartReturns, Handled
    <3>3. ASSUME NEW q \in Reqs,
                 Steer(q) \/ AbortRefused(q) \/ AbortRun(q) \/ AbortReturns(q) \/ ListConfirmations(q)
          PROVE  UNCHANGED <<log, handle, shown>>
      BY <3>3 DEF Steer, AbortRefused, AbortRun, AbortReturns, ListConfirmations, Handled
    <3>4. ASSUME NEW q \in Reqs,
                 RespondConfirmation(q) \/ ReplayEvents(q) \/ Shutdown(q) \/ ShutdownReturns(q)
          PROVE  UNCHANGED <<log, handle, shown>>
      BY <3>4 DEF RespondConfirmation, ReplayEvents, Shutdown, ShutdownReturns, Handled
    <3> QED BY <1>2, <3>1, <3>2, <3>3, <3>4 DEF ServerStep
  <2> QED BY <2>1, FeedUnmoved
<1>3. CASE RpcClientStep
  <2>1. CASE \/ HandshakeEnds \/ ClientReadResponse \/ ClientReadEvent \/ ClientReadEof \/ EventLoop
             \/ ConfirmationLoop \/ CloseTransport
    <3>1. UNCHANGED <<log, handle, shown>>
      BY <2>1 DEF HandshakeEnds, ClientReadResponse, ClientReadEvent, ClientReadEof, EventLoop,
                  ConfirmationLoop, CloseTransport
    <3> QED BY <3>1, FeedUnmoved
  <2>2. ASSUME NEW q \in Reqs, HandleOpens(q) PROVE \E r \in Runs : Feed!Open(r)
    BY <2>2, FeedOpens
  <2>3. ASSUME NEW r \in Runs, HandleReplayed(r) \/ HandleLive(r)
        PROVE  Feed!Deliver(r) \/ Feed!Fail(r) \/ UNCHANGED feedVars
    BY <2>3, FeedHandles
  <2> QED BY <1>3, <2>1, <2>2, <2>3 DEF RpcClientStep, Feed!Next
<1>4. CASE UserStep
  <2>1. UNCHANGED <<log, handle, shown>>
    BY <1>4 DEF UserStep, Handshake, UserRequest, CancelRequest, Aclose
  <2> QED BY <2>1, FeedUnmoved
<1>5. CASE ServerDies
  BY <1>5, FeedUnmoved DEF ServerDies
<1>6. CASE UNCHANGED rpcVars
  BY <1>6, FeedUnmoved DEF rpcVars
<1> QED BY <1>1, <1>2, <1>3, <1>4, <1>5, <1>6 DEF RpcNext

(* Every behaviour of a session implements EventFeed for each of its       *)
(* handles: whatever the stream drops, the pipe delays and the client's    *)
(* bounded queues refuse, a handle shows the consecutive events of its Run *)
(* from agent_start to agent_end, each once, or fails (client.py           *)
(* RpcRunHandle.events, replay_events, live_events, _event_loop).          *)
THEOREM FeedImplementedHolds == RpcSpec => FeedImplemented
<1>1. RpcInv /\ [RpcNext]_rpcVars => [Feed!Next]_feedVars
  BY FeedSteps
<1>2. [][Feed!Next]_feedVars /\ Feed!Init => Feed!Spec
  BY DEF feedVars, FeedState, Feed!Spec
<1> QED BY <1>1, <1>2, FeedStarts, RpcInvariant, PTL DEF RpcSpec, FeedImplemented

-----------------------------------------------------------------------------
(***************************************************************************)
(* RemoteGateway.                                                          *)
(***************************************************************************)
Copying == {"copied", "saved"}
Ops == {"issue", "approve", "deny", "revoke", "scopes"}
Operation == [k : {"copied", "saved", "assigned", "disconnected", "refused"}, op : Ops,
              d : Devices \union {"none"}, copy : Registry, base : Nat]
Reading == [k : {"auth"}, c : Conns, scopes : SUBSET Scopes]
Committing == [k : Copying, c : Conns, copy : Registry, base : Nat]
Connection == [st : {"new", "accepting", "open", "challenged", "served", "closed"},
               d : Devices \union {"none"}, scopes : SUBSET Scopes, closing : BOOLEAN,
               call : {"none", "run", "status", "confirm"}]

(* types, of the registry side and of the connections                      *)
RegTyped ==
  /\ reg \in Registry /\ disk \in Registry /\ ver \in Nat
  /\ adm = Idle \/ adm \in Operation
  /\ loop = Idle \/ loop \in Reading \/ loop \in Committing
  /\ acked \subseteq Devices /\ overtaken \in BOOLEAN
ConnTyped == conn \in [Conns -> Connection]

(* a copy in progress against the registry in force: a revocation is in    *)
(* it, and so is the authority of every device the operation did not touch *)
Derives(copy, touched) ==
  \A d \in Devices :
    /\ reg.dev[d] = "revoked" => copy.dev[d] = "revoked"
    /\ Active(reg, d) /\ d \notin touched =>
         Active(copy, d) /\ copy.scopes[d] = reg.scopes[d]

Touched == IF adm.op \in {"revoke", "scopes"} THEN {adm.d} ELSE {}

AdminDerived == adm.k \in Copying => /\ adm.base <= ver
                                     /\ adm.base = ver => Derives(adm.copy, Touched)
LoopDerived == loop.k \in Copying => /\ loop.base <= ver
                                     /\ loop.base = ver => Derives(loop.copy, {})

(* the device of a revocation in progress                                  *)
Revoking ==
  adm # Idle /\ adm.op = "revoke" =>
    /\ adm.d \in Devices
    /\ adm.k \in Copying => adm.copy.dev[adm.d] = "revoked"
    /\ adm.k \notin Copying /\ ~overtaken => reg.dev[adm.d] = "revoked"

(* state.json, unless a commit was overtaken                               *)
DiskFollows ==
  ~overtaken =>
    /\ adm.k # "saved" /\ loop.k # "saved" => disk = reg
    /\ adm.k = "saved" /\ adm.base = ver /\ loop.k # "saved" => disk = adm.copy
    /\ loop.k = "saved" /\ loop.base = ver /\ adm.k # "saved" => disk = loop.copy

AckedRevoked == ~overtaken => \A d \in acked : reg.dev[d] = "revoked"

RegInv == /\ RegTyped /\ AdminDerived /\ LoopDerived
          /\ Revoking /\ DiskFollows /\ AckedRevoked

(* a connection knows its device from auth.begin on, and the one whose     *)
(* handler is in progress stays where the handler found it                 *)
Placed ==
  /\ \A c \in Conns : conn[c].st \in {"challenged", "served"} => conn[c].d \in Devices
  /\ loop # Idle => conn[loop.c].st \in {"open", "challenged"}
  /\ loop.k = "auth" => conn[loop.c].st = "challenged"

ConnInv == ConnTyped /\ Placed /\ LeaseIsServed

IInv == RegInv /\ ConnInv /\ AuthorityCurrent

-----------------------------------------------------------------------------
(* What the other steps do to a connection: nothing, or schedule its close *)
SamePlace(c) ==
  /\ conn'[c].st = conn[c].st /\ conn'[c].d = conn[c].d
  /\ conn'[c].scopes = conn[c].scopes
  /\ conn[c].closing => conn'[c].closing

(* The steps that leave the registry side alone keep its invariant; a      *)
(* handler may end, or an authentication begin.                            *)
LEMMA RegistryUntouched ==
  ASSUME RegInv, UNCHANGED <<reg, disk, ver, adm, acked, overtaken>>,
         \/ loop' = loop
         \/ loop' \in Reading /\ loop = Idle
         \/ loop' = Idle /\ loop.k # "saved"
  PROVE  RegInv'
<1>1. RegTyped'
  BY DEF RegInv, RegTyped
<1>2. AdminDerived' /\ Revoking'
  BY DEF RegInv, AdminDerived, Revoking, Derives, Touched, Active
<1>3. LoopDerived'
  BY DEF RegInv, LoopDerived, Derives, Active, Reading, Copying, Idle
<1>4. DiskFollows' /\ AckedRevoked'
  BY DEF RegInv, DiskFollows, AckedRevoked, Reading, Idle
<1> QED
  BY <1>1, <1>2, <1>3, <1>4 DEF RegInv

(* A served connection keeps its authority when it is left alone.          *)
LEMMA AuthorityUntouched ==
  ASSUME AuthorityCurrent, UNCHANGED <<reg, adm, overtaken>>,
         \A c \in Conns : \/ conn'[c].st # "served"
                          \/ SamePlace(c) /\ (c \in late => c \in late')
  PROVE  AuthorityCurrent'
  BY DEF AuthorityCurrent, Authenticated, Registered, SamePlace, Active, Disconnects

(* The lease stays with its connection when that is left alone.            *)
LEMMA LeaseUntouched ==
  ASSUME LeaseIsServed,
         lease' = NoLease \/ (lease' = lease /\ SamePlace(lease.c))
  PROVE  LeaseIsServed'
  BY DEF LeaseIsServed, DeviceConns, Authenticated, Registered, SamePlace

(* A scheduled close changes nothing else of a connection.                 *)
LEMMA ScheduleFacts ==
  ASSUME ConnTyped, NEW cs
  PROVE  /\ ScheduleClose(cs) \in [Conns -> Connection]
         /\ \A x \in Conns : /\ ScheduleClose(cs)[x].st = conn[x].st
                             /\ ScheduleClose(cs)[x].d = conn[x].d
                             /\ ScheduleClose(cs)[x].scopes = conn[x].scopes
                             /\ conn[x].closing => ScheduleClose(cs)[x].closing
                             /\ x \in cs => ScheduleClose(cs)[x].closing
  BY DEF ConnTyped, ScheduleClose, Connection

(* Connection c is gone, and the lease with it; the others are left alone. *)
Dropped(c) ==
  /\ ConnTyped' /\ conn'[c].st = "closed"
  /\ \A x \in Conns \ {c} : SamePlace(x) /\ (x \in late => x \in late')
  /\ lease' = NoLease \/ (lease' = lease /\ lease.c # c)

(* The finally of _connect.                                                *)
LEMMA LeaveDrops ==
  ASSUME ConnTyped, NEW c \in Conns, Leave(c)
  PROVE  Dropped(c)
<1>1. [Fresh EXCEPT !.st = "closed"] \in Connection
      /\ [Fresh EXCEPT !.st = "closed"].st = "closed"
  BY DEF Fresh, Connection
<1>2. ConnTyped' /\ conn'[c].st = "closed" /\ \A x \in Conns \ {c} : conn'[x] = conn[x]
  BY <1>1 DEF Leave, ConnTyped
<1>3. lease' = NoLease \/ (lease' = lease /\ lease.c # c)
  BY DEF Leave, Release
<1> QED
  BY <1>2, <1>3 DEF Dropped, SamePlace, Leave

(* A handler whose audit record fails ends its connection.                 *)
LEMMA AuditEndsDrops ==
  ASSUME ConnTyped, NEW c \in Conns, AuditEnds(c),
         lease' = NoLease \/ (lease' = lease /\ lease.c # c)
  PROVE  Dropped(c)
<1>1. [Fresh EXCEPT !.st = "closed"] \in Connection
      /\ [Fresh EXCEPT !.st = "closed"].st = "closed"
  BY DEF Fresh, Connection
<1>2. /\ ConnTyped' /\ conn'[c].st = "closed"
      /\ \A x \in Conns \ {c} : conn'[x] = ScheduleClose(Sockets)[x]
  BY <1>1, ScheduleFacts DEF AuditEnds, ConnTyped
<1> QED
  BY <1>2, ScheduleFacts DEF Dropped, SamePlace, AuditEnds

LEMMA AuditFailsDrops ==
  ASSUME ConnTyped, NEW c \in Conns, AuditFails(c)
  PROVE  Dropped(c)
<1>1. lease' = NoLease \/ (lease' = lease /\ lease.c # c)
  BY DEF AuditFails, Release
<1> QED
  BY <1>1, AuditEndsDrops DEF AuditFails

(* Dropping a connection that no handler is in the middle of, or whose     *)
(* handler ends with it.                                                   *)
LEMMA DropStep ==
  ASSUME ConnInv, NEW c \in Conns, Dropped(c), loop' = Idle
  PROVE  ConnInv'
<1>1. \A x \in Conns : conn'[x].st \in {"challenged", "served"} => conn'[x].d \in Devices
  BY DEF Dropped, SamePlace, ConnInv, Placed
<1>2. Placed'
  BY <1>1 DEF Placed, Idle
<1>3. LeaseIsServed'
  <2>1. lease' = lease /\ lease # NoLease => SamePlace(lease.c)
    BY DEF Dropped, ConnInv, LeaseIsServed, DeviceConns, Authenticated, Registered, NoLease
  <2> QED
    BY <2>1, LeaseUntouched DEF ConnInv, LeaseIsServed, Dropped
<1> QED
  BY <1>2, <1>3 DEF ConnInv, Dropped

(* The registry side is left alone and a connection is dropped.            *)
LEMMA DropKeeps ==
  ASSUME IInv, NEW c \in Conns, Dropped(c), loop' = Idle, loop.k # "saved",
         UNCHANGED <<reg, disk, ver, adm, acked, overtaken>>
  PROVE  IInv'
<1>1. RegInv'
  BY RegistryUntouched DEF IInv
<1>2. ConnInv'
  BY DropStep DEF IInv
<1>3. AuthorityCurrent'
  BY AuthorityUntouched DEF IInv, Dropped
<1> QED
  BY <1>1, <1>2, <1>3 DEF IInv

(* Every connection is left alone or has only moved within the states      *)
(* before "served"; the lease is kept or given up.                         *)
LEMMA MildKeeps ==
  ASSUME IInv, ConnTyped', UNCHANGED <<reg, disk, ver, adm, acked, overtaken>>,
         \A x \in Conns : \/ SamePlace(x) /\ (x \in late => x \in late')
                          \/ /\ conn[x].st # "served" /\ conn'[x].st # "served"
                             /\ conn'[x].st = "challenged" => conn'[x].d \in Devices
                             /\ loop' = Idle,
         lease' \in {lease, NoLease},
         \/ loop' = loop
         \/ /\ loop' \in Reading /\ loop = Idle /\ conn'[loop'.c].st = "challenged"
  PROVE  IInv'
<1>1. RegInv'
  BY RegistryUntouched DEF IInv
<1>2. Placed'
  BY DEF IInv, ConnInv, Placed, SamePlace, RegInv, RegTyped, Reading, Committing, Idle
<1>3. LeaseIsServed'
  <2>1. lease' = lease /\ lease # NoLease => SamePlace(lease.c)
    BY DEF IInv, ConnInv, LeaseIsServed, DeviceConns, Authenticated, Registered
  <2> QED
    BY <2>1, LeaseUntouched DEF IInv, ConnInv, LeaseIsServed
<1>4. AuthorityCurrent'
  BY AuthorityUntouched DEF IInv
<1> QED
  BY <1>1, <1>2, <1>3, <1>4 DEF IInv, ConnInv
-----------------------------------------------------------------------------
(* Connections and clients                                                 *)

regVars == <<reg, disk, ver, adm, acked, overtaken>>

(* Opening a connection, its loss, and a close that arrives.               *)
LEMMA OpenStep ==
  ASSUME IInv, NEW c \in Conns,
         Connect(c) \/ Accepted(c) \/ PeerLeaves(c) \/ CloseArrives(c)
  PROVE  IInv'
<1>1. CASE Connect(c)
  <2>1. ConnTyped' /\ conn'[c].st = "accepting" /\ \A x \in Conns \ {c} : conn'[x] = conn[x]
    BY <1>1 DEF Connect, IInv, ConnInv, ConnTyped, Connection
  <2> QED
    BY <1>1, <2>1, MildKeeps DEF Connect, SamePlace, LoopFree
<1>2. CASE Accepted(c)
  <2>1. ConnTyped' /\ conn'[c].st = "open" /\ \A x \in Conns \ {c} : conn'[x] = conn[x]
    BY <1>2 DEF Accepted, IInv, ConnInv, ConnTyped, Connection
  <2> QED
    BY <1>2, <2>1, MildKeeps DEF Accepted, SamePlace, LoopFree
<1>3. CASE PeerLeaves(c) \/ CloseArrives(c)
  <2>1. Leave(c) /\ loop = Idle /\ loop' = loop /\ UNCHANGED regVars
    BY <1>3 DEF PeerLeaves, CloseArrives, Serving, LoopFree, regVars
  <2> QED
    BY <2>1, LeaveDrops, DropKeeps DEF IInv, ConnInv, regVars, Idle
<1> QED
  BY <1>1, <1>2, <1>3

(* auth.begin and the registry read of auth.complete.                      *)
LEMMA AuthStep ==
  ASSUME IInv, NEW c \in Conns, NEW d,
         (d \in Devices /\ AuthBegin(c, d)) \/ AuthRead(c)
  PROVE  IInv'
<1>1. CASE Leave(c) /\ loop = Idle /\ loop' = loop /\ UNCHANGED regVars
  BY <1>1, LeaveDrops, DropKeeps DEF IInv, ConnInv, regVars, Idle
<1>2. CASE d \in Devices /\ AuthBegin(c, d) /\ Active(reg, d)
  <2>1. /\ ConnTyped' /\ conn'[c].st = "challenged" /\ conn'[c].d = d
        /\ \A x \in Conns \ {c} : conn'[x] = conn[x]
    BY <1>2 DEF AuthBegin, IInv, ConnInv, ConnTyped, Connection
  <2> QED
    BY <1>2, <2>1, MildKeeps DEF AuthBegin, SamePlace, Serving, LoopFree
<1>3. CASE AuthRead(c) /\ Active(reg, conn[c].d)
  <2>1. /\ loop = Idle /\ UNCHANGED <<conn, lease, late>> /\ UNCHANGED regVars
        /\ loop' = [k |-> "auth", c |-> c, scopes |-> reg.scopes[conn[c].d]]
        /\ conn[c].st = "challenged"
    BY <1>3 DEF AuthRead, Serving, LoopFree, regVars
  <2>2. reg.scopes[conn[c].d] \in SUBSET Scopes
    BY <2>1 DEF IInv, ConnInv, Placed, RegInv, RegTyped, Registry
  <2>3. loop' \in Reading /\ loop'.c = c
    BY <2>1, <2>2 DEF Reading
  <2> QED
    BY <2>1, <2>3, MildKeeps DEF SamePlace, IInv, ConnInv, ConnTyped, regVars
<1> QED
  BY <1>1, <1>2, <1>3 DEF AuthBegin, AuthRead, Serving, LoopFree, regVars

(* Calls and the forwarding of events.                                     *)
LEMMA CallStep ==
  ASSUME IInv, NEW c \in Conns, NEW m \in {"run", "status", "confirm"},
         CallBegins(c, m) \/ CallReturns(c) \/ ForwardingFails(c)
  PROVE  IInv'
<1>1. CASE CallBegins(c, m)
  <2>1. ConnTyped' /\ \A x \in Conns : SamePlace(x)
    BY <1>1 DEF CallBegins, IInv, ConnInv, ConnTyped, Connection, SamePlace
  <2> QED
    BY <1>1, <2>1, MildKeeps DEF CallBegins
<1>2. CASE CallReturns(c)
  <2>1. loop = Idle /\ loop' = loop /\ UNCHANGED regVars
    BY <1>2 DEF CallReturns, LoopFree, regVars
  <2>2. CASE AuditFails(c)
    BY <2>1, <2>2, AuditFailsDrops, DropKeeps DEF IInv, ConnInv, regVars, Idle
  <2>3. CASE conn' = [conn EXCEPT ![c].call = "none"] /\ UNCHANGED <<lease, late>>
    <3>1. ConnTyped' /\ \A x \in Conns : SamePlace(x)
      BY <2>3 DEF IInv, ConnInv, ConnTyped, Connection, SamePlace
    <3> QED
      BY <2>1, <2>3, <3>1, MildKeeps DEF regVars
  <2> QED
    BY <1>2, <2>2, <2>3 DEF CallReturns, Audited
<1>3. CASE ForwardingFails(c)
  <2>1. ConnTyped' /\ \A x \in Conns : SamePlace(x)
    BY <1>3, ScheduleFacts DEF ForwardingFails, IInv, ConnInv, ConnTyped, SamePlace
  <2> QED
    BY <1>3, <2>1, MildKeeps DEF ForwardingFails
<1> QED
  BY <1>1, <1>2, <1>3

(* The control lease.                                                      *)
LEMMA LeaseStep ==
  ASSUME IInv, NEW c,
         (c \in Conns /\ LeaseAcquire(c)) \/ LeaseRelease(c) \/ LeaseExpires
  PROVE  IInv'
<1>1. CASE LeaseRelease(c) \/ LeaseExpires
  <2>1. UNCHANGED <<conn, late, loop>> /\ UNCHANGED regVars /\ lease' \in {lease, NoLease}
    BY <1>1 DEF LeaseRelease, LeaseExpires, Release, regVars
  <2> QED
    BY <2>1, MildKeeps DEF SamePlace, IInv, ConnInv, ConnTyped, regVars
<1>2. CASE c \in Conns /\ LeaseAcquire(c)
  <2>1. loop = Idle /\ loop' = loop /\ UNCHANGED regVars /\ conn[c].st = "served"
    BY <1>2 DEF LeaseAcquire, Serving, LoopFree, regVars
  <2>2. CASE Leave(c)
    BY <1>2, <2>1, <2>2, LeaveDrops, DropKeeps DEF IInv, ConnInv, regVars, Idle
  <2>3. CASE AuditEnds(c) /\ lease' = NoLease
    BY <1>2, <2>1, <2>3, AuditEndsDrops, DropKeeps DEF IInv, ConnInv, regVars, Idle
  <2>4. CASE /\ lease' = [c |-> c, d |-> conn[c].d] /\ UNCHANGED <<conn, late>>
             /\ "control" \in conn[c].scopes
    <3>1. RegInv'
      BY <2>1, RegistryUntouched DEF IInv, regVars
    <3>2. Placed' /\ ConnTyped'
      BY <2>1, <2>4 DEF IInv, ConnInv, Placed, ConnTyped
    <3>3. LeaseIsServed'
      BY <1>2, <2>1, <2>4 DEF LeaseIsServed, DeviceConns, Authenticated, Registered
    <3>4. AuthorityCurrent'
      BY <2>1, <2>4, AuthorityUntouched DEF IInv, SamePlace, regVars
    <3> QED
      BY <3>1, <3>2, <3>3, <3>4 DEF IInv, ConnInv
  <2> QED
    BY <1>2, <2>2, <2>3, <2>4 DEF LeaseAcquire
<1> QED
  BY <1>1, <1>2

(* auth.complete registers the connection: what it captured is what the    *)
(* registry says, or the admin operation that changed it is still to       *)
(* disconnect the device, or the connection is one of the late ones.       *)
LEMMA RegisterStep ==
  ASSUME IInv, AuthRegister
  PROVE  IInv'
<1> DEFINE c == loop.c
           d == conn[c].d
           served == [conn EXCEPT ![c].st = "served", ![c].scopes = loop.scopes]
<1>1. /\ loop.k = "auth" /\ loop' = Idle /\ UNCHANGED regVars
  BY DEF AuthRegister, regVars
<1>2. /\ loop \in Reading /\ c \in Conns /\ loop.scopes \in SUBSET Scopes
      /\ conn[c].st = "challenged" /\ d \in Devices
  BY <1>1 DEF IInv, RegInv, RegTyped, ConnInv, Placed, Reading, Committing, Copying, Idle
<1>3. CASE Leave(c)
  BY <1>1, <1>2, <1>3, LeaveDrops, DropKeeps DEF IInv, ConnInv, regVars
<1>4. CASE AuditFails(c)
  BY <1>1, <1>2, <1>4, AuditFailsDrops, DropKeeps DEF IInv, ConnInv, regVars
<1>5. CASE /\ conn' = served /\ UNCHANGED <<ready, lease, faults>>
           /\ late' = IF Unseen(c, d) THEN late \union {c} ELSE late
  <2>1. /\ ConnTyped' /\ \A x \in Conns \ {c} : conn'[x] = conn[x]
        /\ conn'[c].st = "served" /\ conn'[c].d = d /\ conn'[c].scopes = loop.scopes
    BY <1>2, <1>5 DEF IInv, ConnInv, ConnTyped, Connection
  <2>2. RegInv'
    BY <1>1, RegistryUntouched DEF IInv, regVars
  <2>3. Placed'
    BY <1>1, <1>2, <2>1 DEF IInv, ConnInv, Placed, Idle
  <2>4. LeaseIsServed'
    <3>1. lease # NoLease => SamePlace(lease.c)
      BY <1>2, <2>1
      DEF IInv, ConnInv, LeaseIsServed, DeviceConns, Authenticated, Registered, SamePlace
    <3> QED
      BY <1>5, <3>1, LeaseUntouched DEF IInv, ConnInv, LeaseIsServed
  <2>5. ASSUME NEW x \in Authenticated'
        PROVE  \/ conn'[x].closing \/ x \in late' \/ overtaken'
               \/ adm'.k = "assigned" /\ Disconnects' /\ adm'.d = conn'[x].d
               \/ Active(reg', conn'[x].d) /\ reg'.scopes[conn'[x].d] = conn'[x].scopes
    <3>1. CASE x = c
      BY <1>1, <1>5, <2>1, <3>1 DEF Unseen, Active, Disconnects, regVars
    <3>2. CASE x # c
      <4>1. x \in Authenticated /\ conn'[x] = conn[x] /\ (x \in late => x \in late')
        BY <1>5, <2>1, <3>2 DEF Authenticated, Registered
      <4> QED
        BY <1>1, <4>1 DEF IInv, AuthorityCurrent, Active, Disconnects, regVars
    <3> QED
      BY <3>1, <3>2
  <2>6. AuthorityCurrent'
    BY <2>5 DEF AuthorityCurrent
  <2> QED
    BY <2>1, <2>2, <2>3, <2>4, <2>6 DEF IInv, ConnInv
<1> QED
  BY <1>3, <1>4, <1>5 DEF AuthRegister

-----------------------------------------------------------------------------
(* Commits of the registry                                                 *)

(* pairing.submit on a copy: a new device becomes pending.                 *)
LEMMA SubmittedDerives ==
  ASSUME RegTyped, NEW d \in Devices, MaySubmit(reg, d)
  PROVE  Submitted(reg, d) \in Registry /\ Derives(Submitted(reg, d), {})
  BY DEF RegTyped, Registry, MaySubmit, Submitted, Derives, Active

(* The operations of the admin thread on a copy.                           *)
LEMMA AdminResultDerives ==
  ASSUME RegTyped, NEW op \in Ops, NEW d \in Devices \union {"none"},
         NEW s \in SUBSET Scopes, op # "issue" => d \in Devices, AdminAllowed(op, d)
  PROVE  /\ AdminResult(op, d, s) \in Registry
         /\ Derives(AdminResult(op, d, s), IF op \in {"revoke", "scopes"} THEN {d} ELSE {})
         /\ op = "revoke" => AdminResult(op, d, s).dev[d] = "revoked"
<1> USE DEF RegTyped, Registry, AdminResult, AdminAllowed, Derives, Active
<1>1. CASE op = "issue"
  BY <1>1 DEF IssueCode
<1>2. CASE op = "approve"
  BY <1>2 DEF Approved
<1>3. CASE op = "deny"
  BY <1>3 DEF Denied
<1>4. CASE op = "revoke"
  BY <1>4 DEF Revoked
<1>5. CASE op = "scopes"
  BY <1>5 DEF ScopesSet
<1> QED
  BY <1>1, <1>2, <1>3, <1>4, <1>5 DEF Ops

(* The connections do not notice the steps of a commit before its          *)
(* assignment.                                                             *)
LEMMA CommitUnnoticed ==
  ASSUME IInv, UNCHANGED <<reg, conn, lease, overtaken, late>>,
         \/ adm' = adm
         \/ adm.k # "assigned"
         \/ adm.k = "assigned" /\ ~Disconnects,
         loop' = loop \/ (loop = Idle /\ loop' \in Committing
                          /\ conn[loop'.c].st \in {"open", "challenged"})
                      \/ (loop # Idle /\ loop' \in Committing /\ loop'.c = loop.c)
                      \/ loop' = Idle
  PROVE  ConnInv' /\ AuthorityCurrent'
<1>1. Placed' /\ ConnTyped'
  BY DEF IInv, ConnInv, Placed, ConnTyped, Committing, Copying, Idle
<1>2. LeaseIsServed'
  BY DEF IInv, ConnInv, LeaseIsServed, DeviceConns, Authenticated, Registered
<1>3. AuthorityCurrent'
  BY DEF IInv, AuthorityCurrent, Authenticated, Registered, Active, Disconnects
<1> QED
  BY <1>1, <1>2, <1>3 DEF ConnInv

(* pairing.submit up to its assignment.                                    *)
LEMMA SubmitStep ==
  ASSUME IInv, NEW c, NEW d,
         \/ c \in Conns /\ d \in Devices /\ SubmitCopy(c, d)
         \/ SubmitSave
         \/ SubmitSaveFails
  PROVE  IInv'
<1>1. CASE c \in Conns /\ d \in Devices /\ SubmitCopy(c, d)
  <2>1. /\ loop = Idle /\ loop' = [k |-> "copied", c |-> c, copy |-> Submitted(reg, d), base |-> ver]
        /\ UNCHANGED <<reg, disk, ver, adm, acked, overtaken, conn, lease, late>>
        /\ conn[c].st \in {"open", "challenged"}
        /\ Submitted(reg, d) \in Registry /\ Derives(Submitted(reg, d), {})
    BY <1>1, SubmittedDerives DEF SubmitCopy, Serving, LoopFree, IInv, RegInv
  <2>2. loop' \in Committing /\ loop'.c = c /\ loop'.k = "copied"
    BY <1>1, <2>1 DEF Committing, Copying, IInv, RegInv, RegTyped
  <2>3. RegTyped'
    BY <2>1, <2>2 DEF IInv, RegInv, RegTyped
  <2>4. AdminDerived' /\ Revoking'
    BY <2>1 DEF IInv, RegInv, AdminDerived, Revoking, Derives, Touched, Active
  <2>5. LoopDerived'
    BY <2>1 DEF LoopDerived, Derives, Active, IInv, RegInv, RegTyped
  <2>6. DiskFollows' /\ AckedRevoked'
    BY <2>1, <2>2 DEF IInv, RegInv, DiskFollows, AckedRevoked, Idle
  <2>7. ConnInv' /\ AuthorityCurrent'
    BY <2>1, <2>2, CommitUnnoticed
  <2> QED
    BY <2>3, <2>4, <2>5, <2>6, <2>7 DEF IInv, RegInv
<1>2. CASE SubmitSave
  <2>1. /\ loop.k = "copied" /\ loop' = [loop EXCEPT !.k = "saved"] /\ disk' = loop.copy
        /\ UNCHANGED <<reg, ver, adm, acked, overtaken, conn, lease, late>>
    BY <1>2 DEF SubmitSave
  <2>2. /\ loop \in Committing /\ loop' \in Committing /\ loop # Idle
        /\ loop'.c = loop.c /\ loop'.copy = loop.copy /\ loop'.base = loop.base
        /\ loop'.k = "saved" /\ loop.copy \in Registry
    BY <2>1 DEF IInv, RegInv, RegTyped, Reading, Committing, Copying, Idle
  <2>3. RegTyped'
    BY <2>1, <2>2 DEF IInv, RegInv, RegTyped
  <2>4. AdminDerived' /\ Revoking'
    BY <2>1 DEF IInv, RegInv, AdminDerived, Revoking, Derives, Touched, Active
  <2>5. LoopDerived'
    BY <2>1, <2>2 DEF LoopDerived, Derives, Active, IInv, RegInv, Copying
  <2>6. DiskFollows' /\ AckedRevoked'
    BY <2>1, <2>2 DEF IInv, RegInv, DiskFollows, AckedRevoked
  <2>7. ConnInv' /\ AuthorityCurrent'
    BY <2>1, <2>2, CommitUnnoticed
  <2> QED
    BY <2>3, <2>4, <2>5, <2>6, <2>7 DEF IInv, RegInv
<1>3. CASE SubmitSaveFails
  <2>1. loop.k = "copied" /\ loop' = Idle /\ Leave(loop.c) /\ UNCHANGED regVars
    BY <1>3 DEF SubmitSaveFails, regVars
  <2>2. loop.c \in Conns
    BY <2>1 DEF IInv, RegInv, RegTyped, Reading, Committing, Copying, Idle
  <2> QED
    BY <2>1, <2>2, LeaveDrops, DropKeeps DEF IInv, ConnInv, regVars
<1> QED
  BY <1>1, <1>2, <1>3

(* pairing.submit puts its copy in force.  If the registry it replaces is  *)
(* the one it was copied from, a copy of the admin thread is now based on  *)
(* an older one.                                                           *)
LEMMA SubmitAssignStep ==
  ASSUME IInv, SubmitAssign
  PROVE  IInv'
<1>1. /\ loop.k = "saved" /\ loop' = Idle /\ reg' = loop.copy /\ ver' = ver + 1
      /\ overtaken' = (overtaken \/ loop.base # ver)
      /\ Audited(loop.c, conn) /\ UNCHANGED <<disk, adm, acked>>
  BY DEF SubmitAssign, Assign
<1>2. /\ loop \in Committing /\ loop.c \in Conns /\ loop.copy \in Registry
      /\ loop.base \in Nat /\ ver \in Nat /\ loop.k \in Copying
  BY <1>1 DEF IInv, RegInv, RegTyped, Reading, Committing, Copying, Idle
<1>3. ~overtaken' => ~overtaken /\ loop.base = ver /\ Derives(loop.copy, {})
  BY <1>1, <1>2 DEF IInv, RegInv, LoopDerived
<1>4. RegTyped'
  BY <1>1, <1>2 DEF IInv, RegInv, RegTyped
<1>5. adm.k \in Copying => adm.base \in Nat /\ adm.base < ver'
  BY <1>1, <1>2 DEF IInv, RegInv, RegTyped, AdminDerived, Operation, Copying, Idle
<1>6. AdminDerived' /\ LoopDerived'
  BY <1>1, <1>2, <1>5 DEF AdminDerived, LoopDerived, Idle, Copying
<1>7. Revoking'
  BY <1>1, <1>3 DEF IInv, RegInv, Revoking, Derives
<1>8. DiskFollows'
  <2>1. ~overtaken' /\ adm.k # "saved" => disk = loop.copy
    BY <1>1, <1>3 DEF IInv, RegInv, DiskFollows
  <2>2. adm.k = "saved" => adm.base # ver'
    BY <1>1, <1>2, <1>5 DEF Copying
  <2> QED
    BY <1>1, <2>1, <2>2 DEF DiskFollows, Idle
<1>9. AckedRevoked'
  BY <1>1, <1>3 DEF IInv, RegInv, RegTyped, AckedRevoked, Derives
<1>10. /\ ConnInv'
       /\ \A x \in Conns : \/ conn'[x].st # "served"
                           \/ SamePlace(x) /\ (x \in late => x \in late')
  <2>1. CASE conn' = conn /\ UNCHANGED <<lease, late>>
    BY <1>1, <2>1
    DEF IInv, ConnInv, Placed, ConnTyped, LeaseIsServed, DeviceConns, Authenticated,
        Registered, Idle, SamePlace
  <2>2. CASE AuditFails(loop.c)
    <3>1. Dropped(loop.c)
      BY <1>2, <2>2, AuditFailsDrops DEF IInv, ConnInv
    <3> QED
      BY <1>1, <1>2, <3>1, DropStep DEF IInv, Dropped
  <2> QED
    BY <1>1, <2>1, <2>2 DEF Audited
<1>11. ASSUME NEW x \in Authenticated'
       PROVE  \/ conn'[x].closing \/ x \in late' \/ overtaken'
              \/ adm'.k = "assigned" /\ Disconnects' /\ adm'.d = conn'[x].d
              \/ Active(reg', conn'[x].d) /\ reg'.scopes[conn'[x].d] = conn'[x].scopes
  <2>1. /\ x \in Conns /\ x \in Authenticated /\ SamePlace(x) /\ (x \in late => x \in late')
    BY <1>10 DEF Authenticated, Registered, SamePlace
  <2>2. conn[x].d \in Devices
    BY <2>1 DEF IInv, ConnInv, Placed, Authenticated
  <2>3. \/ conn[x].closing \/ x \in late \/ overtaken
        \/ adm.k = "assigned" /\ Disconnects /\ adm.d = conn[x].d
        \/ Active(reg, conn[x].d) /\ reg.scopes[conn[x].d] = conn[x].scopes
    BY <2>1 DEF IInv, AuthorityCurrent
  <2> QED
    BY <1>1, <1>3, <2>1, <2>2, <2>3 DEF SamePlace, Derives, Active, Disconnects
<1>12. AuthorityCurrent'
  BY <1>11 DEF AuthorityCurrent
<1> QED
  BY <1>4, <1>6, <1>7, <1>8, <1>9, <1>10, <1>12 DEF IInv, RegInv

-----------------------------------------------------------------------------
(* The admin thread                                                        *)

(* A management request is read and applied to a copy.                     *)
LEMMA AdminBeginStep ==
  ASSUME IInv, NEW op \in Ops, NEW d \in Devices \union {"none"},
         NEW s \in SUBSET Scopes, op # "issue" => d \in Devices, AdminBegin(op, d, s)
  PROVE  IInv'
<1> DEFINE copy == AdminResult(op, d, s)
<1>1. /\ adm = Idle /\ adm' = [k |-> "copied", op |-> op, d |-> d, copy |-> copy, base |-> ver]
      /\ UNCHANGED <<reg, disk, ver, loop, acked, overtaken, conn, lease, late>>
      /\ AdminAllowed(op, d)
  BY DEF AdminBegin
<1>2. /\ copy \in Registry
      /\ Derives(copy, IF op \in {"revoke", "scopes"} THEN {d} ELSE {})
      /\ op = "revoke" => copy.dev[d] = "revoked"
  BY <1>1, AdminResultDerives DEF IInv, RegInv
<1> HIDE DEF copy
<1>3. /\ adm' \in Operation /\ adm'.k = "copied" /\ adm'.op = op /\ adm'.d = d
      /\ adm'.copy = copy /\ adm'.base = ver /\ adm' # Idle
  BY <1>1, <1>2 DEF Operation, IInv, RegInv, RegTyped, Idle
<1>4. RegTyped'
  BY <1>1, <1>3 DEF IInv, RegInv, RegTyped
<1>5. AdminDerived'
  BY <1>1, <1>2, <1>3 DEF AdminDerived, Derives, Touched, Active, IInv, RegInv, RegTyped
<1>6. LoopDerived'
  BY <1>1 DEF IInv, RegInv, LoopDerived, Derives, Active
<1>7. Revoking'
  BY <1>2, <1>3 DEF Revoking, Copying
<1>8. DiskFollows' /\ AckedRevoked'
  BY <1>1, <1>3 DEF IInv, RegInv, DiskFollows, AckedRevoked, Idle
<1>9. ConnInv' /\ AuthorityCurrent'
  BY <1>1, CommitUnnoticed DEF Idle
<1> QED
  BY <1>4, <1>5, <1>6, <1>7, <1>8, <1>9 DEF IInv, RegInv

(* The copy is saved, or its save fails.                                   *)
LEMMA AdminSaveStep ==
  ASSUME IInv, AdminSave \/ AdminSaveFails
  PROVE  IInv'
<1>1. /\ adm.k = "copied"
      /\ UNCHANGED <<reg, ver, loop, acked, overtaken, conn, lease, late>>
      /\ \/ disk' = adm.copy /\ adm' = [adm EXCEPT !.k = "saved"]
         \/ disk' = disk /\ adm' = Idle
  BY DEF AdminSave, AdminSaveFails
<1>2. adm \in Operation /\ adm # Idle /\ adm.copy \in Registry
  BY <1>1 DEF IInv, RegInv, RegTyped, Operation, Idle
<1>3. ConnInv' /\ AuthorityCurrent'
  BY <1>1, CommitUnnoticed
<1>4. LoopDerived'
  BY <1>1 DEF IInv, RegInv, LoopDerived, Derives, Active
<1>5. AckedRevoked'
  BY <1>1 DEF IInv, RegInv, AckedRevoked
<1>6. CASE disk' = disk /\ adm' = Idle
  <2>1. RegTyped' /\ AdminDerived' /\ Revoking' /\ DiskFollows'
    BY <1>1, <1>6
    DEF IInv, RegInv, RegTyped, AdminDerived, Revoking, DiskFollows, Copying, Idle
  <2> QED
    BY <1>3, <1>4, <1>5, <2>1 DEF IInv, RegInv
<1>7. CASE disk' = adm.copy /\ adm' = [adm EXCEPT !.k = "saved"]
  <2>1. /\ adm' \in Operation /\ adm'.k = "saved" /\ adm'.op = adm.op /\ adm'.d = adm.d
        /\ adm'.copy = adm.copy /\ adm'.base = adm.base
    BY <1>2, <1>7 DEF Operation
  <2>2. RegTyped'
    BY <1>1, <1>2, <1>7, <2>1 DEF IInv, RegInv, RegTyped
  <2>3. AdminDerived' /\ Revoking'
    BY <1>1, <1>2, <2>1
    DEF IInv, RegInv, AdminDerived, Revoking, Derives, Touched, Active, Copying
  <2>4. DiskFollows'
    BY <1>1, <1>7, <2>1 DEF IInv, RegInv, DiskFollows
  <2> QED
    BY <1>3, <1>4, <1>5, <2>2, <2>3, <2>4 DEF IInv, RegInv
<1> QED
  BY <1>1, <1>6, <1>7

(* The admin thread puts its copy in force.  The device it revoked or gave *)
(* other scopes is the one it is about to disconnect.                      *)
LEMMA AdminAssignStep ==
  ASSUME IInv, AdminAssign
  PROVE  IInv'
<1>1. /\ adm.k = "saved" /\ adm' = [adm EXCEPT !.k = "assigned"]
      /\ reg' = adm.copy /\ ver' = ver + 1
      /\ overtaken' = (overtaken \/ adm.base # ver)
      /\ UNCHANGED <<disk, loop, acked, conn, lease, late>>
  BY DEF AdminAssign, Assign
<1>2. /\ adm \in Operation /\ adm # Idle /\ adm.copy \in Registry /\ adm.k \in Copying
      /\ adm.base \in Nat /\ ver \in Nat
      /\ adm' \in Operation /\ adm'.k = "assigned" /\ adm'.op = adm.op /\ adm'.d = adm.d
  BY <1>1 DEF IInv, RegInv, RegTyped, Operation, Copying, Idle
<1>3. ~overtaken' => ~overtaken /\ adm.base = ver /\ Derives(adm.copy, Touched)
  BY <1>1, <1>2 DEF IInv, RegInv, AdminDerived
<1>4. loop.k \in Copying => loop.base \in Nat /\ loop.base < ver'
  BY <1>1, <1>2 DEF IInv, RegInv, RegTyped, LoopDerived, Reading, Committing, Copying, Idle
<1>5. RegTyped'
  BY <1>1, <1>2 DEF IInv, RegInv, RegTyped
<1>6. AdminDerived' /\ LoopDerived'
  BY <1>1, <1>2, <1>4 DEF AdminDerived, LoopDerived, Copying
<1>7. Revoking'
  BY <1>1, <1>2 DEF IInv, RegInv, Revoking, Copying
<1>8. DiskFollows'
  <2>1. ~overtaken' /\ loop.k # "saved" => disk = adm.copy
    BY <1>1, <1>3 DEF IInv, RegInv, DiskFollows
  <2>2. loop.k = "saved" => loop.base # ver'
    BY <1>1, <1>2, <1>4 DEF Copying
  <2> QED
    BY <1>1, <1>2, <2>1, <2>2 DEF DiskFollows
<1>9. AckedRevoked'
  BY <1>1, <1>3 DEF IInv, RegInv, RegTyped, AckedRevoked, Derives
<1>10. ConnInv'
  BY <1>1 DEF IInv, ConnInv, Placed, ConnTyped, LeaseIsServed, DeviceConns, Authenticated,
              Registered
<1>11. ASSUME NEW x \in Authenticated'
       PROVE  \/ conn'[x].closing \/ x \in late' \/ overtaken'
              \/ adm'.k = "assigned" /\ Disconnects' /\ adm'.d = conn'[x].d
              \/ Active(reg', conn'[x].d) /\ reg'.scopes[conn'[x].d] = conn'[x].scopes
  <2>1. x \in Authenticated /\ conn[x].d \in Devices
    BY <1>1 DEF IInv, ConnInv, Placed, Authenticated, Registered
  <2>2. \/ conn[x].closing \/ x \in late \/ overtaken
        \/ Active(reg, conn[x].d) /\ reg.scopes[conn[x].d] = conn[x].scopes
    BY <1>1, <2>1 DEF IInv, AuthorityCurrent
  <2> QED
    BY <1>1, <1>2, <1>3, <2>1, <2>2 DEF Derives, Active, Disconnects, Touched
<1>12. AuthorityCurrent'
  BY <1>11 DEF AuthorityCurrent
<1> QED
  BY <1>5, <1>6, <1>7, <1>8, <1>9, <1>10, <1>12 DEF IInv, RegInv

(* disconnect_device closes every served connection of the device, or      *)
(* fails and leaves them as late ones, so the exception for the operation  *)
(* in progress is no longer needed.                                        *)
LEMMA AdminDisconnectStep ==
  ASSUME IInv, AdminDisconnect \/ AdminDisconnectFails
  PROVE  IInv'
<1>1. /\ adm.k = "assigned" /\ adm' \in {[adm EXCEPT !.k = "disconnected"], [adm EXCEPT !.k = "refused"]}
      /\ \/ conn' = ScheduleClose(DeviceConns(adm.d)) /\ late' = late
         \/ conn' = conn /\ late' = late \union DeviceConns(adm.d)
      /\ lease' \in {lease, NoLease}
      /\ UNCHANGED <<reg, disk, ver, loop, acked, overtaken>>
  BY DEF AdminDisconnect, AdminDisconnectFails, Disconnected
<1>2. /\ adm \in Operation /\ adm # Idle
      /\ adm' \in Operation /\ adm'.k \in {"disconnected", "refused"}
      /\ adm'.op = adm.op /\ adm'.d = adm.d
  BY <1>1 DEF IInv, RegInv, RegTyped, Operation, Copying, Idle
<1>3. /\ ConnTyped'
      /\ \A x \in Conns : /\ SamePlace(x) /\ (x \in late => x \in late')
                          /\ x \in DeviceConns(adm.d) => conn'[x].closing \/ x \in late'
  <2>1. CASE conn' = ScheduleClose(DeviceConns(adm.d)) /\ late' = late
    BY <2>1, ScheduleFacts DEF IInv, ConnInv, ConnTyped, SamePlace
  <2>2. CASE conn' = conn /\ late' = late \union DeviceConns(adm.d)
    BY <2>2 DEF IInv, ConnInv, ConnTyped, SamePlace, DeviceConns, Authenticated, Registered
  <2> QED
    BY <1>1, <2>1, <2>2
<1>4. RegTyped'
  BY <1>1, <1>2 DEF IInv, RegInv, RegTyped
<1>5. AdminDerived' /\ LoopDerived'
  BY <1>1, <1>2 DEF IInv, RegInv, AdminDerived, LoopDerived, Copying, Derives, Active
<1>6. Revoking' /\ DiskFollows' /\ AckedRevoked'
  BY <1>1, <1>2 DEF IInv, RegInv, Revoking, DiskFollows, AckedRevoked, Copying
<1>7. Placed'
  BY <1>1, <1>3
  DEF IInv, ConnInv, Placed, SamePlace, RegInv, RegTyped, Reading, Committing, Idle
<1>8. LeaseIsServed'
  <2>1. lease # NoLease => SamePlace(lease.c)
    BY <1>3 DEF IInv, ConnInv, LeaseIsServed, DeviceConns, Authenticated, Registered
  <2> QED
    BY <1>1, <2>1, LeaseUntouched DEF IInv, ConnInv, LeaseIsServed
<1>9. AuthorityCurrent'
  <2> SUFFICES ASSUME NEW x \in Authenticated'
               PROVE  \/ conn'[x].closing \/ x \in late' \/ overtaken'
                      \/ Active(reg', conn'[x].d) /\ reg'.scopes[conn'[x].d] = conn'[x].scopes
    BY DEF AuthorityCurrent
  <2>1. x \in Conns /\ x \in Authenticated /\ SamePlace(x)
    BY <1>3 DEF Authenticated, Registered, SamePlace
  <2>2. \/ conn[x].closing \/ x \in late \/ overtaken
        \/ x \in DeviceConns(adm.d)
        \/ Active(reg, conn[x].d) /\ reg.scopes[conn[x].d] = conn[x].scopes
    BY <2>1 DEF IInv, AuthorityCurrent, DeviceConns
  <2> QED
    BY <1>1, <1>3, <2>1, <2>2 DEF SamePlace, Active
<1> QED
  BY <1>3, <1>4, <1>5, <1>6, <1>7, <1>8, <1>9 DEF IInv, RegInv, ConnInv

(* The answer to the administrator: a revocation that is acknowledged is   *)
(* in the registry.                                                        *)
LEMMA AdminAnswersStep ==
  ASSUME IInv, AdminAnswers
  PROVE  IInv'
<1>1. /\ adm.k \in {"assigned", "disconnected", "refused"}
      /\ adm.k = "assigned" => ~Disconnects
      /\ adm' = Idle /\ UNCHANGED <<reg, disk, ver, loop, lease, overtaken>>
      /\ \/ /\ acked' = IF adm.op = "revoke" /\ adm.k # "refused"
                        THEN acked \union {adm.d} ELSE acked
            /\ UNCHANGED <<conn, late>>
         \/ FailClosed /\ UNCHANGED acked
  BY DEF AdminAnswers
<1>2. adm \in Operation /\ adm # Idle
  BY <1>1 DEF IInv, RegInv, RegTyped, Operation, Idle
<1>3. RegTyped'
  BY <1>1, <1>2 DEF IInv, RegInv, RegTyped, Revoking
<1>4. AdminDerived' /\ LoopDerived' /\ Revoking'
  BY <1>1 DEF IInv, RegInv, AdminDerived, LoopDerived, Revoking, Copying, Idle, Derives, Active
<1>5. DiskFollows'
  BY <1>1 DEF IInv, RegInv, DiskFollows, Idle
<1>6. AckedRevoked'
  BY <1>1, <1>2 DEF IInv, RegInv, AckedRevoked, Revoking, Copying
<1>7. ConnTyped' /\ \A x \in Conns : SamePlace(x) /\ (x \in late => x \in late')
  BY <1>1, ScheduleFacts DEF FailClosed, IInv, ConnInv, ConnTyped, SamePlace
<1>8. Placed'
  BY <1>1, <1>7
  DEF IInv, ConnInv, Placed, SamePlace, RegInv, RegTyped, Reading, Committing, Idle
<1>9. LeaseIsServed'
  <2>1. lease # NoLease => SamePlace(lease.c)
    BY <1>7 DEF IInv, ConnInv, LeaseIsServed, DeviceConns, Authenticated, Registered
  <2> QED
    BY <1>1, <2>1, LeaseUntouched DEF IInv, ConnInv, LeaseIsServed
<1>10. AuthorityCurrent'
  <2> SUFFICES ASSUME NEW x \in Authenticated'
               PROVE  \/ conn'[x].closing \/ x \in late' \/ overtaken'
                      \/ Active(reg', conn'[x].d) /\ reg'.scopes[conn'[x].d] = conn'[x].scopes
    BY DEF AuthorityCurrent
  <2>1. x \in Conns /\ x \in Authenticated /\ SamePlace(x) /\ (x \in late => x \in late')
    BY <1>7 DEF Authenticated, Registered, SamePlace
  <2> QED
    BY <1>1, <2>1 DEF IInv, AuthorityCurrent, SamePlace, Active
<1> QED
  BY <1>3, <1>4, <1>5, <1>6, <1>7, <1>8, <1>9, <1>10 DEF IInv, RegInv, ConnInv

-----------------------------------------------------------------------------
(* The theorems                                                            *)

(* A Host that has just loaded its registry.                               *)
LEMMA InitHolds == Init => IInv
<1> SUFFICES ASSUME Init PROVE IInv
  OBVIOUS
<1>1. RegInv
  BY GatewayAssumption
  DEF Init, RegInv, RegTyped, AdminDerived, LoopDerived, Revoking, DiskFollows,
      AckedRevoked, Copying, Idle
<1>2. ConnTyped
  BY DEF Init, ConnTyped, Connection, Fresh
<1>3. \A c \in Conns : conn[c].st = "new"
  BY DEF Init, Fresh
<1>4. Placed /\ LeaseIsServed /\ AuthorityCurrent
  BY <1>3 DEF Init, Placed, LeaseIsServed, AuthorityCurrent, Authenticated, Registered, Idle
<1> QED
  BY <1>1, <1>2, <1>4 DEF IInv, ConnInv

(* Every step of both threads keeps the invariant.                         *)
LEMMA NextKeeps ==
  ASSUME IInv, [Next]_vars
  PROVE  IInv'
<1>1. CASE AdminStep
  BY <1>1, AdminSaveStep, AdminAssignStep, AdminDisconnectStep, AdminAnswersStep DEF AdminStep
<1>2. CASE AdminAsks
  <2>1. {} \in SUBSET Scopes /\ Ops = {"issue", "approve", "deny", "revoke", "scopes"}
    BY DEF Ops
  <2>2. \A s \in ScopeSets : s \in SUBSET Scopes
    BY GatewayAssumption
  <2> QED
    BY <1>2, <2>1, <2>2, AdminBeginStep DEF AdminAsks
<1>3. CASE LoopStep
  BY <1>3, RegisterStep, SubmitStep, SubmitAssignStep, OpenStep, CallStep DEF LoopStep
<1>4. CASE ClientStep
  BY <1>4, OpenStep, AuthStep, CallStep, LeaseStep, SubmitStep DEF ClientStep
<1>5. CASE UNCHANGED vars
  <2>1. RegInv'
    BY <1>5, RegistryUntouched DEF vars, IInv
  <2>2. ConnInv'
    BY <1>5 DEF vars, IInv, ConnInv, ConnTyped, Placed, LeaseIsServed, DeviceConns,
                Authenticated, Registered
  <2>3. AuthorityCurrent'
    BY <1>5, AuthorityUntouched DEF vars, IInv, SamePlace
  <2> QED
    BY <2>1, <2>2, <2>3 DEF IInv
<1> QED
  BY <1>1, <1>2, <1>3, <1>4, <1>5 DEF Next

(* The inductive invariant of the gateway.                                 *)
THEOREM GatewayInvariant == Spec => []IInv
<1>1. IInv /\ [Next]_vars => IInv'
  BY NextKeeps
<1> QED
  BY InitHolds, <1>1, PTL DEF Spec

(* AuthorityCurrent, for all instances: a served connection that is not    *)
(* about to be closed acts with the scopes its device has now, up to the   *)
(* two races the property names.                                           *)
THEOREM AuthorityIsCurrent == Spec => []AuthorityCurrent
<1>1. IInv => AuthorityCurrent
  BY DEF IInv
<1> QED
  BY <1>1, GatewayInvariant, PTL

(* AdminAckKept, for all instances: an acknowledged revocation stays in    *)
(* force and on disk, unless one thread's commit overtook the other's.     *)
THEOREM AcksAreKept == Spec => []AdminAckKept
<1>1. IInv => AdminAckKept
  BY DEF IInv, RegInv, DiskFollows, AckedRevoked, AdminAckKept
<1> QED
  BY <1>1, GatewayInvariant, PTL

(* LeaseIsServed, for all instances: the control lease is held by a live,  *)
(* authenticated connection of its device that has the control scope.      *)
THEOREM LeaseServed == Spec => []LeaseIsServed
<1>1. IInv => LeaseIsServed
  BY DEF IInv, ConnInv
<1> QED
  BY <1>1, GatewayInvariant, PTL
=============================================================================
