--------------------------- MODULE RemoteGateway ---------------------------
(***************************************************************************)
(* The Remote gateway of one Host: pairing and device registry, WebSocket  *)
(* connections, device authentication, scopes, the control lease and the   *)
(* mandatory audit.                                                        *)
(*                                                                         *)
(* Two threads share this state without a lock of their own: the event     *)
(* loop that serves every connection (variable loop: the handler it is in  *)
(* the middle of) and the admin thread of serve_remote_gateway (adm).      *)
(***************************************************************************)
EXTENDS Integers, FiniteSets

CONSTANTS Devices,       \* device keys
          Conns,         \* connections; each is opened at most once
          ScopeSets,     \* normalized scope sets an approval may assign
          MaxGlobal, MaxPerDevice,  \* RemoteConnectionRegistry limits
          MaxAdmin,      \* operations of the admin thread
          MaxFaults,     \* failing audit appends and failing registry saves
          Loaded,        \* registries load_registry may find in state.json
          NoConn

Scopes == {"observe", "control", "confirm"}

(* what PairingRegistry.from_dict accepts: an open code or none, and the   *)
(* status and the scopes of every device                                   *)
Registry == [codes : {0, 1},
             dev : [Devices -> {"none", "pending", "active", "denied", "revoked"}],
             scopes : [Devices -> SUBSET Scopes]]

ASSUME GatewayAssumption ==
  /\ MaxGlobal \in Nat \ {0} /\ MaxPerDevice \in Nat \ {0} /\ MaxAdmin \in Nat
  /\ MaxFaults \in Nat /\ NoConn \notin Conns
  /\ ScopeSets \subseteq SUBSET Scopes /\ Loaded \subseteq Registry

VARIABLES reg,      \* RemoteHostController._registry: codes, dev, scopes
          disk,     \* state.json
          ver,      \* history: registry replacements so far
          adm, ops, \* the admin operation in progress; how many there were
          loop,     \* the synchronous handler the event loop is in
          conn,     \* per connection: step, device, scopes, close scheduled, call
          ready, lease, faults,
          acked,    \* history: devices whose revocation was acknowledged
          overtaken,\* history: a registry was replaced by a copy of an older one
          late      \* history: connections that a disconnect did not reach

vars == <<reg, disk, ver, adm, ops, loop, conn, ready, lease, faults, acked, overtaken, late>>

NoLease == [c |-> NoConn, d |-> "none"]
Idle == [k |-> "idle"]
Fresh == [st |-> "new", d |-> "none", scopes |-> {}, closing |-> FALSE, call |-> "none"]

(* connections in RemoteConnectionRegistry, and those in _websockets       *)
Registered == {c \in Conns : conn[c].st \notin {"new", "closed"}}
Sockets == {c \in Conns : conn[c].st \notin {"new", "accepting", "closed"}}
Authenticated == {c \in Registered : conn[c].st = "served"}
DeviceConns(d) == {c \in Authenticated : conn[c].d = d}

Active(r, d) == r.dev[d] = "active"

(***************************************************************************)
(* The audit: a failing append makes the gateway fail closed, and the      *)
(* operation that wanted the record fails with it.                         *)
(***************************************************************************)
ScheduleClose(cs) == [c \in Conns |-> IF c \in cs THEN [conn[c] EXCEPT !.closing = TRUE] ELSE conn[c]]

FailClosed ==
  /\ faults < MaxFaults /\ faults' = faults + 1
  /\ ready' = FALSE
  /\ conn' = ScheduleClose(Sockets)
  /\ late' = late \union {c \in Conns : conn[c].st = "accepting"}

(***************************************************************************)
(* PairingRegistry transitions, on a copy.                                 *)
(***************************************************************************)
IssueCode(r)        == [r EXCEPT !.codes = 1]
Submitted(r, d)     == [r EXCEPT !.codes = 0, !.dev[d] = "pending"]
Approved(r, d, s)   == [r EXCEPT !.dev[d] = "active", !.scopes[d] = s]
Denied(r, d)        == [r EXCEPT !.dev[d] = "denied"]
Revoked(r, d)       == [r EXCEPT !.dev[d] = "revoked"]
ScopesSet(r, d, s)  == [r EXCEPT !.scopes[d] = s]

MaySubmit(r, d) == r.codes = 1 /\ r.dev[d] \in {"none", "denied"}

(***************************************************************************)
(* The admin thread: one management request at a time.                     *)
(***************************************************************************)
AdminResult(op, d, s) ==
  CASE op = "issue"   -> IssueCode(reg)
    [] op = "approve" -> Approved(reg, d, s)
    [] op = "deny"    -> Denied(reg, d)
    [] op = "revoke"  -> Revoked(reg, d)
    [] op = "scopes"  -> ScopesSet(reg, d, s)

AdminAllowed(op, d) ==
  CASE op = "issue" -> TRUE
    [] op \in {"approve", "deny"} -> reg.dev[d] = "pending"
    [] op \in {"revoke", "scopes"} -> Active(reg, d)

(* _copy and the transition; a refused one only writes an audit record     *)
AdminBegin(op, d, s) ==
  /\ adm = Idle /\ ops < MaxAdmin /\ AdminAllowed(op, d)
  /\ adm' = [k |-> "copied", op |-> op, d |-> d, copy |-> AdminResult(op, d, s), base |-> ver]
  /\ ops' = ops + 1
  /\ UNCHANGED <<reg, disk, ver, loop, conn, ready, lease, faults, acked, overtaken, late>>

AdminSave ==
  /\ adm.k = "copied"
  /\ disk' = adm.copy /\ adm' = [adm EXCEPT !.k = "saved"]
  /\ UNCHANGED <<reg, ver, ops, loop, conn, ready, lease, faults, acked, overtaken, late>>

AdminSaveFailsUnnoticed ==
  /\ adm.k = "copied" /\ faults < MaxFaults
  /\ adm' = [adm EXCEPT !.k = "saved"] /\ faults' = faults + 1
  /\ UNCHANGED <<reg, disk, ver, ops, loop, conn, ready, lease, acked, overtaken, late>>

AdminSaveFails ==
  /\ adm.k = "copied" /\ faults < MaxFaults
  /\ adm' = Idle /\ faults' = faults + 1
  /\ UNCHANGED <<reg, disk, ver, ops, loop, conn, ready, lease, acked, overtaken, late>>

(* _commit's assignment                                                    *)
Assign(copy, base) ==
  /\ reg' = copy
  /\ ver' = ver + 1
  /\ overtaken' = (overtaken \/ base # ver)

AdminAssign ==
  /\ adm.k = "saved"
  /\ Assign(adm.copy, adm.base)
  /\ adm' = [adm EXCEPT !.k = "assigned"]
  /\ UNCHANGED <<disk, ops, loop, conn, ready, lease, faults, acked, late>>

DisconnectedHolder(d) == ScheduleClose({c \in DeviceConns(d) : lease.c = c})

(* disconnect_device: the lease first, then the registered connections     *)
Disconnected(d) == ScheduleClose(DeviceConns(d))

Disconnects == adm.op \in {"revoke", "scopes"}
AdminDisconnect ==
  /\ adm.k = "assigned" /\ Disconnects
  /\ lease' = IF lease.d = adm.d THEN NoLease ELSE lease
  /\ conn' = Disconnected(adm.d)
  /\ adm' = [adm EXCEPT !.k = "disconnected"]
  /\ UNCHANGED <<reg, disk, ver, ops, loop, ready, faults, acked, overtaken, late>>

(* device_connections goes through a dict that the loop's thread changes   *)
(* meanwhile: RuntimeError, behind the commit and before the first close.  *)
AdminDisconnectFails ==
  /\ adm.k = "assigned" /\ Disconnects /\ Registered # {}
  /\ lease' = IF lease.d = adm.d THEN NoLease ELSE lease
  /\ late' = late \union DeviceConns(adm.d)
  /\ adm' = [adm EXCEPT !.k = "refused"]
  /\ UNCHANGED <<reg, disk, ver, ops, loop, conn, ready, faults, acked, overtaken>>

(* the audit record, then the response: an error if the disconnect failed  *)
AdminAnswers ==
  /\ \/ adm.k \in {"disconnected", "refused"}
     \/ adm.k = "assigned" /\ ~Disconnects
  /\ adm' = Idle
  /\ \/ /\ acked' = IF adm.op = "revoke" /\ adm.k # "refused"
                     THEN acked \union {adm.d} ELSE acked
        /\ UNCHANGED <<conn, ready, faults, late>>
     \/ FailClosed /\ UNCHANGED acked
  /\ UNCHANGED <<reg, disk, ver, ops, loop, lease, overtaken>>

(***************************************************************************)
(* The event loop.  LoopFree: no handler is in the middle of a step.       *)
(***************************************************************************)
LoopFree == loop = Idle
Serving(c) == LoopFree /\ c \in Sockets /\ conn[c].call = "none"

(* _connect up to websocket.accept, and behind it                          *)
Connect(c) ==
  /\ LoopFree /\ conn[c].st = "new" /\ ready /\ Cardinality(Registered) < MaxGlobal
  /\ conn' = [conn EXCEPT ![c].st = "accepting"]
  /\ UNCHANGED <<reg, disk, ver, adm, ops, loop, ready, lease, faults, acked, overtaken, late>>

Accepted(c) ==
  /\ LoopFree /\ conn[c].st = "accepting"
  /\ conn' = [conn EXCEPT ![c].st = "open"]
  /\ UNCHANGED <<reg, disk, ver, adm, ops, loop, ready, lease, faults, acked, overtaken, late>>

ReleaseNothing(c) == lease

(* the finally of _connect; a connection leaves because its peer went, its *)
(* scheduled close was carried out, or a RemoteError ended it              *)
Release(c) == IF lease.c = c THEN NoLease ELSE lease
Leave(c) ==
  /\ conn' = [conn EXCEPT ![c] = [Fresh EXCEPT !.st = "closed"]]
  /\ lease' = Release(c)
  /\ late' = late \ {c}

PeerLeaves(c) ==
  /\ Serving(c) /\ Leave(c)
  /\ UNCHANGED <<reg, disk, ver, adm, ops, loop, ready, faults, acked, overtaken>>

CloseWaitsForLease(c) ==
  /\ Serving(c) /\ conn[c].closing /\ lease.c # c /\ Leave(c)
  /\ UNCHANGED <<reg, disk, ver, adm, ops, loop, ready, faults, acked, overtaken>>

CloseArrives(c) ==
  /\ Serving(c) /\ conn[c].closing /\ Leave(c)
  /\ UNCHANGED <<reg, disk, ver, adm, ops, loop, ready, faults, acked, overtaken>>

(* the audit record of a handler of c: written, or c ends with the error   *)
AuditEnds(c) ==
  /\ faults < MaxFaults /\ faults' = faults + 1 /\ ready' = FALSE
  /\ conn' = [ScheduleClose(Sockets) EXCEPT ![c] = [Fresh EXCEPT !.st = "closed"]]
  /\ late' = (late \ {c}) \union {x \in Conns : conn[x].st = "accepting"}

AuditFails(c) == AuditEnds(c) /\ lease' = Release(c)

Audited(c, after) ==
  \/ conn' = after /\ UNCHANGED <<ready, lease, faults, late>>
  \/ AuditFails(c)

AuthBegin(c, d) ==
  /\ Serving(c) /\ conn[c].st \in {"open", "challenged"}
  /\ IF Active(reg, d) THEN conn' = [conn EXCEPT ![c].st = "challenged", ![c].d = d]
                            /\ UNCHANGED <<lease, late>>
     ELSE Leave(c)
  /\ UNCHANGED <<reg, disk, ver, adm, ops, loop, ready, faults, acked, overtaken>>

(* auth.complete: the device is read from the registry ...                 *)
AuthRead(c) ==
  /\ Serving(c) /\ conn[c].st = "challenged"
  /\ IF Active(reg, conn[c].d)
     THEN /\ loop' = [k |-> "auth", c |-> c, scopes |-> reg.scopes[conn[c].d]]
          /\ UNCHANGED <<conn, lease, late>>
     ELSE Leave(c) /\ UNCHANGED loop
  /\ UNCHANGED <<reg, disk, ver, adm, ops, ready, faults, acked, overtaken>>

(* ... and the connection is registered for it, unless the signature or    *)
(* the per-device limit refuses it                                         *)
Unseen(c, d) == ~(reg.dev[d] = "active" /\ reg.scopes[d] = loop.scopes)
                /\ ~(adm.k = "assigned" /\ Disconnects /\ adm.d = d)
AuthRegister ==
  LET c == loop.c
      d == conn[c].d
      served == [conn EXCEPT ![c].st = "served", ![c].scopes = loop.scopes]
  IN /\ loop.k = "auth" /\ loop' = Idle
     /\ \/ /\ Cardinality(DeviceConns(d)) < MaxPerDevice
           /\ \/ /\ conn' = served
                 /\ late' = IF Unseen(c, d) THEN late \union {c} ELSE late
                 /\ UNCHANGED <<ready, lease, faults>>
              \/ AuditFails(c)
        \/ Leave(c) /\ UNCHANGED <<ready, faults>>
     /\ UNCHANGED <<reg, disk, ver, adm, ops, acked, overtaken>>

(* pairing.submit: copy, save, assign, audit, all on the loop's thread     *)
SubmitCopy(c, d) ==
  /\ Serving(c) /\ conn[c].st \in {"open", "challenged"} /\ MaySubmit(reg, d)
  /\ loop' = [k |-> "copied", c |-> c, copy |-> Submitted(reg, d), base |-> ver]
  /\ UNCHANGED <<reg, disk, ver, adm, ops, conn, ready, lease, faults, acked, overtaken, late>>

SubmitSave ==
  /\ loop.k = "copied"
  /\ loop' = [loop EXCEPT !.k = "saved"] /\ disk' = loop.copy
  /\ UNCHANGED <<reg, ver, adm, ops, conn, ready, lease, faults, acked, overtaken, late>>

SubmitSaveFails ==
  /\ loop.k = "copied" /\ faults < MaxFaults /\ faults' = faults + 1
  /\ loop' = Idle /\ Leave(loop.c)
  /\ UNCHANGED <<reg, disk, ver, adm, ops, ready, acked, overtaken>>

SubmitAssign ==
  /\ loop.k = "saved" /\ loop' = Idle
  /\ Assign(loop.copy, loop.base)
  /\ Audited(loop.c, conn)
  /\ UNCHANGED <<disk, adm, ops, acked>>

(* lease.acquire and lease.renew of _handle_control; a second connection   *)
(* of the device that holds the lease takes it over, also if it then ends  *)
(* with its audit record                                                   *)
MayAcquire(c) == lease = NoLease \/ lease.d = conn[c].d
LeaseAcquire(c) ==
  /\ Serving(c) /\ conn[c].st = "served"
  /\ IF "control" \in conn[c].scopes /\ MayAcquire(c)
     THEN \/ lease' = [c |-> c, d |-> conn[c].d] /\ UNCHANGED <<conn, ready, faults, late>>
          \/ AuditEnds(c) /\ lease' = NoLease
     ELSE Leave(c) /\ UNCHANGED <<ready, faults>>
  /\ UNCHANGED <<reg, disk, ver, adm, ops, loop, acked, overtaken>>

LeaseRelease(c) ==
  /\ Serving(c) /\ conn[c].st = "served" /\ "control" \in conn[c].scopes
  /\ lease' = Release(c)
  /\ UNCHANGED <<reg, disk, ver, adm, ops, loop, conn, ready, faults, acked, overtaken, late>>

LeaseExpires ==
  /\ lease # NoLease /\ lease' = NoLease
  /\ UNCHANGED <<reg, disk, ver, adm, ops, loop, conn, ready, faults, acked, overtaken, late>>

(* RemoteAuthorizedRpcHost: what a method needs; a refused one is answered *)
Permitted(c, m) ==
  CASE m = "run"     -> "control" \in conn[c].scopes /\ lease.c = c
    [] m = "status"  -> "observe" \in conn[c].scopes
    [] m = "confirm" -> "confirm" \in conn[c].scopes

(* _handle_rpc awaits the Host inside the connection's receive loop        *)
CallBegins(c, m) ==
  /\ Serving(c) /\ conn[c].st = "served" /\ Permitted(c, m)
  /\ conn' = [conn EXCEPT ![c].call = m]
  /\ UNCHANGED <<reg, disk, ver, adm, ops, loop, ready, lease, faults, acked, overtaken, late>>

(* an abort returns with its Run, which may never end                      *)
InRunCall(c) == conn[c].call = "run"

CallReturns(c) ==
  /\ LoopFree /\ conn[c].call # "none"
  /\ Audited(c, [conn EXCEPT ![c].call = "none"])
  /\ UNCHANGED <<reg, disk, ver, adm, ops, loop, acked, overtaken>>

(* _event_forwarding_done: the bounded queue of the client overflowed      *)
ForwardingFails(c) ==
  /\ LoopFree /\ c \in Authenticated /\ "observe" \in conn[c].scopes /\ ~conn[c].closing
  /\ conn' = ScheduleClose({c})
  /\ UNCHANGED <<reg, disk, ver, adm, ops, loop, ready, lease, faults, acked, overtaken, late>>

-----------------------------------------------------------------------------
Init ==
  /\ reg \in Loaded /\ disk = reg /\ ver = 0
  /\ adm = Idle /\ ops = 0 /\ loop = Idle
  /\ conn = [c \in Conns |-> Fresh]
  /\ ready = TRUE /\ lease = NoLease /\ faults = 0
  /\ acked = {} /\ overtaken = FALSE /\ late = {}

AdminStep == \/ AdminSave \/ AdminSaveFails \/ AdminAssign
             \/ AdminDisconnect \/ AdminDisconnectFails \/ AdminAnswers

AdminAsks ==
  \/ AdminBegin("issue", "none", {})
  \/ \E d \in Devices, op \in {"deny", "revoke"} : AdminBegin(op, d, {})
  \/ \E d \in Devices, s \in ScopeSets, op \in {"approve", "scopes"} : AdminBegin(op, d, s)

LoopStep ==
  \/ AuthRegister \/ SubmitSave \/ SubmitSaveFails \/ SubmitAssign
  \/ \E c \in Conns : Accepted(c) \/ CloseArrives(c) \/ CallReturns(c)

ClientStep ==
  \/ LeaseExpires
  \/ \E c \in Conns : \/ Connect(c) \/ PeerLeaves(c) \/ AuthRead(c) \/ LeaseAcquire(c)
                      \/ LeaseRelease(c) \/ ForwardingFails(c)
                      \/ \E d \in Devices : AuthBegin(c, d) \/ SubmitCopy(c, d)
                      \/ \E m \in {"run", "status", "confirm"} : CallBegins(c, m)

Next == AdminStep \/ AdminAsks \/ LoopStep \/ ClientStep

(* Both threads go on, and the Host answers every call but one that awaits *)
(* a Run; the task of a scheduled close runs, and receive_text then        *)
(* raises, however many frames of the peer were handled before.            *)
Spec == Init /\ [][Next]_vars /\ WF_vars(AdminStep)
        /\ WF_vars(AuthRegister \/ SubmitSave \/ SubmitSaveFails \/ SubmitAssign)
        /\ \A c \in Conns : SF_vars(~InRunCall(c) /\ CallReturns(c)) /\ SF_vars(CloseArrives(c))

-----------------------------------------------------------------------------
(* A connection that is being served, and not about to be closed, acts     *)
(* with the scopes its device has now, and for an approved device: a       *)
(* revocation or a change of scopes reaches the connections that captured  *)
(* the old ones.  Excepted: the admin operation itself is still running,   *)
(* it failed over a table of connections that changed under it and was     *)
(* answered with an error, the connection read its device before it and    *)
(* registered behind its disconnect, or the registry was overtaken by an   *)
(* older copy.                                                             *)
AuthorityCurrent ==
  \A c \in Authenticated :
    \/ conn[c].closing \/ c \in late \/ overtaken
    \/ adm.k = "assigned" /\ Disconnects /\ adm.d = conn[c].d
    \/ Active(reg, conn[c].d) /\ reg.scopes[conn[c].d] = conn[c].scopes

(* What the administrator was told stays true, in memory and, when nobody  *)
(* is in the middle of a commit, on disk: a revoked device is revoked and  *)
(* a restart would load what the gateway decides by.  Excepted: a commit   *)
(* of one thread overtook that of the other.                               *)
AdminAckKept ==
  \/ overtaken
  \/ /\ \A d \in acked : reg.dev[d] = "revoked"
     /\ adm.k # "saved" /\ loop.k # "saved" => disk = reg

(* The control lease never outlives its connection and is never held by    *)
(* one that was not authenticated for it with the control scope.           *)
LeaseIsServed ==
  lease # NoLease => /\ lease.c \in DeviceConns(lease.d)
                     /\ "control" \in conn[lease.c].scopes

(* A gateway that failed closed, and a device that was disconnected, lose  *)
(* their connections: a scheduled close is carried out, in spite of the    *)
(* frames of the peer and of calls in progress, and frees the lease.  Only *)
(* a call that awaits a Run keeps the connection for as long.              *)
DisconnectEnds ==
  \A c \in Conns : conn[c].closing ~> ((conn[c].st = "closed" /\ lease.c # c) \/ InRunCall(c))
=============================================================================
