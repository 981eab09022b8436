---------------------------- MODULE EventStream ----------------------------
(***************************************************************************)
(* The bounded live event stream of evopi/rpc/event_stream.py, as          *)
(* operators over the log of everything published (sequence number n is    *)
(* log[n]) and over one subscriber record.  The deque keeps the last       *)
(* Capacity events, so what is retained is a function of the log.          *)
(***************************************************************************)
EXTENDS Integers, Sequences

CONSTANTS Capacity,       \* events retained for replay
          QueueCapacity   \* items a subscriber's queue can hold

ASSUME StreamAssumption == Capacity \in Nat \ {0} /\ QueueCapacity \in Nat \ {0}

(* the value close() puts behind the last event                            *)
CloseMark == 0

(* the sequence number of the oldest retained event, 0 when there is none  *)
Oldest(log) == IF Len(log) = 0 THEN 0
               ELSE IF Len(log) <= Capacity THEN 1 ELSE Len(log) - Capacity + 1

(* _check_expired: the cursor is older than the retained window            *)
Expired(log, after) == Len(log) > 0 /\ after < Oldest(log) - 1

(* snapshot / replay: the retained sequence numbers behind the cursor      *)
Retained(log, after) ==
  LET from == IF after + 1 < Oldest(log) THEN Oldest(log) ELSE after + 1
  IN  IF Len(log) < from \/ Len(log) = 0 THEN <<>>
      ELSE [i \in 1 .. (Len(log) - from + 1) |-> from + i - 1]

NoSubscriber == [reg |-> FALSE, failed |-> FALSE, replay |-> <<>>,
                 queue |-> <<>>, soon |-> <<>>]

(* subscribe: history and live cursor are taken under one lock             *)
Subscribe(log, after) ==
  [NoSubscriber EXCEPT !.reg = TRUE, !.replay = Retained(log, after)]

(* _put_nowait: a full queue fails the subscriber instead of blocking      *)
PutNowait(s, v) ==
  IF Len(s.queue) < QueueCapacity THEN [s EXCEPT !.queue = Append(@, v)]
  ELSE [s EXCEPT !.failed = TRUE, !.reg = FALSE]

(* _put: on the subscriber's own loop the value goes into the queue, from  *)
(* any other thread it is scheduled with call_soon_threadsafe              *)
Put(s, v, onLoop) ==
  IF ~s.reg THEN s
  ELSE IF onLoop THEN PutNowait(s, v) ELSE [s EXCEPT !.soon = Append(@, v)]

(* the scheduled _put_nowait runs on the loop                              *)
RunScheduled(s) == PutNowait([s EXCEPT !.soon = Tail(@)], Head(s.soon))

(* close(): every subscriber is woken and forgotten                        *)
CloseSubscriber(s) == [Put(s, CloseMark, TRUE) EXCEPT !.reg = FALSE]

(* _iterate: what the next step of the iterator does                       *)
HasNext(s) == s.replay # <<>> \/ s.failed \/ s.queue # <<>>
NextKind(s) == IF s.replay # <<>> THEN "event"
               ELSE IF s.failed THEN "dropped"
               ELSE IF Head(s.queue) = CloseMark THEN "end" ELSE "event"
NextItem(s) == IF s.replay # <<>> THEN Head(s.replay) ELSE Head(s.queue)
Consumed(s) == IF s.replay # <<>> THEN [s EXCEPT !.replay = Tail(@)]
               ELSE [s EXCEPT !.queue = Tail(@)]
=============================================================================
