----------------------------- MODULE DurableLog -----------------------------
(***************************************************************************)
(* What the write path of usagedb promises its clients: a set of durable   *)
(* events that only grows, holds one payload per event id, and contains    *)
(* everything a response ever acknowledged.  An event may be durable       *)
(* without having been acknowledged (its response was lost in a crash),    *)
(* never the reverse.  Crashes, flushes, WAL rotation and WAL deletion are *)
(* invisible at this level.                                                *)
(***************************************************************************)
CONSTANTS Events, Ids, EventId

VARIABLES log, acked

vars == <<log, acked>>

OnePayloadPerId(evs) == \A a, b \in evs : EventId[a] = EventId[b] => a = b

Init == log = {} /\ acked = {}

\* Some events become durable; some durable events are acknowledged.
Accept(new, acks) ==
  /\ new \in SUBSET Events
  /\ acks \in SUBSET (log \cup new)
  /\ log' = log \cup new
  /\ acked' = acked \cup acks
  /\ OnePayloadPerId(log')

Next == \E new, acks \in SUBSET Events : Accept(new, acks)

Spec == Init /\ [][Next]_vars

=============================================================================
