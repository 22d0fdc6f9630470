----------------------------- MODULE HotDedupe ------------------------------
(***************************************************************************)
(* The hot dedupe cache as operators.  The map and the insertion queue     *)
(* always hold the same keys, so the cache is the queue: a sequence of     *)
(* [id, at], at being first_seen_ms.                                       *)
(***************************************************************************)
EXTENDS Integers, Sequences

CONSTANTS
  TTL,       \* ttl_ms
  Capacity   \* max_capacity

ASSUME HotDedupeAssumption == TTL \in Nat /\ Capacity \in Nat \ {0}

\* HotDedupe::classify: the event is known.
Known(cache, e) == \E i \in DOMAIN cache : cache[i].id = e

\* evict_expired: entries are dropped from the front up to the first one that
\* has not expired.
EvictExpired(cache, now) ==
  LET fresh == {i \in DOMAIN cache : cache[i].at >= now - TTL}
  IN IF fresh = {} THEN <<>>
     ELSE SubSeq(cache, CHOOSE i \in fresh : \A j \in fresh : i <= j, Len(cache))

\* Mutant: an event that is already known is entered again.
InsertKnownBlindly(cache, e, at) == Append(cache, [id |-> e, at |-> at])

\* HotDedupe::insert_known: no eviction, no capacity.
InsertKnown(cache, e, at) ==
  IF Known(cache, e) THEN cache ELSE Append(cache, [id |-> e, at |-> at])

\* Mutant: the cache is one entry too small.
CommitShort(cache, e, now) ==
  LET all == InsertKnown(EvictExpired(cache, now), e, now)
  IN IF Len(all) < Capacity THEN all ELSE SubSeq(all, Len(all) - Capacity + 2, Len(all))

\* HotDedupe::commit: expired entries go, the event is entered, and the oldest
\* entries go until the capacity is met.
Commit(cache, e, now) ==
  LET all == InsertKnown(EvictExpired(cache, now), e, now)
  IN IF Len(all) <= Capacity THEN all ELSE SubSeq(all, Len(all) - Capacity + 1, Len(all))

=============================================================================
