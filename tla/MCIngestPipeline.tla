-------------------------- MODULE MCIngestPipeline --------------------------
(* Small instances of the write path for TLC. *)
EXTENDS IngestPipeline, TLC

CONSTANTS e1, e2, e3, e4, id1, id2

\* e1 and e3 carry the same event id with different payloads; e2 is an event of
\* an account in another bucket.
MCEventId == (e1 :> id1 @@ e2 :> id2 @@ e3 :> id1)
MCBucket == (e1 :> 0 @@ e2 :> 1 @@ e3 :> 0)

\* Events with distinct ids, of accounts in one bucket or in two.
MCDistinctId == [e \in Events |-> e]
MCOneBucket == [e \in Events |-> 0]
MCTwoBuckets == [e \in Events |-> IF e = e1 THEN 0 ELSE 1]

AllFaults == FaultKinds

=============================================================================
