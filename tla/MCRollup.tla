------------------------------ MODULE MCRollup ------------------------------
(* A small instance of the rollup worker for TLC: hours of two units. *)
EXTENDS RollupProofs

CONSTANTS e1, e2

\* e1 arrives in time or too late, e2 arrives after its hour is over.
MCTs == [e \in Events |-> IF e = e1 THEN 5 ELSE 3]
MCBucket == [e \in Events |-> IF e = e1 THEN 0 ELSE 1]

\* Rebuilds and queries on the hour.
MCRebuildRanges == {<<2, 4>>, <<2, 6>>}
MCQueryRange == <<2, 6>>

\* Rebuilds and queries that start within an hour, and event times for which
\* such a rebuild counts an event twice, or leaves one out.
OffHourRanges == {<<2, 4>>, <<3, 6>>}
OffHourQuery == <<3, 6>>
TwiceTs == [e \in Events |-> IF e = e1 THEN 6 ELSE 5]
GapTs == [e \in Events |-> IF e = e1 THEN 5 ELSE 2]

=============================================================================
