---------------------------- MODULE MCCompaction ----------------------------
(* A small instance of the compaction worker for TLC. *)
EXTENDS CompactionProofs

CONSTANTS a, b, c

\* Three events in two buckets; with MaxSmall = 1 two segments of a bucket are
\* compacted.
MCBucket == [e \in Events |-> IF e = c THEN 1 ELSE 0]

=============================================================================
