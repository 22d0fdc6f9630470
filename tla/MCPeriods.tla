----------------------------- MODULE MCPeriods ------------------------------
(* A small instance of the period lifecycle for TLC. *)
EXTENDS PeriodsProofs, TLC

CONSTANTS u, k, p, c1, k1, k2

\* The period p gets the Usage event u in its first hour, which a tick rolls up,
\* and the correction k in its second, which no tick reaches.
MCPeriodOf == [e \in Events |-> p]
MCTs == [e \in Events |-> IF e = u THEN 0 ELSE 1]

MCSymmetry == Permutations(Closers)

=============================================================================
