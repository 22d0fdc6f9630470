---------------------------- MODULE MCLifecycle -----------------------------
(* A small instance of the process lifecycle for TLC. *)
EXTENDS LifecycleProofs

CONSTANTS a, b, c, s, adm

\* a and c are current events, b one that was recorded long before it is sent.
MCTs == [e \in Events |-> IF e = b THEN 0 ELSE Start]

\* Events dated ahead of the clock that first accepts them.
AheadTs == [e \in Events |-> Start + 1]

=============================================================================
