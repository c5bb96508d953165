---------------------------- MODULE MCStatsCache ----------------------------
(* Small instances of StatsCache for TLC. *)
EXTENDS StatsCache, TLC

CONSTANTS u1, u2, d1

\* u1 belongs to the department of a manager, u2 has no row before a top-up.
OneRow ==
  {[u \in {u1, u2} |-> IF u = u1 THEN [dept |-> d1, status |-> None] ELSE Absent]}

\* The slots are interchangeable.
Symmetry == Permutations(Readers) \cup Permutations(Writers)
=============================================================================
