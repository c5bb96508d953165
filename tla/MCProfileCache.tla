--------------------------- MODULE MCProfileCache ---------------------------
(* Small instances of ProfileCache for TLC. *)
EXTENDS ProfileCache, TLC

CONSTANTS a, e

\* An administrator, and an employee still to be created.
OneAdmin ==
  [u \in {a, e} |-> IF u = a THEN [role |-> "admin", active |-> TRUE] ELSE Gone]

\* Demotion, deactivation, and both at once; a promoted one may be created instead.
ThreePatches ==
  {[role |-> "employee", active |-> None], [role |-> None, active |-> FALSE],
   [role |-> "employee", active |-> FALSE]}

\* The slots are interchangeable.
Symmetry == Permutations(Requests)
=============================================================================
