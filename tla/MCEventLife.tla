----------------------------- MODULE MCEventLife -----------------------------
(* Small instances of EventLife for TLC. *)
EXTENDS EventLife, TLC

\* The transactions are interchangeable.
Symmetry == Permutations(Slots)
=============================================================================
