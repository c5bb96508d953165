--------------------------- MODULE MCReportBuffer ---------------------------
(* Small instances of ReportBuffer for TLC. *)
EXTENDS ReportBuffer, TLC

CONSTANTS e1, u1

\* Every user has a placeholder for every event.
AllPlaced == Events \X Users

\* All but one: u1 is not in e1 (submit_report answers 404).
OneMissing == AllPlaced \ {<<e1, u1>>}

\* Pods, users and slots are interchangeable.
Symmetry ==
  Permutations(Pods) \cup Permutations(Users) \cup Permutations(Requests)

\* When a placeholder is missing, users are not interchangeable.
SlotSymmetry == Permutations(Pods) \cup Permutations(Requests)
=============================================================================
