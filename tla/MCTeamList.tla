------------------------------ MODULE MCTeamList ------------------------------
(* The small instance of TeamList for TLC. *)
EXTENDS TeamList, TLC

\* Everybody, a department, and those who are safe: users leave the first page of
\* one selection and enter that of another.
All == [users |-> Users, statuses |-> Statuses]
ThreeSelections ==
  {All, [All EXCEPT !.users = {1, 3}], [All EXCEPT !.statuses = {"safe"}]}

\* Nobody has reported, or all but the first.
TwoTables ==
  {[u \in Users |-> "unreported"], [u \in Users |-> IF u = 1 THEN "unreported" ELSE "safe"]}

Symmetry == Permutations(Slots)
=============================================================================
