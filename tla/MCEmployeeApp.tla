---------------------------- MODULE MCEmployeeApp ----------------------------
(* The small instance of EmployeeApp for TLC. *)
EXTENDS EmployeeApp
=============================================================================
