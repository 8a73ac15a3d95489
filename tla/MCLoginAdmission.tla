-------------------------- MODULE MCLoginAdmission --------------------------
(* A TLC instance of LoginAdmission. *)
EXTENDS LoginAdmission, TLC

=============================================================================
