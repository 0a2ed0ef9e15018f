---------------------------- MODULE MCEnrolment ----------------------------
(* Instances of Enrolment for TLC. *)
EXTENDS Enrolment, TLC

\* All machines have the same name.
SharedName == [p \in Proxy |-> CHOOSE n \in Name : TRUE]

=============================================================================
