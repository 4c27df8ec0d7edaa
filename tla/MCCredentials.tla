--------------------------- MODULE MCCredentials ---------------------------
(* Credentials with one minion, two enrolment attempts and two connections. *)
EXTENDS Credentials

CONSTANTS r1, r2, c1, c2
=============================================================================
