----------------------------- MODULE MCSupervision -----------------------------
(* A small instance of Supervision for TLC. *)
EXTENDS Supervision

CONSTANTS v1, v2

=============================================================================
