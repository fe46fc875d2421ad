------------------------------ MODULE MCRunAfter ------------------------------
(* A small instance of RunAfter for TLC. *)
EXTENDS RunAfter

=============================================================================
