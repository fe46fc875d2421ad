------------------------------- MODULE MCSocket -------------------------------
(* A small instance of Socket for TLC. *)
EXTENDS Socket, TLC

(* Sockets are interchangeable; descriptors are not. *)
Symmetry == Permutations(Sock)

=============================================================================
