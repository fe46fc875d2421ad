-------------------------------- MODULE MCAny --------------------------------
(* A small instance of Any for TLC. *)
EXTENDS Any, TLC

(* Objects and addresses are interchangeable. *)
Symmetry == Permutations(Obj) \cup Permutations(Addr)

=============================================================================
