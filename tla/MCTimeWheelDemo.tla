--------------------------- MODULE MCTimeWheelDemo ---------------------------
(* Small instances of TimeWheelDemo for TLC. *)
EXTENDS TimeWheelDemo

(* The ids are interchangeable, and so are the objects. *)
Symmetry == Permutations(Id) \cup Permutations(Timer)

=============================================================================
