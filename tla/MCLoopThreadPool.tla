--------------------------- MODULE MCLoopThreadPool ---------------------------
(* Small instances of LoopThreadPool for TLC. *)
EXTENDS LoopThreadPool

=============================================================================
