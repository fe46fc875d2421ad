----------------------------- MODULE MCEventLoop -----------------------------
(* A small instance of EventLoop for TLC, without symmetry: its run checks   *)
(* liveness too.                                                             *)
EXTENDS EventLoop

=============================================================================
