----------------------------- MODULE MCTimerWheel -----------------------------
(* A small instance of TimerWheel for TLC, without symmetry: its run checks  *)
(* liveness too.                                                             *)
EXTENDS TimerWheel

=============================================================================
