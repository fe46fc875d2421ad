---------------------------- MODULE MCConnection ----------------------------
(* A small instance of Connection for TLC, without symmetry: its run checks  *)
(* liveness too, and accept compares descriptors.                            *)
EXTENDS Connection

=============================================================================
