----------------------------- MODULE MCEdmaIrq ------------------------------
(* Instances of EdmaIrq for TLC. *)
EXTENDS EdmaIrq, TLC
=============================================================================
