------------------------------ MODULE MCEdmaRx ------------------------------
(* Instances of EdmaRx for TLC. *)
EXTENDS EdmaRx, TLC

\* Socket buffers are interchangeable.
SkbSymmetry == Permutations(Skbs)
=============================================================================
