------------------------------ MODULE MCEdmaTx ------------------------------
(* Instances of EdmaTx for TLC. *)
EXTENDS EdmaTx, TLC

\* Socket buffers are interchangeable.
SkbSymmetry == Permutations(Skbs)
=============================================================================
