------------------------------ MODULE MCSynDp -------------------------------
(* Instances of SynDp for TLC. *)
EXTENDS SynDp, TLC

\* The skbs of a direction are interchangeable, and so are the CPUs.
Symmetry == Permutations(TxSkbs) \cup Permutations(RxSkbs) \cup Permutations(CPUs)
=============================================================================
