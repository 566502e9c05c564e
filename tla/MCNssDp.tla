------------------------------ MODULE MCNssDp -------------------------------
(* Instances of NssDp for TLC. *)
EXTENDS NssDp, TLC

(* EDMA SoCs, and ipq50xx *)
MCSocs == {[start |-> 1, exit |-> FALSE], [start |-> 0, exit |-> TRUE]}
=============================================================================
