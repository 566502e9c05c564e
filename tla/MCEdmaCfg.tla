----------------------------- MODULE MCEdmaCfg ------------------------------
(* Instances of EdmaCfg for TLC. *)
EXTENDS EdmaCfg, TLC

Tree(txdesc, txcmpl, rxfill, rxdesc) ==
  [txdesc |-> txdesc, txcmpl |-> txcmpl, rxfill |-> rxfill, rxdesc |-> rxdesc]

From(s, n) == [start |-> s, rings |-> n]

(* The rings of the host on IPQ807x, and device trees whose rings lie across *)
(* the boundaries of the map registers, share rings and use the last one.    *)
MCTrees ==
  { Tree(From(23, 1), From(7, 1), From(7, 1), From(15, 1)),
    Tree(From(8, 3), From(6, 2), From(5, 2), From(8, 3)),
    Tree(From(18, 3), From(0, 2), From(0, 2), From(9, 2)) }

BufSymmetry == Permutations(Bufs)
=============================================================================
