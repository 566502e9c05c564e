-------------------------------- MODULE Ring --------------------------------
(***************************************************************************)
(* Index arithmetic of the EDMA descriptor rings.  Every ring has the same *)
(* number of descriptors (EDMA_RING_SIZE), which is also the length of the *)
(* Tx and Rx skb stores.  A ring is empty when its two indices are equal   *)
(* and full one descriptor before they would meet again.                   *)
(***************************************************************************)
EXTENDS Integers

CONSTANT RingSize          \* EDMA_RING_SIZE, 128 in the driver

ASSUME RingAssumption == RingSize \in Nat /\ RingSize >= 2

\* Descriptor numbers of a ring.
Slots == 0 .. RingSize - 1

(* The driver steps an index in two ways, "(i + 1) & (count - 1)" when it   *)
(* produces and "if (++i == count) i = 0" when it consumes.  They agree for *)
(* the sizes the driver uses, the powers of two.                            *)
NextIdx(i) == IF i + 1 = RingSize THEN 0 ELSE i + 1

\* Number of steps from index a to index b.
Dist(a, b) == IF a <= b THEN b - a ELSE b - a + RingSize

\* Slot i holds an entry that was produced and not yet consumed.
Held(cons, prod, i) ==
  IF cons <= prod THEN cons <= i /\ i < prod ELSE cons <= i \/ i < prod

\* No room for one more entry.
Full(cons, prod) == NextIdx(prod) = cons
=============================================================================
