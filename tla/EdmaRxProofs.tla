---------------------------- MODULE EdmaRxProofs ----------------------------
(***************************************************************************)
(* Proofs about EdmaRx, for rings of any size, any number of RXDESC and    *)
(* RXFILL rings on one store, any number of buffers and any budget.        *)
(***************************************************************************)
EXTENDS EdmaRx, RingTheorems

-----------------------------------------------------------------------------
(* The inductive invariant.                                                *)

\* Descriptor i of RXFILL ring f has a buffer that the hardware has not taken,
\* published or not.
FillHeld(f, i) == Held(rxfill_cons[f], RxfillEnd(f), i)

\* Descriptor i of RXDESC ring r has a packet that the poller has not taken.
DescHeld(r, i) == Held(RxdescNext(r), rxdesc_prod[r], i)

\* The poller is between the two indices of the RXDESC ring that it cleans.
PollInv ==
  /\ npc = "idle" => nring = NumRxdesc
  /\ npc \in {"rx", "packet", "rxend"} => nring # NumRxdesc
  /\ nring # NumRxdesc => Dist(rxdesc_cons[nring], ncons)
                            <= Dist(rxdesc_cons[nring], rxdesc_prod[nring])
  /\ npc = "packet" => ncons # rxdesc_prod[nring] /\ nwork < Budget

\* A refill works with a consumer index that may be old, but never passed by
\* the producer.
AllocInv ==
  npc = "alloc" =>
    /\ Dist(acons, rxfill_cons[afill]) <= Dist(acons, rxfill_prod[afill])
    /\ Dist(acons, rxfill_prod[afill]) <= Dist(acons, anext)

\* The packet in the poller's hands is unmapped and still the driver's.
PacketInv ==
  npc = "packet" => nskb \in Skbs \ mapped /\ owner[nskb] = "driver"

\* The store has the buffers that are mapped, each under the index written in
\* it, and what the driver owns is mapped or in the poller's hands.
StoreInv ==
  /\ \A i \in Slots : rx_skb_store[i] # NULL =>
       rx_skb_store[i] \in mapped /\ opaque[rx_skb_store[i]] = i
  /\ \A s \in mapped : rx_skb_store[opaque[s]] = s /\ owner[s] = "driver"
  /\ \A s \in Skbs : owner[s] = "driver" => s \in mapped \/ (npc = "packet" /\ nskb = s)

\* An RXFILL descriptor has a mapped buffer with its own number, which no
\* descriptor of another RXFILL ring has.
FillInv ==
  \A f \in RxfillRings, i \in Slots : FillHeld(f, i) =>
    /\ rxfill[f][i] \in mapped /\ opaque[rxfill[f][i]] = i
    /\ \A g \in RxfillRings : FillHeld(g, i) /\ rxfill[g][i] = rxfill[f][i] => g = f

\* A buffer that the hardware has taken is mapped, of one RXFILL ring and in no
\* RXFILL descriptor.
HwInv ==
  \A f \in RxfillRings : \A s \in hw_bufs[f] :
    /\ s \in mapped
    /\ \A g \in RxfillRings : s \in hw_bufs[g] => g = f
    /\ \A g \in RxfillRings, i \in Slots : FillHeld(g, i) => rxfill[g][i] # s

\* A reported buffer is mapped, reported once and no longer the hardware's.
DescInv ==
  \A r \in RxdescRings, i \in Slots : DescHeld(r, i) =>
    /\ rxdesc[r][i] \in mapped
    /\ \A q \in RxdescRings, j \in Slots :
         DescHeld(q, j) /\ rxdesc[q][j] = rxdesc[r][i] => q = r /\ j = i
    /\ \A f \in RxfillRings : rxdesc[r][i] \notin hw_bufs[f]
    /\ \A f \in RxfillRings, j \in Slots : FillHeld(f, j) => rxfill[f][j] # rxdesc[r][i]

\* The buffer of an skb is in an RXFILL ring, in the hardware or in an RXDESC
\* ring.
OnTheWay(s) ==
  \/ \E f \in RxfillRings, i \in Slots : FillHeld(f, i) /\ rxfill[f][i] = s
  \/ \E f \in RxfillRings : s \in hw_bufs[f]
  \/ \E r \in RxdescRings, i \in Slots : DescHeld(r, i) /\ rxdesc[r][i] = s

\* Every mapped buffer is on its way: none is forgotten.
WayInv == \A s \in mapped : OnTheWay(s)

IInv ==
  /\ TypeOK /\ PollInv /\ AllocInv /\ PacketInv /\ StoreInv
  /\ FillInv /\ HwInv /\ DescInv /\ WayInv

-----------------------------------------------------------------------------
(* Type correctness. *)

\* The tuples of variables that actions leave unchanged.
USE DEF hwVars, rxfillVars, rxdescVars, skbVars, cleanVars, allocVars

\* Descriptor 0 and ring 0 exist, stepping stays on the ring, and each RXDESC
\* ring has an RXFILL ring.
LEMMA RingFacts ==
  /\ 0 \in Slots
  /\ \A i \in Slots : NextIdx(i) \in Slots
  /\ 0 \in RxdescRings /\ 0 \in RxfillRings
  /\ NumRxdesc \notin RxdescRings
  /\ \A r \in RxdescRings : RxfillOf(r) \in RxfillRings
<1>1. 0 \in Slots /\ \A i \in Slots : NextIdx(i) \in Slots
  BY RingAssumption, NextIdxFacts DEF Slots
<1>2. 0 \in RxdescRings /\ 0 \in RxfillRings /\ NumRxdesc \notin RxdescRings
  BY RxAssumption DEF RxdescRings, RxfillRings
<1>3. \A r \in RxdescRings : RxfillOf(r) \in RxfillRings
  BY RxAssumption DEF RxdescRings, RxfillRings, RxfillOf
<1> QED
  BY <1>1, <1>2, <1>3

\* The initial state satisfies the invariant: all rings are empty.
LEMMA IInvInit == Init => IInv
<1> SUFFICES ASSUME Init PROVE IInv
  OBVIOUS
<1> USE RingFacts DEF Init
<1>1. TypeOK
  <2>1. enabled \in BOOLEAN
    OBVIOUS
  <2> QED
    BY <2>1, RxAssumption DEF TypeOK, NapiPcs
<1>2. \A f \in RxfillRings, i \in Slots : ~FillHeld(f, i)
  BY HeldEmpty DEF FillHeld, RxfillEnd
<1>3. \A r \in RxdescRings, i \in Slots : ~DescHeld(r, i)
  BY HeldEmpty DEF DescHeld, RxdescNext
<1> QED
  BY <1>1, <1>2, <1>3 DEF IInv, PollInv, AllocInv, PacketInv, StoreInv, FillInv,
    HwInv, DescInv, WayInv

-----------------------------------------------------------------------------
(* Where poller and hardware are in the rings. *)

\* What is published in an RXFILL ring is filled in, also while a refill goes on
\* with an old consumer index.
LEMMA FillIndices ==
  ASSUME IInv, NEW f \in RxfillRings
  PROVE  /\ RxfillEnd(f) \in Slots
         /\ \A i \in Slots : Held(rxfill_cons[f], rxfill_prod[f], i) => FillHeld(f, i)
         /\ rxfill_cons[f] # rxfill_prod[f] =>
              rxfill_cons[f] # RxfillEnd(f) /\ FillHeld(f, rxfill_cons[f])
<1> USE DEF IInv, TypeOK, AllocInv, RxfillEnd, FillHeld
<1>1. RxfillEnd(f) \in Slots
  OBVIOUS
<1>2. \A i \in Slots : Held(rxfill_cons[f], rxfill_prod[f], i) => FillHeld(f, i)
  BY HeldWithin
<1>3. ASSUME rxfill_cons[f] # rxfill_prod[f]
      PROVE  Held(rxfill_cons[f], rxfill_prod[f], rxfill_cons[f])
  BY <1>3, HeldAfterConsume
<1>4. ASSUME rxfill_cons[f] # rxfill_prod[f]
      PROVE  rxfill_cons[f] # RxfillEnd(f)
  BY <1>1, <1>2, <1>3, <1>4, HeldEmpty
<1> QED
  BY <1>1, <1>2, <1>3, <1>4

\* A refill that sees room in an RXFILL ring has room, although the hardware
\* goes on, and the next descriptor is not in use.
LEMMA FillRoom ==
  ASSUME IInv, npc = "alloc", ~Full(acons, anext)
  PROVE  /\ ~Full(rxfill_cons[afill], anext)
         /\ ~FillHeld(afill, anext)
<1> USE DEF IInv, TypeOK, AllocInv
<1>1. Dist(acons, rxfill_cons[afill]) <= Dist(acons, anext)
  BY DistType
<1>2. ~Full(rxfill_cons[afill], anext)
  BY <1>1, RoomBetween
<1> QED
  BY <1>2, HeldAfterProduce DEF FillHeld, RxfillEnd

\* The poller stays between the indices of an RXDESC ring, so that a ring with
\* room for the hardware has room behind the poller.
LEMMA DescIndices ==
  ASSUME IInv, NEW r \in RxdescRings
  PROVE  /\ RxdescNext(r) \in Slots
         /\ ~Full(rxdesc_cons[r], rxdesc_prod[r]) => ~Full(RxdescNext(r), rxdesc_prod[r])
<1> USE RingFacts DEF IInv, TypeOK, PollInv, RxdescNext
<1>1. CASE RxdescNext(r) = rxdesc_cons[r]
  BY <1>1
<1>2. CASE npc # "packet" /\ nring = r /\ RxdescNext(r) = ncons
  BY <1>2, RoomBetween
<1>3. CASE npc = "packet" /\ nring = r /\ RxdescNext(r) = NextIdx(ncons)
  <2>1. Dist(rxdesc_cons[r], NextIdx(ncons)) <= Dist(rxdesc_cons[r], rxdesc_prod[r])
    BY <1>3, DistStepBefore
  <2> QED
    BY <1>3, <2>1, RoomBetween
<1> QED
  BY <1>1, <1>2, <1>3

\* The packet that the poller is about to take is one that the hardware has
\* reported, and its buffer is in the store.
LEMMA PollEntry ==
  ASSUME IInv, npc = "rx", ncons # rxdesc_prod[nring]
  PROVE  /\ nring \in RxdescRings /\ RxdescNext(nring) = ncons
         /\ DescHeld(nring, ncons)
         /\ rxdesc[nring][ncons] \in mapped
         /\ opaque[rxdesc[nring][ncons]] \in Slots
         /\ rx_skb_store[opaque[rxdesc[nring][ncons]]] = rxdesc[nring][ncons]
<1> USE DEF IInv, TypeOK, PollInv
<1>1. nring \in RxdescRings /\ RxdescNext(nring) = ncons
  BY DEF RxdescNext
<1>2. DescHeld(nring, ncons)
  BY <1>1, HeldAfterConsume DEF DescHeld
<1> QED
  BY <1>1, <1>2 DEF DescInv, StoreInv

-----------------------------------------------------------------------------
(* Every action preserves the invariant. *)

\* Every step keeps the types: the poller frees no NULL, the ring it refills
\* exists and its count of packets stays within the budget.
LEMMA TypeStep == ASSUME IInv, Next PROVE TypeOK'
<1> USE RingFacts DEF IInv, TypeOK, NapiPcs
<1>1. CASE NapiBegin
  BY <1>1, RxAssumption DEF NapiBegin, EnterCleanRx
<1>2. CASE CleanRxTake
  BY <1>2, PollEntry DEF CleanRxTake
<1>3. ASSUME NEW to \in {"stack", "free"}, CleanRxPacket(to) PROVE TypeOK'
  BY <1>3, RxAssumption DEF CleanRxPacket, PacketInv, PollInv
<1>4. CASE CleanRxRefill
  BY <1>4 DEF CleanRxRefill, PollInv
<1>5. CASE CleanRxEnd
  BY <1>5, RxAssumption DEF CleanRxEnd, EnterCleanRx, RxdescRings, PollInv
<1>6. CASE AllocBegin
  BY <1>6 DEF AllocBegin
<1>7. CASE AllocBreak
  <2>1. enabled' \in BOOLEAN
    BY <1>7 DEF AllocBreak, AllocReturn
  <2>2. npc' \in NapiPcs /\ afill' \in RxfillRings
    BY <1>7, RxAssumption DEF AllocBreak, AllocReturn, RxfillRings
  <2> QED
    BY <1>7, <2>1, <2>2 DEF AllocBreak, AllocReturn
<1>8. CASE AllocMapFails
  <2>1. enabled' \in BOOLEAN
    BY <1>8 DEF AllocMapFails, AllocReturn
  <2>2. npc' \in NapiPcs /\ afill' \in RxfillRings
    BY <1>8, RxAssumption DEF AllocMapFails, AllocReturn, RxfillRings
  <2> QED
    BY <1>8, <2>1, <2>2 DEF AllocMapFails, AllocReturn
<1>9. ASSUME NEW s \in Skbs, AllocOne(s) PROVE TypeOK'
  BY <1>9 DEF AllocOne
<1>10. ASSUME NEW f \in RxfillRings, HwFetch(f) PROVE TypeOK'
  BY <1>10, FillIndices DEF HwFetch, FillInv
<1>11. ASSUME NEW r \in RxdescRings, NEW s \in Skbs, HwReceive(r, s) PROVE TypeOK'
  BY <1>11 DEF HwReceive
<1>12. ASSUME NEW s \in Skbs, StackFree(s) PROVE TypeOK'
  BY <1>12 DEF StackFree
<1> QED
  BY <1>1, <1>2, <1>3, <1>4, <1>5, <1>6, <1>7, <1>8, <1>9, <1>10, <1>11, <1>12
  DEF Next, NapiStep

\* What happens to indices that are nobody's but the poller's leaves every
\* buffer where it is.
LEMMA SamePlaces ==
  ASSUME IInv, UNCHANGED <<rxfill, hw_bufs, rxdesc, mapped, opaque>>,
         \A f \in RxfillRings, i \in Slots : FillHeld(f, i)' <=> FillHeld(f, i),
         \A r \in RxdescRings, i \in Slots : DescHeld(r, i)' <=> DescHeld(r, i)
  PROVE  FillInv' /\ HwInv' /\ DescInv' /\ WayInv'
<1>1. FillInv'
  BY DEF IInv, FillInv
<1>2. HwInv'
  BY DEF IInv, HwInv
<1>3. DescInv'
  BY DEF IInv, DescInv
<1>4. WayInv'
  BY DEF IInv, WayInv, OnTheWay
<1> QED
  BY <1>1, <1>2, <1>3, <1>4

\* The poll begins where the consumer index is.
LEMMA NapiBeginInv == ASSUME IInv, NapiBegin PROVE IInv'
<1> USE RingFacts DEF IInv, TypeOK, NapiBegin, EnterCleanRx
<1>1. TypeOK'
  BY TypeStep DEF Next
<1>2. PollInv'
  BY HeldEmpty, DistType DEF PollInv
<1>3. AllocInv' /\ PacketInv' /\ StoreInv'
  BY DEF AllocInv, PacketInv, StoreInv
<1>4. \A f \in RxfillRings, i \in Slots : FillHeld(f, i)' <=> FillHeld(f, i)
  BY DEF FillHeld, RxfillEnd
<1>5. \A r \in RxdescRings, i \in Slots : DescHeld(r, i)' <=> DescHeld(r, i)
  BY DEF DescHeld, RxdescNext, PollInv
<1> QED
  BY <1>1, <1>2, <1>3, <1>4, <1>5, SamePlaces

\* The packet that is taken leaves the store and the ring together.
LEMMA CleanRxTakeInv == ASSUME IInv, CleanRxTake PROVE IInv'
<1> USE RingFacts DEF IInv, TypeOK, CleanRxTake
<1> DEFINE s == rxdesc[nring][ncons]
<1>1. TypeOK'
  BY TypeStep DEF Next, NapiStep
<1>2. /\ nring \in RxdescRings /\ RxdescNext(nring) = ncons
      /\ DescHeld(nring, ncons) /\ s \in mapped /\ opaque[s] \in Slots
      /\ rx_skb_store[opaque[s]] = s /\ nskb' = s /\ mapped' = mapped \ {s}
  BY PollEntry
<1>3. PollInv'
  BY <1>2 DEF PollInv
<1>4. AllocInv' /\ PacketInv'
  BY <1>2 DEF AllocInv, PacketInv, StoreInv
<1>5. StoreInv'
  BY <1>2, RxAssumption DEF StoreInv
<1>6. \A f \in RxfillRings, i \in Slots : FillHeld(f, i)' <=> FillHeld(f, i)
  BY DEF FillHeld, RxfillEnd
<1>7. \A r \in RxdescRings, i \in Slots :
        DescHeld(r, i)' <=> DescHeld(r, i) /\ ~(r = nring /\ i = ncons)
  <2>1. \A i \in Slots : Held(NextIdx(ncons), rxdesc_prod[nring], i)
                            <=> Held(ncons, rxdesc_prod[nring], i) /\ i # ncons
    BY <1>2, HeldAfterConsume
  <2> QED
    BY <1>2, <2>1 DEF DescHeld, RxdescNext
<1>8. \A r \in RxdescRings, i \in Slots : DescHeld(r, i)' => rxdesc[r][i] # s
  BY <1>2, <1>7 DEF DescInv
<1>9. \A f \in RxfillRings, i \in Slots : FillHeld(f, i) => rxfill[f][i] # s
  BY <1>2 DEF DescInv
<1>10. \A f \in RxfillRings : s \notin hw_bufs[f]
  BY <1>2 DEF DescInv
<1> HIDE DEF s
<1>11. FillInv'
  BY <1>2, <1>6, <1>9 DEF FillInv
<1>12. HwInv'
  BY <1>2, <1>6, <1>10 DEF HwInv
<1>13. DescInv'
  BY <1>2, <1>6, <1>7, <1>8 DEF DescInv
<1>14. WayInv'
  <2> SUFFICES ASSUME NEW t \in mapped' PROVE OnTheWay(t)'
    BY DEF WayInv
  <2>1. t \in mapped /\ t # s
    BY <1>2
  <2>2. ASSUME NEW r \in RxdescRings, NEW i \in Slots, DescHeld(r, i), rxdesc[r][i] = t
        PROVE  DescHeld(r, i)'
    BY <1>7, <2>1, <2>2 DEF s
  <2> QED
    BY <1>6, <2>1, <2>2 DEF WayInv, OnTheWay
<1> QED
  BY <1>1, <1>3, <1>4, <1>5, <1>11, <1>12, <1>13, <1>14

\* The packet is handed on; the poller is one descriptor further.
LEMMA CleanRxPacketInv ==
  ASSUME IInv, NEW to \in {"stack", "free"}, CleanRxPacket(to) PROVE IInv'
<1> USE RingFacts DEF IInv, TypeOK, CleanRxPacket
<1>1. TypeOK'
  BY TypeStep DEF Next, NapiStep
<1>2. nring \in RxdescRings /\ nskb \in Skbs \ mapped
      /\ owner' = [owner EXCEPT ![nskb] = to] /\ opaque' = [opaque EXCEPT ![nskb] = 0]
  BY RxAssumption DEF PollInv, PacketInv
<1>3. PollInv'
  BY <1>2, DistStepBefore DEF PollInv
<1>4. AllocInv' /\ PacketInv'
  BY DEF AllocInv, PacketInv
<1>5. StoreInv'
  BY <1>2 DEF StoreInv
<1>6. \A f \in RxfillRings, i \in Slots : FillHeld(f, i)' <=> FillHeld(f, i)
  BY DEF FillHeld, RxfillEnd
<1>7. \A r \in RxdescRings, i \in Slots : DescHeld(r, i)' <=> DescHeld(r, i)
  BY DEF DescHeld, RxdescNext
<1>8. FillInv'
  BY <1>2, <1>6 DEF FillInv
<1>9. HwInv'
  BY <1>2, <1>6 DEF HwInv
<1>10. DescInv'
  BY <1>2, <1>6, <1>7 DEF DescInv
<1>11. WayInv'
  BY <1>2, <1>6, <1>7 DEF WayInv, OnTheWay
<1> QED
  BY <1>1, <1>3, <1>4, <1>5, <1>8, <1>9, <1>10, <1>11

\* The poller goes on to the refill.
LEMMA CleanRxRefillInv == ASSUME IInv, CleanRxRefill PROVE IInv'
<1> USE RingFacts DEF IInv, TypeOK, CleanRxRefill
<1>1. TypeOK'
  BY TypeStep DEF Next, NapiStep
<1>2. PollInv' /\ AllocInv' /\ PacketInv' /\ StoreInv'
  BY DEF PollInv, AllocInv, PacketInv, StoreInv
<1>3. \A f \in RxfillRings, i \in Slots : FillHeld(f, i)' <=> FillHeld(f, i)
  BY DEF FillHeld, RxfillEnd
<1>4. \A r \in RxdescRings, i \in Slots : DescHeld(r, i)' <=> DescHeld(r, i)
  BY DEF DescHeld, RxdescNext
<1> QED
  BY <1>1, <1>2, <1>3, <1>4, SamePlaces

\* The consumer register catches up with the poller.
LEMMA CleanRxEndInv == ASSUME IInv, CleanRxEnd PROVE IInv'
<1> USE RingFacts DEF IInv, TypeOK, CleanRxEnd, EnterCleanRx
<1>1. TypeOK'
  BY TypeStep DEF Next, NapiStep
<1>2. nring \in RxdescRings /\ npc' \in {"rx", "refill"} /\ nring' # nring
      /\ (npc' = "rx" => nring' \in RxdescRings /\ ncons' = rxdesc_cons[nring'])
      /\ (npc' = "refill" => nring' = NumRxdesc)
  BY RxAssumption DEF PollInv, RxdescRings
<1>3. PollInv'
  BY <1>1, <1>2, HeldEmpty, DistType DEF PollInv
<1>4. AllocInv' /\ PacketInv' /\ StoreInv'
  BY <1>2 DEF AllocInv, PacketInv, StoreInv
<1>5. \A f \in RxfillRings, i \in Slots : FillHeld(f, i)' <=> FillHeld(f, i)
  BY <1>2 DEF FillHeld, RxfillEnd
<1>6. \A r \in RxdescRings, i \in Slots : DescHeld(r, i)' <=> DescHeld(r, i)
  BY <1>2 DEF DescHeld, RxdescNext
<1> QED
  BY <1>1, <1>3, <1>4, <1>5, <1>6, SamePlaces

\* The refill begins with the indices as they are.
LEMMA AllocBeginInv == ASSUME IInv, AllocBegin PROVE IInv'
<1> USE RingFacts DEF IInv, TypeOK, AllocBegin
<1>1. TypeOK'
  BY TypeStep DEF Next, NapiStep
<1>2. PollInv' /\ PacketInv' /\ StoreInv'
  BY DEF PollInv, PacketInv, StoreInv
<1>3. AllocInv'
  BY HeldEmpty, DistType DEF AllocInv
<1>4. \A f \in RxfillRings, i \in Slots : FillHeld(f, i)' <=> FillHeld(f, i)
  BY DEF FillHeld, RxfillEnd
<1>5. \A r \in RxdescRings, i \in Slots : DescHeld(r, i)' <=> DescHeld(r, i)
  BY DEF DescHeld, RxdescNext
<1> QED
  BY <1>1, <1>2, <1>3, <1>4, <1>5, SamePlaces

\* A new buffer goes into an empty store entry and a free descriptor, of which
\* no other ring has the number in use.
LEMMA AllocOneInv == ASSUME IInv, NEW s \in Skbs, AllocOne(s) PROVE IInv'
<1> USE RingFacts, RxAssumption DEF IInv, TypeOK, AllocOne
<1>1. TypeOK'
  BY TypeStep DEF Next
<1>2. PollInv' /\ PacketInv'
  BY DEF PollInv, PacketInv
<1>3. AllocInv'
  <2>1. Dist(acons, NextIdx(anext)) = Dist(acons, anext) + 1
    BY DistStep DEF Full
  <2> QED
    BY <2>1, DistType DEF AllocInv
<1>4. s \notin mapped /\ (\A i \in Slots : rx_skb_store[i] # s)
  BY DEF StoreInv
<1>5. StoreInv'
  BY <1>4 DEF StoreInv
<1>6. \A f \in RxfillRings, i \in Slots :
        FillHeld(f, i)' <=> FillHeld(f, i) \/ (f = afill /\ i = anext)
  <2>1. \A i \in Slots : Held(rxfill_cons[afill], NextIdx(anext), i)
                            <=> Held(rxfill_cons[afill], anext, i) \/ i = anext
    BY FillRoom, HeldAfterProduce
  <2> QED
    BY <2>1 DEF FillHeld, RxfillEnd
<1>7. ~FillHeld(afill, anext)
  BY FillRoom
<1>8. \A r \in RxdescRings, i \in Slots : DescHeld(r, i)' <=> DescHeld(r, i)
  BY DEF DescHeld, RxdescNext
<1>9. \A f \in RxfillRings, i \in Slots :
        rxfill'[f][i] = IF f = afill /\ i = anext THEN s ELSE rxfill[f][i]
  OBVIOUS
<1>10. /\ \A f \in RxfillRings, i \in Slots : FillHeld(f, i) => rxfill[f][i] # s
       /\ \A f \in RxfillRings : s \notin hw_bufs[f]
       /\ \A r \in RxdescRings, i \in Slots : DescHeld(r, i) => rxdesc[r][i] # s
  BY <1>4 DEF FillInv, HwInv, DescInv
<1>11. FillInv'
  <2> SUFFICES ASSUME NEW f \in RxfillRings, NEW i \in Slots, FillHeld(f, i)'
               PROVE  /\ rxfill'[f][i] \in mapped' /\ opaque'[rxfill'[f][i]] = i
                      /\ \A g \in RxfillRings :
                           FillHeld(g, i)' /\ rxfill'[g][i] = rxfill'[f][i] => g = f
    BY DEF FillInv
  <2>1. CASE f = afill /\ i = anext
    BY <1>6, <1>9, <1>10, <2>1
  <2>2. CASE ~(f = afill /\ i = anext)
    <3>1. FillHeld(f, i) /\ rxfill'[f][i] = rxfill[f][i] /\ rxfill[f][i] # s
      BY <1>6, <1>9, <1>10, <2>2
    <3> QED
      BY <1>6, <1>9, <1>10, <3>1 DEF FillInv
  <2> QED
    BY <2>1, <2>2
<1>12. HwInv'
  BY <1>6, <1>9, <1>10 DEF HwInv
<1>13. DescInv'
  BY <1>6, <1>8, <1>9, <1>10 DEF DescInv
<1>14. WayInv'
  <2> SUFFICES ASSUME NEW t \in mapped' PROVE OnTheWay(t)'
    BY DEF WayInv
  <2>1. CASE t = s
    BY <1>6, <1>9, <2>1 DEF OnTheWay
  <2>2. CASE t \in mapped
    <3>1. ASSUME NEW f \in RxfillRings, NEW i \in Slots, FillHeld(f, i), rxfill[f][i] = t
          PROVE  FillHeld(f, i)' /\ rxfill'[f][i] = t
      BY <1>6, <1>7, <1>9, <3>1
    <3>2. hw_bufs' = hw_bufs /\ rxdesc' = rxdesc
      OBVIOUS
    <3> QED
      BY ONLY <1>8, <2>2, <3>1, <3>2, WayInv DEF WayInv, OnTheWay
  <2> QED
    BY <2>1, <2>2
<1> QED
  BY <1>1, <1>2, <1>3, <1>5, <1>11, <1>12, <1>13, <1>14

\* What was filled in is published, nothing else.
LEMMA AllocReturnHeld ==
  ASSUME IInv, npc = "alloc", AllocReturn
  PROVE  /\ \A f \in RxfillRings, i \in Slots : FillHeld(f, i)' <=> FillHeld(f, i)
         /\ \A r \in RxdescRings, i \in Slots : DescHeld(r, i)' <=> DescHeld(r, i)
         /\ PollInv' /\ AllocInv'
<1> USE RingFacts DEF IInv, TypeOK, AllocReturn
<1>1. npc' \in {"rxend", "refill", "idle"} /\ (npc' = "idle" => nring = NumRxdesc)
      /\ (npc' = "rxend" => nring # NumRxdesc)
  OBVIOUS
<1>2. \A f \in RxfillRings, i \in Slots : FillHeld(f, i)' <=> FillHeld(f, i)
  BY <1>1 DEF FillHeld, RxfillEnd
<1>3. \A r \in RxdescRings, i \in Slots : DescHeld(r, i)' <=> DescHeld(r, i)
  BY <1>1 DEF DescHeld, RxdescNext
<1>4. PollInv' /\ AllocInv'
  BY <1>1 DEF PollInv, AllocInv
<1> QED
  BY <1>2, <1>3, <1>4

\* A refill that ends early publishes what it has.
LEMMA AllocBreakInv == ASSUME IInv, AllocBreak PROVE IInv'
<1> USE DEF IInv, AllocBreak
<1>1. TypeOK'
  BY TypeStep DEF Next, NapiStep
<1>2. npc' # "packet"
  BY DEF AllocReturn
<1>3. PacketInv' /\ StoreInv'
  BY <1>2 DEF PacketInv, StoreInv, AllocReturn
<1> QED
  BY <1>1, <1>3, AllocReturnHeld, SamePlaces DEF AllocReturn

\* A buffer that cannot be mapped leaves its descriptor empty, which nobody
\* holds.
LEMMA AllocMapFailsInv == ASSUME IInv, AllocMapFails PROVE IInv'
<1> USE DEF IInv, TypeOK, AllocMapFails
<1>1. TypeOK'
  BY TypeStep DEF Next, NapiStep
<1>2. npc' # "packet"
  BY DEF AllocReturn
<1>3. PacketInv' /\ StoreInv'
  BY <1>2 DEF PacketInv, StoreInv, AllocReturn
<1>4. /\ \A f \in RxfillRings, i \in Slots : FillHeld(f, i)' <=> FillHeld(f, i)
      /\ \A r \in RxdescRings, i \in Slots : DescHeld(r, i)' <=> DescHeld(r, i)
      /\ PollInv' /\ AllocInv'
  BY AllocReturnHeld
<1>5. \A f \in RxfillRings, i \in Slots : FillHeld(f, i) => rxfill'[f][i] = rxfill[f][i]
  BY FillRoom
<1>6. UNCHANGED <<hw_bufs, rxdesc, mapped, opaque>>
  BY DEF AllocReturn
<1>7. FillInv'
  BY <1>4, <1>5, <1>6 DEF FillInv
<1>8. HwInv'
  BY <1>4, <1>5, <1>6 DEF HwInv
<1>9. DescInv'
  BY <1>4, <1>5, <1>6 DEF DescInv
<1>10. WayInv'
  <2> SUFFICES ASSUME NEW t \in mapped PROVE OnTheWay(t)'
    BY <1>6 DEF WayInv
  <2>1. ASSUME NEW f \in RxfillRings, NEW i \in Slots, FillHeld(f, i), rxfill[f][i] = t
        PROVE  FillHeld(f, i)' /\ rxfill'[f][i] = t
    BY <1>4, <1>5, <2>1
  <2> QED
    BY ONLY <1>4, <1>6, <2>1, WayInv DEF WayInv, OnTheWay
<1> QED
  BY <1>1, <1>3, <1>4, <1>7, <1>8, <1>9, <1>10

\* The hardware takes the buffer of a published descriptor.
LEMMA HwFetchInv == ASSUME IInv, NEW f \in RxfillRings, HwFetch(f) PROVE IInv'
<1> USE RingFacts DEF IInv, TypeOK, HwFetch
<1> DEFINE c == rxfill_cons[f]
           s == rxfill[f][c]
<1>1. TypeOK'
  BY TypeStep DEF Next
<1>2. PollInv' /\ PacketInv' /\ StoreInv'
  BY DEF PollInv, PacketInv, StoreInv
<1>3. AllocInv'
  BY DistStepBefore DEF AllocInv
<1>4. c \in Slots /\ FillHeld(f, c) /\ c # RxfillEnd(f) /\ RxfillEnd(f) \in Slots
  BY FillIndices
<1>5. \A g \in RxfillRings, i \in Slots :
        FillHeld(g, i)' <=> FillHeld(g, i) /\ ~(g = f /\ i = c)
  <2>1. \A i \in Slots : Held(NextIdx(c), RxfillEnd(f), i)
                            <=> Held(c, RxfillEnd(f), i) /\ i # c
    BY <1>4, HeldAfterConsume
  <2> QED
    BY <2>1 DEF FillHeld, RxfillEnd
<1>6. \A r \in RxdescRings, i \in Slots : DescHeld(r, i)' <=> DescHeld(r, i)
  BY DEF DescHeld, RxdescNext
<1>7. /\ s \in mapped
      /\ \A g \in RxfillRings, i \in Slots : FillHeld(g, i)' => rxfill[g][i] # s
      /\ \A g \in RxfillRings : s \notin hw_bufs[g]
      /\ \A r \in RxdescRings, i \in Slots : DescHeld(r, i) => rxdesc[r][i] # s
  BY <1>4, <1>5 DEF FillInv, HwInv, DescInv
<1>8. /\ \A g \in RxfillRings :
           hw_bufs'[g] = IF g = f THEN hw_bufs[f] \cup {s} ELSE hw_bufs[g]
      /\ UNCHANGED <<rxfill, rxdesc, mapped, opaque>>
  OBVIOUS
<1> HIDE DEF HwFetch
<1>9. FillInv'
  BY <1>5, <1>8 DEF FillInv
<1>10. HwInv'
  <2> SUFFICES ASSUME NEW g \in RxfillRings, NEW t \in hw_bufs'[g]
               PROVE  /\ t \in mapped
                      /\ \A h \in RxfillRings : t \in hw_bufs'[h] => h = g
                      /\ \A h \in RxfillRings, i \in Slots : FillHeld(h, i)' => rxfill[h][i] # t
    BY <1>8 DEF HwInv
  <2>1. CASE t = s
    BY <1>7, <1>8, <2>1
  <2>2. CASE t # s
    <3>1. \A h \in RxfillRings : t \in hw_bufs'[h] <=> t \in hw_bufs[h]
      BY <1>8, <2>2
    <3> QED
      BY ONLY <1>5, <3>1, t \in hw_bufs'[g], HwInv DEF HwInv
  <2> QED
    BY <2>1, <2>2
<1> HIDE DEF s
<1>11. DescInv'
  BY <1>5, <1>6, <1>7, <1>8 DEF DescInv
<1>12. WayInv'
  <2> SUFFICES ASSUME NEW t \in mapped PROVE OnTheWay(t)'
    BY <1>8 DEF WayInv
  <2>1. CASE t = s
    BY <1>8, <2>1 DEF OnTheWay
  <2>2. CASE t # s
    <3>1. ASSUME NEW g \in RxfillRings, NEW i \in Slots, FillHeld(g, i), rxfill[g][i] = t
          PROVE  FillHeld(g, i)' /\ rxfill'[g][i] = t
      BY <1>5, <1>8, <2>2, <3>1 DEF s
    <3>2. \A g \in RxfillRings : t \in hw_bufs[g] => t \in hw_bufs'[g]
      BY <1>8
    <3> QED
      BY ONLY <1>6, <1>8, <3>1, <3>2, WayInv DEF WayInv, OnTheWay
  <2> QED
    BY <2>1, <2>2
<1> QED
  BY <1>1, <1>2, <1>3, <1>9, <1>10, <1>11, <1>12

\* The hardware reports a buffer that it has.
LEMMA HwReceiveInv ==
  ASSUME IInv, NEW r \in RxdescRings, NEW s \in Skbs, HwReceive(r, s)
  PROVE  IInv'
<1> USE RingFacts DEF IInv, TypeOK, HwReceive
<1> DEFINE p == rxdesc_prod[r]
           k == RxfillOf(r)
<1>1. TypeOK'
  BY TypeStep DEF Next
<1>2. PollInv'
  BY DistStep, DistType, DescIndices DEF PollInv, Full
<1>3. AllocInv' /\ PacketInv' /\ StoreInv'
  BY DEF AllocInv, PacketInv, StoreInv
<1>4. p \in Slots /\ k \in RxfillRings /\ RxdescNext(r) \in Slots /\ ~Full(RxdescNext(r), p)
  BY DescIndices
<1>5. \A q \in RxdescRings, i \in Slots :
        DescHeld(q, i)' <=> DescHeld(q, i) \/ (q = r /\ i = p)
  <2>1. \A i \in Slots : Held(RxdescNext(r), NextIdx(p), i)
                            <=> Held(RxdescNext(r), p, i) \/ i = p
    BY <1>4, HeldAfterProduce
  <2> QED
    BY <2>1 DEF DescHeld, RxdescNext
<1>6. ~DescHeld(r, p)
  BY <1>4, HeldAfterProduce DEF DescHeld
<1>7. \A f \in RxfillRings, i \in Slots : FillHeld(f, i)' <=> FillHeld(f, i)
  BY DEF FillHeld, RxfillEnd
<1>8. /\ s \in mapped
      /\ \A f \in RxfillRings, i \in Slots : FillHeld(f, i) => rxfill[f][i] # s
      /\ \A f \in RxfillRings : s \in hw_bufs[f] => f = k
      /\ \A q \in RxdescRings, i \in Slots : DescHeld(q, i) => rxdesc[q][i] # s
  BY <1>4 DEF HwInv, DescInv
<1>9. /\ \A f \in RxfillRings : hw_bufs'[f] = hw_bufs[f] \ {s}
      /\ \A q \in RxdescRings, i \in Slots :
           rxdesc'[q][i] = IF q = r /\ i = p THEN s ELSE rxdesc[q][i]
      /\ UNCHANGED <<rxfill, mapped, opaque>>
  BY <1>4, <1>8
<1> HIDE DEF HwReceive, p, k
<1>10. FillInv'
  BY <1>7, <1>9 DEF FillInv
<1>11. HwInv'
  BY <1>7, <1>9 DEF HwInv
<1>12. DescInv'
  <2> SUFFICES ASSUME NEW q \in RxdescRings, NEW i \in Slots, DescHeld(q, i)'
               PROVE  /\ rxdesc'[q][i] \in mapped
                      /\ \A t \in RxdescRings, j \in Slots :
                           DescHeld(t, j)' /\ rxdesc'[t][j] = rxdesc'[q][i] => t = q /\ j = i
                      /\ \A f \in RxfillRings : rxdesc'[q][i] \notin hw_bufs'[f]
                      /\ \A f \in RxfillRings, j \in Slots :
                           FillHeld(f, j)' => rxfill[f][j] # rxdesc'[q][i]
    BY <1>9 DEF DescInv
  <2>1. CASE q = r /\ i = p
    BY <1>5, <1>7, <1>8, <1>9, <2>1
  <2>2. CASE ~(q = r /\ i = p)
    <3>1. DescHeld(q, i) /\ rxdesc'[q][i] = rxdesc[q][i] /\ rxdesc[q][i] # s
      BY <1>5, <1>8, <1>9, <2>2
    <3> QED
      BY <1>5, <1>7, <1>9, <3>1 DEF DescInv
  <2> QED
    BY <2>1, <2>2
<1>13. WayInv'
  <2> SUFFICES ASSUME NEW t \in mapped PROVE OnTheWay(t)'
    BY <1>9 DEF WayInv
  <2>1. CASE t = s
    BY <1>4, <1>5, <1>9, <2>1 DEF OnTheWay
  <2>2. CASE t # s
    <3>1. ASSUME NEW q \in RxdescRings, NEW i \in Slots, DescHeld(q, i), rxdesc[q][i] = t
          PROVE  DescHeld(q, i)' /\ rxdesc'[q][i] = t
      BY <1>5, <1>6, <1>9, <3>1
    <3>2. \A f \in RxfillRings : t \in hw_bufs[f] => t \in hw_bufs'[f]
      BY <1>9, <2>2
    <3> QED
      BY ONLY <1>7, <1>9, <3>1, <3>2, WayInv DEF WayInv, OnTheWay
  <2> QED
    BY <2>1, <2>2
<1> QED
  BY <1>1, <1>2, <1>3, <1>10, <1>11, <1>12, <1>13

\* The stack frees what is the stack's.
LEMMA StackFreeInv == ASSUME IInv, NEW s \in Skbs, StackFree(s) PROVE IInv'
<1> USE DEF IInv, TypeOK, StackFree
<1>1. TypeOK'
  BY TypeStep DEF Next
<1>2. PollInv' /\ AllocInv' /\ PacketInv' /\ StoreInv'
  BY DEF PollInv, AllocInv, PacketInv, StoreInv
<1>3. \A f \in RxfillRings, i \in Slots : FillHeld(f, i)' <=> FillHeld(f, i)
  BY DEF FillHeld, RxfillEnd
<1>4. \A r \in RxdescRings, i \in Slots : DescHeld(r, i)' <=> DescHeld(r, i)
  BY DEF DescHeld, RxdescNext
<1> QED
  BY <1>1, <1>2, <1>3, <1>4, SamePlaces

\* The invariant is inductive.
LEMMA IInvStep == IInv /\ [Next]_vars => IInv'
<1> SUFFICES ASSUME IInv, [Next]_vars PROVE IInv'
  OBVIOUS
<1>1. CASE UNCHANGED vars
  <2>1. \A f \in RxfillRings, i \in Slots : FillHeld(f, i)' <=> FillHeld(f, i)
    BY <1>1 DEF vars, FillHeld, RxfillEnd
  <2>2. \A r \in RxdescRings, i \in Slots : DescHeld(r, i)' <=> DescHeld(r, i)
    BY <1>1 DEF vars, DescHeld, RxdescNext
  <2>3. TypeOK' /\ PollInv' /\ AllocInv' /\ PacketInv' /\ StoreInv'
    BY <1>1 DEF vars, IInv, TypeOK, PollInv, AllocInv, PacketInv, StoreInv
  <2> QED
    BY <1>1, <2>1, <2>2, <2>3, SamePlaces DEF IInv, vars
<1> QED
  BY <1>1, NapiBeginInv, CleanRxTakeInv, CleanRxPacketInv, CleanRxRefillInv,
    CleanRxEndInv, AllocBeginInv, AllocOneInv, AllocBreakInv, AllocMapFailsInv,
    HwFetchInv, HwReceiveInv, StackFreeInv DEF Next, NapiStep

\* The invariant holds in every reachable state.
LEMMA Invariance == Spec => []IInv
BY IInvInit, IInvStep, PTL DEF Spec

-----------------------------------------------------------------------------
(* What follows from the invariant. *)

\* The hardware writes only into buffers that are mapped and the driver's: in
\* every reachable state of a driver with any number of rings.
THEOREM DmaIsSafe == Spec => []DmaSafe
<1>1. IInv => DmaSafe
  <2> SUFFICES ASSUME IInv, NEW f \in RxfillRings, NEW s \in Posted(f)
               PROVE  s \in mapped /\ owner[s] = "driver"
    BY DEF DmaSafe, HwWrites
  <2>1. CASE s \in hw_bufs[f]
    BY <2>1 DEF IInv, HwInv, StoreInv
  <2>2. ASSUME NEW i \in Slots, Held(rxfill_cons[f], rxfill_prod[f], i), s = rxfill[f][i]
        PROVE  s \in mapped /\ owner[s] = "driver"
    BY <2>2, FillIndices DEF IInv, FillInv, StoreInv
  <2> QED
    BY <2>1, <2>2 DEF Posted
<1> QED
  BY <1>1, Invariance, PTL

\* Each packet that the poller has not taken yet is in the store under the
\* index written in its buffer, and the hardware is done with it.
THEOREM ReceivedAreValid == Spec => []ReceivedValid
<1>1. IInv => ReceivedValid
  <2> SUFFICES ASSUME IInv, NEW r \in RxdescRings, NEW i \in Slots, DescHeld(r, i)
               PROVE  /\ rxdesc[r][i] # NULL
                      /\ rxdesc[r][i] \in mapped /\ rxdesc[r][i] \notin HwWrites
                      /\ rx_skb_store[opaque[rxdesc[r][i]]] = rxdesc[r][i]
    BY DEF ReceivedValid, PendingRxdescs, DescHeld
  <2>1. rxdesc[r][i] \in mapped /\ rx_skb_store[opaque[rxdesc[r][i]]] = rxdesc[r][i]
    BY DEF IInv, DescInv, StoreInv
  <2>2. rxdesc[r][i] # NULL
    BY <2>1, RxAssumption DEF IInv, TypeOK
  <2>3. ASSUME NEW f \in RxfillRings PROVE rxdesc[r][i] \notin Posted(f)
    BY FillIndices DEF IInv, DescInv, Posted
  <2> QED
    BY <2>1, <2>2, <2>3 DEF HwWrites
<1> QED
  BY <1>1, Invariance, PTL

\* No buffer is lost, shared or kept: each is in one place as long as the driver
\* owns it, and in the store as long as it is mapped.
THEOREM BuffersAreAccounted == Spec => []BuffersAccounted
<1>1. ASSUME IInv, NEW s \in Skbs
      PROVE  /\ owner[s] = "driver" <=> Places(s) # {}
             /\ \A x, y \in Places(s) : x = y
             /\ s \in mapped <=> \E i \in Slots : rx_skb_store[i] = s
             /\ s \in mapped <=> Places(s) \notin {{}, {<<"poller", npc>>}}
  <2> DEFINE InFill(f, i) == FillHeld(f, i) /\ rxfill[f][i] = s
             InHw(f)      == s \in hw_bufs[f]
             InDesc(r, i) == DescHeld(r, i) /\ rxdesc[r][i] = s
             InPoll       == npc = "packet" /\ nskb = s
  <2>1. \A x : x \in Places(s) <=>
          \/ \E f \in RxfillRings, i \in Slots : InFill(f, i) /\ x = <<"rxfill", <<f, i>>>>
          \/ \E f \in RxfillRings : InHw(f) /\ x = <<"hardware", f>>
          \/ \E r \in RxdescRings, i \in Slots : InDesc(r, i) /\ x = <<"rxdesc", <<r, i>>>>
          \/ InPoll /\ x = <<"poller", npc>>
    BY DEF Places, PendingRxdescs, FillHeld, DescHeld
  <2>2. s \in mapped <=> \/ \E f \in RxfillRings, i \in Slots : InFill(f, i)
                         \/ \E f \in RxfillRings : InHw(f)
                         \/ \E r \in RxdescRings, i \in Slots : InDesc(r, i)
    BY <1>1 DEF IInv, FillInv, HwInv, DescInv, WayInv, OnTheWay
  <2>3. s \in mapped => ~InPoll
    BY <1>1 DEF IInv, PacketInv
  <2>4. owner[s] = "driver" <=> s \in mapped \/ InPoll
    BY <1>1 DEF IInv, StoreInv, PacketInv
  <2>5. /\ \A f, g \in RxfillRings, i, j \in Slots :
             InFill(f, i) /\ InFill(g, j) => f = g /\ i = j
        /\ \A f, g \in RxfillRings : InHw(f) /\ InHw(g) => f = g
        /\ \A q, r \in RxdescRings, i, j \in Slots :
             InDesc(q, i) /\ InDesc(r, j) => q = r /\ i = j
    BY <1>1 DEF IInv, FillInv, HwInv, DescInv
  <2>6. /\ \A f, g \in RxfillRings, i \in Slots : ~(InFill(f, i) /\ InHw(g))
        /\ \A f \in RxfillRings, r \in RxdescRings, i, j \in Slots :
             ~(InFill(f, i) /\ InDesc(r, j))
        /\ \A f \in RxfillRings, r \in RxdescRings, i \in Slots :
             ~(InHw(f) /\ InDesc(r, i))
    BY <1>1 DEF IInv, HwInv, DescInv
  <2>7. s \in mapped <=> \E i \in Slots : rx_skb_store[i] = s
    BY <1>1, RxAssumption DEF IInv, TypeOK, StoreInv
  <2> HIDE DEF InFill, InHw, InDesc, InPoll
  <2>8. Places(s) # {} <=> s \in mapped \/ InPoll
    BY <2>1, <2>2
  <2>9. \A x, y \in Places(s) : x = y
    <3> SUFFICES ASSUME NEW x \in Places(s), NEW y \in Places(s) PROVE x = y
      OBVIOUS
    <3>1. CASE InPoll
      BY <2>1, <2>2, <2>3, <3>1
    <3>2. CASE ~InPoll
      BY <2>1, <2>5, <2>6, <3>2
    <3> QED
      BY <3>1, <3>2
  <2>10. s \in mapped => <<"poller", npc>> \notin Places(s)
    BY <2>1, <2>3
  <2>11. s \notin mapped => Places(s) \in {{}, {<<"poller", npc>>}}
    BY <2>1, <2>2
  <2> QED
    BY <2>4, <2>7, <2>8, <2>9, <2>10, <2>11
<1>2. IInv => BuffersAccounted
  BY <1>1 DEF BuffersAccounted, IInv
<1> QED
  BY <1>2, Invariance, PTL

-----------------------------------------------------------------------------
(* The refinement of RxPath: what each action does to the buffers that are  *)
(* posted and to the packets that have arrived.                             *)

\* The packets of each RXDESC ring that the poller has not taken.
Arrived == [r \in RxdescRings |->
              Contents(rxdesc[r], RxdescNext(r), rxdesc_prod[r])]

\* Published descriptor i of RXFILL ring f.
Published(f, i) == Held(rxfill_cons[f], rxfill_prod[f], i)

\* Nothing arrives and nothing is taken in a step that moves neither index of
\* an RXDESC ring, as the poller sees it.
LEMMA SameArrived ==
  ASSUME UNCHANGED <<rxdesc, rxdesc_prod>>,
         \A r \in RxdescRings : RxdescNext(r)' = RxdescNext(r)
  PROVE  Arrived' = Arrived
BY DEF Arrived

\* Nothing is posted in a step that writes only RXFILL descriptors that are not
\* published.
LEMMA SameWrites ==
  ASSUME UNCHANGED <<rxfill_cons, rxfill_prod, hw_bufs>>,
         \A f \in RxfillRings, i \in Slots :
           Published(f, i) => rxfill'[f][i] = rxfill[f][i]
  PROVE  HwWrites' = HwWrites
<1>1. ASSUME NEW f \in RxfillRings PROVE Posted(f)' = Posted(f)
  BY DEF Posted, Published
<1> QED
  BY <1>1 DEF HwWrites

\* A refill that ends posts what it has added, which is nowhere else.
LEMMA ReturnPosts ==
  ASSUME IInv, npc = "alloc", AllocReturn, TypeOK',
         \A f \in RxfillRings, i \in Slots : FillHeld(f, i) => rxfill'[f][i] = rxfill[f][i]
  PROVE  Path!PathNext
<1> USE DEF IInv, TypeOK
<1>1. /\ \A f \in RxfillRings : rxfill_prod'[f] = RxfillEnd(f)
      /\ UNCHANGED <<rxfill_cons, hw_bufs, rxdesc, rxdesc_prod, rxdesc_cons, ncons, nring>>
  BY DEF AllocReturn, RxfillEnd
<1>2. \A f \in RxfillRings, i \in Slots : Published(f, i)' <=> FillHeld(f, i)
  BY <1>1 DEF Published, FillHeld
<1>3. \A f \in RxfillRings, i \in Slots : Published(f, i) => FillHeld(f, i)
  BY FillIndices DEF Published
<1>4. Arrived' = Arrived
  <2>1. \A r \in RxdescRings : RxdescNext(r)' = RxdescNext(r)
    BY RingFacts DEF AllocReturn, RxdescNext
  <2> QED
    BY <1>1, <2>1, SameArrived
<1> DEFINE bufs == HwWrites' \ HwWrites
<1>5. HwWrites \subseteq HwWrites'
  <2>1. ASSUME NEW f \in RxfillRings PROVE Posted(f) \subseteq Posted(f)'
    BY <1>1, <1>2, <1>3 DEF Posted, Published
  <2> QED
    BY <2>1 DEF HwWrites
<1>6. ASSUME NEW s \in bufs
      PROVE  \E f \in RxfillRings, i \in Slots : FillHeld(f, i) /\ s = rxfill[f][i]
  <2>1. PICK f \in RxfillRings : s \in Posted(f)' /\ s \notin hw_bufs[f]
    BY <1>1 DEF HwWrites, Posted
  <2>2. PICK i \in Slots : Published(f, i)' /\ s = rxfill'[f][i]
    BY <1>1, <2>1 DEF Posted, Published
  <2> QED
    BY <1>2, <2>2
<1>7. ASSUME NEW r \in RxdescRings, NEW k \in 1 .. Len(Arrived[r])
      PROVE  Arrived[r][k] \notin bufs
  <2> DEFINE entries == Contents(rxdesc[r], RxdescNext(r), rxdesc_prod[r])
             S       == Skbs \cup {NULL}
  <2>1. /\ rxdesc[r] \in [Slots -> S] /\ RxdescNext(r) \in Slots /\ rxdesc_prod[r] \in Slots
        /\ Arrived[r] = entries
    BY DescIndices DEF Arrived
  <2> HIDE DEF S
  <2>2. Len(entries) = Dist(RxdescNext(r), rxdesc_prod[r])
    BY ONLY <2>1, ContentsType
  <2>3. PICK i \in Slots : DescHeld(r, i) /\ Arrived[r][k] = rxdesc[r][i]
    BY ONLY <2>1, <2>2, k \in 1 .. Len(Arrived[r]), ContentsAt DEF DescHeld
  <2> QED
    BY <1>6, <2>3 DEF DescInv
<1>8. bufs \in SUBSET Skbs
  BY <1>6 DEF FillInv
<1>9. Path!Post(bufs)
  <2>1. Path!Outstanding = HwWrites \cup
          UNION {{Arrived[r][k] : k \in 1 .. Len(Arrived[r])} : r \in RxdescRings}
    BY ONLY TRUE DEF Path!Outstanding, Arrived, Contents
  <2>2. bufs \cap Path!Outstanding = {}
    BY ONLY <1>7, <2>1
  <2> QED
    BY ONLY <1>4, <1>5, <2>2 DEF Path!Post, Arrived, Contents
<1> QED
  BY ONLY <1>8, <1>9 DEF Path!PathNext

\* The poller takes the oldest packet of the ring that it cleans.
LEMMA TakeTakes == ASSUME IInv, CleanRxTake PROVE Path!PathNext
<1> USE RingFacts DEF IInv, TypeOK, CleanRxTake
<1>1. nring \in RxdescRings /\ RxdescNext(nring) = ncons /\ RxdescNext(nring)' = NextIdx(ncons)
  BY PollEntry DEF RxdescNext
<1>2. \A r \in RxdescRings : r # nring => RxdescNext(r)' = RxdescNext(r)
  BY DEF RxdescNext
<1>3. HwWrites' = HwWrites
  BY SameWrites
<1>4. Arrived[nring] # <<>> /\ Arrived'[nring] = Tail(Arrived[nring])
  <2>1. rxdesc[nring] \in [Slots -> Skbs \cup {NULL}] /\ rxdesc_prod[nring] \in Slots
    BY <1>1
  <2> DEFINE S == Skbs \cup {NULL}
  <2> HIDE DEF S
  <2>2. /\ Contents(rxdesc[nring], ncons, rxdesc_prod[nring]) # <<>>
        /\ Tail(Contents(rxdesc[nring], ncons, rxdesc_prod[nring]))
             = Contents(rxdesc[nring], NextIdx(ncons), rxdesc_prod[nring])
    <3>1. rxdesc[nring] \in [Slots -> S] /\ ncons \in Slots /\ ncons # rxdesc_prod[nring]
      BY <2>1 DEF S
    <3> QED
      BY ONLY <2>1, <3>1, ContentsConsume
  <2> QED
    BY <1>1, <2>2 DEF Arrived
<1>5. \A r \in RxdescRings : r # nring => Arrived'[r] = Arrived[r]
  BY <1>2 DEF Arrived
<1>6. Arrived' = [Arrived EXCEPT ![nring] = Tail(@)]
  BY <1>1, <1>4, <1>5 DEF Arrived
<1>7. PICK r \in RxdescRings : r = nring
  BY <1>1
<1>8. Path!Take(r)
  BY <1>3, <1>4, <1>6, <1>7 DEF Path!Take, Arrived, Contents
<1> QED
  BY ONLY <1>8 DEF Path!PathNext

\* A packet that the hardware reports arrives behind all others of its ring.
LEMMA ReceiveArrives ==
  ASSUME IInv, NEW r \in RxdescRings, NEW s \in Skbs, HwReceive(r, s)
  PROVE  Path!PathNext
<1> USE RingFacts DEF IInv, TypeOK
<1> DEFINE p == rxdesc_prod[r]
           c == RxdescNext(r)
<1>1. /\ s \in hw_bufs[RxfillOf(r)] /\ RxfillOf(r) \in RxfillRings
      /\ \A f \in RxfillRings : s \in hw_bufs[f] => f = RxfillOf(r)
      /\ \A f \in RxfillRings, i \in Slots : Published(f, i) => rxfill[f][i] # s
  BY FillIndices DEF HwReceive, HwInv, Published
<1>2. \A f \in RxfillRings : hw_bufs'[f] = hw_bufs[f] \ {s}
  BY <1>1 DEF HwReceive
<1>3. ASSUME NEW f \in RxfillRings PROVE Posted(f)' = Posted(f) \ {s}
  BY <1>1, <1>2 DEF Posted, Published, HwReceive
<1>4. s \in HwWrites /\ HwWrites' = HwWrites \ {s}
  <2>1. s \in Posted(RxfillOf(r))
    BY <1>1 DEF Posted
  <2> QED
    BY ONLY <1>1, <1>3, <2>1 DEF HwWrites
<1>5. \A q \in RxdescRings : RxdescNext(q)' = RxdescNext(q)
  BY DEF HwReceive, RxdescNext
<1>6. /\ c \in Slots /\ p \in Slots /\ ~Full(c, p)
      /\ rxdesc[r] \in [Slots -> Skbs \cup {NULL}]
      /\ rxdesc'[r] = [rxdesc[r] EXCEPT ![p] = s]
      /\ rxdesc_prod'[r] = NextIdx(p)
  BY DescIndices DEF HwReceive
<1>7. Contents(rxdesc'[r], c, NextIdx(p)) = Append(Contents(rxdesc[r], c, p), s)
  <2> DEFINE S   == Skbs \cup {NULL}
             new == rxdesc'[r]
             old == rxdesc[r]
  <2>1. /\ old \in [Slots -> S] /\ s \in S /\ new = [old EXCEPT ![p] = s]
        /\ c \in Slots /\ p \in Slots /\ ~Full(c, p)
    BY <1>6
  <2> HIDE DEF S, new, old, p, c
  <2>2. Contents(new, c, NextIdx(p)) = Append(Contents(old, c, p), s)
    BY ONLY <2>1, ContentsProduce
  <2> QED
    BY <2>2 DEF new, old
<1>8. Arrived'[r] = Append(Arrived[r], s)
  BY <1>5, <1>6, <1>7 DEF Arrived
<1>9. \A q \in RxdescRings : q # r => Arrived'[q] = Arrived[q]
  BY <1>5 DEF Arrived, HwReceive
<1>10. Arrived' = [Arrived EXCEPT ![r] = Append(@, s)]
  BY <1>8, <1>9 DEF Arrived
<1>11. Path!Arrive(r, s)
  BY <1>4, <1>10 DEF Path!Arrive, Arrived, Contents
<1> QED
  BY ONLY <1>11, r \in RxdescRings, s \in Skbs DEF Path!PathNext

\* A buffer that the hardware takes out of an RXFILL ring stays posted.
LEMMA FetchKeeps ==
  ASSUME IInv, NEW f \in RxfillRings, HwFetch(f) PROVE UNCHANGED Path!pathVars
<1> USE RingFacts DEF IInv, TypeOK
<1> DEFINE c == rxfill_cons[f]
<1>1. /\ c \in Slots /\ rxfill_prod[f] \in Slots /\ c # rxfill_prod[f]
      /\ \A i \in Slots : Held(NextIdx(c), rxfill_prod[f], i) <=> Published(f, i) /\ i # c
      /\ Published(f, c)
  BY HeldAfterConsume DEF HwFetch, Published
<1>2. /\ \A i \in Slots : Published(f, i)' <=> Published(f, i) /\ i # c
      /\ \A g \in RxfillRings, i \in Slots : g # f => (Published(g, i)' <=> Published(g, i))
  BY <1>1 DEF HwFetch, Published
<1>3. /\ hw_bufs'[f] = hw_bufs[f] \cup {rxfill[f][c]}
      /\ \A g \in RxfillRings : g # f => hw_bufs'[g] = hw_bufs[g]
      /\ UNCHANGED <<rxfill, rxdesc, rxdesc_prod, rxdesc_cons, npc, ncons, nring>>
  BY DEF HwFetch
<1>4. ASSUME NEW g \in RxfillRings PROVE Posted(g)' = Posted(g)
  <2>1. CASE g = f
    BY <1>1, <1>2, <1>3, <2>1 DEF Posted, Published
  <2>2. CASE g # f
    BY <1>2, <1>3, <2>2 DEF Posted, Published
  <2> QED
    BY <2>1, <2>2
<1>5. HwWrites' = HwWrites
  BY <1>4 DEF HwWrites
<1>6. Arrived' = Arrived
  BY <1>3, SameArrived DEF RxdescNext
<1> QED
  BY <1>5, <1>6 DEF Path!pathVars, Arrived, Contents

\* All other steps are nothing to the path.
LEMMA OthersKeep ==
  ASSUME IInv,
         \/ NapiBegin \/ CleanRxPacket("stack") \/ CleanRxPacket("free")
         \/ CleanRxRefill \/ CleanRxEnd \/ AllocBegin
         \/ \E s \in Skbs : AllocOne(s) \/ StackFree(s)
  PROVE  UNCHANGED Path!pathVars
<1> USE RingFacts DEF IInv, TypeOK
<1>1. UNCHANGED <<rxfill_cons, rxfill_prod, hw_bufs, rxdesc, rxdesc_prod>>
  BY DEF NapiBegin, CleanRxPacket, CleanRxRefill, CleanRxEnd, AllocBegin, AllocOne, StackFree
<1>2. HwWrites' = HwWrites
  <2>1. ASSUME NEW f \in RxfillRings, NEW i \in Slots, Published(f, i)
        PROVE  rxfill'[f][i] = rxfill[f][i]
    <3>1. CASE \E s \in Skbs : AllocOne(s)
      BY <2>1, <3>1, FillRoom, FillIndices DEF AllocOne, Published
    <3> QED
      BY <3>1 DEF NapiBegin, CleanRxPacket, CleanRxRefill, CleanRxEnd, AllocBegin, StackFree
  <2> QED
    BY <1>1, <2>1, SameWrites
<1>3. ASSUME NEW r \in RxdescRings PROVE RxdescNext(r)' = RxdescNext(r)
  <2> USE DEF RxdescNext, PollInv
  <2>1. CASE NapiBegin
    BY <2>1 DEF NapiBegin, EnterCleanRx
  <2>2. CASE CleanRxEnd
    BY <2>2, RxAssumption DEF CleanRxEnd, EnterCleanRx, RxdescRings
  <2> QED
    BY <2>1, <2>2 DEF CleanRxPacket, CleanRxRefill, AllocBegin, AllocOne, StackFree
<1>4. Arrived' = Arrived
  BY <1>1, <1>3, SameArrived
<1> QED
  BY <1>2, <1>4 DEF Path!pathVars, Arrived, Contents

\* Refill, poller and hardware together take every packet once, in the order of
\* arrival in its ring, and post a buffer again only after its packet was taken:
\* each of their steps is one of the receive path or none at all.
THEOREM RxKeepsPathSafety == Spec => KeepsPathSafety
<1>1. Init => Path!PathInit
  <2> SUFFICES ASSUME Init PROVE Path!PathInit
    OBVIOUS
  <2>1. HwWrites = {}
    BY RingFacts, HeldEmpty DEF Init, HwWrites, Posted
  <2>2. ASSUME NEW r \in RxdescRings PROVE Arrived[r] = <<>>
    <3>1. Dist(RxdescNext(r), rxdesc_prod[r]) = 0
      BY RingFacts, HeldEmpty DEF Init, RxdescNext, Dist
    <3> QED
      BY <3>1 DEF Arrived, Contents
  <2>3. Arrived = [r \in RxdescRings |-> <<>>]
    BY <2>2 DEF Arrived
  <2> QED
    BY <2>1, <2>3 DEF Path!PathInit, Arrived, Contents
<1>2. IInv /\ [Next]_vars => [Path!PathNext]_(Path!pathVars)
  <2> SUFFICES ASSUME IInv, [Next]_vars
               PROVE  Path!PathNext \/ UNCHANGED Path!pathVars
    OBVIOUS
  <2>1. CASE UNCHANGED vars
    <3>1. HwWrites' = HwWrites
      BY <2>1, SameWrites DEF vars
    <3>2. Arrived' = Arrived
      BY <2>1, SameArrived DEF vars, RxdescNext
    <3> QED
      BY <3>1, <3>2 DEF Path!pathVars, Arrived, Contents
  <2>2. CASE AllocBreak
    BY <2>2, ReturnPosts, TypeStep DEF AllocBreak, Next, NapiStep
  <2>3. CASE AllocMapFails
    <3>1. \A f \in RxfillRings, i \in Slots : FillHeld(f, i) => rxfill'[f][i] = rxfill[f][i]
      BY <2>3, FillRoom DEF AllocMapFails, IInv, TypeOK
    <3> QED
      BY <2>3, <3>1, ReturnPosts, TypeStep DEF AllocMapFails, Next, NapiStep
  <2> QED
    BY <2>1, <2>2, <2>3, TakeTakes, ReceiveArrives, FetchKeeps, OthersKeep
    DEF Next, NapiStep
<1> QED
  BY <1>1, <1>2, Invariance, PTL DEF Spec, KeepsPathSafety, Path!PathSafety
=============================================================================
