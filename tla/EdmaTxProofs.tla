---------------------------- MODULE EdmaTxProofs ----------------------------
(***************************************************************************)
(* Proofs about EdmaTx, for rings of any size and any number of skbs, net  *)
(* devices and Tx queues.                                                  *)
(***************************************************************************)
EXTENDS EdmaTx, RingTheorems

-----------------------------------------------------------------------------
(* The inductive invariant.                                                *)

\* tx_lock is held by the queue that is inside the locked region, by no other.
LockInv ==
  \A q \in Txqs : xpc[q] \in {"read", "push", "map", "publish"} <=> tx_lock = q

\* An skb is in the hands of at most one transmission, which owns it.
XmitInv ==
  /\ \A q \in Txqs :
       /\ xskb[q] = NULL <=> xpc[q] = "idle"
       /\ xpc[q] = "requeued" => owner[xskb[q]] = "stack"
       /\ xpc[q] \notin {"idle", "requeued"} => owner[xskb[q]] = "driver"
  /\ \A q, r \in Txqs : xskb[q] = xskb[r] /\ xskb[q] # NULL => q = r

\* Until it is stored, the skb of a transmission is in no entry of the store.
HeldInv ==
  \A q \in Txqs : xpc[q] \in HeldByXmit \cup {"requeued"} =>
    \A i \in Slots : tx_skb_store[i] # xskb[q]

\* The index read under the lock stays the producer index, with room for one
\* more descriptor.
UseInv ==
  \A q \in Txqs : xpc[q] \in {"push", "map", "publish"} =>
    hw_next_to_use = txdesc_prod /\ ~Full(txdesc_cons, txdesc_prod)

\* Between store and publication the entry is the transmitter's alone.
ClaimInv ==
  \A q \in Txqs : xpc[q] \in {"map", "publish"} =>
    /\ tx_skb_store[hw_next_to_use] = xskb[q]
    /\ xskb[q] \notin in_flight
    /\ \A k \in Slots : Held(TxcmplNext, txcmpl_prod, k) => txcmpl[k] # hw_next_to_use
    /\ xpc[q] = "publish" => txdesc[hw_next_to_use] = xskb[q] /\ xskb[q] \in mapped

\* The store is indexed by the number in the preheader of the skb.
StoreInv ==
  \A i \in Slots : tx_skb_store[i] # NULL =>
    owner[tx_skb_store[i]] = "driver" /\ opaque[tx_skb_store[i]] = i

\* A published descriptor points to the skb in the store entry of its number.
DescInv ==
  \A i \in Slots : Held(txdesc_cons, txdesc_prod, i) =>
    /\ txdesc[i] # NULL
    /\ tx_skb_store[i] = txdesc[i]
    /\ txdesc[i] \in mapped \ in_flight

\* The skbs that the hardware is sending are in the store.
FlightInv ==
  \A s \in in_flight : tx_skb_store[opaque[s]] = s /\ s \in mapped

\* A completion that is not consumed names an entry of the store in use that
\* no descriptor, no packet on its way and no other completion refers to.
CmplInv ==
  \A k \in Slots : Held(TxcmplNext, txcmpl_prod, k) =>
    /\ tx_skb_store[txcmpl[k]] # NULL
    /\ tx_skb_store[txcmpl[k]] \in mapped \ in_flight
    /\ ~Held(txdesc_cons, txdesc_prod, txcmpl[k])
    /\ \A l \in Slots : Held(TxcmplNext, txcmpl_prod, l) /\ txcmpl[l] = txcmpl[k]
         => l = k

\* The poller's indices lie between those of the ring.
NapiIdxInv ==
  /\ npc \in {"take", "clear", "free"} =>
       /\ Dist(txcmpl_cons, ncons) <= Dist(txcmpl_cons, nprod)
       /\ Dist(txcmpl_cons, nprod) <= Dist(txcmpl_cons, txcmpl_prod)
  /\ npc \in {"clear", "free"} => ncons # nprod

\* The skb that the poller has in its hands is nobody else's.
NapiSkbInv ==
  /\ npc = "clear" => nstore = txcmpl[ncons] /\ nskb = tx_skb_store[nstore]
  /\ npc = "free" =>
       /\ nskb \in mapped \ in_flight
       /\ owner[nskb] = "driver"
       /\ \A i \in Slots : tx_skb_store[i] # nskb
       /\ \A q \in Txqs : xskb[q] # nskb

IInv ==
  /\ TypeOK /\ LockInv /\ XmitInv /\ HeldInv /\ UseInv /\ ClaimInv
  /\ StoreInv /\ DescInv /\ FlightInv /\ CmplInv /\ NapiIdxInv /\ NapiSkbInv

-----------------------------------------------------------------------------
(* Type correctness. *)

\* The tuples of variables and the two assignments that actions share.
USE DEF hwVars, txdescVars, txcmplVars, skbVars, queueVars, lockVars, xmitVars,
        napiVars, FreeSkb, Unlock

\* Descriptor 0 exists and stepping stays on the ring.
LEMMA SlotsFacts ==
  /\ 0 \in Slots
  /\ \A i \in Slots : NextIdx(i) \in Slots
BY RingAssumption, NextIdxFacts DEF Slots

\* The initial state has the right types.
LEMMA TypeInit == Init => TypeOK
BY SlotsFacts DEF Init, TypeOK, XmitPcs, NapiPcs, MaxPreheaders

\* Transmitters keep the types: the skb that they free is not NULL.
LEMMA TypeXmit ==
  ASSUME IInv, NEW q \in Txqs,
         (\E s \in Skbs : XmitNew(q, s)) \/ XmitAgain(q) \/ XmitLock(q)
           \/ XmitDrop(q) \/ XmitStep(q)
  PROVE  TypeOK'
<1> USE SlotsFacts DEF IInv, TypeOK, XmitInv, XmitPcs, MaxPreheaders
<1>1. ASSUME NEW s \in Skbs, XmitNew(q, s) PROVE TypeOK'
  BY <1>1 DEF XmitNew
<1>2. CASE XmitAgain(q)
  BY <1>2 DEF XmitAgain
<1>3. CASE XmitLock(q)
  BY <1>3 DEF XmitLock
<1>4. CASE XmitDrop(q)
  BY <1>4 DEF XmitDrop
<1>5. CASE XmitReadIndices(q)
  BY <1>5 DEF XmitReadIndices
<1>6. CASE XmitStore(q)
  BY <1>6 DEF XmitStore
<1>7. CASE XmitMap(q)
  BY <1>7 DEF XmitMap
<1>8. CASE XmitMapFails(q)
  BY <1>8 DEF XmitMapFails
<1>9. CASE XmitPublish(q)
  BY <1>9 DEF XmitPublish
<1>10. CASE XmitStopQueue(q)
  BY <1>10 DEF XmitStopQueue, Txqs
<1> QED
  BY <1>1, <1>2, <1>3, <1>4, <1>5, <1>6, <1>7, <1>8, <1>9, <1>10 DEF XmitStep

\* The poller, the hardware and the link keep the types: the descriptor that
\* the hardware fetches is not empty.
LEMMA TypeRest ==
  ASSUME IInv,
         \/ CleanTxBegin \/ NapiStep \/ HwFetch
         \/ \E s \in Skbs : HwComplete(s)
         \/ \E d \in Netdevs : LinkChange(d)
  PROVE  TypeOK'
<1> USE SlotsFacts DEF IInv, TypeOK, NapiPcs
<1>1. CASE CleanTxBegin
  BY <1>1 DEF CleanTxBegin
<1>2. CASE CleanTxTake
  BY <1>2 DEF CleanTxTake
<1>3. CASE CleanTxClear
  BY <1>3 DEF CleanTxClear
<1>4. CASE CleanTxFree
  BY <1>4 DEF CleanTxFree, NapiSkbInv, MaxPreheaders
<1>5. CASE CleanTxEnd
  BY <1>5 DEF CleanTxEnd
<1>6. ASSUME NEW d \in Netdevs, NapiResume(d) PROVE TypeOK'
  BY <1>6 DEF NapiResume
<1>7. CASE NapiComplete
  BY <1>7 DEF NapiComplete
<1>8. CASE HwFetch
  BY <1>8, HeldAfterConsume DEF HwFetch, DescInv
<1>9. ASSUME NEW s \in Skbs, HwComplete(s) PROVE TypeOK'
  BY <1>9 DEF HwComplete
<1>10. ASSUME NEW d \in Netdevs, LinkChange(d) PROVE TypeOK'
  BY <1>10 DEF LinkChange
<1> QED
  BY <1>1, <1>2, <1>3, <1>4, <1>5, <1>6, <1>7, <1>8, <1>9, <1>10 DEF NapiStep

-----------------------------------------------------------------------------
(* Where the poller is in the TXCMPL ring. *)

\* The completion that the poller is about to clear is one that the hardware
\* has produced, and the skb it has read is still in the store.
LEMMA PollEntry ==
  ASSUME IInv, npc = "clear"
  PROVE  /\ ncons # txcmpl_prod
         /\ Held(ncons, txcmpl_prod, ncons)
         /\ nstore = txcmpl[ncons] /\ nskb = tx_skb_store[nstore]
         /\ nskb \in Skbs /\ nskb \in mapped \ in_flight
         /\ owner[nskb] = "driver" /\ opaque[nskb] = nstore
         /\ ~Held(txdesc_cons, txdesc_prod, nstore)
         /\ \A k \in Slots : Held(NextIdx(ncons), txcmpl_prod, k)
              <=> Held(ncons, txcmpl_prod, k) /\ k # ncons
         /\ \A k \in Slots : Held(ncons, txcmpl_prod, k) /\ txcmpl[k] = nstore => k = ncons
<1>1. ncons # txcmpl_prod
  BY NotEmptyBetween DEF IInv, TypeOK, NapiIdxInv
<1>2. /\ Held(ncons, txcmpl_prod, ncons)
      /\ \A k \in Slots : Held(NextIdx(ncons), txcmpl_prod, k)
           <=> Held(ncons, txcmpl_prod, k) /\ k # ncons
  BY <1>1, HeldAfterConsume DEF IInv, TypeOK
<1>3. TxcmplNext = ncons
  BY DEF TxcmplNext
<1> QED
  BY <1>1, <1>2, <1>3, TxAssumption DEF IInv, TypeOK, CmplInv, StoreInv, NapiSkbInv

\* A TXCMPL ring with room for the hardware has room behind the poller.
LEMMA TxcmplRoom ==
  ASSUME IInv, ~Full(txcmpl_cons, txcmpl_prod)
  PROVE  TxcmplNext \in Slots /\ ~Full(TxcmplNext, txcmpl_prod)
<1> USE DEF IInv, TypeOK, NapiIdxInv, TxcmplNext
<1>1. CASE npc \in {"idle", "resume"}
  BY <1>1
<1>2. CASE npc \in {"take", "clear"}
  <2>1. Dist(txcmpl_cons, ncons) <= Dist(txcmpl_cons, txcmpl_prod)
    BY <1>2, DistType
  <2> QED
    BY <1>2, <2>1, RoomBetween
<1>3. CASE npc = "free"
  <2>1. NextIdx(ncons) \in Slots
    BY NextIdxFacts
  <2>2. Dist(txcmpl_cons, NextIdx(ncons)) <= Dist(txcmpl_cons, nprod)
    BY <1>3, DistStepBefore
  <2>3. Dist(txcmpl_cons, NextIdx(ncons)) <= Dist(txcmpl_cons, txcmpl_prod)
    BY <1>3, <2>1, <2>2, DistType
  <2> QED
    BY <1>3, <2>1, <2>3, RoomBetween
<1> QED
  BY <1>1, <1>2, <1>3 DEF NapiPcs

-----------------------------------------------------------------------------
(* Every action preserves the invariant. *)

\* A free skb is in no store entry, in no other transmission and not in the
\* poller's hands.
LEMMA XmitNewInv ==
  ASSUME IInv, NEW q \in Txqs, NEW s \in Skbs, XmitNew(q, s)
  PROVE  IInv'
<1> USE TxAssumption DEF IInv, TypeOK, XmitNew, TxcmplNext, HeldByXmit
<1>1. TypeOK'
  BY TypeXmit DEF XmitStep
<1>2. /\ LockInv' /\ XmitInv' /\ UseInv' /\ ClaimInv' /\ DescInv' /\ FlightInv'
      /\ CmplInv' /\ NapiIdxInv'
  BY DEF LockInv, XmitInv, UseInv, ClaimInv, DescInv, FlightInv, CmplInv,
    NapiIdxInv
<1>3. HeldInv'
  BY DEF HeldInv, StoreInv
<1>4. StoreInv'
  BY DEF StoreInv
<1>5. NapiSkbInv'
  BY DEF NapiSkbInv
<1> QED
  BY <1>1, <1>2, <1>3, <1>4, <1>5

\* The skb that is tried again is still the transmission's alone.
LEMMA XmitAgainInv ==
  ASSUME IInv, NEW q \in Txqs, XmitAgain(q)
  PROVE  IInv'
<1> USE TxAssumption DEF IInv, TypeOK, XmitAgain, TxcmplNext, HeldByXmit
<1>1. TypeOK'
  BY TypeXmit DEF XmitStep
<1>2. /\ LockInv' /\ XmitInv' /\ HeldInv' /\ UseInv' /\ ClaimInv' /\ DescInv'
      /\ FlightInv' /\ CmplInv' /\ NapiIdxInv'
  BY DEF LockInv, XmitInv, HeldInv, UseInv, ClaimInv, DescInv, FlightInv,
    CmplInv, NapiIdxInv
<1>3. StoreInv'
  BY DEF StoreInv, HeldInv
<1>4. NapiSkbInv'
  BY DEF NapiSkbInv, XmitInv
<1> QED
  BY <1>1, <1>2, <1>3, <1>4

\* Only the lock and the place in the code change.
LEMMA XmitLockInv ==
  ASSUME IInv, NEW q \in Txqs, XmitLock(q)
  PROVE  IInv'
<1> USE TxAssumption DEF IInv, TypeOK, XmitLock, TxcmplNext, HeldByXmit
<1>1. TypeOK'
  BY TypeXmit DEF XmitStep
<1>2. /\ LockInv' /\ XmitInv' /\ HeldInv' /\ UseInv' /\ ClaimInv' /\ StoreInv'
      /\ DescInv' /\ FlightInv' /\ CmplInv' /\ NapiIdxInv' /\ NapiSkbInv'
  BY DEF LockInv, XmitInv, HeldInv, UseInv, ClaimInv, StoreInv, DescInv,
    FlightInv, CmplInv, NapiIdxInv, NapiSkbInv
<1> QED
  BY <1>1, <1>2

\* The skb that is dropped is not in the store.
LEMMA XmitDropInv ==
  ASSUME IInv, NEW q \in Txqs, XmitDrop(q)
  PROVE  IInv'
<1> USE TxAssumption DEF IInv, TypeOK, XmitDrop, TxcmplNext, HeldByXmit
<1>1. TypeOK'
  BY TypeXmit DEF XmitStep
<1>2. /\ LockInv' /\ XmitInv' /\ HeldInv' /\ UseInv' /\ ClaimInv' /\ DescInv'
      /\ CmplInv' /\ NapiIdxInv' /\ NapiSkbInv'
  BY DEF LockInv, XmitInv, HeldInv, UseInv, ClaimInv, DescInv, CmplInv,
    NapiIdxInv, NapiSkbInv
<1>3. StoreInv'
  BY DEF StoreInv, HeldInv, XmitInv
<1>4. FlightInv'
  BY DEF FlightInv, StoreInv, HeldInv
<1> QED
  BY <1>1, <1>2, <1>3, <1>4

\* Under the lock no other transmission depends on the index.
LEMMA XmitReadIndicesInv ==
  ASSUME IInv, NEW q \in Txqs, XmitReadIndices(q)
  PROVE  IInv'
<1> USE TxAssumption DEF IInv, TypeOK, XmitReadIndices, TxcmplNext, HeldByXmit
<1>1. TypeOK'
  BY TypeXmit DEF XmitStep
<1>2. /\ LockInv' /\ XmitInv' /\ HeldInv' /\ StoreInv' /\ DescInv' /\ FlightInv'
      /\ CmplInv' /\ NapiIdxInv' /\ NapiSkbInv'
  BY DEF LockInv, XmitInv, HeldInv, StoreInv, DescInv, FlightInv, CmplInv,
    NapiIdxInv, NapiSkbInv
<1>3. UseInv'
  BY DEF UseInv, LockInv
<1>4. ClaimInv'
  BY DEF ClaimInv, LockInv
<1> QED
  BY <1>1, <1>2, <1>3, <1>4

\* An empty store entry is named by no descriptor, no packet and no completion,
\* so that it can be claimed although the poller does not take the lock.
LEMMA XmitStoreInv ==
  ASSUME IInv, NEW q \in Txqs, XmitStore(q)
  PROVE  IInv'
<1> USE TxAssumption DEF IInv, TypeOK, XmitStore, TxcmplNext, HeldByXmit
<1>1. TypeOK'
  BY TypeXmit DEF XmitStep
<1>2. LockInv' /\ XmitInv' /\ NapiIdxInv'
  BY DEF LockInv, XmitInv, NapiIdxInv
<1>3. HeldInv'
  BY DEF HeldInv, XmitInv, LockInv
<1>4. UseInv'
  BY DEF UseInv, LockInv
<1>5. ClaimInv'
  BY DEF ClaimInv,
     LockInv, HeldInv, FlightInv, CmplInv, StoreInv
<1>6. StoreInv'
  BY DEF StoreInv, HeldInv, XmitInv
<1>7. DescInv'
  BY DEF DescInv, UseInv
<1>8. FlightInv'
  BY DEF FlightInv, HeldInv
<1>9. CmplInv'
  BY DEF CmplInv
<1>10. NapiSkbInv'
  BY PollEntry DEF NapiSkbInv, XmitInv, StoreInv
<1> QED
  BY <1>1, <1>2, <1>3, <1>4, <1>5, <1>6, <1>7, <1>8, <1>9, <1>10

\* The descriptor that is filled in is not yet published.
LEMMA XmitMapInv ==
  ASSUME IInv, NEW q \in Txqs, XmitMap(q)
  PROVE  IInv'
<1> USE TxAssumption DEF IInv, TypeOK, XmitMap, TxcmplNext, HeldByXmit
<1>1. TypeOK'
  BY TypeXmit DEF XmitStep
<1>2. /\ LockInv' /\ XmitInv' /\ HeldInv' /\ UseInv' /\ StoreInv' /\ FlightInv'
      /\ CmplInv' /\ NapiIdxInv' /\ NapiSkbInv'
  BY DEF LockInv, XmitInv, HeldInv, UseInv, StoreInv, FlightInv, CmplInv,
    NapiIdxInv, NapiSkbInv
<1>3. ClaimInv'
  BY DEF ClaimInv, LockInv
<1>4. DescInv'
  BY HeldAfterProduce DEF DescInv, UseInv
<1> QED
  BY <1>1, <1>2, <1>3, <1>4

\* The entry that is given up was never published.
LEMMA XmitMapFailsInv ==
  ASSUME IInv, NEW q \in Txqs, XmitMapFails(q)
  PROVE  IInv'
<1> USE TxAssumption DEF IInv, TypeOK, XmitMapFails, TxcmplNext, HeldByXmit
<1>1. TypeOK'
  BY TypeXmit DEF XmitStep
<1>2. LockInv' /\ NapiIdxInv'
  BY DEF LockInv, NapiIdxInv
<1>3. XmitInv'
  BY DEF XmitInv
<1>4. HeldInv'
  BY DEF HeldInv, XmitInv
<1>5. UseInv'
  BY DEF UseInv, LockInv
<1>6. ClaimInv'
  BY DEF ClaimInv, LockInv
<1>7. StoreInv'
  BY DEF StoreInv, ClaimInv
<1>8. DescInv'
  BY HeldAfterProduce DEF DescInv, UseInv
<1>9. FlightInv'
  BY DEF FlightInv, ClaimInv
<1>10. CmplInv'
  BY DEF CmplInv, ClaimInv
<1>11. NapiSkbInv'
  BY PollEntry DEF NapiSkbInv, ClaimInv, XmitInv
<1> QED
  BY <1>1, <1>2, <1>3, <1>4, <1>5, <1>6, <1>7, <1>8, <1>9, <1>10, <1>11

\* Publication hands the claimed entry to the hardware.
LEMMA XmitPublishInv ==
  ASSUME IInv, NEW q \in Txqs, XmitPublish(q)
  PROVE  IInv'
<1> USE TxAssumption DEF IInv, TypeOK, XmitPublish, TxcmplNext, HeldByXmit
<1>1. TypeOK'
  BY TypeXmit DEF XmitStep
<1>2. /\ LockInv' /\ XmitInv' /\ HeldInv' /\ StoreInv' /\ FlightInv' /\ NapiIdxInv'
      /\ NapiSkbInv'
  BY DEF LockInv, XmitInv, HeldInv, StoreInv, FlightInv, NapiIdxInv,
    NapiSkbInv
<1>3. UseInv'
  BY DEF UseInv, LockInv
<1>4. ClaimInv'
  BY DEF ClaimInv, LockInv
<1>5. DescInv'
  BY HeldAfterProduce DEF DescInv, UseInv, ClaimInv, XmitInv
<1>6. CmplInv'
  BY HeldAfterProduce DEF CmplInv, UseInv, ClaimInv
<1> QED
  BY <1>1, <1>2, <1>3, <1>4, <1>5, <1>6

\* The skb that goes back to the stack is not in the store.
LEMMA XmitStopQueueInv ==
  ASSUME IInv, NEW q \in Txqs, XmitStopQueue(q)
  PROVE  IInv'
<1> USE TxAssumption DEF IInv, TypeOK, XmitStopQueue, TxcmplNext, HeldByXmit
<1>1. TypeOK'
  BY TypeXmit DEF XmitStep
<1>2. /\ LockInv' /\ XmitInv' /\ HeldInv' /\ UseInv' /\ ClaimInv' /\ DescInv'
      /\ FlightInv' /\ CmplInv' /\ NapiIdxInv'
  BY DEF LockInv, XmitInv, HeldInv, UseInv, ClaimInv, DescInv, FlightInv,
    CmplInv, NapiIdxInv
<1>3. StoreInv'
  BY DEF StoreInv, HeldInv
<1>4. NapiSkbInv'
  BY DEF NapiSkbInv, XmitInv
<1> QED
  BY <1>1, <1>2, <1>3, <1>4

\* The poller starts at the consumer register.
LEMMA CleanTxBeginInv ==
  ASSUME IInv, CleanTxBegin
  PROVE  IInv'
<1> USE TxAssumption DEF IInv, TypeOK, CleanTxBegin, TxcmplNext, HeldByXmit
<1>1. TypeOK'
  BY TypeRest DEF NapiStep
<1>2. /\ LockInv' /\ XmitInv' /\ HeldInv' /\ UseInv' /\ ClaimInv' /\ StoreInv'
      /\ DescInv' /\ FlightInv' /\ CmplInv' /\ NapiSkbInv'
  BY DEF LockInv, XmitInv, HeldInv, UseInv, ClaimInv, StoreInv, DescInv,
    FlightInv, CmplInv, NapiSkbInv
<1>3. NapiIdxInv'
  BY RingAssumption DEF NapiIdxInv, Dist, Slots
<1> QED
  BY <1>1, <1>2, <1>3

\* The poller's copy of the store entry is current.
LEMMA CleanTxTakeInv ==
  ASSUME IInv, CleanTxTake
  PROVE  IInv'
<1> USE TxAssumption DEF IInv, TypeOK, CleanTxTake, TxcmplNext, HeldByXmit
<1>1. TypeOK'
  BY TypeRest DEF NapiStep
<1>2. /\ LockInv' /\ XmitInv' /\ HeldInv' /\ UseInv' /\ ClaimInv' /\ StoreInv'
      /\ DescInv' /\ FlightInv' /\ CmplInv' /\ NapiIdxInv' /\ NapiSkbInv'
  BY DEF LockInv, XmitInv, HeldInv, UseInv, ClaimInv, StoreInv, DescInv,
    FlightInv, CmplInv, NapiIdxInv, NapiSkbInv
<1> QED
  BY <1>1, <1>2

\* The entry that the poller empties was named by its completion alone.
LEMMA CleanTxClearInv ==
  ASSUME IInv, CleanTxClear
  PROVE  IInv'
<1> USE TxAssumption DEF IInv, TypeOK, CleanTxClear, TxcmplNext, HeldByXmit
<1>1. TypeOK'
  BY TypeRest DEF NapiStep
<1>2. LockInv' /\ XmitInv' /\ UseInv' /\ StoreInv' /\ NapiIdxInv'
  BY DEF LockInv, XmitInv, UseInv, StoreInv, NapiIdxInv
<1>3. HeldInv'
  BY DEF HeldInv, XmitInv
<1>4. ClaimInv'
  BY PollEntry DEF ClaimInv
<1>5. DescInv'
  BY PollEntry DEF DescInv
<1>6. FlightInv'
  BY PollEntry DEF FlightInv
<1>7. CmplInv'
  BY PollEntry DEF CmplInv, StoreInv
<1>8. NapiSkbInv'
  BY PollEntry DEF NapiSkbInv,
     StoreInv, XmitInv, HeldInv, ClaimInv, HeldByXmit, XmitPcs
<1> QED
  BY <1>1, <1>2, <1>3, <1>4, <1>5, <1>6, <1>7, <1>8

\* The skb that the poller frees is in no other place.
LEMMA CleanTxFreeInv ==
  ASSUME IInv, CleanTxFree
  PROVE  IInv'
<1> USE TxAssumption DEF IInv, TypeOK, CleanTxFree, TxcmplNext, HeldByXmit
<1>1. TypeOK'
  BY TypeRest DEF NapiStep
<1>2. LockInv' /\ HeldInv' /\ UseInv' /\ NapiSkbInv'
  BY DEF LockInv, HeldInv, UseInv, NapiSkbInv
<1>3. XmitInv'
  BY DEF XmitInv, NapiSkbInv
<1>4. ClaimInv'
  BY DEF ClaimInv, NapiSkbInv
<1>5. StoreInv'
  BY DEF StoreInv, NapiSkbInv
<1>6. DescInv'
  BY DEF DescInv, NapiSkbInv
<1>7. FlightInv'
  BY DEF FlightInv, NapiSkbInv
<1>8. CmplInv'
  BY DEF CmplInv, NapiSkbInv
<1>9. NapiIdxInv'
  BY DistStepBefore DEF NapiIdxInv
<1> QED
  BY <1>1, <1>2, <1>3, <1>4, <1>5, <1>6, <1>7, <1>8, <1>9

\* The consumer register catches up with the poller.
LEMMA CleanTxEndInv ==
  ASSUME IInv, CleanTxEnd
  PROVE  IInv'
<1> USE TxAssumption DEF IInv, TypeOK, CleanTxEnd, TxcmplNext, HeldByXmit
<1>1. TypeOK'
  BY TypeRest DEF NapiStep
<1>2. /\ LockInv' /\ XmitInv' /\ HeldInv' /\ UseInv' /\ ClaimInv' /\ StoreInv'
      /\ DescInv' /\ FlightInv' /\ CmplInv' /\ NapiIdxInv' /\ NapiSkbInv'
  BY DEF LockInv, XmitInv, HeldInv, UseInv, ClaimInv, StoreInv, DescInv,
    FlightInv, CmplInv, NapiIdxInv, NapiSkbInv
<1> QED
  BY <1>1, <1>2

\* Starting a queue disturbs no skb.
LEMMA NapiResumeInv ==
  ASSUME IInv, NEW d \in Netdevs, NapiResume(d)
  PROVE  IInv'
<1> USE TxAssumption DEF IInv, TypeOK, NapiResume, TxcmplNext, HeldByXmit
<1>1. TypeOK'
  BY TypeRest DEF NapiStep
<1>2. /\ LockInv' /\ XmitInv' /\ HeldInv' /\ UseInv' /\ ClaimInv' /\ StoreInv'
      /\ DescInv' /\ FlightInv' /\ CmplInv' /\ NapiIdxInv' /\ NapiSkbInv'
  BY DEF LockInv, XmitInv, HeldInv, UseInv, ClaimInv, StoreInv, DescInv,
    FlightInv, CmplInv, NapiIdxInv, NapiSkbInv
<1> QED
  BY <1>1, <1>2

\* The end of a poll disturbs nothing.
LEMMA NapiCompleteInv ==
  ASSUME IInv, NapiComplete
  PROVE  IInv'
<1> USE TxAssumption DEF IInv, TypeOK, NapiComplete, TxcmplNext, HeldByXmit
<1>1. TypeOK'
  BY TypeRest DEF NapiStep
<1>2. /\ LockInv' /\ XmitInv' /\ HeldInv' /\ UseInv' /\ ClaimInv' /\ StoreInv'
      /\ DescInv' /\ FlightInv' /\ CmplInv' /\ NapiIdxInv' /\ NapiSkbInv'
  BY DEF LockInv, XmitInv, HeldInv, UseInv, ClaimInv, StoreInv, DescInv,
    FlightInv, CmplInv, NapiIdxInv, NapiSkbInv
<1> QED
  BY <1>1, <1>2

\* The fetched skb moves from the descriptor to the hardware.
LEMMA HwFetchInv ==
  ASSUME IInv, HwFetch
  PROVE  IInv'
<1> USE TxAssumption DEF IInv, TypeOK, HwFetch, TxcmplNext, HeldByXmit
<1>1. TypeOK'
  BY TypeRest DEF NapiStep
<1>2. LockInv' /\ XmitInv' /\ HeldInv' /\ StoreInv' /\ NapiIdxInv'
  BY DEF LockInv, XmitInv, HeldInv, StoreInv, NapiIdxInv
<1>3. UseInv'
  BY HeldAfterConsume DEF UseInv
<1>4. ClaimInv'
  BY HeldAfterConsume, HeldAfterProduce DEF ClaimInv,
     UseInv, DescInv, StoreInv
<1>5. DescInv'
  BY HeldAfterConsume DEF DescInv, StoreInv
<1>6. FlightInv'
  BY HeldAfterConsume DEF FlightInv, DescInv, StoreInv
<1>7. CmplInv'
  BY HeldAfterConsume DEF CmplInv, DescInv, StoreInv
<1>8. NapiSkbInv'
  BY HeldAfterConsume DEF NapiSkbInv, DescInv
<1> QED
  BY <1>1, <1>2, <1>3, <1>4, <1>5, <1>6, <1>7, <1>8

\* The completion takes over the store entry of the packet.
LEMMA HwCompleteInv ==
  ASSUME IInv, NEW s \in Skbs, HwComplete(s)
  PROVE  IInv'
<1> USE TxAssumption DEF IInv, TypeOK, HwComplete, TxcmplNext, HeldByXmit
<1>1. TypeOK'
  BY TypeRest DEF NapiStep
<1>2. /\ LockInv' /\ XmitInv' /\ HeldInv' /\ UseInv' /\ StoreInv' /\ DescInv'
      /\ FlightInv'
  BY DEF LockInv, XmitInv, HeldInv, UseInv, StoreInv, DescInv, FlightInv
<1>3. ClaimInv'
  BY TxcmplRoom, HeldAfterProduce DEF ClaimInv, FlightInv
<1>4. CmplInv'
  BY TxcmplRoom, HeldAfterProduce DEF CmplInv,
     FlightInv, DescInv
<1>5. NapiIdxInv'
  BY DistStep, DistType DEF NapiIdxInv, Full
<1>6. NapiSkbInv'
  BY PollEntry DEF NapiSkbInv
<1> QED
  BY <1>1, <1>2, <1>3, <1>4, <1>5, <1>6

\* The carrier is not part of the invariant.
LEMMA LinkChangeInv ==
  ASSUME IInv, NEW d \in Netdevs, LinkChange(d)
  PROVE  IInv'
<1> USE TxAssumption DEF IInv, TypeOK, LinkChange, TxcmplNext, HeldByXmit
<1>1. TypeOK'
  BY TypeRest DEF NapiStep
<1>2. /\ LockInv' /\ XmitInv' /\ HeldInv' /\ UseInv' /\ ClaimInv' /\ StoreInv'
      /\ DescInv' /\ FlightInv' /\ CmplInv' /\ NapiIdxInv' /\ NapiSkbInv'
  BY DEF LockInv, XmitInv, HeldInv, UseInv, ClaimInv, StoreInv, DescInv,
    FlightInv, CmplInv, NapiIdxInv, NapiSkbInv
<1> QED
  BY <1>1, <1>2

-----------------------------------------------------------------------------
(* The theorems. *)

\* The invariant holds initially and every step preserves it.
LEMMA InitInv == Init => IInv
<1> SUFFICES ASSUME Init PROVE IInv
  OBVIOUS
<1>1. TypeOK
  BY TypeInit
<1>2. \A i \in Slots : ~Held(0, 0, i)
  BY HeldEmpty, SlotsFacts
<1> QED
  BY <1>1, <1>2, TxAssumption
  DEF Init, IInv, LockInv, XmitInv, HeldInv, UseInv, ClaimInv, StoreInv, DescInv,
      FlightInv, CmplInv, NapiIdxInv, NapiSkbInv, TxcmplNext, HeldByXmit

\* Every step, stuttering included, preserves the invariant.
LEMMA NextInv == IInv /\ [Next]_vars => IInv'
<1> SUFFICES ASSUME IInv, [Next]_vars PROVE IInv'
  OBVIOUS
<1>1. CASE \E q \in Txqs : \/ \E s \in Skbs : XmitNew(q, s)
                           \/ XmitAgain(q) \/ XmitLock(q) \/ XmitDrop(q)
                           \/ XmitStep(q)
  BY <1>1, XmitNewInv, XmitAgainInv, XmitLockInv, XmitDropInv, XmitReadIndicesInv,
     XmitStoreInv, XmitMapInv, XmitMapFailsInv, XmitPublishInv, XmitStopQueueInv
  DEF XmitStep
<1>2. CASE CleanTxBegin \/ NapiStep
  BY <1>2, CleanTxBeginInv, CleanTxTakeInv, CleanTxClearInv, CleanTxFreeInv,
     CleanTxEndInv, NapiResumeInv, NapiCompleteInv
  DEF NapiStep
<1>3. CASE \/ HwFetch \/ \E s \in Skbs : HwComplete(s)
           \/ \E d \in Netdevs : LinkChange(d)
  BY <1>3, HwFetchInv, HwCompleteInv, LinkChangeInv
<1>4. CASE UNCHANGED vars
  BY <1>4
  DEF vars, IInv, TypeOK, LockInv, XmitInv, HeldInv, UseInv, ClaimInv, StoreInv,
      DescInv, FlightInv, CmplInv, NapiIdxInv, NapiSkbInv, TxcmplNext
<1> QED
  BY <1>1, <1>2, <1>3, <1>4 DEF Next

\* The inductive invariant is an invariant of the transmit half.
THEOREM Invariance == Spec => []IInv
BY InitInv, NextInv, PTL DEF Spec

\* Every variable keeps its type: no index leaves its ring, and no empty
\* descriptor is fetched.
THEOREM TypeCorrect == Spec => []TypeOK
<1>1. IInv => TypeOK
  BY DEF IInv
<1> QED
  BY <1>1, Invariance, PTL

\* The hardware reads only skbs that are mapped, owned by the driver and found
\* in the store under the index in their preheader.
THEOREM DmaIsSafe == Spec => []DmaSafe
<1>1. IInv => DmaSafe
  BY TxAssumption DEF IInv, TypeOK, DmaSafe, HwReads, DescInv, FlightInv, StoreInv
<1> QED
  BY <1>1, Invariance, PTL

\* edma_clean_tx meets no completion without an skb and none twice.
THEOREM CompletionsAreValid == Spec => []CompletionsValid
<1>1. IInv => CompletionsValid
  BY DEF IInv, TypeOK, CompletionsValid, HwReads, CmplInv, StoreInv, DescInv
<1> QED
  BY <1>1, Invariance, PTL

-----------------------------------------------------------------------------
(* The accounting of skbs rests on two more facts, which IInv helps to keep. *)

\* Whatever the driver owns is somewhere.
AccountInv ==
  \A s \in Skbs : owner[s] = "driver" =>
    \/ \E i \in Slots : tx_skb_store[i] = s
    \/ \E q \in Txqs : xskb[q] = s /\ xpc[q] \in HeldByXmit
    \/ npc = "free" /\ nskb = s

\* A mapped skb is the driver's and past its mapping; a stored skb that is not
\* mapped is about to be.
MapInv ==
  /\ \A s \in mapped : /\ owner[s] = "driver"
                       /\ \A q \in Txqs : xskb[q] = s => xpc[q] = "publish"
  /\ \A i \in Slots : tx_skb_store[i] # NULL /\ tx_skb_store[i] \notin mapped
       => \E q \in Txqs : xskb[q] = tx_skb_store[i] /\ xpc[q] = "map"

\* Transmitters move an skb from place to place without losing it.
LEMMA AccountXmit ==
  ASSUME IInv, AccountInv, MapInv, NEW q \in Txqs,
         (\E s \in Skbs : XmitNew(q, s)) \/ XmitAgain(q) \/ XmitLock(q)
           \/ XmitDrop(q) \/ XmitStep(q)
  PROVE  AccountInv' /\ MapInv'
<1> USE TxAssumption DEF IInv, TypeOK, XmitInv, AccountInv, MapInv, HeldByXmit
<1>1. ASSUME NEW s \in Skbs, XmitNew(q, s) PROVE AccountInv' /\ MapInv'
  BY <1>1 DEF XmitNew
<1>2. CASE XmitAgain(q)
  BY <1>2 DEF XmitAgain
<1>3. CASE XmitLock(q)
  BY <1>3 DEF XmitLock
<1>4. CASE XmitDrop(q)
  <2>1. AccountInv'
    BY <1>4 DEF XmitDrop
  <2>2. MapInv'
    BY <1>4 DEF XmitDrop
  <2> QED
    BY <2>1, <2>2
<1>5. CASE XmitReadIndices(q)
  BY <1>5 DEF XmitReadIndices
<1>6. CASE XmitStore(q)
  <2>1. AccountInv'
    BY <1>6 DEF XmitStore
  <2>2. MapInv'
    BY <1>6 DEF XmitStore
  <2> QED
    BY <2>1, <2>2
<1>7. CASE XmitMap(q)
  BY <1>7 DEF XmitMap, LockInv
<1>8. CASE XmitMapFails(q)
  BY <1>8 DEF XmitMapFails, StoreInv, ClaimInv
<1>9. CASE XmitPublish(q)
  BY <1>9 DEF XmitPublish, ClaimInv
<1>10. CASE XmitStopQueue(q)
  BY <1>10 DEF XmitStopQueue
<1> QED
  BY <1>1, <1>2, <1>3, <1>4, <1>5, <1>6, <1>7, <1>8, <1>9, <1>10 DEF XmitStep

\* The poller takes an skb out of the store and frees it; the hardware moves
\* no skb of the driver's.
LEMMA AccountRest ==
  ASSUME IInv, AccountInv, MapInv,
         \/ CleanTxBegin \/ NapiStep \/ HwFetch
         \/ \E s \in Skbs : HwComplete(s)
         \/ \E d \in Netdevs : LinkChange(d)
  PROVE  AccountInv' /\ MapInv'
<1> USE TxAssumption DEF IInv, TypeOK, AccountInv, MapInv, HeldByXmit
<1>1. CASE CleanTxClear
  BY <1>1, PollEntry DEF CleanTxClear
<1>2. CASE CleanTxFree
  BY <1>2 DEF CleanTxFree, NapiSkbInv
<1>3. CASE \/ CleanTxBegin \/ CleanTxTake \/ CleanTxEnd \/ NapiComplete
           \/ \E d \in Netdevs : NapiResume(d) \/ LinkChange(d)
  BY <1>3 DEF CleanTxBegin, CleanTxTake, CleanTxEnd, NapiComplete, NapiResume, LinkChange
<1>4. CASE HwFetch \/ \E s \in Skbs : HwComplete(s)
  BY <1>4 DEF HwFetch, HwComplete
<1> QED
  BY <1>1, <1>2, <1>3, <1>4 DEF NapiStep

\* The three invariants together say where every skb is.
LEMMA AccountingFollows == IInv /\ AccountInv /\ MapInv => SkbAccounting
<1> SUFFICES ASSUME IInv, AccountInv, MapInv, NEW s \in Skbs
             PROVE  /\ owner[s] = "driver" <=> Places(s) # {}
                    /\ \A x, y \in Places(s) : x = y
                    /\ s \in mapped <=> /\ <<"poll", 0>> \in Places(s)
                                           \/ \E i \in Slots : <<"store", i>> \in Places(s)
                                        /\ ~BeingMapped(s)
  BY DEF SkbAccounting
<1> DEFINE InStore(i) == tx_skb_store[i] = s
           InXmit(q)  == xskb[q] = s /\ xpc[q] \in HeldByXmit
           InPoll     == npc = "free" /\ nskb = s
<1>1. \A x : x \in Places(s) <=> \/ \E i \in Slots : InStore(i) /\ x = <<"store", i>>
                                 \/ \E q \in Txqs : InXmit(q) /\ x = <<"xmit", q>>
                                 \/ InPoll /\ x = <<"poll", 0>>
  BY DEF Places
<1>2. owner[s] = "driver" <=> (\E i \in Slots : InStore(i)) \/ (\E q \in Txqs : InXmit(q)) \/ InPoll
  BY TxAssumption DEF IInv, TypeOK, AccountInv, StoreInv, XmitInv, NapiSkbInv, HeldByXmit
<1>3. /\ \A i, j \in Slots : InStore(i) /\ InStore(j) => i = j
      /\ \A q, r \in Txqs : InXmit(q) /\ InXmit(r) => q = r
      /\ \A i \in Slots, q \in Txqs : ~(InStore(i) /\ InXmit(q))
      /\ \A i \in Slots : ~(InStore(i) /\ InPoll)
      /\ \A q \in Txqs : ~(InXmit(q) /\ InPoll)
  BY TxAssumption DEF IInv, TypeOK, StoreInv, XmitInv, HeldInv, NapiSkbInv, HeldByXmit
<1>4. s \in mapped <=> (InPoll \/ \E i \in Slots : InStore(i)) /\ ~BeingMapped(s)
  BY TxAssumption DEF IInv, TypeOK, AccountInv, MapInv, NapiSkbInv, XmitInv, HeldByXmit, BeingMapped
<1>5. /\ <<"poll", 0>> \in Places(s) <=> InPoll
      /\ \A i \in Slots : <<"store", i>> \in Places(s) <=> InStore(i)
  BY <1>1
<1>6. Places(s) # {} <=> (\E i \in Slots : InStore(i)) \/ (\E q \in Txqs : InXmit(q)) \/ InPoll
  BY <1>1
<1>7. \A x, y \in Places(s) : x = y
  BY <1>1, <1>3
<1> HIDE DEF InStore, InXmit, InPoll
<1> QED
  BY <1>2, <1>4, <1>5, <1>6, <1>7

\* No skb is lost, shared or freed twice, and none is unmapped early.
THEOREM SkbsAreAccounted == Spec => []SkbAccounting
<1>1. Init => AccountInv /\ MapInv
  BY DEF Init, AccountInv, MapInv
<1>2. IInv /\ AccountInv /\ MapInv /\ [Next]_vars => AccountInv' /\ MapInv'
  <2> SUFFICES ASSUME IInv, AccountInv, MapInv, [Next]_vars
               PROVE  AccountInv' /\ MapInv'
    OBVIOUS
  <2>1. CASE UNCHANGED vars
    BY <2>1 DEF vars, AccountInv, MapInv
  <2> QED
    BY <2>1, AccountXmit, AccountRest DEF Next
<1> QED
  BY <1>1, <1>2, Invariance, AccountingFollows, PTL DEF Spec

-----------------------------------------------------------------------------
(* The refinement of TxPath: which step of the path each action is.         *)

\* What waits for the hardware is what the TXDESC ring contains.
LEMMA WaitingIsContents ==
  ASSUME IInv
  PROVE  /\ WaitingSkbs = Contents(txdesc, txdesc_cons, txdesc_prod)
         /\ Len(WaitingSkbs) = Dist(txdesc_cons, txdesc_prod)
         /\ \A k \in 1 .. Len(WaitingSkbs) : \E i \in Slots :
              Held(txdesc_cons, txdesc_prod, i) /\ WaitingSkbs[k] = txdesc[i]
<1> DEFINE S == Skbs \cup {NULL}
<1>1. txdesc \in [Slots -> S] /\ txdesc_cons \in Slots /\ txdesc_prod \in Slots
  BY DEF IInv, TypeOK
<1> HIDE DEF S
<1>2. WaitingSkbs = Contents(txdesc, txdesc_cons, txdesc_prod)
  BY DEF WaitingSkbs, Contents
<1>3. Len(WaitingSkbs) = Dist(txdesc_cons, txdesc_prod)
  BY ONLY <1>1, <1>2, ContentsType
<1> QED
  BY ONLY <1>1, <1>2, <1>3, ContentsAt

\* Nothing waits more or less after a step that moves no index of the TXDESC
\* ring and writes no published descriptor.
LEMMA SameWaiting ==
  ASSUME IInv, IInv', UNCHANGED <<txdesc_cons, txdesc_prod>>,
         \A i \in Slots : Held(txdesc_cons, txdesc_prod, i) => txdesc'[i] = txdesc[i]
  PROVE  WaitingSkbs' = WaitingSkbs
<1> DEFINE S   == Skbs \cup {NULL}
           new == txdesc'
<1>1. /\ txdesc \in [Slots -> S] /\ new \in [Slots -> S]
      /\ txdesc_cons \in Slots /\ txdesc_prod \in Slots
      /\ \A i \in Slots : Held(txdesc_cons, txdesc_prod, i) => new[i] = txdesc[i]
  BY DEF IInv, TypeOK
<1>2. WaitingSkbs' = Contents(new, txdesc_cons, txdesc_prod)
  BY DEF WaitingSkbs, Contents
<1> HIDE DEF S, new
<1>3. Contents(new, txdesc_cons, txdesc_prod) = Contents(txdesc, txdesc_cons, txdesc_prod)
  BY ONLY <1>1, ContentsSame
<1> QED
  BY <1>2, <1>3, WaitingIsContents

\* Completion k is not consumed.
Pending(k) == Held(TxcmplNext, txcmpl_prod, k)

\* Nothing is reported or released in a step that leaves the completions that
\* are not consumed, their skbs and the one in the poller's hands alone.
LEMMA SameReported ==
  ASSUME UNCHANGED <<txcmpl, txcmpl_prod, nskb>>, TxcmplNext' = TxcmplNext,
         npc' = "free" <=> npc = "free",
         \A k \in Slots : Pending(k) => tx_skb_store'[txcmpl[k]] = tx_skb_store[txcmpl[k]]
  PROVE  ReportedSkbs' = ReportedSkbs
BY DEF ReportedSkbs, Pending

\* A published descriptor is an accepted packet, that of no other packet of the
\* path, and there is room for it.
LEMMA PublishAccepts ==
  ASSUME IInv, IInv', NEW q \in Txqs, XmitPublish(q) PROVE Path!PathNext
<1> USE TxAssumption DEF IInv, TypeOK
<1> DEFINE p == txdesc_prod
<1>1. PICK s \in Skbs : s = xskb[q]
  BY DEF XmitPublish, XmitInv
<1>2. /\ hw_next_to_use = p /\ ~Full(txdesc_cons, p)
      /\ tx_skb_store[p] = s /\ txdesc[p] = s
      /\ txdesc_prod' = NextIdx(p)
      /\ UNCHANGED <<txdesc_cons, txdesc, txcmpl, txcmpl_prod, txcmpl_cons, in_flight,
                     tx_skb_store, npc, ncons, nskb>>
  BY <1>1 DEF XmitPublish, UseInv, ClaimInv
<1>3. \A i \in Slots : tx_skb_store[i] = s => i = p
  BY <1>2 DEF StoreInv
<1>4. /\ \A i \in Slots : Held(txdesc_cons, p, i) => txdesc[i] # s
      /\ s \notin in_flight
      /\ \A k \in Slots : Pending(k) => tx_skb_store[txcmpl[k]] # s
      /\ npc = "free" => nskb # s
  BY <1>1, <1>2, <1>3, HeldAfterProduce
     DEF XmitPublish, DescInv, ClaimInv, NapiSkbInv, Pending
<1>5. s \notin Path!Outstanding
  <2>1. s \notin ReportedSkbs
    BY <1>4 DEF ReportedSkbs, Pending
  <2>2. \A k \in 1 .. Len(WaitingSkbs) : WaitingSkbs[k] # s
    BY <1>4, WaitingIsContents
  <2> QED
    BY ONLY <1>4, <2>1, <2>2 DEF Path!Outstanding
<1>6. WaitingSkbs' = Append(WaitingSkbs, s)
  <2> DEFINE S   == Skbs \cup {NULL}
             new == [txdesc EXCEPT ![p] = s]
  <2>1. /\ txdesc \in [Slots -> S] /\ s \in S /\ new = [txdesc EXCEPT ![p] = s]
        /\ txdesc_cons \in Slots /\ p \in Slots /\ ~Full(txdesc_cons, p)
    BY <1>2
  <2>2. new = txdesc
    BY <1>2
  <2> HIDE DEF S, p, new
  <2>3. Contents(new, txdesc_cons, NextIdx(p)) = Append(Contents(txdesc, txdesc_cons, p), s)
    BY ONLY <2>1, ContentsProduce
  <2>4. WaitingSkbs' = Contents(txdesc, txdesc_cons, NextIdx(p))
    BY <1>2 DEF WaitingSkbs, Contents
  <2> QED
    BY <2>2, <2>3, <2>4, WaitingIsContents DEF p
<1>7. Len(WaitingSkbs) < RingSize - 1
  <2>1. Dist(txdesc_cons, p) < RingSize - 1
    BY <1>2, DistRoom
  <2> QED
    BY ONLY <2>1, IInv, WaitingIsContents
<1>8. ReportedSkbs' = ReportedSkbs
  BY <1>2, SameReported DEF TxcmplNext
<1>9. Path!Accept(s)
  BY ONLY <1>2, <1>5, <1>6, <1>7, <1>8 DEF Path!Accept
<1> QED
  BY ONLY <1>9, s \in Skbs DEF Path!PathNext

\* The hardware sends the packet that has waited longest.
LEMMA FetchSends == ASSUME IInv, IInv', HwFetch PROVE Path!PathNext
<1> USE DEF IInv, TypeOK
<1> DEFINE S == Skbs \cup {NULL}
           c == txdesc_cons
<1>1. txdesc \in [Slots -> S] /\ c \in Slots /\ txdesc_prod \in Slots /\ c # txdesc_prod
  BY DEF HwFetch
<1> HIDE DEF S
<1>2. /\ WaitingSkbs # <<>> /\ Head(WaitingSkbs) = txdesc[c]
      /\ Tail(WaitingSkbs) = Contents(txdesc, NextIdx(c), txdesc_prod)
  <2>1. WaitingSkbs = Contents(txdesc, c, txdesc_prod)
    BY WaitingIsContents
  <2> QED
    BY ONLY <1>1, <2>1, ContentsConsume
<1>3. WaitingSkbs' = Contents(txdesc, NextIdx(c), txdesc_prod)
  BY DEF HwFetch, WaitingSkbs, Contents
<1>4. ReportedSkbs' = ReportedSkbs
  BY SameReported DEF HwFetch, TxcmplNext
<1>5. in_flight' = in_flight \cup {txdesc[c]}
  BY DEF HwFetch
<1> QED
  BY ONLY <1>2, <1>3, <1>4, <1>5 DEF Path!PathNext, Path!Send

\* A completion reports the packet that the store has under its index.
LEMMA CompleteReports ==
  ASSUME IInv, IInv', NEW s \in Skbs, HwComplete(s) PROVE Path!PathNext
<1> USE DEF IInv, TypeOK
<1> DEFINE p == txcmpl_prod
<1>1. /\ s \in in_flight /\ in_flight' = in_flight \ {s} /\ p \in Slots
      /\ tx_skb_store[opaque[s]] = s
      /\ UNCHANGED <<txdesc, txdesc_prod, txdesc_cons, tx_skb_store, npc, nskb>>
      /\ TxcmplNext' = TxcmplNext
      /\ txcmpl'[p] = opaque[s] /\ \A i \in Slots : i # p => txcmpl'[i] = txcmpl[i]
  BY DEF HwComplete, FlightInv, TxcmplNext
<1>2. ~Pending(p) /\ \A k \in Slots : Pending(k)' <=> Pending(k) \/ k = p
  BY <1>1, TxcmplRoom, HeldAfterProduce DEF HwComplete, Pending
<1>3. ReportedSkbs' = ReportedSkbs \cup {s}
  <2>1. \A k \in Slots : Pending(k) => tx_skb_store[txcmpl'[k]] = tx_skb_store[txcmpl[k]]
    BY <1>1, <1>2
  <2>2. tx_skb_store[txcmpl'[p]] = s
    BY <1>1
  <2> DEFINE R(k, x) == Pending(k) /\ x = tx_skb_store[txcmpl[k]]
             F(x)    == npc = "free" /\ x = nskb
  <2>3. \A x : x \in ReportedSkbs <=> (\E k \in Slots : R(k, x)) \/ F(x)
    BY DEF ReportedSkbs, Pending
  <2>4. \A x : x \in ReportedSkbs' <=> (\E k \in Slots : R(k, x)') \/ F(x)
    BY <1>1 DEF ReportedSkbs, Pending
  <2>5. \A x : \A k \in Slots : R(k, x)' <=> R(k, x) \/ (k = p /\ x = s)
    BY <1>1, <1>2, <2>1, <2>2
  <2> HIDE DEF R, F
  <2> QED
    BY <1>1, <2>3, <2>4, <2>5
<1>4. WaitingSkbs' = WaitingSkbs
  BY <1>1, SameWaiting
<1>5. Path!Report(s)
  BY ONLY <1>1, <1>3, <1>4 DEF Path!Report
<1> QED
  BY ONLY <1>5, s \in Skbs DEF Path!PathNext

\* The poller that takes an skb out of the store still has it.
LEMMA ClearKeeps == ASSUME IInv, IInv', CleanTxClear PROVE UNCHANGED Path!pathVars
<1> USE DEF IInv, TypeOK
<1>1. WaitingSkbs' = WaitingSkbs
  BY SameWaiting DEF CleanTxClear
<1>2. /\ npc = "clear" /\ npc' = "free" /\ ncons \in Slots /\ Pending(ncons)
      /\ nskb = tx_skb_store[txcmpl[ncons]]
      /\ \A k \in Slots : Pending(k)' <=> Pending(k) /\ k # ncons
      /\ \A k \in Slots : Pending(k) /\ k # ncons => txcmpl[k] # nstore
  BY PollEntry DEF CleanTxClear, Pending, TxcmplNext
<1>3. \A k \in Slots : Pending(k)' => tx_skb_store'[txcmpl[k]] = tx_skb_store[txcmpl[k]]
  BY <1>2 DEF CleanTxClear
<1>4. UNCHANGED <<txcmpl, nskb, in_flight>>
  BY DEF CleanTxClear
<1>5. ReportedSkbs' = ReportedSkbs
  <2> DEFINE R(k, x) == Pending(k) /\ x = tx_skb_store[txcmpl[k]]
  <2>1. \A x : x \in ReportedSkbs <=> \E k \in Slots : R(k, x)
    BY <1>2 DEF ReportedSkbs, Pending
  <2>2. \A x : x \in ReportedSkbs' <=> (\E k \in Slots : R(k, x)') \/ x = nskb
    BY <1>2, <1>4 DEF ReportedSkbs, Pending
  <2>3. \A x : \A k \in Slots : R(k, x) <=> R(k, x)' \/ (k = ncons /\ x = nskb)
    BY <1>2, <1>3, <1>4
  <2> HIDE DEF R
  <2> QED
    BY <1>2, <2>1, <2>2, <2>3
<1> QED
  BY ONLY <1>1, <1>4, <1>5 DEF Path!pathVars

\* The skb that the poller frees is a reported one, and is released.
LEMMA FreeReleases == ASSUME IInv, IInv', CleanTxFree PROVE Path!PathNext
<1> USE DEF IInv, TypeOK
<1>1. PICK s \in Skbs : s = nskb
  BY DEF CleanTxFree, NapiSkbInv
<1>2. WaitingSkbs' = WaitingSkbs
  BY SameWaiting DEF CleanTxFree
<1>3. /\ npc = "free" /\ npc' # "free"
      /\ \A k \in Slots : Pending(k)' <=> Pending(k)
      /\ UNCHANGED <<txcmpl, tx_skb_store, in_flight>>
  BY DEF CleanTxFree, Pending, TxcmplNext
<1>4. \A k \in Slots : Pending(k) => tx_skb_store[txcmpl[k]] # s
  BY <1>1, <1>3 DEF NapiSkbInv
<1>5. s \in ReportedSkbs /\ ReportedSkbs' = ReportedSkbs \ {s}
  <2> DEFINE R(k, x) == Pending(k) /\ x = tx_skb_store[txcmpl[k]]
  <2>1. \A x : x \in ReportedSkbs <=> (\E k \in Slots : R(k, x)) \/ x = s
    BY <1>1, <1>3 DEF ReportedSkbs, Pending
  <2>2. \A x : x \in ReportedSkbs' <=> \E k \in Slots : R(k, x)'
    BY <1>3 DEF ReportedSkbs, Pending
  <2>3. \A x : \A k \in Slots : (R(k, x)' <=> R(k, x)) /\ (R(k, x) => x # s)
    BY <1>3, <1>4
  <2> HIDE DEF R
  <2> QED
    BY <2>1, <2>2, <2>3
<1>6. Path!Release(s)
  BY ONLY <1>2, <1>3, <1>5 DEF Path!Release
<1> QED
  BY ONLY <1>6, s \in Skbs DEF Path!PathNext

\* A transmission is nothing to the path before it publishes.
LEMMA XmitKeeps ==
  ASSUME IInv, IInv', NEW q \in Txqs,
         \/ \E s \in Skbs : XmitNew(q, s)
         \/ XmitAgain(q) \/ XmitLock(q) \/ XmitDrop(q) \/ XmitReadIndices(q)
         \/ XmitStore(q) \/ XmitMap(q) \/ XmitMapFails(q) \/ XmitStopQueue(q)
  PROVE  UNCHANGED Path!pathVars
<1> USE DEF IInv, TypeOK
<1>1. /\ UNCHANGED <<txdesc_cons, txdesc_prod, txcmpl, txcmpl_prod, txcmpl_cons,
                     in_flight, npc, nskb, ncons>>
  BY DEF XmitNew, XmitAgain, XmitLock, XmitDrop, XmitReadIndices, XmitStore, XmitMap,
         XmitMapFails, XmitStopQueue
<1>2. ASSUME NEW i \in Slots, Held(txdesc_cons, txdesc_prod, i)
      PROVE  txdesc'[i] = txdesc[i]
  <2>1. CASE XmitMap(q) \/ XmitMapFails(q)
    <3>1. i # hw_next_to_use
      BY <1>2, <2>1, HeldAfterProduce DEF XmitMap, XmitMapFails, UseInv
    <3> QED
      BY <2>1, <3>1 DEF XmitMap, XmitMapFails
  <2> QED
    BY <2>1 DEF XmitNew, XmitAgain, XmitLock, XmitDrop, XmitReadIndices, XmitStore,
                XmitStopQueue
<1>3. ASSUME NEW k \in Slots, Pending(k)
      PROVE  tx_skb_store'[txcmpl[k]] = tx_skb_store[txcmpl[k]]
  <2>1. CASE XmitStore(q)
    BY <1>3, <2>1 DEF XmitStore, CmplInv, Pending
  <2>2. CASE XmitMapFails(q)
    BY <1>3, <2>2 DEF XmitMapFails, ClaimInv, Pending
  <2> QED
    BY <2>1, <2>2 DEF XmitNew, XmitAgain, XmitLock, XmitDrop, XmitReadIndices, XmitMap,
                      XmitStopQueue
<1>4. WaitingSkbs' = WaitingSkbs
  BY <1>1, <1>2, SameWaiting
<1>5. ReportedSkbs' = ReportedSkbs
  <2>1. TxcmplNext' = TxcmplNext
    BY <1>1 DEF TxcmplNext
  <2> QED
    BY ONLY <1>1, <1>3, <2>1, SameReported
<1> QED
  BY ONLY <1>1, <1>4, <1>5 DEF Path!pathVars

\* Neither are the other steps of the poller, and changes of the link.
LEMMA OthersKeep ==
  ASSUME IInv, IInv',
         \/ CleanTxBegin \/ CleanTxTake \/ CleanTxEnd \/ NapiComplete
         \/ \E d \in Netdevs : NapiResume(d) \/ LinkChange(d)
         \/ UNCHANGED vars
  PROVE  UNCHANGED Path!pathVars
<1>1. /\ UNCHANGED <<txdesc, txdesc_cons, txdesc_prod, txcmpl, txcmpl_prod, in_flight,
                     tx_skb_store>>
      /\ (npc' = "free" <=> npc = "free") /\ (npc' = "free" => nskb' = nskb)
      /\ TxcmplNext' = TxcmplNext
  BY DEF CleanTxBegin, CleanTxTake, CleanTxEnd, NapiComplete, NapiResume, LinkChange,
         vars, TxcmplNext
<1>2. WaitingSkbs' = WaitingSkbs
  BY <1>1 DEF WaitingSkbs
<1>3. ReportedSkbs' = ReportedSkbs
  BY <1>1 DEF ReportedSkbs
<1> QED
  BY ONLY <1>1, <1>2, <1>3 DEF Path!pathVars

\* Transmitters, hardware and poller together send every accepted packet once
\* and in order, and free each once and only after the hardware has reported
\* it: each of their steps is one of the transmit path or none at all.
THEOREM TxImplementsPath == Spec => ImplementsPath
<1>1. Init => Path!PathInit
  <2> SUFFICES ASSUME Init PROVE Path!PathInit
    OBVIOUS
  <2>1. Dist(txdesc_cons, txdesc_prod) = 0
    BY DEF Init, Dist
  <2>2. WaitingSkbs = <<>>
    BY <2>1 DEF WaitingSkbs
  <2>3. ReportedSkbs = {}
    BY SlotsFacts, HeldEmpty DEF Init, ReportedSkbs, TxcmplNext
  <2> QED
    BY <2>2, <2>3 DEF Init, Path!PathInit
<1>2. IInv /\ IInv' /\ [Next]_vars => [Path!PathNext]_(Path!pathVars)
  <2> SUFFICES ASSUME IInv, IInv', [Next]_vars
               PROVE  Path!PathNext \/ UNCHANGED Path!pathVars
    OBVIOUS
  <2> QED
    BY PublishAccepts, FetchSends, CompleteReports, ClearKeeps, FreeReleases, XmitKeeps,
       OthersKeep DEF Next, XmitStep, NapiStep
<1> QED
  BY <1>1, <1>2, Invariance, PTL DEF Spec, ImplementsPath, Path!PathSpec
=============================================================================
