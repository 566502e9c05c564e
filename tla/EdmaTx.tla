------------------------------- MODULE EdmaTx -------------------------------
(***************************************************************************)
(* The transmit half of the EDMA data plane: edma_if_xmit/edma_ring_xmit,  *)
(* run by the CPUs that transmit, edma_clean_tx and the queue restart of   *)
(* edma_napi, run by the CPU that polls, and the EDMA hardware, on one     *)
(* TXDESC ring and its TXCMPL ring.                                        *)
(*                                                                         *)
(* A transmitter publishes an skb in the TXDESC ring and keeps it in       *)
(* tx_skb_store; the store index travels in the Tx preheader ("opaque") of *)
(* the skb and comes back in the TXCMPL descriptor, by which the poller    *)
(* finds the skb, unmaps it and frees it.  The transmitters exclude each   *)
(* other with tx_lock; the poller takes no lock at all.                    *)
(***************************************************************************)
EXTENDS Ring

CONSTANTS
  Skbs,         \* socket buffers
  Netdevs,      \* net devices (ports) that share the ring
  NumTxQueues,  \* Tx queues of a net device, NSS_DP_HAL_CPU_NUM in the driver
  NULL

\* A transmitting context.  The stack holds the lock of a Tx queue while it
\* calls ndo_start_xmit, so there is at most one such call per queue.
Txqs == Netdevs \X (0 .. NumTxQueues - 1)

ASSUME TxAssumption == NumTxQueues \in Nat \ {0} /\ NULL \notin Skbs \cup Txqs

\* netif_stop_queue and netif_start_queue act on Tx queue 0 of the device.
Queue0(q) == q[2] = 0

\* Preheaders are counted up to this cap: one is right, two are too many.
MaxPreheaders == 2

VARIABLES
  txdesc_prod, txdesc_cons,  \* TXDESC producer and consumer registers
  txdesc,                    \* skb that each TXDESC descriptor points to
  txcmpl_prod, txcmpl_cons,  \* TXCMPL producer and consumer registers
  txcmpl,                    \* store index in each TXCMPL descriptor
  tx_skb_store,              \* skb kept for each store index
  opaque,                    \* store index written in the preheader of an skb
  preheaders,                \* Tx preheaders pushed on an skb
  mapped,                    \* skbs mapped for DMA
  owner,                     \* who owns an skb: "free", "stack" or "driver"
  in_flight,                 \* skbs fetched by the hardware, not completed
  stopped,                   \* net devices whose Tx queue 0 is stopped
  carrier,                   \* net devices with the carrier on
  tx_lock,                   \* Tx queue that holds txdesc_ring->tx_lock
  hw_next_to_use,            \* producer index read by the holder of tx_lock
  xpc, xskb,                 \* per Tx queue: place in the code and skb
  npc, nprod, ncons, nskb,   \* poller: place in edma_napi, prod_idx,
  nstore, nresume            \*   cons_idx, skb, store_index, queues to check

txdescVars == <<txdesc_prod, txdesc_cons, txdesc>>
txcmplVars == <<txcmpl_prod, txcmpl_cons, txcmpl>>
hwVars     == <<txdescVars, txcmplVars, in_flight>>
skbVars    == <<owner, opaque, preheaders>>
queueVars  == <<stopped, carrier>>
lockVars   == <<tx_lock, hw_next_to_use>>
xmitVars   == <<lockVars, xpc, xskb>>
napiVars   == <<npc, nprod, ncons, nskb, nstore, nresume>>
vars == <<hwVars, tx_skb_store, skbVars, mapped, queueVars, xmitVars, napiVars>>

XmitPcs == {"idle", "requeued", "entry", "read", "push", "map", "publish",
            "busy"}
NapiPcs == {"idle", "take", "clear", "free", "resume"}

Init ==
  /\ txdesc_prod = 0 /\ txdesc_cons = 0
  /\ txdesc = [i \in Slots |-> NULL]
  /\ txcmpl_prod = 0 /\ txcmpl_cons = 0
  /\ txcmpl = [i \in Slots |-> 0]
  /\ in_flight = {}
  /\ tx_skb_store = [i \in Slots |-> NULL]
  /\ owner = [s \in Skbs |-> "free"]
  /\ opaque = [s \in Skbs |-> 0]
  /\ preheaders = [s \in Skbs |-> 0]
  /\ mapped = {}
  /\ stopped = {} /\ carrier = Netdevs
  /\ tx_lock = NULL /\ hw_next_to_use = 0
  /\ xpc = [q \in Txqs |-> "idle"]
  /\ xskb = [q \in Txqs |-> NULL]
  /\ npc = "idle" /\ nprod = 0 /\ ncons = 0 /\ nskb = NULL /\ nstore = 0
  /\ nresume = {}

-----------------------------------------------------------------------------
(* The transmitters. *)

\* dev_kfree_skb_any: the skb goes back to the allocator, contents and all.
FreeSkb(s) ==
  /\ owner' = [owner EXCEPT ![s] = "free"]
  /\ opaque' = [opaque EXCEPT ![s] = 0]
  /\ preheaders' = [preheaders EXCEPT ![s] = 0]

\* spin_unlock_bh(&txdesc_ring->tx_lock), the last step of edma_ring_xmit.
Unlock == tx_lock' = NULL /\ hw_next_to_use' = 0

\* A queue that the stack may transmit on.
Runs(q) == Queue0(q) => q[1] \notin stopped

\* The stack transmits a new skb.
XmitNew(q, s) ==
  /\ xpc[q] = "idle" /\ Runs(q)
  /\ owner[s] = "free"
  /\ owner' = [owner EXCEPT ![s] = "driver"]
  /\ xskb' = [xskb EXCEPT ![q] = s]
  /\ xpc' = [xpc EXCEPT ![q] = "entry"]
  /\ UNCHANGED <<hwVars, tx_skb_store, opaque, preheaders, mapped, queueVars,
                 lockVars, napiVars>>

\* The stack transmits again the skb for which it got NETDEV_TX_BUSY.
XmitAgain(q) ==
  /\ xpc[q] = "requeued" /\ Runs(q)
  /\ owner' = [owner EXCEPT ![xskb[q]] = "driver"]
  /\ xpc' = [xpc EXCEPT ![q] = "entry"]
  /\ UNCHANGED <<hwVars, tx_skb_store, opaque, preheaders, mapped, queueVars,
                 lockVars, xskb, napiVars>>

\* edma_if_xmit drops an skb that is too short or not linear, or that cannot
\* be expanded to make room for the preheader.
XmitDrop(q) ==
  /\ xpc[q] = "entry"
  /\ FreeSkb(xskb[q])
  /\ xskb' = [xskb EXCEPT ![q] = NULL]
  /\ xpc' = [xpc EXCEPT ![q] = "idle"]
  /\ UNCHANGED <<hwVars, tx_skb_store, mapped, queueVars, lockVars, napiVars>>

\* edma_ring_xmit takes the lock of the ring ...
XmitLock(q) ==
  /\ xpc[q] = "entry" /\ tx_lock = NULL
  /\ tx_lock' = q
  /\ xpc' = [xpc EXCEPT ![q] = "read"]
  /\ UNCHANGED <<hwVars, tx_skb_store, skbVars, mapped, queueVars,
                 hw_next_to_use, xskb, napiVars>>

\* Mutant: the return for a full ring forgets the lock.
XmitReadIndicesKeepsLock(q) ==
  /\ xpc[q] = "read"
  /\ \/ /\ Full(txdesc_cons, txdesc_prod)
        /\ xpc' = [xpc EXCEPT ![q] = "busy"]
        /\ UNCHANGED lockVars
     \/ /\ ~Full(txdesc_cons, txdesc_prod)
        /\ hw_next_to_use' = txdesc_prod
        /\ xpc' = [xpc EXCEPT ![q] = "push"]
        /\ UNCHANGED tx_lock
  /\ UNCHANGED <<hwVars, tx_skb_store, skbVars, mapped, queueVars, xskb,
                 napiVars>>

\* ... reads the two indices of the ring and gives up if it is full.
XmitReadIndices(q) ==
  /\ xpc[q] = "read"
  /\ \/ /\ Full(txdesc_cons, txdesc_prod)
        /\ xpc' = [xpc EXCEPT ![q] = "busy"]
        /\ Unlock
     \/ /\ ~Full(txdesc_cons, txdesc_prod)
        /\ hw_next_to_use' = txdesc_prod
        /\ xpc' = [xpc EXCEPT ![q] = "push"]
        /\ UNCHANGED tx_lock
  /\ UNCHANGED <<hwVars, tx_skb_store, skbVars, mapped, queueVars, xskb,
                 napiVars>>

\* Mutant: the store index is not copied to the preheader.
XmitStoreNoOpaque(q) ==
  /\ xpc[q] = "push"
  /\ preheaders' = [preheaders EXCEPT
       ![xskb[q]] = IF @ < MaxPreheaders THEN @ + 1 ELSE @]
  /\ \/ /\ tx_skb_store[hw_next_to_use] # NULL
        /\ xpc' = [xpc EXCEPT ![q] = "busy"]
        /\ Unlock
        /\ UNCHANGED tx_skb_store
     \/ /\ tx_skb_store[hw_next_to_use] = NULL
        /\ tx_skb_store' = [tx_skb_store EXCEPT ![hw_next_to_use] = xskb[q]]
        /\ xpc' = [xpc EXCEPT ![q] = "map"]
        /\ UNCHANGED lockVars
  /\ UNCHANGED <<hwVars, owner, opaque, mapped, queueVars, xskb, napiVars>>

\* It pushes the preheader, gives up if the store entry is still in use, and
\* stores the skb and its store index otherwise.
XmitStore(q) ==
  LET s == xskb[q]
      store_index == hw_next_to_use
  IN /\ xpc[q] = "push"
     /\ preheaders' = [preheaders EXCEPT
          ![s] = IF @ < MaxPreheaders THEN @ + 1 ELSE @]
     /\ \/ /\ tx_skb_store[store_index] # NULL
           /\ xpc' = [xpc EXCEPT ![q] = "busy"]
           /\ Unlock
           /\ UNCHANGED <<tx_skb_store, opaque>>
        \/ /\ tx_skb_store[store_index] = NULL
           /\ tx_skb_store' = [tx_skb_store EXCEPT ![store_index] = s]
           /\ opaque' = [opaque EXCEPT ![s] = store_index]
           /\ xpc' = [xpc EXCEPT ![q] = "map"]
           /\ UNCHANGED lockVars
     /\ UNCHANGED <<hwVars, owner, mapped, queueVars, xskb, napiVars>>

\* dma_map_single succeeds and the descriptor is filled in.
XmitMap(q) ==
  /\ xpc[q] = "map"
  /\ txdesc' = [txdesc EXCEPT ![hw_next_to_use] = xskb[q]]
  /\ mapped' = mapped \cup {xskb[q]}
  /\ xpc' = [xpc EXCEPT ![q] = "publish"]
  /\ UNCHANGED <<txdesc_prod, txdesc_cons, txcmplVars, in_flight, tx_skb_store,
                 skbVars, queueVars, lockVars, xskb, napiVars>>

\* Mutant: the store keeps the skb that is dropped.
XmitMapFailsKeepsEntry(q) ==
  /\ xpc[q] = "map"
  /\ txdesc' = [txdesc EXCEPT ![hw_next_to_use] = NULL]
  /\ FreeSkb(xskb[q])
  /\ xskb' = [xskb EXCEPT ![q] = NULL]
  /\ xpc' = [xpc EXCEPT ![q] = "idle"]
  /\ Unlock
  /\ UNCHANGED <<txdesc_prod, txdesc_cons, txcmplVars, in_flight, tx_skb_store,
                 mapped, queueVars, napiVars>>

\* dma_map_single fails: the skb is dropped and the call reports success.
XmitMapFails(q) ==
  /\ xpc[q] = "map"
  /\ txdesc' = [txdesc EXCEPT ![hw_next_to_use] = NULL]
  /\ FreeSkb(xskb[q])
  /\ tx_skb_store' = [tx_skb_store EXCEPT ![hw_next_to_use] = NULL]
  /\ xskb' = [xskb EXCEPT ![q] = NULL]
  /\ xpc' = [xpc EXCEPT ![q] = "idle"]
  /\ Unlock
  /\ UNCHANGED <<txdesc_prod, txdesc_cons, txcmplVars, in_flight, mapped,
                 queueVars, napiVars>>

\* The producer register is advanced: the hardware owns the descriptor.
XmitPublish(q) ==
  /\ xpc[q] = "publish"
  /\ txdesc_prod' = NextIdx(hw_next_to_use)
  /\ xskb' = [xskb EXCEPT ![q] = NULL]
  /\ xpc' = [xpc EXCEPT ![q] = "idle"]
  /\ Unlock
  /\ UNCHANGED <<txdesc_cons, txdesc, txcmplVars, in_flight, tx_skb_store,
                 skbVars, mapped, queueVars, napiVars>>

\* Back in edma_if_xmit, without the lock: stop the queue and return
\* NETDEV_TX_BUSY, upon which the stack takes the skb back.
XmitStopQueue(q) ==
  /\ xpc[q] = "busy"
  /\ stopped' = stopped \cup {q[1]}
  /\ owner' = [owner EXCEPT ![xskb[q]] = "stack"]
  /\ xpc' = [xpc EXCEPT ![q] = "requeued"]
  /\ UNCHANGED <<hwVars, tx_skb_store, opaque, preheaders, mapped, carrier,
                 lockVars, xskb, napiVars>>

\* What happens in edma_ring_xmit once the lock is taken, up to the return of
\* edma_if_xmit.
XmitStep(q) ==
  \/ XmitReadIndices(q) \/ XmitStore(q) \/ XmitMap(q) \/ XmitMapFails(q)
  \/ XmitPublish(q) \/ XmitStopQueue(q)

-----------------------------------------------------------------------------
(* The poller. *)

\* edma_napi runs, because of a Tx completion or of anything else that
\* interrupts (received packets, consumed Rx buffers), and edma_clean_tx
\* reads the two indices of the TXCMPL ring.
CleanTxBegin ==
  /\ npc = "idle"
  /\ nprod' = txcmpl_prod
  /\ ncons' = txcmpl_cons
  /\ npc' = "take"
  /\ UNCHANGED <<hwVars, tx_skb_store, skbVars, mapped, queueVars, xmitVars,
                 nskb, nstore, nresume>>

\* It takes the skb of the next completion from the store ...
CleanTxTake ==
  /\ npc = "take" /\ ncons # nprod
  /\ nstore' = txcmpl[ncons]
  /\ nskb' = tx_skb_store[txcmpl[ncons]]
  /\ npc' = "clear"
  /\ UNCHANGED <<hwVars, tx_skb_store, skbVars, mapped, queueVars, xmitVars,
                 nprod, ncons, nresume>>

\* ... empties the store entry ...
CleanTxClear ==
  /\ npc = "clear"
  /\ tx_skb_store' = [tx_skb_store EXCEPT ![nstore] = NULL]
  /\ npc' = "free"
  /\ UNCHANGED <<hwVars, skbVars, mapped, queueVars, xmitVars, nprod, ncons,
                 nskb, nstore, nresume>>

\* ... unmaps and frees the skb, unless the entry was empty ("Invalid skb"),
\* and goes on with the next completion.
CleanTxFree ==
  /\ npc = "free"
  /\ IF nskb = NULL
       THEN UNCHANGED <<skbVars, mapped>>
       ELSE FreeSkb(nskb) /\ mapped' = mapped \ {nskb}
  /\ ncons' = NextIdx(ncons)
  /\ npc' = "take" /\ nskb' = NULL /\ nstore' = 0
  /\ UNCHANGED <<hwVars, tx_skb_store, queueVars, xmitVars, nprod, nresume>>

\* Mutant: the consumer register is not written.
CleanTxEndNoUpdate ==
  /\ npc = "take" /\ ncons = nprod
  /\ nresume' = Netdevs
  /\ npc' = "resume" /\ nprod' = 0 /\ ncons' = 0
  /\ UNCHANGED <<hwVars, tx_skb_store, skbVars, mapped, queueVars, xmitVars,
                 nskb, nstore>>

\* All the completions seen are consumed: the consumer register is written
\* (with the value it has if there was none), and edma_napi goes on to the
\* Tx queues.
CleanTxEnd ==
  /\ npc = "take" /\ ncons = nprod
  /\ txcmpl_cons' = ncons
  /\ nresume' = Netdevs
  /\ npc' = "resume" /\ nprod' = 0 /\ ncons' = 0
  /\ UNCHANGED <<txdescVars, txcmpl_prod, txcmpl, in_flight, tx_skb_store,
                 skbVars, mapped, queueVars, xmitVars, nskb, nstore>>

\* Mutant: a stopped queue is started only when the carrier is off.
NapiResumeInverted(d) ==
  /\ npc = "resume" /\ d \in nresume
  /\ stopped' = IF d \notin carrier THEN stopped \ {d} ELSE stopped
  /\ nresume' = nresume \ {d}
  /\ UNCHANGED <<hwVars, tx_skb_store, skbVars, mapped, carrier, xmitVars, npc,
                 nprod, ncons, nskb, nstore>>

\* "Resume netdev Tx queue": a stopped queue of a device with the carrier on
\* is started, one device after the other.
NapiResume(d) ==
  /\ npc = "resume" /\ d \in nresume
  /\ stopped' = IF d \in carrier THEN stopped \ {d} ELSE stopped
  /\ nresume' = nresume \ {d}
  /\ UNCHANGED <<hwVars, tx_skb_store, skbVars, mapped, carrier, xmitVars, npc,
                 nprod, ncons, nskb, nstore>>

\* The poll is over.
NapiComplete ==
  /\ npc = "resume" /\ nresume = {}
  /\ npc' = "idle"
  /\ UNCHANGED <<hwVars, tx_skb_store, skbVars, mapped, queueVars, xmitVars,
                 nprod, ncons, nskb, nstore, nresume>>

NapiStep ==
  \/ CleanTxTake \/ CleanTxClear \/ CleanTxFree \/ CleanTxEnd
  \/ (\E d \in Netdevs : NapiResume(d))
  \/ NapiComplete

-----------------------------------------------------------------------------
(* The hardware and the link, as the driver uses them. *)

\* The hardware fetches the next descriptor and advances its index.
HwFetch ==
  /\ txdesc_cons # txdesc_prod
  /\ in_flight' = in_flight \cup {txdesc[txdesc_cons]}
  /\ txdesc_cons' = NextIdx(txdesc_cons)
  /\ UNCHANGED <<txdesc_prod, txdesc, txcmplVars, tx_skb_store, skbVars,
                 mapped, queueVars, xmitVars, napiVars>>

\* The hardware is done with a packet, in any order, and reports the store
\* index it found in the preheader.  It waits while the TXCMPL ring is full.
HwComplete(s) ==
  /\ s \in in_flight
  /\ ~Full(txcmpl_cons, txcmpl_prod)
  /\ txcmpl' = [txcmpl EXCEPT ![txcmpl_prod] = opaque[s]]
  /\ txcmpl_prod' = NextIdx(txcmpl_prod)
  /\ in_flight' = in_flight \ {s}
  /\ UNCHANGED <<txdescVars, txcmpl_cons, tx_skb_store, skbVars, mapped,
                 queueVars, xmitVars, napiVars>>

\* nss_dp_adjust_link switches the carrier of an open device.
LinkChange(d) ==
  /\ carrier' = IF d \in carrier THEN carrier \ {d} ELSE carrier \cup {d}
  /\ UNCHANGED <<hwVars, tx_skb_store, skbVars, mapped, stopped, xmitVars,
                 napiVars>>

Next ==
  \/ \E q \in Txqs : \/ \E s \in Skbs : XmitNew(q, s)
                     \/ XmitAgain(q)
                     \/ XmitLock(q)
                     \/ XmitDrop(q)
                     \/ XmitStep(q)
  \/ CleanTxBegin
  \/ NapiStep
  \/ HwFetch
  \/ \E s \in Skbs : HwComplete(s)
  \/ \E d \in Netdevs : LinkChange(d)

Spec == Init /\ [][Next]_vars

(* Fairness.  A transmitter runs with bottom halves disabled and a poll is a *)
(* softirq: neither stops halfway.  Spinlocks are granted in turn, so a      *)
(* transmitter that waits for a lock that is released again and again gets   *)
(* it (strong fairness).  The hardware fetches what is published and reports *)
(* every packet when the TXCMPL ring has room time and again.  A TXCMPL ring *)
(* that is not empty interrupts, and the interrupt schedules the poll.       *)
(* Nothing is assumed of the stack, which may have nothing to send.          *)
Fairness ==
  /\ \A q \in Txqs : WF_vars(XmitStep(q)) /\ SF_vars(XmitLock(q))
  /\ WF_vars(CleanTxBegin /\ txcmpl_cons # txcmpl_prod)
  /\ WF_vars(NapiStep)
  /\ WF_vars(HwFetch)
  /\ \A s \in Skbs : SF_vars(HwComplete(s))

FairSpec == Spec /\ Fairness

-----------------------------------------------------------------------------
(* Properties. *)

\* Types of the variables.
TypeOK ==
  /\ txdesc_prod \in Slots /\ txdesc_cons \in Slots
  /\ txdesc \in [Slots -> Skbs \cup {NULL}]
  /\ txcmpl_prod \in Slots /\ txcmpl_cons \in Slots
  /\ txcmpl \in [Slots -> Slots]
  /\ tx_skb_store \in [Slots -> Skbs \cup {NULL}]
  /\ opaque \in [Skbs -> Slots]
  /\ preheaders \in [Skbs -> 0 .. MaxPreheaders]
  /\ mapped \subseteq Skbs
  /\ owner \in [Skbs -> {"free", "stack", "driver"}]
  /\ in_flight \subseteq Skbs
  /\ stopped \subseteq Netdevs /\ carrier \subseteq Netdevs
  /\ tx_lock \in Txqs \cup {NULL} /\ hw_next_to_use \in Slots
  /\ xpc \in [Txqs -> XmitPcs]
  /\ xskb \in [Txqs -> Skbs \cup {NULL}]
  /\ npc \in NapiPcs /\ nprod \in Slots /\ ncons \in Slots
  /\ nskb \in Skbs \cup {NULL} /\ nstore \in Slots
  /\ nresume \subseteq Netdevs

\* First TXCMPL entry that the poller has not consumed.
TxcmplNext ==
  CASE npc \in {"idle", "resume"} -> txcmpl_cons
    [] npc = "free"               -> NextIdx(ncons)
    [] OTHER                      -> ncons

\* The skbs that the hardware may read.
HwReads ==
  {txdesc[i] : i \in {j \in Slots : Held(txdesc_cons, txdesc_prod, j)}}
    \cup in_flight

\* Places of a transmission in which the skb is in nobody else's hands.
HeldByXmit == {"entry", "read", "push", "busy"}

\* The hardware never reads an skb that is not mapped, or that the driver has
\* freed or given back to the stack, although the poller frees skbs without
\* the lock under which transmitters publish them; and the skb it reads is
\* the one that the store keeps under the index in its preheader.
DmaSafe ==
  \A s \in HwReads : /\ s \in mapped
                     /\ owner[s] = "driver"
                     /\ tx_skb_store[opaque[s]] = s

\* edma_clean_tx never meets a completion without an skb ("Invalid skb"), and
\* no two pending completions are for the same skb, which would be freed
\* twice: each has an entry of its own in the store, with an skb that is
\* mapped and that the hardware no longer reads.
CompletionsValid ==
  \A k \in Slots : Held(TxcmplNext, txcmpl_prod, k) =>
    LET s == tx_skb_store[txcmpl[k]]
    IN /\ s # NULL
       /\ s \in mapped \ HwReads
       /\ owner[s] = "driver" /\ opaque[s] = txcmpl[k]
       /\ \A l \in Slots : Held(TxcmplNext, txcmpl_prod, l) /\ txcmpl[l] = txcmpl[k]
            => l = k

\* The places where the driver keeps an skb: store entries, transmissions and
\* the poller.
Places(s) ==
  {<<"store", i>> : i \in {j \in Slots : tx_skb_store[j] = s}}
    \cup {<<"xmit", q>> : q \in {r \in Txqs : xskb[r] = s /\ xpc[r] \in HeldByXmit}}
    \cup {<<"poll", 0>> : n \in {m \in {npc} : m = "free" /\ nskb = s}}

\* A transmission has stored the skb and not yet mapped it.
BeingMapped(s) == \E q \in Txqs : xskb[q] = s /\ xpc[q] = "map"

\* No skb is lost or shared: one that the driver owns is in exactly one place,
\* one that it does not own is in none; and an skb is mapped exactly from its
\* descriptor to its release.
SkbAccounting ==
  \A s \in Skbs :
    /\ owner[s] = "driver" <=> Places(s) # {}
    /\ \A x, y \in Places(s) : x = y
    /\ s \in mapped <=> /\ <<"poll", 0>> \in Places(s)
                           \/ \E i \in Slots : <<"store", i>> \in Places(s)
                        /\ ~BeingMapped(s)

\* The preheader tells the hardware where the packet goes; edma_ring_xmit means
\* to push one ("Make room for Tx preheader") and describes to the hardware a
\* buffer with one.
OnePreheader == \A s \in HwReads : preheaders[s] = 1

\* Every call of ndo_start_xmit returns: each path out of edma_ring_xmit
\* releases the lock that the others wait for.
XmitReturns == \A q \in Txqs : xpc[q] = "entry" ~> xpc[q] \in {"idle", "requeued"}

\* The driver does not keep an skb for ever: what it accepts is sent, reported and
\* freed in the end, also behind a full TXCMPL ring and with the link down, and
\* what it does not accept it frees or hands back.
SkbsAreReleased == \A s \in Skbs : owner[s] = "driver" ~> owner[s] # "driver"

\* The driver has given the hardware work of which the poller will hear.
WorkPending == HwReads # {} \/ txcmpl_cons # txcmpl_prod

\* A stopped queue is resumed ("Resume netdev Tx queue") if the link stays up
\* and a completion is still to come when it is stopped.
ResumedWhileWorkPending ==
  \A d \in Netdevs : d \in stopped /\ d \in carrier /\ WorkPending
                       ~> d \notin stopped \/ d \notin carrier

-----------------------------------------------------------------------------
(* The rings and the store implement a transmit path. *)

\* Published descriptors in ring order.
WaitingSkbs ==
  [k \in 1 .. Dist(txdesc_cons, txdesc_prod) |->
     txdesc[(txdesc_cons + k - 1) % RingSize]]

\* Skbs with a completion that is not consumed, or in the poller's hands.
ReportedSkbs ==
  {tx_skb_store[txcmpl[k]] : k \in {l \in Slots : Held(TxcmplNext, txcmpl_prod, l)}}
    \cup (IF npc = "free" THEN {nskb} ELSE {})

Path == INSTANCE TxPath WITH
  Depth <- RingSize - 1,
  waiting <- WaitingSkbs,
  sending <- in_flight,
  reported <- ReportedSkbs

\* edma_ring_xmit, edma_clean_tx and the hardware together keep the order in
\* which skbs are accepted, send each once, and free each once and only after
\* the hardware has reported it.
ImplementsPath == Path!PathSpec
=============================================================================
