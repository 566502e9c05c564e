------------------------------- MODULE EdmaRx -------------------------------
(***************************************************************************)
(* The receive half of the EDMA data plane: edma_alloc_rx_buffer and       *)
(* edma_clean_rx, run by the one poller (edma_napi), and the EDMA hardware.*)
(*                                                                         *)
(* The driver posts empty buffers in the RXFILL rings; the hardware takes  *)
(* them, writes packets into them and reports them in the RXDESC rings,    *)
(* each of which is fed by one RXFILL ring.  All rings share rx_skb_store: *)
(* the skb of a buffer is kept there under the number of its RXFILL        *)
(* descriptor, which the driver writes in the buffer ("opaque").           *)
(***************************************************************************)
EXTENDS Ring

CONSTANTS
  Skbs,        \* socket buffers
  NumRxdesc,   \* rxdesc_rings
  NumRxfill,   \* rxfill_rings
  Budget,      \* packets that one call of edma_clean_rx may take
  NULL

ASSUME RxAssumption == /\ NumRxdesc \in Nat \ {0} /\ NumRxfill \in Nat \ {0}
                       /\ Budget \in Nat \ {0}
                       /\ NULL \notin Skbs

RxdescRings == 0 .. NumRxdesc - 1
RxfillRings == 0 .. NumRxfill - 1

\* "Share the fill rings across descriptor rings."
RxfillOf(r) == r % NumRxfill

VARIABLES
  rxfill_prod, rxfill_cons,  \* registers of each RXFILL ring
  rxfill,                    \* buffer in each RXFILL descriptor
  rxdesc_prod, rxdesc_cons,  \* registers of each RXDESC ring
  rxdesc,                    \* buffer in each RXDESC descriptor
  hw_bufs,                   \* per RXFILL ring: buffers the hardware has taken
  enabled,                   \* the rings are enabled
  rx_skb_store,              \* skb kept for each store index
  opaque,                    \* store index written in the buffer of an skb
  mapped,                    \* skbs mapped for DMA
  owner,                     \* who owns an skb: "free", "stack" or "driver"
  npc,                       \* poller: place in the code
  nring, ncons, nwork, nskb, \*   edma_clean_rx: ring, cons_idx, work_done, skb
  afill, anext, acons        \*   edma_alloc_rx_buffer: ring, next, cons

rxfillVars == <<rxfill_prod, rxfill_cons, rxfill>>
rxdescVars == <<rxdesc_prod, rxdesc_cons, rxdesc>>
hwVars     == <<rxfillVars, rxdescVars, hw_bufs, enabled>>
skbVars    == <<rx_skb_store, opaque, mapped, owner>>
cleanVars  == <<nring, ncons, nwork, nskb>>
allocVars  == <<afill, anext, acons>>
vars == <<hwVars, skbVars, npc, cleanVars, allocVars>>

NapiPcs == {"idle", "rx", "packet", "refill", "alloc", "rxend"}

(* edma_configure_rings: the stores are empty, and a buffer allocation for *)
(* each RXFILL ring comes next.  The rings are enabled after that.         *)
Init ==
  /\ rxfill_prod = [f \in RxfillRings |-> 0]
  /\ rxfill_cons = [f \in RxfillRings |-> 0]
  /\ rxfill = [f \in RxfillRings |-> [i \in Slots |-> NULL]]
  /\ rxdesc_prod = [r \in RxdescRings |-> 0]
  /\ rxdesc_cons = [r \in RxdescRings |-> 0]
  /\ rxdesc = [r \in RxdescRings |-> [i \in Slots |-> NULL]]
  /\ hw_bufs = [f \in RxfillRings |-> {}]
  /\ enabled = FALSE
  /\ rx_skb_store = [i \in Slots |-> NULL]
  /\ opaque = [s \in Skbs |-> 0]
  /\ mapped = {}
  /\ owner = [s \in Skbs |-> "free"]
  /\ npc = "refill"
  /\ nring = NumRxdesc /\ ncons = 0 /\ nwork = 0 /\ nskb = NULL
  /\ afill = 0 /\ anext = 0 /\ acons = 0

-----------------------------------------------------------------------------
(* edma_clean_rx *)

\* edma_clean_rx is called for ring r and reads its consumer index.
EnterCleanRx(r) ==
  /\ npc' = "rx"
  /\ nring' = r /\ ncons' = rxdesc_cons[r] /\ nwork' = 0

\* edma_napi runs, beginning with the first RXDESC ring.
NapiBegin ==
  /\ npc = "idle"
  /\ EnterCleanRx(0)
  /\ UNCHANGED <<hwVars, skbVars, nskb, allocVars>>

\* Mutant: the store entry is not emptied.
CleanRxTakeKeepsEntry ==
  /\ npc = "rx"
  /\ ncons # rxdesc_prod[nring] /\ nwork < Budget
  /\ mapped' = mapped \ {rxdesc[nring][ncons]}
  /\ nskb' = rx_skb_store[opaque[rxdesc[nring][ncons]]]
  /\ npc' = "packet"
  /\ UNCHANGED <<hwVars, rx_skb_store, opaque, owner, nring, ncons, nwork,
                 allocVars>>

\* The ring has a packet and there is budget left: the buffer is unmapped and
\* its skb taken out of the store.
CleanRxTake ==
  LET buf == rxdesc[nring][ncons]
      store_index == opaque[buf]
  IN /\ npc = "rx"
     /\ ncons # rxdesc_prod[nring] /\ nwork < Budget
     /\ mapped' = mapped \ {buf}
     /\ nskb' = rx_skb_store[store_index]
     /\ rx_skb_store' = [rx_skb_store EXCEPT ![store_index] = NULL]
     /\ npc' = "packet"
     /\ UNCHANGED <<hwVars, opaque, owner, nring, ncons, nwork,
                    allocVars>>

\* The packet goes to the stack if it comes from the port of a registered net
\* device that is running, and is dropped otherwise, as is an empty store entry.
CleanRxPacket(to) ==
  /\ npc = "packet"
  /\ owner' = IF nskb = NULL THEN owner ELSE [owner EXCEPT ![nskb] = to]
  /\ opaque' = IF nskb = NULL THEN opaque ELSE [opaque EXCEPT ![nskb] = 0]
  /\ ncons' = NextIdx(ncons)
  /\ nwork' = nwork + 1
  /\ nskb' = NULL
  /\ npc' = "rx"
  /\ UNCHANGED <<hwVars, rx_skb_store, mapped, nring, allocVars>>

\* No packet or no budget is left: the RXFILL ring of this ring is refilled.
CleanRxRefill ==
  /\ npc = "rx"
  /\ ncons = rxdesc_prod[nring] \/ nwork >= Budget
  /\ afill' = RxfillOf(nring)
  /\ npc' = "refill"
  /\ UNCHANGED <<hwVars, skbVars, cleanVars, anext, acons>>

\* Mutant: the consumer register is not written.
CleanRxEndNoUpdate ==
  /\ npc = "rxend"
  /\ IF nring + 1 < NumRxdesc
       THEN EnterCleanRx(nring + 1) /\ UNCHANGED afill
       ELSE /\ npc' = "refill" /\ afill' = 0
            /\ nring' = NumRxdesc /\ ncons' = 0 /\ nwork' = 0
  /\ UNCHANGED <<hwVars, skbVars, nskb, anext, acons>>

\* The descriptors are given back to the hardware; edma_napi goes on with the
\* next RXDESC ring, or with its loop over the RXFILL rings after the last.
CleanRxEnd ==
  /\ npc = "rxend"
  /\ rxdesc_cons' = [rxdesc_cons EXCEPT ![nring] = ncons]
  /\ IF nring + 1 < NumRxdesc
       THEN EnterCleanRx(nring + 1) /\ UNCHANGED afill
       ELSE /\ npc' = "refill" /\ afill' = 0
            /\ nring' = NumRxdesc /\ ncons' = 0 /\ nwork' = 0
  /\ UNCHANGED <<rxfillVars, rxdesc_prod, rxdesc, hw_bufs, enabled, skbVars,
                 nskb, anext, acons>>

-----------------------------------------------------------------------------
(* edma_alloc_rx_buffer *)

\* It reads the two indices of the RXFILL ring.
AllocBegin ==
  /\ npc = "refill"
  /\ anext' = rxfill_prod[afill]
  /\ acons' = rxfill_cons[afill]
  /\ npc' = "alloc"
  /\ UNCHANGED <<hwVars, skbVars, cleanVars, afill>>

\* One more buffer is allocated, stored and mapped.
AllocOne(s) ==
  /\ npc = "alloc" /\ ~Full(acons, anext)
  /\ owner[s] = "free" /\ rx_skb_store[anext] = NULL
  /\ owner' = [owner EXCEPT ![s] = "driver"]
  /\ rx_skb_store' = [rx_skb_store EXCEPT ![anext] = s]
  /\ opaque' = [opaque EXCEPT ![s] = anext]
  /\ mapped' = mapped \cup {s}
  /\ rxfill' = [rxfill EXCEPT ![afill][anext] = s]
  /\ anext' = NextIdx(anext)
  /\ UNCHANGED <<rxfill_prod, rxfill_cons, rxdescVars, hw_bufs, enabled,
                 npc, cleanVars, afill, acons>>

\* Mutant: one buffer more than was filled in is published.
AllocReturnOneMore ==
  /\ rxfill_prod' = [rxfill_prod EXCEPT ![afill] = NextIdx(anext)]
  /\ anext' = 0 /\ acons' = 0
  /\ IF nring # NumRxdesc
       THEN npc' = "rxend" /\ afill' = 0 /\ UNCHANGED enabled
       ELSE IF afill + 1 < NumRxfill
         THEN npc' = "refill" /\ afill' = afill + 1 /\ UNCHANGED enabled
         ELSE npc' = "idle" /\ afill' = 0 /\ enabled' = TRUE
  /\ UNCHANGED <<rxfill_cons, rxdescVars, hw_bufs, opaque, cleanVars>>

\* The loop is left: the buffers that were added, if any, are published.  The
\* caller is edma_clean_rx, or else a loop over all RXFILL rings, that of
\* edma_napi or that of edma_configure_rings.
AllocReturn ==
  /\ rxfill_prod' = [rxfill_prod EXCEPT ![afill] = anext]
  /\ anext' = 0 /\ acons' = 0
  /\ IF nring # NumRxdesc
       THEN npc' = "rxend" /\ afill' = 0 /\ UNCHANGED enabled
       ELSE IF afill + 1 < NumRxfill
         THEN npc' = "refill" /\ afill' = afill + 1 /\ UNCHANGED enabled
         ELSE npc' = "idle" /\ afill' = 0 /\ enabled' = TRUE
  /\ UNCHANGED <<rxfill_cons, rxdescVars, hw_bufs, opaque, cleanVars>>

\* No buffer is added: the RXFILL ring is full, there is no memory for an skb,
\* or the store entry is in use, for which the new skb is freed again.
AllocBreak ==
  /\ npc = "alloc"
  /\ AllocReturn
  /\ UNCHANGED <<rxfill, rx_skb_store, mapped, owner>>

\* Mutant: the store keeps the skb that is freed.
AllocMapFailsKeepsEntry ==
  /\ npc = "alloc" /\ ~Full(acons, anext)
  /\ rx_skb_store[anext] = NULL
  /\ rxfill' = [rxfill EXCEPT ![afill][anext] = NULL]
  /\ \E s \in Skbs : /\ owner[s] = "free"
                     /\ rx_skb_store' = [rx_skb_store EXCEPT ![anext] = s]
  /\ AllocReturn
  /\ UNCHANGED <<mapped, owner>>

\* The buffer cannot be mapped: the new skb is freed and its store entry emptied.
AllocMapFails ==
  /\ npc = "alloc" /\ ~Full(acons, anext)
  /\ rx_skb_store[anext] = NULL /\ \E s \in Skbs : owner[s] = "free"
  /\ rxfill' = [rxfill EXCEPT ![afill][anext] = NULL]
  /\ AllocReturn
  /\ UNCHANGED <<rx_skb_store, mapped, owner>>

NapiStep ==
  \/ CleanRxTake \/ CleanRxPacket("stack") \/ CleanRxPacket("free")
  \/ CleanRxRefill \/ CleanRxEnd
  \/ AllocBegin \/ AllocBreak \/ AllocMapFails

-----------------------------------------------------------------------------
(* The hardware, the stack and the net devices, as the driver uses them. *)

\* The hardware takes the next buffer of an RXFILL ring.
HwFetch(f) ==
  /\ enabled
  /\ rxfill_cons[f] # rxfill_prod[f]
  /\ hw_bufs' = [hw_bufs EXCEPT ![f] = @ \cup {rxfill[f][rxfill_cons[f]]}]
  /\ rxfill_cons' = [rxfill_cons EXCEPT ![f] = NextIdx(@)]
  /\ UNCHANGED <<rxfill_prod, rxfill, rxdescVars, enabled, skbVars,
                 npc, cleanVars, allocVars>>

\* It has written a packet into a buffer and reports it in an RXDESC ring that
\* is not full.
HwReceive(r, s) ==
  /\ s \in hw_bufs[RxfillOf(r)]
  /\ ~Full(rxdesc_cons[r], rxdesc_prod[r])
  /\ hw_bufs' = [hw_bufs EXCEPT ![RxfillOf(r)] = @ \ {s}]
  /\ rxdesc' = [rxdesc EXCEPT ![r][rxdesc_prod[r]] = s]
  /\ rxdesc_prod' = [rxdesc_prod EXCEPT ![r] = NextIdx(@)]
  /\ UNCHANGED <<rxfillVars, rxdesc_cons, enabled, rx_skb_store, opaque,
                 mapped, owner, npc, cleanVars, allocVars>>

\* The stack is done with a packet.
StackFree(s) ==
  /\ owner[s] = "stack"
  /\ owner' = [owner EXCEPT ![s] = "free"]
  /\ UNCHANGED <<hwVars, rx_skb_store, opaque, mapped, npc,
                 cleanVars, allocVars>>

Next ==
  \/ NapiBegin
  \/ NapiStep
  \/ \E s \in Skbs : AllocOne(s)
  \/ \E f \in RxfillRings : HwFetch(f)
  \/ \E r \in RxdescRings, s \in Skbs : HwReceive(r, s)
  \/ \E s \in Skbs : StackFree(s)

Spec == Init /\ [][Next]_vars

\* An interrupt is due: a packet is waiting, or an RXFILL ring is empty.
InterruptDue ==
  \/ \E r \in RxdescRings : rxdesc_cons[r] # rxdesc_prod[r]
  \/ \E f \in RxfillRings : rxfill_cons[f] = rxfill_prod[f]

(* Fairness.  A poll is a softirq and does not stop halfway, and a poll     *)
(* follows an interrupt.  The hardware takes the buffers that are posted.   *)
(* Memory is not exhausted for ever: an allocation that is tried again and  *)
(* again while a buffer is free succeeds in the end, and the stack frees    *)
(* the packets that it is given.  No packet has to come.                    *)
Fairness ==
  /\ WF_vars(NapiBegin /\ InterruptDue)
  /\ WF_vars(NapiStep \/ \E s \in Skbs : AllocOne(s))
  /\ SF_vars(\E s \in Skbs : AllocOne(s))
  /\ \A f \in RxfillRings : WF_vars(HwFetch(f))
  /\ \A s \in Skbs : WF_vars(StackFree(s))

FairSpec == Spec /\ Fairness

-----------------------------------------------------------------------------
(* Properties. *)

\* Types of the variables.
TypeOK ==
  /\ rxfill_prod \in [RxfillRings -> Slots] /\ rxfill_cons \in [RxfillRings -> Slots]
  /\ rxfill \in [RxfillRings -> [Slots -> Skbs \cup {NULL}]]
  /\ rxdesc_prod \in [RxdescRings -> Slots] /\ rxdesc_cons \in [RxdescRings -> Slots]
  /\ rxdesc \in [RxdescRings -> [Slots -> Skbs \cup {NULL}]]
  /\ hw_bufs \in [RxfillRings -> SUBSET Skbs]
  /\ enabled \in BOOLEAN
  /\ rx_skb_store \in [Slots -> Skbs \cup {NULL}]
  /\ opaque \in [Skbs -> Slots]
  /\ mapped \subseteq Skbs
  /\ owner \in [Skbs -> {"free", "stack", "driver"}]
  /\ npc \in NapiPcs
  /\ nring \in RxdescRings \cup {NumRxdesc} /\ ncons \in Slots
  /\ nwork \in 0 .. Budget /\ nskb \in Skbs \cup {NULL}
  /\ afill \in RxfillRings /\ anext \in Slots /\ acons \in Slots

\* First RXDESC entry of ring r that the poller has not taken.
RxdescNext(r) ==
  IF npc # "idle" /\ nring = r
    THEN IF npc = "packet" THEN NextIdx(ncons) ELSE ncons
    ELSE rxdesc_cons[r]

\* End of the descriptors of RXFILL ring f that are filled in, published or not.
RxfillEnd(f) == IF npc = "alloc" /\ afill = f THEN anext ELSE rxfill_prod[f]

\* The buffers of RXFILL ring f that the hardware may write.
Posted(f) ==
  {rxfill[f][i] : i \in {j \in Slots : Held(rxfill_cons[f], rxfill_prod[f], j)}}
    \cup hw_bufs[f]

HwWrites == UNION {Posted(f) : f \in RxfillRings}

\* Descriptors with a packet that the poller has not taken.
PendingRxdescs ==
  {x \in RxdescRings \X Slots : Held(RxdescNext(x[1]), rxdesc_prod[x[1]], x[2])}

\* Where the buffer of an skb is: in an RXFILL ring, in the hardware, in an
\* RXDESC ring or in the hands of the poller.
Places(s) ==
  {<<"rxfill", x>> : x \in {y \in RxfillRings \X Slots :
      rxfill[y[1]][y[2]] = s /\ Held(rxfill_cons[y[1]], RxfillEnd(y[1]), y[2])}}
    \cup {<<"hardware", f>> : f \in {g \in RxfillRings : s \in hw_bufs[g]}}
    \cup {<<"rxdesc", x>> : x \in {y \in PendingRxdescs : rxdesc[y[1]][y[2]] = s}}
    \cup {<<"poller", x>> : x \in {y \in {npc} : y = "packet" /\ nskb = s}}

\* The hardware never writes a packet into memory that the driver has unmapped,
\* freed or given to the stack, however far the hardware runs ahead of the
\* indices that the poller has read.
DmaSafe ==
  \A s \in HwWrites : s \in mapped /\ owner[s] = "driver"

\* edma_clean_rx finds the skb of every packet it takes ("WARN: empty skb
\* reference in rx_store"), and finds the skb whose buffer holds the packet:
\* each reported buffer is in the store under the index written in it, also
\* when several RXFILL rings share the store.
ReceivedValid ==
  \A x \in PendingRxdescs :
    LET s == rxdesc[x[1]][x[2]]
    IN s # NULL /\ s \in mapped \ HwWrites /\ rx_skb_store[opaque[s]] = s

\* No buffer is lost, shared or kept after its release: one that the driver
\* owns is in exactly one place, one that it does not own is in none, and the
\* store has the skbs that are mapped and no others, so that no store entry is
\* blocked by a buffer that never comes back.  All indices stay in the rings.
BuffersAccounted ==
  /\ TypeOK
  /\ \A s \in Skbs :
       /\ owner[s] = "driver" <=> Places(s) # {}
       /\ \A x, y \in Places(s) : x = y
       /\ s \in mapped <=> \E i \in Slots : rx_skb_store[i] = s
       /\ s \in mapped <=> Places(s) \notin {{}, {<<"poller", npc>>}}

\* Reception recovers from a lack of memory: an RXFILL ring without a buffer
\* gets one again ("Alloc Rx buffers for one RxFill ring"), if there is memory.
NotStarved == \A f \in RxfillRings : Posted(f) = {} ~> Posted(f) # {}

-----------------------------------------------------------------------------
(* The rings and the store implement a receive path. *)

Path == INSTANCE RxPath WITH
  Rings <- RxdescRings,
  posted <- HwWrites,
  arrived <- [r \in RxdescRings |->
    [k \in 1 .. Dist(RxdescNext(r), rxdesc_prod[r]) |->
       rxdesc[r][(RxdescNext(r) + k - 1) % RingSize]]]

\* edma_alloc_rx_buffer, edma_clean_rx and the hardware together take every
\* packet exactly once and in the order of arrival in its ring, and post a
\* buffer again only after its packet was taken.
KeepsPathSafety == Path!PathSafety

\* They also take every packet in the end, whatever the budget.
ImplementsPath == Path!PathSpec
=============================================================================
