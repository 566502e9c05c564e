----------------------------- MODULE SynDpProofs ----------------------------
(***************************************************************************)
(* Proofs about the Synopsys GMAC data plane: for every ring size, every   *)
(* set of skbs and CPUs and every budget, its rings stay in step with the  *)
(* DMA, only the race of two transmitters for the last descriptor can meet *)
(* a BUG_ON, nothing works on the rings that are cleaned up, and every skb *)
(* is in one place.                                                        *)
(*                                                                         *)
(* A ring of this data plane may be entirely full, so that its two indices *)
(* do not say how many descriptors are in use: the counter does.           *)
(***************************************************************************)
EXTENDS SynDp, RingTheorems

(* The shape of a ring.  The DMA has given back the descriptors in use up   *)
(* to the one it looks at, or all of them.                                  *)
RingShape(desc, list, first, next, busy, cur) ==
  /\ next = Wrapped(first + busy)
  /\ \A i \in Slots : desc[i] # "empty" <=> InUse(first, busy, i)
  /\ \A i \in Slots : InUse(first, busy, i) => list[i] # NULL
  /\ desc[cur] = "dma" =>
       \A i \in Slots : desc[i] = "dma" <=> /\ InUse(first, busy, i)
                                            /\ Dist(first, cur) <= Dist(first, i)
  /\ desc[cur] # "dma" => cur = next /\ \A i \in Slots : desc[i] # "dma"

TxShape ==
  adm # "down" =>
    RingShape(tx_desc, tx_skb_list, tx_busy, tx_next, busy_tx_desc, tx_cur)

RxShape ==
  adm # "down" =>
    RingShape(rx_desc, rx_skb_list, rx_busy, rx_next, busy_rx_desc, rx_cur)

\* What runs at each stage of the configuration task.
AdmInv ==
  /\ adm \in {"down", "closed", "open_napi"} =>
       napi = "off" /\ ~sched /\ npc = "idle"
  /\ adm = "setup" => napi = "off" /\ ~sched /\ npc = "refill"
  /\ adm \in {"open_irq", "open", "close_irq", "close_napi", "close_wait"} =>
       (npc # "idle" => sched)
  /\ dma_on => adm \in {"open_napi", "open_irq", "open"}
  /\ \A c \in CPUs : xpc[c] \in {"queue", "resume"} => adm = "open" \/ direct

\* The loops of the poll stop before they have used up the descriptors counted.
LoopInv ==
  /\ npc = "tx" => 1 <= nbusy /\ nbusy <= busy_tx_desc
  /\ npc = "rx" => 1 <= nbusy /\ nbusy <= busy_rx_desc /\ nbusy <= Budget

\* The descriptors in use of a data plane that is not down.
TxUsed(i) == adm # "down" /\ InUse(tx_busy, busy_tx_desc, i)
RxUsed(i) == adm # "down" /\ InUse(rx_busy, busy_rx_desc, i)

\* The places of an skb: a descriptor of a ring, a transmitter, or the skbs that
\* were forgotten.
Located(s) ==
  \/ \E i \in Slots : TxUsed(i) /\ tx_skb_list[i] = s
  \/ \E i \in Slots : RxUsed(i) /\ rx_skb_list[i] = s
  \/ \E c \in CPUs : xskb[c] = s
  \/ s \in leaked

\* A place has an skb of the driver that has no other place.
XmitInv ==
  /\ \A c \in CPUs : xpc[c] = "queue" <=> xskb[c] # NULL
  /\ \A c \in CPUs : xskb[c] # NULL =>
       owner[xskb[c]] = "driver" /\ xskb[c] \notin leaked
  /\ \A c, d \in CPUs : xskb[c] # NULL /\ xskb[c] = xskb[d] => c = d

TxSkbInv ==
  /\ \A i \in Slots : TxUsed(i) =>
       /\ owner[tx_skb_list[i]] = "driver" /\ tx_skb_list[i] \notin leaked
       /\ \A c \in CPUs : xskb[c] # tx_skb_list[i]
  /\ \A i, j \in Slots :
       TxUsed(i) /\ TxUsed(j) /\ tx_skb_list[i] = tx_skb_list[j] => i = j

RxSkbInv ==
  /\ \A i \in Slots : RxUsed(i) =>
       owner[rx_skb_list[i]] = "driver" /\ rx_skb_list[i] \notin leaked
  /\ \A i, j \in Slots :
       RxUsed(i) /\ RxUsed(j) /\ rx_skb_list[i] = rx_skb_list[j] => i = j

\* No skb of the driver is lost, and those forgotten stay the driver's.
LocatedInv ==
  /\ \A s \in Skbs : owner[s] = "driver" => Located(s)
  /\ \A s \in leaked : owner[s] = "driver"

\* A freed skb is used only by a stack that was told to send it again.
FreedInv == bug = "freed_skb" => \E c \in CPUs : xpc[c] = "requeued"

IInv ==
  /\ TypeOK /\ AdmInv /\ LoopInv
  /\ TxShape /\ RxShape
  /\ XmitInv /\ TxSkbInv /\ RxSkbInv /\ LocatedInv
  /\ OnlyTxRaceBugs /\ FreedInv

-----------------------------------------------------------------------------
(* The steps of a ring. *)

\* The index of RingInStep, without a remainder.
LEMMA WrappedRemainder ==
  ASSUME NEW a \in Slots, NEW k \in 0 .. RingSize
  PROVE  (a + k) % RingSize = Wrapped(a + k)
<1>1. CASE a + k < RingSize
  BY <1>1, RingAssumption DEF Slots, Wrapped
<1>2. CASE a + k >= RingSize
  BY <1>2, RingAssumption DEF Slots, Wrapped
<1> QED
  BY <1>1, <1>2, RingAssumption DEF Slots

\* The next descriptor is in use only when all are.
LEMMA NextInUse ==
  ASSUME NEW a \in Slots, NEW n \in 0 .. RingSize
  PROVE  /\ Wrapped(a + n) \in Slots
         /\ n < RingSize => Dist(a, Wrapped(a + n)) = n
         /\ InUse(a, n, Wrapped(a + n)) <=> n = RingSize
         /\ InUse(a, n, a) <=> n > 0
BY RingAssumption DEF Slots, Wrapped, InUse, Dist

\* Giving the next descriptor to the DMA adds it to those in use.
LEMMA InUseProduce ==
  ASSUME NEW a \in Slots, NEW n \in 0 .. RingSize, n < RingSize, NEW i \in Slots
  PROVE  /\ InUse(a, n + 1, i) <=> InUse(a, n, i) \/ i = Wrapped(a + n)
         /\ NextIdx(Wrapped(a + n)) = Wrapped(a + (n + 1))
BY RingAssumption DEF Slots, Wrapped, InUse, Dist, NextIdx

\* Taking the oldest one back removes it from those in use.
LEMMA InUseConsume ==
  ASSUME NEW a \in Slots, NEW n \in 0 .. RingSize, n > 0, NEW i \in Slots
  PROVE  /\ InUse(NextIdx(a), n - 1, i) <=> InUse(a, n, i) /\ i # a
         /\ Wrapped(NextIdx(a) + (n - 1)) = Wrapped(a + n)
         /\ i # a => Dist(NextIdx(a), i) = Dist(a, i) - 1
BY RingAssumption DEF Slots, Wrapped, InUse, Dist, NextIdx

\* The DMA goes on from a descriptor in use to the next one, or is done.
LEMMA InUseAdvance ==
  ASSUME NEW a \in Slots, NEW n \in 0 .. RingSize, NEW cur \in Slots,
         InUse(a, n, cur), NEW i \in Slots
  PROVE  /\ NextIdx(cur) # Wrapped(a + n) =>
              InUse(a, n, NextIdx(cur)) /\ Dist(a, NextIdx(cur)) = Dist(a, cur) + 1
         /\ NextIdx(cur) = Wrapped(a + n) /\ InUse(a, n, i) =>
              Dist(a, i) <= Dist(a, cur)
         /\ Dist(a, i) = Dist(a, cur) => i = cur
BY RingAssumption DEF Slots, Wrapped, InUse, Dist, NextIdx

DescStates == {"empty", "dma", "done"}

\* A new ring.
LEMMA ShapeEmpty ==
  ASSUME NEW list
  PROVE  RingShape(EmptyRing, list, 0, 0, 0, 0)
BY RingAssumption DEF RingShape, EmptyRing, Slots, Wrapped, InUse, Dist

\* A descriptor that is not empty is met only in a ring with all in use.
LEMMA ShapeFull ==
  ASSUME NEW desc, NEW list, NEW first \in Slots, NEW next \in Slots,
         NEW busy \in 0 .. RingSize, NEW cur \in Slots,
         RingShape(desc, list, first, next, busy, cur)
  PROVE  /\ desc[next] # "empty" <=> busy = RingSize
         /\ busy > 0 => list[first] # NULL /\ InUse(first, busy, first)
BY NextInUse DEF RingShape

\* syn_dp_set_tx_qptr and syn_dp_set_rx_qptr.
LEMMA ShapeProduce ==
  ASSUME NEW S, NEW desc \in [Slots -> DescStates], NEW list \in [Slots -> S],
         NEW first \in Slots, NEW next \in Slots, NEW busy \in 0 .. RingSize,
         NEW cur \in Slots, NEW s, s # NULL,
         RingShape(desc, list, first, next, busy, cur), desc[next] = "empty"
  PROVE  RingShape([desc EXCEPT ![next] = "dma"], [list EXCEPT ![next] = s],
                   first, NextIdx(next), busy + 1, cur)
<1> DEFINE d2 == [desc EXCEPT ![next] = "dma"]
           l2 == [list EXCEPT ![next] = s]
<1>1. busy < RingSize /\ next = Wrapped(first + busy) /\ busy \in Int
  BY ShapeFull, RingAssumption DEF RingShape
<1>2. /\ d2[next] = "dma" /\ l2[next] = s
      /\ \A i \in Slots : i # next => d2[i] = desc[i] /\ l2[i] = list[i]
  OBVIOUS
<1>3. \A i \in Slots : InUse(first, busy + 1, i) <=> InUse(first, busy, i) \/ i = next
  BY <1>1, InUseProduce
<1>4. NextIdx(next) = Wrapped(first + (busy + 1))
  BY <1>1, InUseProduce
<1>5. ~InUse(first, busy, next) /\ Dist(first, next) = busy
  BY <1>1, NextInUse
<1>6. \A i \in Slots : Dist(first, i) \in Int
  BY DistType
<1> HIDE DEF d2, l2
<1>7. CASE desc[cur] = "dma"
  <2>1. InUse(first, busy, cur) /\ cur # next /\ d2[cur] = "dma"
    BY <1>2, <1>5, <1>7 DEF RingShape
  <2>2. Dist(first, cur) <= Dist(first, next)
    BY <2>1, <1>5, <1>6, <1>1 DEF InUse
  <2> QED
    BY <1>2, <1>3, <1>4, <1>5, <1>7, <2>1, <2>2 DEF RingShape, d2, l2
<1>8. CASE desc[cur] # "dma"
  <2>1. cur = next /\ \A i \in Slots : desc[i] # "dma"
    BY <1>8 DEF RingShape
  <2>2. \A i \in Slots : InUse(first, busy, i) => ~(Dist(first, next) <= Dist(first, i))
    BY <1>1, <1>5, <1>6 DEF InUse
  <2>3. Dist(first, next) <= Dist(first, next)
    BY <1>5, <1>1
  <2> QED
    BY <1>2, <1>3, <1>4, <1>5, <2>1, <2>2, <2>3 DEF RingShape, d2, l2
<1> QED
  BY <1>7, <1>8

\* syn_dp_reset_tx_qptr and syn_dp_reset_rx_qptr.
LEMMA ShapeConsume ==
  ASSUME NEW S, NEW desc \in [Slots -> DescStates], NEW list \in [Slots -> S],
         NEW first \in Slots, NEW next \in Slots, NEW busy \in 0 .. RingSize,
         NEW cur \in Slots, busy > 0, desc[first] # "dma",
         RingShape(desc, list, first, next, busy, cur)
  PROVE  RingShape([desc EXCEPT ![first] = "empty"], [list EXCEPT ![first] = NULL],
                   NextIdx(first), next, busy - 1, cur)
<1> DEFINE d2 == [desc EXCEPT ![first] = "empty"]
           l2 == [list EXCEPT ![first] = NULL]
           f2 == NextIdx(first)
<1>1. /\ d2[first] = "empty"
      /\ \A i \in Slots : i # first => d2[i] = desc[i] /\ l2[i] = list[i]
  OBVIOUS
<1>2. \A i \in Slots : /\ InUse(f2, busy - 1, i) <=> InUse(first, busy, i) /\ i # first
                       /\ i # first => Dist(f2, i) = Dist(first, i) - 1
  BY InUseConsume
<1>3. next = Wrapped(f2 + (busy - 1))
  BY InUseConsume DEF RingShape
<1>4. \A i \in Slots : Dist(first, i) \in Int
  BY DistType
<1>5. \A i \in Slots : i # first /\ cur # first =>
        (Dist(f2, cur) <= Dist(f2, i) <=> Dist(first, cur) <= Dist(first, i))
  BY <1>2, <1>4
<1> HIDE DEF d2, l2, f2
<1>6. CASE desc[cur] = "dma"
  BY <1>1, <1>2, <1>3, <1>5, <1>6 DEF RingShape, d2, l2, f2
<1>7. CASE desc[cur] # "dma"
  BY <1>1, <1>2, <1>3, <1>7 DEF RingShape, d2, l2, f2
<1> QED
  BY <1>6, <1>7

\* The DMA gives back the descriptor it looks at.
LEMMA ShapeAdvance ==
  ASSUME NEW desc \in [Slots -> DescStates], NEW list,
         NEW first \in Slots, NEW next \in Slots, NEW busy \in 0 .. RingSize,
         NEW cur \in Slots, desc[cur] = "dma",
         RingShape(desc, list, first, next, busy, cur)
  PROVE  RingShape([desc EXCEPT ![cur] = "done"], list, first, next, busy, NextIdx(cur))
<1> DEFINE d2 == [desc EXCEPT ![cur] = "done"]
           c2 == NextIdx(cur)
<1>1. /\ d2[cur] = "done"
      /\ \A i \in Slots : i # cur => d2[i] = desc[i]
  OBVIOUS
<1>2. c2 \in Slots /\ c2 # cur
  BY NextIdxFacts
<1>3. /\ InUse(first, busy, cur) /\ next = Wrapped(first + busy)
      /\ \A i \in Slots : desc[i] = "dma" <=> /\ InUse(first, busy, i)
                                              /\ Dist(first, cur) <= Dist(first, i)
      /\ \A i \in Slots : desc[i] # "empty" <=> InUse(first, busy, i)
      /\ \A i \in Slots : InUse(first, busy, i) => list[i] # NULL
  BY DEF RingShape
<1>4. \A i \in Slots : Dist(first, i) \in Int
  BY DistType
<1>5. \A i \in Slots : Dist(first, i) = Dist(first, cur) => i = cur
  BY <1>3, InUseAdvance
<1>6. CASE c2 # next
  <2>1. InUse(first, busy, c2) /\ Dist(first, c2) = Dist(first, cur) + 1
    BY <1>3, <1>6, InUseAdvance
  <2>2. \A i \in Slots : Dist(first, c2) <= Dist(first, i)
                           <=> Dist(first, cur) <= Dist(first, i) /\ i # cur
    BY <1>4, <1>5, <2>1
  <2>3. Dist(first, cur) <= Dist(first, c2)
    BY <1>4, <2>1
  <2> HIDE DEF d2, c2
  <2>4. d2[c2] = "dma"
    BY <1>1, <1>2, <1>3, <2>1, <2>3
  <2> QED
    BY <1>1, <1>2, <1>3, <2>1, <2>2, <2>4 DEF RingShape, d2, c2
<1>7. CASE c2 = next
  <2>1. \A i \in Slots : InUse(first, busy, i) => Dist(first, i) <= Dist(first, cur)
    BY <1>3, <1>7, InUseAdvance
  <2>2. \A i \in Slots : d2[i] # "dma"
    BY <1>1, <1>3, <1>4, <1>5, <2>1
  <2> HIDE DEF d2, c2
  <2> QED
    BY <1>1, <1>2, <1>3, <1>7, <2>2 DEF RingShape, d2, c2
<1> QED
  BY <1>6, <1>7

\* The shape is what RingsInStep says of a ring.
LEMMA ShapeInStep ==
  ASSUME NEW desc \in [Slots -> DescStates], NEW list,
         NEW first \in Slots, NEW next \in Slots, NEW busy \in 0 .. RingSize,
         NEW cur \in Slots, RingShape(desc, list, first, next, busy, cur)
  PROVE  RingInStep(desc, list, first, next, busy, cur)
<1>1. next = (first + busy) % RingSize
  BY WrappedRemainder DEF RingShape
<1>2. \A i \in Slots : Dist(first, i) \in Int
  BY DistType
<1>3. \A i \in Slots : desc[i] = "done" /\ desc[cur] = "dma"
                         => Dist(first, i) < Dist(first, cur)
  BY <1>2 DEF RingShape
<1> QED
  BY <1>1, <1>3 DEF RingShape, RingInStep

\* The skbs of a ring are those of its descriptors in use.
LEMMA RingSkbsInUse ==
  ASSUME NEW list, NEW first \in Slots, NEW busy \in 0 .. RingSize
  PROVE  /\ \A i \in Slots : InUse(first, busy, i) => list[i] \in RingSkbs(list, first, busy)
         /\ \A s \in RingSkbs(list, first, busy) :
              \E i \in Slots : InUse(first, busy, i) /\ list[i] = s
<1>1. ASSUME NEW k \in 0 .. busy - 1
      PROVE  /\ (first + k) % RingSize \in Slots
             /\ InUse(first, busy, (first + k) % RingSize)
  <2>1. k \in 0 .. RingSize /\ k < RingSize /\ k < busy
    BY RingAssumption
  <2>2. (first + k) % RingSize = Wrapped(first + k)
    BY <2>1, WrappedRemainder
  <2> QED
    BY <2>1, <2>2, NextInUse DEF InUse
<1>2. ASSUME NEW i \in Slots, InUse(first, busy, i)
      PROVE  \E k \in 0 .. busy - 1 : (first + k) % RingSize = i
  <2>1. /\ Dist(first, i) \in 0 .. busy - 1 /\ Dist(first, i) \in 0 .. RingSize
        /\ Wrapped(first + Dist(first, i)) = i
    BY <1>2, RingAssumption DEF InUse, Dist, Slots, Wrapped
  <2>2. (first + Dist(first, i)) % RingSize = i
    BY <2>1, WrappedRemainder
  <2> QED
    BY <2>1, <2>2
<1>3. ASSUME NEW i \in Slots, InUse(first, busy, i)
      PROVE  list[i] \in RingSkbs(list, first, busy)
  <2>1. PICK k \in 0 .. busy - 1 : (first + k) % RingSize = i
    BY <1>2, <1>3
  <2> QED
    BY <2>1 DEF RingSkbs
<1>4. ASSUME NEW s \in RingSkbs(list, first, busy)
      PROVE  \E i \in Slots : InUse(first, busy, i) /\ list[i] = s
  <2>1. PICK k \in 0 .. busy - 1 : s = list[(first + k) % RingSize]
    BY DEF RingSkbs
  <2> QED
    BY <1>1, <2>1
<1> QED
  BY <1>3, <1>4

-----------------------------------------------------------------------------
(* Types. *)

\* The parts of TypeOK: the flags, the rings, the places in the code, the skbs.
FlagTypes ==
  /\ tx_suspended \in BOOLEAN /\ dma_on \in BOOLEAN /\ status \in BOOLEAN
  /\ int_en \in BOOLEAN /\ sched \in BOOLEAN /\ enabling \in BOOLEAN
  /\ missed \in BOOLEAN /\ direct \in BOOLEAN /\ napi_added \in BOOLEAN

RingTypes ==
  /\ tx_desc \in [Slots -> DescStates] /\ rx_desc \in [Slots -> DescStates]
  /\ tx_skb_list \in [Slots -> TxSkbs \cup {NULL}]
  /\ rx_skb_list \in [Slots -> RxSkbs \cup {NULL}]
  /\ tx_next \in Slots /\ rx_next \in Slots /\ tx_busy \in Slots
  /\ rx_busy \in Slots /\ tx_cur \in Slots /\ rx_cur \in Slots
  /\ busy_tx_desc \in 0 .. RingSize /\ busy_rx_desc \in 0 .. RingSize

PlaceTypes ==
  /\ irq \in {"idle", "disable", "schedule"}
  /\ napi \in {"off", "on", "disabling"}
  /\ npc \in {"idle", "tx", "rx", "refill", "end"}
  /\ nbusy \in 0 .. RingSize /\ nwork \in 0 .. Budget
  /\ adm \in {"down", "setup", "closed", "open_napi", "open_irq", "open",
              "close_irq", "close_napi", "close_wait"}
  /\ bug \in {"none", "tx_queue", "tx_complete", "refill", "freed_ring", "freed_skb"}

SkbTypes ==
  /\ owner \in [Skbs -> {"out", "driver"}]
  /\ xpc \in [CPUs -> {"idle", "queue", "resume", "requeued"}]
  /\ xskb \in [CPUs -> TxSkbs \cup {NULL}]
  /\ leaked \subseteq Skbs

LEMMA TypeParts == TypeOK <=> FlagTypes /\ RingTypes /\ PlaceTypes /\ SkbTypes
BY Zenon DEF TypeOK, FlagTypes, RingTypes, PlaceTypes, SkbTypes, DescStates

LEMMA TypePartsNext == TypeOK' <=> FlagTypes' /\ RingTypes' /\ PlaceTypes' /\ SkbTypes'
BY Zenon DEF TypeOK, FlagTypes, RingTypes, PlaceTypes, SkbTypes, DescStates

(* The steps that move an skb or meet a bug, and the others. *)

SkbStep ==
  \/ \E c \in CPUs, s \in TxSkbs : XmitBegin(c, s)
  \/ \E c \in CPUs : XmitMapFails(c)
  \/ \E c \in CPUs : XmitQueue(c)
  \/ \E c \in CPUs : XmitAgain(c)
  \/ TxCompleteOne \/ RxOne \/ \E s \in RxSkbs : RefillOne(s)
  \/ SynInit \/ SynDeinit

OtherStep ==
  \/ \E c \in CPUs, s \in TxSkbs : XmitRefuse(c, s)
  \/ \E c \in CPUs : XmitResume(c)
  \/ IrqClear \/ IrqDisable \/ IrqSchedule
  \/ PollBegin \/ TxCompleteBreak \/ RxBreak \/ RefillStop \/ PollEnd \/ PollEnable
  \/ SynInitFails \/ OpenDma \/ OpenNapi \/ OpenIrq
  \/ CloseDma \/ OverrideStop \/ CloseIrq \/ CloseNapi \/ CloseWait
  \/ HwTx \/ HwTxSuspend \/ HwRx \/ HwRxNoBuffer
  \/ UNCHANGED vars

LEMMA StepKinds ==
  ASSUME [Next]_vars
  PROVE  (bug = "none" /\ (SkbStep \/ OtherStep)) \/ UNCHANGED vars
<1>1. CASE Next /\ bug # "none"
  BY <1>1 DEF Next, Halted
<1>2. CASE Next /\ bug = "none"
  <2>1. CASE \E c \in CPUs, s \in TxSkbs : XmitBegin(c, s) \/ XmitRefuse(c, s)
    BY <1>2, <2>1 DEF SkbStep, OtherStep
  <2>2. CASE \E c \in CPUs : XmitStep(c)
    BY <1>2, <2>2 DEF XmitStep, SkbStep, OtherStep
  <2>3. CASE \/ IrqClear \/ IrqDisable \/ IrqSchedule \/ PollEnable
             \/ HwTx \/ HwTxSuspend \/ HwRx \/ HwRxNoBuffer
    BY <1>2, <2>3 DEF OtherStep
  <2>4. CASE PollStep
    BY <1>2, <2>4 DEF PollStep, SkbStep, OtherStep
  <2>5. CASE \E s \in RxSkbs : RefillOne(s)
    BY <1>2, <2>5 DEF SkbStep
  <2>6. CASE AdmStep
    BY <1>2, <2>6 DEF AdmStep, SkbStep, OtherStep
  <2> QED
    BY <1>2, <2>1, <2>2, <2>3, <2>4, <2>5, <2>6 DEF Next, Halted
<1> QED
  BY <1>1, <1>2

\* The other steps leave the skbs and the driver's half of the rings alone.
LEMMA OtherKeeps ==
  ASSUME TypeOK, OtherStep
  PROVE  /\ UNCHANGED <<tx_skb_list, tx_next, tx_busy, busy_tx_desc>>
         /\ UNCHANGED <<rx_skb_list, rx_next, rx_busy, busy_rx_desc>>
         /\ UNCHANGED <<owner, leaked, xskb, bug>>
         /\ adm' = "down" <=> adm = "down"
         /\ \A c \in CPUs : xpc'[c] = "queue" <=> xpc[c] = "queue"
<1> DEFINE Kept ==
         /\ UNCHANGED <<tx_skb_list, tx_next, tx_busy, busy_tx_desc>>
         /\ UNCHANGED <<rx_skb_list, rx_next, rx_busy, busy_rx_desc>>
         /\ UNCHANGED <<owner, leaked, xskb, bug>>
         /\ adm' = "down" <=> adm = "down"
         /\ \A c \in CPUs : xpc'[c] = "queue" <=> xpc[c] = "queue"
<1>1. ASSUME NEW c \in CPUs, XmitResume(c) PROVE Kept
  <2>1. xpc \in [CPUs -> {"idle", "queue", "resume", "requeued"}]
    BY TypeParts DEF SkbTypes
  <2> QED
    BY <1>1, <2>1 DEF XmitResume, txVars, rxVars, admVars
<1>7. ASSUME NEW c \in CPUs, NEW s \in TxSkbs, XmitRefuse(c, s) PROVE Kept
  <2>1. xpc \in [CPUs -> {"idle", "queue", "resume", "requeued"}]
    BY TypeParts DEF SkbTypes
  <2> QED
    BY <1>7, <2>1 DEF XmitRefuse, txVars, rxVars, admVars
<1>2. CASE IrqClear \/ IrqDisable \/ IrqSchedule
  BY <1>2 DEF IrqClear, IrqDisable, IrqSchedule, txVars, rxVars, admVars, xmitVars
<1>3. CASE PollBegin \/ TxCompleteBreak \/ RxBreak \/ RefillStop \/ PollEnd \/ PollEnable
  BY <1>3 DEF PollBegin, TxCompleteBreak, RxBreak, RefillStop, PollEnd, PollEnable,
              txVars, rxVars, admVars, xmitVars
<1>4. CASE SynInitFails \/ OpenDma \/ OpenNapi \/ OpenIrq
             \/ CloseDma \/ OverrideStop \/ CloseIrq \/ CloseNapi \/ CloseWait
  BY <1>4 DEF SynInitFails, OpenDma, OpenNapi, OpenIrq, CloseDma, OverrideStop,
              StopDma, CloseIrq, CloseNapi, CloseWait, txVars, rxVars, xmitVars
<1>5. CASE HwTx \/ HwTxSuspend \/ HwRx \/ HwRxNoBuffer
  BY <1>5 DEF HwTx, HwTxSuspend, HwRx, HwRxNoBuffer, txVars, rxVars, admVars, xmitVars
<1>6. CASE UNCHANGED vars
  BY <1>6 DEF vars, txVars, rxVars, admVars, xmitVars
<1> QED
  BY <1>1, <1>2, <1>3, <1>4, <1>5, <1>6, <1>7 DEF OtherStep

\* Of the DMA's half of the rings, only the DMA's own steps change anything.
LEMMA OtherKeepsDma ==
  ASSUME OtherStep
  PROVE  /\ HwTx \/ UNCHANGED <<tx_desc, tx_cur>>
         /\ HwRx \/ UNCHANGED <<rx_desc, rx_cur>>
<1> DEFINE Kept == UNCHANGED <<tx_desc, tx_cur, rx_desc, rx_cur>>
<1>1. ASSUME NEW c \in CPUs, XmitResume(c) PROVE Kept
  BY <1>1 DEF XmitResume, txVars, rxVars
<1>7. ASSUME NEW c \in CPUs, NEW s \in TxSkbs, XmitRefuse(c, s) PROVE Kept
  BY <1>7 DEF XmitRefuse, txVars, rxVars, dmaVars
<1>2. CASE IrqClear \/ IrqDisable \/ IrqSchedule
  BY <1>2 DEF IrqClear, IrqDisable, IrqSchedule, txVars, rxVars, dmaVars
<1>3. CASE PollBegin \/ TxCompleteBreak \/ RxBreak \/ RefillStop \/ PollEnd \/ PollEnable
  BY <1>3 DEF PollBegin, TxCompleteBreak, RxBreak, RefillStop, PollEnd, PollEnable,
              txVars, rxVars, dmaVars
<1>4. CASE SynInitFails \/ OpenDma \/ OpenNapi \/ OpenIrq
             \/ CloseDma \/ OverrideStop \/ CloseIrq \/ CloseNapi \/ CloseWait
  BY <1>4 DEF SynInitFails, OpenDma, OpenNapi, OpenIrq, CloseDma, OverrideStop,
              StopDma, CloseIrq, CloseNapi, CloseWait, txVars, rxVars, dmaVars
<1>5. CASE HwTx \/ HwTxSuspend \/ HwRx \/ HwRxNoBuffer
  BY <1>5 DEF HwTx, HwTxSuspend, HwRx, HwRxNoBuffer, txVars, rxVars, dmaVars
<1>6. CASE UNCHANGED vars
  BY <1>6 DEF vars, txVars, rxVars, dmaVars
<1> QED
  BY <1>1, <1>2, <1>3, <1>4, <1>5, <1>6, <1>7 DEF OtherStep

-----------------------------------------------------------------------------
(* What the steps of a ring find: the BUG_ONs that cannot be met. *)

LEMMA NullAssumption == NULL \notin TxSkbs /\ NULL \notin RxSkbs /\ NULL \notin Skbs
BY SynAssumption DEF Skbs

\* A transmitter that queues has an skb of the driver.
LEMMA XmitFinds ==
  ASSUME IInv, NEW c \in CPUs, xpc[c] = "queue"
  PROVE  xskb[c] \in TxSkbs /\ owner[xskb[c]] = "driver"
<1>1. xskb \in [CPUs -> TxSkbs \cup {NULL}]
  BY TypeParts DEF IInv, SkbTypes
<1> QED
  BY <1>1 DEF IInv, XmitInv

\* It meets "BUG_ON(!syn_dp_gmac_is_desc_empty(txdesc))" in a full ring only.
LEMMA QueueFinds ==
  ASSUME IInv, adm # "down"
  PROVE  tx_desc[tx_next] # "empty" <=> busy_tx_desc = RingSize
<1>1. RingShape(tx_desc, tx_skb_list, tx_busy, tx_next, busy_tx_desc, tx_cur)
  BY DEF IInv, TxShape
<1>2. /\ tx_busy \in Slots /\ tx_next \in Slots /\ tx_cur \in Slots
      /\ busy_tx_desc \in 0 .. RingSize
  BY TypeParts DEF IInv, RingTypes
<1> QED
  BY ONLY <1>1, <1>2, ShapeFull

\* What stops it, and what it does otherwise.
LEMMA FaultCases ==
  /\ QueueFault \in {"none", "freed_ring", "tx_queue"}
  /\ QueueFault = "none" <=> adm # "down" /\ tx_desc[tx_next] = "empty"
  /\ QueueFault = "freed_ring" <=> adm = "down"
  /\ QueueFault = "tx_queue" <=> adm # "down" /\ tx_desc[tx_next] # "empty"
<1>1. CASE adm = "down"
  BY <1>1 DEF QueueFault
<1>2. CASE adm # "down" /\ tx_desc[tx_next] # "empty"
  BY <1>2 DEF QueueFault
<1>3. CASE adm # "down" /\ tx_desc[tx_next] = "empty"
  BY <1>3 DEF QueueFault
<1> QED
  BY <1>1, <1>2, <1>3

\* The poll finds an skb in a descriptor that it takes back: "BUG_ON(!skb)" is
\* never met.
LEMMA CompleteFinds ==
  ASSUME IInv, npc = "tx"
  PROVE  /\ adm # "down" /\ busy_tx_desc > 0
         /\ tx_skb_list[tx_busy] \in TxSkbs /\ tx_skb_list[tx_busy] # NULL
         /\ TxUsed(tx_busy)
<1>1. adm # "down"
  BY DEF IInv, AdmInv
<1>2. RingTypes
  BY TypeParts DEF IInv
<1>3. busy_tx_desc > 0
  <2>1. nbusy \in Int /\ busy_tx_desc \in Int
    BY <1>2, TypeParts DEF IInv, PlaceTypes, RingTypes
  <2> QED
    BY <2>1 DEF IInv, LoopInv
<1>4. RingShape(tx_desc, tx_skb_list, tx_busy, tx_next, busy_tx_desc, tx_cur)
  BY <1>1 DEF IInv, TxShape
<1> QED
  BY <1>1, <1>2, <1>3, <1>4, ShapeFull DEF RingTypes, TxUsed

LEMMA RxFinds ==
  ASSUME IInv, npc = "rx"
  PROVE  /\ adm # "down" /\ busy_rx_desc > 0
         /\ rx_skb_list[rx_busy] \in RxSkbs /\ RxUsed(rx_busy)
<1>1. adm # "down"
  BY DEF IInv, AdmInv
<1>2. RingTypes
  BY TypeParts DEF IInv
<1>3. busy_rx_desc > 0
  <2>1. nbusy \in Int /\ busy_rx_desc \in Int
    BY <1>2, TypeParts DEF IInv, PlaceTypes, RingTypes
  <2> QED
    BY <2>1 DEF IInv, LoopInv
<1>4. RingShape(rx_desc, rx_skb_list, rx_busy, rx_next, busy_rx_desc, rx_cur)
  BY <1>1 DEF IInv, RxShape
<1> QED
  BY <1>1, <1>2, <1>3, <1>4, ShapeFull DEF RingTypes, RxUsed

\* A refill finds the next descriptor empty: its BUG_ON is never met.
LEMMA RefillFinds ==
  ASSUME IInv, npc = "refill", busy_rx_desc < RingSize
  PROVE  adm # "down" /\ rx_desc[rx_next] = "empty"
<1>1. adm # "down"
  BY DEF IInv, AdmInv
<1>2. RingTypes
  BY TypeParts DEF IInv
<1>3. RingShape(rx_desc, rx_skb_list, rx_busy, rx_next, busy_rx_desc, rx_cur)
  BY <1>1 DEF IInv, RxShape
<1>4. busy_rx_desc # RingSize
  BY <1>2, RingAssumption DEF RingTypes
<1> QED
  BY <1>1, <1>2, <1>3, <1>4, ShapeFull DEF RingTypes

\* What deinit does: it frees skbs of its rings and forgets the others of them;
\* those of transmitters that nobody has waited for stay theirs.
LEMMA DeinitFinds ==
  ASSUME IInv, SynDeinit
  PROVE  /\ \A c \in CPUs : xskb[c] # NULL =>
              xskb[c] \notin leaked' /\ owner'[xskb[c]] = "driver"
         /\ adm # "down" /\ adm' = "down"
         /\ leaked \subseteq leaked' /\ leaked' \subseteq Skbs
         /\ \A s \in leaked' \ leaked : owner'[s] = owner[s] /\ owner[s] = "driver"
         /\ \A s \in leaked : owner'[s] = owner[s]
         /\ \A s \in Skbs :
              owner'[s] = "driver" => s \in leaked' \/ \E c \in CPUs : xskb[c] = s
         /\ owner' \in [Skbs -> {"out", "driver"}]
<1> DEFINE txfreed == Cleaned(tx_skb_list, tx_busy, busy_tx_desc)
           rxfreed == Cleaned(rx_skb_list, rx_busy, busy_rx_desc)
           freed   == txfreed \cup rxfreed
           txheld  == RingSkbs(tx_skb_list, tx_busy, busy_tx_desc)
           rxheld  == RingSkbs(rx_skb_list, rx_busy, busy_rx_desc)
           held    == txheld \cup rxheld
<1>1. /\ adm = "closed" /\ adm' = "down"
      /\ owner' = [s \in Skbs |-> IF s \in freed THEN "out" ELSE owner[s]]
      /\ leaked' = leaked \cup (held \ freed)
  BY DEF SynDeinit
<1>2. RingTypes /\ SkbTypes
  BY TypeParts DEF IInv
<1>3. \A c \in CPUs : xskb[c] # NULL =>
        xskb[c] \in TxSkbs /\ xskb[c] \notin leaked /\ owner[xskb[c]] = "driver"
  BY <1>2 DEF IInv, XmitInv, SkbTypes
<1>4. /\ RingShape(tx_desc, tx_skb_list, tx_busy, tx_next, busy_tx_desc, tx_cur)
      /\ RingShape(rx_desc, rx_skb_list, rx_busy, rx_next, busy_rx_desc, rx_cur)
  BY <1>1 DEF IInv, TxShape, RxShape
<1>5. /\ \A i \in Slots : TxUsed(i) => tx_skb_list[i] \in txheld
      /\ \A s \in txheld : \E i \in Slots : TxUsed(i) /\ tx_skb_list[i] = s
  BY <1>1, <1>2, RingSkbsInUse DEF RingTypes, TxUsed
<1>6. /\ \A i \in Slots : RxUsed(i) => rx_skb_list[i] \in rxheld
      /\ \A s \in rxheld : \E i \in Slots : RxUsed(i) /\ rx_skb_list[i] = s
  BY <1>1, <1>2, RingSkbsInUse DEF RingTypes, RxUsed
<1>7. txfreed \subseteq txheld
  <2>1. CASE busy_tx_desc = 0
    BY <2>1 DEF Cleaned
  <2>2. CASE busy_tx_desc # 0
    <3>1. busy_tx_desc > 0
      BY <1>2, <2>2 DEF RingTypes
    <3>2. TxUsed(tx_busy)
      BY <1>1, <1>2, <1>4, <3>1, ShapeFull DEF RingTypes, TxUsed
    <3> QED
      BY <1>2, <1>5, <2>2, <3>2 DEF Cleaned, RingTypes
  <2> QED
    BY <2>1, <2>2
<1>8. rxfreed \subseteq rxheld
  <2>1. CASE busy_rx_desc = 0
    BY <2>1 DEF Cleaned
  <2>2. CASE busy_rx_desc # 0
    <3>1. busy_rx_desc > 0
      BY <1>2, <2>2 DEF RingTypes
    <3>2. RxUsed(rx_busy)
      BY <1>1, <1>2, <1>4, <3>1, ShapeFull DEF RingTypes, RxUsed
    <3> QED
      BY <1>2, <1>6, <2>2, <3>2 DEF Cleaned, RingTypes
  <2> QED
    BY <2>1, <2>2
<1>9. \A s \in txheld : s \in TxSkbs /\ owner[s] = "driver" /\ s \notin leaked
  <2>1. \A i \in Slots : TxUsed(i) => tx_skb_list[i] \in TxSkbs
    BY <1>2, <1>4 DEF RingShape, TxUsed, RingTypes
  <2> QED
    BY <1>5, <2>1 DEF IInv, TxSkbInv
<1>10. \A s \in rxheld : s \in RxSkbs /\ owner[s] = "driver" /\ s \notin leaked
  <2>1. \A i \in Slots : RxUsed(i) => rx_skb_list[i] \in RxSkbs
    BY <1>2, <1>4 DEF RingShape, RxUsed, RingTypes
  <2> QED
    BY <1>6, <2>1 DEF IInv, RxSkbInv
<1>11. \A s \in held : s \in Skbs /\ owner[s] = "driver" /\ s \notin leaked
  BY <1>9, <1>10 DEF Skbs
<1>12. \A s \in Skbs : owner[s] = "driver" =>
         s \in held \/ s \in leaked \/ \E c \in CPUs : xskb[c] = s
  BY <1>5, <1>6 DEF IInv, LocatedInv, Located
<1>17. \A c \in CPUs : xskb[c] # NULL => xskb[c] \notin held /\ xskb[c] \in Skbs
  <2> SUFFICES ASSUME NEW c \in CPUs, xskb[c] # NULL
               PROVE  xskb[c] \notin held /\ xskb[c] \in Skbs
    OBVIOUS
  <2>1. xskb[c] \notin txheld
    BY <1>5 DEF IInv, TxSkbInv
  <2>2. xskb[c] \in TxSkbs /\ xskb[c] \notin rxheld
    BY <1>3, <1>10, SynAssumption
  <2> QED
    BY <2>1, <2>2 DEF Skbs
<1> HIDE DEF held, freed
<1>13. freed \subseteq held
  BY <1>7, <1>8 DEF held, freed
<1>14. leaked \subseteq Skbs /\ owner \in [Skbs -> {"out", "driver"}]
  BY <1>2 DEF SkbTypes
<1>15. \A s \in leaked' : s \in Skbs
  BY <1>1, <1>11, <1>14
<1>16. \A s \in leaked : s \notin freed
  BY <1>11, <1>13
<1> QED
  BY <1>1, <1>3, <1>11, <1>12, <1>13, <1>14, <1>15, <1>16, <1>17

-----------------------------------------------------------------------------
(* The inductive invariant holds at the beginning and is kept. *)

LEMMA InitInv == ASSUME Init PROVE IInv
<1>1. FlagTypes
  BY Zenon DEF Init, FlagTypes
<1>2. RingTypes
  BY RingAssumption DEF Init, RingTypes, Slots, DescStates, EmptyRing, NoSkbs
<1>3. PlaceTypes /\ SkbTypes
  BY RingAssumption, SynAssumption DEF Init, PlaceTypes, SkbTypes
<1>4. TxShape /\ RxShape /\ AdmInv /\ LoopInv
  BY DEF Init, TxShape, RxShape, AdmInv, LoopInv
<1>5. XmitInv /\ TxSkbInv /\ RxSkbInv /\ LocatedInv /\ OnlyTxRaceBugs /\ FreedInv
  BY DEF Init, FreedInv, XmitInv, TxSkbInv, RxSkbInv, LocatedInv, OnlyTxRaceBugs, TxUsed, RxUsed
<1> QED
  BY <1>1, <1>2, <1>3, <1>4, <1>5, TypeParts DEF IInv

LEMMA FlagsKept == ASSUME IInv, SkbStep \/ OtherStep PROVE FlagTypes'
<1>1. FlagTypes
  BY TypeParts DEF IInv
<1>2. CASE SkbStep
  <2>1. UNCHANGED <<tx_suspended, dma_on, status, int_en, sched, enabling, missed>>
    BY <1>2 DEF SkbStep, XmitBegin, XmitMapFails, XmitQueue, XmitAgain, TxCompleteOne,
                RxOne, RefillOne, SynInit, SynDeinit, dmaVars, irqVars, napiVars, pollVars
  <2>2. napi_added' \in BOOLEAN /\ direct' \in BOOLEAN
    BY <1>1, <1>2, Zenon DEF FlagTypes, SkbStep, XmitBegin, XmitMapFails, XmitQueue,
         XmitAgain, TxCompleteOne, RxOne, RefillOne, SynInit, SynDeinit, admVars
  <2> QED
    BY <1>1, <2>1, <2>2, Zenon DEF FlagTypes
<1>3. ASSUME NEW c \in CPUs, XmitResume(c) PROVE FlagTypes'
  BY <1>1, <1>3, Zenon DEF FlagTypes, XmitResume, dmaVars, irqVars, napiVars, pollVars, admVars
<1>11. ASSUME NEW c \in CPUs, NEW s \in TxSkbs, XmitRefuse(c, s) PROVE FlagTypes'
  BY <1>1, <1>11, Zenon DEF FlagTypes, XmitRefuse, dmaVars, irqVars, napiVars, pollVars, admVars
<1>4. CASE IrqClear \/ IrqDisable \/ IrqSchedule
  BY <1>1, <1>4, Zenon DEF FlagTypes, IrqClear, IrqDisable, IrqSchedule,
       dmaVars, irqVars, napiVars, pollVars, admVars
<1>5. CASE PollBegin \/ TxCompleteBreak \/ RxBreak
  BY <1>1, <1>5, Zenon DEF FlagTypes, PollBegin, TxCompleteBreak, RxBreak,
       dmaVars, irqVars, napiVars, admVars
<1>6. CASE RefillStop \/ PollEnd \/ PollEnable
  BY <1>1, <1>6, Zenon DEF FlagTypes, RefillStop, PollEnd, PollEnable,
       dmaVars, irqVars, napiVars, admVars
<1>7. CASE SynInitFails \/ OpenDma \/ OpenNapi \/ OpenIrq
  BY <1>1, <1>7, Zenon DEF FlagTypes, SynInitFails, OpenDma, OpenNapi, OpenIrq,
       dmaVars, irqVars, napiVars, pollVars
<1>8. CASE CloseDma \/ OverrideStop \/ CloseIrq \/ CloseNapi \/ CloseWait
  BY <1>1, <1>8, Zenon DEF FlagTypes, CloseDma, OverrideStop, StopDma, CloseIrq, CloseNapi, CloseWait,
       dmaVars, irqVars, napiVars, pollVars
<1>9. CASE HwTx \/ HwTxSuspend \/ HwRx \/ HwRxNoBuffer
  BY <1>1, <1>9, Zenon DEF FlagTypes, HwTx, HwTxSuspend, HwRx, HwRxNoBuffer,
       dmaVars, irqVars, napiVars, pollVars, admVars
<1>10. CASE UNCHANGED vars
  BY <1>1, <1>10, Zenon DEF FlagTypes, vars, dmaVars, irqVars, napiVars, pollVars, admVars
<1> QED
  BY <1>2, <1>3, <1>4, <1>5, <1>6, <1>7, <1>8, <1>9, <1>10, <1>11 DEF OtherStep

LEMMA RingsKept == ASSUME IInv, SkbStep \/ OtherStep PROVE RingTypes'
<1>1. RingTypes /\ SkbTypes
  BY TypeParts DEF IInv
<1>2. \A i \in Slots : NextIdx(i) \in Slots
  BY NextIdxFacts
<1>3. CASE OtherStep
  <2>1. /\ UNCHANGED <<tx_skb_list, tx_next, tx_busy, busy_tx_desc>>
        /\ UNCHANGED <<rx_skb_list, rx_next, rx_busy, busy_rx_desc>>
    BY <1>3, OtherKeeps DEF IInv
  <2>2. tx_desc' \in [Slots -> DescStates] /\ tx_cur' \in Slots
    <3>1. CASE HwTx
      BY <1>1, <1>2, <3>1 DEF HwTx, RingTypes, DescStates
    <3>2. CASE UNCHANGED <<tx_desc, tx_cur>>
      BY <1>1, <3>2 DEF RingTypes
    <3> QED
      BY <1>3, <3>1, <3>2, OtherKeepsDma
  <2>3. rx_desc' \in [Slots -> DescStates] /\ rx_cur' \in Slots
    <3>1. CASE HwRx
      BY <1>1, <1>2, <3>1 DEF HwRx, RingTypes, DescStates
    <3>2. CASE UNCHANGED <<rx_desc, rx_cur>>
      BY <1>1, <3>2 DEF RingTypes
    <3> QED
      BY <1>3, <3>1, <3>2, OtherKeepsDma
  <2> QED
    BY <1>1, <2>1, <2>2, <2>3 DEF RingTypes
<1>4. ASSUME (\E c \in CPUs, s \in TxSkbs : XmitBegin(c, s))
               \/ \E c \in CPUs : XmitMapFails(c) \/ XmitAgain(c)
      PROVE  RingTypes'
  BY <1>1, <1>4 DEF XmitBegin, XmitMapFails, XmitAgain, RingTypes, txVars, rxVars, dmaVars
<1>5. ASSUME NEW c \in CPUs, XmitQueue(c) PROVE RingTypes'
  <2>1. /\ UNCHANGED <<rx_desc, rx_skb_list, rx_next, rx_busy, busy_rx_desc>>
        /\ UNCHANGED <<tx_cur, rx_cur>>
    BY <1>5 DEF XmitQueue, rxVars, dmaVars
  <2>2. CASE QueueFault # "none"
    BY <1>1, <1>5, <2>1, <2>2 DEF XmitQueue, txVars, RingTypes
  <2>3. CASE QueueFault = "none"
    <3>1. busy_tx_desc + 1 \in 0 .. RingSize
      BY <1>1, <2>3, FaultCases, QueueFinds, RingAssumption DEF RingTypes
    <3>2. xskb[c] \in TxSkbs
      BY <1>5, XmitFinds DEF XmitQueue
    <3> QED
      BY <1>1, <1>2, <1>5, <2>1, <2>3, <3>1, <3>2
         DEF XmitQueue, SetTxQptr, RingTypes, DescStates
  <2> QED
    BY <2>2, <2>3
<1>6. CASE TxCompleteOne
  <2>1. busy_tx_desc > 0 /\ tx_skb_list[tx_busy] # NULL
    BY <1>6, CompleteFinds DEF TxCompleteOne
  <2>2. busy_tx_desc - 1 \in 0 .. RingSize
    BY <1>1, <2>1, RingAssumption DEF RingTypes
  <2> QED
    BY <1>1, <1>2, <1>6, <2>1, <2>2 DEF TxCompleteOne, RingTypes, DescStates, rxVars, dmaVars
<1>7. CASE RxOne
  <2>1. busy_rx_desc > 0
    BY <1>7, RxFinds DEF RxOne
  <2>2. busy_rx_desc - 1 \in 0 .. RingSize
    BY <1>1, <2>1, RingAssumption DEF RingTypes
  <2> QED
    BY <1>1, <1>2, <1>7, <2>2 DEF RxOne, RingTypes, DescStates, txVars, dmaVars
<1>8. ASSUME NEW s \in RxSkbs, RefillOne(s) PROVE RingTypes'
  <2>1. busy_rx_desc + 1 \in 0 .. RingSize /\ rx_desc[rx_next] = "empty"
    BY <1>1, <1>8, RefillFinds, RingAssumption DEF RefillOne, RingTypes
  <2> QED
    BY <1>1, <1>2, <1>8, <2>1 DEF RefillOne, RingTypes, DescStates, txVars, dmaVars
<1>9. CASE SynInit
  BY <1>1, <1>9, RingAssumption DEF SynInit, RingTypes, EmptyRing, DescStates, Slots
<1>10. CASE SynDeinit
  <2>1. PICK freed :
          /\ tx_skb_list' = [i \in Slots |-> IF tx_skb_list[i] \in freed THEN NULL
                                                                       ELSE tx_skb_list[i]]
          /\ rx_skb_list' = [i \in Slots |-> IF rx_skb_list[i] \in freed THEN NULL
                                                                       ELSE rx_skb_list[i]]
    BY <1>10 DEF SynDeinit
  <2>2. /\ UNCHANGED <<tx_next, tx_busy, busy_tx_desc, rx_next>>
        /\ UNCHANGED <<rx_busy, busy_rx_desc, tx_cur, rx_cur>>
        /\ tx_desc' = EmptyRing /\ rx_desc' = EmptyRing
    BY <1>10 DEF SynDeinit, dmaVars
  <2>3. \A i \in Slots : /\ tx_skb_list[i] \in TxSkbs \cup {NULL}
                         /\ rx_skb_list[i] \in RxSkbs \cup {NULL}
    BY <1>1 DEF RingTypes
  <2> QED
    BY <1>1, <2>1, <2>2, <2>3 DEF RingTypes, EmptyRing, DescStates
<1> QED
  BY <1>3, <1>4, <1>5, <1>6, <1>7, <1>8, <1>9, <1>10 DEF SkbStep

LEMMA SkbsKept == ASSUME IInv, SkbStep \/ OtherStep PROVE SkbTypes'
<1>1. RingTypes /\ SkbTypes
  BY TypeParts DEF IInv
<1>2. xpc' \in [CPUs -> {"idle", "queue", "resume", "requeued"}]
  BY <1>1 DEF SkbTypes, SkbStep, XmitBegin, XmitMapFails, XmitQueue, XmitResume,
       XmitRefuse, XmitAgain, TxCompleteOne, RxOne, RefillOne, SynInit, SynDeinit, xmitVars,
       OtherStep, IrqClear, IrqDisable, IrqSchedule, PollBegin, TxCompleteBreak, RxBreak,
       RefillStop, PollEnd, PollEnable, SynInitFails, OpenDma, OpenNapi, OpenIrq,
       CloseDma, OverrideStop, StopDma, CloseIrq, CloseNapi, CloseWait, HwTx, HwTxSuspend,
       HwRx, HwRxNoBuffer, vars
<1>3. CASE OtherStep
  BY <1>1, <1>2, <1>3, OtherKeeps DEF IInv, SkbTypes
<1>4. CASE SynDeinit
  BY <1>1, <1>2, <1>4, DeinitFinds DEF SynDeinit, SkbTypes, xmitVars
<1>5. CASE SkbStep /\ ~SynDeinit
  BY <1>1, <1>2, <1>5 DEF SkbStep, XmitBegin, XmitMapFails, XmitQueue, XmitAgain,
       TxCompleteOne, RxOne, RefillOne, SynInit, SkbTypes, Skbs, xmitVars
<1> QED
  BY <1>3, <1>4, <1>5

\* syn_dp_rx begins with as many descriptors as are in use, or the budget.
LEMMA EnterRxFacts ==
  ASSUME IInv, EnterRx
  PROVE  /\ npc' \in {"rx", "refill"} /\ nwork' = 0 /\ nbusy' \in 0 .. RingSize
         /\ npc' = "rx" => 1 <= nbusy' /\ nbusy' <= busy_rx_desc /\ nbusy' <= Budget
<1>1. busy_rx_desc \in 0 .. RingSize
  BY TypeParts DEF IInv, RingTypes
<1> QED
  BY <1>1, SynAssumption, RingAssumption DEF EnterRx

\* The steps of the poll keep the places in the code and the loop counters.
LEMMA LoopKept ==
  ASSUME IInv, SkbStep \/ OtherStep
  PROVE  /\ npc' \in {"idle", "tx", "rx", "refill", "end"}
         /\ nbusy' \in 0 .. RingSize /\ nwork' \in 0 .. Budget
         /\ LoopInv'
<1> DEFINE Kept == /\ npc' \in {"idle", "tx", "rx", "refill", "end"}
                   /\ nbusy' \in 0 .. RingSize /\ nwork' \in 0 .. Budget
                   /\ LoopInv'
<1>1. RingTypes
  BY TypeParts DEF IInv
<1>2. /\ npc \in {"idle", "tx", "rx", "refill", "end"}
      /\ nbusy \in 0 .. RingSize /\ nwork \in 0 .. Budget
      /\ busy_tx_desc \in 0 .. RingSize /\ busy_rx_desc \in 0 .. RingSize
  BY TypeParts DEF IInv, PlaceTypes, RingTypes
<1>3. LoopInv
  BY DEF IInv
<1>4. 0 \in 0 .. RingSize /\ 0 \in 0 .. Budget /\ Budget \in 0 .. Budget
  BY RingAssumption, SynAssumption
<1>5. CASE UNCHANGED <<npc, nbusy, nwork, busy_tx_desc, busy_rx_desc>>
  BY <1>2, <1>3, <1>5 DEF LoopInv
<1>6. ASSUME NEW c \in CPUs, XmitQueue(c) PROVE Kept
  <2>1. npc # "tx" /\ UNCHANGED <<npc, nbusy, nwork, busy_rx_desc>>
    BY <1>6 DEF XmitQueue, DataLockFree, pollVars, rxVars
  <2> QED
    BY <1>2, <1>3, <2>1 DEF LoopInv
<1>7. ASSUME NEW s \in RxSkbs, RefillOne(s) PROVE Kept
  BY <1>2, <1>7 DEF RefillOne, pollVars, LoopInv
<1>8. CASE SynInit
  BY <1>2, <1>8 DEF SynInit, LoopInv
<1>9. CASE PollBegin
  <2>1. UNCHANGED <<busy_tx_desc, busy_rx_desc>>
    BY <1>9 DEF PollBegin, txVars, rxVars
  <2>2. CASE busy_tx_desc = 0
    BY <1>2, <1>4, <1>9, <2>1, <2>2, EnterRxFacts DEF PollBegin, LoopInv
  <2>3. CASE busy_tx_desc # 0
    BY <1>2, <1>9, <2>1, <2>3 DEF PollBegin, LoopInv
  <2> QED
    BY <2>2, <2>3
<1>10. CASE TxCompleteOne
  <2>1. tx_skb_list[tx_busy] # NULL /\ npc = "tx"
    BY <1>10, CompleteFinds DEF TxCompleteOne
  <2>2. UNCHANGED busy_rx_desc /\ busy_tx_desc' = busy_tx_desc - 1
    BY <1>10, <2>1 DEF TxCompleteOne, rxVars
  <2>3. CASE nbusy = 1
    BY <1>2, <1>4, <1>10, <2>1, <2>2, <2>3, EnterRxFacts DEF TxCompleteOne, LoopInv
  <2>4. CASE nbusy # 1
    <3>1. npc' = npc /\ nwork' = nwork /\ nbusy' = nbusy - 1
      BY <1>10, <2>1, <2>4 DEF TxCompleteOne
    <3> QED
      BY <1>2, <1>3, <2>1, <2>2, <2>4, <3>1, RingAssumption DEF LoopInv
  <2> QED
    BY <2>3, <2>4
<1>11. CASE TxCompleteBreak
  BY <1>2, <1>4, <1>11, EnterRxFacts DEF TxCompleteBreak, LoopInv, txVars, rxVars
<1>12. CASE RxOne
  <2>1. /\ npc = "rx" /\ nbusy' = nbusy - 1 /\ busy_rx_desc' = busy_rx_desc - 1
        /\ IF nbusy = 1 THEN npc' = "refill" /\ nwork' = Budget
                        ELSE npc' = npc /\ nwork' = nwork
    BY <1>12 DEF RxOne
  <2>2. 1 <= nbusy /\ nbusy <= busy_rx_desc /\ nbusy <= Budget
    BY <1>3, <2>1 DEF LoopInv
  <2> QED
    BY <1>2, <1>4, <2>1, <2>2, RingAssumption, SynAssumption DEF LoopInv
<1>13. CASE RxBreak
  <2>1. Budget - nbusy \in 0 .. Budget
    BY <1>2, <1>3, <1>13, SynAssumption DEF RxBreak, LoopInv
  <2> QED
    BY <1>2, <1>4, <1>13, <2>1 DEF RxBreak, LoopInv
<1>14. CASE RefillStop
  BY <1>2, <1>14 DEF RefillStop, LoopInv
<1>15. CASE PollEnd
  BY <1>2, <1>4, <1>15 DEF PollEnd, LoopInv
<1>16. ASSUME NEW c \in CPUs, XmitResume(c) \/ XmitMapFails(c) \/ XmitAgain(c) PROVE Kept
  BY <1>5, <1>16 DEF XmitResume, XmitMapFails, XmitAgain, pollVars, txVars, rxVars
<1>17. CASE \/ (\E c \in CPUs, s \in TxSkbs : XmitBegin(c, s) \/ XmitRefuse(c, s))
            \/ SynDeinit
            \/ IrqClear \/ IrqDisable \/ IrqSchedule \/ PollEnable
            \/ SynInitFails \/ OpenDma \/ OpenNapi \/ OpenIrq
            \/ CloseDma \/ OverrideStop \/ CloseIrq \/ CloseNapi \/ CloseWait
            \/ HwTx \/ HwTxSuspend \/ HwRx \/ HwRxNoBuffer \/ UNCHANGED vars
  BY <1>5, <1>17 DEF XmitBegin, XmitRefuse, OverrideStop, StopDma, SynDeinit, IrqClear, IrqDisable, IrqSchedule, PollEnable,
       SynInitFails, OpenDma, OpenNapi, OpenIrq, CloseDma, CloseIrq, CloseNapi, CloseWait,
       HwTx, HwTxSuspend, HwRx, HwRxNoBuffer, vars, pollVars, txVars, rxVars
<1> QED
  BY <1>6, <1>7, <1>8, <1>9, <1>10, <1>11, <1>12, <1>13, <1>14, <1>15, <1>16, <1>17
     DEF SkbStep, OtherStep

\* The stages of the configuration task, and what may run at each.
LEMMA StagesKept ==
  ASSUME IInv, SkbStep \/ OtherStep
  PROVE  /\ irq' \in {"idle", "disable", "schedule"}
         /\ napi' \in {"off", "on", "disabling"}
         /\ adm' \in {"down", "setup", "closed", "open_napi", "open_irq", "open",
                      "close_irq", "close_napi", "close_wait"}
         /\ AdmInv'
<1> DEFINE Stages == {"down", "setup", "closed", "open_napi", "open_irq", "open",
                      "close_irq", "close_napi", "close_wait"}
           Kept == /\ irq' \in {"idle", "disable", "schedule"}
                   /\ napi' \in {"off", "on", "disabling"}
                   /\ adm' \in Stages
                   /\ AdmInv'
<1>1. /\ irq \in {"idle", "disable", "schedule"}
      /\ napi \in {"off", "on", "disabling"}
      /\ adm \in Stages
      /\ npc \in {"idle", "tx", "rx", "refill", "end"}
      /\ xpc \in [CPUs -> {"idle", "queue", "resume", "requeued"}]
  BY TypeParts DEF IInv, PlaceTypes, SkbTypes
<1>2. AdmInv
  BY DEF IInv
<1>3. ASSUME NEW c \in CPUs, \/ \E s \in TxSkbs : XmitBegin(c, s) \/ XmitRefuse(c, s)
                             \/ XmitMapFails(c) \/ XmitQueue(c) \/ XmitResume(c)
                             \/ XmitAgain(c)
      PROVE  Kept
  <2>1. UNCHANGED <<irq, napi, adm, direct, npc, sched, dma_on>>
    BY <1>3 DEF XmitBegin, XmitRefuse, XmitMapFails, XmitQueue, XmitResume, XmitAgain,
         dmaVars, irqVars, napiVars, pollVars, admVars
  <2>2. \A d \in CPUs : xpc'[d] \in {"queue", "resume"} =>
          xpc[d] \in {"queue", "resume"} \/ adm = "open" \/ direct
    BY <1>1, <1>3 DEF XmitBegin, XmitRefuse, XmitMapFails, XmitQueue, XmitResume,
         XmitAgain, MayXmit, xmitVars
  <2> QED
    BY <1>1, <1>2, <2>1, <2>2 DEF AdmInv
<1>4. CASE IrqClear \/ IrqDisable \/ IrqSchedule
  <2>1. UNCHANGED <<napi, adm, direct, npc, dma_on, xpc>>
    BY <1>4 DEF IrqClear, IrqDisable, IrqSchedule, dmaVars, napiVars, pollVars, admVars,
         xmitVars
  <2>2. irq' \in {"idle", "disable", "schedule"}
    BY <1>4 DEF IrqClear, IrqDisable, IrqSchedule
  <2>3. (sched' => sched \/ napi = "on") /\ (sched => sched')
    <3>1. CASE IrqSchedule
      BY <3>1, Zenon DEF IrqSchedule
    <3>2. CASE IrqClear \/ IrqDisable
      <4>1. sched' = sched
        BY <3>2 DEF IrqClear, IrqDisable, napiVars
      <4> QED
        BY <4>1, Zenon
    <3> QED
      BY <1>4, <3>1, <3>2
  <2> QED
    BY <1>1, <1>2, <2>1, <2>2, <2>3 DEF AdmInv
<1>5. CASE PollBegin
  <2>1. npc' \in {"tx", "rx", "refill"}
    BY <1>5 DEF PollBegin, EnterRx
  <2>2. UNCHANGED <<irq, napi, adm, direct, sched, dma_on, xpc>> /\ sched
    BY <1>5 DEF PollBegin, dmaVars, irqVars, admVars, xmitVars
  <2> QED
    BY <1>1, <1>2, <2>1, <2>2 DEF AdmInv
<1>6. CASE TxCompleteOne \/ TxCompleteBreak \/ RxOne \/ RxBreak
             \/ \E s \in RxSkbs : RefillOne(s)
  <2>1. UNCHANGED <<irq, napi, adm, direct, sched, dma_on, xpc>>
    BY <1>6 DEF TxCompleteOne, TxCompleteBreak, RxOne, RxBreak, RefillOne,
         dmaVars, irqVars, napiVars, admVars, xmitVars
  <2>2. /\ npc # "idle" /\ npc' # "idle"
        /\ npc = "refill" => npc' = "refill"
    BY <1>6 DEF TxCompleteOne, TxCompleteBreak, RxOne, RxBreak, RefillOne, EnterRx, pollVars
  <2> QED
    BY <1>1, <1>2, <2>1, <2>2 DEF AdmInv
<1>7. CASE RefillStop
  BY <1>1, <1>2, <1>7 DEF RefillStop, AdmInv, dmaVars, irqVars, napiVars, xmitVars
<1>8. CASE PollEnd \/ PollEnable
  <2>1. UNCHANGED <<irq, napi, adm, direct, dma_on, xpc>>
    BY <1>8 DEF PollEnd, PollEnable, dmaVars, irqVars, napiVars, admVars, xmitVars
  <2>2. \/ npc = "end" /\ npc' = "idle" /\ (sched' => napi = "on")
        \/ UNCHANGED <<npc, sched>>
    BY <1>8 DEF PollEnd, PollEnable, napiVars
  <2> QED
    BY <1>1, <1>2, <2>1, <2>2 DEF AdmInv
<1>9. CASE SynInit
  BY <1>1, <1>2, <1>9 DEF SynInit, NobodySends, AdmInv, irqVars, napiVars, xmitVars
<1>10. CASE SynDeinit
  BY <1>1, <1>2, <1>10 DEF SynDeinit, AdmInv, irqVars, napiVars, xmitVars, pollVars, dmaVars
<1>11. CASE SynInitFails \/ OpenDma \/ OpenNapi \/ OpenIrq
  BY <1>1, <1>2, <1>11 DEF SynInitFails, OpenDma, NobodySends, OpenNapi, OpenIrq, AdmInv,
       dmaVars, irqVars, napiVars, pollVars, xmitVars
<1>12. CASE CloseDma \/ OverrideStop \/ CloseIrq \/ CloseNapi \/ CloseWait
  BY <1>1, <1>2, <1>12 DEF CloseDma, NobodySends, OverrideStop, StopDma, CloseIrq, CloseNapi, CloseWait, AdmInv,
       dmaVars, irqVars, napiVars, pollVars, xmitVars
<1>13. CASE HwTx \/ HwTxSuspend \/ HwRx \/ HwRxNoBuffer \/ UNCHANGED vars
  BY <1>1, <1>2, <1>13 DEF HwTx, HwTxSuspend, HwRx, HwRxNoBuffer, vars, AdmInv,
       dmaVars, irqVars, napiVars, pollVars, admVars, xmitVars
<1> QED
  BY <1>3, <1>4, <1>5, <1>6, <1>7, <1>8, <1>9, <1>10, <1>11, <1>12, <1>13
     DEF SkbStep, OtherStep

\* The bugs: a transmitter that lost the last descriptor or was not waited for,
\* and an skb that was freed and refused.
LEMMA BugKept ==
  ASSUME IInv, (bug = "none" /\ (SkbStep \/ OtherStep)) \/ UNCHANGED vars
  PROVE  OnlyTxRaceBugs' /\ FreedInv'
<1> DEFINE Kept == OnlyTxRaceBugs' /\ FreedInv'
<1>1. OnlyTxRaceBugs /\ FreedInv /\ TypeOK /\ AdmInv
  BY DEF IInv
<1>2. CASE UNCHANGED vars
  <2>1. UNCHANGED <<bug, busy_tx_desc, direct, xpc>>
    BY <1>2 DEF vars, txVars, admVars, xmitVars
  <2> QED
    BY <1>1, <2>1 DEF OnlyTxRaceBugs, FreedInv
<1>3. CASE bug' = "none"
  BY <1>3 DEF OnlyTxRaceBugs, FreedInv
<1>4. CASE bug = "none" /\ OtherStep
  BY <1>1, <1>3, <1>4, OtherKeeps
<1>5. ASSUME bug = "none", NEW c \in CPUs, XmitQueue(c) PROVE Kept
  <2>1. CASE QueueFault = "none"
    BY <1>3, <1>5, <2>1 DEF XmitQueue
  <2>2. CASE QueueFault # "none"
    <3>1. /\ bug' = QueueFault /\ xpc[c] = "queue"
          /\ UNCHANGED <<busy_tx_desc, direct>>
      BY <1>5, <2>2 DEF XmitQueue, txVars, admVars
    <3>2. adm = "down" => direct
      BY <1>1, <3>1 DEF AdmInv
    <3> QED
      BY <2>2, <3>1, <3>2, FaultCases, QueueFinds DEF OnlyTxRaceBugs, FreedInv
  <2> QED
    BY <2>1, <2>2
<1>6. ASSUME bug = "none", NEW c \in CPUs, XmitAgain(c) PROVE Kept
  BY <1>6 DEF XmitAgain, OnlyTxRaceBugs, FreedInv, xmitVars
<1>7. CASE bug = "none" /\ TxCompleteOne
  BY <1>3, <1>7, CompleteFinds DEF TxCompleteOne
<1>8. ASSUME bug = "none", NEW s \in RxSkbs, RefillOne(s) PROVE Kept
  BY <1>3, <1>8, RefillFinds DEF RefillOne
<1>9. CASE bug = "none" /\ (RxOne \/ SynInit \/ SynDeinit)
  BY <1>3, <1>9 DEF RxOne, SynInit, SynDeinit
<1>10. ASSUME bug = "none", NEW c \in CPUs,
              (\E s \in TxSkbs : XmitBegin(c, s)) \/ XmitMapFails(c)
       PROVE  Kept
  BY <1>3, <1>10 DEF XmitBegin, XmitMapFails
<1> QED
  BY <1>2, <1>4, <1>5, <1>6, <1>7, <1>8, <1>9, <1>10 DEF SkbStep

\* The Tx ring keeps its shape.
LEMMA TxShapeKept == ASSUME IInv, SkbStep \/ OtherStep PROVE TxShape'
<1> DEFINE Shape == RingShape(tx_desc, tx_skb_list, tx_busy, tx_next, busy_tx_desc, tx_cur)
<1>1. RingTypes
  BY TypeParts DEF IInv
<1>2. adm # "down" => Shape
  BY DEF IInv, TxShape
<1>3. CASE UNCHANGED <<tx_desc, tx_skb_list, tx_busy, tx_next, busy_tx_desc, tx_cur>>
             /\ (adm = "down" => adm' = "down")
  BY <1>2, <1>3 DEF TxShape
<1>4. CASE OtherStep
  <2>1. /\ UNCHANGED <<tx_skb_list, tx_next, tx_busy, busy_tx_desc>>
        /\ adm' = "down" <=> adm = "down"
    BY <1>4, OtherKeeps DEF IInv
  <2>2. CASE HwTx
    <3>1. Shape
      BY <1>2, <2>2 DEF HwTx, IInv, AdmInv
    <3>2. /\ tx_desc[tx_cur] = "dma" /\ tx_desc' = [tx_desc EXCEPT ![tx_cur] = "done"]
          /\ tx_cur' = NextIdx(tx_cur)
      BY <2>2 DEF HwTx
    <3> QED
      BY <1>1, <2>1, <3>1, <3>2, ShapeAdvance DEF TxShape, RingTypes
  <2>3. CASE UNCHANGED <<tx_desc, tx_cur>>
    BY <1>3, <2>1, <2>3
  <2> QED
    BY <1>4, <2>2, <2>3, OtherKeepsDma
<1>5. ASSUME NEW c \in CPUs, XmitQueue(c) PROVE TxShape'
  <2>1. UNCHANGED <<tx_cur, adm>>
    BY <1>5 DEF XmitQueue, dmaVars, admVars
  <2>2. CASE QueueFault # "none"
    BY <1>3, <1>5, <2>1, <2>2 DEF XmitQueue, txVars
  <2>3. CASE QueueFault = "none"
    <3>1. Shape /\ xskb[c] # NULL /\ tx_desc[tx_next] = "empty"
      BY <1>2, <1>5, <2>3, FaultCases, XmitFinds, NullAssumption DEF XmitQueue
    <3>2. /\ tx_desc' = [tx_desc EXCEPT ![tx_next] = "dma"]
          /\ tx_skb_list' = [tx_skb_list EXCEPT ![tx_next] = xskb[c]]
          /\ tx_next' = NextIdx(tx_next) /\ busy_tx_desc' = busy_tx_desc + 1
          /\ tx_busy' = tx_busy
      BY <1>5, <2>3 DEF XmitQueue, SetTxQptr
    <3> QED
      BY <1>1, <2>1, <3>1, <3>2, ShapeProduce DEF TxShape, RingTypes
  <2> QED
    BY <2>2, <2>3
<1>6. CASE TxCompleteOne
  <2>1. Shape /\ busy_tx_desc > 0 /\ tx_skb_list[tx_busy] # NULL
    BY <1>2, <1>6, CompleteFinds DEF TxCompleteOne
  <2>2. /\ tx_desc[tx_busy] # "dma"
        /\ tx_desc' = [tx_desc EXCEPT ![tx_busy] = "empty"]
        /\ tx_skb_list' = [tx_skb_list EXCEPT ![tx_busy] = NULL]
        /\ tx_busy' = NextIdx(tx_busy) /\ busy_tx_desc' = busy_tx_desc - 1
        /\ tx_next' = tx_next /\ tx_cur' = tx_cur
    BY <1>6, <2>1 DEF TxCompleteOne, dmaVars
  <2> QED
    BY <1>1, <2>1, <2>2, ShapeConsume DEF TxShape, RingTypes
<1>7. CASE SynInit
  BY <1>7, ShapeEmpty DEF SynInit, TxShape
<1>8. CASE SynDeinit
  BY <1>8 DEF SynDeinit, TxShape
<1>9. CASE \/ \E c \in CPUs, s \in TxSkbs : XmitBegin(c, s)
           \/ \E c \in CPUs : XmitMapFails(c) \/ XmitAgain(c)
           \/ RxOne \/ \E s \in RxSkbs : RefillOne(s)
  BY <1>3, <1>9 DEF XmitBegin, XmitMapFails, XmitAgain, RxOne, RefillOne, txVars, dmaVars, admVars
<1> QED
  BY <1>4, <1>5, <1>6, <1>7, <1>8, <1>9 DEF SkbStep

\* The Rx ring keeps its shape.
LEMMA RxShapeKept == ASSUME IInv, SkbStep \/ OtherStep PROVE RxShape'
<1> DEFINE Shape == RingShape(rx_desc, rx_skb_list, rx_busy, rx_next, busy_rx_desc, rx_cur)
<1>1. RingTypes
  BY TypeParts DEF IInv
<1>2. adm # "down" => Shape
  BY DEF IInv, RxShape
<1>3. CASE UNCHANGED <<rx_desc, rx_skb_list, rx_busy, rx_next, busy_rx_desc, rx_cur>>
             /\ (adm = "down" => adm' = "down")
  BY <1>2, <1>3 DEF RxShape
<1>4. CASE OtherStep
  <2>1. /\ UNCHANGED <<rx_skb_list, rx_next, rx_busy, busy_rx_desc>>
        /\ adm' = "down" <=> adm = "down"
    BY <1>4, OtherKeeps DEF IInv
  <2>2. CASE HwRx
    <3>1. Shape
      BY <1>2, <2>2 DEF HwRx, IInv, AdmInv
    <3>2. /\ rx_desc[rx_cur] = "dma" /\ rx_desc' = [rx_desc EXCEPT ![rx_cur] = "done"]
          /\ rx_cur' = NextIdx(rx_cur)
      BY <2>2 DEF HwRx
    <3> QED
      BY <1>1, <2>1, <3>1, <3>2, ShapeAdvance DEF RxShape, RingTypes
  <2>3. CASE UNCHANGED <<rx_desc, rx_cur>>
    BY <1>3, <2>1, <2>3
  <2> QED
    BY <1>4, <2>2, <2>3, OtherKeepsDma
<1>5. ASSUME NEW s \in RxSkbs, RefillOne(s) PROVE RxShape'
  <2>1. Shape /\ rx_desc[rx_next] = "empty" /\ s # NULL
    BY <1>2, <1>5, RefillFinds, NullAssumption DEF RefillOne
  <2>2. /\ rx_desc' = [rx_desc EXCEPT ![rx_next] = "dma"]
        /\ rx_skb_list' = [rx_skb_list EXCEPT ![rx_next] = s]
        /\ rx_next' = NextIdx(rx_next) /\ busy_rx_desc' = busy_rx_desc + 1
        /\ rx_busy' = rx_busy /\ rx_cur' = rx_cur
    BY <1>5, <2>1 DEF RefillOne, dmaVars
  <2> QED
    BY <1>1, <2>1, <2>2, ShapeProduce DEF RxShape, RingTypes
<1>6. CASE RxOne
  <2>1. Shape /\ busy_rx_desc > 0
    BY <1>2, <1>6, RxFinds DEF RxOne
  <2>2. /\ rx_desc[rx_busy] # "dma"
        /\ rx_desc' = [rx_desc EXCEPT ![rx_busy] = "empty"]
        /\ rx_skb_list' = [rx_skb_list EXCEPT ![rx_busy] = NULL]
        /\ rx_busy' = NextIdx(rx_busy) /\ busy_rx_desc' = busy_rx_desc - 1
        /\ rx_next' = rx_next /\ rx_cur' = rx_cur
    BY <1>6 DEF RxOne, dmaVars
  <2> QED
    BY <1>1, <2>1, <2>2, ShapeConsume DEF RxShape, RingTypes
<1>7. CASE SynInit
  BY <1>7, ShapeEmpty DEF SynInit, RxShape
<1>8. CASE SynDeinit
  BY <1>8 DEF SynDeinit, RxShape
<1>9. CASE \/ \E c \in CPUs, s \in TxSkbs : XmitBegin(c, s)
           \/ \E c \in CPUs : XmitMapFails(c) \/ XmitQueue(c) \/ XmitAgain(c)
           \/ TxCompleteOne
  BY <1>3, <1>9 DEF XmitBegin, XmitMapFails, XmitQueue, XmitAgain, TxCompleteOne, rxVars, dmaVars, admVars
<1> QED
  BY <1>4, <1>5, <1>6, <1>7, <1>8, <1>9 DEF SkbStep

-----------------------------------------------------------------------------
(* The descriptors in use after each step of a ring. *)

LEMMA QueueUses ==
  ASSUME IInv, NEW c \in CPUs, XmitQueue(c), QueueFault = "none"
  PROVE  \A i \in Slots : TxUsed(i)' <=> TxUsed(i) \/ i = tx_next
<1>1. adm # "down" /\ adm' = adm /\ tx_desc[tx_next] = "empty"
  BY FaultCases DEF XmitQueue, admVars
<1>2. busy_tx_desc < RingSize /\ tx_next = Wrapped(tx_busy + busy_tx_desc)
  <2>1. busy_tx_desc # RingSize /\ busy_tx_desc \in 0 .. RingSize
    BY <1>1, QueueFinds, TypeParts DEF IInv, RingTypes
  <2> QED
    BY <1>1, <2>1, RingAssumption DEF IInv, TxShape, RingShape
<1>3. tx_busy' = tx_busy /\ busy_tx_desc' = busy_tx_desc + 1
  BY DEF XmitQueue
<1>4. tx_busy \in Slots /\ busy_tx_desc \in 0 .. RingSize
  BY TypeParts DEF IInv, RingTypes
<1> QED
  BY <1>1, <1>2, <1>3, <1>4, InUseProduce DEF TxUsed

LEMMA CompleteUses ==
  ASSUME IInv, TxCompleteOne
  PROVE  \A i \in Slots : TxUsed(i)' <=> TxUsed(i) /\ i # tx_busy
<1>1. npc = "tx"
  BY DEF TxCompleteOne
<1>2. adm # "down" /\ busy_tx_desc > 0 /\ tx_skb_list[tx_busy] # NULL
  BY <1>1, CompleteFinds
<1>3. adm' = adm /\ tx_busy' = NextIdx(tx_busy) /\ busy_tx_desc' = busy_tx_desc - 1
  BY <1>2 DEF TxCompleteOne, admVars
<1>4. tx_busy \in Slots /\ busy_tx_desc \in 0 .. RingSize
  BY TypeParts DEF IInv, RingTypes
<1> QED
  BY <1>2, <1>3, <1>4, InUseConsume DEF TxUsed

LEMMA RefillUses ==
  ASSUME IInv, NEW s \in RxSkbs, RefillOne(s)
  PROVE  \A i \in Slots : RxUsed(i)' <=> RxUsed(i) \/ i = rx_next
<1>1. npc = "refill" /\ busy_rx_desc < RingSize
  BY DEF RefillOne
<1>2. adm # "down" /\ rx_desc[rx_next] = "empty"
  BY <1>1, RefillFinds
<1>3. rx_next = Wrapped(rx_busy + busy_rx_desc)
  BY <1>2 DEF IInv, RxShape, RingShape
<1>4. adm' = adm /\ rx_busy' = rx_busy /\ busy_rx_desc' = busy_rx_desc + 1
  BY <1>2 DEF RefillOne, admVars
<1>5. rx_busy \in Slots /\ busy_rx_desc \in 0 .. RingSize
  BY TypeParts DEF IInv, RingTypes
<1> QED
  BY <1>1, <1>2, <1>3, <1>4, <1>5, InUseProduce DEF RxUsed

LEMMA RxOneUses ==
  ASSUME IInv, RxOne
  PROVE  \A i \in Slots : RxUsed(i)' <=> RxUsed(i) /\ i # rx_busy
<1>1. adm # "down" /\ busy_rx_desc > 0
  BY RxFinds DEF RxOne
<1>2. adm' = adm /\ rx_busy' = NextIdx(rx_busy) /\ busy_rx_desc' = busy_rx_desc - 1
  BY DEF RxOne, admVars
<1>3. rx_busy \in Slots /\ busy_rx_desc \in 0 .. RingSize
  BY TypeParts DEF IInv, RingTypes
<1> QED
  BY <1>1, <1>2, <1>3, InUseConsume DEF RxUsed

\* A new ring has no descriptor in use.
LEMMA InitUses ==
  ASSUME SynInit
  PROVE  \A i \in Slots : ~TxUsed(i)' /\ ~RxUsed(i)'
<1>1. tx_busy' = 0 /\ busy_tx_desc' = 0 /\ rx_busy' = 0 /\ busy_rx_desc' = 0
  BY DEF SynInit
<1> QED
  BY <1>1, RingAssumption DEF TxUsed, RxUsed, InUse, Dist, Slots

LEMMA SameUses ==
  /\ UNCHANGED <<tx_busy, busy_tx_desc>> /\ (adm' = "down" <=> adm = "down")
       => \A i \in Slots : TxUsed(i)' <=> TxUsed(i)
  /\ UNCHANGED <<rx_busy, busy_rx_desc>> /\ (adm' = "down" <=> adm = "down")
       => \A i \in Slots : RxUsed(i)' <=> RxUsed(i)
BY DEF TxUsed, RxUsed

\* Nothing is in use of a data plane that is down.
LEMMA DownUses ==
  ASSUME adm' = "down"
  PROVE  \A i \in Slots : ~TxUsed(i)' /\ ~RxUsed(i)'
BY DEF TxUsed, RxUsed

\* The skb of a descriptor in use.
LEMMA UsedSkbs ==
  ASSUME IInv
  PROVE  /\ \A i \in Slots : TxUsed(i) => tx_skb_list[i] \in TxSkbs
         /\ \A i \in Slots : RxUsed(i) => rx_skb_list[i] \in RxSkbs
<1>1. RingTypes
  BY TypeParts DEF IInv
<1> QED
  BY <1>1 DEF IInv, TxShape, RxShape, RingShape, TxUsed, RxUsed, RingTypes

-----------------------------------------------------------------------------
(* Every step leaves each skb in one place. *)

SkbInv == XmitInv /\ TxSkbInv /\ RxSkbInv /\ LocatedInv

\* The transmitters' and the receiver's skbs differ.
LEMMA SkbKinds ==
  /\ \A s \in TxSkbs : s \in Skbs /\ s \notin RxSkbs
  /\ \A s \in RxSkbs : s \in Skbs /\ s \notin TxSkbs
BY SynAssumption DEF Skbs

LEMMA BeginAccounts ==
  ASSUME IInv, NEW c \in CPUs, NEW s \in TxSkbs, XmitBegin(c, s)
  PROVE  SkbInv'
<1>1. RingTypes /\ SkbTypes
  BY TypeParts DEF IInv
<1>2. /\ owner[s] = "out" /\ owner' = [owner EXCEPT ![s] = "driver"]
      /\ xpc[c] = "idle" /\ xpc' = [xpc EXCEPT ![c] = "queue"]
      /\ xskb' = [xskb EXCEPT ![c] = s]
      /\ leaked' = leaked /\ tx_skb_list' = tx_skb_list /\ rx_skb_list' = rx_skb_list
  BY DEF XmitBegin, txVars, rxVars
<1>3. \A i \in Slots : (TxUsed(i)' <=> TxUsed(i)) /\ (RxUsed(i)' <=> RxUsed(i))
  BY SameUses DEF XmitBegin, txVars, rxVars, admVars
<1>4. /\ owner'[s] = "driver" /\ xpc'[c] = "queue" /\ xskb'[c] = s /\ s # NULL /\ xskb[c] = NULL
      /\ \A t \in Skbs : t # s => owner'[t] = owner[t]
      /\ \A d \in CPUs : d # c => xpc'[d] = xpc[d] /\ xskb'[d] = xskb[d]
  BY <1>1, <1>2, SkbKinds, NullAssumption DEF SkbTypes, IInv, XmitInv
<1>5. \A d \in CPUs : xskb[d] # s
  BY <1>2, <1>4 DEF IInv, XmitInv
<1>6. s \notin leaked
  BY <1>2 DEF IInv, LocatedInv
<1>7. /\ \A i \in Slots : TxUsed(i) => tx_skb_list[i] # s /\ tx_skb_list[i] \in Skbs
      /\ \A i \in Slots : RxUsed(i) => rx_skb_list[i] # s /\ rx_skb_list[i] \in Skbs
  BY <1>2, UsedSkbs, SkbKinds DEF IInv, TxSkbInv, RxSkbInv
<1>8. \A d \in CPUs : xskb[d] # NULL => xskb[d] \in Skbs
  BY <1>1 DEF SkbTypes, Skbs
<1>9. XmitInv'
  BY <1>2, <1>4, <1>5, <1>6, <1>8 DEF IInv, XmitInv
<1>10. TxSkbInv' /\ RxSkbInv'
  BY <1>2, <1>3, <1>4, <1>7 DEF IInv, TxSkbInv, RxSkbInv
<1>11. ASSUME NEW t \in Skbs, owner'[t] = "driver" PROVE Located(t)'
  <2>1. CASE t = s
    BY <1>4, <2>1 DEF Located
  <2>2. CASE t # s
    <3>1. Located(t)
      BY <1>4, <1>11, <2>2 DEF IInv, LocatedInv
    <3>2. t # NULL
      BY NullAssumption
    <3> QED
      BY <1>2, <1>3, <1>4, <3>1, <3>2 DEF Located
  <2> QED
    BY <2>1, <2>2
<1>12. \A t \in leaked' : owner'[t] = "driver"
  BY <1>1, <1>2, <1>4 DEF IInv, LocatedInv, SkbTypes
<1> QED
  BY <1>9, <1>10, <1>11, <1>12 DEF SkbInv, LocatedInv

LEMMA MapFailsAccounts ==
  ASSUME IInv, NEW c \in CPUs, XmitMapFails(c)
  PROVE  SkbInv'
<1>1. RingTypes /\ SkbTypes
  BY TypeParts DEF IInv
<1> DEFINE s == xskb[c]
<1>2. /\ owner' = [owner EXCEPT ![s] = "out"]
      /\ xpc' = [xpc EXCEPT ![c] = "requeued"]
      /\ xskb' = [xskb EXCEPT ![c] = NULL]
      /\ leaked' = leaked /\ tx_skb_list' = tx_skb_list /\ rx_skb_list' = rx_skb_list
  BY DEF XmitMapFails, txVars, rxVars
<1>3. \A i \in Slots : (TxUsed(i)' <=> TxUsed(i)) /\ (RxUsed(i)' <=> RxUsed(i))
  BY SameUses DEF XmitMapFails, txVars, rxVars, admVars
<1>4. s \in TxSkbs /\ s # NULL /\ s \notin leaked
  BY XmitFinds, NullAssumption DEF XmitMapFails, IInv, XmitInv
<1> HIDE DEF s
<1>5. /\ owner'[s] = "out" /\ xpc'[c] = "requeued" /\ xskb'[c] = NULL
      /\ \A t \in Skbs : t # s => owner'[t] = owner[t]
      /\ \A d \in CPUs : d # c => xpc'[d] = xpc[d] /\ xskb'[d] = xskb[d]
  BY <1>1, <1>2, <1>4, SkbKinds DEF SkbTypes
<1>6. \A d \in CPUs : d # c => xskb[d] # s
  BY <1>4 DEF IInv, XmitInv, s
<1>7. /\ \A i \in Slots : TxUsed(i) => tx_skb_list[i] # s /\ tx_skb_list[i] \in Skbs
      /\ \A i \in Slots : TxUsed(i) => tx_skb_list[i] # NULL
      /\ \A i \in Slots : RxUsed(i) => rx_skb_list[i] # s /\ rx_skb_list[i] \in Skbs
  BY <1>4, UsedSkbs, SkbKinds, NullAssumption DEF IInv, TxSkbInv, s
<1>8. \A d \in CPUs : xskb[d] # NULL => xskb[d] \in Skbs
  BY <1>1 DEF SkbTypes, Skbs
<1>9. XmitInv'
  BY <1>2, <1>5, <1>6, <1>8 DEF IInv, XmitInv
<1>10. TxSkbInv'
  BY <1>2, <1>3, <1>5, <1>7 DEF IInv, TxSkbInv
<1>11. RxSkbInv'
  BY <1>2, <1>3, <1>5, <1>7 DEF IInv, RxSkbInv
<1>12. ASSUME NEW t \in Skbs, owner'[t] = "driver" PROVE Located(t)'
  <2>1. t # s
    BY <1>5, <1>12
  <2>2. Located(t)
    BY <1>5, <1>12, <2>1 DEF IInv, LocatedInv
  <2> QED
    BY <1>2, <1>3, <1>5, <2>1, <2>2 DEF Located, s
<1>13. \A t \in leaked' : owner'[t] = "driver"
  BY <1>1, <1>2, <1>4, <1>5 DEF IInv, LocatedInv, SkbTypes
<1> QED
  BY <1>9, <1>10, <1>11, <1>12, <1>13 DEF SkbInv, LocatedInv

LEMMA QueueAccounts ==
  ASSUME IInv, NEW c \in CPUs, XmitQueue(c), QueueFault = "none"
  PROVE  SkbInv'
<1>1. RingTypes /\ SkbTypes
  BY TypeParts DEF IInv
<1> DEFINE s == xskb[c]
           n == tx_next
<1>2. /\ tx_skb_list' = [tx_skb_list EXCEPT ![n] = s]
      /\ xpc' = [xpc EXCEPT ![c] = "resume"]
      /\ xskb' = [xskb EXCEPT ![c] = NULL]
      /\ leaked' = leaked /\ owner' = owner /\ rx_skb_list' = rx_skb_list
  BY DEF XmitQueue, SetTxQptr, rxVars
<1>3. /\ \A i \in Slots : TxUsed(i)' <=> TxUsed(i) \/ i = n
      /\ \A i \in Slots : RxUsed(i)' <=> RxUsed(i)
  BY QueueUses, SameUses DEF XmitQueue, rxVars, admVars
<1>4. s \in TxSkbs /\ s # NULL /\ s \notin leaked /\ owner[s] = "driver" /\ n \in Slots
  BY <1>1, XmitFinds, NullAssumption DEF XmitQueue, IInv, XmitInv, RingTypes
<1>5. /\ ~TxUsed(n)
      /\ \A d \in CPUs : d # c => xskb[d] # s
      /\ \A i \in Slots : TxUsed(i) => tx_skb_list[i] # s /\ tx_skb_list[i] # NULL
  <2>1. ~TxUsed(n)
    BY <1>4, FaultCases DEF IInv, TxShape, RingShape, TxUsed
  <2>2. \A d \in CPUs : d # c => xskb[d] # s
    BY <1>4 DEF IInv, XmitInv
  <2>3. \A i \in Slots : TxUsed(i) => tx_skb_list[i] # s /\ tx_skb_list[i] # NULL
    BY UsedSkbs, NullAssumption DEF IInv, TxSkbInv
  <2> QED
    BY <2>1, <2>2, <2>3
<1>6. /\ xpc'[c] = "resume" /\ xskb'[c] = NULL
      /\ \A d \in CPUs : d # c => xpc'[d] = xpc[d] /\ xskb'[d] = xskb[d]
      /\ tx_skb_list'[n] = s
      /\ \A i \in Slots : i # n => tx_skb_list'[i] = tx_skb_list[i]
  BY <1>1, <1>2, <1>4 DEF SkbTypes, RingTypes
<1>7. XmitInv'
  BY <1>2, <1>6 DEF IInv, XmitInv
<1>8. RxSkbInv'
  BY <1>2, <1>3 DEF IInv, RxSkbInv
<1>9. TxSkbInv /\ LocatedInv
  BY DEF IInv
<1>10. xskb[c] = s
  OBVIOUS
<1> HIDE DEF s, n
<1>11. TxSkbInv'
  BY <1>2, <1>3, <1>4, <1>5, <1>6, <1>9 DEF TxSkbInv
<1>12. ASSUME NEW t \in Skbs, owner'[t] = "driver" PROVE Located(t)'
  <2>1. CASE t = s
    BY <1>3, <1>4, <1>6, <2>1 DEF Located
  <2>2. CASE t # s
    <3>1. Located(t)
      BY <1>2, <1>9, <1>12 DEF LocatedInv
    <3> QED
      BY <1>2, <1>3, <1>5, <1>6, <1>10, <2>2, <3>1 DEF Located
  <2> QED
    BY <2>1, <2>2
<1>13. \A t \in leaked' : owner'[t] = "driver"
  BY <1>2, <1>9 DEF LocatedInv
<1> QED
  BY <1>7, <1>8, <1>11, <1>12, <1>13 DEF SkbInv, LocatedInv

LEMMA CompleteAccounts ==
  ASSUME IInv, TxCompleteOne
  PROVE  SkbInv'
<1>1. RingTypes /\ SkbTypes
  BY TypeParts DEF IInv
<1> DEFINE n == tx_busy
           s == tx_skb_list[n]
<1>2. s \in TxSkbs /\ s # NULL /\ TxUsed(n) /\ n \in Slots
  BY <1>1, CompleteFinds DEF TxCompleteOne, RingTypes
<1>3. /\ owner' = [owner EXCEPT ![s] = "out"]
      /\ tx_skb_list' = [tx_skb_list EXCEPT ![n] = NULL]
      /\ leaked' = leaked /\ xpc' = xpc /\ xskb' = xskb /\ rx_skb_list' = rx_skb_list
  BY <1>2 DEF TxCompleteOne, rxVars, xmitVars
<1>4. /\ \A i \in Slots : TxUsed(i)' <=> TxUsed(i) /\ i # n
      /\ \A i \in Slots : RxUsed(i)' <=> RxUsed(i)
  BY CompleteUses, SameUses DEF TxCompleteOne, rxVars, admVars
<1>5. tx_skb_list[n] = s
  OBVIOUS
<1> HIDE DEF s, n
<1>6. /\ owner'[s] = "out"
      /\ \A t \in Skbs : t # s => owner'[t] = owner[t]
      /\ \A i \in Slots : i # n => tx_skb_list'[i] = tx_skb_list[i]
  BY <1>1, <1>2, <1>3, SkbKinds DEF SkbTypes, RingTypes
<1>7. /\ s \notin leaked
      /\ \A c \in CPUs : xskb[c] # s
      /\ \A i \in Slots : TxUsed(i) /\ i # n => tx_skb_list[i] # s
  BY <1>2, <1>5 DEF IInv, TxSkbInv
<1>8. /\ \A i \in Slots : TxUsed(i) => tx_skb_list[i] \in Skbs
      /\ \A i \in Slots : RxUsed(i) => rx_skb_list[i] \in Skbs /\ rx_skb_list[i] # s
      /\ \A c \in CPUs : xskb[c] # NULL => xskb[c] \in Skbs
  BY <1>1, <1>2, UsedSkbs, SkbKinds DEF SkbTypes
<1>9. XmitInv'
  BY <1>3, <1>6, <1>7, <1>8 DEF IInv, XmitInv
<1>10. TxSkbInv'
  BY <1>3, <1>4, <1>6, <1>7, <1>8 DEF IInv, TxSkbInv
<1>11. RxSkbInv'
  BY <1>3, <1>4, <1>6, <1>8 DEF IInv, RxSkbInv
<1>12. ASSUME NEW t \in Skbs, owner'[t] = "driver" PROVE Located(t)'
  <2>1. t # s
    BY <1>6, <1>12
  <2>2. Located(t)
    BY <1>6, <1>12, <2>1 DEF IInv, LocatedInv
  <2> QED
    BY <1>3, <1>4, <1>5, <1>6, <2>1, <2>2 DEF Located
<1>13. \A t \in leaked' : owner'[t] = "driver"
  BY <1>1, <1>3, <1>6, <1>7 DEF IInv, LocatedInv, SkbTypes
<1> QED
  BY <1>9, <1>10, <1>11, <1>12, <1>13 DEF SkbInv, LocatedInv

LEMMA RxOneAccounts ==
  ASSUME IInv, RxOne
  PROVE  SkbInv'
<1>1. RingTypes /\ SkbTypes
  BY TypeParts DEF IInv
<1> DEFINE n == rx_busy
           s == rx_skb_list[n]
<1>2. s \in RxSkbs /\ RxUsed(n) /\ n \in Slots
  BY <1>1, RxFinds DEF RxOne, RingTypes
<1>3. /\ owner' = [owner EXCEPT ![s] = "out"]
      /\ rx_skb_list' = [rx_skb_list EXCEPT ![n] = NULL]
      /\ leaked' = leaked /\ xpc' = xpc /\ xskb' = xskb /\ tx_skb_list' = tx_skb_list
  BY DEF RxOne, txVars, xmitVars
<1>4. /\ \A i \in Slots : RxUsed(i)' <=> RxUsed(i) /\ i # n
      /\ \A i \in Slots : TxUsed(i)' <=> TxUsed(i)
  BY RxOneUses, SameUses DEF RxOne, txVars, admVars
<1>5. rx_skb_list[n] = s
  OBVIOUS
<1> HIDE DEF s, n
<1>6. /\ owner'[s] = "out"
      /\ \A t \in Skbs : t # s => owner'[t] = owner[t]
      /\ \A i \in Slots : i # n => rx_skb_list'[i] = rx_skb_list[i]
  BY <1>1, <1>2, <1>3, SkbKinds DEF SkbTypes, RingTypes
<1>7. /\ s \notin leaked
      /\ \A i \in Slots : RxUsed(i) /\ i # n => rx_skb_list[i] # s
  BY <1>2, <1>5 DEF IInv, RxSkbInv
<1>8. /\ \A i \in Slots : RxUsed(i) => rx_skb_list[i] \in Skbs
      /\ \A i \in Slots : TxUsed(i) => tx_skb_list[i] \in Skbs /\ tx_skb_list[i] # s
      /\ \A c \in CPUs : xskb[c] # NULL => xskb[c] \in Skbs /\ xskb[c] # s
  BY <1>1, <1>2, UsedSkbs, SkbKinds DEF SkbTypes
<1>9. XmitInv'
  BY <1>3, <1>6, <1>8 DEF IInv, XmitInv
<1>10. TxSkbInv'
  BY <1>3, <1>4, <1>6, <1>8 DEF IInv, TxSkbInv
<1>11. RxSkbInv'
  BY <1>3, <1>4, <1>6, <1>7, <1>8 DEF IInv, RxSkbInv
<1>12. ASSUME NEW t \in Skbs, owner'[t] = "driver" PROVE Located(t)'
  <2>1. t # s
    BY <1>6, <1>12
  <2>2. Located(t)
    BY <1>6, <1>12, <2>1 DEF IInv, LocatedInv
  <2> QED
    BY <1>3, <1>4, <1>5, <1>6, <2>1, <2>2 DEF Located
<1>13. \A t \in leaked' : owner'[t] = "driver"
  BY <1>1, <1>3, <1>6, <1>7 DEF IInv, LocatedInv, SkbTypes
<1> QED
  BY <1>9, <1>10, <1>11, <1>12, <1>13 DEF SkbInv, LocatedInv

LEMMA RefillAccounts ==
  ASSUME IInv, NEW s \in RxSkbs, RefillOne(s)
  PROVE  SkbInv'
<1>1. RingTypes /\ SkbTypes
  BY TypeParts DEF IInv
<1> DEFINE n == rx_next
<1>2. adm # "down" /\ rx_desc[n] = "empty" /\ n \in Slots
  BY <1>1, RefillFinds DEF RefillOne, RingTypes
<1>3. /\ owner[s] = "out" /\ owner' = [owner EXCEPT ![s] = "driver"]
      /\ rx_skb_list' = [rx_skb_list EXCEPT ![n] = s]
      /\ leaked' = leaked /\ xpc' = xpc /\ xskb' = xskb /\ tx_skb_list' = tx_skb_list
  BY <1>2 DEF RefillOne, txVars, xmitVars
<1>4. /\ \A i \in Slots : RxUsed(i)' <=> RxUsed(i) \/ i = n
      /\ \A i \in Slots : TxUsed(i)' <=> TxUsed(i)
  BY RefillUses, SameUses DEF RefillOne, txVars, admVars
<1>5. ~RxUsed(n)
  BY <1>2 DEF IInv, RxShape, RingShape, RxUsed
<1> HIDE DEF n
<1>6. /\ owner'[s] = "driver" /\ rx_skb_list'[n] = s
      /\ \A t \in Skbs : t # s => owner'[t] = owner[t]
      /\ \A i \in Slots : i # n => rx_skb_list'[i] = rx_skb_list[i]
  BY <1>1, <1>2, <1>3, SkbKinds DEF SkbTypes, RingTypes
<1>7. s \notin leaked
  BY <1>3 DEF IInv, LocatedInv
<1>8. /\ \A i \in Slots : RxUsed(i) => rx_skb_list[i] \in Skbs /\ rx_skb_list[i] # s
      /\ \A i \in Slots : TxUsed(i) => tx_skb_list[i] \in Skbs /\ tx_skb_list[i] # s
      /\ \A c \in CPUs : xskb[c] # NULL => xskb[c] \in Skbs /\ xskb[c] # s
  BY <1>1, <1>3, UsedSkbs, SkbKinds DEF SkbTypes, IInv, RxSkbInv
<1>9. XmitInv'
  BY <1>3, <1>6, <1>8 DEF IInv, XmitInv
<1>10. TxSkbInv'
  BY <1>3, <1>4, <1>6, <1>8 DEF IInv, TxSkbInv
<1>11. RxSkbInv'
  BY <1>2, <1>3, <1>4, <1>5, <1>6, <1>7, <1>8 DEF IInv, RxSkbInv
<1>12. ASSUME NEW t \in Skbs, owner'[t] = "driver" PROVE Located(t)'
  <2>1. CASE t = s
    BY <1>2, <1>4, <1>6, <2>1 DEF Located
  <2>2. CASE t # s
    <3>1. Located(t)
      BY <1>6, <1>12, <2>2 DEF IInv, LocatedInv
    <3> QED
      BY <1>3, <1>4, <1>5, <1>6, <2>2, <3>1 DEF Located
  <2> QED
    BY <2>1, <2>2
<1>13. \A t \in leaked' : owner'[t] = "driver"
  BY <1>1, <1>3, <1>6, <1>7 DEF IInv, LocatedInv, SkbTypes
<1> QED
  BY <1>9, <1>10, <1>11, <1>12, <1>13 DEF SkbInv, LocatedInv

\* A data plane that was down has no skb but those forgotten.
LEMMA SynInitAccounts ==
  ASSUME IInv, SynInit
  PROVE  SkbInv'
<1>1. adm = "down" /\ UNCHANGED <<owner, leaked, xpc, xskb>>
  BY DEF SynInit, xmitVars
<1>2. \A i \in Slots : ~TxUsed(i)' /\ ~RxUsed(i)'
  BY InitUses
<1>3. \A i \in Slots : ~TxUsed(i) /\ ~RxUsed(i)
  BY <1>1 DEF TxUsed, RxUsed
<1>4. XmitInv'
  BY <1>1 DEF IInv, XmitInv
<1>5. TxSkbInv' /\ RxSkbInv'
  BY <1>2 DEF TxSkbInv, RxSkbInv
<1>6. \A s : Located(s) => Located(s)'
  BY <1>1, <1>3 DEF Located
<1>7. LocatedInv'
  BY <1>1, <1>6 DEF IInv, LocatedInv
<1> QED
  BY <1>4, <1>5, <1>7 DEF SkbInv

LEMMA SynDeinitAccounts ==
  ASSUME IInv, SynDeinit
  PROVE  SkbInv'
<1>1. /\ \A c \in CPUs : xskb[c] # NULL =>
           xskb[c] \notin leaked' /\ owner'[xskb[c]] = "driver"
      /\ adm' = "down"
      /\ \A s \in leaked' : owner'[s] = "driver"
      /\ \A s \in Skbs :
           owner'[s] = "driver" => s \in leaked' \/ \E c \in CPUs : xskb[c] = s
  BY DeinitFinds DEF IInv, LocatedInv
<1>2. xpc' = xpc /\ xskb' = xskb
  BY DEF SynDeinit, xmitVars
<1>3. \A i \in Slots : ~TxUsed(i)' /\ ~RxUsed(i)'
  BY <1>1, DownUses
<1>4. XmitInv'
  BY <1>1, <1>2 DEF IInv, XmitInv
<1>5. TxSkbInv' /\ RxSkbInv'
  BY <1>3 DEF TxSkbInv, RxSkbInv
<1>6. LocatedInv'
  BY <1>1, <1>2 DEF LocatedInv, Located
<1> QED
  BY <1>4, <1>5, <1>6 DEF SkbInv

LEMMA OtherAccounts ==
  ASSUME IInv, UNCHANGED <<tx_skb_list, tx_busy, busy_tx_desc>>,
         UNCHANGED <<rx_skb_list, rx_busy, busy_rx_desc>>,
         UNCHANGED <<owner, leaked, xskb>>, adm' = "down" <=> adm = "down",
         \A c \in CPUs : xpc'[c] = "queue" <=> xpc[c] = "queue"
  PROVE  SkbInv'
<1>1. \A i \in Slots : (TxUsed(i)' <=> TxUsed(i)) /\ (RxUsed(i)' <=> RxUsed(i))
  BY SameUses
<1>2. XmitInv'
  BY DEF IInv, XmitInv
<1>3. TxSkbInv'
  BY <1>1 DEF IInv, TxSkbInv
<1>4. RxSkbInv'
  BY <1>1 DEF IInv, RxSkbInv
<1>5. \A s : Located(s) => Located(s)'
  BY <1>1 DEF Located
<1>6. LocatedInv'
  BY <1>5 DEF IInv, LocatedInv
<1> QED
  BY <1>2, <1>3, <1>4, <1>6 DEF SkbInv

LEMMA SkbInvKept ==
  ASSUME IInv, SkbStep \/ OtherStep
  PROVE  SkbInv'
<1>1. CASE OtherStep
  BY <1>1, OtherKeeps, OtherAccounts DEF IInv
<1>2. ASSUME NEW c \in CPUs, XmitQueue(c) PROVE SkbInv'
  <2>1. CASE QueueFault = "none"
    BY <1>2, <2>1, QueueAccounts
  <2>2. CASE QueueFault # "none"
    BY <1>2, <2>2, OtherAccounts DEF XmitQueue, txVars, rxVars, xmitVars, admVars
  <2> QED
    BY <2>1, <2>2
<1>4. ASSUME NEW c \in CPUs, XmitAgain(c) PROVE SkbInv'
  BY <1>4, OtherAccounts DEF XmitAgain, txVars, rxVars, xmitVars, admVars
<1>3. CASE SkbStep
  BY <1>2, <1>3, <1>4, BeginAccounts, MapFailsAccounts, CompleteAccounts, RxOneAccounts,
     RefillAccounts, SynInitAccounts, SynDeinitAccounts DEF SkbStep
<1> QED
  BY <1>1, <1>3

-----------------------------------------------------------------------------
(* Theorems. *)

\* The inductive invariant: the shape of both rings, what may run at each stage
\* of the configuration task, the loops of the poll and the places of the skbs.
THEOREM Invariance == Spec => []IInv
<1>1. Init => IInv
  BY InitInv
<1>2. IInv /\ [Next]_vars => IInv'
  <2> SUFFICES ASSUME IInv, [Next]_vars PROVE IInv'
    OBVIOUS
  <2>1. (bug = "none" /\ (SkbStep \/ OtherStep)) \/ UNCHANGED vars
    BY StepKinds
  <2>2. OnlyTxRaceBugs' /\ FreedInv'
    BY <2>1, BugKept
  <2>3. SkbStep \/ OtherStep
    BY <2>1 DEF OtherStep
  <2>4. bug' \in {"none", "tx_queue", "tx_complete", "refill", "freed_ring", "freed_skb"}
    BY <2>2 DEF OnlyTxRaceBugs
  <2>5. PlaceTypes' /\ LoopInv' /\ AdmInv'
    BY <2>3, <2>4, LoopKept, StagesKept DEF PlaceTypes
  <2>6. TypeOK'
    BY <2>3, <2>5, FlagsKept, RingsKept, SkbsKept, TypePartsNext
  <2>7. TxShape' /\ RxShape' /\ SkbInv'
    BY <2>3, TxShapeKept, RxShapeKept, SkbInvKept
  <2> QED
    BY <2>2, <2>5, <2>6, <2>7 DEF IInv, SkbInv
<1> QED
  BY <1>1, <1>2, PTL DEF Spec

\* syn_dp_set_tx_qptr, syn_dp_reset_tx_qptr and their Rx twins keep the counters,
\* the indices, the descriptors and the DMA in step.
THEOREM RingsStayInStep == Spec => []RingsInStep
<1>1. IInv => RingsInStep
  <2> SUFFICES ASSUME IInv PROVE RingsInStep
    OBVIOUS
  <2>1. TypeOK /\ RingTypes
    BY TypeParts DEF IInv
  <2>2. ASSUME adm # "down"
        PROVE  RingInStep(tx_desc, tx_skb_list, tx_busy, tx_next, busy_tx_desc, tx_cur)
    BY <2>1, <2>2, ShapeInStep DEF IInv, TxShape, RingTypes
  <2>3. ASSUME adm # "down"
        PROVE  RingInStep(rx_desc, rx_skb_list, rx_busy, rx_next, busy_rx_desc, rx_cur)
    BY <2>1, <2>3, ShapeInStep DEF IInv, RxShape, RingTypes
  <2> QED
    BY <2>1, <2>2, <2>3 DEF RingsInStep
<1> QED
  BY <1>1, Invariance, PTL

\* Of the rings' BUG_ONs only that of syn_dp_set_tx_qptr can stop the kernel, in
\* a full ring; freed rings are used only after the direct ndo_stop of an override.
THEOREM OnlyTheTxRaceBugs == Spec => []OnlyTxRaceBugs
<1>1. IInv => OnlyTxRaceBugs
  BY DEF IInv
<1> QED
  BY <1>1, Invariance, PTL

\* syn_dp_if_deinit cleans up rings that neither the poll nor the DMA works on,
\* nor, but for the direct ndo_stop of an override or a restore, a transmitter.
THEOREM CleanupIsAlone == Spec => []CleanupAlone
<1>1. IInv => CleanupAlone
  BY DEF IInv, AdmInv, CleanupAlone
<1> QED
  BY <1>1, Invariance, PTL

\* Every skb of the driver is in one place, or was forgotten by deinit; no other
\* skb is in any.  A freed skb is used only by a stack that was told to resend it.
THEOREM SkbsAreAccounted == Spec => []SkbsAccounted
<1>1. IInv => SkbsAccounted
  <2> SUFFICES ASSUME IInv, NEW s \in Skbs
               PROVE  /\ owner[s] = "driver" <=> (Places(s) # {} \/ s \in leaked)
                      /\ \A x, y \in Places(s) : x = y
                      /\ s \in leaked => Places(s) = {}
    BY DEF SkbsAccounted, IInv, FreedInv
  <2>1. \A x : x \in Places(s) <=>
          \/ \E i \in Slots : x = <<"tx", i>> /\ TxUsed(i) /\ tx_skb_list[i] = s
          \/ \E i \in Slots : x = <<"rx", i>> /\ RxUsed(i) /\ rx_skb_list[i] = s
          \/ \E c \in CPUs : x = <<"xmit", c>> /\ xskb[c] = s
    BY DEF Places, TxUsed, RxUsed
  <2>2. Places(s) # {} \/ s \in leaked <=> Located(s)
    BY <2>1 DEF Located
  <2>3. s # NULL
    BY NullAssumption
  <2>4. Located(s) => owner[s] = "driver"
    BY <2>3 DEF Located, IInv, XmitInv, TxSkbInv, RxSkbInv, LocatedInv
  <2>5. \A i, j \in Slots :
          TxUsed(i) /\ tx_skb_list[i] = s /\ RxUsed(j) => rx_skb_list[j] # s
    BY UsedSkbs, SkbKinds
  <2>6. \A c \in CPUs, j \in Slots : xskb[c] = s /\ RxUsed(j) => rx_skb_list[j] # s
    BY <2>3, UsedSkbs, SkbKinds, TypeParts DEF IInv, SkbTypes
  <2>7. ASSUME NEW x \in Places(s), NEW y \in Places(s) PROVE x = y
    BY <2>1, <2>3, <2>5, <2>6 DEF IInv, XmitInv, TxSkbInv, RxSkbInv
  <2>8. s \in leaked => Places(s) = {}
    BY <2>1, <2>3 DEF IInv, XmitInv, TxSkbInv, RxSkbInv
  <2> QED
    BY <2>2, <2>4, <2>7, <2>8 DEF IInv, LocatedInv
<1> QED
  BY <1>1, Invariance, PTL
=============================================================================
