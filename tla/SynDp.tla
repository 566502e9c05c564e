-------------------------------- MODULE SynDp -------------------------------
(***************************************************************************)
(* The Synopsys GMAC data plane of one port: its Tx and Rx descriptor      *)
(* rings, the transmitters (syn_dp_if_xmit), the poll (syn_dp_napi_poll),  *)
(* the interrupt handler, the operations init, open, close and deinit, and *)
(* the DMA engine of the GMAC.                                             *)
(*                                                                         *)
(* Unlike the EDMA rings, a ring has no producer and consumer registers:   *)
(* each descriptor says whether the DMA owns it, and the driver counts the *)
(* descriptors in use.  The transmitters and the poll share the Tx ring    *)
(* under data_lock; each transmitter looks for room before it takes it.    *)
(***************************************************************************)
EXTENDS Ring, FiniteSets

CONSTANTS
  TxSkbs, RxSkbs,   \* socket buffers sent and received
  CPUs,             \* CPUs that transmit, each on a Tx queue of its own
  Budget,           \* SYN_DP_NAPI_BUDGET
  MaxLeaked,        \* bound on the skbs forgotten by deinit
  NULL

ASSUME SynAssumption == /\ Budget \in Nat \ {0}
                        /\ MaxLeaked \in Nat
                        /\ NULL \notin TxSkbs \cup RxSkbs
                        /\ TxSkbs \cap RxSkbs = {}

VARIABLES
  tx_desc, rx_desc,           \* descriptors: "empty", "dma" (owned by DMA), "done"
  tx_skb_list, rx_skb_list,   \* skb kept for each descriptor
  tx_next, rx_next,           \* next descriptor to give to the DMA
  tx_busy, rx_busy,           \* oldest descriptor given to the DMA
  busy_tx_desc, busy_rx_desc, \* how many were given
  tx_cur, rx_cur,             \* the DMA: descriptor it looks at next
  tx_suspended,               \*   its Tx half waits for a poll demand
  dma_on,                     \*   SYN_DMA_RX_START and SYN_DMA_TX_START
  status,                     \*   SYN_DMA_STATUS: an event is latched
  int_en,                     \*   SYN_DMA_INT_ENABLE
  irq,                        \* interrupt handler: place in the code
  napi,                       \* NAPI: "off", "on" or "disabling"
  sched,                      \*   a poll is scheduled or runs (NAPI_STATE_SCHED)
  npc,                        \* poll: place in the code
  nbusy, nwork,               \*   busy and work_done
  enabling,                   \*   it has completed and is to enable the interrupt
  missed,                     \* history: an interrupt did not lead to a poll
  adm,                        \* configuration task: where the data plane is
  direct,                     \* history: an override or restore has called ndo_stop
  napi_added,                 \* napi_added, with the interrupt handler requested
  owner,                      \* owner of an skb: "out" (stack or free), "driver"
  xpc, xskb,                  \* transmitters: place in the code, skb
  leaked,                     \* history: skbs the driver has forgotten
  bug                         \* BUG_ON, or use of freed memory, that was met

txVars   == <<tx_desc, tx_skb_list, tx_next, tx_busy, busy_tx_desc>>
rxVars   == <<rx_desc, rx_skb_list, rx_next, rx_busy, busy_rx_desc>>
dmaVars  == <<tx_cur, rx_cur, tx_suspended, dma_on>>
irqVars  == <<status, int_en, irq>>
napiVars == <<napi, sched, missed>>
pollVars == <<npc, nbusy, nwork, enabling>>
xmitVars == <<xpc, xskb>>
admVars  == <<adm, direct, napi_added>>
vars == <<txVars, rxVars, dmaVars, irqVars, napiVars, pollVars, xmitVars,
          admVars, owner, leaked, bug>>

Skbs == TxSkbs \cup RxSkbs
NoSkbs == [i \in Slots |-> NULL]
EmptyRing == [i \in Slots |-> "empty"]

\* The device is probed and was never opened.
Init ==
  /\ tx_desc = EmptyRing /\ rx_desc = EmptyRing
  /\ tx_skb_list = NoSkbs /\ rx_skb_list = NoSkbs
  /\ tx_next = 0 /\ rx_next = 0 /\ tx_busy = 0 /\ rx_busy = 0
  /\ busy_tx_desc = 0 /\ busy_rx_desc = 0
  /\ tx_cur = 0 /\ rx_cur = 0 /\ tx_suspended = FALSE /\ dma_on = FALSE
  /\ status = FALSE /\ int_en = FALSE /\ irq = "idle"
  /\ napi = "off" /\ sched = FALSE /\ missed = FALSE
  /\ npc = "idle" /\ nbusy = 0 /\ nwork = 0 /\ enabling = FALSE
  /\ adm = "down" /\ direct = FALSE /\ napi_added = FALSE
  /\ owner = [s \in Skbs |-> "out"]
  /\ xpc = [c \in CPUs |-> "idle"] /\ xskb = [c \in CPUs |-> NULL]
  /\ leaked = {} /\ bug = "none"

-----------------------------------------------------------------------------
(* syn_dp_if_xmit *)

(* The stack calls ndo_start_xmit while the device is open.  nss_dp_close    *)
(* stops Tx queue 0 alone, so that only dev_close, which waits for the       *)
(* transmitters, keeps the stack from calling it for a closed data plane; an *)
(* override or a restore that has called ndo_stop by itself does not.        *)
MayXmit == adm = "open" \/ direct

\* The stack hands over an skb, and syn_dp_tx finds room for it in the ring,
\* without the lock.
XmitBegin(c, s) ==
  /\ MayXmit /\ xpc[c] = "idle" /\ owner[s] = "out"
  /\ RingSize - busy_tx_desc >= 1
  /\ owner' = [owner EXCEPT ![s] = "driver"]
  /\ xpc' = [xpc EXCEPT ![c] = "queue"]
  /\ xskb' = [xskb EXCEPT ![c] = s]
  /\ UNCHANGED <<txVars, rxVars, dmaVars, irqVars, napiVars, pollVars, admVars,
                 leaked, bug>>

\* There is no room, or the skb is fragmented: it is freed, and syn_dp_if_xmit
\* returns NETDEV_TX_BUSY, upon which the stack keeps the skb that is no more.
XmitRefuse(c, s) ==
  /\ MayXmit /\ xpc[c] = "idle" /\ owner[s] = "out"
  /\ xpc' = [xpc EXCEPT ![c] = "requeued"]
  /\ UNCHANGED <<txVars, rxVars, dmaVars, irqVars, napiVars, pollVars, xskb,
                 admVars, owner, leaked, bug>>

\* Mutant: the skb is not freed.
XmitMapFailsKeeps(c) ==
  /\ xpc[c] = "queue"
  /\ xpc' = [xpc EXCEPT ![c] = "requeued"]
  /\ xskb' = [xskb EXCEPT ![c] = NULL]
  /\ UNCHANGED <<txVars, rxVars, dmaVars, irqVars, napiVars, pollVars, admVars,
                 owner, leaked, bug>>

\* The packet cannot be mapped: the skb is freed and refused as well.
XmitMapFails(c) ==
  /\ xpc[c] = "queue"
  /\ owner' = [owner EXCEPT ![xskb[c]] = "out"]
  /\ xpc' = [xpc EXCEPT ![c] = "requeued"]
  /\ xskb' = [xskb EXCEPT ![c] = NULL]
  /\ UNCHANGED <<txVars, rxVars, dmaVars, irqVars, napiVars, pollVars, admVars,
                 leaked, bug>>

\* The stack sends the freed skb again, or frees it once more when the device is
\* closed: whatever it does is a use of freed memory, of which no more is said.
XmitAgain(c) ==
  /\ xpc[c] = "requeued"
  /\ bug' = "freed_skb"
  /\ UNCHANGED <<txVars, rxVars, dmaVars, irqVars, napiVars, pollVars, xmitVars,
                 admVars, owner, leaked>>

\* data_lock is held by syn_dp_process_tx_complete only across its loop.
DataLockFree == npc # "tx"

\* syn_dp_set_tx_qptr: the next descriptor is given to the DMA.
SetTxQptr(s) ==
  /\ tx_skb_list' = [tx_skb_list EXCEPT ![tx_next] = s]
  /\ tx_desc' = [tx_desc EXCEPT ![tx_next] = "dma"]
  /\ tx_next' = NextIdx(tx_next)

\* What stops a transmitter: the descriptor is in a ring that was freed, or it
\* is in use ("BUG_ON(!syn_dp_gmac_is_desc_empty(txdesc))").
QueueFault ==
  CASE adm = "down"                                -> "freed_ring"
    [] adm # "down" /\ tx_desc[tx_next] # "empty" -> "tx_queue"
    [] OTHER                                       -> "none"

\* Mutant: the DMA is not resumed.
XmitQueueNoResume(c) ==
  /\ xpc[c] = "queue" /\ DataLockFree
  /\ IF QueueFault # "none"
       THEN bug' = QueueFault /\ UNCHANGED <<txVars, xmitVars>>
       ELSE /\ SetTxQptr(xskb[c])
            /\ busy_tx_desc' = busy_tx_desc + 1
            /\ xpc' = [xpc EXCEPT ![c] = "idle"]
            /\ xskb' = [xskb EXCEPT ![c] = NULL]
            /\ UNCHANGED <<tx_busy, bug>>
  /\ UNCHANGED <<rxVars, dmaVars, irqVars, napiVars, pollVars, admVars, owner,
                 leaked>>

\* syn_dp_tx_desc_queue, under the lock.
XmitQueue(c) ==
  /\ xpc[c] = "queue" /\ DataLockFree
  /\ IF QueueFault # "none"
       THEN bug' = QueueFault /\ UNCHANGED <<txVars, xmitVars>>
       ELSE /\ SetTxQptr(xskb[c])
            /\ busy_tx_desc' = busy_tx_desc + 1
            /\ xpc' = [xpc EXCEPT ![c] = "resume"]
            /\ xskb' = [xskb EXCEPT ![c] = NULL]
            /\ UNCHANGED <<tx_busy, bug>>
  /\ UNCHANGED <<rxVars, dmaVars, irqVars, napiVars, pollVars, admVars, owner,
                 leaked>>

\* syn_resume_dma_tx: a poll demand.
XmitResume(c) ==
  /\ xpc[c] = "resume"
  /\ tx_suspended' = FALSE
  /\ xpc' = [xpc EXCEPT ![c] = "idle"]
  /\ UNCHANGED <<txVars, rxVars, tx_cur, rx_cur, dma_on, irqVars, napiVars,
                 pollVars, xskb, admVars, owner, leaked, bug>>

-----------------------------------------------------------------------------
(* syn_dp_handle_irq *)

\* The handler runs and clears the events (syn_clear_dma_status) ...
IrqClear ==
  /\ irq = "idle" /\ napi_added /\ int_en /\ status
  /\ status' = FALSE /\ irq' = "disable"
  /\ UNCHANGED <<txVars, rxVars, dmaVars, int_en, napiVars, pollVars, xmitVars,
                 admVars, owner, leaked, bug>>

\* ... disables the interrupt ...
IrqDisable ==
  /\ irq = "disable"
  /\ int_en' = FALSE /\ irq' = "schedule"
  /\ UNCHANGED <<txVars, rxVars, dmaVars, status, napiVars, pollVars, xmitVars,
                 admVars, owner, leaked, bug>>

\* ... and calls napi_schedule, which does nothing while NAPI is disabled or
\* a poll is scheduled already.
IrqSchedule ==
  /\ irq = "schedule"
  /\ irq' = "idle"
  /\ sched' = (sched \/ napi = "on")
  /\ missed' = (missed \/ sched \/ napi # "on")
  /\ UNCHANGED <<txVars, rxVars, dmaVars, status, int_en, napi, pollVars,
                 xmitVars, admVars, owner, leaked, bug>>

-----------------------------------------------------------------------------
(* syn_dp_napi_poll *)

\* Mutant: without a descriptor in use, the ring is not refilled either.
EnterRxNoRefill ==
  IF busy_rx_desc = 0
    THEN npc' = "end" /\ nbusy' = 0 /\ nwork' = 0
    ELSE /\ npc' = "rx" /\ nwork' = 0
         /\ nbusy' = IF busy_rx_desc > Budget THEN Budget ELSE busy_rx_desc

\* syn_dp_rx begins: it takes at most the budget.
EnterRx ==
  IF busy_rx_desc = 0
    THEN npc' = "refill" /\ nbusy' = 0 /\ nwork' = 0
    ELSE /\ npc' = "rx" /\ nwork' = 0
         /\ nbusy' = IF busy_rx_desc > Budget THEN Budget ELSE busy_rx_desc

\* The poll begins with syn_dp_process_tx_complete.
PollBegin ==
  /\ sched /\ npc = "idle"
  /\ missed' = FALSE
  /\ IF busy_tx_desc = 0
       THEN EnterRx
       ELSE npc' = "tx" /\ nbusy' = busy_tx_desc /\ UNCHANGED nwork
  /\ UNCHANGED <<txVars, rxVars, dmaVars, irqVars, napi, sched, enabling,
                 xmitVars, admVars, owner, leaked, bug>>

\* Mutant: the descriptor is not looked at before it is taken back.
TxCompleteOneUnowned ==
  /\ npc = "tx"
  /\ owner' = [owner EXCEPT ![tx_skb_list[tx_busy]] = "out"]
  /\ tx_skb_list' = [tx_skb_list EXCEPT ![tx_busy] = NULL]
  /\ tx_desc' = [tx_desc EXCEPT ![tx_busy] = "empty"]
  /\ tx_busy' = NextIdx(tx_busy)
  /\ busy_tx_desc' = busy_tx_desc - 1
  /\ IF nbusy = 1 THEN EnterRx ELSE nbusy' = nbusy - 1 /\ UNCHANGED <<npc, nwork>>
  /\ UNCHANGED <<tx_next, rxVars, dmaVars, irqVars, napiVars, enabling,
                 xmitVars, admVars, leaked, bug>>

\* Mutant: the descriptor keeps its length.
TxCompleteOneKeepsLength ==
  /\ npc = "tx" /\ tx_desc[tx_busy] # "dma"
  /\ owner' = [owner EXCEPT ![tx_skb_list[tx_busy]] = "out"]
  /\ tx_skb_list' = [tx_skb_list EXCEPT ![tx_busy] = NULL]
  /\ tx_busy' = NextIdx(tx_busy)
  /\ busy_tx_desc' = busy_tx_desc - 1
  /\ IF nbusy = 1 THEN EnterRx ELSE nbusy' = nbusy - 1 /\ UNCHANGED <<npc, nwork>>
  /\ UNCHANGED <<tx_desc, tx_next, rxVars, dmaVars, irqVars, napiVars, enabling,
                 xmitVars, admVars, leaked, bug>>

\* One descriptor that the DMA has given back: its skb is freed and
\* syn_dp_reset_tx_qptr empties it ("BUG_ON(!skb)").
TxCompleteOne ==
  /\ npc = "tx" /\ tx_desc[tx_busy] # "dma"
  /\ IF tx_skb_list[tx_busy] = NULL
       THEN bug' = "tx_complete" /\ UNCHANGED <<txVars, owner, npc, nbusy, nwork>>
       ELSE /\ owner' = [owner EXCEPT ![tx_skb_list[tx_busy]] = "out"]
            /\ tx_skb_list' = [tx_skb_list EXCEPT ![tx_busy] = NULL]
            /\ tx_desc' = [tx_desc EXCEPT ![tx_busy] = "empty"]
            /\ tx_busy' = NextIdx(tx_busy)
            /\ busy_tx_desc' = busy_tx_desc - 1
            /\ IF nbusy = 1 THEN EnterRx
                            ELSE nbusy' = nbusy - 1 /\ UNCHANGED <<npc, nwork>>
            /\ UNCHANGED <<tx_next, bug>>
  /\ UNCHANGED <<rxVars, dmaVars, irqVars, napiVars, enabling, xmitVars,
                 admVars, leaked>>

\* "desc still hold by gmac dma, so we are done"
TxCompleteBreak ==
  /\ npc = "tx" /\ tx_desc[tx_busy] = "dma"
  /\ EnterRx
  /\ UNCHANGED <<txVars, rxVars, dmaVars, irqVars, napiVars, enabling, xmitVars,
                 admVars, owner, leaked, bug>>

\* syn_dp_rx takes one frame; a valid one goes to the stack, another is freed.
\* syn_dp_reset_rx_qptr empties the descriptor.
RxOne ==
  /\ npc = "rx" /\ rx_desc[rx_busy] # "dma"
  /\ owner' = [owner EXCEPT ![rx_skb_list[rx_busy]] = "out"]
  /\ rx_skb_list' = [rx_skb_list EXCEPT ![rx_busy] = NULL]
  /\ rx_desc' = [rx_desc EXCEPT ![rx_busy] = "empty"]
  /\ rx_busy' = NextIdx(rx_busy)
  /\ busy_rx_desc' = busy_rx_desc - 1
  /\ nbusy' = nbusy - 1
  /\ IF nbusy = 1 THEN npc' = "refill" /\ nwork' = Budget
                  ELSE UNCHANGED <<npc, nwork>>
  /\ UNCHANGED <<txVars, rx_next, dmaVars, irqVars, napiVars, enabling,
                 xmitVars, admVars, leaked, bug>>

\* The DMA holds the next descriptor: work_done is what is left of the budget
\* after the descriptors that were not taken.
RxBreak ==
  /\ npc = "rx" /\ rx_desc[rx_busy] = "dma"
  /\ npc' = "refill" /\ nbusy' = 0 /\ nwork' = Budget - nbusy
  /\ UNCHANGED <<txVars, rxVars, dmaVars, irqVars, napiVars, enabling, xmitVars,
                 admVars, owner, leaked, bug>>

\* syn_dp_rx_refill allocates and maps one more buffer, and syn_dp_set_rx_qptr
\* gives its descriptor to the DMA ("BUG_ON(!syn_dp_gmac_is_desc_empty(rxdesc))").
RefillOne(s) ==
  /\ npc = "refill" /\ owner[s] = "out" /\ busy_rx_desc < RingSize
  /\ IF rx_desc[rx_next] # "empty"
       THEN bug' = "refill" /\ UNCHANGED <<rxVars, owner>>
       ELSE /\ owner' = [owner EXCEPT ![s] = "driver"]
            /\ rx_skb_list' = [rx_skb_list EXCEPT ![rx_next] = s]
            /\ rx_desc' = [rx_desc EXCEPT ![rx_next] = "dma"]
            /\ rx_next' = NextIdx(rx_next)
            /\ busy_rx_desc' = busy_rx_desc + 1
            /\ UNCHANGED <<rx_busy, bug>>
  /\ UNCHANGED <<txVars, dmaVars, irqVars, napiVars, pollVars, xmitVars, admVars,
                 leaked>>

\* The ring is full, or there is no memory ("will try next time") or mapping.
\* The caller is the poll or syn_dp_setup_rings, after which init is done.
RefillStop ==
  /\ npc = "refill"
  /\ IF adm = "setup" THEN adm' = "closed" /\ npc' = "idle"
                      ELSE adm' = adm /\ npc' = "end"
  /\ UNCHANGED <<txVars, rxVars, dmaVars, irqVars, napiVars, nbusy, nwork,
                 enabling, xmitVars, direct, napi_added, owner,
                 leaked, bug>>

\* A poll with budget left completes; one without is polled again, unless
\* NAPI is being disabled, which completes it.
PollEnd ==
  /\ npc = "end"
  /\ npc' = "idle" /\ nwork' = 0 /\ nbusy' = 0
  /\ enabling' = (enabling \/ nwork < Budget)
  /\ sched' = (nwork >= Budget /\ napi = "on")
  /\ UNCHANGED <<txVars, rxVars, dmaVars, irqVars, napi, missed, xmitVars,
                 admVars, owner, leaked, bug>>

\* Mutant: the events are cleared when the interrupt is enabled.
PollEnableClears ==
  /\ enabling
  /\ enabling' = FALSE /\ int_en' = TRUE /\ status' = FALSE
  /\ UNCHANGED <<txVars, rxVars, dmaVars, irq, napiVars, npc, nbusy, nwork,
                 xmitVars, admVars, owner, leaked, bug>>

\* syn_enable_dma_interrupt.  napi_disable does not wait for it.
PollEnable ==
  /\ enabling
  /\ enabling' = FALSE /\ int_en' = TRUE
  /\ UNCHANGED <<txVars, rxVars, dmaVars, status, irq, napiVars, npc, nbusy,
                 nwork, xmitVars, admVars, owner, leaked, bug>>

PollStep ==
  \/ PollBegin \/ TxCompleteOne \/ TxCompleteBreak \/ RxOne \/ RxBreak
  \/ RefillStop \/ PollEnd

-----------------------------------------------------------------------------
(* The configuration task: nss_dp_open, nss_dp_close, nss_dp_override *)

\* dev_close waits for the transmitters and empties their queues; dev_open, by
\* which the device is opened again, comes after it.
NobodySends == \A c \in CPUs : xpc[c] = "idle"

\* syn_dp_if_init: NAPI and the interrupt handler are added unless they are
\* there, the rings are allocated and the Rx ring gets its first buffers.
SynInit ==
  /\ adm = "down" /\ NobodySends
  /\ direct' = FALSE
  /\ adm' = "setup" /\ npc' = "refill" /\ napi_added' = TRUE
  /\ tx_desc' = EmptyRing /\ rx_desc' = EmptyRing
  /\ tx_next' = 0 /\ rx_next' = 0 /\ tx_busy' = 0 /\ rx_busy' = 0
  /\ busy_tx_desc' = 0 /\ busy_rx_desc' = 0
  /\ tx_cur' = 0 /\ rx_cur' = 0
  /\ UNCHANGED <<tx_skb_list, rx_skb_list, tx_suspended, dma_on, irqVars,
                 napiVars, nbusy, nwork, enabling, xmitVars, owner, leaked, bug>>

\* A ring cannot be allocated: ndo_open fails and NAPI stays.
SynInitFails ==
  /\ adm = "down" /\ ~napi_added
  /\ napi_added' = TRUE
  /\ UNCHANGED <<txVars, rxVars, dmaVars, irqVars, napiVars, pollVars, xmitVars,
                 adm, direct, owner, leaked, bug>>

\* syn_dp_if_open starts the DMA, ...
OpenDma ==
  /\ adm = "closed" /\ NobodySends
  /\ dma_on' = TRUE /\ tx_suspended' = FALSE
  /\ adm' = "open_napi" /\ direct' = FALSE
  /\ UNCHANGED <<txVars, rxVars, tx_cur, rx_cur, irqVars, napiVars, pollVars,
                 xmitVars, napi_added, owner, leaked, bug>>

\* ... calls napi_enable ...
OpenNapi ==
  /\ adm = "open_napi"
  /\ napi' = "on" /\ adm' = "open_irq"
  /\ UNCHANGED <<txVars, rxVars, dmaVars, irqVars, sched, missed, pollVars,
                 xmitVars, direct, napi_added, owner, leaked, bug>>

\* ... and enables the interrupt.
OpenIrq ==
  /\ adm = "open_irq"
  /\ int_en' = TRUE /\ adm' = "open"
  /\ UNCHANGED <<txVars, rxVars, dmaVars, status, irq, napiVars, pollVars,
                 xmitVars, direct, napi_added, owner, leaked, bug>>

\* syn_dp_if_close stops the DMA, which reports that (SYN_DMA_INT_RX_STOPPED,
\* SYN_DMA_INT_TX_STOPPED), ...
StopDma ==
  /\ adm = "open"
  /\ dma_on' = FALSE /\ tx_suspended' = FALSE /\ status' = TRUE
  /\ adm' = "close_irq"
  /\ UNCHANGED <<txVars, rxVars, tx_cur, rx_cur, int_en, irq, napiVars,
                 pollVars, xmitVars, napi_added, owner, leaked, bug>>

\* ... when dev_close has waited for the transmitters, ...
CloseDma ==
  /\ NobodySends
  /\ StopDma
  /\ UNCHANGED direct

\* ... or at once, when nss_dp_override_data_plane (or the restore) calls
\* ndo_stop.
OverrideStop ==
  /\ StopDma
  /\ direct' = TRUE

\* It disables the interrupt ...
CloseIrq ==
  /\ adm = "close_irq"
  /\ int_en' = FALSE /\ adm' = "close_napi"
  /\ UNCHANGED <<txVars, rxVars, dmaVars, status, irq, napiVars, pollVars,
                 xmitVars, direct, napi_added, owner, leaked, bug>>

\* ... and calls napi_disable, which waits for the poll to complete.
CloseNapi ==
  /\ adm = "close_napi"
  /\ napi' = "disabling" /\ adm' = "close_wait"
  /\ UNCHANGED <<txVars, rxVars, dmaVars, irqVars, sched, missed, pollVars,
                 xmitVars, direct, napi_added, owner, leaked, bug>>

\* Mutant: the poll that runs is not waited for.
CloseWaitNot ==
  /\ adm = "close_wait"
  /\ napi' = "off" /\ adm' = "closed"
  /\ UNCHANGED <<txVars, rxVars, dmaVars, irqVars, sched, missed, pollVars,
                 xmitVars, direct, napi_added, owner, leaked, bug>>

CloseWait ==
  /\ adm = "close_wait" /\ ~sched
  /\ napi' = "off" /\ adm' = "closed"
  /\ UNCHANGED <<txVars, rxVars, dmaVars, irqVars, sched, missed, pollVars,
                 xmitVars, direct, napi_added, owner, leaked, bug>>

\* The skbs of a ring in use.
RingSkbs(list, first, busy) ==
  {list[(first + k) % RingSize] : k \in 0 .. busy - 1}

\* syn_dp_cleanup_rings: the index never moves on, so that one skb of a ring is
\* freed and the others are forgotten.
Cleaned(list, first, busy) ==
  IF busy = 0 THEN {} ELSE {list[first]}

\* syn_dp_if_deinit, called for a closed device.  free_irq waits for the handler.
SynDeinit ==
  LET freed == Cleaned(tx_skb_list, tx_busy, busy_tx_desc)
                 \cup Cleaned(rx_skb_list, rx_busy, busy_rx_desc)
      held == RingSkbs(tx_skb_list, tx_busy, busy_tx_desc)
                \cup RingSkbs(rx_skb_list, rx_busy, busy_rx_desc)
      Kept(list) == [i \in Slots |-> IF list[i] \in freed THEN NULL ELSE list[i]]
  IN /\ adm = "closed" /\ irq = "idle"
     /\ adm' = "down" /\ napi_added' = FALSE
     /\ owner' = [s \in Skbs |-> IF s \in freed THEN "out" ELSE owner[s]]
     /\ leaked' = leaked \cup (held \ freed)
     /\ Cardinality(leaked') <= MaxLeaked
     /\ tx_skb_list' = Kept(tx_skb_list) /\ rx_skb_list' = Kept(rx_skb_list)
     /\ tx_desc' = EmptyRing /\ rx_desc' = EmptyRing
     /\ UNCHANGED <<tx_next, tx_busy, busy_tx_desc, rx_next, rx_busy,
                    busy_rx_desc, dmaVars, irqVars, napiVars, pollVars,
                    xmitVars, direct, bug>>

-----------------------------------------------------------------------------
(* The DMA engine, as the driver uses it. *)

\* It sends the packet of the next Tx descriptor and gives it back.
HwTx ==
  /\ dma_on /\ ~tx_suspended /\ tx_desc[tx_cur] = "dma"
  /\ tx_desc' = [tx_desc EXCEPT ![tx_cur] = "done"]
  /\ tx_cur' = NextIdx(tx_cur) /\ status' = TRUE
  /\ UNCHANGED <<tx_skb_list, tx_next, tx_busy, busy_tx_desc, rxVars, rx_cur,
                 tx_suspended, dma_on, int_en, irq, napiVars, pollVars, xmitVars,
                 admVars, owner, leaked, bug>>

\* It does not own the next Tx descriptor and waits for a poll demand.
HwTxSuspend ==
  /\ dma_on /\ ~tx_suspended /\ tx_desc[tx_cur] # "dma"
  /\ tx_suspended' = TRUE
  /\ UNCHANGED <<txVars, rxVars, tx_cur, rx_cur, dma_on, irqVars, napiVars,
                 pollVars, xmitVars, admVars, owner, leaked, bug>>

\* It writes a frame into the buffer of the next Rx descriptor.
HwRx ==
  /\ dma_on /\ rx_desc[rx_cur] = "dma"
  /\ rx_desc' = [rx_desc EXCEPT ![rx_cur] = "done"]
  /\ rx_cur' = NextIdx(rx_cur) /\ status' = TRUE
  /\ UNCHANGED <<txVars, rx_skb_list, rx_next, rx_busy, busy_rx_desc, tx_cur,
                 tx_suspended, dma_on, int_en, irq, napiVars, pollVars, xmitVars,
                 admVars, owner, leaked, bug>>

\* A frame finds no descriptor, is lost and reported (SYN_DMA_INT_RX_NO_BUFFER).
HwRxNoBuffer ==
  /\ dma_on /\ rx_desc[rx_cur] # "dma" /\ ~status
  /\ status' = TRUE
  /\ UNCHANGED <<txVars, rxVars, dmaVars, int_en, irq, napiVars, pollVars,
                 xmitVars, admVars, owner, leaked, bug>>

AdmStep ==
  \/ SynInit \/ SynInitFails \/ SynDeinit
  \/ OpenDma \/ OpenNapi \/ OpenIrq
  \/ CloseDma \/ OverrideStop \/ CloseIrq \/ CloseNapi \/ CloseWait

XmitStep(c) ==
  XmitMapFails(c) \/ XmitQueue(c) \/ XmitResume(c) \/ XmitAgain(c)

\* A BUG_ON has stopped the kernel, or freed memory was used.
Halted == bug # "none" /\ UNCHANGED vars

Next ==
  \/ /\ bug = "none"
     /\ \/ \E c \in CPUs, s \in TxSkbs : XmitBegin(c, s) \/ XmitRefuse(c, s)
        \/ \E c \in CPUs : XmitStep(c)
        \/ IrqClear \/ IrqDisable \/ IrqSchedule
        \/ PollStep \/ PollEnable
        \/ \E s \in RxSkbs : RefillOne(s)
        \/ AdmStep
        \/ HwTx \/ HwTxSuspend \/ HwRx \/ HwRxNoBuffer
  \/ Halted

Spec == Init /\ [][Next]_vars

(* Fairness.  Transmitters, the poll and the handler go on once they have   *)
(* begun (an interrupt that is due comes, a spinlock is granted in turn);   *)
(* the DMA goes on while it owns descriptors; an allocation that is tried   *)
(* again and again succeeds in the end; and frames keep arriving while      *)
(* there is no buffer for them.  Nobody has to open, close or send, and the *)
(* DMA need not fill a buffer: no later frame helps one that was missed.    *)
Fairness ==
  /\ \A c \in CPUs : SF_vars(bug = "none" /\ (XmitQueue(c) \/ XmitResume(c)))
  /\ WF_vars(bug = "none" /\ (IrqClear \/ IrqDisable \/ IrqSchedule))
  /\ WF_vars(bug = "none" /\ (PollStep \/ \E s \in RxSkbs : RefillOne(s)))
  /\ SF_vars(bug = "none" /\ \E s \in RxSkbs : RefillOne(s))
  /\ WF_vars(bug = "none" /\ PollEnable)
  /\ WF_vars(bug = "none" /\ (HwTx \/ HwTxSuspend))
  /\ WF_vars(bug = "none" /\ busy_rx_desc = 0 /\ HwRxNoBuffer)

FairSpec == Spec /\ Fairness

-----------------------------------------------------------------------------
(* Properties. *)

\* Types of the variables.
TypeOK ==
  /\ tx_desc \in [Slots -> {"empty", "dma", "done"}]
  /\ rx_desc \in [Slots -> {"empty", "dma", "done"}]
  /\ tx_skb_list \in [Slots -> TxSkbs \cup {NULL}]
  /\ rx_skb_list \in [Slots -> RxSkbs \cup {NULL}]
  /\ {tx_next, rx_next, tx_busy, rx_busy, tx_cur, rx_cur} \subseteq Slots
  /\ busy_tx_desc \in 0 .. RingSize /\ busy_rx_desc \in 0 .. RingSize
  /\ {tx_suspended, dma_on, status, int_en, sched, enabling, missed, direct,
      napi_added} \subseteq BOOLEAN
  /\ irq \in {"idle", "disable", "schedule"}
  /\ napi \in {"off", "on", "disabling"}
  /\ npc \in {"idle", "tx", "rx", "refill", "end"}
  /\ nbusy \in 0 .. RingSize /\ nwork \in 0 .. Budget
  /\ adm \in {"down", "setup", "closed", "open_napi", "open_irq", "open",
              "close_irq", "close_napi", "close_wait"}
  /\ owner \in [Skbs -> {"out", "driver"}]
  /\ xpc \in [CPUs -> {"idle", "queue", "resume", "requeued"}]
  /\ xskb \in [CPUs -> TxSkbs \cup {NULL}]
  /\ leaked \subseteq Skbs
  /\ bug \in {"none", "tx_queue", "tx_complete", "refill", "freed_ring", "freed_skb"}

\* Descriptor i is one of the busy descriptors that begin with the first.
InUse(first, busy, i) == Dist(first, i) < busy

RingInStep(desc, list, first, next, busy, cur) ==
  /\ next = (first + busy) % RingSize
  /\ \A i \in Slots :
       /\ desc[i] # "empty" <=> InUse(first, busy, i)
       /\ InUse(first, busy, i) => list[i] # NULL
       /\ desc[i] = "dma" => /\ desc[cur] = "dma"
                             /\ Dist(first, cur) <= Dist(first, i)
       /\ InUse(first, busy, i) /\ desc[cur] = "dma" /\ desc[i] = "done" =>
            Dist(first, i) < Dist(first, cur)

\* What syn_dp_set_tx_qptr, syn_dp_reset_tx_qptr and their Rx twins assert with
\* BUG_ON, and more: the descriptors in use are those counted, they lie between
\* the two indices, have an skb, and those that the DMA has given back come
\* before those that it owns, the first of which is the one it looks at.
RingsInStep ==
  /\ TypeOK
  /\ adm # "down" =>
       /\ RingInStep(tx_desc, tx_skb_list, tx_busy, tx_next, busy_tx_desc, tx_cur)
       /\ RingInStep(rx_desc, rx_skb_list, rx_busy, rx_next, busy_rx_desc, rx_cur)

\* Where an skb is: in a ring or in the hands of a transmitter.
Places(s) ==
  (IF adm = "down" THEN {} ELSE
     {<<"tx", i>> : i \in {j \in Slots : tx_skb_list[j] = s
                                           /\ InUse(tx_busy, busy_tx_desc, j)}}
       \cup {<<"rx", i>> : i \in {j \in Slots : rx_skb_list[j] = s
                                                  /\ InUse(rx_busy, busy_rx_desc, j)}})
    \cup {<<"xmit", c>> : c \in {d \in CPUs : xskb[d] = s}}

\* The driver by itself never frees an skb while the DMA may read or write it,
\* frees none twice and shares none: an skb of the driver is in one place, or was
\* forgotten by deinit, and any other is in none.  The one way to a second free
\* is that the stack uses an skb for which it got NETDEV_TX_BUSY although
\* syn_dp_if_xmit had freed it ("freed_skb").
SkbsAccounted ==
  /\ \A s \in Skbs :
       /\ owner[s] = "driver" <=> (Places(s) # {} \/ s \in leaked)
       /\ \A x, y \in Places(s) : x = y
       /\ s \in leaked => Places(s) = {}
  /\ bug = "freed_skb" => \E c \in CPUs : xpc[c] = "requeued"

\* Only transmitters can bring the kernel down.  Of all BUG_ONs of the rings, only
\* that of syn_dp_set_tx_qptr is met, by a transmitter that lost the last free
\* descriptor to another one between its look at busy_tx_desc and data_lock; and
\* freed rings are used only by one that an override or a restore has not waited
\* for.
OnlyTxRaceBugs ==
  /\ bug \in {"none", "tx_queue", "freed_ring", "freed_skb"}
  /\ bug = "tx_queue" => busy_tx_desc = RingSize
  /\ bug = "freed_ring" => direct

\* "We are assuming that the NAPI poll was already completed": nothing but the
\* configuration task works on the rings of a data plane that is closed, but for
\* transmitters after the ndo_stop of an override or a restore.
CleanupAlone ==
  adm \in {"closed", "down"} =>
    /\ npc = "idle" /\ ~sched /\ ~dma_on
    /\ (\E c \in CPUs : xpc[c] \in {"queue", "resume"}) => direct

\* The data plane works: it is open, the kernel runs, and no interrupt was lost
\* to an open or close that went on at the same time.
Working == adm = "open" /\ bug = "none" /\ ~missed

\* An skb given to a transmitter is released in the end: no poll demand is lost
\* between the transmitters and a DMA that suspends itself, and no completion
\* between the poll and the interrupt that it enables.
TxReleased ==
  \A s \in TxSkbs : owner[s] = "driver" ~> (owner[s] = "out" \/ ~Working)

\* The buffer of an skb has a frame that was not taken yet.
HasFrame(s) == \E i \in Slots : rx_skb_list[i] = s /\ rx_desc[i] = "done"

\* A received frame is taken in the end, whatever the budget.
RxTaken == \A s \in RxSkbs : HasFrame(s) ~> (~HasFrame(s) \/ ~Working)

\* Reception recovers from a lack of memory ("will try next time"): the frames
\* that are lost raise the interrupt whose poll refills the ring.
RxRecovers == (busy_rx_desc = 0) ~> (busy_rx_desc > 0 \/ ~Working)
=============================================================================
