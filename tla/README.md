# TLA+ models of the NSS data plane driver

The repository is a Linux driver, `qca-nss-dp`, for the Ethernet ports of the
IPQ807x, IPQ60xx and IPQ50xx chips. This directory holds TLA+ models of its two
data planes (EDMA and Synopsys GMAC), of the life cycle and the settings of the net
devices on them, and of the setup and removal of hardware and module, TLC
configurations that check them on small instances, and proofs that TLAPS checks
for every value of the constants. `PROJECT.json` lists runs, mutants, the map
from definitions to source lines, findings, hazards and theorems.

## 1. Inventory of the system

| Part | Source | State | Operations | What is hard |
|---|---|---|---|---|
| EDMA transmit | `edma_tx_rx.c`, `edma_data_plane.c` | TXDESC and TXCMPL rings, `tx_skb_store`, `tx_lock`, Tx queue state | `edma_if_xmit`, `edma_ring_xmit`, `edma_clean_tx` | transmitters on several CPUs, a poller without a lock, hardware; full rings; retried skbs; stopping and starting the queue |
| EDMA receive | `edma_tx_rx.c` | RXFILL and RXDESC rings, `rx_skb_store` | `edma_alloc_rx_buffer`, `edma_clean_rx` | rings that share one store; failing allocations; order of giving back and refilling |
| EDMA interrupts and NAPI | `edma_tx_rx.c`, `edma_data_plane.c` | interrupt masks, NAPI state | `edma_handle_irq`, `edma_napi`, `edma_if_open`, `edma_if_close` | one handler per line, any CPU; the poll enables interrupts after it has completed NAPI |
| Net device life cycle | `nss_dp_main.c`, `nss_dp_attach.c`, `edma_data_plane.c` | flags of each device, `active`, `dp_override_cnt`, `napi_added`, interrupts, registers, link and queue state | open, stop, override, start, restore, adjust_link, exit | sequences of calls by the stack and an overlay driver; failing calls; PHY worker and poll between the steps of a stop |
| EDMA ring setup, hardware initialisation | `edma_cfg.c`, `edma_data_plane.c` | ring memory, configuration and map registers, mapping | `edma_init`, `edma_hw_init`, `edma_setup_ring_resources`, `edma_cleanup_rings`, `edma_cleanup` | failure paths, fields that cross registers, release of buffers that the hardware holds |
| Synopsys GMAC data plane | `hal/syn_gmac_dp/` | descriptor rings with owner bits, busy counts | `syn_dp_tx`, `syn_dp_rx`, `syn_dp_process_tx_complete`, interrupt handler, init, open, close, deinit | check outside of the lock, DMA that suspends itself, refill failures, interrupt enabled by a poll that is being disabled |
| Module, probe, removal | `nss_dp_main.c`, `hal/arch/` | `nss_dp[]`, `common_init_done`, contexts | `nss_dp_init`, `nss_dp_probe`, `nss_dp_remove`, `nss_dp_exit` | failures on the way; one removal removes all |
| Switchdev | `nss_dp_switchdev.c` | STP state, `slowproto_acl_bm` | port attribute set | failing calls between two updates, ports that share an ethertype |
| Port settings | `nss_dp_main.c`, `nss_dp_attach.c` | address, MTU, `data_plane_ops`, `dpc` | set address, change MTU, override, start, restore | three places that keep one setting; a data plane swapped under calls without a lock |
| Ethtool | `nss_dp_ethtools.c` | pause, EEE settings | get and set operations | two places that keep flow control; translation of modes |
| GMAC HAL | `hal/gmac_hal_ops/` | MAC registers | init, address, counters; start, stop, flow control (no caller) | packing of addresses and counters |

The stack calls the net device operations of `nss_dp_main.c`, which pass them on
through `data_plane_ops` to EDMA, to the Synopsys data plane or to an overlay
driver that has replaced them (`nss_dp_attach.c`). All EDMA devices share one set
of rings, one NAPI and one set of interrupts. The hardware and the driver share
rings of descriptors: each side moves one index register of a ring.

What makes each part correct: the hardware never touches a buffer that was freed
or handed on, each skb is released once and after its last use, nothing in a
store is overwritten; work is polled in the end; interrupts are not left
disabled; an open device is polled; shared resources are released once, after
the last user; a failure on the way gives back what was taken before it; what the
switch, the MAC, the PHY and the data plane were told agrees with what the driver
reports.

## 2. Modules

| Module | What it is |
|---|---|
| `Ring`, `RingTheorems` | index arithmetic of a descriptor ring: `NextIdx`, `Full`, distance and occupancy; lemmas about it |
| `EdmaTx` | transmit path of one TXDESC ring with its TXCMPL ring |
| `TxPath` | what the transmit path promises: a queue of accepted skbs, sent in order, each reported and released once |
| `EdmaTxProofs` | proofs about `EdmaTx` |
| `EdmaRx` | receive path with any number of RXDESC and RXFILL rings |
| `RxPath` | what the receive path promises: posted buffers arrive on a ring and are taken in order |
| `EdmaRxProofs` | proofs about `EdmaRx` |
| `EdmaIrq` | interrupt handlers, polls, NAPI |
| `Lifecycle`, `LifecycleProofs` | devices, overlay drivers and the EDMA state they share; proofs |
| `SynDp`, `SynDpProofs` | the Synopsys data plane of one port, which uses `Ring`; proofs |
| `EdmaCfg` | setup and cleanup of the EDMA, for any device tree |
| `EdmaProofs` | proofs about `EdmaCfg` and `EdmaIrq`, which share no name |
| `NssDp`, `NssDpProofs` | module, probe and removal of ports, contexts, and the switchdev filter; proofs |
| `PortCfg`, `PortCfgProofs` | settings of a port, and the interface to its data plane; proofs |
| `MC...` | instances for TLC: symmetry sets, device trees, SoCs, overlays |

Definitions that begin with the comment "Mutant" are faulty variants of the
definition that follows; they are used by no specification.

### EdmaTx

One action per stretch of code between two accesses to shared state. A
transmitter (one per Tx queue: the stack holds the queue's lock) goes through
`XmitLock`, `XmitReadIndices` (the full test), `XmitStore` (preheader, test and
fill of the store entry), `XmitMap` or `XmitMapFails`, `XmitPublish`, and on a
full ring `XmitStopQueue`; `XmitDrop` is the early return of `edma_if_xmit`. The
poller goes through `CleanTxBegin`, then for each completion `CleanTxTake`,
`CleanTxClear`, `CleanTxFree`, then `CleanTxEnd`, `NapiResume` for each device and
`NapiComplete`. `HwFetch` and `HwComplete` are the hardware, which completes packets
in any order; `LinkChange` is the carrier part of `nss_dp_adjust_link`. An skb is
a model value with an owner, a number of preheaders and the store index
written in the preheader. Lengths, addresses, fragments and statistics are left
out. Several TXDESC rings are not modelled.

### EdmaRx

`edma_clean_rx` is `CleanRxTake`, `CleanRxPacket` (delivered to the stack or
dropped), `CleanRxRefill` (the call of `edma_alloc_rx_buffer`) and `CleanRxEnd`;
`edma_alloc_rx_buffer` is `AllocBegin`, `AllocOne`, and its three ways to end:
`AllocReturn`, `AllocBreak` (no memory, or entry in use) and `AllocMapFails`. The
initial state is the one before `edma_configure_rings` fills the RXFILL rings.

### EdmaIrq

A handler reads a status register and writes the mask register of one ring per
step; the two accesses of a ring are one step because nobody else writes both.
`work` is what waits in a ring, and the status register shows whether there is
any. `PollRing` takes what `edma_clean_rx`, `edma_clean_tx` and
`edma_alloc_rx_buffer` would; the first keeps to the budget, the others do not
know it. A poll that completes NAPI goes on to enable the interrupts, while
the next poll may already run on another CPU. `forgotten` records that a handler
or a poll has returned with interrupts disabled and no poll scheduled. The
lines are taken not to be shared with other devices, and NAPI's "missed" flag
(newer kernels) is left out: it belongs to polls that are scheduled again while
they run, and the interrupts are disabled then.

### Lifecycle

One configuration task at a time (rtnl lock). `nss_dp_open` is `OpenInit`
(`OpenIrqFails`), `OpenUp` (`OpenVsiFails`), `OpenDataPlane`; `nss_dp_close` is
`StopQueue`, `StopCarrier`, `StopDataPlane` (`StopVsiFails`); override and restore end
with a swap of the operations. `DataPlaneInit`, `DataPlaneOpen`, `DataPlaneClose`,
`DataPlaneDeinit` and `EdmaCleanup` are the EDMA operations; those of an overlay
driver succeed and do not touch EDMA. Beside the task run transmitters that stop
a queue, the poll that starts it, and the PHY worker. `Faults`, `MaxFaults` and
`MaxRestores` set what the environment does. The module exits only when no overlay
driver is left, since overlay drivers link against it.

### SynDp

A transmitter of `syn_dp_tx` looks at `busy_tx_desc`, takes `data_lock`, fills a
descriptor (`XmitQueue`, which also reaches the `BUG_ON` of a descriptor that is not
empty) and demands a poll of the DMA (`XmitResume`). The poll of `syn_dp_napi_poll`
takes completed Tx descriptors, received frames, and refills the Rx ring; it then
completes NAPI and enables the interrupt. The DMA takes descriptors that it owns in
order, suspends its Tx half at one that it does not own, and latches an event.
`syn_dp_if_xmit` frees an skb that it cannot queue and returns `NETDEV_TX_BUSY`
(`XmitMapFails`, `XmitRefuse`); `XmitAgain` is what the stack then does with the freed
skb, and ends in `bug = "freed_skb"`. The configuration task goes through init, open,
close and deinit. `CloseDma` is the close by `dev_close`, which has waited for the
transmitters; `OverrideStop` is the direct `ndo_stop` of an override or a restore
(`direct`), which has not, so that a transmitter may meet the deinit of the rings
(`QueueFault`: `bug` is `"freed_ring"`, or `"tx_queue"` for the `BUG_ON`). Newer kernels wait in
`netif_napi_del`; the model does not rely on it. `missed` records an interrupt whose
`napi_schedule` was refused because NAPI was being disabled. `leaked` are the skbs
that `syn_dp_cleanup_rings` forgets: it frees one of each ring.

### EdmaCfg

`edma_init` is `RequestRegion`, `MapRegisters` and the steps of `edma_hw_init` (`Reset`,
`MapTxdesc` for each ring, `AllocRings`, `SetupRing` for each ring, `Configure`,
`MapRxdesc`, `Enable`) with the failures on the way; `Unwound` is what the failure path
of a ring releases. `edma_cleanup` is `CleanupBegin` to `CleanupEnd`. The map
registers are sets of bits, and `TxcmplOf` and `RxfillIdOf` decode them the way the
hardware does. Between setup and cleanup buffers move through the rings
(`HwTake`, `HwReport`, `DriverStep`); a ring that was disabled is taken to report
nothing more. `CleanTxdesc` is the cleanup of a TXDESC ring with packets left in it: it
unmaps and frees what it finds at a wild index of the store (`wild`), two descriptors at a
time, and `CleanTxdescStuck` is where it stays: for ever with an odd number of packets, and
at any packet because the kernel may not survive the access. The Tx map is that of the IPQ807x build. `wild` records accesses outside
of what is allocated or mapped.

### NssDp

`nss_dp_probe` is one action per stretch between two calls that can fail; the
filter of `nss_dp_set_slow_proto_filter` is one action per call of the switch. Events
of the bridge come one at a time and interleave with probes and removals. `astray` are the
ports whose filter no longer follows their STP state for a reason given at
`FilterFollowsStp`. `nss_dp_remove` is begun by `Unbind` or `UnbindAtExit` and goes through the
ports: `RemoveNext` (the PHY is disconnected), `RemoveUnregister` (which waits for the rtnl
lock), `RemoveExit`, `RemoveFree` and, last, `RemoveClear` of `nss_dp[i]`, which others read
meanwhile. A call through a NULL pointer (`exit` of the MAC operations on the EDMA SoCs, with
PHY and net device already gone) ends in `oops`. `irq` says whose interrupt handler a port on
IPQ50xx has: registered by its first open, freed by an override and by nothing else, and
`"orphan"` once the port was removed; the rings go the same way, while NAPI is deleted by
`free_netdev`. `notifier` is the switchdev notifier (kernels from 4.5 on), which stays
registered: an event after the exit ends in `oops` (`EventAfterExit`). One probe or removal
runs at a time, as the driver core of the kernels before 4.19 takes the lock of the ports' common parent.

### PortCfg

Open and close are sequences of data plane calls, of which any may fail (`Through`).
Everything that holds the rtnl lock is one step, but for override and restore, which
assign context and operations in two (`OverrideDeinit`, `RestoreOps`, `SwapEnds`). The
functions of `nss_dp_attach.c` take no lock themselves: that overlay drivers call override,
start and restore with the rtnl lock held is an assumption of `PortCfg`, `Lifecycle`, `SynDp` and
`NssDp`. Transmitters, flow steering, link changes and readers of statistics (`CallBegins`,
`CallEnds`) load operations and context in either order and without a lock. Flow steering
tests the operation first and makes two calls, each with what it loads anew. On IPQ50xx a
restore ends with the context at another index than the probe's (`RestoredContext`): `Foreign` is the
context of the other port or what follows the array. With it nothing reaches the data plane of
the port (`Telling`), and an operation that follows the context may stop the kernel (`Wild`). What such
calls do to the other port is left out. A register is four bytes, so that `QcomPacked` and
`SynPacked` place bytes as the shifts do. `SockaddrBytes` are the six bytes that a data
plane finds at the pointer it is given by `nss_dp_set_mac_address`. The overlays of
the run leave out `get_stats` and `rx_flow_steer`, `init` and, to be rejected, `mac_addr`.

## 3. Runs

Passing runs:

| Run | Bounds | Shows |
|---|---|---|
| `tx_safety` | ring of 2 (full with one packet), 3 skbs, 2 Tx queues | `DmaSafe`, `CompletionsValid`, `SkbAccounting` |
| `tx_live` | ring of 2, 2 skbs, 2 queues | every skb is released (`SkbsAreReleased`), `ndo_start_xmit` returns (`XmitReturns`), a stopped queue is resumed if a completion is still to come (`ResumedWhileWorkPending`) |
| `rx_safety` | 2 RXDESC and 2 RXFILL rings of 2 on one store, 2 skbs, budget 1 | `DmaSafe`, `ReceivedValid`, `BuffersAccounted`, and the safety of `RxPath` |
| `rx_live` | one RXDESC and one RXFILL ring of 4, 2 skbs, budget 1 | the rings implement `RxPath` with its liveness; the hardware is not starved (`NotStarved`) |
| `irq_handover` | 2 lines, 2 CPUs, budget 1, up to 2 units of work per ring | no interrupt is left disabled but where the code gives up on it (`EnabledUnlessForgotten`); work is polled (`WorkIsPolled`) |
| `life` | 2 devices, 2 faults, 2 restores | see below |
| `syn_safety` | rings of 2, 3 skbs to send and 1 to receive, 2 CPUs, budget 1, one skb forgotten | `RingsInStep`, `SkbsAccounted`, `OnlyTxRaceBugs`, `CleanupAlone` |
| `syn_live` | rings of 2, 1 skb each way, 1 CPU, budget 1 | `TxReleased`, `RxTaken`, `RxRecovers` |
| `edma_cfg` | 3 device trees, 3 buffers (an odd and an even number of packets in a ring) | `MapsAgree`, `RingsBacked`, `InitFailureReleases`, `CleanupReleases` |
| `switch` | 2 ports, one with a PHY, 1 failure, 1 unbinding or override, any number of changes of an STP state, EDMA SoCs and IPQ50xx | `BitmapBacked`, `FilterFollowsStp`, `PublishedIsComplete` (with `ContextsAreOwn`), `UnloadedIsClean` |
| `portcfg` | Qualcomm MAC and Synopsys GMAC, with and without PHY, 3 overlays, 2 addresses, 2 MTUs, 1 failure, 1 setting, 3 overrides or restores | `SettingsReported` (`MacHoldsAddress`, `PauseAdvertised`, `EeeRoundTrip`), `DataPlaneReady` (`DataPlaneIsTold`, `OpenedIsInitialised`), `CallsAreSound` (`CallsCarryOwnContext`, `MissingOpsRejected`) |

The type invariants of `EdmaTx`, `EdmaIrq` and `Lifecycle` are theorems of their own
(section 5); those of the other modules are conjuncts of `BuffersAccounted`,
`RingsInStep`, `RingsBacked`, `PublishedIsComplete` and `CallsAreSound`.

A ring of 2 is full with one descriptor, a ring of 4 wraps with several in it; two
transmitters, lines, CPUs or devices are enough for every pair of actors to meet,
and three skbs let one wait outside while the ring is full. `irq_handover` has more
work than the budget in a ring. Symmetry is used in runs without liveness only.
`CHECK_DEADLOCK FALSE` is set for `Lifecycle` and `NssDp`, which stop after the module
has exited, and for `PortCfg`, which stops at a call through a NULL pointer. The device
trees of `edma_cfg` are that of IPQ807x and two whose rings lie across the
boundaries of the map registers, share rings, and end at the last one. `MaxChanges` of
`switch` bounds unbindings and overrides together; that two failures meet is left to the
proofs, which have no bound. `portcfg` has a setting at any place of a sequence such as override,
restore, override, the shortest one with an override after a foreign restore; a sequence of
several settings is left to the proofs. An XGMAC has the registers of the Synopsys GMAC and the calls of the Qualcomm MAC.

The life-cycle properties say how far the code keeps its promises. `CleanupOnce`
holds whatever happens. `NapiPaired`, `CarrierMatchesLink` and
`CleanedUpByLastOverride` hold until an overlay driver first gives a device back,
also when interrupt requests and VSI calls fail. `OpenIsPolled` holds in regular
use: until the first failed call or the first restore. What happens after that: a
device that is overridden while open, restored, closed and opened has no NAPI; an
override after a failed open disables NAPI under another device; a failed interrupt
request leaves handlers behind.

`TxPath`, the order in which the transmit path sends what it has accepted, is not part of a
run: in a ring of 2 there is no order to break, and a ring of 4 with 3 skbs does not finish in
the time of a run. The refinement (`ImplementsPath` of `EdmaTx`) is a theorem for every ring size,
`TxImplementsPath`.

The run `tx_preheader` shows a disagreement with a comment of the repository (see
`findings`): an skb that is retried is sent with two preheaders.

### What the models show to go wrong

Properties are stated so that they hold, and name the cases in which the code does
not keep what one would expect. These are the cases; the hazards have the lines of
those that a property is about:

- EDMA transmit: a queue that is stopped after the last completion was reaped stays
  stopped; a retried skb has two preheaders.
- EDMA interrupts: a handler that finds no status returns with all interrupts
  disabled (`forgotten`). The budget is given in full to each RXDESC ring, so that a
  poll may report more work than its budget.
- Life cycle: the poll starts a queue in the middle of a stop; a device overridden,
  restored and overridden again counts for two, so that EDMA is cleaned up under another
  device; `nss_dp_exit` releases rings and registers before the devices that use them
  are closed; see also above.
- Synopsys data plane: two transmitters that see the last descriptor free end in a
  `BUG_ON`; `deinit` forgets skbs; an interrupt that meets a close is lost; an skb that
  was dropped and freed is reported with `NETDEV_TX_BUSY`, and the stack sends or frees it
  again; a transmitter that an override does not wait for writes to freed rings; a Tx ring
  that cannot be allocated leaves the Rx ring.
- EDMA setup: the producer index of a TXDESC ring is not copied from the consumer index,
  with which it agrees only because of the reset; the failure path of a ring goes on with index -1 and leaves the arrays
  of rings; the cleanup of a TXDESC ring takes a DMA address for a store index, frees what it
  finds there and nothing that is in the ring, and never ends with an odd number of packets;
  after an override has cleaned up, the exit of the
  module writes a register that is not mapped.
- Module: a failed probe leaves its PHY connected; a failed
  registration of the driver leaves the HAL initialised; the EDMA SoCs have no `exit`
  operation; a port that is being removed is found through `nss_dp[]` after its net device
  was freed; the switchdev notifier, and on IPQ50xx the interrupt handler and the rings of a
  port that was opened, stay after the exit.
- Switchdev: a probe clears the bitmap of the other ports; the way back from a refused
  state changes a filter that had not changed.
- Port settings: a data plane started while the stack has the device down is given
  `sa_family` for the first bytes of an address; `deinit` gets the context of the next
  data plane; calls that meet a swap get that of another one, and flow steering may call an
  operation that is not there; a port restored on IPQ50xx works on the context of the other port or
  on none; `init`, `vsi_assign`,
  `vsi_unassign` and `get_stats` of an overlay are called without a test; `INIT_DONE` survives
  a restore; a new device reports no flow control and advertises both kinds; EEE at 5000
  is lost when settings are read and written back.

## 4. Fairness

- Transmitters and the poller are kernel code that runs to its end once called
  (`WF`); nobody has to transmit. A spinning transmitter gets `tx_lock` in the end
  (`SF`: kernel spinlocks are fair).
- The poll runs when a completion or packet waits, by the interrupt; `EdmaIrq`
  models when that holds.
- The hardware fetches descriptors, and completes a packet whenever the TXCMPL ring
  has room time and again (`SF`).
- Allocation succeeds if it is tried again and again (`SF`), and the stack frees the
  skbs it was given.
- A level-triggered line that stays asserted is taken.
- `SynDp`: the transmitters, the poll, the DMA and the handler go on (`WF`), a
  transmitter gets `data_lock`, and allocation succeeds if it is tried again and again (`SF`).
  Frames keep arriving while the Rx ring has no buffer at all; otherwise no later frame or
  packet is relied on to make up for an interrupt.
  The liveness properties are about a device that stays open and did not miss an
  interrupt (`Working`).
- No fairness for opening, closing, link changes, transmitting, dropping or new
  work.

## 5. Proofs

TLAPS proves the following for every value of the constants that the assumptions of
the modules allow: every ring size from 2, any skbs, queues, rings, CPUs, budgets,
devices, device trees, STP states, and any bound on faults. Each proof has the same
shape. The property is not inductive; an invariant `IInv`, a conjunction of named parts,
is. Lemmas show that each action keeps each part; `Invariance` puts them together, and
the properties follow from `IInv`. Each `IInv` was first checked by TLC on the instance
of the runs.

### Rings

`RingTheorems` has the index arithmetic without remainders (`NextIdxFacts`, `Wrapped`,
distance between two indices) and what producing and consuming do to the descriptors
between two indices and to their contents as a sequence (`ContentsType`, `ContentsAt`,
`ContentsSame` and the lemmas beside them). The proofs of `EdmaTx`, `EdmaRx` and `SynDp`
rest on it.

### Transmit path (`EdmaTxProofs`)

`TypeCorrect`, `DmaIsSafe`, `CompletionsAreValid`, `SkbsAreAccounted` and `TxImplementsPath`. `DmaSafe` and
`CompletionsValid` say nothing of an skb on its way from a transmitter to a descriptor or
from a completion to the poller. `IInv` follows the store index around: lock holder
(`LockInv`, `UseInv`, `ClaimInv`), store (`StoreInv`: the index in the preheader is the
index of the entry), descriptors (`DescInv`), hardware (`FlightInv`), completions
(`CmplInv`: each names an entry that nothing else refers to), poller (`NapiIdxInv`,
`NapiSkbInv`). `TxImplementsPath` is the refinement of `TxPath`: `XmitPublish` is the
acceptance of a packet, `HwFetch`, `HwComplete` and the release by the poller are its
other steps, and every other action leaves the mapped state alone.

### Receive path (`EdmaRxProofs`)

`DmaIsSafe`, `ReceivedAreValid`, `BuffersAreAccounted` and `RxKeepsPathSafety`. Several RXFILL rings share the entries of one store, so two of them may
hold descriptors with the same index; what keeps them apart is that `edma_alloc_rx_buffer`
tests the store entry first. `FillInv` says so: a descriptor has a mapped buffer with its own
number, which no other ring has. `AllocInv` and `PollInv` say that a consumer or producer
index that was read before and is now old is never passed; `HwInv` and `DescInv` follow a
buffer through hardware and report; `WayInv` says that no mapped buffer is forgotten.
`RxKeepsPathSafety` is the safety part of the refinement of `RxPath`: a refill that ends is
the step that posts all the buffers it has added.

### Interrupts (`EdmaProofs`)

`IrqTypeCorrect` and `NoneLeftDisabled`. The invariant `HandOver` says that every disabled
interrupt has somebody who will enable it (a scheduled poll, a handler on its way to schedule
one, a poll that has not come to the ring yet), or was forgotten.

### Life cycle (`LifecycleProofs`)

Three invariants, for three ranges of use. `IInv`, whatever happens: the number of
cleanups goes with `edma_initialized`, and `napi_added` with the interrupts requested,
which makes the subtraction in `edma_cleanup` safe (`TypeCorrect`, `CleanedUpOnce`). `UseInv`,
until a device is given back: NAPI is enabled exactly while `active` is positive, right or
not (`NapiInv`), each device counts once as overridden (`OverrideInv`), and no PHY is left
to switch the carrier of a device that is not running (`CarrierInv`); from it follow
`NapiIsPaired`, `CarrierFollowsLink` and the action property `CleanupIsLast`.
`RegularInv`, until a call fails too: `active` is the number of devices that are up on
EDMA, from which `OpenDevicesArePolled` follows. The assumption that there are at most
`MaxGmacs` devices is `nss_dp_main.c:448`, which refuses an id above
`NSS_DP_HAL_MAX_PORTS`, with `edma_data_plane.h:32`, which defines `EDMA_MAX_GMACS` as that
number; `CleanupIsLast` needs it.

### Synopsys data plane (`SynDpProofs`)

`RingsStayInStep`, `OnlyTheTxRaceBugs`, `CleanupIsAlone` and `SkbsAreAccounted`. A ring of this
data plane may be full to the last descriptor, so that the indices do not tell full from
empty. `TxShape` and `RxShape` therefore take the counter for the truth: the descriptors
in use are the `busy` ones from the first, the next index follows them, and those that
the DMA owns are the ones from its own position on. `LoopInv` keeps the loops of the poll,
which read the counter once, within what is in use although transmitters add to it; `AdmInv`
says what can run at each stage of open and close, which after a direct `ndo_stop` includes the
transmitters; `XmitInv`, `TxSkbInv`, `RxSkbInv` and
`LocatedInv` give each skb one place.

### Setup and cleanup of the EDMA (`EdmaProofs`)

`RingsAreBacked`, `FailureReleases`, `CleanupGivesBack` and `MapsAreRight`. `IInv` says what is held at each place of
`edma_init`, `edma_hw_init` and `edma_cleanup`: in the setup loop the rings of the kinds before and
the first `idx` of the current one, in the cleanup the rings of the kinds from the current
one on (`MemInv`); the unit and the arrays (`UnitInv`); base addresses and enabled rings
(`EnabledInv`); the port (`PortInv`); what was accessed out of bounds (`WildInv`, with
`UnwoundOf` for the failure path that goes on to index -1); and where no buffer can be
(`WhereInv`). `CleanupGivesBack` is about a cleanup that ends; one that finds packets in a
TXDESC ring may not. `MapsAreRight` holds while the ring numbers of the device tree are among
those of the hardware (`TreeExists`, from `edma_data_plane.h:37-41`; nothing in the driver
tests it, and with others a field would take the place of another or lose a bit).
`TxMapInv` and `RxMapInv` say that after `n` rounds of a loop the registers have the fields
of the first `n` rings and nothing else; `TurnBack`, `FieldBit`, `PlaceInReg` and
`ThreeBits` are the arithmetic of remainders and bits that the decoding needs.

### Module, probe, switchdev (`NssDpProofs`)

`BitmapIsBacked`, `FilterFollowsState`, `PublishedPortsAreComplete` and `UnloadedModuleIsClean`. What a
port holds is tied to the place of its probe (`ProbeInv`, `HeldInv`, `PublishedInv`, `ExitInv`) and of its
removal (`RemoveInv`, `IrqInv`), and what the switch was told to the place of the filter calls (`MarkInv`, `PathInv`). `TaskInv` is the part
that the way back from a refused state needs: what `shad`, read before the call, says of
the filter afterwards.

### Port settings and the data plane interface (`PortCfgProofs`)

`SoundCalls`, `ReadyDataPlane` and `ReportedSettings`, for any number of overlays with any operations
missing, of which any may fail, and any addresses, MTUs, capabilities and requests.
`PlaneInv` ties operations and context to the stage of a swap and says that every data plane
in sight, also the one that a call without the lock has loaded, has passed the test of the
override (`Complete`), or is the foreign context of a restore; `LoadedInv` says that a call that met
no swap has loaded what is still there, so that what it loads next fits, and that the operation
that flow steering has looked for is still in the table. `DataPlaneIsTold` is not inductive: an override whose
`deinit` fails leaves the stopped data plane in place, so `ToldInv` includes that stage.
`InitInv` adds that `INIT_DONE` itself stands for an initialised data plane or was carried over,
and that an override has taken it back before the next one comes in. `OpenDone` has what
each prefix of the calls of `nss_dp_open` has done: who was opened was given address and MTU before.
`UnpackedPacked` is the packing of addresses by the three MACs, `ModesBack` the translation of
EEE modes, which rests on link modes being all different.

The assumption that `"none"`, `"own"` and `"foreign"` are no overlays is about the model.

### Only model-checked

- All liveness properties, and with them `ImplementsPath` of `EdmaRx`, which includes the
  liveness of `RxPath`: they need fairness and `ENABLED`, which the prover does not treat.

Every invariant and every action property of the passing runs is stated by a theorem.

## 6. Not modelled

- Packet contents, lengths, checksums and the values of counters; the misc interrupt of
  EDMA, which only counts; burst sizes, timers and error masks, which are written once.
- More than one TXDESC ring in `EdmaTx`, whose transmitters would hold different locks
  on one store (`edma_data_plane.c:155`); the MACs' `start`, `stop`, flow control, pause
  frames and frame size, which have no caller in the driver; their register headers.
- Flow rules, queue selection, features, ioctls, bridge flags and strings: they pass a
  value on or look one up and keep no state that another part reads. (With interfaces
  numbered from 0, `nss_dp_get_netdev_by_nss_if_num` accepts a number one past the end, and finds the
  port with the next id for all others.)
- SoC clocks and reset lines: single writes at init.
- In `SynDp`, the counters, which all ports add to `dp_info[0]`; in `NssDp`, what happens to
  a port on IPQ50xx that was restored (it is in `PortCfg`); in `Lifecycle`, operations of an overlay that fail (in `PortCfg` they do).

## 7. Plan

Several TXDESC rings in `EdmaTx` (ring choice by queue, shared store), with the proofs of
`EdmaTxProofs` for them.
