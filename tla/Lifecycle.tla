----------------------------- MODULE Lifecycle ------------------------------
(***************************************************************************)
(* Life of the net devices on the EDMA data plane: ndo_open and ndo_stop,  *)
(* the override, start and restore calls of an overlay driver, the state   *)
(* of the EDMA that the devices share (NAPI, interrupts, rings and         *)
(* registers), the link and queue states, and the exit of the module.      *)
(*                                                                         *)
(* One configuration task runs at a time: ndo_open and ndo_stop need the   *)
(* rtnl lock, and an overlay driver holds it since it calls both.  The PHY *)
(* worker, the poll and the transmitters run between its steps.            *)
(***************************************************************************)
EXTENDS Integers, FiniteSets

CONSTANTS
  Ports,        \* net devices of the driver, at most NSS_DP_HAL_MAX_PORTS
  LinkPoll,     \* those with a PHY that reports the link (link_poll)
  MaxGmacs,     \* EDMA_MAX_GMACS, which is NSS_DP_HAL_MAX_PORTS
  NumIrqs,      \* interrupt lines that edma_irq_init requests
  Faults,       \* calls that may fail: "irq", "vsi_assign", "vsi_unassign"
  MaxFaults,    \* bound on how often one does
  MaxRestores   \* bound on how often an overlay driver gives a port back

ASSUME LifecycleAssumption ==
  /\ IsFiniteSet(Ports) /\ Cardinality(Ports) <= MaxGmacs /\ LinkPoll \subseteq Ports
  /\ MaxGmacs \in Nat \ {0} /\ NumIrqs \in Nat \ {0}
  /\ Faults \subseteq {"irq", "vsi_assign", "vsi_unassign"}
  /\ MaxFaults \in Nat /\ MaxRestores \in Nat

VARIABLES
  task,         \* configuration task: "none", "dev_open", "dev_close",
                \*   "override", "start" or "restore"
  cur,          \*   its port
  pc,           \*   and where it is
  running,      \* IFF_UP of each port, kept by the network stack
  up,           \* __NSS_DP_UP
  init_done,    \* NSS_DP_PRIV_FLAG(INIT_DONE)
  ops,          \* data_plane_ops: "edma" or "overlay"
  queue,        \* the Tx queue is started
  carrier,      \* netif_carrier_ok
  link_state,   \* link_state is __NSS_DP_LINK_UP
  phy,          \* the PHY was started
  active,       \* edma_hw: number of devices opened
  napi,         \*   NAPI: "none", "disabled", "enabled" or, after a call of
                \*     napi_enable or napi_disable that hangs, "bug"
  napi_added,   \*   napi_added
  irqs,         \*   interrupt handlers requested and not freed
  netdev_arr,   \*   ports registered
  dp_override_cnt,
  edma_initialized,
  mapped,       \* reg_base is mapped and the rings are allocated
  cleanups,     \* times they were released
  loaded,       \* common_init_done
  faults, restores

taskVars == <<task, cur, pc>>
netVars  == <<queue, carrier, link_state, phy>>
irqVars  == <<napi_added, irqs, netdev_arr>>
cleanedVars == <<napi_added, irqs, edma_initialized, mapped, cleanups>>
edmaVars == <<active, napi, irqVars, dp_override_cnt, edma_initialized, mapped,
              cleanups>>
vars == <<taskVars, running, up, init_done, ops, netVars, edmaVars, loaded,
          faults, restores>>

\* After nss_dp_init, edma_init and the probe of every port.
Init ==
  /\ task = "none" /\ cur \in Ports /\ pc = "idle"
  /\ running = [p \in Ports |-> FALSE]
  /\ up = [p \in Ports |-> FALSE]
  /\ init_done = [p \in Ports |-> FALSE]
  /\ ops = [p \in Ports |-> "edma"]
  /\ queue = [p \in Ports |-> TRUE]
  /\ carrier = [p \in Ports |-> FALSE]
  /\ link_state = [p \in Ports |-> FALSE]
  /\ phy = [p \in Ports |-> FALSE]
  /\ active = 0 /\ napi = "none" /\ napi_added = FALSE /\ irqs = 0
  /\ netdev_arr = {} /\ dp_override_cnt = 0
  /\ edma_initialized = TRUE /\ mapped = TRUE /\ cleanups = 0
  /\ loaded = TRUE
  /\ faults = 0 /\ restores = 0

-----------------------------------------------------------------------------
(* What starts a task *)

Begin(t, p, where) ==
  /\ pc = "idle"
  /\ task' = t /\ cur' = p /\ pc' = where

\* The stack opens a device ...
DevOpen(p) ==
  /\ loaded /\ ~running[p]
  /\ Begin("dev_open", p, "init")
  /\ UNCHANGED <<running, up, init_done, ops, netVars, edmaVars, loaded, faults,
                 restores>>

\* ... or closes it; unregister_netdev in nss_dp_remove does so, too.
DevClose(p) ==
  /\ running[p]
  /\ Begin("dev_close", p, "queue")
  /\ UNCHANGED <<running, up, init_done, ops, netVars, edmaVars, loaded, faults,
                 restores>>

\* nss_dp_override_data_plane with all operations present: a device that is up
\* is stopped first.
Override(p) ==
  /\ loaded /\ ops[p] = "edma"
  /\ Begin("override", p, IF up[p] THEN "queue" ELSE "swap")
  /\ UNCHANGED <<running, up, init_done, ops, netVars, edmaVars, loaded, faults,
                 restores>>

\* nss_dp_start_data_plane by the overlay driver whose context is in use.
Start(p) ==
  /\ loaded /\ ops[p] = "overlay" /\ ~up[p]
  /\ Begin("start", p, "init")
  /\ UNCHANGED <<running, up, init_done, ops, netVars, edmaVars, loaded, faults,
                 restores>>

\* nss_dp_restore_data_plane
Restore(p) ==
  /\ loaded /\ ops[p] = "overlay" /\ restores < MaxRestores
  /\ Begin("restore", p, IF up[p] THEN "queue" ELSE "swap")
  /\ restores' = restores + 1
  /\ UNCHANGED <<running, up, init_done, ops, netVars, edmaVars, loaded, faults>>

\* The call that may fail does.
Fails(call) ==
  /\ call \in Faults /\ faults < MaxFaults
  /\ faults' = faults + 1

-----------------------------------------------------------------------------
(* nss_dp_open *)

\* ndo_open returns: the stack takes note of the result, an overlay driver
\* does not.
OpenReturns(ok) ==
  /\ task' = "none" /\ pc' = "idle" /\ UNCHANGED cur
  /\ running' = IF task = "dev_open" THEN [running EXCEPT ![cur] = ok] ELSE running

\* The operation init of the data plane, for EDMA edma_if_init.
DataPlaneInit ==
  IF ops[cur] = "overlay" THEN UNCHANGED <<napi, irqVars>>
  ELSE /\ netdev_arr' = netdev_arr \union {cur}
       /\ napi_added' = TRUE
       /\ IF napi_added THEN UNCHANGED <<napi, irqs>>
          ELSE napi' = "disabled" /\ irqs' = irqs + NumIrqs

\* Mutant: the carrier is left as it is.
OpenInitKeepsCarrier ==
  /\ pc = "init"
  /\ init_done' = [init_done EXCEPT ![cur] = TRUE]
  /\ IF init_done[cur] THEN UNCHANGED <<napi, irqVars>> ELSE DataPlaneInit
  /\ pc' = "up"
  /\ UNCHANGED <<task, cur, running, up, ops, netVars, active,
                 dp_override_cnt, edma_initialized, mapped, cleanups, loaded,
                 faults, restores>>

\* Carrier off, and init unless it was done.
OpenInit ==
  /\ pc = "init"
  /\ carrier' = [carrier EXCEPT ![cur] = FALSE]
  /\ init_done' = [init_done EXCEPT ![cur] = TRUE]
  /\ IF init_done[cur] THEN UNCHANGED <<napi, irqVars>> ELSE DataPlaneInit
  /\ pc' = "up"
  /\ UNCHANGED <<task, cur, running, up, ops, queue, link_state, phy, active,
                 dp_override_cnt, edma_initialized, mapped, cleanups, loaded,
                 faults, restores>>

\* request_irq fails after k handlers were requested.  The failure path frees
\* with another dev_id than they were requested with, which frees none.
OpenIrqFails ==
  /\ pc = "init" /\ ~init_done[cur] /\ ops[cur] = "edma" /\ ~napi_added
  /\ Fails("irq")
  /\ \E k \in 0 .. NumIrqs - 1 : irqs' = irqs + k
  /\ netdev_arr' = netdev_arr \union {cur}
  /\ napi' = "disabled"
  /\ carrier' = [carrier EXCEPT ![cur] = FALSE]
  /\ OpenReturns(FALSE)
  /\ UNCHANGED <<up, init_done, ops, queue, link_state, phy, active, napi_added,
                 dp_override_cnt, edma_initialized, mapped, cleanups,
                 loaded, restores>>

\* The device is marked up, then the VSI is assigned ...
OpenUp ==
  /\ pc = "up" /\ (ops[cur] = "edma" => cur \in netdev_arr)
  /\ up' = [up EXCEPT ![cur] = TRUE]
  /\ pc' = "open"
  /\ UNCHANGED <<task, cur, running, init_done, ops, netVars, edmaVars, loaded,
                 faults, restores>>

\* ... unless that fails, as it does for a port that EDMA does not know.
OpenVsiFails ==
  /\ pc = "up"
  /\ \/ ops[cur] = "edma" /\ cur \notin netdev_arr /\ UNCHANGED faults
     \/ Fails("vsi_assign")
  /\ up' = [up EXCEPT ![cur] = TRUE]
  /\ OpenReturns(FALSE)
  /\ UNCHANGED <<init_done, ops, netVars, edmaVars, loaded, restores>>

\* Mutant: NAPI is enabled by every device that is opened.
DataPlaneOpenAlways ==
  IF ops[cur] = "overlay" THEN UNCHANGED <<active, napi>>
  ELSE /\ active' = active + 1
       /\ napi' = IF napi = "disabled" THEN "enabled" ELSE "bug"

\* edma_if_open: the first device enables NAPI.
DataPlaneOpen ==
  IF ops[cur] = "overlay" THEN UNCHANGED <<active, napi>>
  ELSE /\ active' = active + 1
       /\ napi' = IF active # 0 THEN napi
                  ELSE IF napi = "disabled" THEN "enabled" ELSE "bug"

\* The data plane is opened, the queue started, and the link reported up or
\* left to the PHY.
OpenDataPlane ==
  /\ pc = "open"
  /\ DataPlaneOpen
  /\ queue' = [queue EXCEPT ![cur] = TRUE]
  /\ link_state' = [link_state EXCEPT ![cur] = cur \notin LinkPoll]
  /\ carrier' = [carrier EXCEPT ![cur] = cur \notin LinkPoll \/ @]
  /\ phy' = [phy EXCEPT ![cur] = cur \in LinkPoll]
  /\ OpenReturns(TRUE)
  /\ UNCHANGED <<up, init_done, ops, irqVars, dp_override_cnt, edma_initialized,
                 mapped, cleanups, loaded, faults, restores>>

OpenStep == OpenInit \/ OpenIrqFails \/ OpenUp \/ OpenVsiFails \/ OpenDataPlane

-----------------------------------------------------------------------------
(* nss_dp_close *)

\* The queue is stopped ...
StopQueue ==
  /\ pc = "queue"
  /\ queue' = [queue EXCEPT ![cur] = FALSE]
  /\ pc' = "carrier"
  /\ UNCHANGED <<task, cur, running, up, init_done, ops, carrier, link_state, phy,
                 edmaVars, loaded, faults, restores>>

\* ... the carrier is turned off ...
StopCarrier ==
  /\ pc = "carrier"
  /\ carrier' = [carrier EXCEPT ![cur] = FALSE]
  /\ pc' = "close"
  /\ UNCHANGED <<task, cur, running, up, init_done, ops, queue, link_state, phy,
                 edmaVars, loaded, faults, restores>>

\* ndo_stop returns: nobody looks at the result.
StopReturns ==
  /\ UNCHANGED cur
  /\ IF task = "dev_close"
       THEN /\ task' = "none" /\ pc' = "idle"
            /\ running' = [running EXCEPT ![cur] = FALSE]
       ELSE pc' = "swap" /\ UNCHANGED <<task, running>>

\* Mutant: NAPI is disabled by every device that is closed.
DataPlaneCloseAlways ==
  IF ops[cur] = "overlay" THEN UNCHANGED <<active, napi>>
  ELSE active' = active - 1 /\ napi' = "disabled"

\* edma_if_close: the last device disables NAPI.
DataPlaneClose ==
  IF ops[cur] = "overlay" THEN UNCHANGED <<active, napi>>
  ELSE /\ active' = active - 1
       /\ napi' = IF active # 1 THEN napi
                  ELSE IF napi = "enabled" THEN "disabled" ELSE "bug"

\* ... the PHY stopped, the VSI unassigned, the data plane closed, and the
\* device is no longer up.
StopDataPlane ==
  /\ pc = "close"
  /\ phy' = [phy EXCEPT ![cur] = FALSE]
  /\ link_state' = [link_state EXCEPT ![cur] = FALSE]
  /\ DataPlaneClose
  /\ up' = [up EXCEPT ![cur] = FALSE]
  /\ StopReturns
  /\ UNCHANGED <<init_done, ops, queue, carrier, irqVars, dp_override_cnt,
                 edma_initialized, mapped, cleanups, loaded, faults, restores>>

\* Or the VSI is not unassigned, and the data plane is not closed.
StopVsiFails ==
  /\ pc = "close" /\ Fails("vsi_unassign")
  /\ phy' = [phy EXCEPT ![cur] = FALSE]
  /\ link_state' = [link_state EXCEPT ![cur] = FALSE]
  /\ StopReturns
  /\ UNCHANGED <<up, init_done, ops, queue, carrier, edmaVars, loaded, restores>>

StopStep == StopQueue \/ StopCarrier \/ StopDataPlane \/ StopVsiFails

-----------------------------------------------------------------------------
(* Override, restore and exit *)

\* Mutant: EDMA is not marked as cleaned up.
EdmaCleanupForgets ==
  IF ~edma_initialized THEN UNCHANGED cleanedVars
  ELSE /\ irqs' = IF napi_added THEN irqs - NumIrqs ELSE irqs
       /\ napi_added' = FALSE
       /\ mapped' = FALSE /\ cleanups' = cleanups + 1
       /\ UNCHANGED edma_initialized

\* edma_cleanup: NAPI and the interrupt handlers are removed if NAPI was added,
\* then rings and registers are released.  The register that disables the
\* EDMA port is written at exit only, in either case.
EdmaCleanup ==
  IF ~edma_initialized THEN UNCHANGED cleanedVars
  ELSE /\ irqs' = IF napi_added THEN irqs - NumIrqs ELSE irqs
       /\ napi_added' = FALSE
       /\ mapped' = FALSE /\ cleanups' = cleanups + 1
       /\ edma_initialized' = FALSE

\* Mutant: one override too early.
DataPlaneDeinitEarly ==
  IF dp_override_cnt + 2 >= MaxGmacs
    THEN EdmaCleanup /\ UNCHANGED dp_override_cnt
    ELSE dp_override_cnt' = dp_override_cnt + 1 /\ UNCHANGED cleanedVars

\* edma_if_deinit
DataPlaneDeinit ==
  IF dp_override_cnt = MaxGmacs - 1
    THEN EdmaCleanup /\ UNCHANGED dp_override_cnt
    ELSE dp_override_cnt' = dp_override_cnt + 1 /\ UNCHANGED cleanedVars

\* The end of nss_dp_override_data_plane: deinit if init was done, then the
\* operations are replaced.
OverrideSwap ==
  /\ pc = "swap" /\ task = "override"
  /\ IF init_done[cur] THEN DataPlaneDeinit
     ELSE UNCHANGED <<cleanedVars, dp_override_cnt>>
  /\ init_done' = [init_done EXCEPT ![cur] = FALSE]
  /\ ops' = [ops EXCEPT ![cur] = "overlay"]
  /\ task' = "none" /\ pc' = "idle"
  /\ UNCHANGED <<cur, running, up, netVars, active, napi, netdev_arr, loaded,
                 faults, restores>>

\* The end of nss_dp_restore_data_plane.
RestoreSwap ==
  /\ pc = "swap" /\ task = "restore"
  /\ ops' = [ops EXCEPT ![cur] = "edma"]
  /\ task' = "none" /\ pc' = "idle"
  /\ UNCHANGED <<cur, running, up, init_done, netVars, edmaVars, loaded, faults,
                 restores>>

\* nss_dp_exit, once no overlay driver uses the module: EDMA is cleaned up, then
\* the devices are unregistered.
Exit ==
  /\ loaded /\ pc = "idle" /\ \A p \in Ports : ops[p] = "edma"
  /\ EdmaCleanup
  /\ loaded' = FALSE
  /\ UNCHANGED <<taskVars, running, up, init_done, ops, netVars, active, napi,
                 netdev_arr, dp_override_cnt, faults, restores>>

-----------------------------------------------------------------------------
(* What runs beside the task *)

\* edma_if_xmit stops the queue when the ring is full.
XmitStopsQueue(p) ==
  /\ running[p] /\ queue[p] /\ carrier[p] /\ ops[p] = "edma" /\ mapped
  /\ queue' = [queue EXCEPT ![p] = FALSE]
  /\ UNCHANGED <<taskVars, running, up, init_done, ops, carrier, link_state, phy,
                 edmaVars, loaded, faults, restores>>

\* edma_napi starts the queue of a device that has a carrier.
NapiResume(p) ==
  /\ napi = "enabled" /\ napi_added /\ p \in netdev_arr
  /\ ~queue[p] /\ carrier[p]
  /\ queue' = [queue EXCEPT ![p] = TRUE]
  /\ UNCHANGED <<taskVars, running, up, init_done, ops, carrier, link_state, phy,
                 edmaVars, loaded, faults, restores>>

\* nss_dp_adjust_link: the link of a started PHY has changed.
AdjustLink(p) ==
  /\ phy[p] /\ up[p]
  /\ link_state' = [link_state EXCEPT ![p] = ~@]
  /\ carrier' = [carrier EXCEPT ![p] = ~link_state[p]]
  /\ UNCHANGED <<taskVars, running, up, init_done, ops, queue, phy, edmaVars,
                 loaded, faults, restores>>

\* The PHY library turns the carrier off once the PHY has stopped.
PhyHalted(p) ==
  /\ p \in LinkPoll /\ ~phy[p] /\ carrier[p]
  /\ carrier' = [carrier EXCEPT ![p] = FALSE]
  /\ UNCHANGED <<taskVars, running, up, init_done, ops, queue, link_state, phy,
                 edmaVars, loaded, faults, restores>>

Next ==
  \/ \E p \in Ports : \/ DevOpen(p) \/ DevClose(p)
                      \/ Override(p) \/ Start(p) \/ Restore(p)
  \/ OpenStep \/ StopStep \/ OverrideSwap \/ RestoreSwap \/ Exit
  \/ \E p \in Ports : \/ XmitStopsQueue(p) \/ NapiResume(p)
                      \/ AdjustLink(p) \/ PhyHalted(p)

Spec == Init /\ [][Next]_vars

-----------------------------------------------------------------------------
(* Properties. *)

\* Types of the variables.
TypeOK ==
  /\ task \in {"none", "dev_open", "dev_close", "override", "start", "restore"}
  /\ cur \in Ports
  /\ pc \in {"idle", "init", "up", "open", "queue", "carrier", "close", "swap"}
  /\ running \in [Ports -> BOOLEAN] /\ up \in [Ports -> BOOLEAN]
  /\ init_done \in [Ports -> BOOLEAN] /\ ops \in [Ports -> {"edma", "overlay"}]
  /\ queue \in [Ports -> BOOLEAN] /\ carrier \in [Ports -> BOOLEAN]
  /\ link_state \in [Ports -> BOOLEAN] /\ phy \in [Ports -> BOOLEAN]
  /\ active \in Int /\ napi \in {"none", "disabled", "enabled", "bug"}
  /\ napi_added \in BOOLEAN /\ irqs \in Nat /\ netdev_arr \subseteq Ports
  /\ dp_override_cnt \in 0 .. MaxGmacs - 1
  /\ edma_initialized \in BOOLEAN /\ mapped \in BOOLEAN /\ cleanups \in Nat
  /\ loaded \in BOOLEAN
  /\ faults \in 0 .. MaxFaults /\ restores \in 0 .. MaxRestores

\* No call has failed and no overlay driver has given a device back yet.
RegularUse == faults = 0 /\ restores = 0

\* A device that is open and uses EDMA is known to it and is polled: its
\* interrupts are requested and NAPI is enabled (edma_if_open: "Enable NAPI"),
\* whichever other devices were opened, closed and overridden before.
OpenIsPolled ==
  \A p \in Ports :
    RegularUse /\ loaded /\ pc = "idle" /\ running[p] /\ up[p] /\ ops[p] = "edma" =>
      napi = "enabled" /\ irqs > 0 /\ p \in netdev_arr

\* napi_enable and napi_disable alternate: the one is a bug on an enabled NAPI,
\* the other waits for ever on a disabled one.  The count of open devices sees
\* to that even when calls fail and the count is no longer right, as long as no
\* device is given back.
NapiPaired == restores = 0 => napi # "bug"

\* edma_cleanup "can happen from data plane override or from module_exit, we
\* want to cleanup only once".
CleanupOnce == cleanups <= 1

\* The carrier of an open EDMA device tells what link_state says, although the PHY
\* worker and the PHY library switch it while nss_dp_close and nss_dp_open run;
\* nss_dp_adjust_link would miss the next change of the link otherwise.
CarrierMatchesLink ==
  \A p \in Ports :
    restores = 0 /\ running[p] /\ up[p] /\ ops[p] = "edma" /\ (pc = "idle" \/ cur # p) =>
      carrier[p] = link_state[p]

\* This step releases rings and registers although a device still uses them.
CleansUpUnderDevice ==
  /\ edma_initialized /\ ~edma_initialized' /\ loaded'
  /\ \E p \in Ports : ops'[p] = "edma"

\* edma_if_deinit: "Free up resources used by EDMA if all the interfaces have
\* been overridden", and not earlier while the module is loaded, if no device is
\* given back: the count of overrides reaches its limit with the last device only.
CleanedUpByLastOverride == [][restores = 0 => ~CleansUpUnderDevice]_vars
=============================================================================
