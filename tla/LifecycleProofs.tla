-------------------------- MODULE LifecycleProofs ---------------------------
(***************************************************************************)
(* Proofs about Lifecycle, for any number of net devices that the driver   *)
(* has room for and any number of faults.  EDMA is cleaned up at most once *)
(* whatever fails; as long as no device is given back NAPI is enabled and  *)
(* disabled in turn, the carrier follows the link, and EDMA is cleaned up  *)
(* by the last override; and in regular use every open device is polled.   *)
(***************************************************************************)
EXTENDS Lifecycle, FiniteSetTheorems, TLAPS

\* EDMA was cleaned up once if it is not marked as initialised, else never.
OnceInv == cleanups = IF edma_initialized THEN 0 ELSE 1

\* While NAPI is added, the interrupt handlers of one edma_irq_init are there.
IrqInv == napi_added => irqs >= NumIrqs

IInv == TypeOK /\ OnceInv /\ IrqInv

USE DEF taskVars, netVars, irqVars, cleanedVars, edmaVars

\* What the operations of the data plane do to the types of EDMA.
LEMMA InitOp ==
  ASSUME IInv, DataPlaneInit
  PROVE  /\ napi' \in {"none", "disabled", "enabled", "bug"}
         /\ napi_added' \in BOOLEAN /\ irqs' \in Nat
         /\ netdev_arr' \subseteq Ports
         /\ napi_added' => irqs' >= NumIrqs
<1> USE LifecycleAssumption DEF IInv, TypeOK, IrqInv
<1>1. CASE ops[cur] = "overlay"
  BY <1>1 DEF DataPlaneInit
<1>2. CASE ops[cur] # "overlay" /\ napi_added
  BY <1>2 DEF DataPlaneInit
<1>3. CASE ops[cur] # "overlay" /\ ~napi_added
  BY <1>3 DEF DataPlaneInit
<1> QED
  BY <1>1, <1>2, <1>3

\* edma_cleanup keeps the types and cleans up only what is initialised.
LEMMA CleanupOp ==
  ASSUME IInv, EdmaCleanup
  PROVE  /\ napi_added' \in BOOLEAN /\ irqs' \in Nat
         /\ edma_initialized' \in BOOLEAN /\ mapped' \in BOOLEAN
         /\ cleanups' \in Nat
         /\ cleanups' = IF edma_initialized' THEN 0 ELSE 1
         /\ napi_added' => irqs' >= NumIrqs
<1> USE LifecycleAssumption DEF IInv, TypeOK, OnceInv, IrqInv
<1>1. CASE ~edma_initialized
  BY <1>1 DEF EdmaCleanup
<1>2. CASE edma_initialized
  <2>1. /\ irqs' = IF napi_added THEN irqs - NumIrqs ELSE irqs
        /\ napi_added' = FALSE /\ mapped' = FALSE
        /\ cleanups' = cleanups + 1
        /\ edma_initialized' = FALSE
    BY <1>2, Zenon DEF EdmaCleanup
  <2>2. cleanups = 0
    BY <1>2
  <2>3. irqs' \in Nat
    BY <2>1
  <2>4. napi_added' \in BOOLEAN /\ edma_initialized' \in BOOLEAN /\ mapped' \in BOOLEAN
    BY <2>1, Zenon
  <2>5. cleanups' = 1
    BY <2>1, <2>2
  <2>6. cleanups' = IF edma_initialized' THEN 0 ELSE 1
    BY <2>1, <2>5, Zenon
  <2>7. napi_added' => irqs' >= NumIrqs
    BY <2>1, Zenon
  <2>8. cleanups' \in Nat
    BY <2>5
  <2> QED
    BY <2>3, <2>4, <2>6, <2>7, <2>8, Zenon
<1> QED
  BY <1>1, <1>2

\* edma_if_deinit keeps the count of overrides in its range.
LEMMA DeinitOp ==
  ASSUME IInv, DataPlaneDeinit
  PROVE  /\ napi_added' \in BOOLEAN /\ irqs' \in Nat
         /\ edma_initialized' \in BOOLEAN /\ mapped' \in BOOLEAN
         /\ cleanups' \in Nat
         /\ cleanups' = IF edma_initialized' THEN 0 ELSE 1
         /\ napi_added' => irqs' >= NumIrqs
         /\ dp_override_cnt' \in 0 .. MaxGmacs - 1
<1>1. CASE dp_override_cnt = MaxGmacs - 1
  BY <1>1, CleanupOp DEF DataPlaneDeinit, IInv, TypeOK
<1>2. CASE dp_override_cnt # MaxGmacs - 1
  BY <1>2, LifecycleAssumption DEF DataPlaneDeinit, IInv, TypeOK, OnceInv, IrqInv
<1> QED
  BY <1>1, <1>2

\* The tasks that begin.
LEMMA BeginStep ==
  ASSUME IInv, NEW p \in Ports,
         DevOpen(p) \/ DevClose(p) \/ Override(p) \/ Start(p) \/ Restore(p)
  PROVE  IInv'
<1> USE LifecycleAssumption DEF IInv, TypeOK, OnceInv, IrqInv, Begin
<1>1. CASE DevOpen(p)
  BY <1>1 DEF DevOpen
<1>2. CASE DevClose(p)
  BY <1>2 DEF DevClose
<1>3. CASE Override(p)
  BY <1>3 DEF Override
<1>4. CASE Start(p)
  BY <1>4 DEF Start
<1>5. CASE Restore(p)
  BY <1>5 DEF Restore
<1> QED
  BY <1>1, <1>2, <1>3, <1>4, <1>5

\* nss_dp_open
LEMMA OpenStepInv ==
  ASSUME IInv, OpenStep
  PROVE  IInv'
<1> USE LifecycleAssumption DEF IInv, TypeOK, OnceInv, IrqInv, OpenReturns, Fails
<1>1. CASE OpenInit
  BY <1>1, InitOp DEF OpenInit
<1>2. CASE OpenIrqFails
  BY <1>2 DEF OpenIrqFails
<1>3. CASE OpenUp
  BY <1>3 DEF OpenUp
<1>4. CASE OpenVsiFails
  BY <1>4 DEF OpenVsiFails
<1>5. CASE OpenDataPlane
  BY <1>5 DEF OpenDataPlane, DataPlaneOpen
<1> QED
  BY <1>1, <1>2, <1>3, <1>4, <1>5 DEF OpenStep

\* The end of ndo_stop.
LEMMA StopReturnsOp ==
  ASSUME IInv, StopReturns
  PROVE  /\ task' \in {"none", "dev_open", "dev_close", "override", "start", "restore"}
         /\ cur' \in Ports
         /\ pc' \in {"idle", "init", "up", "open", "queue", "carrier", "close", "swap"}
         /\ running' \in [Ports -> BOOLEAN]
<1>1. CASE task = "dev_close"
  BY <1>1, Zenon DEF IInv, TypeOK, StopReturns
<1>2. CASE task # "dev_close"
  BY <1>2, Zenon DEF IInv, TypeOK, StopReturns
<1> QED
  BY <1>1, <1>2

\* nss_dp_close
LEMMA StopStepInv ==
  ASSUME IInv, StopStep
  PROVE  IInv'
<1> USE LifecycleAssumption DEF IInv, TypeOK, OnceInv, IrqInv
<1>1. CASE StopQueue
  BY <1>1 DEF StopQueue
<1>2. CASE StopCarrier
  BY <1>2 DEF StopCarrier
<1>3. CASE StopDataPlane
  <2>1. StopReturns
    BY <1>3 DEF StopDataPlane
  <2>2. /\ phy' \in [Ports -> BOOLEAN] /\ link_state' \in [Ports -> BOOLEAN]
        /\ up' \in [Ports -> BOOLEAN]
    BY <1>3, Zenon DEF StopDataPlane
  <2>3. active' \in Int /\ napi' \in {"none", "disabled", "enabled", "bug"}
    BY <1>3 DEF StopDataPlane, DataPlaneClose
  <2>4. UNCHANGED <<init_done, ops, queue, carrier, irqVars, dp_override_cnt,
                    edma_initialized, mapped, cleanups, loaded, faults, restores>>
    BY <1>3 DEF StopDataPlane
  <2> QED
    BY <2>1, <2>2, <2>3, <2>4, StopReturnsOp
<1>4. CASE StopVsiFails
  <2>1. StopReturns
    BY <1>4 DEF StopVsiFails
  <2>2. phy' \in [Ports -> BOOLEAN] /\ link_state' \in [Ports -> BOOLEAN]
    BY <1>4, Zenon DEF StopVsiFails
  <2>3. faults' \in 0 .. MaxFaults
    BY <1>4 DEF StopVsiFails, Fails
  <2>4. UNCHANGED <<up, init_done, ops, queue, carrier, edmaVars, loaded, restores>>
    BY <1>4 DEF StopVsiFails
  <2> QED
    BY <2>1, <2>2, <2>3, <2>4, StopReturnsOp
<1> QED
  BY <1>1, <1>2, <1>3, <1>4 DEF StopStep

\* The end of an override or a restore, and the exit of the module.
LEMMA SwapStep ==
  ASSUME IInv, OverrideSwap \/ RestoreSwap \/ Exit
  PROVE  IInv'
<1> USE LifecycleAssumption DEF IInv, TypeOK, OnceInv, IrqInv
<1>1. CASE OverrideSwap
  BY <1>1, DeinitOp DEF OverrideSwap
<1>2. CASE RestoreSwap
  BY <1>2 DEF RestoreSwap
<1>3. CASE Exit
  BY <1>3, CleanupOp DEF Exit
<1> QED
  BY <1>1, <1>2, <1>3

\* The poll, the transmitters and the PHY worker touch queue and carrier only.
LEMMA BesideStep ==
  ASSUME IInv, NEW p \in Ports,
         XmitStopsQueue(p) \/ NapiResume(p) \/ AdjustLink(p) \/ PhyHalted(p)
  PROVE  IInv'
<1> USE LifecycleAssumption DEF IInv, TypeOK, OnceInv, IrqInv
<1>1. CASE XmitStopsQueue(p)
  BY <1>1 DEF XmitStopsQueue
<1>2. CASE NapiResume(p)
  BY <1>2 DEF NapiResume
<1>3. CASE AdjustLink(p)
  BY <1>3 DEF AdjustLink
<1>4. CASE PhyHalted(p)
  BY <1>4 DEF PhyHalted
<1> QED
  BY <1>1, <1>2, <1>3, <1>4

\* The inductive invariant of the life cycle.
THEOREM Invariance == Spec => []IInv
<1>1. Init => IInv
  <2> SUFFICES ASSUME Init PROVE IInv
    OBVIOUS
  <2>1. 0 \in Nat /\ 0 \in Int /\ 0 \in 0 .. MaxGmacs - 1
        /\ 0 \in 0 .. MaxFaults /\ 0 \in 0 .. MaxRestores
    BY LifecycleAssumption
  <2>2. TypeOK
    BY <2>1, Zenon DEF Init, TypeOK
  <2>3. OnceInv /\ IrqInv
    BY DEF Init, OnceInv, IrqInv
  <2> QED
    BY <2>2, <2>3 DEF IInv
<1>2. IInv /\ [Next]_vars => IInv'
  <2> SUFFICES ASSUME IInv, [Next]_vars PROVE IInv'
    OBVIOUS
  <2>1. CASE Next
    BY <2>1, BeginStep, OpenStepInv, StopStepInv, SwapStep, BesideStep DEF Next
  <2>2. CASE UNCHANGED vars
    BY <2>2 DEF IInv, TypeOK, OnceInv, IrqInv, vars
  <2> QED
    BY <2>1, <2>2
<1> QED
  BY <1>1, <1>2, PTL DEF Spec

\* The types of Lifecycle, for any set of devices and any faults.
THEOREM TypeCorrect == Spec => []TypeOK
  BY Invariance, PTL DEF IInv

\* edma_cleanup releases rings and registers at most once.
THEOREM CleanedUpOnce == Spec => []CleanupOnce
<1>1. IInv => CleanupOnce
  BY DEF IInv, TypeOK, OnceInv, CleanupOnce
<1> QED
  BY <1>1, Invariance, PTL

-----------------------------------------------------------------------------
(* As long as no device is given back: NAPI, overrides and the carrier.     *)

\* Where the configuration task can be.  nss_dp_open of an EDMA device is
\* called by the stack alone, for a device that is not running.
TaskInv ==
  /\ pc = "idle" <=> task = "none"
  /\ task # "restore"
  /\ task = "override" => ops[cur] = "edma"
  /\ pc \in {"init", "up", "open"} => loaded
  /\ pc \in {"init", "up", "open"} /\ ops[cur] = "edma" =>
       task = "dev_open" /\ ~running[cur]
  /\ pc \in {"up", "open"} => init_done[cur]

\* NAPI is enabled while the count of open devices is positive, right or not,
\* and an EDMA device that is initialised has added NAPI to an EDMA that is not
\* cleaned up.
NapiInv ==
  /\ napi # "bug"
  /\ napi = "enabled" <=> active >= 1
  /\ netdev_arr # {} \/ napi_added => napi # "none"
  /\ ~edma_initialized => ~loaded \/ \A p \in Ports : ops[p] = "overlay"
  /\ edma_initialized /\ active >= 1 => napi_added
  /\ \A p \in Ports : init_done[p] /\ ops[p] = "edma" =>
       p \in netdev_arr /\ (edma_initialized => napi_added)

\* Each device is counted as overridden at most once.
Overlaid == {p \in Ports : ops[p] = "overlay"}

OverrideInv == dp_override_cnt <= Cardinality(Overlaid)

\* A device that is open on EDMA and that no task is busy with.
Settled(p) ==
  running[p] /\ up[p] /\ ops[p] = "edma" /\ (pc = "idle" \/ cur # p)

\* Its PHY is started, if it has one, and that of a device that is not running
\* is not: nobody turns on the carrier that nss_dp_open has turned off.
CarrierInv ==
  /\ \A p \in Ports : Settled(p) =>
       carrier[p] = link_state[p] /\ (phy[p] <=> p \in LinkPoll)
  /\ \A p \in Ports : ops[p] = "edma" /\ phy[p] => running[p]
  /\ pc \in {"up", "open"} /\ ops[cur] = "edma" /\ cur \in LinkPoll => ~carrier[cur]

UseInv == restores = 0 => TaskInv /\ NapiInv /\ OverrideInv /\ CarrierInv

\* A step after which no device has been given back is not the begin of a
\* restore.
LEMMA NotRestored ==
  ASSUME IInv, [Next]_vars, restores' = 0
  PROVE  restores = 0 /\ ~\E p \in Ports : Restore(p)
<1>1. restores \in Nat
  BY LifecycleAssumption DEF IInv, TypeOK
<1>2. ~\E p \in Ports : Restore(p)
  BY <1>1 DEF Restore
<1> QED
  BY <1>1, <1>2
  DEF Next, vars, DevOpen, DevClose, Override, Start, OpenStep, OpenInit, OpenIrqFails,
      OpenUp, OpenVsiFails, OpenDataPlane, StopStep, StopQueue, StopCarrier, StopDataPlane,
      StopVsiFails, OverrideSwap, RestoreSwap, Exit, XmitStopsQueue, NapiResume, AdjustLink,
      PhyHalted

\* The actions of the configuration task, and those beside it.
TaskAction ==
  \/ \E p \in Ports : DevOpen(p) \/ DevClose(p) \/ Override(p) \/ Start(p)
  \/ OpenStep \/ StopStep \/ OverrideSwap \/ RestoreSwap \/ Exit

BesideAction ==
  \E p \in Ports : XmitStopsQueue(p) \/ NapiResume(p) \/ AdjustLink(p) \/ PhyHalted(p)

\* The task goes from place to place.
LEMMA TaskInvStep == ASSUME IInv, TaskInv, TaskAction PROVE TaskInv'
<1> USE DEF IInv, TypeOK, TaskInv, Begin, OpenReturns
<1>1. ASSUME NEW p \in Ports, DevOpen(p) PROVE TaskInv'
  BY <1>1 DEF DevOpen
<1>2. ASSUME NEW p \in Ports, DevClose(p) PROVE TaskInv'
  BY <1>2 DEF DevClose
<1>3. ASSUME NEW p \in Ports, Override(p) PROVE TaskInv'
  BY <1>3 DEF Override
<1>4. ASSUME NEW p \in Ports, Start(p) PROVE TaskInv'
  BY <1>4 DEF Start
<1>5. CASE OpenInit
  BY <1>5 DEF OpenInit
<1>6. CASE OpenIrqFails
  BY <1>6 DEF OpenIrqFails
<1>7. CASE OpenUp
  BY <1>7 DEF OpenUp
<1>8. CASE OpenVsiFails
  BY <1>8 DEF OpenVsiFails
<1>9. CASE OpenDataPlane
  BY <1>9 DEF OpenDataPlane
<1>10. CASE StopQueue
  BY <1>10 DEF StopQueue
<1>11. CASE StopCarrier
  BY <1>11 DEF StopCarrier
<1>12. CASE StopDataPlane
  BY <1>12 DEF StopDataPlane, StopReturns
<1>13. CASE StopVsiFails
  BY <1>13 DEF StopVsiFails, StopReturns
<1>14. CASE OverrideSwap
  BY <1>14 DEF OverrideSwap
<1>15. CASE RestoreSwap
  BY <1>15 DEF RestoreSwap
<1>16. CASE Exit
  BY <1>16 DEF Exit
<1> QED
  BY <1>1, <1>2, <1>3, <1>4, <1>5, <1>6, <1>7, <1>8, <1>9, <1>10, <1>11, <1>12, <1>13,
     <1>14, <1>15, <1>16 DEF TaskAction, OpenStep, StopStep

\* An EDMA device that is being opened finds EDMA initialised.
LEMMA OpenFindsEdma ==
  ASSUME IInv, TaskInv, NapiInv, pc \in {"init", "up", "open"}, ops[cur] = "edma"
  PROVE  /\ cur \in Ports /\ edma_initialized
         /\ pc \in {"up", "open"} => cur \in netdev_arr /\ napi_added
BY DEF IInv, TypeOK, TaskInv, NapiInv

\* The overridden devices are finitely many.
LEMMA OverlaidFinite == IsFiniteSet(Overlaid)
BY LifecycleAssumption, FS_Subset DEF Overlaid

\* The override that finds the count at its limit is that of the last device.
LEMMA LastOverride ==
  ASSUME IInv, TaskInv, OverrideInv, OverrideSwap, dp_override_cnt = MaxGmacs - 1
  PROVE  \A p \in Ports : ops'[p] = "overlay"
<1> DEFINE New == Overlaid \cup {cur}
<1>1. cur \in Ports /\ cur \notin Overlaid /\ New \subseteq Ports
  BY DEF IInv, TypeOK, TaskInv, OverrideSwap, Overlaid
<1>2. Cardinality(New) = Cardinality(Overlaid) + 1 /\ Cardinality(Overlaid) \in Nat
  BY <1>1, OverlaidFinite, FS_AddElement, FS_CardinalityType
<1>3. Cardinality(Ports) \in Nat /\ Cardinality(Ports) <= Cardinality(New)
  BY <1>2, LifecycleAssumption, FS_CardinalityType DEF OverrideInv
<1>4. New = Ports
  BY <1>1, <1>2, <1>3, LifecycleAssumption, FS_Subset
<1>5. \A p \in Ports : p \in Overlaid \/ p = cur
  BY <1>4
<1> QED
  BY <1>5 DEF OverrideSwap, IInv, TypeOK, Overlaid

\* NAPI follows the count of open devices.
LEMMA NapiInvStep == ASSUME IInv, TaskInv, NapiInv, OverrideInv, TaskAction PROVE NapiInv'
<1> USE DEF IInv, TypeOK
<1>1. CASE \/ \E p \in Ports : DevOpen(p) \/ DevClose(p) \/ Override(p) \/ Start(p)
           \/ OpenUp \/ StopQueue \/ StopCarrier \/ StopVsiFails
  BY <1>1 DEF NapiInv, DevOpen, DevClose, Override, Start, OpenUp, StopQueue, StopCarrier,
              StopVsiFails
<1>2. CASE OpenVsiFails
  BY <1>2 DEF NapiInv, OpenVsiFails
<1>3. CASE OpenInit
  <2>1. CASE init_done[cur]
    BY <1>3, <2>1 DEF OpenInit, NapiInv
  <2>2. CASE ~init_done[cur] /\ ops[cur] = "overlay"
    BY <1>3, <2>2 DEF OpenInit, DataPlaneInit, NapiInv
  <2>3. CASE ~init_done[cur] /\ ops[cur] = "edma" /\ napi_added
    BY <1>3, <2>3 DEF OpenInit, DataPlaneInit, NapiInv
  <2>4. CASE ~init_done[cur] /\ ops[cur] = "edma" /\ ~napi_added
    BY <1>3, <2>4, OpenFindsEdma DEF OpenInit, DataPlaneInit, NapiInv
  <2> QED
    BY <2>1, <2>2, <2>3, <2>4
<1>4. CASE OpenIrqFails
  BY <1>4, OpenFindsEdma DEF OpenIrqFails, NapiInv
<1>5. CASE OpenDataPlane
  BY <1>5, OpenFindsEdma DEF OpenDataPlane, DataPlaneOpen, NapiInv
<1>6. CASE StopDataPlane
  BY <1>6 DEF StopDataPlane, DataPlaneClose, NapiInv
<1>7. CASE OverrideSwap
  <2>1. CASE ~init_done[cur]
    BY <1>7, <2>1 DEF OverrideSwap, NapiInv
  <2>2. CASE init_done[cur] /\ dp_override_cnt # MaxGmacs - 1
    BY <1>7, <2>2 DEF OverrideSwap, DataPlaneDeinit, NapiInv
  <2>3. CASE init_done[cur] /\ dp_override_cnt = MaxGmacs - 1
    <3>1. \A p \in Ports : ops'[p] = "overlay"
      BY <1>7, <2>3, LastOverride DEF OverrideSwap
    <3> QED
      BY <1>7, <2>3, <3>1 DEF OverrideSwap, DataPlaneDeinit, EdmaCleanup, NapiInv
  <2> QED
    BY <2>1, <2>2, <2>3
<1>8. CASE RestoreSwap
  BY <1>8 DEF RestoreSwap, TaskInv
<1>9. CASE Exit
  BY <1>9 DEF Exit, EdmaCleanup, NapiInv
<1> QED
  BY <1>1, <1>2, <1>3, <1>4, <1>5, <1>6, <1>7, <1>8, <1>9
  DEF TaskAction, OpenStep, StopStep

\* An override adds one device to those overridden, and one to the count at most.
LEMMA OverrideInvStep == ASSUME IInv, TaskInv, OverrideInv, TaskAction PROVE OverrideInv'
<1> USE DEF IInv, TypeOK
<1>1. CASE OverrideSwap
  <2>1. Overlaid' = Overlaid \cup {cur} /\ cur \notin Overlaid /\ cur \in Ports
    BY <1>1 DEF OverrideSwap, Overlaid, TaskInv
  <2>2. Cardinality(Overlaid') = Cardinality(Overlaid) + 1 /\ Cardinality(Overlaid) \in Nat
    BY <2>1, OverlaidFinite, FS_AddElement, FS_CardinalityType
  <2>3. dp_override_cnt' <= dp_override_cnt + 1
    BY <1>1, LifecycleAssumption DEF OverrideSwap, DataPlaneDeinit, EdmaCleanup
  <2>4. dp_override_cnt' \in Nat
    BY <1>1, LifecycleAssumption DEF OverrideSwap, DataPlaneDeinit, EdmaCleanup
  <2> QED
    BY <2>2, <2>3, <2>4, LifecycleAssumption DEF OverrideInv
<1>2. CASE ~OverrideSwap
  <2>1. UNCHANGED <<ops, dp_override_cnt>>
    BY <1>2
    DEF TaskAction, TaskInv, DevOpen, DevClose, Override, Start, OpenStep, OpenInit,
        OpenIrqFails, OpenUp, OpenVsiFails, OpenDataPlane, StopStep, StopQueue, StopCarrier,
        StopDataPlane, StopVsiFails, RestoreSwap, Exit
  <2> QED
    BY <2>1 DEF OverrideInv, Overlaid
<1> QED
  BY <1>1, <1>2

\* The carrier of a device that is open on EDMA follows its link.
LEMMA CarrierInvStep == ASSUME IInv, TaskInv, CarrierInv, TaskAction PROVE CarrierInv'
<1> USE LifecycleAssumption DEF IInv, TypeOK, CarrierInv, Settled
<1>1. ASSUME NEW p \in Ports, DevOpen(p) \/ DevClose(p) \/ Override(p) \/ Start(p)
      PROVE  CarrierInv'
  BY <1>1 DEF DevOpen, DevClose, Override, Start, Begin
<1>2. CASE OpenInit
  BY <1>2 DEF OpenInit, TaskInv
<1>3. CASE OpenIrqFails
  BY <1>3 DEF OpenIrqFails, OpenReturns, TaskInv
<1>4. CASE OpenUp
  BY <1>4 DEF OpenUp, TaskInv
<1>5. CASE OpenVsiFails
  BY <1>5 DEF OpenVsiFails, OpenReturns, TaskInv
<1>6. CASE OpenDataPlane
  BY <1>6 DEF OpenDataPlane, OpenReturns, TaskInv
<1>7. CASE StopQueue \/ StopCarrier
  BY <1>7 DEF StopQueue, StopCarrier
<1>8. CASE StopDataPlane
  BY <1>8 DEF StopDataPlane, StopReturns
<1>9. CASE StopVsiFails
  BY <1>9 DEF StopVsiFails, StopReturns
<1>10. CASE OverrideSwap
  BY <1>10 DEF OverrideSwap
<1>11. CASE RestoreSwap
  BY <1>11 DEF RestoreSwap, TaskInv
<1>12. CASE Exit
  BY <1>12 DEF Exit
<1> QED
  BY <1>1, <1>2, <1>3, <1>4, <1>5, <1>6, <1>7, <1>8, <1>9, <1>10, <1>11, <1>12
  DEF TaskAction, OpenStep, StopStep

\* The poll, the transmitters and the PHY worker leave all of that alone.
LEMMA BesideUse ==
  ASSUME IInv, TaskInv, NapiInv, OverrideInv, CarrierInv, BesideAction
  PROVE  TaskInv' /\ NapiInv' /\ OverrideInv' /\ CarrierInv'
<1> USE DEF IInv, TypeOK
<1>1. UNCHANGED <<taskVars, running, up, init_done, ops, phy, edmaVars, loaded>>
  BY DEF BesideAction, XmitStopsQueue, NapiResume, AdjustLink, PhyHalted
<1>2. TaskInv' /\ NapiInv' /\ OverrideInv'
  BY <1>1 DEF TaskInv, NapiInv, OverrideInv, Overlaid
<1>3. CarrierInv'
  <2> USE DEF CarrierInv, Settled
  <2>1. ASSUME NEW p \in Ports, AdjustLink(p) PROVE CarrierInv'
    BY <2>1 DEF AdjustLink, TaskInv
  <2>2. ASSUME NEW p \in Ports, PhyHalted(p) PROVE CarrierInv'
    BY <2>2 DEF PhyHalted
  <2>3. ASSUME NEW p \in Ports, XmitStopsQueue(p) \/ NapiResume(p) PROVE CarrierInv'
    BY <2>3 DEF XmitStopsQueue, NapiResume
  <2> QED
    BY <2>1, <2>2, <2>3 DEF BesideAction
<1> QED
  BY <1>2, <1>3

\* As long as no device is given back, the four invariants hold.
THEOREM UseInvariance == Spec => []UseInv
<1>1. Init => UseInv
  <2> SUFFICES ASSUME Init PROVE TaskInv /\ NapiInv /\ OverrideInv /\ CarrierInv
    BY DEF UseInv
  <2>1. TaskInv
    BY DEF Init, TaskInv
  <2>2. NapiInv
    BY DEF Init, NapiInv
  <2>3. OverrideInv
    BY OverlaidFinite, FS_CardinalityType DEF Init, OverrideInv
  <2>4. CarrierInv
    BY DEF Init, CarrierInv, Settled
  <2> QED
    BY <2>1, <2>2, <2>3, <2>4
<1>2. IInv /\ UseInv /\ [Next]_vars => UseInv'
  <2> SUFFICES ASSUME IInv, UseInv, [Next]_vars, restores' = 0
               PROVE  TaskInv' /\ NapiInv' /\ OverrideInv' /\ CarrierInv'
    BY DEF UseInv
  <2>1. TaskInv /\ NapiInv /\ OverrideInv /\ CarrierInv
    BY NotRestored DEF UseInv
  <2>2. CASE UNCHANGED vars
    BY <2>1, <2>2 DEF vars, TaskInv, NapiInv, OverrideInv, Overlaid, CarrierInv, Settled
  <2>3. CASE TaskAction
    BY <2>1, <2>3, TaskInvStep, NapiInvStep, OverrideInvStep, CarrierInvStep
  <2>4. CASE BesideAction
    BY <2>1, <2>4, BesideUse
  <2> QED
    BY <2>2, <2>3, <2>4, NotRestored DEF Next, TaskAction, BesideAction
<1> QED
  BY <1>1, <1>2, Invariance, PTL DEF Spec

\* napi_enable and napi_disable alternate, even when calls have failed and the
\* count of open devices is wrong.
THEOREM NapiIsPaired == Spec => []NapiPaired
<1>1. UseInv => NapiPaired
  BY DEF UseInv, NapiInv, NapiPaired
<1> QED
  BY <1>1, UseInvariance, PTL

\* The carrier of an open EDMA device tells what link_state says.
THEOREM CarrierFollowsLink == Spec => []CarrierMatchesLink
<1>1. UseInv => CarrierMatchesLink
  BY DEF UseInv, CarrierInv, Settled, CarrierMatchesLink
<1> QED
  BY <1>1, UseInvariance, PTL

\* EDMA is cleaned up under the feet of no device.
THEOREM CleanupIsLast == Spec => CleanedUpByLastOverride
<1>1. ASSUME IInv, UseInv, [Next]_vars, restores = 0, ~UNCHANGED vars
      PROVE  ~CleansUpUnderDevice
  <2> SUFFICES ASSUME edma_initialized, ~edma_initialized', loaded'
               PROVE  \A p \in Ports : ops'[p] # "edma"
    BY DEF CleansUpUnderDevice
  <2>1. TaskInv /\ OverrideInv
    BY <1>1 DEF UseInv
  <2>2. OverrideSwap
    BY <1>1
    DEF Next, vars, DevOpen, DevClose, Override, Start, Restore, OpenStep, OpenInit,
        OpenIrqFails, OpenUp, OpenVsiFails, OpenDataPlane, StopStep, StopQueue, StopCarrier,
        StopDataPlane, StopVsiFails, RestoreSwap, Exit, XmitStopsQueue, NapiResume,
        AdjustLink, PhyHalted
  <2>3. dp_override_cnt = MaxGmacs - 1
    BY <2>2 DEF OverrideSwap, DataPlaneDeinit
  <2>4. \A p \in Ports : ops'[p] = "overlay"
    BY <1>1, <2>1, <2>2, <2>3, LastOverride
  <2> QED
    BY <2>4
<1> QED
  BY <1>1, Invariance, UseInvariance, PTL DEF Spec, CleanedUpByLastOverride

-----------------------------------------------------------------------------
(* In regular use, the count of open devices is right.                      *)

\* The devices that EDMA has counted as open.
Counted == {p \in Ports : up[p] /\ ops[p] = "edma" /\ ~(pc = "open" /\ cur = p)}

\* What is up on EDMA is running and the other way round, but for the device
\* that is about to be opened or overridden.
CountInv ==
  /\ active = Cardinality(Counted)
  /\ \A p \in Ports : ops[p] = "edma" /\ up[p] =>
       p \in netdev_arr /\ (running[p] \/ (pc = "open" /\ cur = p))
  /\ \A p \in Ports : ops[p] = "edma" /\ running[p] => up[p] \/ (pc = "swap" /\ cur = p)
  /\ pc \in {"queue", "carrier", "close"} /\ ops[cur] = "edma" => up[cur]
  /\ pc = "swap" => ~up[cur]
  /\ pc = "open" => up[cur]

RegularInv == RegularUse => CountInv

\* The counted devices are finitely many.
LEMMA CountedFinite == IsFiniteSet(Counted) /\ Cardinality(Counted) \in Nat
<1>1. IsFiniteSet(Counted)
  BY LifecycleAssumption, FS_Subset DEF Counted
<1> QED
  BY <1>1, FS_CardinalityType

\* The count is right as long as the same devices are open.
LEMMA SameCount ==
  ASSUME CountInv, UNCHANGED active, Counted' = Counted
  PROVE  active' = Cardinality(Counted')
BY DEF CountInv

\* The task keeps the count right.
LEMMA CountInvStep ==
  ASSUME IInv, TaskInv, NapiInv, CountInv, TaskAction, UNCHANGED faults
  PROVE  CountInv'
<1> USE DEF IInv, TypeOK
<1> DEFINE UpInv ==
      /\ \A p \in Ports : ops[p] = "edma" /\ up[p] =>
           p \in netdev_arr /\ (running[p] \/ (pc = "open" /\ cur = p))
      /\ \A p \in Ports : ops[p] = "edma" /\ running[p] => up[p] \/ (pc = "swap" /\ cur = p)
      /\ pc \in {"queue", "carrier", "close"} /\ ops[cur] = "edma" => up[cur]
      /\ pc = "swap" => ~up[cur]
      /\ pc = "open" => up[cur]
<1>0. UpInv
  BY DEF CountInv
<1> SUFFICES active' = Cardinality(Counted') /\ UpInv'
  BY DEF CountInv
<1>1. CASE \E p \in Ports : DevOpen(p) \/ DevClose(p) \/ Override(p) \/ Start(p)
  <2>1. pc = "idle" /\ pc' # "open" /\ UNCHANGED <<up, ops, active>>
    BY <1>1 DEF DevOpen, DevClose, Override, Start, Begin
  <2>2. Counted' = Counted
    BY <2>1 DEF Counted
  <2>3. UpInv'
    BY <1>0, <1>1 DEF DevOpen, DevClose, Override, Start, Begin
  <2> QED
    BY <2>1, <2>2, <2>3, SameCount
<1>2. CASE OpenInit
  <2>1. pc = "init" /\ pc' = "up" /\ UNCHANGED <<up, ops, active, cur, running>>
    BY <1>2 DEF OpenInit
  <2>2. Counted' = Counted
    BY <2>1 DEF Counted
  <2>3. netdev_arr \subseteq netdev_arr'
    BY <1>2 DEF OpenInit, DataPlaneInit
  <2>4. UpInv'
    BY <1>0, <2>1, <2>3
  <2> QED
    BY <2>1, <2>2, <2>4, SameCount
<1>3. CASE OpenIrqFails
  <2>1. FALSE
    BY <1>3, LifecycleAssumption DEF OpenIrqFails, Fails
  <2> QED
    BY <2>1
<1>4. CASE OpenUp
  <2>1. pc = "up" /\ pc' = "open" /\ up' = [up EXCEPT ![cur] = TRUE]
        /\ UNCHANGED <<ops, active, cur, running, netdev_arr>>
    BY <1>4 DEF OpenUp
  <2>2. ops[cur] = "edma" => cur \in netdev_arr /\ ~running[cur] /\ ~up[cur]
    BY <1>0, <2>1, OpenFindsEdma DEF TaskInv
  <2>3. Counted' = Counted
    BY <2>1, <2>2 DEF Counted
  <2>4. UpInv'
    BY <1>0, <2>1, <2>2
  <2> QED
    BY <2>1, <2>3, <2>4, SameCount
<1>5. CASE OpenVsiFails
  <2>1. FALSE
    BY <1>5, OpenFindsEdma, LifecycleAssumption DEF OpenVsiFails, Fails
  <2> QED
    BY <2>1
<1>6. CASE OpenDataPlane
  <2>1. pc = "open" /\ pc' = "idle" /\ UNCHANGED <<ops, up, cur, netdev_arr>>
    BY <1>6 DEF OpenDataPlane, OpenReturns
  <2>2. CASE ops[cur] = "edma"
    <3>1. up[cur] /\ cur \notin Counted /\ running' = [running EXCEPT ![cur] = TRUE]
      BY <1>6, <2>1, <2>2 DEF OpenDataPlane, OpenReturns, TaskInv, CountInv, Counted
    <3>2. Counted' = Counted \cup {cur}
      BY <2>1, <2>2, <3>1 DEF Counted
    <3>3. active' = active + 1
      BY <1>6, <2>2 DEF OpenDataPlane, DataPlaneOpen
    <3>4. active' = Cardinality(Counted')
      BY <3>1, <3>2, <3>3, CountedFinite, FS_AddElement DEF CountInv
    <3>5. UpInv'
      BY <1>0, <2>1, <3>1
    <3> QED
      BY <3>4, <3>5
  <2>3. CASE ops[cur] # "edma"
    <3>1. Counted' = Counted /\ UNCHANGED active
      BY <1>6, <2>1, <2>3 DEF Counted, OpenDataPlane, DataPlaneOpen
    <3>2. \A p \in Ports : ops[p] = "edma" => running'[p] = running[p]
      BY <1>6, <2>3 DEF OpenDataPlane, OpenReturns
    <3>3. UpInv'
      BY <1>0, <2>1, <2>3, <3>2
    <3> QED
      BY <3>1, <3>3, SameCount
  <2> QED
    BY <2>2, <2>3
<1>7. CASE StopQueue \/ StopCarrier
  <2>1. /\ UNCHANGED <<ops, up, cur, netdev_arr, running, active>>
        /\ pc \in {"queue", "carrier"} /\ pc' \in {"carrier", "close"}
    BY <1>7 DEF StopQueue, StopCarrier
  <2>2. Counted' = Counted
    BY <2>1 DEF Counted
  <2>3. UpInv'
    BY <1>0, <2>1
  <2> QED
    BY <2>1, <2>2, <2>3, SameCount
<1>8. CASE StopDataPlane
  <2>1. pc = "close" /\ pc' \in {"idle", "swap"} /\ up' = [up EXCEPT ![cur] = FALSE]
        /\ UNCHANGED <<ops, cur, netdev_arr>>
    BY <1>8 DEF StopDataPlane, StopReturns
  <2>2. /\ pc' = "idle" => running' = [running EXCEPT ![cur] = FALSE]
        /\ pc' = "swap" => running' = running
    BY <1>8 DEF StopDataPlane, StopReturns
  <2>3. UpInv'
    BY <1>0, <2>1, <2>2
  <2>4. CASE ops[cur] = "edma"
    <3>1. cur \in Counted
      BY <1>0, <2>1, <2>4 DEF Counted
    <3>2. Counted' = Counted \ {cur}
      BY <2>1 DEF Counted
    <3>3. active' = active - 1
      BY <1>8, <2>4 DEF StopDataPlane, DataPlaneClose
    <3> QED
      BY <2>3, <3>1, <3>2, <3>3, CountedFinite, FS_RemoveElement DEF CountInv
  <2>5. CASE ops[cur] # "edma"
    <3>1. Counted' = Counted /\ UNCHANGED active
      BY <1>8, <2>1, <2>5 DEF Counted, StopDataPlane, DataPlaneClose
    <3> QED
      BY <2>3, <3>1, SameCount
  <2> QED
    BY <2>4, <2>5
<1>9. CASE StopVsiFails
  <2>1. FALSE
    BY <1>9, LifecycleAssumption DEF StopVsiFails, Fails
  <2> QED
    BY <2>1
<1>10. CASE OverrideSwap
  <2>1. pc = "swap" /\ pc' = "idle" /\ ops' = [ops EXCEPT ![cur] = "overlay"]
        /\ UNCHANGED <<up, cur, netdev_arr, running, active>>
    BY <1>10 DEF OverrideSwap
  <2>2. Counted' = Counted
    BY <1>0, <2>1 DEF Counted
  <2>3. UpInv'
    BY <1>0, <2>1
  <2> QED
    BY <2>1, <2>2, <2>3, SameCount
<1>11. CASE RestoreSwap
  BY <1>11 DEF RestoreSwap, TaskInv
<1>12. CASE Exit
  <2>1. UNCHANGED <<taskVars, up, ops, netdev_arr, running, active>>
    BY <1>12 DEF Exit
  <2>2. Counted' = Counted
    BY <2>1 DEF Counted
  <2>3. UpInv'
    BY <1>0, <2>1
  <2> QED
    BY <2>1, <2>2, <2>3, SameCount
<1> QED
  BY <1>1, <1>2, <1>3, <1>4, <1>5, <1>6, <1>7, <1>8, <1>9, <1>10, <1>11, <1>12
  DEF TaskAction, OpenStep, StopStep

\* A step after which no call has failed is not a failure.
LEMMA NotFailed ==
  ASSUME IInv, [Next]_vars, faults' = 0
  PROVE  UNCHANGED faults
<1>1. faults \in Nat
  BY LifecycleAssumption DEF IInv, TypeOK
<1>2. ~\E call \in Faults : Fails(call)
  BY <1>1 DEF Fails
<1>3. ~OpenIrqFails /\ ~StopVsiFails
  BY <1>2 DEF OpenIrqFails, StopVsiFails, Fails
<1>4. OpenVsiFails => UNCHANGED faults
  BY <1>2 DEF OpenVsiFails, Fails
<1> QED
  BY <1>3, <1>4
  DEF Next, vars, DevOpen, DevClose, Override, Start, Restore, OpenStep, OpenInit,
      OpenUp, OpenDataPlane, StopStep, StopQueue, StopCarrier, StopDataPlane, OverrideSwap,
      RestoreSwap, Exit, XmitStopsQueue, NapiResume, AdjustLink, PhyHalted

\* In regular use the count of open devices is right.
THEOREM RegularInvariance == Spec => []RegularInv
<1>1. Init => RegularInv
  <2> SUFFICES ASSUME Init PROVE CountInv
    BY DEF RegularInv
  <2>1. Counted = {}
    BY DEF Init, Counted
  <2> QED
    BY <2>1, FS_EmptySet DEF Init, CountInv
<1>2. IInv /\ UseInv /\ RegularInv /\ [Next]_vars => RegularInv'
  <2> SUFFICES ASSUME IInv, UseInv, RegularInv, [Next]_vars, RegularUse'
               PROVE  CountInv'
    BY DEF RegularInv
  <2>1. UNCHANGED faults /\ restores = 0
    BY NotFailed, NotRestored DEF RegularUse
  <2>2. TaskInv /\ NapiInv /\ CountInv
    BY <2>1 DEF UseInv, RegularInv, RegularUse
  <2>3. CASE UNCHANGED vars
    BY <2>2, <2>3 DEF vars, CountInv, Counted
  <2>4. CASE TaskAction
    BY <2>1, <2>2, <2>4, CountInvStep
  <2>5. CASE BesideAction
    <3>1. UNCHANGED <<taskVars, running, up, ops, active, netdev_arr>>
      BY <2>5 DEF BesideAction, XmitStopsQueue, NapiResume, AdjustLink, PhyHalted
    <3> QED
      BY <2>2, <3>1 DEF CountInv, Counted
  <2> QED
    BY <2>3, <2>4, <2>5, NotRestored DEF Next, TaskAction, BesideAction, RegularUse
<1> QED
  BY <1>1, <1>2, Invariance, UseInvariance, PTL DEF Spec

\* A device that is open and uses EDMA is known to it and polled, whichever
\* other devices were opened, closed and overridden before.
THEOREM OpenDevicesArePolled == Spec => []OpenIsPolled
<1>1. IInv /\ UseInv /\ RegularInv => OpenIsPolled
  <2> SUFFICES ASSUME IInv, UseInv, RegularInv, RegularUse, loaded, pc = "idle",
                      NEW p \in Ports, running[p], up[p], ops[p] = "edma"
               PROVE  napi = "enabled" /\ irqs > 0 /\ p \in netdev_arr
    BY DEF OpenIsPolled
  <2>1. NapiInv /\ CountInv
    BY DEF UseInv, RegularInv, RegularUse
  <2>2. p \in Counted /\ p \in netdev_arr
    BY <2>1 DEF Counted, CountInv
  <2>3. Counted # {} /\ Cardinality(Counted) # 0
    BY <2>2, CountedFinite, FS_EmptySet
  <2>4. active >= 1
    BY <2>1, <2>3, CountedFinite DEF CountInv
  <2>5. napi = "enabled" /\ edma_initialized /\ napi_added
    BY <2>1, <2>4 DEF NapiInv
  <2>6. irqs > 0
    BY <2>5, LifecycleAssumption DEF IInv, IrqInv, TypeOK
  <2> QED
    BY <2>2, <2>5, <2>6
<1> QED
  BY <1>1, Invariance, UseInvariance, RegularInvariance, PTL
=============================================================================
