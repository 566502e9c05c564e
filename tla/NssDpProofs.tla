----------------------------- MODULE NssDpProofs ----------------------------
(***************************************************************************)
(* Proofs about NssDp, for any ports, SoCs, STP states and bounds on       *)
(* faults and changes: what the driver publishes is complete, what it      *)
(* unloads is released, and the filter for slow protocols follows the STP  *)
(* state of each port and agrees with the bitmap of the ports.             *)
(***************************************************************************)
EXTENDS NssDp, TLAPS

-----------------------------------------------------------------------------
(* The inductive invariant.                                                *)

\* A probe runs for a port that is not bound, and has taken what its place in
\* the code says.
ProbeInv ==
  /\ probing # 0 => module = "loaded" /\ probing \notin bound
  /\ ppc \in {"mdio", "phy", "vsi", "publish"} => probing \in hal
  /\ ppc \in {"vsi", "publish"} /\ probing \in Polled => probing \in phy
  /\ ppc = "publish" => netdev[probing] = "registered"
  /\ ppc \notin {"idle", "publish"} => netdev[probing] = "allocated"

\* A port has a net device, a HAL context or a PHY only as long as it is
\* published or probed, but for the PHYs of probes that failed late.
HeldInv ==
  /\ \A p \in Ports : netdev[p] # "none" => p \in nss_dp \/ p = probing
  /\ \A p \in hal : p \in nss_dp \/ p = probing
  /\ \A p \in phy : p \in nss_dp \/ p \in late \/ (p = probing /\ ppc \in {"vsi", "publish"})

\* Ports that are published are bound, and complete but for the one that a removal
\* has reached.
PublishedInv ==
  /\ nss_dp \subseteq bound
  /\ \A p \in nss_dp \ {rport} :
       netdev[p] = "registered" /\ p \in hal /\ (p \in Polled => p \in phy)
  /\ \A p \in nss_dp : netdev[p] = "none" => p = rport /\ rpc = "clear"

\* A removal is of a port that is bound, excludes a probe, and has released what
\* its place in the code says.
RemoveInv ==
  /\ removing # 0 => /\ module \in {"loaded", "exiting", "oops"}
                     /\ probing = 0 /\ removing \in bound
  /\ rport # 0 => rport \in nss_dp /\ rport \notin phy
  /\ rpc \in {"exit", "free"} => netdev[rport] = "allocated"
  /\ rpc \in {"free", "clear"} => rport \notin hal
  /\ rpc = "clear" => netdev[rport] = "none"
  /\ rpc = "unregister" => netdev[rport] = "registered"

\* An interrupt handler that is not orphaned belongs to a net device that is
\* registered, or unregistered and not yet freed.
IrqInv ==
  /\ \A p \in Ports : irq[p] = "own" =>
       netdev[p] = "registered" \/ (p = rport /\ rpc \in {"exit", "free"})
  /\ soc.start = 1 => \A p \in Ports : irq[p] = "none"

\* The exit of the module releases the HAL first.
ExitInv ==
  /\ module \in {"exiting", "gone"} => ~hal_up
  /\ module = "gone" => nss_dp = {}

\* Where interfaces are numbered from 1, a restore gives back the context that
\* the probe has given.
ContextInv == soc.start = 1 => \A p \in Ports : dpc[p] \in {-1, p - 1}

\* The calls that set the filter, and where they are.
MarkInv ==
  /\ spc = "ethtype" => slowproto_acl_bm = {} /\ sport \in profiles
  /\ spc = "mark" => sport \in profiles /\ ethtype
  /\ spc \in {"unmark", "reset"} => sport \notin profiles
  /\ spc = "reset" => slowproto_acl_bm = {}

\* The filter is added for a port that is to be disabled and deleted for one that
\* is to forward, the other way round when it is restored.
PathInv ==
  /\ spc = "stp" => ~sundo
  /\ spc \in {"add", "ethtype", "mark"} =>
       sstate = IF sundo THEN "forwarding" ELSE "disabled"
  /\ spc \in {"del", "unmark", "reset"} =>
       sstate = IF sundo THEN "disabled" ELSE "forwarding"

\* The filter of port p is what its STP state asks for.
Follows(p) ==
  /\ stp[p] = "disabled" => p \in profiles /\ p \in slowproto_acl_bm
  /\ stp[p] = "forwarding" => p \notin profiles

\* What is known of the port whose state is being set.
TaskInv ==
  spc # "idle" =>
    /\ ~sclean => sport \in astray
    /\ sport \notin astray =>
         /\ stp[sport] = "disabled" => shad
         /\ stp[sport] = "forwarding" => ~shad
         /\ sundo => (sstate = "disabled" => ~shad) /\ (sstate = "forwarding" => shad)
         /\ sstate \in OtherStates => Follows(sport)
    /\ spc = "stp" /\ sclean =>
         /\ sstate = "disabled" => sport \in profiles /\ sport \in slowproto_acl_bm
         /\ sstate = "forwarding" => sport \notin profiles

IInv ==
  /\ TypeOK
  /\ ProbeInv /\ HeldInv /\ PublishedInv /\ RemoveInv /\ IrqInv /\ ExitInv /\ ContextInv
  /\ MarkInv /\ PathInv /\ TaskInv
  /\ BitmapBacked /\ FilterFollowsStp

-----------------------------------------------------------------------------
(* Types, and the two kinds of steps. *)

\* The parts of TypeOK: flags, the driver's state, the switch and the counters.
FlagTypes ==
  /\ hal_up \in BOOLEAN /\ ethtype \in BOOLEAN /\ notifier \in BOOLEAN
  /\ sundo \in BOOLEAN /\ shad \in BOOLEAN /\ sclean \in BOOLEAN

DriverTypes ==
  /\ soc \in Socs
  /\ module \in {"none", "loaded", "exiting", "gone", "failed", "oops"}
  /\ probing \in {0} \cup Ports
  /\ ppc \in {"idle", "pdata", "init", "mdio", "phy", "vsi", "publish"}
  /\ probing = 0 <=> ppc = "idle"
  /\ netdev \in [Ports -> {"none", "allocated", "registered"}]
  /\ dpc \in [Ports -> -1 .. MaxPorts]
  /\ bound \subseteq Ports /\ hal \subseteq Ports /\ phy \subseteq Ports
  /\ late \subseteq Ports /\ nss_dp \subseteq Ports

\* The removal, and what is not released by it.
RemoveTypes ==
  /\ removing \in {0} \cup Ports /\ rport \in {0} \cup Ports
  /\ rpc \in {"idle", "next", "unregister", "exit", "free", "clear"}
  /\ removing = 0 <=> rpc = "idle"
  /\ rport = 0 <=> rpc \in {"idle", "next"}
  /\ irq \in [Ports -> {"none", "own", "orphan"}]

SwitchTypes ==
  /\ stp \in [Ports -> {"unset"} \cup StpStates]
  /\ profiles \subseteq Ports /\ slowproto_acl_bm \subseteq Ports /\ astray \subseteq Ports
  /\ spc \in {"idle", "add", "ethtype", "mark", "del", "unmark", "reset", "stp"}
  /\ sport \in Ports /\ sstate \in StpStates

CountTypes == faults \in 0 .. MaxFaults /\ changes \in 0 .. MaxChanges

LEMMA TypeParts ==
  TypeOK <=> FlagTypes /\ DriverTypes /\ RemoveTypes /\ SwitchTypes /\ CountTypes
<1>1. TypeOK => FlagTypes /\ SwitchTypes /\ CountTypes
  BY Zenon DEF TypeOK, FlagTypes, SwitchTypes, CountTypes
<1>2. TypeOK => DriverTypes
  BY Zenon DEF TypeOK, DriverTypes
<1>3. TypeOK => RemoveTypes
  BY Zenon DEF TypeOK, RemoveTypes
<1>4. /\ (removing = 0 <=> rpc = "idle") => (removing = 0) = (rpc = "idle")
      /\ (rport = 0 <=> rpc \in {"idle", "next"}) => (rport = 0) = (rpc \in {"idle", "next"})
      /\ (probing = 0 <=> ppc = "idle") => (probing = 0) = (ppc = "idle")
  OBVIOUS
<1>5. FlagTypes /\ DriverTypes /\ RemoveTypes /\ SwitchTypes /\ CountTypes => TypeOK
  BY <1>4, Zenon DEF TypeOK, FlagTypes, DriverTypes, RemoveTypes, SwitchTypes, CountTypes
<1> QED
  BY <1>1, <1>2, <1>3, <1>5

LEMMA TypePartsNext ==
  FlagTypes' /\ DriverTypes' /\ RemoveTypes' /\ SwitchTypes' /\ CountTypes' => TypeOK'
<1>1. /\ (removing' = 0 <=> rpc' = "idle") => (removing' = 0) = (rpc' = "idle")
      /\ (rport' = 0 <=> rpc' \in {"idle", "next"}) =>
           (rport' = 0) = (rpc' \in {"idle", "next"})
      /\ (probing' = 0 <=> ppc' = "idle") => (probing' = 0) = (ppc' = "idle")
  OBVIOUS
<1> QED
  BY <1>1, Zenon DEF TypeOK, FlagTypes, DriverTypes, RemoveTypes, SwitchTypes, CountTypes

\* Ports are numbered from 1; the STP states are told apart.
LEMMA Numbers ==
  /\ 0 \notin Ports /\ \A p \in Ports : p \in Nat /\ p # 0 /\ p - 1 \in -1 .. MaxPorts
                                            /\ p \in -1 .. MaxPorts
  /\ "disabled" \notin OtherStates /\ "forwarding" \notin OtherStates
  /\ "disabled" \in StpStates /\ "forwarding" \in StpStates
  /\ OtherStates \subseteq StpStates /\ "unset" \notin StpStates
  /\ \A s \in StpStates : s \in OtherStates \/ s = "disabled" \/ s = "forwarding"
  /\ MaxFaults \in Nat /\ MaxChanges \in Nat
BY NssDpAssumption DEF StpStates

ProbeStep ==
  \/ ProbePdata \/ ProbeInit \/ ProbeMdio \/ ProbePhy \/ ProbeRegister
  \/ \E p \in Ports : Probe(p)

UnbindStep == \E p \in Ports : Unbind(p) \/ UnbindAtExit(p)

ModuleStep == ModuleInit \/ ModuleExit \/ Unloaded \/ EventAfterExit

PlaneStep == \E p \in Ports : Open(p) \/ Override(p) \/ Restore(p)

SetStep == \E p \in Ports, state \in StpStates : SetStp(p, state)

\* The task for a switchdev event changes nothing of the driver.
LEMMA SwitchKeeps ==
  ASSUME SwitchStep \/ SetStep
  PROVE  UNCHANGED <<soc, module, hal_up, bound, probing, ppc, netdev, hal, phy, late,
                     nss_dp, dpc, removing, rport, rpc, irq, notifier, changes>>
BY DEF SwitchStep, SetStep, SetStp, FilterAdd, FilterEthtype, FilterMark, FilterDel,
       FilterUnmark, FilterReset, StpSet, StpFails, moduleVars, probeVars, exitVars

\* The driver changes nothing of the switch and the task, but for the bitmap that
\* ProbePublish clears.
LEMMA DriverKeeps ==
  ASSUME ProbeStep \/ UnbindStep \/ RemoveStep \/ ModuleStep \/ PlaneStep
  PROVE  UNCHANGED <<stp, profiles, ethtype, slowproto_acl_bm, spc, sport, sstate, sundo,
                     shad, sclean, astray>>
<1>1. CASE ProbeStep
  BY <1>1 DEF ProbeStep, Probe, ProbePdata, ProbeInit, ProbeMdio, ProbePhy, ProbeRegister,
              switchVars, taskVars
<1>2. CASE UnbindStep \/ RemoveStep
  BY <1>2 DEF UnbindStep, Unbind, UnbindAtExit, RemoveStep, RemoveNext, RemoveUnregister,
              RemoveExit, RemoveFree, RemoveClear, RemoveEnds, RemoveFrame, switchVars,
              taskVars
<1>3. CASE ModuleStep \/ PlaneStep
  BY <1>3 DEF ModuleStep, ModuleInit, ModuleExit, Unloaded, EventAfterExit, PlaneStep, Open,
              Override, Restore, switchVars, taskVars
<1> QED
  BY <1>1, <1>2, <1>3

\* A probe does not touch a removal.
LEMMA ProbeKeepsExit ==
  ASSUME ProbeStep \/ ProbePublish
  PROVE  UNCHANGED <<removing, rport, rpc, irq>>
BY DEF ProbeStep, Probe, ProbePdata, ProbeInit, ProbeMdio, ProbePhy, ProbeRegister,
       ProbePublish, exitVars

LEMMA StepKinds ==
  ASSUME [Next]_vars
  PROVE  \/ ProbeStep \/ ProbePublish \/ UnbindStep \/ RemoveStep \/ ModuleStep \/ PlaneStep
         \/ SetStep \/ SwitchStep \/ UNCHANGED vars
BY DEF Next, ProbeStep, UnbindStep, ModuleStep, PlaneStep, SetStep

LEMMA InitInv == ASSUME Init PROVE IInv
<1>1. FlagTypes
  BY Zenon DEF Init, FlagTypes
<1>2. DriverTypes /\ RemoveTypes /\ SwitchTypes /\ CountTypes
  <2>1. dpc \in [Ports -> -1 .. MaxPorts]
    BY Numbers DEF Init
  <2> QED
    BY <2>1, Numbers DEF Init, DriverTypes, RemoveTypes, SwitchTypes, CountTypes
<1>3. ProbeInv /\ HeldInv /\ PublishedInv /\ RemoveInv /\ IrqInv /\ ExitInv
  BY DEF Init, ProbeInv, HeldInv, PublishedInv, RemoveInv, IrqInv, ExitInv
<1>4. ContextInv
  BY DEF Init, ContextInv
<1>5. MarkInv /\ PathInv /\ TaskInv /\ BitmapBacked /\ FilterFollowsStp
  BY DEF Init, MarkInv, PathInv, TaskInv, BitmapBacked, FilterFollowsStp
<1> QED
  BY <1>1, <1>2, <1>3, <1>4, <1>5, TypeParts DEF IInv

-----------------------------------------------------------------------------
(* Every step keeps the types. *)

AnyStep ==
  \/ ProbeStep \/ ProbePublish \/ UnbindStep \/ RemoveStep \/ ModuleStep \/ PlaneStep
  \/ SetStep \/ SwitchStep \/ UNCHANGED vars

LEMMA FlagsKept == ASSUME IInv, AnyStep PROVE FlagTypes'
<1>1. FlagTypes
  BY TypeParts DEF IInv
<1>2. CASE ProbeStep
  <2>1. UNCHANGED <<ethtype, sundo, shad, sclean>>
    BY <1>2, DriverKeeps
  <2>2. UNCHANGED hal_up
    BY <1>2 DEF ProbeStep, Probe, ProbePdata, ProbeInit, ProbeMdio, ProbePhy,
                ProbeRegister, moduleVars
  <2>3. notifier' = TRUE \/ notifier' = notifier
    BY <1>2 DEF ProbeStep, Probe, ProbePdata, ProbeInit, ProbeMdio, ProbePhy,
                ProbeRegister, exitVars
  <2> QED
    BY <1>1, <2>1, <2>2, <2>3, Zenon DEF FlagTypes
<1>10. CASE UnbindStep \/ RemoveStep \/ PlaneStep
  <2>1. UNCHANGED <<ethtype, sundo, shad, sclean>>
    BY <1>10, DriverKeeps
  <2>2. UNCHANGED <<hal_up, notifier>>
    BY <1>10 DEF UnbindStep, Unbind, UnbindAtExit, RemoveStep, RemoveNext, RemoveUnregister,
         RemoveExit, RemoveFree, RemoveClear, RemoveEnds, RemoveFrame, PlaneStep, Open,
         Override, Restore, moduleVars, exitVars
  <2> QED
    BY <1>1, <2>1, <2>2, Zenon DEF FlagTypes
<1>3. CASE ModuleStep
  <2>1. UNCHANGED <<ethtype, sundo, shad, sclean>>
    BY <1>3, DriverKeeps
  <2>2. hal_up' \in BOOLEAN
    BY <1>1, <1>3, Zenon DEF FlagTypes, ModuleStep, ModuleInit, HalInit, HalInitFails,
         ModuleExit, HalCleanup, Unloaded, EventAfterExit
  <2>3. UNCHANGED notifier
    BY <1>3 DEF ModuleStep, ModuleInit, ModuleExit, Unloaded, EventAfterExit, probeVars,
         exitVars
  <2> QED
    BY <1>1, <2>1, <2>2, <2>3, Zenon DEF FlagTypes
<1>4. CASE ProbePublish
  BY <1>1, <1>4, Zenon DEF FlagTypes, ProbePublish, moduleVars, switchVars, exitVars
<1>5. CASE SetStep
  <2>1. PICK p \in Ports, state \in StpStates : SetStp(p, state)
    BY <1>5 DEF SetStep
  <2>2. UNCHANGED <<hal_up, ethtype, notifier>>
    BY <2>1 DEF SetStp, moduleVars, switchVars, probeVars, exitVars
  <2>3. sundo' = FALSE /\ shad' = (p \in profiles) /\ sclean' = TRUE
    BY <2>1 DEF SetStp
  <2>4. shad' \in BOOLEAN
    BY <2>3
  <2>5. hal_up' = hal_up /\ ethtype' = ethtype /\ notifier' = notifier
    BY <2>2
  <2> QED
    BY <1>1, <2>3, <2>4, <2>5, Zenon DEF FlagTypes
<1>6. CASE FilterAdd \/ FilterEthtype \/ FilterMark
  BY <1>1, <1>6, Zenon DEF FlagTypes, FilterAdd, FilterEthtype, FilterMark, FilterFault,
       moduleVars, switchVars, probeVars, exitVars
<1>7. CASE FilterDel \/ FilterUnmark \/ FilterReset
  BY <1>1, <1>7, Zenon DEF FlagTypes, FilterDel, FilterUnmark, FilterReset, FilterFault,
       moduleVars, switchVars, probeVars, exitVars
<1>8. CASE StpSet \/ StpFails
  BY <1>1, <1>8, Zenon DEF FlagTypes, StpSet, StpFails, moduleVars, switchVars, probeVars,
       exitVars
<1>9. CASE UNCHANGED vars
  BY <1>1, <1>9, Zenon DEF FlagTypes, vars, moduleVars, switchVars, taskVars, probeVars,
       exitVars
<1> QED
  BY <1>10, <1>2, <1>3, <1>4, <1>5, <1>6, <1>7, <1>8, <1>9 DEF AnyStep, SwitchStep

LEMMA CountsKept == ASSUME IInv, AnyStep PROVE CountTypes'
<1>1. CountTypes
  BY TypeParts DEF IInv
<1>2. Fault => faults' \in 0 .. MaxFaults
  BY <1>1, Numbers DEF CountTypes, Fault
<1>3. changes < MaxChanges /\ changes' = changes + 1 => changes' \in 0 .. MaxChanges
  BY <1>1, Numbers DEF CountTypes
<1>4. CASE ProbeStep \/ ProbePublish
  BY <1>1, <1>2, <1>4 DEF CountTypes, ProbeStep, Probe, ProbePdata, ProbeInit, ProbeMdio,
       ProbePhy, ProbeRegister, ProbePublish
<1>5. CASE UnbindStep \/ ModuleStep \/ PlaneStep
  BY <1>1, <1>2, <1>3, <1>5 DEF CountTypes, UnbindStep, Unbind, UnbindAtExit, ModuleStep,
       ModuleInit, ModuleExit, Unloaded, EventAfterExit, PlaneStep, Open, Override, Restore
<1>8. CASE RemoveStep
  BY <1>1, <1>8 DEF CountTypes, RemoveStep, RemoveNext, RemoveUnregister, RemoveExit,
       RemoveFree, RemoveClear, RemoveEnds, RemoveFrame
<1>6. CASE SetStep \/ SwitchStep
  BY <1>1, <1>2, <1>6 DEF CountTypes, SetStep, SetStp, SwitchStep, FilterAdd, FilterEthtype,
       FilterMark, FilterDel, FilterUnmark, FilterReset, StpSet, StpFails, FilterFault
<1>7. CASE UNCHANGED vars
  BY <1>1, <1>7 DEF CountTypes, vars
<1> QED
  BY <1>4, <1>5, <1>6, <1>7, <1>8 DEF AnyStep

\* A probe that fails leaves no port behind.
LEMMA DriverTypesKept == ASSUME IInv, AnyStep PROVE DriverTypes'
<1>1. DriverTypes
  BY TypeParts DEF IInv
<1>2. CASE SetStep \/ SwitchStep
  BY <1>1, <1>2, SwitchKeeps DEF DriverTypes
<1>3. ASSUME NEW p \in Ports, Probe(p) PROVE DriverTypes'
  BY <1>1, <1>3, Numbers DEF DriverTypes, Probe, moduleVars
<1>4. CASE ProbePdata \/ ProbeMdio
  BY <1>1, <1>4, Numbers DEF DriverTypes, ProbePdata, ProbeMdio, ProbeFails, moduleVars
<1>5. CASE ProbeInit
  <2>1. probing \in Ports /\ probing - 1 \in -1 .. MaxPorts
    BY <1>1, <1>5, Numbers DEF DriverTypes, ProbeInit
  <2>2. dpc' \in [Ports -> -1 .. MaxPorts]
    BY <1>1, <1>5, <2>1 DEF DriverTypes, ProbeInit
  <2> QED
    BY <1>1, <1>5, <2>1, <2>2, Numbers DEF DriverTypes, ProbeInit, ProbeFails, moduleVars
<1>6. CASE ProbePhy
  BY <1>1, <1>6, Numbers DEF DriverTypes, ProbePhy, ProbeFails, moduleVars
<1>7. CASE ProbeRegister
  BY <1>1, <1>7, Numbers DEF DriverTypes, ProbeRegister, ProbeFails
<1>8. CASE ProbePublish
  BY <1>1, <1>8, Numbers DEF DriverTypes, ProbePublish, moduleVars
<1>9. CASE UnbindStep
  BY <1>1, <1>9 DEF DriverTypes, UnbindStep, Unbind, UnbindAtExit, moduleVars
<1>14. CASE RemoveNext \/ RemoveExit \/ RemoveClear \/ RemoveEnds
  BY <1>1, <1>14 DEF DriverTypes, RemoveNext, RemoveExit, RemoveClear, RemoveEnds,
       RemoveFrame, moduleVars
<1>15. CASE RemoveUnregister \/ RemoveFree
  BY <1>1, <1>15 DEF DriverTypes, RemoveUnregister, RemoveFree, RemoveFrame
<1>16. ASSUME NEW p \in Ports, Open(p) PROVE DriverTypes'
  BY <1>1, <1>16 DEF DriverTypes, Open, moduleVars
<1>10. CASE ModuleStep
  BY <1>1, <1>10 DEF DriverTypes, ModuleStep, ModuleInit, ModuleExit, Unloaded,
       EventAfterExit, probeVars
<1>11. ASSUME NEW p \in Ports, Override(p) PROVE DriverTypes'
  <2>1. -1 \in -1 .. MaxPorts
    BY NssDpAssumption
  <2> QED
    BY <1>1, <1>11, <2>1 DEF DriverTypes, Override, moduleVars
<1>12. ASSUME NEW p \in Ports, Restore(p) PROVE DriverTypes'
  <2>1. soc.start \in {0, 1}
    BY <1>1, NssDpAssumption DEF DriverTypes
  <2>2. p - soc.start \in -1 .. MaxPorts
    BY <2>1, Numbers
  <2> QED
    BY <1>1, <1>12, <2>2 DEF DriverTypes, Restore, moduleVars
<1>13. CASE UNCHANGED vars
  BY <1>1, <1>13 DEF DriverTypes, vars, moduleVars, probeVars
<1> QED
  BY <1>2, <1>3, <1>4, <1>5, <1>6, <1>7, <1>8, <1>9, <1>10, <1>11, <1>12, <1>13,
     <1>14, <1>15, <1>16 DEF AnyStep, ProbeStep, RemoveStep, PlaneStep

LEMMA RemoveTypesKept == ASSUME IInv, AnyStep PROVE RemoveTypes'
<1>1. RemoveTypes /\ DriverTypes
  BY TypeParts DEF IInv
<1>2. CASE ProbeStep \/ ProbePublish \/ SetStep \/ SwitchStep
  <2>1. UNCHANGED <<removing, rport, rpc, irq>>
    BY <1>2, ProbeKeepsExit, SwitchKeeps
  <2> QED
    BY <1>1, <2>1 DEF RemoveTypes
<1>3. CASE ModuleStep \/ UNCHANGED vars
  <2>1. UNCHANGED <<removing, rport, rpc, irq>>
    BY <1>3 DEF ModuleStep, ModuleInit, ModuleExit, Unloaded, EventAfterExit, vars, probeVars,
         exitVars
  <2> QED
    BY <1>1, <2>1 DEF RemoveTypes
<1>4. CASE UnbindStep
  BY <1>1, <1>4, Numbers DEF RemoveTypes, UnbindStep, Unbind, UnbindAtExit
<1>5. CASE RemoveNext
  BY <1>1, <1>5, Numbers DEF RemoveTypes, DriverTypes, RemoveNext, RemoveFrame
<1>6. CASE RemoveUnregister \/ RemoveExit \/ RemoveClear \/ RemoveEnds
  BY <1>1, <1>6 DEF RemoveTypes, RemoveUnregister, RemoveExit, RemoveClear, RemoveEnds,
       RemoveFrame
<1>7. CASE RemoveFree
  BY <1>1, <1>7 DEF RemoveTypes, RemoveFree, RemoveFrame
<1>8. CASE PlaneStep
  <2>1. UNCHANGED <<removing, rport, rpc>>
    BY <1>8 DEF PlaneStep, Open, Override, Restore, exitVars
  <2>2. irq' \in [Ports -> {"none", "own", "orphan"}]
    BY <1>1, <1>8 DEF RemoveTypes, PlaneStep, Open, Override, Restore, exitVars
  <2> QED
    BY <1>1, <2>1, <2>2 DEF RemoveTypes
<1> QED
  BY <1>2, <1>3, <1>4, <1>5, <1>6, <1>7, <1>8 DEF AnyStep, RemoveStep

LEMMA SwitchTypesKept == ASSUME IInv, AnyStep PROVE SwitchTypes'
<1>1. SwitchTypes
  BY TypeParts DEF IInv
<1>2. CASE ProbeStep \/ UnbindStep \/ RemoveStep \/ ModuleStep \/ PlaneStep
  BY <1>1, <1>2, DriverKeeps DEF SwitchTypes
<1>3. CASE ProbePublish
  BY <1>1, <1>3 DEF SwitchTypes, ProbePublish, switchVars
<1>4. CASE SetStep
  BY <1>1, <1>4 DEF SwitchTypes, SetStep, SetStp, switchVars
<1>5. CASE FilterAdd \/ FilterEthtype \/ FilterMark
  BY <1>1, <1>5 DEF SwitchTypes, FilterAdd, FilterEthtype, FilterMark, FilterFault,
       FilterReturns, switchVars
<1>6. CASE FilterDel \/ FilterUnmark \/ FilterReset
  BY <1>1, <1>6 DEF SwitchTypes, FilterDel, FilterUnmark, FilterReset, FilterFault,
       FilterReturns, switchVars
<1>7. CASE StpSet
  BY <1>1, <1>7 DEF SwitchTypes, StpSet
<1>8. CASE StpFails
  BY <1>1, <1>8 DEF SwitchTypes, StpFails, switchVars
<1>9. CASE UNCHANGED vars
  BY <1>1, <1>9 DEF SwitchTypes, vars, switchVars, taskVars
<1> QED
  BY <1>2, <1>3, <1>4, <1>5, <1>6, <1>7, <1>8, <1>9 DEF AnyStep, SwitchStep

-----------------------------------------------------------------------------
(* The driver: probe, removal, exit. *)

DriverInv ==
  ProbeInv /\ HeldInv /\ PublishedInv /\ RemoveInv /\ IrqInv /\ ExitInv /\ ContextInv

\* A probe meets no removal.
LEMMA ProbeAlone ==
  ASSUME IInv
  PROVE  probing # 0 => removing = 0 /\ rport = 0 /\ rpc = "idle"
BY TypeParts DEF IInv, RemoveInv, RemoveTypes

\* Without a removal there is nothing to say of one.
LEMMA NoRemoval ==
  ASSUME removing' = 0 /\ rport' = 0 /\ rpc' = "idle"
  PROVE  RemoveInv'
BY DEF RemoveInv

\* A probe that fails gives back what it had, but for a PHY.
LEMMA FailingProbe ==
  ASSUME IInv, ProbeFails, probing # 0, ppc # "publish", ppc # "vsi" \/ probing \in late',
         UNCHANGED <<bound, phy, nss_dp, hal_up, soc, removing, rport, rpc, irq>>,
         late \subseteq late', dpc' = dpc, module' \in {module, "oops"}
  PROVE  DriverInv'
<1>1. DriverTypes
  BY TypeParts DEF IInv
<1>2. probing \in Ports /\ probing \notin nss_dp /\ netdev[probing] = "allocated"
  BY <1>1 DEF DriverTypes, IInv, ProbeInv, PublishedInv
<1>3. /\ probing' = 0 /\ ppc' = "idle" /\ hal' = hal \ {probing} /\ netdev'[probing] = "none"
      /\ \A p \in Ports \ {probing} : netdev'[p] = netdev[p]
  BY <1>1, <1>2 DEF DriverTypes, ProbeFails
<1>4. ProbeInv'
  BY <1>3 DEF ProbeInv
<1>5. HeldInv'
  BY <1>1, <1>2, <1>3 DEF HeldInv, IInv, DriverTypes
<1>6. PublishedInv'
  BY <1>1, <1>2, <1>3 DEF PublishedInv, IInv, DriverTypes
<1>7. ExitInv' /\ ContextInv'
  BY DEF ExitInv, ContextInv, IInv
<1>8. removing = 0 /\ rport = 0 /\ rpc = "idle"
  BY ProbeAlone
<1>9. RemoveInv'
  BY <1>8, NoRemoval
<1>10. IrqInv'
  BY <1>1, <1>2, <1>3, <1>8 DEF IrqInv, IInv
<1> QED
  BY <1>4, <1>5, <1>6, <1>7, <1>9, <1>10 DEF DriverInv

LEMMA ProbeKeeps == ASSUME IInv, ProbeStep PROVE DriverInv'
<1>1. DriverTypes
  BY TypeParts DEF IInv
<1>2. DriverInv
  BY DEF IInv, DriverInv
<1>3. ASSUME NEW p \in Ports, Probe(p) PROVE DriverInv'
  <2>1. /\ module = "loaded" /\ probing = 0 /\ p \notin bound /\ p \notin nss_dp
        /\ probing' = p /\ ppc' = "pdata"
        /\ netdev'[p] = "allocated" /\ \A q \in Ports \ {p} : netdev'[q] = netdev[q]
        /\ UNCHANGED <<soc, module, hal_up, bound, hal, phy, late, nss_dp, dpc>>
    BY <1>1, <1>2, <1>3 DEF Probe, DriverTypes, DriverInv, PublishedInv, moduleVars
  <2>2. ppc = "idle" /\ 0 \notin hal /\ p # 0
    BY <1>1, <2>1, Numbers DEF DriverTypes
  <2>3. ProbeInv' /\ ExitInv' /\ ContextInv'
    BY <1>2, <2>1, <2>2 DEF DriverInv, ProbeInv, ExitInv, ContextInv
  <2>5. UNCHANGED <<removing, rport, rpc, irq>> /\ removing = 0
    BY <1>3 DEF Probe
  <2>6. rport = 0 /\ rpc = "idle"
    BY <2>5, TypeParts DEF IInv, RemoveTypes
  <2>4. HeldInv' /\ PublishedInv'
    BY <1>1, <1>2, <2>1, <2>2, <2>5, <2>6, Numbers
       DEF DriverInv, HeldInv, PublishedInv, DriverTypes
  <2>7. RemoveInv'
    BY <2>5, <2>6, NoRemoval
  <2>8. netdev[p] = "none"
    BY <1>2, <2>1, <2>2 DEF DriverInv, HeldInv
  <2>9. IrqInv'
    BY <1>2, <2>1, <2>5, <2>6, <2>8 DEF DriverInv, IrqInv
  <2> QED
    BY <2>3, <2>4, <2>7, <2>9 DEF DriverInv
<1>4. CASE ProbePdata
  <2>1. CASE Fault /\ ProbeFails
    BY <1>1, <1>4, <2>1, FailingProbe DEF ProbePdata, DriverTypes, moduleVars, exitVars
  <2>2. CASE ppc' = "init" /\ UNCHANGED <<probing, netdev, hal, faults>>
    BY <1>2, <1>4, <2>2 DEF ProbePdata, DriverInv, ProbeInv, HeldInv, PublishedInv, RemoveInv,
         IrqInv, ExitInv, ContextInv, moduleVars, exitVars
  <2> QED
    BY <1>4, <2>1, <2>2 DEF ProbePdata
<1>5. CASE ProbeInit
  <2>1. CASE Fault /\ ProbeFails /\ UNCHANGED dpc
    BY <1>1, <1>5, <2>1, FailingProbe DEF ProbeInit, DriverTypes, moduleVars, exitVars
  <2>2. CASE hal' = hal \cup {probing} /\ dpc' = [dpc EXCEPT ![probing] = probing - 1]
             /\ ppc' = (IF probing \in Polled THEN "mdio" ELSE "vsi")
             /\ UNCHANGED <<probing, netdev, faults>>
    <3>1. /\ probing \in Ports /\ dpc'[probing] = probing - 1
          /\ \A p \in Ports \ {probing} : dpc'[p] = dpc[p]
      BY <1>1, <1>5, <2>2 DEF DriverTypes, ProbeInit
    <3>2. ppc = "init" /\ UNCHANGED <<soc, module, hal_up, bound, phy, late, nss_dp>>
      BY <1>5 DEF ProbeInit, moduleVars
    <3>3. ContextInv'
      BY <1>2, <3>1, <3>2 DEF DriverInv, ContextInv
    <3>5. UNCHANGED <<removing, rport, rpc, irq>> /\ probing # 0
      BY <1>1, <1>5 DEF ProbeInit, DriverTypes, exitVars
    <3>6. RemoveInv'
      BY <3>5, ProbeAlone, NoRemoval
    <3>4. ProbeInv' /\ HeldInv' /\ PublishedInv' /\ ExitInv' /\ IrqInv'
      BY <1>2, <2>2, <3>2, <3>5 DEF DriverInv, ProbeInv, HeldInv, PublishedInv, ExitInv, IrqInv
    <3> QED
      BY <3>3, <3>4, <3>6 DEF DriverInv
  <2> QED
    BY <1>5, <2>1, <2>2 DEF ProbeInit
<1>6. CASE ProbeMdio
  <2>1. CASE Fault /\ ProbeFails
    BY <1>1, <1>6, <2>1, FailingProbe DEF ProbeMdio, DriverTypes, moduleVars, exitVars
  <2>2. CASE ppc' = "phy" /\ UNCHANGED <<probing, netdev, hal, faults>>
    BY <1>2, <1>6, <2>2 DEF ProbeMdio, DriverInv, ProbeInv, HeldInv, PublishedInv, RemoveInv,
         IrqInv, ExitInv, ContextInv, moduleVars, exitVars
  <2> QED
    BY <1>6, <2>1, <2>2 DEF ProbeMdio
<1>7. CASE ProbePhy
  <2>1. CASE ProbeFails /\ UNCHANGED phy
    BY <1>1, <1>7, <2>1, FailingProbe DEF ProbePhy, DriverTypes, moduleVars, exitVars
  <2>2. CASE phy' = phy \cup {probing} /\ ppc' = "vsi"
             /\ UNCHANGED <<probing, netdev, hal, faults>>
    <3>1. UNCHANGED <<removing, rport, rpc, irq>> /\ probing # 0
      BY <1>1, <1>7 DEF ProbePhy, DriverTypes, exitVars
    <3>2. rport = 0 /\ removing = 0 /\ rpc = "idle"
      BY <3>1, ProbeAlone
    <3>3. RemoveInv'
      BY <3>1, <3>2, NoRemoval
    <3> QED
      BY <1>2, <1>7, <2>2, <3>1, <3>3 DEF ProbePhy, DriverInv, ProbeInv, HeldInv,
           PublishedInv, IrqInv, ExitInv, ContextInv, moduleVars
  <2> QED
    BY <1>7, <2>1, <2>2 DEF ProbePhy
<1>8. CASE ProbeRegister
  <2>1. CASE Fault /\ ProbeFails /\ late' = late \cup {probing}
             /\ module' \in {module, IF soc.exit THEN module ELSE "oops"}
    BY <1>1, <1>8, <2>1, FailingProbe DEF ProbeRegister, DriverTypes, exitVars
  <2>2. CASE netdev' = [netdev EXCEPT ![probing] = "registered"] /\ ppc' = "publish"
             /\ UNCHANGED <<module, probing, hal, late, faults>>
    <3>1. /\ probing \in Ports /\ netdev'[probing] = "registered"
          /\ \A p \in Ports \ {probing} : netdev'[p] = netdev[p]
      BY <1>1, <1>8, <2>2 DEF DriverTypes, ProbeRegister
    <3>2. ppc = "vsi" /\ UNCHANGED <<soc, hal_up, bound, phy, nss_dp, dpc>>
      BY <1>8 DEF ProbeRegister
    <3>3. ProbeInv' /\ HeldInv' /\ ExitInv' /\ ContextInv'
      BY <1>2, <2>2, <3>1, <3>2 DEF DriverInv, ProbeInv, HeldInv, ExitInv, ContextInv
    <3>5. UNCHANGED <<removing, rport, rpc, irq>> /\ probing # 0
      BY <1>1, <1>8 DEF ProbeRegister, DriverTypes, exitVars
    <3>6. RemoveInv'
      BY <3>5, ProbeAlone, NoRemoval
    <3>4. PublishedInv' /\ IrqInv'
      BY <1>1, <1>2, <2>2, <3>1, <3>2, <3>5 DEF DriverInv, PublishedInv, IrqInv, DriverTypes
    <3> QED
      BY <3>3, <3>4, <3>6 DEF DriverInv
  <2> QED
    BY <1>8, <2>1, <2>2 DEF ProbeRegister
<1> QED
  BY <1>3, <1>4, <1>5, <1>6, <1>7, <1>8 DEF ProbeStep

LEMMA PublishKeeps == ASSUME IInv, ProbePublish PROVE DriverInv'
<1>1. DriverTypes
  BY TypeParts DEF IInv
<1>2. DriverInv
  BY DEF IInv, DriverInv
<1>3. /\ ppc = "publish" /\ nss_dp' = nss_dp \cup {probing}
      /\ bound' = bound \cup {probing} /\ probing' = 0 /\ ppc' = "idle"
      /\ UNCHANGED <<soc, module, hal_up, netdev, hal, phy, late, dpc, removing, rport, rpc, irq>>
  BY DEF ProbePublish, moduleVars, exitVars
<1>4. probing # 0
  BY <1>1, <1>3 DEF DriverTypes
<1>5. RemoveInv'
  BY <1>3, <1>4, ProbeAlone, NoRemoval
<1> QED
  BY <1>2, <1>3, <1>4, <1>5
     DEF DriverInv, ProbeInv, HeldInv, PublishedInv, IrqInv, ExitInv, ContextInv

LEMMA UnbindKeeps == ASSUME IInv, UnbindStep PROVE DriverInv'
<1>1. DriverTypes /\ RemoveTypes
  BY TypeParts DEF IInv
<1>2. DriverInv
  BY DEF IInv, DriverInv
<1>3. PICK p \in Ports : Unbind(p) \/ UnbindAtExit(p)
  BY DEF UnbindStep
<1>4. /\ module \in {"loaded", "exiting"} /\ removing = 0 /\ p \in bound /\ removing' = p
      /\ rpc' = "next"
      /\ UNCHANGED <<soc, module, hal_up, bound, probing, ppc, netdev, hal, phy, late, nss_dp,
                     dpc, rport, irq>>
  BY <1>3 DEF Unbind, UnbindAtExit, moduleVars
<1>5. probing = 0 /\ rport = 0 /\ rpc = "idle"
  BY <1>1, <1>2, <1>3, <1>4 DEF RemoveTypes, DriverInv, ProbeInv, Unbind, UnbindAtExit
<1> QED
  BY <1>2, <1>4, <1>5
     DEF DriverInv, ProbeInv, HeldInv, PublishedInv, RemoveInv, IrqInv, ExitInv, ContextInv

\* A removal does not meet a probe, and does not concern what the following
\* invariants are about.
LEMMA RemoveFacts ==
  ASSUME IInv, RemoveStep
  PROVE  /\ removing # 0 /\ probing = 0 /\ ppc = "idle" /\ removing \in bound
         /\ module \in {"loaded", "exiting", "oops"}
         /\ UNCHANGED <<soc, hal_up, probing, ppc, late, dpc>>
         /\ ProbeInv' /\ ContextInv'
<1>1. DriverTypes /\ RemoveTypes
  BY TypeParts DEF IInv
<1>2. rpc # "idle" /\ UNCHANGED <<soc, hal_up, probing, ppc, late, dpc>>
  BY DEF RemoveStep, RemoveNext, RemoveUnregister, RemoveExit, RemoveFree, RemoveClear,
         RemoveEnds, RemoveFrame, moduleVars
<1>3. removing # 0 /\ probing = 0 /\ ppc = "idle" /\ removing \in bound
      /\ module \in {"loaded", "exiting", "oops"}
  BY <1>1, <1>2 DEF RemoveTypes, DriverTypes, IInv, RemoveInv
<1> QED
  BY <1>2, <1>3 DEF IInv, ProbeInv, ContextInv

LEMMA RemoveKeeps == ASSUME IInv, RemoveStep PROVE DriverInv'
<1>1. DriverTypes /\ RemoveTypes
  BY TypeParts DEF IInv
<1>2. DriverInv
  BY DEF IInv, DriverInv
<1>3. /\ removing # 0 /\ probing = 0 /\ ppc = "idle" /\ removing \in bound
      /\ module \in {"loaded", "exiting", "oops"}
      /\ UNCHANGED <<soc, hal_up, probing, ppc, late, dpc>>
      /\ ProbeInv' /\ ContextInv'
  BY RemoveFacts
<1>4. CASE RemoveNext
  <2>1. PICK p \in nss_dp : rport' = p /\ phy' = phy \ {p}
    BY <1>4 DEF RemoveNext
  <2>2. /\ rpc = "next" /\ rpc' = "unregister"
        /\ UNCHANGED <<module, bound, netdev, hal, nss_dp, irq, removing>>
    BY <1>4 DEF RemoveNext, RemoveFrame
  <2>3. rport = 0 /\ p \in Ports /\ p # 0
    BY <1>1, <2>2, Numbers DEF RemoveTypes, DriverTypes
  <2>4. netdev[p] = "registered"
    BY <1>2, <2>3 DEF DriverInv, PublishedInv
  <2>5. HeldInv' /\ ExitInv'
    BY <1>2, <1>3, <2>1, <2>2, <2>3 DEF DriverInv, HeldInv, ExitInv
  <2>7. \A q \in nss_dp : q # 0
    BY <1>1, Numbers DEF DriverTypes
  <2>8. PublishedInv'
    BY <1>2, <2>1, <2>2, <2>3, <2>4, <2>7 DEF DriverInv, PublishedInv
  <2>6. RemoveInv' /\ IrqInv'
    BY <1>2, <1>3, <2>1, <2>2, <2>3, <2>4 DEF DriverInv, RemoveInv, IrqInv
  <2> QED
    BY <1>3, <2>5, <2>6, <2>8 DEF DriverInv
<1>5. CASE RemoveUnregister
  <2>1. /\ rpc = "unregister" /\ rpc' = "exit"
        /\ UNCHANGED <<module, bound, hal, phy, nss_dp, rport, irq, removing>>
    BY <1>5 DEF RemoveUnregister, RemoveFrame
  <2>2. rport \in Ports /\ rport # 0 /\ rport \in nss_dp
    BY <1>1, <1>2, <2>1 DEF RemoveTypes, DriverInv, RemoveInv
  <2>3. /\ netdev'[rport] = "allocated"
        /\ \A p \in Ports \ {rport} : netdev'[p] = netdev[p]
    BY <1>1, <1>5, <2>2 DEF RemoveUnregister, DriverTypes
  <2>4. HeldInv' /\ PublishedInv' /\ ExitInv'
    BY <1>1, <1>2, <1>3, <2>1, <2>2, <2>3
       DEF DriverInv, HeldInv, PublishedInv, ExitInv, DriverTypes
  <2>5. RemoveInv' /\ IrqInv'
    BY <1>2, <1>3, <2>1, <2>2, <2>3 DEF DriverInv, RemoveInv, IrqInv
  <2> QED
    BY <1>3, <2>4, <2>5 DEF DriverInv
<1>6. CASE RemoveExit
  <2>1. /\ rpc = "exit" /\ UNCHANGED <<bound, netdev, phy, nss_dp, rport, irq, removing>>
        /\ \/ hal' = hal \ {rport} /\ rpc' = "free" /\ module' = module
           \/ module' = "oops" /\ hal' = hal /\ rpc' = rpc
    BY <1>6 DEF RemoveExit, RemoveFrame
  <2>2. rport # 0 /\ rport \in nss_dp
    BY <1>1, <1>2, <2>1 DEF RemoveTypes, DriverInv, RemoveInv
  <2>3. HeldInv' /\ PublishedInv' /\ ExitInv'
    BY <1>2, <1>3, <2>1, <2>2 DEF DriverInv, HeldInv, PublishedInv, ExitInv, RemoveInv
  <2>4. RemoveInv' /\ IrqInv'
    BY <1>2, <1>3, <2>1, <2>2 DEF DriverInv, RemoveInv, IrqInv
  <2> QED
    BY <1>3, <2>3, <2>4 DEF DriverInv
<1>7. CASE RemoveFree
  <2>1. /\ rpc = "free" /\ rpc' = "clear"
        /\ UNCHANGED <<module, bound, hal, phy, nss_dp, rport, removing>>
    BY <1>7 DEF RemoveFree, RemoveFrame
  <2>2. rport \in Ports /\ rport # 0 /\ rport \in nss_dp
    BY <1>1, <1>2, <2>1 DEF RemoveTypes, DriverInv, RemoveInv
  <2>3. /\ netdev'[rport] = "none" /\ irq'[rport] # "own"
        /\ irq[rport] = "none" => irq'[rport] = "none"
        /\ \A p \in Ports \ {rport} : netdev'[p] = netdev[p] /\ irq'[p] = irq[p]
    BY <1>1, <1>7, <2>2 DEF RemoveFree, DriverTypes, RemoveTypes
  <2>4. HeldInv' /\ PublishedInv' /\ ExitInv'
    BY <1>1, <1>2, <1>3, <2>1, <2>2, <2>3
       DEF DriverInv, HeldInv, PublishedInv, ExitInv, DriverTypes
  <2>5. RemoveInv' /\ IrqInv'
    BY <1>2, <1>3, <2>1, <2>2, <2>3 DEF DriverInv, RemoveInv, IrqInv
  <2> QED
    BY <1>3, <2>4, <2>5 DEF DriverInv
<1>8. CASE RemoveClear
  <2>1. /\ rpc = "clear" /\ rpc' = "next" /\ rport' = 0 /\ nss_dp' = nss_dp \ {rport}
        /\ UNCHANGED <<module, bound, netdev, hal, phy, irq, removing>>
    BY <1>8 DEF RemoveClear, RemoveFrame
  <2>2. /\ rport \in Ports /\ rport # 0 /\ rport \notin hal /\ rport \notin phy
        /\ netdev[rport] = "none"
    BY <1>1, <1>2, <2>1 DEF RemoveTypes, DriverInv, RemoveInv
  <2>3. HeldInv' /\ PublishedInv' /\ ExitInv'
    BY <1>2, <1>3, <2>1, <2>2 DEF DriverInv, HeldInv, PublishedInv, ExitInv
  <2>4. RemoveInv' /\ IrqInv'
    BY <1>2, <1>3, <2>1, <2>2 DEF DriverInv, RemoveInv, IrqInv
  <2> QED
    BY <1>3, <2>3, <2>4 DEF DriverInv
<1>9. CASE RemoveEnds
  <2>1. /\ rpc = "next" /\ nss_dp = {} /\ rpc' = "idle" /\ removing' = 0
        /\ UNCHANGED <<module, netdev, hal, phy, nss_dp, rport, irq>>
    BY <1>9 DEF RemoveEnds, moduleVars
  <2>2. rport = 0
    BY <1>1, <2>1 DEF RemoveTypes
  <2>3. RemoveInv'
    BY <2>1, <2>2, NoRemoval
  <2> QED
    BY <1>2, <1>3, <2>1, <2>2, <2>3
       DEF DriverInv, HeldInv, PublishedInv, IrqInv, ExitInv
<1> QED
  BY <1>4, <1>5, <1>6, <1>7, <1>8, <1>9 DEF RemoveStep

LEMMA ModuleKeeps == ASSUME IInv, ModuleStep PROVE DriverInv'
<1>1. DriverTypes /\ RemoveTypes
  BY TypeParts DEF IInv
<1>2. DriverInv
  BY DEF IInv, DriverInv
<1>3. UNCHANGED <<soc, bound, probing, ppc, netdev, hal, phy, late, nss_dp, dpc, removing,
                  rport, rpc, irq>>
  BY DEF ModuleStep, ModuleInit, ModuleExit, Unloaded, EventAfterExit, probeVars, exitVars
<1>4. HeldInv' /\ PublishedInv' /\ IrqInv' /\ ContextInv'
  BY <1>2, <1>3 DEF DriverInv, HeldInv, PublishedInv, IrqInv, ContextInv
<1>5. probing = 0 /\ removing = 0
  <2>1. CASE Unloaded
    BY <1>2, <2>1 DEF Unloaded, DriverInv, ProbeInv, RemoveInv
  <2> QED
    BY <1>2, <2>1 DEF ModuleStep, ModuleInit, ModuleExit, EventAfterExit, DriverInv, ProbeInv,
         RemoveInv
<1>6. ppc = "idle" /\ rport = 0 /\ rpc = "idle"
  BY <1>1, <1>5 DEF DriverTypes, RemoveTypes
<1>7. ProbeInv' /\ RemoveInv'
  BY <1>3, <1>5, <1>6, NoRemoval DEF ProbeInv
<1>8. ExitInv'
  <2>1. CASE Unloaded
    BY <1>2, <1>3, <2>1 DEF Unloaded, DriverInv, PublishedInv, ExitInv
  <2> QED
    BY <1>2, <1>3, <2>1 DEF ModuleStep, ModuleInit, ModuleExit, HalCleanup, EventAfterExit,
         DriverInv, ExitInv
<1> QED
  BY <1>4, <1>7, <1>8 DEF DriverInv

LEMMA PlaneKeeps == ASSUME IInv, PlaneStep PROVE DriverInv'
<1>1. DriverTypes /\ RemoveTypes
  BY TypeParts DEF IInv
<1>2. DriverInv
  BY DEF IInv, DriverInv
<1>3. PICK p \in Ports : Open(p) \/ Override(p) \/ Restore(p)
  BY DEF PlaneStep
<1>4. UNCHANGED <<soc, module, hal_up, bound, probing, ppc, netdev, hal, phy, late, nss_dp,
                  removing, rport, rpc>>
  BY <1>3 DEF Open, Override, Restore, moduleVars, exitVars
<1>5. ProbeInv' /\ HeldInv' /\ PublishedInv' /\ RemoveInv' /\ ExitInv'
  BY <1>2, <1>4 DEF DriverInv, ProbeInv, HeldInv, PublishedInv, RemoveInv, ExitInv
<1>6. /\ \A q \in Ports \ {p} : dpc'[q] = dpc[q] /\ irq'[q] = irq[q]
      /\ dpc'[p] \in {dpc[p], -1, p - soc.start}
      /\ irq'[p] \in {irq[p], "none"} \/ (irq'[p] = "own" /\ netdev[p] = "registered" /\ soc.start = 0)
  BY <1>1, <1>3 DEF Open, Override, Restore, DriverTypes, RemoveTypes, exitVars
<1>7. ContextInv'
  BY <1>2, <1>4, <1>6 DEF DriverInv, ContextInv
<1>8. IrqInv'
  BY <1>2, <1>4, <1>6 DEF DriverInv, IrqInv
<1> QED
  BY <1>5, <1>7, <1>8 DEF DriverInv

LEMMA DriverInvKept == ASSUME IInv, AnyStep PROVE DriverInv'
<1>1. CASE SetStep \/ SwitchStep \/ UNCHANGED vars
  <2>1. UNCHANGED <<soc, module, hal_up, bound, probing, ppc, netdev, hal, phy, late,
                    nss_dp, dpc, removing, rport, rpc, irq>>
    BY <1>1, SwitchKeeps DEF vars, moduleVars, probeVars, exitVars
  <2> QED
    BY <2>1 DEF IInv, DriverInv, ProbeInv, HeldInv, PublishedInv, RemoveInv, IrqInv, ExitInv,
         ContextInv
<1> QED
  BY <1>1, ProbeKeeps, PublishKeeps, UnbindKeeps, RemoveKeeps, ModuleKeeps, PlaneKeeps
     DEF AnyStep

-----------------------------------------------------------------------------
(* The filter and the STP state. *)

SwitchInv == MarkInv /\ PathInv /\ TaskInv /\ BitmapBacked /\ FilterFollowsStp

LEMMA SameSwitch ==
  ASSUME IInv, UNCHANGED <<stp, profiles, ethtype, slowproto_acl_bm, spc, sport, sstate,
                           sundo, shad, sclean, astray>>
  PROVE  SwitchInv'
<1>1. SwitchInv
  BY DEF IInv, SwitchInv
<1> QED
  BY <1>1 DEF SwitchInv, MarkInv, PathInv, TaskInv, Follows, BitmapBacked, FilterFollowsStp

\* A probe that clears the bitmap leads astray the ports that were in it.
LEMMA PublishSwitch == ASSUME IInv, ProbePublish PROVE SwitchInv'
<1>1. SwitchInv
  BY DEF IInv, SwitchInv
<1>2. UNCHANGED <<stp, profiles, ethtype, spc, sport, sstate, sundo, shad>>
  BY DEF ProbePublish, switchVars
<1>3. CASE UNCHANGED <<slowproto_acl_bm, astray, sclean>>
  BY <1>2, <1>3, SameSwitch
<1>4. CASE /\ slowproto_acl_bm' = {} /\ astray' = astray \cup slowproto_acl_bm
           /\ sclean' = (sclean /\ sport \notin slowproto_acl_bm)
  <2>1. MarkInv' /\ PathInv' /\ BitmapBacked'
    BY <1>1, <1>2, <1>4 DEF SwitchInv, MarkInv, PathInv, BitmapBacked
  <2>2. FilterFollowsStp'
    BY <1>1, <1>2, <1>4 DEF SwitchInv, FilterFollowsStp
  <2>3. /\ sclean' => sclean /\ sport \notin slowproto_acl_bm
        /\ ~sclean' => ~sclean \/ sport \in slowproto_acl_bm
    BY <1>4, Zenon
  <2>4. TaskInv'
    BY <1>1, <1>2, <1>4, <2>3 DEF SwitchInv, TaskInv, Follows
  <2> QED
    BY <2>1, <2>2, <2>4 DEF SwitchInv
<1> QED
  BY <1>3, <1>4 DEF ProbePublish

LEMMA SetSwitch == ASSUME IInv, SetStep PROVE SwitchInv'
<1>1. SwitchInv /\ SwitchTypes
  BY TypeParts DEF IInv, SwitchInv
<1>2. PICK p \in Ports, state \in StpStates : SetStp(p, state)
  BY DEF SetStep
<1>3. /\ spc = "idle" /\ sport' = p /\ sstate' = state /\ sundo' = FALSE
      /\ sclean' = TRUE /\ shad' = (p \in profiles)
      /\ spc' = CASE state = "disabled" -> "add"
                  [] state = "forwarding" -> "del"
                  [] OTHER -> "stp"
      /\ UNCHANGED <<stp, profiles, ethtype, slowproto_acl_bm, astray>>
  BY <1>2 DEF SetStp, switchVars
<1>4. /\ state = "disabled" => spc' = "add"
      /\ state = "forwarding" => spc' = "del"
      /\ state \in OtherStates => spc' = "stp"
  BY <1>3, Numbers
<1>5. state = "disabled" \/ state = "forwarding" \/ state \in OtherStates
  BY Numbers
<1>6. \A q \in Ports \ astray : Follows(q)
  BY <1>1, <1>3 DEF SwitchInv, FilterFollowsStp, Follows
<1>7. MarkInv' /\ PathInv'
  BY <1>3, <1>4, <1>5, Numbers DEF MarkInv, PathInv
<1>8. BitmapBacked' /\ FilterFollowsStp'
  BY <1>1, <1>3, <1>4, <1>5, <1>6 DEF SwitchInv, BitmapBacked, FilterFollowsStp, Follows
<1>9. TaskInv'
  <2>1. p \notin astray => Follows(p)
    BY <1>6
  <2>2. (shad' => p \in profiles) /\ (p \in profiles => shad')
    BY <1>3, Zenon
  <2>3. spc' = "stp" => state # "disabled" /\ state # "forwarding"
    BY <1>4
  <2>4. p \notin astray => /\ stp[p] = "disabled" => p \in profiles
                           /\ stp[p] = "forwarding" => p \notin profiles
    BY <2>1 DEF Follows
  <2>5. Follows(sport)' <=> Follows(p)
    BY <1>3 DEF Follows
  <2> QED
    BY <1>3, <2>1, <2>2, <2>3, <2>4, <2>5 DEF TaskInv
<1> QED
  BY <1>7, <1>8, <1>9 DEF SwitchInv

\* A call for the filter that fails leads the port astray, whatever it leaves.
LEMMA FaultSwitch ==
  ASSUME IInv, FilterFault, spc # "idle", spc # "unmark",
         profiles \ {sport} \subseteq profiles', profiles' \subseteq profiles,
         profiles' = profiles \/ slowproto_acl_bm = {},
         UNCHANGED <<stp, ethtype, slowproto_acl_bm, sport, sstate, sundo, shad>>
  PROVE  SwitchInv'
<1>1. SwitchInv
  BY DEF IInv, SwitchInv
<1>2. /\ spc' = IF sundo THEN "idle" ELSE "stp"
      /\ astray' = astray \cup {sport} /\ sclean' = FALSE
  BY DEF FilterFault, FilterReturns
<1>3. (sundo => spc' = "idle") /\ (~sundo => spc' = "stp") /\ sport \in astray'
  BY <1>2
<1>4. MarkInv' /\ PathInv' /\ TaskInv'
  BY <1>2, <1>3 DEF MarkInv, PathInv, TaskInv
<1>5. BitmapBacked'
  BY <1>1, <1>3 DEF SwitchInv, BitmapBacked
<1>6. FilterFollowsStp'
  BY <1>1, <1>2 DEF SwitchInv, FilterFollowsStp
<1> QED
  BY <1>4, <1>5, <1>6 DEF SwitchInv

LEMMA AddSwitch == ASSUME IInv, FilterAdd PROVE SwitchInv'
<1>1. SwitchInv /\ SwitchTypes
  BY TypeParts DEF IInv, SwitchInv
<1>2. /\ spc = "add"
      /\ UNCHANGED <<stp, ethtype, slowproto_acl_bm, sport, sstate, sundo, shad>>
  BY DEF FilterAdd
<1>3. CASE FilterFault /\ UNCHANGED profiles
  BY <1>2, <1>3, FaultSwitch
<1>4. CASE /\ profiles' = profiles \cup {sport}
           /\ spc' = (IF slowproto_acl_bm = {} THEN "ethtype" ELSE "mark")
           /\ UNCHANGED <<astray, sclean, faults>>
  <2>1. /\ spc' \in {"ethtype", "mark"} /\ sport \in profiles'
        /\ spc' = "ethtype" => slowproto_acl_bm = {}
        /\ spc' = "mark" => ethtype
    BY <1>1, <1>4 DEF SwitchInv, BitmapBacked
  <2>2. sstate \notin OtherStates
    BY <1>1, <1>2, Numbers DEF SwitchInv, PathInv
  <2>3. MarkInv' /\ PathInv'
    BY <1>1, <1>2, <2>1 DEF SwitchInv, MarkInv, PathInv
  <2>4. TaskInv'
    BY <1>1, <1>2, <1>4, <2>1, <2>2 DEF SwitchInv, TaskInv
  <2>5. BitmapBacked' /\ FilterFollowsStp'
    BY <1>1, <1>2, <1>4, <2>1 DEF SwitchInv, BitmapBacked, FilterFollowsStp
  <2> QED
    BY <2>3, <2>4, <2>5 DEF SwitchInv
<1> QED
  BY <1>3, <1>4 DEF FilterAdd

LEMMA EthtypeSwitch == ASSUME IInv, FilterEthtype PROVE SwitchInv'
<1>1. SwitchInv /\ SwitchTypes
  BY TypeParts DEF IInv, SwitchInv
<1>2. /\ spc = "ethtype"
      /\ UNCHANGED <<stp, slowproto_acl_bm, sport, sstate, sundo, shad>>
  BY DEF FilterEthtype
<1>3. slowproto_acl_bm = {} /\ sport \in profiles
  BY <1>1, <1>2 DEF SwitchInv, MarkInv
<1>4. CASE /\ FilterFault /\ profiles' \in {profiles, profiles \ {sport}}
           /\ UNCHANGED ethtype
  BY <1>2, <1>3, <1>4, FaultSwitch
<1>5. CASE /\ ethtype' = TRUE /\ spc' = "mark"
           /\ UNCHANGED <<profiles, astray, sclean, faults>>
  <2>1. sstate \notin OtherStates
    BY <1>1, <1>2, Numbers DEF SwitchInv, PathInv
  <2>2. MarkInv' /\ PathInv'
    BY <1>1, <1>2, <1>3, <1>5 DEF SwitchInv, MarkInv, PathInv
  <2>3. TaskInv'
    BY <1>1, <1>2, <1>5, <2>1 DEF SwitchInv, TaskInv
  <2>4. BitmapBacked' /\ FilterFollowsStp'
    BY <1>1, <1>2, <1>5 DEF SwitchInv, BitmapBacked, FilterFollowsStp
  <2> QED
    BY <2>2, <2>3, <2>4 DEF SwitchInv
<1> QED
  BY <1>4, <1>5 DEF FilterEthtype

LEMMA MarkSwitch == ASSUME IInv, FilterMark PROVE SwitchInv'
<1>1. SwitchInv /\ SwitchTypes
  BY TypeParts DEF IInv, SwitchInv
<1>2. /\ spc = "mark" /\ slowproto_acl_bm' = slowproto_acl_bm \cup {sport}
      /\ UNCHANGED <<stp, profiles, ethtype, sport, sstate, sundo, shad, sclean, astray>>
  BY DEF FilterMark, switchVars
<1>3. (sundo => spc' = "idle") /\ (~sundo => spc' = "stp")
  BY DEF FilterMark, FilterReturns
<1>4. /\ sport \in profiles /\ ethtype
      /\ sundo => sstate = "forwarding"
      /\ ~sundo => sstate = "disabled"
  BY <1>1, <1>2 DEF SwitchInv, MarkInv, PathInv
<1>5. MarkInv' /\ PathInv' /\ BitmapBacked'
  BY <1>1, <1>2, <1>3, <1>4 DEF SwitchInv, MarkInv, PathInv, BitmapBacked
<1>6. TaskInv'
  BY <1>1, <1>2, <1>3, <1>4, Numbers DEF SwitchInv, TaskInv
<1>7. FilterFollowsStp'
  BY <1>1, <1>2, <1>3, <1>4 DEF SwitchInv, FilterFollowsStp, TaskInv
<1> QED
  BY <1>5, <1>6, <1>7 DEF SwitchInv

\* The filter of a port is gone, and the call returns.
LEMMA GoneSwitch ==
  ASSUME IInv, spc \in {"del", "unmark", "reset"}, FilterReturns, sport \notin profiles,
         slowproto_acl_bm' = slowproto_acl_bm \ {sport} \/ slowproto_acl_bm' = slowproto_acl_bm,
         slowproto_acl_bm' \subseteq profiles,
         slowproto_acl_bm # {} => ethtype' = ethtype,
         slowproto_acl_bm' # {} => ethtype' = ethtype,
         UNCHANGED <<stp, profiles, sport, sstate, sundo, shad, sclean, astray>>
  PROVE  SwitchInv'
<1>1. SwitchInv /\ SwitchTypes
  BY TypeParts DEF IInv, SwitchInv
<1>2. (sundo => spc' = "idle") /\ (~sundo => spc' = "stp")
  BY DEF FilterReturns
<1>3. /\ sundo => sstate = "disabled"
      /\ ~sundo => sstate = "forwarding"
  BY <1>1 DEF SwitchInv, PathInv
<1>4. MarkInv' /\ PathInv' /\ BitmapBacked'
  BY <1>1, <1>2 DEF SwitchInv, MarkInv, PathInv, BitmapBacked
<1>5. TaskInv'
  BY <1>1, <1>2, <1>3, Numbers DEF SwitchInv, TaskInv
<1>6. FilterFollowsStp'
  BY <1>1, <1>2, <1>3 DEF SwitchInv, FilterFollowsStp, TaskInv
<1> QED
  BY <1>4, <1>5, <1>6 DEF SwitchInv

LEMMA DelSwitch == ASSUME IInv, FilterDel PROVE SwitchInv'
<1>1. SwitchInv /\ SwitchTypes
  BY TypeParts DEF IInv, SwitchInv
<1>2. /\ spc = "del"
      /\ UNCHANGED <<stp, ethtype, slowproto_acl_bm, sport, sstate, sundo, shad>>
  BY DEF FilterDel
<1>3. CASE FilterFault /\ UNCHANGED profiles
  BY <1>2, <1>3, FaultSwitch
<1>4. CASE sport \notin profiles /\ FilterReturns /\ UNCHANGED <<profiles, astray, sclean, faults>>
  <2>1. slowproto_acl_bm \subseteq profiles
    BY <1>1, <1>2 DEF SwitchInv, BitmapBacked
  <2> QED
    BY <1>2, <1>4, <2>1, GoneSwitch
<1>5. CASE /\ profiles' = profiles \ {sport} /\ spc' = "unmark"
           /\ UNCHANGED <<astray, sclean, faults>>
  <2>1. sstate \notin OtherStates
    BY <1>1, <1>2, Numbers DEF SwitchInv, PathInv
  <2>2. MarkInv' /\ PathInv' /\ BitmapBacked'
    BY <1>1, <1>2, <1>5 DEF SwitchInv, MarkInv, PathInv, BitmapBacked
  <2>3. TaskInv'
    BY <1>1, <1>2, <1>5, <2>1 DEF SwitchInv, TaskInv
  <2>4. FilterFollowsStp'
    BY <1>1, <1>2, <1>5 DEF SwitchInv, FilterFollowsStp
  <2> QED
    BY <2>2, <2>3, <2>4 DEF SwitchInv
<1> QED
  BY <1>3, <1>4, <1>5 DEF FilterDel

LEMMA UnmarkSwitch == ASSUME IInv, FilterUnmark PROVE SwitchInv'
<1>1. SwitchInv /\ SwitchTypes
  BY TypeParts DEF IInv, SwitchInv
<1>2. /\ spc = "unmark" /\ slowproto_acl_bm' = slowproto_acl_bm \ {sport}
      /\ UNCHANGED <<stp, profiles, ethtype, sport, sstate, sundo, shad, sclean, astray>>
  BY DEF FilterUnmark, switchVars
<1>3. sport \notin profiles /\ slowproto_acl_bm' \subseteq profiles
  BY <1>1, <1>2 DEF SwitchInv, MarkInv, BitmapBacked
<1>4. CASE slowproto_acl_bm' = {}
  <2>1. spc' = "reset"
    BY <1>4 DEF FilterUnmark
  <2>2. sstate \notin OtherStates
    BY <1>1, <1>2, Numbers DEF SwitchInv, PathInv
  <2>3. MarkInv' /\ PathInv' /\ BitmapBacked'
    BY <1>1, <1>2, <1>3, <1>4, <2>1 DEF SwitchInv, MarkInv, PathInv, BitmapBacked
  <2>4. TaskInv'
    BY <1>1, <1>2, <2>1, <2>2 DEF SwitchInv, TaskInv
  <2>5. FilterFollowsStp'
    BY <1>1, <1>2, <2>1 DEF SwitchInv, FilterFollowsStp
  <2> QED
    BY <2>3, <2>4, <2>5 DEF SwitchInv
<1>5. CASE slowproto_acl_bm' # {}
  <2>1. FilterReturns
    BY <1>5 DEF FilterUnmark
  <2> QED
    BY <1>2, <1>3, <2>1, GoneSwitch
<1> QED
  BY <1>4, <1>5

LEMMA ResetSwitch == ASSUME IInv, FilterReset PROVE SwitchInv'
<1>1. /\ spc = "reset" /\ FilterReturns
      /\ UNCHANGED <<stp, profiles, slowproto_acl_bm, sport, sstate, sundo, shad, sclean,
                     astray>>
  BY DEF FilterReset
<1>2. slowproto_acl_bm = {} /\ sport \notin profiles
  BY <1>1 DEF IInv, MarkInv
<1> QED
  BY <1>1, <1>2, GoneSwitch

LEMMA StpSetSwitch == ASSUME IInv, StpSet PROVE SwitchInv'
<1>1. SwitchInv /\ SwitchTypes
  BY TypeParts DEF IInv, SwitchInv
<1>2. /\ spc = "stp" /\ spc' = "idle" /\ stp' = [stp EXCEPT ![sport] = sstate]
      /\ astray' = IF sclean /\ sstate \notin OtherStates THEN astray \ {sport} ELSE astray
      /\ UNCHANGED <<profiles, ethtype, slowproto_acl_bm, sport, sstate, sundo, shad, sclean>>
  BY DEF StpSet
<1>3. stp'[sport] = sstate /\ \A p \in Ports \ {sport} : stp'[p] = stp[p]
  BY <1>1, <1>2 DEF SwitchTypes
<1>4. MarkInv' /\ PathInv' /\ TaskInv' /\ BitmapBacked'
  BY <1>1, <1>2 DEF SwitchInv, MarkInv, PathInv, TaskInv, BitmapBacked
<1>5. FilterFollowsStp'
  <2>1. \A p \in Ports \ {sport} : p \in astray' <=> p \in astray
    BY <1>2
  <2>2. sport \notin astray' /\ sstate \notin OtherStates => sclean
    BY <1>1, <1>2 DEF SwitchInv, TaskInv
  <2>3. sport \notin astray' /\ sstate \notin OtherStates =>
          /\ sstate = "disabled" => sport \in profiles /\ sport \in slowproto_acl_bm
          /\ sstate = "forwarding" => sport \notin profiles
    BY <1>1, <1>2, <2>2 DEF SwitchInv, TaskInv
  <2> QED
    BY <1>1, <1>2, <1>3, <2>1, <2>3, Numbers DEF SwitchInv, FilterFollowsStp
<1> QED
  BY <1>4, <1>5 DEF SwitchInv

LEMMA StpFailsSwitch == ASSUME IInv, StpFails PROVE SwitchInv'
<1>1. SwitchInv /\ SwitchTypes
  BY TypeParts DEF IInv, SwitchInv
<1>2. /\ spc = "stp" /\ sundo' = TRUE
      /\ astray' = IF \/ sstate = "disabled" /\ shad
                      \/ sstate = "forwarding" /\ ~shad
                     THEN astray \cup {sport} ELSE astray
      /\ UNCHANGED <<stp, profiles, ethtype, slowproto_acl_bm, sport, sstate, shad, sclean>>
  BY DEF StpFails, switchVars
<1>3. /\ sstate = "disabled" => spc' = "del"
      /\ sstate = "forwarding" => spc' = "add"
      /\ sstate \in OtherStates => spc' = "idle"
  BY Numbers DEF StpFails
<1>4. sstate = "disabled" \/ sstate = "forwarding" \/ sstate \in OtherStates
  BY <1>1, Numbers DEF SwitchTypes
<1>5. MarkInv' /\ PathInv'
  BY <1>2, <1>3, <1>4 DEF MarkInv, PathInv
<1>6. BitmapBacked'
  BY <1>1, <1>2, <1>3, <1>4 DEF SwitchInv, BitmapBacked
<1>7. /\ \A p \in Ports \ {sport} : p \in astray' <=> p \in astray
      /\ sport \notin astray' => /\ sport \notin astray
                                 /\ sstate = "disabled" => ~shad
                                 /\ sstate = "forwarding" => shad
  BY <1>2
<1>8. TaskInv'
  BY <1>1, <1>2, <1>3, <1>4, <1>7, Numbers DEF SwitchInv, TaskInv
<1>9. FilterFollowsStp'
  BY <1>1, <1>2, <1>3, <1>4, <1>7 DEF SwitchInv, FilterFollowsStp, TaskInv, Follows
<1> QED
  BY <1>5, <1>6, <1>8, <1>9 DEF SwitchInv

LEMMA SwitchInvKept == ASSUME IInv, AnyStep PROVE SwitchInv'
<1>1. CASE ProbeStep \/ UnbindStep \/ RemoveStep \/ ModuleStep \/ PlaneStep
  BY <1>1, DriverKeeps, SameSwitch
<1>2. CASE UNCHANGED vars
  BY <1>2, SameSwitch DEF vars, switchVars, taskVars
<1> QED
  BY <1>1, <1>2, PublishSwitch, SetSwitch, AddSwitch, EthtypeSwitch, MarkSwitch, DelSwitch,
     UnmarkSwitch, ResetSwitch, StpSetSwitch, StpFailsSwitch DEF AnyStep, SwitchStep

-----------------------------------------------------------------------------
(* Theorems. *)

\* The inductive invariant: what a probe has taken at each place, what belongs to
\* a port that is published, and what is known of the filter and of the port
\* whose state is being set.
THEOREM Invariance == Spec => []IInv
<1>1. Init => IInv
  BY InitInv
<1>2. IInv /\ [Next]_vars => IInv'
  <2> SUFFICES ASSUME IInv, [Next]_vars PROVE IInv'
    OBVIOUS
  <2>1. AnyStep
    BY StepKinds DEF AnyStep
  <2>2. TypeOK'
    BY <2>1, FlagsKept, CountsKept, DriverTypesKept, RemoveTypesKept,
       SwitchTypesKept, TypePartsNext
  <2>3. DriverInv' /\ SwitchInv'
    BY <2>1, DriverInvKept, SwitchInvKept
  <2> QED
    BY <2>2, <2>3 DEF IInv, DriverInv, SwitchInv
<1> QED
  BY <1>1, <1>2, PTL DEF Spec

\* A port in the bitmap of nss_dp_set_slow_proto_filter has the profile in the
\* switch, and the ethertype is set for it.
THEOREM BitmapIsBacked == Spec => []BitmapBacked
<1>1. IInv => BitmapBacked
  BY DEF IInv
<1> QED
  BY <1>1, Invariance, PTL

\* The filter follows the STP state that nss_dp_stp_state_set has set, and is
\* restored when the switch refuses a state.
THEOREM FilterFollowsState == Spec => []FilterFollowsStp
<1>1. IInv => FilterFollowsStp
  BY DEF IInv
<1> QED
  BY <1>1, Invariance, PTL

\* The ports in nss_dp[] have their net device, HAL context and PHY, and a data
\* plane context of their own, but for the one that nss_dp_remove has reached, and
\* no other port but the one that is probed has a registered net device.
THEOREM PublishedPortsAreComplete == Spec => []PublishedIsComplete
<1>1. IInv => PublishedIsComplete
  <2> SUFFICES ASSUME IInv PROVE PublishedIsComplete
    OBVIOUS
  <2>1. ContextsAreOwn
    <3> SUFFICES ASSUME soc.start = 1, NEW p \in Ports, dpc[p] # -1
                 PROVE  /\ dpc[p] \in 0 .. MaxPorts - 1
                        /\ \A q \in Ports \ {p} : dpc[q] # dpc[p]
      BY DEF ContextsAreOwn
    <3>1. dpc[p] = p - 1 /\ \A q \in Ports : dpc[q] \in {-1, q - 1}
      BY DEF IInv, ContextInv
    <3>2. \A q \in Ports : q \in 1 .. MaxPorts /\ MaxPorts \in Nat
      BY NssDpAssumption
    <3> QED
      BY <3>1, <3>2
  <2> QED
    BY <2>1 DEF IInv, HeldInv, PublishedInv, PublishedIsComplete
<1> QED
  BY <1>1, Invariance, PTL

\* nss_dp_exit leaves nothing behind but the PHYs of probes that failed late, the
\* switchdev notifier and, where the data plane is not the EDMA's, interrupt
\* handlers of net devices that were freed.
THEOREM UnloadedModuleIsClean == Spec => []UnloadedIsClean
<1>1. IInv => UnloadedIsClean
  <2> SUFFICES ASSUME IInv, module = "gone"
               PROVE  /\ ~hal_up /\ nss_dp = {} /\ hal = {} /\ phy \subseteq late
                      /\ \A p \in Ports : netdev[p] = "none" /\ irq[p] # "own"
                      /\ soc.start = 1 => \A p \in Ports : irq[p] = "none"
    BY DEF UnloadedIsClean
  <2>1. probing = 0 /\ ppc = "idle" /\ nss_dp = {} /\ ~hal_up
    BY TypeParts DEF IInv, DriverTypes, ProbeInv, ExitInv
  <2>2. hal \subseteq Ports /\ phy \subseteq Ports /\ 0 \notin Ports
    BY TypeParts, Numbers DEF IInv, DriverTypes
  <2>3. rpc = "idle"
    BY TypeParts DEF IInv, RemoveInv, RemoveTypes
  <2>4. \A p \in Ports : netdev[p] = "none"
    BY <2>1, <2>2 DEF IInv, HeldInv
  <2> QED
    BY <2>1, <2>2, <2>3, <2>4 DEF IInv, HeldInv, IrqInv
<1> QED
  BY <1>1, Invariance, PTL
=============================================================================
