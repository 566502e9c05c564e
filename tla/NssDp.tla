------------------------------- MODULE NssDp --------------------------------
(***************************************************************************)
(* The module as a platform driver: nss_dp_init, the probe and the removal *)
(* of the ports, nss_dp_exit, which data plane context a port uses, and    *)
(* what switchdev does for a port of a bridge: its STP state and the       *)
(* filter that lets slow protocols (LACP) through.  The ports share one    *)
(* filter and a bitmap of the ports that need it.                          *)
(*                                                                         *)
(* Switchdev events come one at a time, under the rtnl lock.  A probe and  *)
(* a removal do not hold it and run between their steps; only              *)
(* unregister_netdev takes it.  The driver core runs one probe or removal  *)
(* at a time, under the lock of the ports' common parent, which kernels    *)
(* before 4.19 take.  Calls that may fail do so at most MaxFaults times.   *)
(***************************************************************************)
EXTENDS Integers

CONSTANTS
  MaxPorts,      \* NSS_DP_HAL_MAX_PORTS
  Ports,         \* macids of the ports in the device tree
  Polled,        \* those with link_poll
  Socs,          \* SoCs: NSS_DP_START_IFNUM, and whether the MACs have .exit
  OtherStates,   \* STP states that do not concern the filter
  MaxFaults,     \* bound on calls that fail
  MaxChanges     \* bound on ports unbound or overridden

ASSUME NssDpAssumption ==
  /\ MaxPorts \in Nat /\ Ports \subseteq 1 .. MaxPorts /\ Polled \subseteq Ports
  /\ Socs \subseteq [start : {0, 1}, exit : BOOLEAN]
  /\ OtherStates \subseteq {"listening", "blocking", "learning"}
  /\ MaxFaults \in Nat /\ MaxChanges \in Nat

VARIABLES
  soc,           \* the SoC
  module,        \* "none", "loaded", "exiting", "gone", "failed", or "oops"
  hal_up,        \* nss_dp_hal_init was done and not undone
  bound,         \* ports that the driver core has bound to the driver
  probing, ppc,  \* the port that is probed, or 0, and where nss_dp_probe is
  netdev,        \* "none", "allocated" or "registered"
  hal,           \* ports with a HAL context
  phy,           \* ports with a connected PHY
  late,          \* history: ports whose probe failed after phy_connect
  removing, rport, rpc, \* nss_dp_remove: of which port, at which port, or 0, and where
  irq,           \* handler of syn_dp_if_init: "none", "own", "orphan": of a freed device
  notifier,      \* switch_init_done: nss_dp_switchdev_notifier is registered
  nss_dp,        \* dp_global_ctx.nss_dp
  dpc,           \* data plane context: an index, or -1 for one of an overlay
  stp,           \* STP state in the switch
  profiles,      \* ports of the control packet profile in the switch
  ethtype,       \* the ethertype profile is set to ETH_P_SLOW
  slowproto_acl_bm,
  spc, sport, sstate, \* nss_dp_stp_state_set: place, port, new state
  sundo,         \*   it restores the filter
  shad,          \*   history: the port had the filter before
  sclean,        \*   history: no accident so far
  astray,        \* history: ports whose filter was lost or kept by an accident
  faults, changes

moduleVars == <<module, hal_up>>
exitVars == <<removing, rport, rpc, irq, notifier>>
probeVars == <<bound, probing, ppc, netdev, hal, phy, late, nss_dp, dpc, exitVars>>
switchVars == <<stp, profiles, ethtype>>
taskVars == <<spc, sport, sstate, sundo, shad, sclean>>
vars == <<soc, moduleVars, probeVars, switchVars, slowproto_acl_bm, taskVars,
          astray, faults, changes>>

StpStates == {"disabled", "forwarding"} \cup OtherStates

Init ==
  /\ soc \in Socs
  /\ module = "none" /\ hal_up = FALSE
  /\ bound = {} /\ probing = 0 /\ ppc = "idle"
  /\ netdev = [p \in Ports |-> "none"]
  /\ hal = {} /\ phy = {} /\ late = {} /\ nss_dp = {}
  /\ dpc = [p \in Ports |-> p - 1]
  /\ removing = 0 /\ rport = 0 /\ rpc = "idle"
  /\ irq = [p \in Ports |-> "none"] /\ notifier = FALSE
  /\ stp = [p \in Ports |-> "unset"]
  /\ profiles = {} /\ ethtype = FALSE /\ slowproto_acl_bm = {}
  /\ spc = "idle" /\ sport \in Ports /\ sstate = "disabled"
  /\ sundo = FALSE /\ shad = FALSE /\ sclean = TRUE
  /\ astray = {} /\ faults = 0 /\ changes = 0

Fault == faults < MaxFaults /\ faults' = faults + 1

-----------------------------------------------------------------------------
(* nss_dp_init *)

\* nss_dp_hal_init, which fails only where it calls edma_init ...
HalInit == hal_up' = TRUE
HalInitFails == soc.start = 1 /\ hal_up' = FALSE

\* ... and platform_driver_register.  When the latter fails the HAL stays as it is.
ModuleInit ==
  /\ module = "none"
  /\ \/ HalInit /\ module' = "loaded" /\ UNCHANGED faults
     \/ Fault /\ (HalInit \/ HalInitFails) /\ module' = "failed"
  /\ UNCHANGED <<soc, probeVars, switchVars, slowproto_acl_bm, taskVars, astray,
                 changes>>

-----------------------------------------------------------------------------
(* nss_dp_probe *)

\* alloc_etherdev_mqs, and nss_dp_switchdev_setup.
Probe(p) ==
  /\ module = "loaded" /\ probing = 0 /\ removing = 0 /\ p \notin bound
  /\ probing' = p
  /\ netdev' = [netdev EXCEPT ![p] = "allocated"]
  /\ ppc' = "pdata" /\ notifier' = TRUE
  /\ UNCHANGED <<soc, moduleVars, bound, hal, phy, late, nss_dp, dpc, removing, rport,
                 rpc, irq, switchVars, slowproto_acl_bm, taskVars, astray, faults,
                 changes>>

\* "goto fail": the net device is freed.  The driver core releases what is managed.
ProbeFails ==
  /\ netdev' = [netdev EXCEPT ![probing] = "none"]
  /\ hal' = hal \ {probing}
  /\ probing' = 0 /\ ppc' = "idle"

\* nss_dp_of_get_pdata
ProbePdata ==
  /\ ppc = "pdata"
  /\ \/ ppc' = "init" /\ UNCHANGED <<probing, netdev, hal, faults>>
     \/ Fault /\ ProbeFails
  /\ UNCHANGED <<soc, moduleVars, bound, phy, late, nss_dp, dpc, exitVars, switchVars,
                 slowproto_acl_bm, taskVars, astray, changes>>

\* Mutant: the port is published before it is known that it can be registered.
ProbeInitPublishes ==
  /\ ppc = "init"
  /\ \/ /\ hal' = hal \cup {probing}
        /\ dpc' = [dpc EXCEPT ![probing] = probing - 1]
        /\ ppc' = IF probing \in Polled THEN "mdio" ELSE "vsi"
        /\ nss_dp' = nss_dp \cup {probing}
        /\ UNCHANGED <<probing, netdev, faults>>
     \/ Fault /\ ProbeFails /\ UNCHANGED <<dpc, nss_dp>>
  /\ UNCHANGED <<soc, moduleVars, bound, phy, late, exitVars, switchVars,
                 slowproto_acl_bm, taskVars, astray, changes>>

\* The data plane context, and the init operation of the MAC, whose resources are
\* managed.
ProbeInit ==
  /\ ppc = "init"
  /\ \/ /\ hal' = hal \cup {probing}
        /\ dpc' = [dpc EXCEPT ![probing] = probing - 1]
        /\ ppc' = IF probing \in Polled THEN "mdio" ELSE "vsi"
        /\ UNCHANGED <<probing, netdev, faults>>
     \/ Fault /\ ProbeFails /\ UNCHANGED dpc
  /\ UNCHANGED <<soc, moduleVars, bound, phy, late, nss_dp, exitVars, switchVars,
                 slowproto_acl_bm, taskVars, astray, changes>>

\* nss_dp_mdio_attach
ProbeMdio ==
  /\ ppc = "mdio"
  /\ \/ ppc' = "phy" /\ UNCHANGED <<probing, netdev, hal, faults>>
     \/ Fault /\ ProbeFails
  /\ UNCHANGED <<soc, moduleVars, bound, phy, late, nss_dp, dpc, exitVars, switchVars,
                 slowproto_acl_bm, taskVars, astray, changes>>

\* phy_connect, which refuses a PHY that is connected.
ProbePhy ==
  /\ ppc = "phy"
  /\ \/ /\ probing \notin phy
        /\ phy' = phy \cup {probing} /\ ppc' = "vsi"
        /\ UNCHANGED <<probing, netdev, hal, faults>>
     \/ /\ IF probing \in phy THEN UNCHANGED faults ELSE Fault
        /\ ProbeFails /\ UNCHANGED phy
  /\ UNCHANGED <<soc, moduleVars, bound, late, nss_dp, dpc, exitVars, switchVars,
                 slowproto_acl_bm, taskVars, astray, changes>>

\* ppe_port_vsi_get and register_netdev: a PHY stays connected when one fails,
\* and after the latter the MAC's exit operation is called.
ProbeRegister ==
  /\ ppc = "vsi"
  /\ \/ /\ netdev' = [netdev EXCEPT ![probing] = "registered"]
        /\ ppc' = "publish"
        /\ UNCHANGED <<module, probing, hal, late, faults>>
     \/ /\ Fault /\ ProbeFails
        /\ late' = late \cup {probing}
        /\ module' \in {module, IF soc.exit THEN module ELSE "oops"}
  /\ UNCHANGED <<soc, hal_up, bound, phy, nss_dp, dpc, exitVars, switchVars,
                 slowproto_acl_bm, taskVars, astray, changes>>

\* The port is entered in nss_dp[], and the bitmap cleared, whatever ports are in
\* it; a switchdev event that has read it already writes it back.
ProbePublish ==
  /\ ppc = "publish"
  /\ nss_dp' = nss_dp \cup {probing}
  /\ \/ /\ slowproto_acl_bm' = {} /\ astray' = astray \cup slowproto_acl_bm
        /\ sclean' = (sclean /\ sport \notin slowproto_acl_bm)
     \/ spc \in {"mark", "unmark"} /\ UNCHANGED <<slowproto_acl_bm, astray, sclean>>
  /\ bound' = bound \cup {probing}
  /\ probing' = 0 /\ ppc' = "idle"
  /\ UNCHANGED <<soc, moduleVars, netdev, hal, phy, late, dpc, exitVars, switchVars, spc,
                 sport, sstate, sundo, shad, faults, changes>>

-----------------------------------------------------------------------------
(* nss_dp_remove, which has no lock of its own, and nss_dp_exit *)

\* A port is unbound from the driver.
Unbind(p) ==
  /\ module = "loaded" /\ probing = 0 /\ removing = 0 /\ p \in bound
  /\ changes < MaxChanges /\ changes' = changes + 1
  /\ removing' = p /\ rpc' = "next"
  /\ UNCHANGED <<soc, moduleVars, bound, probing, ppc, netdev, hal, phy, late, nss_dp, dpc,
                 rport, irq, notifier, switchVars, slowproto_acl_bm, taskVars, astray,
                 faults>>

\* What the steps of a removal leave alone.
RemoveFrame ==
  UNCHANGED <<soc, hal_up, probing, ppc, late, dpc, removing, notifier, switchVars,
              slowproto_acl_bm, taskVars, astray, faults, changes>>

\* Mutant: the PHY stays connected.
RemoveNextKeepsPhy ==
  /\ rpc = "next"
  /\ \E p \in nss_dp : (\A q \in nss_dp : p <= q) /\ rport' = p
  /\ rpc' = "unregister"
  /\ RemoveFrame /\ UNCHANGED <<module, bound, netdev, hal, phy, nss_dp, irq>>

\* The next port in nss_dp[], whichever port is removed: phy_disconnect.
RemoveNext ==
  /\ rpc = "next"
  /\ \E p \in nss_dp :
       (\A q \in nss_dp : p <= q) /\ rport' = p /\ phy' = phy \ {p}
  /\ rpc' = "unregister"
  /\ RemoveFrame /\ UNCHANGED <<module, bound, netdev, hal, nss_dp, irq>>

\* unregister_netdev, between two events: it takes the rtnl lock.
RemoveUnregister ==
  /\ rpc = "unregister" /\ spc = "idle"
  /\ netdev' = [netdev EXCEPT ![rport] = "allocated"]
  /\ rpc' = "exit"
  /\ RemoveFrame /\ UNCHANGED <<module, bound, hal, phy, nss_dp, rport, irq>>

\* hal_ops->exit, which some MACs do not have: a call of NULL.
RemoveExit ==
  /\ rpc = "exit" /\ module # "oops"
  /\ IF soc.exit
       THEN hal' = hal \ {rport} /\ rpc' = "free" /\ UNCHANGED module
       ELSE module' = "oops" /\ UNCHANGED <<hal, rpc>>
  /\ RemoveFrame /\ UNCHANGED <<bound, netdev, phy, nss_dp, rport, irq>>

\* free_netdev: an interrupt handler that was registered for it is not freed.
RemoveFree ==
  /\ rpc = "free"
  /\ netdev' = [netdev EXCEPT ![rport] = "none"]
  /\ irq' = [irq EXCEPT ![rport] = IF @ = "own" THEN "orphan" ELSE @]
  /\ rpc' = "clear"
  /\ RemoveFrame /\ UNCHANGED <<module, bound, hal, phy, nss_dp, rport>>

\* Only now is the port taken out of nss_dp[].
RemoveClear ==
  /\ rpc = "clear"
  /\ nss_dp' = nss_dp \ {rport} /\ rport' = 0 /\ rpc' = "next"
  /\ RemoveFrame /\ UNCHANGED <<module, bound, netdev, hal, phy, irq>>

\* The port is unbound.
RemoveEnds ==
  /\ rpc = "next" /\ nss_dp = {}
  /\ bound' = bound \ {removing} /\ removing' = 0 /\ rpc' = "idle"
  /\ UNCHANGED <<soc, moduleVars, probing, ppc, netdev, hal, phy, late, nss_dp, dpc, rport,
                 irq, notifier, switchVars, slowproto_acl_bm, taskVars, astray, faults,
                 changes>>

HalCleanup == hal_up' = FALSE

\* nss_dp_exit: nss_dp_hal_cleanup first ...
ModuleExit ==
  /\ module = "loaded" /\ probing = 0 /\ removing = 0
  /\ \A p \in nss_dp : dpc[p] # -1
  /\ module' = "exiting" /\ HalCleanup
  /\ UNCHANGED <<soc, probeVars, switchVars, slowproto_acl_bm, taskVars, astray,
                 faults, changes>>

\* ... then platform_driver_unregister unbinds one port after the other.
UnbindAtExit(p) ==
  /\ module = "exiting" /\ removing = 0 /\ p \in bound
  /\ removing' = p /\ rpc' = "next"
  /\ UNCHANGED <<soc, moduleVars, bound, probing, ppc, netdev, hal, phy, late, nss_dp, dpc,
                 rport, irq, notifier, switchVars, slowproto_acl_bm, taskVars, astray,
                 faults, changes>>

Unloaded ==
  /\ module = "exiting" /\ bound = {}
  /\ module' = "gone"
  /\ UNCHANGED <<soc, hal_up, probeVars, switchVars, slowproto_acl_bm, taskVars,
                 astray, faults, changes>>

\* The notifier is never unregistered: an event of any bridge calls code that is
\* no longer there.
EventAfterExit ==
  /\ module = "gone" /\ notifier
  /\ module' = "oops"
  /\ UNCHANGED <<soc, hal_up, probeVars, switchVars, slowproto_acl_bm, taskVars,
                 astray, faults, changes>>

-----------------------------------------------------------------------------
(* The data plane context, and what belongs to it *)

\* nss_dp_open of a GMAC for the first time: syn_dp_if_init registers the handler,
\* unless napi_added is left from an earlier device of the port.
Open(p) ==
  /\ soc.start = 0 /\ module = "loaded"
  /\ netdev[p] = "registered" /\ dpc[p] = p - 1 /\ irq[p] = "none"
  /\ irq' = [irq EXCEPT ![p] = "own"]
  /\ UNCHANGED <<soc, moduleVars, bound, probing, ppc, netdev, hal, phy, late, nss_dp, dpc,
                 removing, rport, rpc, notifier, switchVars, slowproto_acl_bm, taskVars,
                 astray, faults, changes>>

\* nss_dp_override_data_plane: the device gets a context of the overlay driver, and
\* syn_dp_if_deinit frees the handler if it is of this device (IRQ_REQUESTED).
Override(p) ==
  /\ module = "loaded" /\ p \in nss_dp /\ netdev[p] # "none" /\ dpc[p] # -1
  /\ changes < MaxChanges /\ changes' = changes + 1
  /\ dpc' = [dpc EXCEPT ![p] = -1]
  /\ irq' = [irq EXCEPT ![p] = IF @ = "own" THEN "none" ELSE @]
  /\ UNCHANGED <<soc, moduleVars, bound, probing, ppc, netdev, hal, phy, late, nss_dp,
                 removing, rport, rpc, notifier, switchVars, slowproto_acl_bm, taskVars,
                 astray, faults>>

\* nss_dp_restore_data_plane: "macid - NSS_DP_START_IFNUM", where the probe has
\* "macid - 1".
Restore(p) ==
  /\ p \in nss_dp /\ netdev[p] # "none" /\ dpc[p] = -1
  /\ dpc' = [dpc EXCEPT ![p] = p - soc.start]
  /\ UNCHANGED <<soc, moduleVars, bound, probing, ppc, netdev, hal, phy, late, nss_dp,
                 exitVars, switchVars, slowproto_acl_bm, taskVars, astray, faults,
                 changes>>

-----------------------------------------------------------------------------
(* nss_dp_stp_state_set, on an event of the bridge *)

\* SWITCHDEV_ATTR_ID_PORT_STP_STATE for a net device of the driver.
SetStp(p, state) ==
  /\ module \in {"loaded", "exiting"} /\ notifier /\ netdev[p] = "registered" /\ spc = "idle"
  /\ sport' = p /\ sstate' = state /\ sundo' = FALSE
  /\ shad' = (p \in profiles) /\ sclean' = TRUE
  /\ spc' = CASE state = "disabled" -> "add"
              [] state = "forwarding" -> "del"
              [] OTHER -> "stp"
  /\ UNCHANGED <<soc, moduleVars, probeVars, switchVars, slowproto_acl_bm, astray,
                 faults, changes>>

\* nss_dp_set_slow_proto_filter returns.
FilterReturns == spc' = IF sundo THEN "idle" ELSE "stp"

\* A call for the filter has failed.
FilterFault ==
  /\ Fault /\ FilterReturns
  /\ astray' = astray \cup {sport} /\ sclean' = FALSE

\* filter_enable: the port gets the profile, and the first one sets the ethertype.
FilterAdd ==
  /\ spc = "add"
  /\ \/ /\ profiles' = profiles \cup {sport}
        /\ spc' = IF slowproto_acl_bm = {} THEN "ethtype" ELSE "mark"
        /\ UNCHANGED <<astray, sclean, faults>>
     \/ FilterFault /\ UNCHANGED profiles
  /\ UNCHANGED <<soc, moduleVars, probeVars, stp, ethtype, slowproto_acl_bm, sport,
                 sstate, sundo, shad, changes>>

\* When that fails the profile is deleted, which may fail as well.
FilterEthtype ==
  /\ spc = "ethtype"
  /\ \/ /\ ethtype' = TRUE /\ spc' = "mark"
        /\ UNCHANGED <<profiles, astray, sclean, faults>>
     \/ FilterFault /\ profiles' \in {profiles, profiles \ {sport}} /\ UNCHANGED ethtype
  /\ UNCHANGED <<soc, moduleVars, probeVars, stp, slowproto_acl_bm, sport, sstate,
                 sundo, shad, changes>>

\* "Add port to port bitmap"
FilterMark ==
  /\ spc = "mark"
  /\ slowproto_acl_bm' = slowproto_acl_bm \cup {sport}
  /\ FilterReturns
  /\ UNCHANGED <<soc, moduleVars, probeVars, switchVars, sport, sstate, sundo, shad,
                 sclean, astray, faults, changes>>

\* Not filter_enable: the port loses the profile; one that is not there may or
\* may not be an error.
FilterDel ==
  /\ spc = "del"
  /\ \/ /\ profiles' = profiles \ {sport} /\ spc' = "unmark"
        /\ UNCHANGED <<astray, sclean, faults>>
     \/ sport \in profiles /\ FilterFault /\ UNCHANGED profiles
     \/ /\ sport \notin profiles /\ FilterReturns
        /\ UNCHANGED <<profiles, astray, sclean, faults>>
  /\ UNCHANGED <<soc, moduleVars, probeVars, stp, ethtype, slowproto_acl_bm, sport,
                 sstate, sundo, shad, changes>>

\* Mutant: the ethertype is reset with every port.
FilterUnmarkResets ==
  /\ spc = "unmark"
  /\ slowproto_acl_bm' = slowproto_acl_bm \ {sport}
  /\ spc' = "reset"
  /\ UNCHANGED <<soc, moduleVars, probeVars, switchVars, sport, sstate, sundo, shad,
                 sclean, astray, faults, changes>>

\* "Delete port from port bitmap"
FilterUnmark ==
  /\ spc = "unmark"
  /\ slowproto_acl_bm' = slowproto_acl_bm \ {sport}
  /\ IF slowproto_acl_bm' = {} THEN spc' = "reset" ELSE FilterReturns
  /\ UNCHANGED <<soc, moduleVars, probeVars, switchVars, sport, sstate, sundo, shad,
                 sclean, astray, faults, changes>>

\* "we do not need the filter": the ethertype is reset, or not.
FilterReset ==
  /\ spc = "reset"
  /\ \/ ethtype' = FALSE /\ UNCHANGED faults
     \/ Fault /\ UNCHANGED ethtype
  /\ FilterReturns
  /\ UNCHANGED <<soc, moduleVars, probeVars, stp, profiles, slowproto_acl_bm, sport,
                 sstate, sundo, shad, sclean, astray, changes>>

\* fal_stp_port_state_set
StpSet ==
  /\ spc = "stp"
  /\ stp' = [stp EXCEPT ![sport] = sstate]
  /\ spc' = "idle"
  /\ astray' = IF sclean /\ sstate \notin OtherStates THEN astray \ {sport} ELSE astray
  /\ UNCHANGED <<soc, moduleVars, probeVars, profiles, ethtype, slowproto_acl_bm,
                 sport, sstate, sundo, shad, sclean, faults, changes>>

\* Mutant: the filter is not restored.
StpFailsKeepsFilter ==
  /\ spc = "stp" /\ Fault
  /\ spc' = "idle"
  /\ UNCHANGED <<soc, moduleVars, probeVars, switchVars, slowproto_acl_bm, sport,
                 sstate, sundo, shad, sclean, astray, changes>>

\* It fails: "Restore the slow proto filters", as if the port had not been in the
\* state that is set.
StpFails ==
  /\ spc = "stp" /\ Fault
  /\ spc' = CASE sstate = "disabled" -> "del"
              [] sstate = "forwarding" -> "add"
              [] OTHER -> "idle"
  /\ sundo' = TRUE
  /\ astray' = IF \/ sstate = "disabled" /\ shad
                  \/ sstate = "forwarding" /\ ~shad
                 THEN astray \cup {sport} ELSE astray
  /\ UNCHANGED <<soc, moduleVars, probeVars, switchVars, slowproto_acl_bm, sport,
                 sstate, shad, sclean, changes>>

SwitchStep ==
  \/ FilterAdd \/ FilterEthtype \/ FilterMark \/ FilterDel \/ FilterUnmark
  \/ FilterReset \/ StpSet \/ StpFails

RemoveStep ==
  \/ RemoveNext \/ RemoveUnregister \/ RemoveExit \/ RemoveFree \/ RemoveClear \/ RemoveEnds

Next ==
  \/ ModuleInit \/ ModuleExit \/ Unloaded \/ EventAfterExit
  \/ ProbePdata \/ ProbeInit \/ ProbeMdio \/ ProbePhy \/ ProbeRegister \/ ProbePublish
  \/ \E p \in Ports :
       \/ Probe(p) \/ Unbind(p) \/ UnbindAtExit(p) \/ Open(p) \/ Override(p) \/ Restore(p)
       \/ \E state \in StpStates : SetStp(p, state)
  \/ RemoveStep \/ SwitchStep

Spec == Init /\ [][Next]_vars

-----------------------------------------------------------------------------
(* Properties. *)

\* Types of the variables.
TypeOK ==
  /\ soc \in Socs
  /\ module \in {"none", "loaded", "exiting", "gone", "failed", "oops"}
  /\ hal_up \in BOOLEAN /\ ethtype \in BOOLEAN
  /\ probing \in {0} \cup Ports /\ ppc \in {"idle", "pdata", "init", "mdio", "phy", "vsi", "publish"}
  /\ (probing = 0) = (ppc = "idle")
  /\ removing \in {0} \cup Ports /\ rport \in {0} \cup Ports
  /\ rpc \in {"idle", "next", "unregister", "exit", "free", "clear"}
  /\ (removing = 0) = (rpc = "idle") /\ (rport = 0) = (rpc \in {"idle", "next"})
  /\ irq \in [Ports -> {"none", "own", "orphan"}] /\ notifier \in BOOLEAN
  /\ netdev \in [Ports -> {"none", "allocated", "registered"}]
  /\ dpc \in [Ports -> -1 .. MaxPorts]
  /\ stp \in [Ports -> {"unset"} \cup StpStates]
  /\ \A set \in {bound, hal, phy, late, nss_dp, profiles, slowproto_acl_bm, astray} :
       set \subseteq Ports
  /\ spc \in {"idle", "add", "ethtype", "mark", "del", "unmark", "reset", "stp"}
  /\ sport \in Ports /\ sstate \in StpStates /\ {sundo, shad, sclean} \subseteq BOOLEAN
  /\ faults \in 0 .. MaxFaults /\ changes \in 0 .. MaxChanges

\* The bitmap tells no more than what the switch does: every port in it has the
\* profile, and the ethertype is set for them, whichever calls have failed and
\* whenever a probe has cleared it.
BitmapBacked ==
  /\ slowproto_acl_bm \ (IF spc = "unmark" THEN {sport} ELSE {}) \subseteq profiles
  /\ slowproto_acl_bm # {} => ethtype

\* "Dynamic bond interfaces which are bridge slaves need to receive ethernet slow
\* protocol packets for LACP protocol even in STP disabled state": a port whose
\* state in the switch is disabled has the filter, and one that forwards has
\* not, also after a state was refused by the switch, in any order of events for
\* several ports.  Left out are ports that were in the bitmap when a probe
\* cleared it, whose filter calls have failed, or whose filter was changed by
\* the restoring of one that had not changed, until their state is set again.
FilterFollowsStp ==
  \A p \in Ports \ astray :
    spc = "idle" \/ sport # p =>
      /\ stp[p] = "disabled" => p \in profiles /\ p \in slowproto_acl_bm
      /\ stp[p] = "forwarding" => p \notin profiles

\* Two ports never share a data plane context, and each is one of the array,
\* whatever is overridden and given back, if the interfaces are numbered from 1.
ContextsAreOwn ==
  soc.start = 1 =>
    \A p \in Ports : dpc[p] # -1 =>
      dpc[p] \in 0 .. MaxPorts - 1 /\ \A q \in Ports \ {p} : dpc[q] # dpc[p]

\* What nss_dp[] shows to nss_dp_remove and to other drivers, which read it without
\* a lock (nss_dp_get_netdev_by_nss_if_num), is complete: a probe that fails
\* shows nothing, no net device is registered that is not shown or about to be,
\* and each port has a data plane context of its own.  The exception is the one
\* port that a removal has reached, which is shown until the end, at last with
\* its net device freed; a removal that crashes in a missing exit leaves it so.
PublishedIsComplete ==
  /\ TypeOK /\ ContextsAreOwn
  /\ \A p \in nss_dp \ {rport} :
       netdev[p] = "registered" /\ p \in hal /\ (p \in Polled => p \in phy)
  /\ \A p \in Ports : netdev[p] = "registered" => p \in nss_dp \/ p = probing
  /\ \A p \in nss_dp : netdev[p] = "none" => p = rport /\ rpc = "clear"

\* What a module that was unloaded leaves behind: the PHY of a port whose probe
\* failed after it was connected, whose callback stays; the switchdev notifier;
\* and on SoCs without EDMA the interrupt handler (with rings) of a port that was
\* opened, which belongs to a freed net device.  Nothing else.
UnloadedIsClean ==
  module = "gone" =>
    /\ ~hal_up /\ nss_dp = {} /\ hal = {} /\ phy \subseteq late
    /\ \A p \in Ports : netdev[p] = "none" /\ irq[p] # "own"
    /\ soc.start = 1 => \A p \in Ports : irq[p] = "none"
=============================================================================
