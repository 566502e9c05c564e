------------------------------ MODULE PortCfg -------------------------------
(***************************************************************************)
(* Settings of one port, and who is told of them: the MAC address and the  *)
(* MTU (net device, data plane in use, MAC registers), flow control and    *)
(* EEE of ethtool, while overlay drivers put their own data plane in place *)
(* of the driver's and give it back.                                       *)
(*                                                                         *)
(* The rtnl lock serialises settings, open and close.  The functions for   *)
(* overlay drivers take no lock; it is assumed that overlays call them     *)
(* with that lock held.  Transmitters, the receive path that steers flows, *)
(* the PHY state machine and readers of statistics do not take it.         *)
(***************************************************************************)
EXTENDS Integers, Sequences

CONSTANTS
  MacTypes,      \* enum gmac_device_type, a subset of "qcom", "xgmac", "gmac"
  Addrs,         \* MAC addresses: sequences of six bytes
  Mtus,
  Overlays,      \* overlay data planes ("none" stands for no data plane)
  Lacks,         \* operations that each of them leaves NULL
  Capabilities,  \* EEE modes that a PHY may be capable of
  EeeRequests,   \* modes that a user may ask for, in the terms of ethtool
  MaxFaults,     \* bound on the calls that fail
  MaxChanges,    \* bound on the settings that a user makes
  MaxSwaps       \* bound on the overrides and restores

Own == "own"     \* the driver's data plane, and its context for this port
Foreign == "foreign"  \* another of the contexts in dp_global_data_plane_ctx, or
                      \*   what follows the array
EthDataLen == 1500
Planes == {Own} \cup Overlays

\* Operations of struct nss_dp_data_plane_ops.
Operations == {"init", "open", "close", "link_state", "mac_addr", "change_mtu",
               "xmit", "set_features", "pause_on_off", "vsi_assign",
               "vsi_unassign", "rx_flow_steer", "get_stats", "deinit"}

\* Those that nss_dp_override_data_plane insists on.
Required == {"open", "close", "link_state", "mac_addr", "change_mtu", "xmit",
             "set_features", "pause_on_off", "deinit"}

\* EEE modes of the FAL, by speed, and the ethtool link modes that stand for them.
FalModes == {10, 100, 1000, 2500, 5000, 10000}
Unnamed == 5000
LinkMode == [m \in FalModes \ {Unnamed} |->
               CASE m = 10 -> "10baseT_Full"       [] m = 100 -> "100baseT_Full"
                 [] m = 1000 -> "1000baseT_Full"   [] m = 2500 -> "2500baseX_Full"
                 [] m = 10000 -> "10000baseT_Full"]

ASSUME PortCfgAssumption ==
  /\ MacTypes \subseteq {"qcom", "xgmac", "gmac"} /\ MacTypes # {}
  /\ Addrs \subseteq Seq(0 .. 255) /\ Addrs # {} /\ \A a \in Addrs : Len(a) = 6
  /\ Mtus \subseteq Nat /\ EthDataLen \in Mtus
  /\ Own \notin Overlays /\ Foreign \notin Overlays /\ "none" \notin Overlays
  /\ Lacks \in [Overlays -> SUBSET Operations]
  /\ \A c \in Capabilities : c \subseteq FalModes
  /\ MaxFaults \in Nat /\ MaxChanges \in Nat /\ MaxSwaps \in Nat

VARIABLES
  mactype,       \* type of the MAC
  phy,           \* a PHY is attached (phydev)
  netdev,        \* net device: dev_addr and mtu
  running,       \*   IFF_UP, kept by the network stack
  up,            \* __NSS_DP_UP
  init_done,     \* NSS_DP_PRIV_FLAG(INIT_DONE)
  ops,           \* data_plane_ops: those of this data plane
  dpc,           \* dpc: the context of this data plane, or Foreign
  swap,          \* override or restore: "none", or what is due next, "deinit" and
                 \*   "ops", or "own_ops" and "dpc"; and
  next,          \*   the data plane that comes in
  told,          \* address and MTU that each data plane was given
  opened,        \* the data plane in use was opened
  inited,        \* data planes initialised and not deinitialised
  carried,       \* INIT_DONE was left behind by another data plane
  regs,          \* MAC address registers, words of four bytes, highest first
  written,       \*   and whether the driver has written them
  pause,         \* pause: flags "rx", "tx"
  advertising,   \* advertising of the PHY: "Pause", "Asym_Pause", "speed"
  asked,         \* the flags were written after the advertising
  capability,    \* EEE configuration in the FAL: capability
  advertisement, \*   and advertisement
  call,          \* a call without the lock: its operation or "none", what it has
                 \*   loaded, whether a swap went on meanwhile, and whether it is
                 \*   the second of a pair
  oops,          \* operation called through a NULL pointer, "wild" for one that
                 \*   followed a context that is none, or "none"
  faults, changes, swaps

planeVars == <<ops, dpc, swap, next>>
stateVars == <<running, up, init_done, opened, inited, carried>>
macVars   == <<regs, written>>
ethVars   == <<pause, advertising, asked, capability, advertisement>>
vars == <<mactype, phy, netdev, stateVars, planeVars, told, macVars, ethVars,
          call, oops, faults, changes, swaps>>

NoAddr == <<>>
NoCall == [op |-> "none", ops |-> "none", dpc |-> "none", met |-> FALSE, again |-> FALSE]

\* After nss_dp_probe: the address of the device tree or a random one is in the
\* net device and nowhere else, both kinds of pause are advertised, and the PHY
\* offers EEE for all it is capable of.
Init ==
  /\ mactype \in MacTypes /\ phy \in BOOLEAN
  /\ netdev \in [addr : Addrs, mtu : {EthDataLen}]
  /\ running = FALSE /\ up = FALSE /\ init_done = FALSE
  /\ ops = Own /\ dpc = Own /\ swap = "none" /\ next = Own
  /\ told = [d \in Planes |-> [addr |-> NoAddr, mtu |-> 0]]
  /\ opened = FALSE /\ inited = {} /\ carried = FALSE
  /\ regs = <<<<0, 0, 0, 0>>, <<0, 0, 0, 0>>>> /\ written = FALSE
  /\ pause = {} /\ asked = FALSE
  /\ advertising = IF phy THEN {"Pause", "Asym_Pause", "speed"} ELSE {}
  /\ capability \in Capabilities /\ advertisement = capability
  /\ call = NoCall /\ oops = "none"
  /\ faults = 0 /\ changes = 0 /\ swaps = 0

-----------------------------------------------------------------------------
(* Calls of the data plane *)

\* The lock is free.
Idle == oops = "none" /\ swap = "none"

\* The VSI calls are in the builds for the SoCs with a PPE.
Ppe == mactype # "gmac"

\* Operations that the table of a data plane has not.
Missing(d) ==
  IF d # Own THEN Lacks[d]
  ELSE IF Ppe THEN {"get_stats"} ELSE {"vsi_assign", "vsi_unassign", "rx_flow_steer"}

\* Operations of the Synopsys data plane that follow the net device in the context.
Follow == {"init", "open", "close", "link_state", "xmit", "set_features", "get_stats",
           "deinit"}

\* What the driver's operations do not refuse, an overlay's may.
MayFail(op) ==
  op \in IF ops = Own THEN {"init", "vsi_assign", "vsi_unassign"}
                      ELSE Operations \ {"xmit", "set_features", "get_stats"}

Fails(op) ==
  /\ MayFail(op) /\ faults < MaxFaults
  /\ faults' = faults + 1 /\ UNCHANGED oops

\* What is found behind the array of contexts is no net device.
Wild(op) ==
  /\ dpc = Foreign /\ op \in Follow
  /\ oops' = "wild" /\ UNCHANGED faults

\* The first n of a sequence of calls succeed, and the next, if any, fails, goes
\* through a NULL pointer or follows a wild one.
Through(calls, n) ==
  /\ \A i \in 1 .. n : calls[i] \notin Missing(ops)
  /\ IF n = Len(calls) THEN UNCHANGED <<faults, oops>>
     ELSE IF calls[n + 1] \in Missing(ops)
     THEN oops' = calls[n + 1] /\ UNCHANGED faults
     ELSE Fails(calls[n + 1]) \/ Wild(calls[n + 1])

\* What each data plane knows once this port's has been told: with a context that
\* is not the port's own, nothing reaches it.
Telling(t) == IF dpc = Foreign THEN told ELSE [told EXCEPT ![ops] = t]

-----------------------------------------------------------------------------
(* nss_dp_open and nss_dp_close *)

OpenCalls ==
  (IF init_done THEN <<>> ELSE <<"init">>) \o <<"set_features">>
    \o (IF Ppe THEN <<"vsi_assign">> ELSE <<>>)
    \o <<"mac_addr", "change_mtu", "open">>
    \o (IF phy THEN <<>> ELSE <<"link_state">>)

CloseCalls ==
  <<"link_state">> \o (IF Ppe THEN <<"vsi_unassign">> ELSE <<>>) \o <<"close">>

\* Mutant: the data plane is not told the MTU that was set before.
OpenNoMtu(n) ==
  LET done == {OpenCalls[i] : i \in 1 .. n} IN
  /\ Through(OpenCalls, n)
  /\ init_done' = (init_done \/ "init" \in done)
  /\ inited' = inited \cup (IF "init" \in done /\ dpc # Foreign THEN {ops} ELSE {})
  /\ up' = (up \/ "set_features" \in done)
  /\ told' = Telling(
       [addr |-> IF "mac_addr" \in done THEN netdev.addr ELSE told[ops].addr,
        mtu |-> told[ops].mtu])
  /\ opened' = (opened \/ "open" \in done)

\* nss_dp_open, for the data plane in use.
Open(n) ==
  LET done == {OpenCalls[i] : i \in 1 .. n} IN
  /\ Through(OpenCalls, n)
  /\ init_done' = (init_done \/ "init" \in done)
  /\ inited' = inited \cup (IF "init" \in done /\ dpc # Foreign THEN {ops} ELSE {})
  /\ up' = (up \/ "set_features" \in done)
  /\ told' = Telling(
       [addr |-> IF "mac_addr" \in done THEN netdev.addr ELSE told[ops].addr,
        mtu |-> IF "change_mtu" \in done THEN netdev.mtu ELSE told[ops].mtu])
  /\ opened' = (opened \/ "open" \in done)

\* nss_dp_close: the flag stays set if a call fails.
Close(n) ==
  /\ Through(CloseCalls, n)
  /\ up' = (up /\ n < Len(CloseCalls))
  /\ opened' = (opened /\ n < Len(CloseCalls))

\* The network stack opens the device ...
DevOpen ==
  /\ Idle /\ ~running
  /\ \E n \in 0 .. Len(OpenCalls) :
       Open(n) /\ running' = (n = Len(OpenCalls))
  /\ UNCHANGED <<mactype, phy, netdev, carried, planeVars, macVars, ethVars,
                 call, changes, swaps>>

\* ... and closes it, whatever ndo_stop returns.
DevClose ==
  /\ Idle /\ running
  /\ \E n \in 0 .. Len(CloseCalls) : Close(n)
  /\ running' = FALSE
  /\ UNCHANGED <<mactype, phy, netdev, init_done, inited, carried, planeVars, told,
                 macVars, ethVars, call, changes, swaps>>

\* nss_dp_start_data_plane, by the overlay driver whose context is in use.
Start ==
  /\ Idle /\ dpc \in Overlays /\ ~up
  /\ \E n \in 0 .. Len(OpenCalls) : Open(n)
  /\ UNCHANGED <<mactype, phy, netdev, running, carried, planeVars, macVars, ethVars,
                 call, changes, swaps>>

-----------------------------------------------------------------------------
(* nss_dp_override_data_plane and nss_dp_restore_data_plane *)

\* A device that is up is stopped first; the result is not looked at.
StopIfUp ==
  IF up THEN \E n \in 0 .. Len(CloseCalls) : Close(n)
        ELSE UNCHANGED <<up, opened, oops, faults>>

MeetSwap == [call EXCEPT !.met = call.op # "none"]

\* An overlay driver overrides the data plane with one that has the operations
\* that are required.
Override(d) ==
  /\ Idle /\ swaps < MaxSwaps
  /\ d # ops /\ Lacks[d] \cap Required = {}
  /\ StopIfUp
  /\ swap' = "deinit" /\ next' = d
  /\ swaps' = swaps + 1
  /\ UNCHANGED <<mactype, phy, netdev, running, init_done, inited, carried, ops, dpc,
                 told, macVars, ethVars, call, changes>>

\* The data plane that goes out is deinitialised, with the context of the one
\* that comes in, which is assigned then.  If that fails, the one that was
\* stopped stays.
OverrideDeinit ==
  /\ oops = "none" /\ swap = "deinit"
  /\ \/ /\ init_done /\ Fails("deinit")
        /\ swap' = "none"
        /\ UNCHANGED <<init_done, inited, carried, dpc, call>>
     \/ /\ inited' = IF init_done THEN inited \ {ops} ELSE inited
        /\ init_done' = FALSE /\ carried' = FALSE
        /\ dpc' = next /\ swap' = "ops" /\ call' = MeetSwap
        /\ UNCHANGED <<faults, oops>>
  /\ UNCHANGED <<mactype, phy, netdev, running, up, opened, ops, next, told,
                 macVars, ethVars, changes, swaps>>

\* An overlay driver gives the device back.
Restore ==
  /\ Idle /\ swaps < MaxSwaps /\ dpc \in Overlays
  /\ StopIfUp
  /\ swap' = "own_ops" /\ next' = Own /\ swaps' = swaps + 1
  /\ UNCHANGED <<mactype, phy, netdev, running, init_done, inited, carried, ops, dpc,
                 told, macVars, ethVars, call, changes>>

\* Mutant: the context of the overlay stays.
RestoreOpsOnly ==
  /\ oops = "none" /\ swap = "own_ops"
  /\ ops' = Own /\ swap' = "none" /\ call' = MeetSwap
  /\ carried' = init_done /\ opened' = FALSE
  /\ UNCHANGED <<mactype, phy, netdev, running, up, init_done, inited, dpc, next, told,
                 macVars, ethVars, oops, faults, changes, swaps>>

\* The operations are the driver's again.  Nothing is deinitialised, and
\* INIT_DONE stays.
RestoreOps ==
  /\ oops = "none" /\ swap = "own_ops"
  /\ ops' = Own /\ swap' = "dpc" /\ call' = MeetSwap
  /\ carried' = init_done
  /\ UNCHANGED <<mactype, phy, netdev, running, up, init_done, opened, inited, dpc, next,
                 told, macVars, ethVars, oops, faults, changes, swaps>>

\* The context at macid - NSS_DP_START_IFNUM.  The probe took the one at macid - 1;
\* the SoC with Synopsys GMACs has NSS_DP_START_IFNUM 0.
RestoredContext == IF Ppe THEN Own ELSE Foreign

\* The last assignment of an override (the operations) or a restore (the
\* context).
SwapEnds ==
  /\ oops = "none" /\ swap \in {"ops", "dpc"}
  /\ ops' = next /\ swap' = "none"
  /\ dpc' = IF swap = "dpc" THEN RestoredContext ELSE dpc
  /\ opened' = FALSE /\ call' = MeetSwap
  /\ UNCHANGED <<mactype, phy, netdev, running, up, init_done, inited, carried, next,
                 told, macVars, ethVars, oops, faults, changes, swaps>>

-----------------------------------------------------------------------------
(* Calls without the rtnl lock: nss_dp_xmit, nss_dp_rx_flow_steer on the       *)
(* receive path, nss_dp_adjust_link of the PHY state machine, and              *)
(* nss_dp_get_stats64 and nss_dp_get_ethtool_stats, which reach the data plane *)
(* from a Synopsys GMAC.                                                       *)

LockFree == {"xmit", "rx_flow_steer", "link_state", "get_stats"}

\* When they are made.  Only flow steering looks first whether there is such an
\* operation.
MayCall(op) ==
  \/ op = "xmit" /\ running /\ opened
  \/ op = "rx_flow_steer" /\ running /\ op \notin Missing(ops)
  \/ op = "link_state" /\ phy /\ up
  \/ op = "get_stats" /\ ~Ppe

\* A call loads the operations or the context first, as the compiler likes ...
Loading(op, met, again) ==
  {[op |-> op, met |-> met, again |-> again,
    ops |-> IF first = "ops" THEN ops ELSE "none",
    dpc |-> IF first = "dpc" THEN dpc ELSE "none"] : first \in {"ops", "dpc"}}

CallBegins(op) ==
  /\ oops = "none" /\ call = NoCall
  /\ MayCall(op)
  /\ call' \in Loading(op, swap \in {"ops", "dpc"}, FALSE)
  /\ UNCHANGED <<mactype, phy, netdev, stateVars, planeVars, told, macVars, ethVars,
                 oops, faults, changes, swaps>>

\* ... and then the other.  Flow steering deletes the old rule and, unless that
\* fails, adds the new one, without another look.
CalledOps == IF call.ops = "none" THEN ops ELSE call.ops
PassedDpc == IF call.dpc = "none" THEN dpc ELSE call.dpc

CallEnds ==
  /\ oops = "none" /\ call # NoCall
  /\ \/ call.op \in Missing(CalledOps) /\ oops' = call.op /\ UNCHANGED call
     \/ call.op \notin Missing(CalledOps) /\ call' = NoCall /\ UNCHANGED oops
     \/ /\ call.op \notin Missing(CalledOps) /\ call.op = "rx_flow_steer" /\ ~call.again
        /\ call' \in Loading(call.op, call.met, TRUE) /\ UNCHANGED oops
     \/ /\ call.op \notin Missing(CalledOps) /\ call.op \in Follow /\ PassedDpc = Foreign
        /\ oops' = "wild" /\ UNCHANGED call
  /\ UNCHANGED <<mactype, phy, netdev, stateVars, planeVars, told, macVars, ethVars,
                 faults, changes, swaps>>

-----------------------------------------------------------------------------
(* Settings *)

Change == changes < MaxChanges /\ changes' = changes + 1

\* What setmacaddr writes to the two registers, and what getmacaddr makes of
\* them: Qualcomm MACs ...
QcomPacked(a) == <<<<0, 0, a[6], a[5]>>, <<a[1], a[2], a[3], a[4]>>>>
QcomUnpacked(r) == r[2] \o <<r[1][4], r[1][3]>>

\* ... and Synopsys MACs, with the highest bit of the first set.
SynPacked(a) == <<<<128, 0, a[6], a[5]>>, <<a[4], a[3], a[2], a[1]>>>>
SynUnpacked(r) == <<r[2][4], r[2][3], r[2][2], r[2][1], r[1][4], r[1][3]>>

Packed(a) == IF mactype = "qcom" THEN QcomPacked(a) ELSE SynPacked(a)
Unpacked(r) == IF mactype = "qcom" THEN QcomUnpacked(r) ELSE SynUnpacked(r)

\* The first six bytes of a struct sockaddr with this address: sa_family is
\* ARPHRD_ETHER, 1, on a little endian machine.
SockaddrBytes(a) == <<1, 0, a[1], a[2], a[3], a[4]>>

\* Mutant: the registers are written before the data plane is asked.
SetMacAddressHalFirst(a) ==
  /\ Idle /\ Change /\ ~running
  /\ regs' = Packed(a) /\ written' = TRUE
  /\ \/ Fails("mac_addr") /\ UNCHANGED <<netdev, told>>
     \/ /\ told' = Telling([told[ops] EXCEPT !.addr = SockaddrBytes(a)])
        /\ netdev' = [netdev EXCEPT !.addr = a]
        /\ UNCHANGED <<faults, oops>>
  /\ UNCHANGED <<mactype, phy, stateVars, planeVars, ethVars, call, swaps>>

\* nss_dp_set_mac_address: eth_prepare_mac_addr_change refuses it while the
\* device is running; the data plane is given the struct sockaddr.
SetMacAddress(a) ==
  /\ Idle /\ Change /\ ~running
  /\ \/ Fails("mac_addr") /\ UNCHANGED <<netdev, told, macVars>>
     \/ /\ told' = Telling([told[ops] EXCEPT !.addr = SockaddrBytes(a)])
        /\ netdev' = [netdev EXCEPT !.addr = a]
        /\ regs' = Packed(a) /\ written' = TRUE
        /\ UNCHANGED <<faults, oops>>
  /\ UNCHANGED <<mactype, phy, stateVars, planeVars, ethVars, call, swaps>>

\* nss_dp_change_mtu
ChangeMtu(m) ==
  /\ Idle /\ Change
  /\ \/ Fails("change_mtu") /\ UNCHANGED <<netdev, told>>
     \/ /\ told' = Telling([told[ops] EXCEPT !.mtu = m])
        /\ netdev' = [netdev EXCEPT !.mtu = m]
        /\ UNCHANGED <<faults, oops>>
  /\ UNCHANGED <<mactype, phy, stateVars, planeVars, macVars, ethVars, call, swaps>>

\* nss_dp_set_pauseparam
SetPauseparam(flags) ==
  /\ Idle /\ Change
  /\ pause' = flags /\ asked' = TRUE
  /\ advertising' =
       IF ~phy THEN advertising
       ELSE (advertising \ {"Pause", "Asym_Pause"})
              \cup (IF "rx" \in flags THEN {"Pause", "Asym_Pause"} ELSE {})
              \cup (IF "tx" \in flags THEN {"Asym_Pause"} ELSE {})
  /\ UNCHANGED <<mactype, phy, netdev, stateVars, planeVars, told, macVars, capability,
                 advertisement, call, oops, faults, swaps>>

\* phy_ethtool_set_link_ksettings advertises what the user asks for; without a
\* PHY it fails.
SetLinkKsettings(modes) ==
  /\ Idle /\ Change /\ phy
  /\ advertising' = modes /\ asked' = FALSE
  /\ UNCHANGED <<mactype, phy, netdev, stateVars, planeVars, told, macVars, pause,
                 capability, advertisement, call, oops, faults, swaps>>

\* nss_dp_fal_to_ethtool_linkmode_xlate: ethtool has no name for 5000.
LinkmodeXlate(modes) == {LinkMode[m] : m \in modes \ {Unnamed}}

\* The modes that the loop of nss_dp_set_eee collects.
FalModesOf(request) == {m \in FalModes \ {Unnamed} : LinkMode[m] \in request}

\* A mode that the PHY is not capable of, or that is not known, ends the loop.
Accepted(request) == request \subseteq LinkmodeXlate(capability)

\* nss_dp_set_eee: the current configuration is read, the request is compared
\* with it and written as a whole; reading or writing may fail.
SetEee(request) ==
  /\ Idle /\ Change
  /\ \/ Accepted(request) /\ advertisement' = FalModesOf(request) /\ UNCHANGED faults
     \/ ~Accepted(request) /\ UNCHANGED <<advertisement, faults>>
     \/ faults < MaxFaults /\ faults' = faults + 1 /\ UNCHANGED advertisement
  /\ UNCHANGED <<mactype, phy, netdev, stateVars, planeVars, told, macVars, pause,
                 advertising, asked, capability, call, oops, swaps>>

-----------------------------------------------------------------------------

Next ==
  \/ DevOpen \/ DevClose \/ Start
  \/ \E d \in Overlays : Override(d)
  \/ OverrideDeinit \/ Restore \/ RestoreOps \/ SwapEnds
  \/ \E op \in LockFree : CallBegins(op)
  \/ CallEnds
  \/ \E a \in Addrs : SetMacAddress(a)
  \/ \E m \in Mtus : ChangeMtu(m)
  \/ \E flags \in SUBSET {"rx", "tx"} : SetPauseparam(flags)
  \/ \E modes \in {{"speed"}, {"Pause", "Asym_Pause", "speed"}} : SetLinkKsettings(modes)
  \/ \E request \in EeeRequests : SetEee(request)

Spec == Init /\ [][Next]_vars

-----------------------------------------------------------------------------
(* Properties. *)

\* Types of the variables.
TypeOK ==
  /\ mactype \in MacTypes /\ phy \in BOOLEAN
  /\ netdev \in [addr : Addrs, mtu : Mtus]
  /\ {running, up, init_done, opened, carried, written, asked} \subseteq BOOLEAN
  /\ {ops, next} \subseteq Planes /\ dpc \in Planes \cup {Foreign} /\ inited \subseteq Planes
  /\ swap \in {"none", "deinit", "ops", "own_ops", "dpc"}
  /\ \A d \in Planes : told[d].mtu \in Mtus \cup {0}
  /\ pause \subseteq {"rx", "tx"} /\ advertising \subseteq {"Pause", "Asym_Pause", "speed"}
  /\ capability \in Capabilities /\ advertisement \subseteq capability
  /\ call.op \in LockFree \cup {"none"}
  /\ call.ops \in Planes \cup {"none"} /\ call.dpc \in Planes \cup {Foreign, "none"}
  /\ oops \in Operations \cup {"wild", "none"}
  /\ faults \in 0 .. MaxFaults /\ changes \in 0 .. MaxChanges /\ swaps \in 0 .. MaxSwaps

\* A running device whose data plane was opened agrees with it on the address
\* and on the MTU, whatever was changed or refused, and which data plane was put
\* in between.  (One that an overlay driver opened while the stack has it down
\* may have been given the bytes of a struct sockaddr for its address; and what a
\* port with a foreign context opens is not its own data plane.)
DataPlaneIsTold ==
  Idle /\ running /\ opened /\ dpc # Foreign => told[ops] = netdev

\* Once an address was set, getmacaddr reads the address of the net device from
\* the MAC, of whichever type, also after a data plane has refused one.
MacHoldsAddress ==
  written => Unpacked(regs) = netdev.addr

\* Every call of the data plane, with the lock or without, carries the context of
\* that data plane, but for the deinit by an override, which has the next one's,
\* for calls without the rtnl lock that meet an override or a restore, and, on
\* the SoC with Synopsys GMACs, for all calls from a restore to the next override.
CallsCarryOwnContext ==
  /\ Idle => ops = dpc \/ (ops = Own /\ dpc = Foreign)
  /\ call # NoCall => CalledOps = PassedDpc \/ call.met \/ PassedDpc = Foreign
  /\ Foreign \in {dpc, call.dpc} => mactype = "gmac"

\* A data plane is opened only when its init was called, unless INIT_DONE was
\* left by an overlay that gave the device back ("TODO: Re-initialize EDMA
\* dataplane"), or what is opened belongs to a foreign context.
OpenedIsInitialised ==
  Idle /\ opened /\ dpc # Foreign => ops \in inited \/ carried

\* "All the op functions must be present, reject this registeration": no missing
\* operation is called but those that the test leaves out although the driver
\* calls them, and flow steering that has met a swap after it looked.  A wild
\* pointer is followed only with the foreign context of a restore.
MissingOpsRejected ==
  \/ oops \in {"none", "init", "vsi_assign", "vsi_unassign", "get_stats"}
  \/ oops = "rx_flow_steer" /\ call.op = oops /\ call.met
  \/ oops = "wild" /\ Foreign \in {dpc, call.dpc}

\* The PHY advertises the flow control that nss_dp_get_pauseparam reports,
\* whatever was asked for before, until the advertised modes are set directly.
PauseAdvertised ==
  phy /\ asked =>
    /\ "Pause" \in advertising <=> "rx" \in pause
    /\ "Asym_Pause" \in advertising <=> pause # {}

\* A user who reads the EEE settings and writes them back, as the ethtool program
\* does to change one of them, is not refused and loses no mode but 5000, for
\* which ethtool has no name.
EeeRoundTrip ==
  LET request == LinkmodeXlate(advertisement) IN
  Accepted(request) /\ FalModesOf(request) = advertisement \ {Unnamed}

\* What the user has set is what the driver reports and what the hardware has:
\* the address, the flow control and the energy efficient modes.
SettingsReported == MacHoldsAddress /\ PauseAdvertised /\ EeeRoundTrip

\* The data plane that carries the traffic, whichever was put in by an override
\* or a restore, was initialised and has the address and the MTU of the device,
\* while the context in use is the port's own.
DataPlaneReady == DataPlaneIsTold /\ OpenedIsInitialised

\* The driver calls operations that exist, with the context they belong to, while
\* overlays come and go, and in the cases named above only does it not.
CallsAreSound == TypeOK /\ CallsCarryOwnContext /\ MissingOpsRejected
=============================================================================
