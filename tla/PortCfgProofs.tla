--------------------------- MODULE PortCfgProofs ----------------------------
(***************************************************************************)
(* Proofs about PortCfg: for any overlay data planes, whatever operations  *)
(* they lack or refuse, and any addresses, MTUs and modes, the data plane  *)
(* in use is ready, what the driver calls exists and gets its own context, *)
(* and the settings of the port are reported as they were made.            *)
(***************************************************************************)
EXTENDS PortCfg, SequenceTheorems, TLAPS

USE DEF planeVars, stateVars, macVars, ethVars

-----------------------------------------------------------------------------
(* The inductive invariant *)

\* Addresses that a data plane may have been given.
ToldAddrs == Addrs \cup {NoAddr} \cup {SockaddrBytes(a) : a \in Addrs}

\* States of a call without the lock.
Calls == [op : LockFree \cup {"none"}, ops : Planes \cup {"none"},
          dpc : Planes \cup {Foreign, "none"}, met : BOOLEAN, again : BOOLEAN]

\* The types, by the kind of the variables.
FlagTypes ==
  /\ phy \in BOOLEAN /\ running \in BOOLEAN /\ up \in BOOLEAN /\ init_done \in BOOLEAN
  /\ opened \in BOOLEAN /\ carried \in BOOLEAN /\ written \in BOOLEAN /\ asked \in BOOLEAN

ValueTypes ==
  /\ mactype \in MacTypes /\ netdev \in [addr : Addrs, mtu : Mtus]
  /\ inited \subseteq Planes
  /\ told \in [Planes -> [addr : ToldAddrs, mtu : Mtus \cup {0}]]

EthTypes ==
  /\ pause \subseteq {"rx", "tx"} /\ advertising \subseteq {"Pause", "Asym_Pause", "speed"}
  /\ capability \in Capabilities /\ advertisement \subseteq capability

CountTypes ==
  /\ faults \in 0 .. MaxFaults /\ changes \in 0 .. MaxChanges /\ swaps \in 0 .. MaxSwaps

\* A data plane that an override lets in.
Complete(d) == d \in Planes /\ Missing(d) \cap Required = {}

\* Operations and context belong to the same data plane but between the two
\* assignments of a swap, and after a restore on the SoC with Synopsys GMACs; and
\* all those in sight are complete.
PlaneInv ==
  /\ Complete(ops) /\ Complete(next) /\ (dpc = Foreign \/ Complete(dpc))
  /\ swap \in {"none", "deinit", "ops", "own_ops", "dpc"}
  /\ swap \in {"none", "deinit", "own_ops"} => ops = dpc \/ dpc = Foreign
  /\ dpc = Foreign => ~Ppe /\ ops = Own /\ swap \in {"none", "deinit"}
  /\ swap = "ops" => dpc = next
  /\ swap = "own_ops" => next = Own
  /\ swap = "dpc" => ops = Own /\ next = Own

\* A call that met no swap has loaded what is still there, and flow steering finds
\* the operation that it has looked for.
LoadedInv ==
  /\ call \in Calls
  /\ call.op = "none" => call = NoCall
  /\ call.ops # "none" => Complete(call.ops)
  /\ call.dpc = Foreign => ~Ppe
  /\ call.op # "none" /\ ~call.met =>
       /\ swap \in {"none", "deinit", "own_ops"}
       /\ call.ops \in {"none", ops} /\ call.dpc \in {"none", dpc}
       /\ call.op = "rx_flow_steer" => call.op \notin Missing(ops)

\* INIT_DONE stands for the data plane in use, or was carried over to it, or was
\* set with a foreign context; during an override it is taken back before the
\* next one comes in.
InitInv ==
  /\ init_done => ops \in inited \/ carried \/ dpc = Foreign
  /\ swap = "ops" => ~init_done
  /\ swap \in {"none", "deinit", "own_ops"} /\ opened =>
       ops \in inited \/ carried \/ dpc = Foreign

\* The data plane agrees with a running device also while an override is about
\* to deinitialise it, which may fail and leave it in place.
ToldInv ==
  swap \in {"none", "deinit"} /\ running /\ opened /\ dpc # Foreign => told[ops] = netdev

IInv ==
  /\ FlagTypes /\ ValueTypes /\ EthTypes /\ CountTypes
  /\ PlaneInv /\ LoadedInv /\ MissingOpsRejected /\ InitInv /\ ToldInv
  /\ MacHoldsAddress /\ PauseAdvertised

-----------------------------------------------------------------------------
(* The calls of nss_dp_open and nss_dp_close *)

OpenOps ==
  {"init", "set_features", "vsi_assign", "mac_addr", "change_mtu", "open", "link_state"}

CloseOps == {"link_state", "vsi_unassign", "close"}

\* A sequence of calls of nss_dp_open that has "open" at k and nowhere else,
\* after the address and the MTU.
OpensAt(s, k) ==
  /\ Len(s) \in Nat
  /\ s[k] = "open" /\ s[k - 1] = "change_mtu" /\ s[k - 2] = "mac_addr"
  /\ \A i \in 1 .. Len(s) : s[i] \in OpenOps
  /\ \A i \in 1 .. Len(s) : s[i] = "open" => i = k

\* The stretches of a sequence of five parts.
LEMMA Stretches ==
  ASSUME NEW p \in Nat, NEW q \in Nat, NEW r \in Nat, NEW i \in Int, NEW k \in Int,
         k = p + q + 4, 1 <= i, i <= k + r
  PROVE  \/ i \in 1 .. p
         \/ i = p + 1
         \/ i \in p + 2 .. p + 1 + q
         \/ i \in {k - 2, k - 1, k}
         \/ i \in k + 1 .. k + r
OBVIOUS

\* What is appended to what in nss_dp_open, with its optional calls, is in order.
LEMMA CallsInOrder ==
  ASSUME NEW a \in Seq({"init"}), NEW b \in Seq({"vsi_assign"}),
         NEW c \in Seq({"link_state"}), NEW s,
         s = a \o <<"set_features">> \o b \o <<"mac_addr", "change_mtu", "open">> \o c,
         NEW k, k = Len(a) + Len(b) + 4
  PROVE  /\ k \in 4 .. Len(s)
         /\ OpensAt(s, k)
         /\ Len(a) > 0 => s[1] = "init"
<1>1. Len(a) \in Nat /\ Len(b) \in Nat /\ Len(c) \in Nat
  OBVIOUS
<1>2. Len(s) = k + Len(c)
  OBVIOUS
<1>3. s[k] = "open" /\ s[k - 1] = "change_mtu" /\ s[k - 2] = "mac_addr"
  OBVIOUS
<1>4. ASSUME NEW i \in 1 .. Len(s) PROVE s[i] \in OpenOps /\ (s[i] = "open" => i = k)
  <2>1. CASE i \in 1 .. Len(a)
    <3>1. s[i] = a[i] /\ a[i] = "init"
      BY <1>1, <2>1
    <3> QED
      BY <3>1 DEF OpenOps
  <2>2. CASE i = Len(a) + 1
    <3>1. s[i] = "set_features"
      BY <1>1, <2>2
    <3> QED
      BY <3>1 DEF OpenOps
  <2>3. CASE i \in Len(a) + 2 .. Len(a) + 1 + Len(b)
    <3>1. i - Len(a) - 1 \in 1 .. Len(b)
      BY <1>1, <2>3
    <3>2. s[i] = b[i - Len(a) - 1] /\ b[i - Len(a) - 1] = "vsi_assign"
      BY <1>1, <3>1
    <3> QED
      BY <3>2 DEF OpenOps
  <2>4. CASE i \in {k - 2, k - 1, k}
    BY <1>1, <1>3, <2>4 DEF OpenOps
  <2>5. CASE i \in k + 1 .. k + Len(c)
    <3>1. i - k \in 1 .. Len(c)
      BY <1>1, <2>5
    <3>2. s[i] = c[i - k] /\ c[i - k] = "link_state"
      BY <1>1, <3>1
    <3> QED
      BY <3>2 DEF OpenOps
  <2>6. \/ i \in 1 .. Len(a)
        \/ i = Len(a) + 1
        \/ i \in Len(a) + 2 .. Len(a) + 1 + Len(b)
        \/ i \in {k - 2, k - 1, k}
        \/ i \in k + 1 .. k + Len(c)
    <3>1. i \in Int /\ 1 <= i /\ i <= k + Len(c)
      BY <1>1, <1>2
    <3>2. k \in Int /\ k = Len(a) + Len(b) + 4
      BY <1>1
    <3> QED
      BY <1>1, <3>1, <3>2, Stretches
  <2> QED
    BY ONLY <2>1, <2>2, <2>3, <2>4, <2>5, <2>6
<1>5. Len(a) > 0 => s[1] = "init"
  OBVIOUS
<1>6. k \in 4 .. Len(s) /\ Len(s) \in Nat
  <2>1. k \in Int /\ k = Len(a) + Len(b) + 4
    BY <1>1
  <2> QED
    BY ONLY <1>1, <1>2, <2>1, SMT
<1> QED
  BY ONLY <1>3, <1>4, <1>5, <1>6 DEF OpensAt

\* So are the calls of OpenCalls, with init first unless it was called before.
LEMMA OpenCallsFacts ==
  ASSUME FlagTypes
  PROVE  \E k \in 4 .. Len(OpenCalls) :
           OpensAt(OpenCalls, k) /\ (init_done \/ OpenCalls[1] = "init")
<1> DEFINE a == IF init_done THEN <<>> ELSE <<"init">>
           b == IF Ppe THEN <<"vsi_assign">> ELSE <<>>
           c == IF phy THEN <<>> ELSE <<"link_state">>
<1>1. a \in Seq({"init"})
  <2>1. <<>> \in Seq({"init"}) /\ <<"init">> \in Seq({"init"})
    OBVIOUS
  <2> QED
    BY <2>1, Zenon
<1>2. b \in Seq({"vsi_assign"})
  <2>1. <<>> \in Seq({"vsi_assign"}) /\ <<"vsi_assign">> \in Seq({"vsi_assign"})
    OBVIOUS
  <2> QED
    BY <2>1, Zenon
<1>3. c \in Seq({"link_state"})
  <2>1. <<>> \in Seq({"link_state"}) /\ <<"link_state">> \in Seq({"link_state"})
    OBVIOUS
  <2> QED
    BY <2>1, Zenon
<1>4. OpenCalls = a \o <<"set_features">> \o b \o <<"mac_addr", "change_mtu", "open">> \o c
  BY DEF OpenCalls
<1>5. init_done \/ Len(a) > 0
  BY DEF FlagTypes
<1> HIDE DEF a, b, c
<1> QED
  BY <1>1, <1>2, <1>3, <1>4, <1>5, CallsInOrder

\* Once the data plane is opened, it was given the address and the MTU, and was
\* initialised unless that was done before.
LEMMA OpenDone ==
  ASSUME FlagTypes, NEW n \in 0 .. Len(OpenCalls),
         NEW done, done = {OpenCalls[i] : i \in 1 .. n}
  PROVE  /\ n = Len(OpenCalls) => "open" \in done
         /\ "open" \in done => "mac_addr" \in done /\ "change_mtu" \in done
         /\ "open" \in done => init_done \/ "init" \in done
<1>1. PICK k \in 4 .. Len(OpenCalls) :
        OpensAt(OpenCalls, k) /\ (init_done \/ OpenCalls[1] = "init")
  BY OpenCallsFacts
<1>2. n = Len(OpenCalls) => "open" \in done
  <2>1. n = Len(OpenCalls) => k \in 1 .. n
    OBVIOUS
  <2> QED
    BY <1>1, <2>1 DEF OpensAt
<1>3. ASSUME "open" \in done
      PROVE  "mac_addr" \in done /\ "change_mtu" \in done /\ (init_done \/ "init" \in done)
  <2>1. PICK i \in 1 .. n : OpenCalls[i] = "open"
    BY <1>3
  <2>2. i = k
    BY <1>1, <2>1 DEF OpensAt
  <2>3. k - 2 \in 1 .. n /\ k - 1 \in 1 .. n /\ 1 \in 1 .. n
    BY <2>2
  <2> QED
    BY <1>1, <2>3 DEF OpensAt
<1> QED
  BY <1>2, <1>3

\* The operations that open and close call.
LEMMA OpenCallsType ==
  ASSUME FlagTypes
  PROVE  /\ Len(OpenCalls) \in Nat
         /\ \A i \in 1 .. Len(OpenCalls) : OpenCalls[i] \in OpenOps
BY OpenCallsFacts DEF OpensAt

LEMMA CloseCallsType ==
  /\ Len(CloseCalls) \in Nat
  /\ \A i \in 1 .. Len(CloseCalls) : CloseCalls[i] \in CloseOps
<1>1. CASE Ppe
  <2>1. Len(CloseCalls) = 3
    BY <1>1 DEF CloseCalls
  <2>2. /\ CloseCalls[1] = "link_state" /\ CloseCalls[2] = "vsi_unassign"
        /\ CloseCalls[3] = "close"
    BY <1>1 DEF CloseCalls
  <2> QED
    BY <2>1, <2>2 DEF CloseOps
<1>2. CASE ~Ppe
  <2>1. Len(CloseCalls) = 2
    BY <1>2 DEF CloseCalls
  <2>2. CloseCalls[1] = "link_state" /\ CloseCalls[2] = "close"
    BY <1>2 DEF CloseCalls
  <2> QED
    BY <2>1, <2>2 DEF CloseOps
<1> QED
  BY <1>1, <1>2

\* However far a sequence of calls to a complete data plane comes, a missing
\* operation that it ends at is one that an override does not look for.
Outcome ==
  /\ \/ oops' \in {"none", "init", "vsi_assign", "vsi_unassign", "get_stats"}
     \/ oops' = "wild" /\ dpc = Foreign
  /\ faults' \in 0 .. MaxFaults

LEMMA ThroughOutcome ==
  ASSUME CountTypes, oops = "none", Complete(ops), NEW calls, Len(calls) \in Nat,
         \A i \in 1 .. Len(calls) : calls[i] \in OpenOps \cup CloseOps,
         NEW n \in 0 .. Len(calls), Through(calls, n)
  PROVE  Outcome
<1>1. CASE n = Len(calls)
  BY <1>1 DEF Through, Outcome, CountTypes
<1>2. CASE n # Len(calls) /\ calls[n + 1] \in Missing(ops)
  <2>1. oops' = calls[n + 1] /\ faults' = faults
    BY <1>2 DEF Through
  <2>2. calls[n + 1] \in (OpenOps \cup CloseOps) \ Required
    BY <1>2 DEF Complete
  <2> QED
    BY <2>1, <2>2 DEF Outcome, CountTypes, OpenOps, CloseOps, Required
<1>3. CASE n # Len(calls) /\ calls[n + 1] \notin Missing(ops)
  <2>1. Fails(calls[n + 1]) \/ Wild(calls[n + 1])
    BY <1>3 DEF Through
  <2> QED
    BY <2>1, PortCfgAssumption DEF Fails, Wild, Outcome, CountTypes
<1> QED
  BY <1>1, <1>2, <1>3

\* After it a missing operation, if any, was called as MissingOpsRejected says.
LEMMA OutcomeFits ==
  ASSUME Outcome, dpc' = dpc
  PROVE  MissingOpsRejected' /\ faults' \in 0 .. MaxFaults
BY DEF Outcome, MissingOpsRejected

\* A net device is what a data plane was given when both parts are.
LEMMA NetdevParts ==
  ASSUME ValueTypes
  PROVE  netdev = [addr |-> netdev.addr, mtu |-> netdev.mtu]
BY DEF ValueTypes

\* What nss_dp_open leaves behind, complete or not.
LEMMA OpenFacts ==
  ASSUME FlagTypes, ValueTypes, ops \in Planes, NEW n \in 0 .. Len(OpenCalls), Open(n)
  PROVE  /\ up' \in BOOLEAN /\ opened' \in BOOLEAN /\ init_done' \in BOOLEAN
         /\ inited' \subseteq Planes /\ inited \subseteq inited'
         /\ told' \in [Planes -> [addr : ToldAddrs, mtu : Mtus \cup {0}]]
         /\ init_done' => init_done \/ ops \in inited' \/ dpc = Foreign
         /\ opened' => opened \/ told'[ops] = netdev \/ dpc = Foreign
         /\ opened' => opened \/ init_done'
         /\ n = Len(OpenCalls) => told'[ops] = netdev \/ dpc = Foreign
         /\ told[ops] = netdev => told'[ops] = netdev
<1> DEFINE D == {OpenCalls[i] : i \in 1 .. n}
           T == [addr |-> IF "mac_addr" \in D THEN netdev.addr ELSE told[ops].addr,
                 mtu |-> IF "change_mtu" \in D THEN netdev.mtu ELSE told[ops].mtu]
<1>1. init_done' = (init_done \/ "init" \in D)
  BY DEF Open
<1>2. inited' = inited \cup (IF "init" \in D /\ dpc # Foreign THEN {ops} ELSE {})
  BY DEF Open
<1>3. up' = (up \/ "set_features" \in D)
  BY DEF Open
<1>4. told' = IF dpc = Foreign THEN told ELSE [told EXCEPT ![ops] = T]
  BY DEF Open, Telling
<1>5. opened' = (opened \/ "open" \in D)
  BY DEF Open
<1>6. /\ n = Len(OpenCalls) => "open" \in D
      /\ "open" \in D => "mac_addr" \in D /\ "change_mtu" \in D
      /\ "open" \in D => init_done \/ "init" \in D
  BY OpenDone
<1>7. /\ "mac_addr" \in D /\ "change_mtu" \in D => T = netdev
      /\ told[ops] = netdev => T = netdev
      /\ T \in [addr : ToldAddrs, mtu : Mtus \cup {0}]
  <2> HIDE DEF D
  <2>1. netdev = [addr |-> netdev.addr, mtu |-> netdev.mtu]
    BY NetdevParts
  <2>2. netdev.addr \in ToldAddrs /\ netdev.mtu \in Mtus
    BY DEF ValueTypes, ToldAddrs
  <2>3. told[ops].addr \in ToldAddrs /\ told[ops].mtu \in Mtus \cup {0}
    BY DEF ValueTypes
  <2> QED
    BY <2>1, <2>2, <2>3
<1> HIDE DEF D, T
<1>8. /\ dpc # Foreign => told'[ops] = T
      /\ dpc = Foreign => told' = told
      /\ told' \in [Planes -> [addr : ToldAddrs, mtu : Mtus \cup {0}]]
  BY <1>4, <1>7 DEF ValueTypes
<1>9. up' \in BOOLEAN /\ opened' \in BOOLEAN /\ init_done' \in BOOLEAN
  BY <1>1, <1>3, <1>5, Zenon
<1>10. inited' \subseteq Planes /\ inited \subseteq inited'
  BY <1>2 DEF ValueTypes
<1>11. init_done' => init_done \/ ops \in inited' \/ dpc = Foreign
  BY <1>1, <1>2 DEF FlagTypes
<1>12. (opened' => opened \/ "open" \in D) /\ (opened' => opened \/ init_done')
  BY <1>1, <1>5, <1>6, Zenon DEF FlagTypes
<1> QED
  BY <1>6, <1>7, <1>8, <1>9, <1>10, <1>11, <1>12

\* What nss_dp_close leaves behind.
LEMMA CloseFacts ==
  ASSUME FlagTypes, NEW n \in 0 .. Len(CloseCalls), Close(n)
  PROVE  up' \in BOOLEAN /\ opened' \in BOOLEAN /\ (opened' => opened)
BY Zenon DEF Close, FlagTypes

\* And the stop of an override or a restore, which is left out if the device is
\* not up.
LEMMA StopFacts ==
  ASSUME FlagTypes, CountTypes, oops = "none", Complete(ops), StopIfUp
  PROVE  up' \in BOOLEAN /\ opened' \in BOOLEAN /\ (opened' => opened) /\ Outcome
<1>1. CASE up
  <2>1. PICK n \in 0 .. Len(CloseCalls) : Close(n)
    BY <1>1 DEF StopIfUp
  <2>2. Outcome
    BY <2>1, CloseCallsType, ThroughOutcome DEF Close
  <2> QED
    BY <2>1, <2>2, CloseFacts
<1>2. CASE ~up
  <2>1. up' = up /\ opened' = opened /\ oops' = oops /\ faults' = faults
    BY <1>2 DEF StopIfUp
  <2> QED
    BY <2>1 DEF FlagTypes, CountTypes, Outcome
<1> QED
  BY <1>1, <1>2

-----------------------------------------------------------------------------
(* The data plane and the calls *)

\* A port keeps its MAC.
LEMMA SameMac ==
  ASSUME Next
  PROVE  mactype' = mactype
BY DEF Next, DevOpen, DevClose, Start, Override, OverrideDeinit, Restore, RestoreOps,
       SwapEnds, CallBegins, CallEnds, SetMacAddress, ChangeMtu, SetPauseparam,
       SetLinkKsettings, SetEee

\* The driver's own data plane has all that an override insists on, and no foreign
\* context is that of a data plane.
LEMMA OwnComplete ==
  Complete(Own) /\ Foreign \notin Planes /\ "none" \notin Planes
BY PortCfgAssumption DEF Complete, Missing, Planes, Required, Own, Foreign

\* Each action keeps the operations and the context together.
LEMMA PlaneStep ==
  ASSUME IInv, Next
  PROVE  PlaneInv'
<1> USE SameMac, OwnComplete DEF IInv, PlaneInv, Complete, Missing, Ppe
<1>1. ASSUME UNCHANGED planeVars PROVE PlaneInv'
  BY <1>1
<1>2. ASSUME DevOpen \/ DevClose \/ Start PROVE UNCHANGED planeVars
  BY <1>2 DEF DevOpen, DevClose, Start
<1>3. ASSUME NEW d \in Overlays, Override(d) PROVE PlaneInv'
  BY <1>3, PortCfgAssumption DEF Override, Planes, Idle
<1>4. CASE OverrideDeinit
  BY <1>4 DEF OverrideDeinit
<1>5. CASE Restore
  BY <1>5 DEF Restore, Planes, Idle
<1>6. CASE RestoreOps
  BY <1>6 DEF RestoreOps, Planes
<1>7. CASE SwapEnds
  <2>1. CASE swap = "ops"
    BY <1>7, <2>1 DEF SwapEnds
  <2>2. CASE swap = "dpc"
    BY <1>7, <2>2 DEF SwapEnds, RestoredContext, Own, Foreign
  <2> QED
    BY <1>7, <2>1, <2>2 DEF SwapEnds
<1>8. ASSUME NEW op \in LockFree, CallBegins(op) PROVE UNCHANGED planeVars
  BY <1>8 DEF CallBegins
<1>9. ASSUME CallEnds PROVE UNCHANGED planeVars
  BY <1>9 DEF CallEnds
<1>10. ASSUME NEW a \in Addrs, SetMacAddress(a) PROVE UNCHANGED planeVars
  BY <1>10 DEF SetMacAddress
<1>11. ASSUME NEW m \in Mtus, ChangeMtu(m) PROVE UNCHANGED planeVars
  BY <1>11 DEF ChangeMtu
<1>12. ASSUME NEW flags \in SUBSET {"rx", "tx"}, SetPauseparam(flags)
       PROVE  UNCHANGED planeVars
  BY <1>12 DEF SetPauseparam
<1>13. ASSUME NEW modes, SetLinkKsettings(modes) PROVE UNCHANGED planeVars
  BY <1>13 DEF SetLinkKsettings
<1>14. ASSUME NEW request \in EeeRequests, SetEee(request) PROVE UNCHANGED planeVars
  BY <1>14 DEF SetEee
<1> QED
  BY <1>1, <1>2, <1>3, <1>4, <1>5, <1>6, <1>7, <1>8, <1>9, <1>10, <1>11, <1>12,
     <1>13, <1>14 DEF Next

\* A call that goes on during a swap keeps what it has loaded.
LEMMA MeetSwapFacts ==
  ASSUME LoadedInv, call' = MeetSwap
  PROVE  /\ call' \in Calls
         /\ call'.op = call.op /\ call'.ops = call.ops /\ call'.dpc = call.dpc
         /\ call'.op # "none" => call'.met
         /\ call'.op = "none" => call' = NoCall
<1>1. /\ call' \in Calls
      /\ call'.op = call.op /\ call'.ops = call.ops /\ call'.dpc = call.dpc
  <2>1. (call.op # "none") \in BOOLEAN
    BY Zenon
  <2> QED
    BY <2>1 DEF LoadedInv, MeetSwap, Calls
<1>2. call'.met = (call.op # "none")
  BY DEF LoadedInv, MeetSwap, Calls
<1>3. ASSUME call.op = "none" PROVE call' = NoCall
  <2>1. call = NoCall
    BY <1>3 DEF LoadedInv
  <2>2. (call.op # "none") = FALSE
    BY <1>3
  <2> QED
    BY <2>1, <2>2 DEF MeetSwap, NoCall
<1> QED
  BY <1>1, <1>2, <1>3

\* What a call that begins has loaded.
LEMMA LoadingFacts ==
  ASSUME PlaneInv, NEW op \in LockFree, NEW met \in BOOLEAN, NEW again \in BOOLEAN,
         call' \in Loading(op, met, again)
  PROVE  /\ call' \in Calls /\ call'.op = op /\ call'.met = met
         /\ call'.ops \in {"none", ops} /\ call'.dpc \in {"none", dpc}
<1>1. PICK first \in {"ops", "dpc"} :
        call' = [op |-> op, met |-> met, again |-> again,
                 ops |-> IF first = "ops" THEN ops ELSE "none",
                 dpc |-> IF first = "dpc" THEN dpc ELSE "none"]
  BY DEF Loading
<1> QED
  BY <1>1 DEF Calls, PlaneInv, Complete

\* Each action leaves a call that met no swap with what it has loaded.
LEMMA CallStep ==
  ASSUME IInv, Next
  PROVE  LoadedInv'
<1> USE SameMac DEF IInv, LoadedInv, PlaneInv, Complete, Missing, Ppe
<1>1. ASSUME UNCHANGED <<planeVars, call>> PROVE LoadedInv'
  BY <1>1 DEF LoadedInv
<1>2. ASSUME DevOpen \/ DevClose \/ Start PROVE UNCHANGED <<planeVars, call>>
  BY <1>2 DEF DevOpen, DevClose, Start
<1>3. ASSUME NEW d \in Overlays, Override(d) PROVE LoadedInv'
  BY <1>3 DEF Override, Idle, LoadedInv
<1>4. CASE OverrideDeinit
  <2>1. CASE call' = call /\ swap' = "none" /\ ops' = ops /\ dpc' = dpc
    BY <2>1 DEF LoadedInv
  <2>2. CASE call' = MeetSwap
    BY <2>2, MeetSwapFacts DEF LoadedInv
  <2> QED
    BY <1>4, <2>1, <2>2 DEF OverrideDeinit
<1>5. CASE Restore
  BY <1>5 DEF Restore, Idle, LoadedInv
<1>6. CASE RestoreOps
  BY <1>6, MeetSwapFacts DEF RestoreOps, LoadedInv
<1>7. CASE SwapEnds
  BY <1>7, MeetSwapFacts DEF SwapEnds, LoadedInv
<1>8. ASSUME NEW op \in LockFree, CallBegins(op) PROVE LoadedInv'
  <2>1. (swap \in {"ops", "dpc"}) \in BOOLEAN
    <3>1. CASE swap \in {"ops", "dpc"}
      BY <3>1
    <3>2. CASE swap \notin {"ops", "dpc"}
      BY <3>2
    <3> QED
      BY <3>1, <3>2
  <2>2. PICK met \in BOOLEAN :
          call' \in Loading(op, met, FALSE) /\ met = (swap \in {"ops", "dpc"})
    BY <1>8, <2>1 DEF CallBegins
  <2>3. /\ call' \in Calls /\ call'.op = op /\ call'.met = met
        /\ call'.ops \in {"none", ops} /\ call'.dpc \in {"none", dpc}
    BY <2>2, LoadingFacts
  <2>4. UNCHANGED planeVars /\ MayCall(op)
    BY <1>8 DEF CallBegins
  <2>5. op = "rx_flow_steer" => op \notin Missing(ops)
    BY <2>4 DEF MayCall
  <2>6. ~met => swap \in {"none", "deinit", "own_ops"}
    BY <2>2
  <2>7. call'.dpc = Foreign => ~Ppe
    BY <2>3 DEF Foreign
  <2>8. call'.op # "none"
    BY <2>3 DEF LockFree
  <2> QED
    BY <2>3, <2>4, <2>5, <2>6, <2>7, <2>8 DEF LoadedInv
<1>9. CASE CallEnds
  <2>1. UNCHANGED planeVars
    BY <1>9 DEF CallEnds
  <2>2. \/ call' = call
        \/ call' = NoCall
        \/ call' \in Loading(call.op, call.met, TRUE) /\ call.op = "rx_flow_steer"
    BY <1>9 DEF CallEnds
  <2>3. CASE call' = call
    BY <2>1, <2>3 DEF LoadedInv
  <2>4. CASE call' = NoCall
    <3>1. /\ NoCall \in Calls /\ NoCall.op = "none" /\ NoCall.ops = "none"
          /\ NoCall.dpc = "none"
      BY DEF NoCall, Calls
    <3> QED
      BY <2>4, <3>1 DEF LoadedInv, Foreign
  <2>5. CASE call' \in Loading(call.op, call.met, TRUE) /\ call.op = "rx_flow_steer"
    <3>1. call.op \in LockFree /\ call.met \in BOOLEAN
      BY <2>5 DEF LoadedInv, Calls, LockFree
    <3>2. /\ call' \in Calls /\ call'.op = call.op /\ call'.met = call.met
          /\ call'.ops \in {"none", ops} /\ call'.dpc \in {"none", dpc}
      BY <2>5, <3>1, LoadingFacts
    <3>3. call'.dpc = Foreign => ~Ppe
      BY <2>5, <3>2 DEF Foreign
    <3>4. ~call.met => swap \in {"none", "deinit", "own_ops"} /\ call.op \notin Missing(ops)
      BY <2>5 DEF LoadedInv
    <3> QED
      BY <2>1, <2>5, <3>2, <3>3, <3>4 DEF LoadedInv
  <2> QED
    BY <2>2, <2>3, <2>4, <2>5
<1>10. ASSUME NEW a \in Addrs, SetMacAddress(a) PROVE UNCHANGED <<planeVars, call>>
  BY <1>10 DEF SetMacAddress
<1>11. ASSUME NEW m \in Mtus, ChangeMtu(m) PROVE UNCHANGED <<planeVars, call>>
  BY <1>11 DEF ChangeMtu
<1>12. ASSUME NEW flags \in SUBSET {"rx", "tx"}, SetPauseparam(flags)
       PROVE  UNCHANGED <<planeVars, call>>
  BY <1>12 DEF SetPauseparam
<1>13. ASSUME NEW modes, SetLinkKsettings(modes) PROVE UNCHANGED <<planeVars, call>>
  BY <1>13 DEF SetLinkKsettings
<1>14. ASSUME NEW request \in EeeRequests, SetEee(request)
       PROVE  UNCHANGED <<planeVars, call>>
  BY <1>14 DEF SetEee
<1> QED
  BY <1>1, <1>2, <1>3, <1>4, <1>5, <1>6, <1>7, <1>8, <1>9, <1>10, <1>11, <1>12,
     <1>13, <1>14 DEF Next

\* Each action calls operations that are there, or one of those that an override
\* does not look for; and the counters stay in their bounds.
LEMMA OopsStep ==
  ASSUME IInv, Next
  PROVE  MissingOpsRejected' /\ CountTypes'
<1> USE PortCfgAssumption DEF IInv, PlaneInv
<1>0. oops = "none"
  BY DEF Next, DevOpen, DevClose, Start, Override, OverrideDeinit, Restore, RestoreOps,
         SwapEnds, CallBegins, CallEnds, SetMacAddress, ChangeMtu, SetPauseparam,
         SetLinkKsettings, SetEee, Idle
<1>1. ASSUME NEW op, Fails(op) PROVE MissingOpsRejected' /\ faults' \in 0 .. MaxFaults
  BY <1>0, <1>1 DEF Fails, MissingOpsRejected, CountTypes
<1>2. ASSUME UNCHANGED <<oops, faults>> PROVE MissingOpsRejected' /\ faults' \in 0 .. MaxFaults
  BY <1>0, <1>2 DEF MissingOpsRejected, CountTypes
<1>3. ASSUME Change PROVE changes' \in 0 .. MaxChanges
  BY <1>3 DEF Change, CountTypes
<1>4. ASSUME UNCHANGED changes PROVE changes' \in 0 .. MaxChanges
  BY <1>4 DEF CountTypes
<1>5. ASSUME UNCHANGED swaps PROVE swaps' \in 0 .. MaxSwaps
  BY <1>5 DEF CountTypes
<1>6. ASSUME DevOpen \/ Start PROVE MissingOpsRejected' /\ CountTypes'
  <2>1. PICK n \in 0 .. Len(OpenCalls) : Through(OpenCalls, n)
    BY <1>6 DEF DevOpen, Start, Open
  <2>2. MissingOpsRejected' /\ faults' \in 0 .. MaxFaults
    BY <1>0, <1>6, <2>1, OpenCallsType, ThroughOutcome, OutcomeFits DEF DevOpen, Start
  <2> QED
    BY <1>4, <1>5, <1>6, <2>2 DEF DevOpen, Start, CountTypes
<1>7. CASE DevClose
  <2>1. PICK n \in 0 .. Len(CloseCalls) : Through(CloseCalls, n)
    BY <1>7 DEF DevClose, Close
  <2>2. MissingOpsRejected' /\ faults' \in 0 .. MaxFaults
    BY <1>0, <1>7, <2>1, CloseCallsType, ThroughOutcome, OutcomeFits DEF DevClose
  <2> QED
    BY <1>4, <1>5, <1>7, <2>2 DEF DevClose, CountTypes
<1>8. ASSUME NEW d \in Overlays, Override(d) PROVE MissingOpsRejected' /\ CountTypes'
  <2>1. MissingOpsRejected' /\ faults' \in 0 .. MaxFaults
    BY <1>0, <1>8, StopFacts, OutcomeFits DEF Override
  <2> QED
    BY <1>8, <2>1 DEF Override, CountTypes
<1>9. CASE OverrideDeinit
  BY <1>1, <1>2, <1>4, <1>5, <1>9 DEF OverrideDeinit, CountTypes
<1>10. CASE Restore
  <2>1. MissingOpsRejected' /\ faults' \in 0 .. MaxFaults
    BY <1>0, <1>10, StopFacts, OutcomeFits DEF Restore
  <2> QED
    BY <1>10, <2>1 DEF Restore, CountTypes
<1>11. CASE RestoreOps \/ SwapEnds
  BY <1>2, <1>4, <1>5, <1>11 DEF RestoreOps, SwapEnds, CountTypes
<1>12. ASSUME NEW op \in LockFree, CallBegins(op) PROVE MissingOpsRejected' /\ CountTypes'
  BY <1>2, <1>4, <1>5, <1>12 DEF CallBegins, CountTypes
<1>13. CASE CallEnds
  <2>1. Complete(CalledOps) /\ call.op \in LockFree
    BY <1>13 DEF CallEnds, CalledOps, LoadedInv, Calls
  <2>2. call.op = "rx_flow_steer" /\ call.op \in Missing(CalledOps) => call.met
    BY <1>13, <2>1 DEF CalledOps, LoadedInv, LockFree
  <2>3. PassedDpc \in {dpc, call.dpc} /\ dpc' = dpc
    BY <1>13 DEF CallEnds, PassedDpc
  <2>4. \/ oops' = "none"
        \/ oops' = call.op /\ call.op \in Missing(CalledOps) /\ call' = call
        \/ oops' = "wild" /\ PassedDpc = Foreign /\ call' = call
    BY <1>0, <1>13 DEF CallEnds
  <2>5. MissingOpsRejected'
    BY <2>1, <2>2, <2>3, <2>4 DEF MissingOpsRejected, Complete, Required, LockFree
  <2> QED
    BY <1>13, <2>5 DEF CallEnds, CountTypes
<1>14. ASSUME NEW a \in Addrs, SetMacAddress(a) PROVE MissingOpsRejected' /\ CountTypes'
  BY <1>1, <1>2, <1>3, <1>5, <1>14 DEF SetMacAddress, CountTypes
<1>15. ASSUME NEW m \in Mtus, ChangeMtu(m) PROVE MissingOpsRejected' /\ CountTypes'
  BY <1>1, <1>2, <1>3, <1>5, <1>15 DEF ChangeMtu, CountTypes
<1>16. ASSUME NEW flags \in SUBSET {"rx", "tx"}, SetPauseparam(flags)
       PROVE  MissingOpsRejected' /\ CountTypes'
  BY <1>2, <1>3, <1>5, <1>16 DEF SetPauseparam, CountTypes
<1>17. ASSUME NEW modes, SetLinkKsettings(modes) PROVE MissingOpsRejected' /\ CountTypes'
  BY <1>2, <1>3, <1>5, <1>17 DEF SetLinkKsettings, CountTypes
<1>18. ASSUME NEW request \in EeeRequests, SetEee(request) PROVE MissingOpsRejected' /\ CountTypes'
  BY <1>0, <1>3, <1>5, <1>18 DEF SetEee, MissingOpsRejected, CountTypes
<1> QED
  BY <1>6, <1>7, <1>8, <1>9, <1>10, <1>11, <1>12, <1>13, <1>14, <1>15, <1>16, <1>17,
     <1>18 DEF Next

-----------------------------------------------------------------------------
(* The data plane in use *)

\* The steps by what they do to the data plane in use: it is opened, stopped,
\* swapped or left alone, and apart from that told of a setting.
StopStep ==
  \/ DevClose
  \/ \E d \in Overlays : Override(d)
  \/ Restore

SettingStep ==
  \/ \E op \in LockFree : CallBegins(op)
  \/ CallEnds
  \/ \E a \in Addrs : SetMacAddress(a)
  \/ \E m \in Mtus : ChangeMtu(m)
  \/ \E flags \in SUBSET {"rx", "tx"} : SetPauseparam(flags)
  \/ \E modes \in {{"speed"}, {"Pause", "Asym_Pause", "speed"}} : SetLinkKsettings(modes)
  \/ \E request \in EeeRequests : SetEee(request)

\* There are no other steps.
LEMMA Steps ==
  ASSUME Next
  PROVE  \/ DevOpen \/ Start \/ StopStep \/ SettingStep
         \/ OverrideDeinit \/ RestoreOps \/ SwapEnds
BY DEF Next, StopStep, SettingStep

\* A setting or a call leaves the data plane and its state alone.
LEMMA SettingFrame ==
  ASSUME SettingStep
  PROVE  UNCHANGED <<mactype, phy, stateVars, planeVars>>
<1> DEFINE Frame == UNCHANGED <<mactype, phy, stateVars, planeVars>>
<1>1. ASSUME NEW op, CallBegins(op) PROVE Frame
  BY <1>1 DEF CallBegins
<1>2. ASSUME CallEnds PROVE Frame
  BY <1>2 DEF CallEnds
<1>3. ASSUME NEW a, SetMacAddress(a) PROVE Frame
  BY <1>3 DEF SetMacAddress
<1>4. ASSUME NEW m, ChangeMtu(m) PROVE Frame
  BY <1>4 DEF ChangeMtu
<1>5. ASSUME NEW flags, SetPauseparam(flags) PROVE Frame
  BY <1>5 DEF SetPauseparam
<1>6. ASSUME NEW modes, SetLinkKsettings(modes) PROVE Frame
  BY <1>6 DEF SetLinkKsettings
<1>7. ASSUME NEW request, SetEee(request) PROVE Frame
  BY <1>7 DEF SetEee
<1>8. Frame
  <2> HIDE DEF Frame
  <2> QED
    BY <1>1, <1>2, <1>3, <1>4, <1>5, <1>6, <1>7 DEF SettingStep
<1> QED
  BY <1>8

\* What a close, or the stop of an override or a restore, leaves behind.
LEMMA StopStepFacts ==
  ASSUME IInv, StopStep
  PROVE  /\ running' \in BOOLEAN /\ (running' => running)
         /\ up' \in BOOLEAN /\ opened' \in BOOLEAN /\ (opened' => opened)
         /\ UNCHANGED <<mactype, phy, netdev, init_done, inited, carried, ops, dpc, told,
                        macVars, ethVars>>
         /\ swap = "none" /\ swap' \in {"none", "deinit", "own_ops"}
<1> USE DEF IInv
<1>1. CASE DevClose
  <2>1. PICK n \in 0 .. Len(CloseCalls) : Close(n)
    BY <1>1 DEF DevClose
  <2>2. up' \in BOOLEAN /\ opened' \in BOOLEAN /\ (opened' => opened)
    BY <2>1, CloseFacts
  <2> QED
    BY <1>1, <2>2 DEF DevClose, Idle
<1>2. ASSUME Restore \/ \E d \in Overlays : Override(d)
      PROVE  /\ StopIfUp /\ running' = running
             /\ UNCHANGED <<mactype, phy, netdev, init_done, inited, carried, ops, dpc,
                            told, macVars, ethVars>>
             /\ swap = "none" /\ swap' \in {"deinit", "own_ops"}
  BY <1>2 DEF Restore, Override, Idle
<1>3. ASSUME Restore \/ \E d \in Overlays : Override(d)
      PROVE  /\ running' \in BOOLEAN /\ up' \in BOOLEAN
             /\ opened' \in BOOLEAN /\ (opened' => opened)
  <2>1. running' = running
    BY <1>2, <1>3
  <2>2. running' \in BOOLEAN
    BY <2>1, Zenon DEF FlagTypes
  <2> QED
    BY <1>2, <1>3, <2>2, StopFacts DEF PlaneInv, Restore, Override, Idle
<1> QED
  BY <1>1, <1>2, <1>3 DEF StopStep

\* Each action keeps the flags flags.
LEMMA FlagStep ==
  ASSUME IInv, Next
  PROVE  FlagTypes'
<1> USE DEF IInv
<1>1. \/ UNCHANGED <<written, asked>>
      \/ written' = TRUE /\ UNCHANGED asked
      \/ asked' \in {TRUE, FALSE} /\ UNCHANGED written
  BY DEF Next, DevOpen, DevClose, Start, Override, OverrideDeinit, Restore, RestoreOps,
         SwapEnds, CallBegins, CallEnds, SetMacAddress, ChangeMtu, SetPauseparam,
         SetLinkKsettings, SetEee
<1>2. written' \in BOOLEAN /\ asked' \in BOOLEAN
  BY <1>1, Zenon DEF FlagTypes
<1> DEFINE Rest == /\ phy' \in BOOLEAN /\ running' \in BOOLEAN /\ up' \in BOOLEAN
                   /\ init_done' \in BOOLEAN /\ opened' \in BOOLEAN /\ carried' \in BOOLEAN
<1>3. ASSUME DevOpen \/ Start PROVE Rest
  <2>1. PICK n \in 0 .. Len(OpenCalls) :
          Open(n) /\ (running' = running \/ running' = (n = Len(OpenCalls)))
    BY <1>3 DEF DevOpen, Start
  <2>2. running' \in BOOLEAN
    BY <2>1, Zenon DEF FlagTypes
  <2>3. up' \in BOOLEAN /\ opened' \in BOOLEAN /\ init_done' \in BOOLEAN
    BY <2>1, OpenFacts DEF PlaneInv, Complete
  <2>4. phy' = phy /\ carried' = carried
    BY <1>3 DEF DevOpen, Start
  <2> QED
    BY <2>2, <2>3, <2>4, Zenon DEF FlagTypes
<1>4. ASSUME StopStep PROVE Rest
  <2>1. phy' = phy /\ carried' = carried /\ init_done' = init_done
    BY <1>4, StopStepFacts
  <2>2. running' \in BOOLEAN /\ up' \in BOOLEAN /\ opened' \in BOOLEAN
    BY <1>4, StopStepFacts
  <2> QED
    BY <2>1, <2>2, Zenon DEF FlagTypes
<1>5. ASSUME OverrideDeinit PROVE Rest
  <2>1. /\ phy' = phy /\ running' = running /\ up' = up /\ opened' = opened
        /\ init_done' \in {init_done, FALSE} /\ carried' \in {carried, FALSE}
    BY <1>5 DEF OverrideDeinit
  <2> QED
    BY <2>1, Zenon DEF FlagTypes
<1>6. ASSUME RestoreOps PROVE Rest
  <2>1. /\ phy' = phy /\ running' = running /\ up' = up /\ opened' = opened
        /\ init_done' = init_done /\ carried' = init_done
    BY <1>6 DEF RestoreOps
  <2> QED
    BY <2>1, Zenon DEF FlagTypes
<1>7. ASSUME SwapEnds PROVE Rest
  <2>1. /\ phy' = phy /\ running' = running /\ up' = up /\ opened' = FALSE
        /\ init_done' = init_done /\ carried' = carried
    BY <1>7 DEF SwapEnds
  <2> QED
    BY <2>1, Zenon DEF FlagTypes
<1>8. ASSUME SettingStep PROVE Rest
  <2>1. /\ phy' = phy /\ running' = running /\ up' = up /\ opened' = opened
        /\ init_done' = init_done /\ carried' = carried
    BY <1>8, SettingFrame
  <2> QED
    BY <2>1, Zenon DEF FlagTypes
<1>9. Rest
  <2> HIDE DEF Rest
  <2> QED
    BY <1>3, <1>4, <1>5, <1>6, <1>7, <1>8, Steps
<1> QED
  BY <1>2, <1>9, Zenon DEF FlagTypes

\* The net device and what the data planes were told, after a setting: the two are
\* given the same, an address only while the device is not running.
LEMMA SettingTold ==
  ASSUME IInv, SettingStep
  PROVE  /\ netdev' \in [addr : Addrs, mtu : Mtus]
         /\ told' \in [Planes -> [addr : ToldAddrs, mtu : Mtus \cup {0}]]
         /\ running /\ told[ops] = netdev /\ dpc # Foreign => told'[ops] = netdev'
<1> USE DEF IInv, ValueTypes, PlaneInv, Complete
<1> DEFINE Goal == /\ netdev' \in [addr : Addrs, mtu : Mtus]
                   /\ told' \in [Planes -> [addr : ToldAddrs, mtu : Mtus \cup {0}]]
                   /\ running /\ told[ops] = netdev /\ dpc # Foreign => told'[ops] = netdev'
<1>1. ASSUME UNCHANGED <<netdev, told>> PROVE Goal
  BY <1>1
<1>2. ASSUME NEW op, CallBegins(op) PROVE UNCHANGED <<netdev, told>>
  BY <1>2 DEF CallBegins
<1>3. ASSUME CallEnds PROVE UNCHANGED <<netdev, told>>
  BY <1>3 DEF CallEnds
<1>4. ASSUME NEW a \in Addrs, SetMacAddress(a) PROVE Goal
  <2>1. CASE UNCHANGED <<netdev, told>>
    BY <1>1, <2>1
  <2>2. CASE /\ told' = Telling([told[ops] EXCEPT !.addr = SockaddrBytes(a)])
             /\ netdev' = [netdev EXCEPT !.addr = a]
    <3>1. SockaddrBytes(a) \in ToldAddrs
      BY DEF ToldAddrs
    <3>2. ~running
      BY <1>4 DEF SetMacAddress
    <3> QED
      BY <2>2, <3>1, <3>2 DEF Telling
  <2> QED
    BY <1>4, <2>1, <2>2 DEF SetMacAddress
<1>5. ASSUME NEW m \in Mtus, ChangeMtu(m) PROVE Goal
  <2>1. CASE UNCHANGED <<netdev, told>>
    BY <1>1, <2>1
  <2>2. CASE /\ told' = Telling([told[ops] EXCEPT !.mtu = m])
             /\ netdev' = [netdev EXCEPT !.mtu = m]
    BY <2>2 DEF Telling
  <2> QED
    BY <1>5, <2>1, <2>2 DEF ChangeMtu
<1>6. ASSUME NEW flags, SetPauseparam(flags) PROVE UNCHANGED <<netdev, told>>
  BY <1>6 DEF SetPauseparam
<1>7. ASSUME NEW modes, SetLinkKsettings(modes) PROVE UNCHANGED <<netdev, told>>
  BY <1>7 DEF SetLinkKsettings
<1>8. ASSUME NEW request, SetEee(request) PROVE UNCHANGED <<netdev, told>>
  BY <1>8 DEF SetEee
<1>9. Goal
  <2> HIDE DEF Goal
  <2> QED
    BY <1>1, <1>2, <1>3, <1>4, <1>5, <1>6, <1>7, <1>8 DEF SettingStep
<1> QED
  BY <1>9

\* Each action keeps the types of the values.
LEMMA ValueStep ==
  ASSUME IInv, Next
  PROVE  ValueTypes'
<1> USE DEF IInv
<1>1. ASSUME DevOpen \/ Start PROVE ValueTypes'
  <2>1. PICK n \in 0 .. Len(OpenCalls) : Open(n)
    BY <1>1 DEF DevOpen, Start
  <2>2. /\ inited' \subseteq Planes
        /\ told' \in [Planes -> [addr : ToldAddrs, mtu : Mtus \cup {0}]]
    BY <2>1, OpenFacts DEF PlaneInv, Complete
  <2> QED
    BY <1>1, <2>2 DEF DevOpen, Start, ValueTypes
<1>2. ASSUME StopStep PROVE ValueTypes'
  BY <1>2, StopStepFacts DEF ValueTypes
<1>3. ASSUME OverrideDeinit \/ RestoreOps \/ SwapEnds PROVE ValueTypes'
  BY <1>3 DEF OverrideDeinit, RestoreOps, SwapEnds, ValueTypes
<1>4. ASSUME SettingStep PROVE ValueTypes'
  BY <1>4, SettingFrame, SettingTold DEF ValueTypes
<1> QED
  BY <1>1, <1>2, <1>3, <1>4, Steps

\* Each action leaves INIT_DONE and an opened data plane only where one was
\* initialised, or where a restore has carried the flag over.
LEMMA InitStep ==
  ASSUME IInv, Next
  PROVE  InitInv'
<1> USE DEF IInv, InitInv
<1>1. ASSUME DevOpen \/ Start PROVE InitInv'
  <2>1. PICK n \in 0 .. Len(OpenCalls) : Open(n)
    BY <1>1 DEF DevOpen, Start
  <2>2. /\ inited \subseteq inited'
        /\ init_done' => init_done \/ ops \in inited' \/ dpc = Foreign
        /\ opened' => opened \/ init_done'
    BY <2>1, OpenFacts DEF PlaneInv, Complete
  <2>3. UNCHANGED <<carried, ops, dpc, swap>> /\ swap = "none"
    BY <1>1 DEF DevOpen, Start, Idle
  <2> QED
    BY <2>2, <2>3
<1>2. ASSUME StopStep PROVE InitInv'
  BY <1>2, StopStepFacts
<1>3. ASSUME OverrideDeinit PROVE InitInv'
  BY <1>3 DEF OverrideDeinit
<1>4. ASSUME RestoreOps PROVE InitInv'
  BY <1>4 DEF RestoreOps
<1>5. ASSUME SwapEnds PROVE InitInv'
  BY <1>5 DEF SwapEnds, PlaneInv
<1>6. ASSUME SettingStep PROVE InitInv'
  BY <1>6, SettingFrame
<1> QED
  BY <1>1, <1>2, <1>3, <1>4, <1>5, <1>6, Steps

\* Each action keeps a running device and its data plane in agreement.
LEMMA ToldStep ==
  ASSUME IInv, Next
  PROVE  ToldInv'
<1> USE DEF IInv, ToldInv
<1>1. ASSUME DevOpen PROVE ToldInv'
  <2>1. PICK n \in 0 .. Len(OpenCalls) : Open(n) /\ running' = (n = Len(OpenCalls))
    BY <1>1 DEF DevOpen
  <2>2. n = Len(OpenCalls) => told'[ops] = netdev \/ dpc = Foreign
    BY <2>1, OpenFacts DEF PlaneInv, Complete
  <2> QED
    BY <1>1, <2>1, <2>2 DEF DevOpen
<1>2. ASSUME Start PROVE ToldInv'
  <2>1. PICK n \in 0 .. Len(OpenCalls) : Open(n)
    BY <1>2 DEF Start
  <2>2. /\ opened' => opened \/ told'[ops] = netdev \/ dpc = Foreign
        /\ told[ops] = netdev => told'[ops] = netdev
    BY <2>1, OpenFacts DEF PlaneInv, Complete
  <2> QED
    BY <1>2, <2>2 DEF Start, Idle
<1>3. ASSUME StopStep PROVE ToldInv'
  BY <1>3, StopStepFacts
<1>4. ASSUME OverrideDeinit PROVE ToldInv'
  BY <1>4 DEF OverrideDeinit
<1>5. ASSUME RestoreOps PROVE ToldInv'
  BY <1>5 DEF RestoreOps
<1>6. ASSUME SwapEnds PROVE ToldInv'
  BY <1>6 DEF SwapEnds
<1>7. ASSUME SettingStep PROVE ToldInv'
  BY <1>7, SettingFrame, SettingTold
<1> QED
  BY <1>1, <1>2, <1>3, <1>4, <1>5, <1>6, <1>7, Steps

-----------------------------------------------------------------------------
(* The settings *)

\* What a MAC of any type makes of the registers that it wrote is the address.
LEMMA UnpackedPacked ==
  ASSUME NEW a \in Addrs
  PROVE  Unpacked(Packed(a)) = a
<1>1. a \in Seq(0 .. 255) /\ Len(a) = 6
  BY PortCfgAssumption
<1>2. /\ a[1] \in 0 .. 255 /\ a[2] \in 0 .. 255 /\ a[3] \in 0 .. 255
      /\ a[4] \in 0 .. 255 /\ a[5] \in 0 .. 255 /\ a[6] \in 0 .. 255
  <2>1. \A i \in 1 .. 6 : a[i] \in 0 .. 255
    BY <1>1, ElementOfSeq
  <2> QED
    BY <2>1
<1>3. SynUnpacked(SynPacked(a)) = a
  <2> DEFINE b == SynUnpacked(SynPacked(a))
  <2>1. b = <<a[1], a[2], a[3], a[4], a[5], a[6]>>
    BY DEF SynPacked, SynUnpacked
  <2>2. b \in Seq(0 .. 255) /\ Len(b) = 6
    BY <1>2, <2>1
  <2>3. \A i \in 1 .. 6 : b[i] = a[i]
    BY <2>1
  <2> HIDE DEF b
  <2>4. b = a
    BY <1>1, <2>2, <2>3, SeqEqual
  <2> QED
    BY <2>4 DEF b
<1>4. QcomUnpacked(QcomPacked(a)) = a
  <2> DEFINE p == <<a[1], a[2], a[3], a[4]>>
             q == <<a[5], a[6]>>
  <2>1. QcomUnpacked(QcomPacked(a)) = p \o q
    BY DEF QcomPacked, QcomUnpacked
  <2>2. p \in Seq(0 .. 255) /\ q \in Seq(0 .. 255) /\ Len(p) = 4 /\ Len(q) = 2
    BY <1>2
  <2>3. /\ p \o q \in Seq(0 .. 255) /\ Len(p \o q) = 6
        /\ \A i \in 1 .. 6 : (p \o q)[i] = IF i <= 4 THEN p[i] ELSE q[i - 4]
    <3> HIDE DEF p, q
    <3>1. /\ p \o q \in Seq(0 .. 255) /\ Len(p \o q) = Len(p) + Len(q)
          /\ \A i \in 1 .. Len(p) + Len(q) :
               (p \o q)[i] = IF i <= Len(p) THEN p[i] ELSE q[i - Len(p)]
      BY <2>2, ConcatProperties, Zenon
    <3> QED
      BY <2>2, <3>1
  <2>4. \A i \in 1 .. 4 : p[i] = a[i]
    OBVIOUS
  <2>5. q[1] = a[5] /\ q[2] = a[6]
    OBVIOUS
  <2> HIDE DEF p, q
  <2>6. \A i \in 1 .. 6 : (p \o q)[i] = a[i]
    BY <2>3, <2>4, <2>5
  <2>7. p \o q = a
    BY <1>1, <2>3, <2>6, SeqEqual
  <2> QED
    BY <2>1, <2>7
<1> QED
  BY <1>3, <1>4 DEF Packed, Unpacked

\* Each action keeps the address in the MAC and that of the net device the same.
LEMMA MacStep ==
  ASSUME IInv, Next
  PROVE  MacHoldsAddress'
<1>1. ASSUME UNCHANGED <<mactype, netdev, macVars>> PROVE MacHoldsAddress'
  BY <1>1 DEF IInv, MacHoldsAddress, Unpacked
<1>2. \/ UNCHANGED <<mactype, netdev, macVars>>
      \/ \E a \in Addrs : SetMacAddress(a)
      \/ \E m \in Mtus : ChangeMtu(m)
  BY DEF Next, DevOpen, DevClose, Start, Override, OverrideDeinit, Restore, RestoreOps,
         SwapEnds, CallBegins, CallEnds, SetPauseparam, SetLinkKsettings, SetEee
<1>3. ASSUME NEW a \in Addrs, SetMacAddress(a) PROVE MacHoldsAddress'
  <2>1. CASE UNCHANGED <<netdev, macVars>>
    BY <1>1, <1>3, <2>1 DEF SetMacAddress
  <2>2. CASE netdev' = [netdev EXCEPT !.addr = a] /\ regs' = Packed(a)
    <3>1. netdev'.addr = a
      BY <2>2 DEF IInv, ValueTypes
    <3>2. mactype' = mactype
      BY <1>3 DEF SetMacAddress
    <3>3. Unpacked(regs)' = Unpacked(Packed(a))
      BY <2>2, <3>2 DEF Unpacked
    <3> QED
      BY <3>1, <3>3, UnpackedPacked DEF MacHoldsAddress
  <2> QED
    BY <1>3, <2>1, <2>2 DEF SetMacAddress
<1>4. ASSUME NEW m \in Mtus, ChangeMtu(m) PROVE MacHoldsAddress'
  <2>1. netdev'.addr = netdev.addr
    BY <1>4 DEF ChangeMtu, IInv, ValueTypes
  <2>2. UNCHANGED <<mactype, macVars>>
    BY <1>4 DEF ChangeMtu
  <2> QED
    BY <2>1, <2>2 DEF IInv, MacHoldsAddress, Unpacked
<1> QED
  BY <1>1, <1>2, <1>3, <1>4

\* Each action keeps the flow control that is advertised that of the flags.
LEMMA PauseStep ==
  ASSUME IInv, Next
  PROVE  PauseAdvertised'
<1>1. ASSUME UNCHANGED <<phy, asked, advertising, pause>> PROVE PauseAdvertised'
  BY <1>1 DEF IInv, PauseAdvertised
<1>2. \/ UNCHANGED <<phy, asked, advertising, pause>>
      \/ \E flags \in SUBSET {"rx", "tx"} : SetPauseparam(flags)
      \/ asked' = FALSE
  BY DEF Next, DevOpen, DevClose, Start, Override, OverrideDeinit, Restore, RestoreOps,
         SwapEnds, CallBegins, CallEnds, SetMacAddress, ChangeMtu, SetLinkKsettings, SetEee
<1>3. ASSUME NEW flags \in SUBSET {"rx", "tx"}, SetPauseparam(flags) PROVE PauseAdvertised'
  <2>1. phy' = phy /\ pause' = flags
    BY <1>3 DEF SetPauseparam
  <2>2. ASSUME phy
        PROVE  advertising' = (advertising \ {"Pause", "Asym_Pause"})
                 \cup (IF "rx" \in flags THEN {"Pause", "Asym_Pause"} ELSE {})
                 \cup (IF "tx" \in flags THEN {"Asym_Pause"} ELSE {})
    BY <1>3, <2>2 DEF SetPauseparam
  <2>3. flags # {} <=> "rx" \in flags \/ "tx" \in flags
    OBVIOUS
  <2> QED
    BY <2>1, <2>2, <2>3 DEF PauseAdvertised
<1>4. asked' = FALSE => PauseAdvertised'
  BY DEF PauseAdvertised
<1> QED
  BY <1>1, <1>2, <1>3, <1>4

\* The ethtool link modes of the EEE modes, which are all different.
LEMMA LinkModes ==
  /\ LinkMode[10] = "10baseT_Full" /\ LinkMode[100] = "100baseT_Full"
  /\ LinkMode[1000] = "1000baseT_Full" /\ LinkMode[2500] = "2500baseX_Full"
  /\ LinkMode[10000] = "10000baseT_Full"
<1> DEFINE Name(m) == CASE m = 10 -> "10baseT_Full"       [] m = 100 -> "100baseT_Full"
                        [] m = 1000 -> "1000baseT_Full"   [] m = 2500 -> "2500baseX_Full"
                        [] m = 10000 -> "10000baseT_Full"
<1>1. LinkMode = [m \in FalModes \ {Unnamed} |-> Name(m)]
  BY DEF LinkMode
<1>2. FalModes \ {Unnamed} = {10, 100, 1000, 2500, 10000}
  BY DEF FalModes, Unnamed
<1>3. Name(10) = "10baseT_Full"
  BY SMT
<1>4. Name(100) = "100baseT_Full"
  BY SMT
<1>5. Name(1000) = "1000baseT_Full"
  BY SMT
<1>6. Name(2500) = "2500baseX_Full"
  BY SMT
<1>7. Name(10000) = "10000baseT_Full"
  BY SMT
<1> HIDE DEF Name
<1> QED
  BY <1>1, <1>2, <1>3, <1>4, <1>5, <1>6, <1>7

\* Two EEE modes with the same link mode are the same.
LEMMA LinkModeInjective ==
  ASSUME NEW m \in FalModes \ {Unnamed}, NEW n \in FalModes \ {Unnamed},
         LinkMode[m] = LinkMode[n]
  PROVE  m = n
<1>1. m \in {10, 100, 1000, 2500, 10000} /\ n \in {10, 100, 1000, 2500, 10000}
  BY DEF FalModes, Unnamed
<1> QED
  BY <1>1, LinkModes

\* Modes that are translated to those of ethtool and back are the same, but for
\* the one that has no name.
LEMMA ModesBack ==
  ASSUME NEW modes \in SUBSET FalModes
  PROVE  FalModesOf(LinkmodeXlate(modes)) = modes \ {Unnamed}
<1>1. ASSUME NEW m \in FalModesOf(LinkmodeXlate(modes)) PROVE m \in modes \ {Unnamed}
  <2>1. m \in FalModes \ {Unnamed} /\ LinkMode[m] \in LinkmodeXlate(modes)
    BY DEF FalModesOf
  <2>2. PICK n \in modes \ {Unnamed} : LinkMode[m] = LinkMode[n]
    BY <2>1 DEF LinkmodeXlate
  <2>3. m = n
    BY <2>1, <2>2, LinkModeInjective
  <2> QED
    BY <2>3
<1>2. ASSUME NEW m \in modes \ {Unnamed} PROVE m \in FalModesOf(LinkmodeXlate(modes))
  BY DEF FalModesOf, LinkmodeXlate
<1> QED
  BY <1>1, <1>2

\* A request that is accepted asks for nothing that the PHY is not capable of.
LEMMA AcceptedModes ==
  ASSUME capability \subseteq FalModes, NEW request, Accepted(request)
  PROVE  FalModesOf(request) \subseteq capability
<1>1. FalModesOf(request) \subseteq FalModesOf(LinkmodeXlate(capability))
  BY DEF Accepted, FalModesOf
<1> QED
  BY <1>1, ModesBack

\* Each action keeps the types of what ethtool sets.
LEMMA EthStep ==
  ASSUME IInv, Next
  PROVE  EthTypes'
<1> USE DEF IInv, EthTypes
<1>1. \/ UNCHANGED ethVars
      \/ \E flags \in SUBSET {"rx", "tx"} : SetPauseparam(flags)
      \/ \E modes \in {{"speed"}, {"Pause", "Asym_Pause", "speed"}} : SetLinkKsettings(modes)
      \/ \E request \in EeeRequests : SetEee(request)
  BY DEF Next, DevOpen, DevClose, Start, Override, OverrideDeinit, Restore, RestoreOps,
         SwapEnds, CallBegins, CallEnds, SetMacAddress, ChangeMtu
<1>2. ASSUME UNCHANGED ethVars PROVE EthTypes'
  BY <1>2
<1>3. ASSUME NEW flags \in SUBSET {"rx", "tx"}, SetPauseparam(flags) PROVE EthTypes'
  BY <1>3 DEF SetPauseparam
<1>4. ASSUME NEW modes \in {{"speed"}, {"Pause", "Asym_Pause", "speed"}},
             SetLinkKsettings(modes)
      PROVE  EthTypes'
  BY <1>4 DEF SetLinkKsettings
<1>5. ASSUME NEW request \in EeeRequests, SetEee(request) PROVE EthTypes'
  <2>1. capability \subseteq FalModes
    BY PortCfgAssumption
  <2>2. advertisement' \subseteq capability
    BY <1>5, <2>1, AcceptedModes DEF SetEee
  <2> QED
    BY <1>5, <2>2 DEF SetEee
<1> QED
  BY <1>1, <1>2, <1>3, <1>4, <1>5

-----------------------------------------------------------------------------
(* The theorems *)

\* After nss_dp_probe the invariant holds.
LEMMA InitIInv == Init => IInv
<1> SUFFICES ASSUME Init PROVE IInv
  OBVIOUS
<1>1. FlagTypes
  <2>1. /\ phy \in BOOLEAN /\ running = FALSE /\ up = FALSE /\ init_done = FALSE
        /\ opened = FALSE /\ carried = FALSE /\ written = FALSE /\ asked = FALSE
    BY DEF Init
  <2> QED
    BY <2>1, Zenon DEF FlagTypes
<1>2. ValueTypes
  <2>1. told = [d \in Planes |-> [addr |-> NoAddr, mtu |-> 0]]
    BY DEF Init
  <2>2. told \in [Planes -> [addr : ToldAddrs, mtu : Mtus \cup {0}]]
    BY <2>1 DEF ToldAddrs
  <2> QED
    BY <2>2, PortCfgAssumption DEF Init, ValueTypes
<1>3. EthTypes /\ CountTypes
  BY PortCfgAssumption DEF Init, EthTypes, CountTypes
<1>4. PlaneInv
  BY OwnComplete DEF Init, PlaneInv, Own, Foreign
<1>5. LoadedInv
  <2>1. NoCall \in Calls /\ NoCall.op = "none" /\ NoCall.ops = "none" /\ NoCall.dpc = "none"
    BY DEF NoCall, Calls
  <2> QED
    BY <2>1 DEF Init, LoadedInv, Foreign
<1>6. MissingOpsRejected /\ InitInv /\ ToldInv
  BY DEF Init, MissingOpsRejected, InitInv, ToldInv
<1>7. MacHoldsAddress /\ PauseAdvertised
  BY DEF Init, MacHoldsAddress, PauseAdvertised
<1> QED
  BY <1>1, <1>2, <1>3, <1>4, <1>5, <1>6, <1>7 DEF IInv

\* A step that changes nothing keeps it.
LEMMA StutterIInv ==
  ASSUME IInv, UNCHANGED vars
  PROVE  IInv'
BY DEF vars, IInv, FlagTypes, ValueTypes, EthTypes, CountTypes, PlaneInv, Complete,
       Missing, Ppe, LoadedInv, MissingOpsRejected, InitInv, ToldInv,
       MacHoldsAddress,
       Unpacked, PauseAdvertised

\* The inductive invariant holds for any overlays, addresses, MTUs and modes.
THEOREM Invariance == Spec => []IInv
<1>1. IInv /\ [Next]_vars => IInv'
  <2>1. IInv /\ Next => IInv'
    BY FlagStep, ValueStep, EthStep, OopsStep, PlaneStep, CallStep, InitStep, ToldStep,
       MacStep, PauseStep DEF IInv
  <2> QED
    BY <2>1, StutterIInv
<1> QED
  BY <1>1, InitIInv, PTL DEF Spec

\* The parts of the types make up TypeOK.
LEMMA TypesHold ==
  ASSUME IInv
  PROVE  TypeOK
<1>1. {running, up, init_done, opened, carried, written, asked} \subseteq BOOLEAN
  BY Zenon DEF IInv, FlagTypes
<1>2. phy \in BOOLEAN
  BY DEF IInv, FlagTypes
<1>3. /\ mactype \in MacTypes /\ netdev \in [addr : Addrs, mtu : Mtus]
      /\ inited \subseteq Planes /\ \A d \in Planes : told[d].mtu \in Mtus \cup {0}
  BY DEF IInv, ValueTypes
<1>4. /\ {ops, next} \subseteq Planes /\ dpc \in Planes \cup {Foreign}
      /\ swap \in {"none", "deinit", "ops", "own_ops", "dpc"}
  BY DEF IInv, PlaneInv, Complete
<1>5. /\ call.op \in LockFree \cup {"none"}
      /\ call.ops \in Planes \cup {"none"} /\ call.dpc \in Planes \cup {Foreign, "none"}
  BY DEF IInv, LoadedInv, Calls
<1>6. oops \in Operations \cup {"wild", "none"}
  BY DEF IInv, MissingOpsRejected, Operations
<1> QED
  BY <1>1, <1>2, <1>3, <1>4, <1>5, <1>6 DEF IInv, EthTypes, CountTypes, TypeOK

\* nss_dp_override_data_plane and nss_dp_restore_data_plane, with any number of
\* overlays: the driver calls operations that exist with the context they belong
\* to, but for the operations that the override does not look for, the deinit by
\* an override, calls without the rtnl lock that meet a swap (flow steering is the
\* one that may then call an operation that is not there), and all calls of a
\* port with a Synopsys GMAC from a restore to the next override.
THEOREM SoundCalls == Spec => []CallsAreSound
<1>1. ASSUME IInv PROVE CallsCarryOwnContext
  <2>1. Idle => ops = dpc \/ (ops = Own /\ dpc = Foreign)
    BY <1>1 DEF IInv, PlaneInv, Idle
  <2>2. call # NoCall => CalledOps = PassedDpc \/ call.met \/ PassedDpc = Foreign
    BY <1>1 DEF IInv, PlaneInv, LoadedInv, CalledOps, PassedDpc
  <2>3. Foreign \in {dpc, call.dpc} => ~Ppe
    BY <1>1 DEF IInv, PlaneInv, LoadedInv
  <2> QED
    BY <2>1, <2>2, <2>3 DEF CallsCarryOwnContext, Ppe
<1>2. IInv => MissingOpsRejected
  BY DEF IInv
<1>3. IInv => CallsAreSound
  BY <1>1, <1>2, TypesHold DEF CallsAreSound
<1> QED
  BY <1>3, Invariance, PTL

\* nss_dp_open, nss_dp_change_mtu and the swaps: the data plane that carries the
\* traffic was initialised, or INIT_DONE was carried over to it, and has the
\* address and the MTU of a running device, whatever calls have failed, unless a
\* restore has left the port with a foreign context.
THEOREM ReadyDataPlane == Spec => []DataPlaneReady
<1>1. IInv => DataPlaneIsTold
  BY DEF IInv, ToldInv, DataPlaneIsTold, Idle
<1>2. IInv => OpenedIsInitialised
  BY DEF IInv, InitInv, OpenedIsInitialised, Idle
<1>3. IInv => DataPlaneReady
  BY <1>1, <1>2 DEF DataPlaneReady
<1> QED
  BY <1>3, Invariance, PTL

\* nss_dp_set_mac_address, nss_dp_set_pauseparam and nss_dp_set_eee: for any
\* addresses, capabilities and requests, what was set is what is read back, from
\* MACs of each type.
THEOREM ReportedSettings == Spec => []SettingsReported
<1>1. ASSUME IInv PROVE EeeRoundTrip
  <2>1. advertisement \subseteq capability /\ capability \subseteq FalModes
    BY <1>1, PortCfgAssumption DEF IInv, EthTypes
  <2>2. LinkmodeXlate(advertisement) \subseteq LinkmodeXlate(capability)
    BY <2>1 DEF LinkmodeXlate
  <2>3. FalModesOf(LinkmodeXlate(advertisement)) = advertisement \ {Unnamed}
    BY <2>1, ModesBack
  <2> QED
    BY <2>2, <2>3 DEF EeeRoundTrip, Accepted
<1>2. IInv => SettingsReported
  BY <1>1 DEF IInv, SettingsReported
<1> QED
  BY <1>2, Invariance, PTL
=============================================================================
