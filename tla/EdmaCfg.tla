------------------------------- MODULE EdmaCfg ------------------------------
(***************************************************************************)
(* Setup and release of the EDMA: edma_init with edma_hw_init, for any     *)
(* rings that the device tree gives to the driver, and edma_cleanup, with  *)
(* the failures on the way.  Between them the rings are in use: buffers    *)
(* move through the RXFILL and RXDESC rings, packets through the TXDESC    *)
(* and TXCMPL rings, as EdmaRx and EdmaTx say in detail.                   *)
(*                                                                         *)
(* The registers that map rings to rings are sets of bits.  A ring is      *)
(* named by its kind and its index in the array of the driver; its number  *)
(* in the hardware is the number of the first ring plus the index.         *)
(***************************************************************************)
EXTENDS Integers, FiniteSets

CONSTANTS
  Trees,     \* device trees: first ring and number of rings of each kind
  Bufs       \* Rx buffers and packets to send

Kinds == {"txdesc", "txcmpl", "rxfill", "rxdesc"}

Out == <<"out", 0>>

ASSUME CfgAssumption ==
  Trees \subseteq [Kinds -> [start : Nat, rings : Nat \ {0}]]

VARIABLES
  tree,        \* the device tree of this device
  pc,          \* edma_init, edma_hw_init, edma_cleanup: place in the code
  kind, idx,   \*   the ring that a loop is at
  desc_index,  \*   TXCMPL ring for the next TXDESC ring
  region,      \* the register region is requested
  mapped,      \*   and mapped (reg_base)
  arrays,      \* kinds whose array of rings is allocated
  mem,         \* rings that have descriptor memory
  base,        \* rings whose base address register is set
  enabled,     \* rings that are enabled
  txmap,       \* EDMA_REG_TXDESC2CMPL_MAP_0 .. 2
  rxmap,       \* EDMA_REG_RXDESC2FILL_MAP_0 .. 1
  port_en,     \* EDMA_PORT_EDMA_EN
  edma_initialized,
  where,       \* ring that a buffer is in, <<"hw", ring>> once the hardware has
               \*   taken it from there, or Out: no concern of the EDMA
  wild         \* history: accesses outside of what is allocated or mapped

unitVars == <<region, mapped, edma_initialized>>
ringVars == <<arrays, mem, base, enabled>>
mapVars  == <<txmap, rxmap>>
loopVars == <<kind, idx, desc_index>>
vars == <<tree, pc, loopVars, unitVars, ringVars, mapVars, port_en, where, wild>>

Start(k) == tree[k].start
Indices(k) == 0 .. tree[k].rings - 1
Rings(k) == {k} \X Indices(k)
AllRings == UNION {Rings(k) : k \in Kinds}

\* "Share the fill rings across descriptor rings."
RxfillOf(i) == i % tree["rxfill"].rings

\* edma_of_get_pdata has read the device tree.
Init ==
  /\ tree \in Trees
  /\ pc = "region" /\ kind = "txdesc" /\ idx = 0 /\ desc_index = 0
  /\ region = FALSE /\ mapped = FALSE /\ edma_initialized = FALSE
  /\ arrays = {} /\ mem = {} /\ base = {} /\ enabled = {}
  /\ txmap = [r \in 0 .. 2 |-> {}] /\ rxmap = [r \in 0 .. 1 |-> {}]
  /\ port_en = FALSE
  /\ where = [b \in Bufs |-> Out]
  /\ wild = {}

-----------------------------------------------------------------------------
(* edma_init *)

\* request_mem_region; when it fails, so does edma_init.
RequestRegion ==
  /\ pc = "region"
  /\ \/ region' = TRUE /\ pc' = "map"
     \/ region' = FALSE /\ pc' = "failed"
  /\ UNCHANGED <<tree, loopVars, mapped, edma_initialized, ringVars, mapVars,
                 port_en, where, wild>>

\* ioremap_nocache
MapRegisters ==
  /\ pc = "map"
  /\ \/ mapped' = TRUE /\ pc' = "reset" /\ UNCHANGED region
     \/ mapped' = FALSE /\ pc' = "failed" /\ region' = FALSE
  /\ UNCHANGED <<tree, loopVars, edma_initialized, ringVars, mapVars, port_en,
                 where, wild>>

\* Mutant: the region is not released.
HwInitFailsKeepsRegion ==
  /\ mapped' = FALSE /\ pc' = "failed"
  /\ UNCHANGED <<region, edma_initialized>>

\* edma_hw_init fails: "goto edma_init_hw_init_fail".
HwInitFails ==
  /\ mapped' = FALSE /\ region' = FALSE /\ pc' = "failed"
  /\ UNCHANGED edma_initialized

-----------------------------------------------------------------------------
(* edma_hw_init *)

\* edma_hw_reset, which fails without a reset line; then all interrupts and
\* rings are disabled and the map registers of the TXDESC rings cleared.
Reset ==
  /\ pc = "reset"
  /\ \/ /\ pc' = "txmap" /\ idx' = 0 /\ desc_index' = Start("txcmpl")
        /\ enabled' = {} /\ txmap' = [r \in 0 .. 2 |-> {}]
        /\ UNCHANGED unitVars
     \/ HwInitFails /\ UNCHANGED <<idx, desc_index, enabled, txmap>>
  /\ UNCHANGED <<tree, kind, arrays, mem, base, rxmap, port_en, where, wild>>

\* The bits of (n & 0x7) << ((i % 10) * 3).
Field(n, i) ==
  {b + (i % 10) * 3 : b \in {c \in 0 .. 2 : (n \div 2^c) % 2 = 1}}

\* Mutant: TXCMPL rings are used in turn without going back to the first.
MapTxdescNoWrap ==
  LET i == Start("txdesc") + idx
      reg == IF i <= 9 THEN 0 ELSE IF i <= 19 THEN 1 ELSE 2
  IN /\ pc = "txmap"
     /\ txmap' = [txmap EXCEPT ![reg] = @ \cup Field(desc_index, i)]
     /\ desc_index' = desc_index + 1
     /\ idx' = idx + 1
     /\ pc' = IF idx + 1 = tree["txdesc"].rings THEN "alloc" ELSE "txmap"
     /\ UNCHANGED <<tree, kind, unitVars, ringVars, rxmap, port_en, where, wild>>

\* "3 registers to hold the completion mapping for total 24 TX desc rings
\* (0-9,10-19 and rest)": the TXCMPL rings are used in turn.
MapTxdesc ==
  LET i == Start("txdesc") + idx
      reg == IF i <= 9 THEN 0 ELSE IF i <= 19 THEN 1 ELSE 2
      next == desc_index + 1
  IN /\ pc = "txmap"
     /\ txmap' = [txmap EXCEPT ![reg] = @ \cup Field(desc_index, i)]
     /\ desc_index' = IF next = Start("txcmpl") + tree["txcmpl"].rings
                        THEN Start("txcmpl") ELSE next
     /\ idx' = idx + 1
     /\ pc' = IF idx + 1 = tree["txdesc"].rings THEN "alloc" ELSE "txmap"
     /\ UNCHANGED <<tree, kind, unitVars, ringVars, rxmap, port_en, where, wild>>

\* edma_alloc_rings: all four arrays, or none when one cannot be allocated.
AllocRings ==
  /\ pc = "alloc"
  /\ \/ /\ arrays' = Kinds /\ pc' = "setup" /\ kind' = "txdesc" /\ idx' = 0
        /\ UNCHANGED unitVars
     \/ HwInitFails /\ UNCHANGED <<arrays, kind, idx>>
  /\ UNCHANGED <<tree, desc_index, mem, base, enabled, mapVars, port_en, where,
                 wild>>

\* Order in which edma_setup_ring_resources goes through the kinds.
NextKind == [txdesc |-> "txcmpl", txcmpl |-> "rxfill", rxfill |-> "rxdesc"]

\* Kinds set up before k.
Earlier(k) == CASE k = "txdesc" -> {}
                [] k = "txcmpl" -> {"txdesc"}
                [] k = "rxfill" -> {"txdesc", "txcmpl"}
                [] k = "rxdesc" -> {"txdesc", "txcmpl", "rxfill"}

\* edma_setup_..._ring_res of a ring of kind k.
SetupRingRes(k, i) == mem' = mem \cup {<<k, i>>}

\* One more ring gets its descriptors.
SetupRing ==
  /\ pc = "setup"
  /\ SetupRingRes(kind, idx)
  /\ IF idx + 1 < tree[kind].rings
       THEN idx' = idx + 1 /\ UNCHANGED <<pc, kind>>
       ELSE /\ idx' = 0
            /\ IF kind = "rxdesc" THEN pc' = "configure" /\ kind' = "txdesc"
                                  ELSE kind' = NextKind[kind] /\ UNCHANGED pc
  /\ UNCHANGED <<tree, desc_index, unitVars, arrays, base, enabled, mapVars,
                 port_en, where, wild>>

\* Mutant: the rings of the kinds set up before are kept.
UnwoundOneKind(k, i) == {<<k, j>> : j \in 0 .. i - 1}

\* Rings released when ring i of kind k cannot be set up: "while (i-- >= 0)"
\* for the TXDESC and TXCMPL rings, which goes on to index -1, "while (--i >= 0)"
\* for the others, and then all rings of the kinds before.
Unwound(k, i) ==
  {<<k, j>> : j \in (IF k \in {"txdesc", "txcmpl"} THEN -1 ELSE 0) .. i - 1}
    \cup UNION {Rings(e) : e \in Earlier(k)}

\* It cannot be allocated.  The arrays stay.
SetupRingFails ==
  /\ pc = "setup"
  /\ mem' = mem \ Unwound(kind, idx)
  /\ wild' = wild \cup (Unwound(kind, idx) \ mem)
  /\ HwInitFails
  /\ UNCHANGED <<tree, loopVars, arrays, base, enabled, mapVars, port_en, where>>

\* edma_configure_rings: base addresses, and as many buffers as can be allocated.
Configure ==
  /\ pc = "configure"
  /\ base' = mem
  /\ where' \in [Bufs -> {Out} \cup Rings("rxfill")]
  /\ rxmap' = [r \in 0 .. 1 |-> {}]
  /\ idx' = 0 /\ pc' = "rxmap"
  /\ UNCHANGED <<tree, kind, desc_index, unitVars, arrays, mem, enabled, txmap,
                 port_en, wild>>

\* Mutant: the index of the RXFILL ring is used for its number.
MapRxdescByIndex ==
  LET i == Start("rxdesc") + idx
      reg == IF i <= 9 THEN 0 ELSE 1
  IN /\ pc = "rxmap"
     /\ rxmap' = [rxmap EXCEPT ![reg] = @ \cup Field(RxfillOf(idx), i)]
     /\ idx' = idx + 1
     /\ pc' = IF idx + 1 = tree["rxdesc"].rings THEN "enable" ELSE "rxmap"
     /\ UNCHANGED <<tree, kind, desc_index, unitVars, ringVars, txmap, port_en,
                    where, wild>>

\* "3 bits holds the rx fill ring mapping for each of the rx descriptor ring."
MapRxdesc ==
  LET i == Start("rxdesc") + idx
      reg == IF i <= 9 THEN 0 ELSE 1
      id == Start("rxfill") + RxfillOf(idx)
  IN /\ pc = "rxmap"
     /\ rxmap' = [rxmap EXCEPT ![reg] = @ \cup Field(id, i)]
     /\ idx' = idx + 1
     /\ pc' = IF idx + 1 = tree["rxdesc"].rings THEN "enable" ELSE "rxmap"
     /\ UNCHANGED <<tree, kind, desc_index, unitVars, ringVars, txmap, port_en,
                    where, wild>>

\* The port and then the rings are enabled; edma_init returns.
Enable ==
  /\ pc = "enable"
  /\ port_en' = TRUE
  /\ enabled' = Rings("rxdesc") \cup Rings("rxfill") \cup Rings("txdesc")
  /\ edma_initialized' = TRUE
  /\ idx' = 0 /\ desc_index' = 0 /\ pc' = "running"
  /\ UNCHANGED <<tree, kind, region, mapped, arrays, mem, base, mapVars, where,
                 wild>>

-----------------------------------------------------------------------------
(* The rings in use *)

\* The ring number that a map register gives for ring number i.
Decode(regs, reg, i) ==
  LET Bit(c) == IF c + (i % 10) * 3 \in regs[reg] THEN 2^c ELSE 0
  IN Bit(0) + Bit(1) + Bit(2)

TxcmplOf(i) ==
  LET n == Start("txdesc") + i
  IN Decode(txmap, IF n <= 9 THEN 0 ELSE IF n <= 19 THEN 1 ELSE 2, n)

RxfillIdOf(i) ==
  LET n == Start("rxdesc") + i
  IN Decode(rxmap, IF n <= 9 THEN 0 ELSE 1, n)

Move(b, to) ==
  /\ where' = [where EXCEPT ![b] = to]
  /\ UNCHANGED <<tree, pc, loopVars, unitVars, ringVars, mapVars, port_en, wild>>

\* The driver posts an Rx buffer, takes one with a packet, queues a packet or
\* releases one that was sent.
DriverStep(b) ==
  /\ pc = "running"
  /\ \/ where[b] = Out /\ \E r \in Rings("rxfill") \cup Rings("txdesc") : Move(b, r)
     \/ where[b] \in Rings("rxdesc") \cup Rings("txcmpl") /\ Move(b, Out)

\* The hardware takes a buffer of an enabled ring ...
HwTake(b) ==
  /\ where[b] \in enabled \cap (Rings("rxfill") \cup Rings("txdesc"))
  /\ Move(b, <<"hw", where[b]>>)

\* ... and reports it in a ring that the map registers give for it, an RXDESC
\* ring only while it is enabled.
HwReport(b) ==
  \E r \in AllRings :
    /\ \/ /\ r \in Rings("rxdesc") \cap enabled
          /\ where[b] \in {<<"hw", <<"rxfill", RxfillIdOf(r[2]) - Start("rxfill")>> >>}
       \/ /\ r \in Rings("txcmpl") /\ pc # "cleaned"
          /\ \E i \in Indices("txdesc") :
               /\ where[b] = <<"hw", <<"txdesc", i>> >>
               /\ Start("txcmpl") + r[2] = TxcmplOf(i)
               /\ <<"txdesc", i>> \in enabled
    /\ Move(b, r)

-----------------------------------------------------------------------------
(* edma_cleanup, once no device uses the rings *)

\* It is called by the last override or by the exit of the module (exit); the
\* RXDESC rings are disabled first.
CleanupBegin(exit) ==
  /\ pc = "running"
  /\ enabled' = enabled \ Rings("rxdesc")
  /\ pc' = "disable_tx" /\ idx' = IF exit THEN 1 ELSE 0
  /\ UNCHANGED <<tree, kind, desc_index, unitVars, arrays, mem, base, mapVars,
                 port_en, where, wild>>

DisableTx ==
  /\ pc = "disable_tx"
  /\ enabled' = enabled \ Rings("txdesc")
  /\ pc' = "disable_fill"
  /\ UNCHANGED <<tree, loopVars, unitVars, arrays, mem, base, mapVars, port_en,
                 where, wild>>

\* Mutant: the RXFILL rings stay enabled.
DisableFillNot ==
  /\ pc = "disable_fill"
  /\ port_en' = IF idx = 1 THEN FALSE ELSE port_en
  /\ pc' = "clean" /\ kind' = "txdesc"
  /\ UNCHANGED <<tree, idx, desc_index, unitVars, ringVars, mapVars, where, wild>>

\* Then the interrupts are masked and the handlers and NAPI removed.  "Disable
\* EDMA only at module exit time, since NSS firmware depends on this setting."
DisableFill ==
  /\ pc = "disable_fill"
  /\ enabled' = enabled \ Rings("rxfill")
  /\ port_en' = IF idx = 1 THEN FALSE ELSE port_en
  /\ pc' = "clean" /\ kind' = "txdesc"
  /\ UNCHANGED <<tree, idx, desc_index, unitVars, arrays, mem, base, mapVars,
                 where, wild>>

InRings(k) == {b \in Bufs : where[b] \in Rings(k)}

FreeBuffers(k) ==
  /\ where' = [b \in Bufs |-> IF b \in InRings(k) THEN Out ELSE where[b]]
  /\ UNCHANGED wild

\* Packets left in a TXDESC ring.
Left(i) == {b \in Bufs : where[b] = <<"txdesc", i>>}

Even(n) == n % 2 = 0

StrayAccess == <<"tx_skb_store", 0>>

(* The walk through a TXDESC ring takes the index into tx_skb_store from the *)
(* DMA address in a descriptor: for a packet left there it clears, unmaps    *)
(* and frees what it finds beyond the store, and the packet stays.  The      *)
(* consumer index goes on by two and meets the producer index only when the  *)
(* number of packets is even.  The walk may end in every ring ...            *)
CleanTxdesc ==
  /\ \A i \in Indices("txdesc") : Even(Cardinality(Left(i)))
  /\ wild' = wild \cup {StrayAccess : b \in InRings("txdesc")}
  /\ UNCHANGED where

\* ... or, for a ring with packets, not at all: it goes round for ever, or what
\* it finds in the place of an skb stops the kernel.
CleanTxdescStuck ==
  /\ pc = "clean" /\ kind = "txdesc"
  /\ \E i \in Indices("txdesc") :
       /\ Left(i) # {} /\ \A j \in 0 .. i - 1 : Even(Cardinality(Left(j)))
       /\ mem' = mem \ {<<"txdesc", j>> : j \in 0 .. i - 1}
  /\ wild' = wild \cup {StrayAccess}
  /\ pc' = "stuck"
  /\ UNCHANGED <<tree, loopVars, unitVars, arrays, base, enabled, mapVars,
                 port_en, where>>

\* edma_clean_tx releases the packets that were reported.
CleanTxcmpl == FreeBuffers("txcmpl")

\* From the consumer index to the producer index of the hardware.
CleanRxfill == FreeBuffers("rxfill")

\* Mutant: the buffers of the RXDESC rings are not released.
CleanRxdescNot == UNCHANGED <<where, wild>>

CleanRxdesc == FreeBuffers("rxdesc")

\* edma_cleanup_rings, one kind after the other: the buffers of the rings and
\* then their descriptors.
CleanRings ==
  /\ pc = "clean"
  /\ \/ kind = "txdesc" /\ CleanTxdesc
     \/ kind = "txcmpl" /\ CleanTxcmpl
     \/ kind = "rxfill" /\ CleanRxfill
     \/ kind = "rxdesc" /\ CleanRxdesc
  /\ mem' = mem \ Rings(kind)
  /\ IF kind = "rxdesc" THEN pc' = "unmap" /\ UNCHANGED kind
                        ELSE kind' = NextKind[kind] /\ UNCHANGED pc
  /\ UNCHANGED <<tree, idx, desc_index, unitVars, arrays, base, enabled, mapVars,
                 port_en>>

\* edma_free_rings, iounmap, release_mem_region: "Mark initialize false, so that
\* we do not try to cleanup again".
CleanupEnd ==
  /\ pc = "unmap"
  /\ arrays' = {} /\ mapped' = FALSE /\ region' = FALSE
  /\ edma_initialized' = FALSE
  /\ pc' = "cleaned"
  /\ UNCHANGED <<tree, loopVars, mem, base, enabled, mapVars, port_en, where, wild>>

\* At the exit of the module after an override has cleaned up, edma_cleanup
\* writes EDMA_REG_PORT_CTRL once more, without its mapping.
CleanupAgain ==
  /\ pc = "cleaned" /\ idx = 0
  /\ idx' = 1
  /\ IF mapped THEN port_en' = FALSE /\ UNCHANGED wild
               ELSE UNCHANGED port_en /\ wild' = wild \cup {<<"port_ctrl", 0>>}
  /\ UNCHANGED <<tree, pc, kind, desc_index, unitVars, ringVars, mapVars, where>>

\* Nothing is left to do.
Done ==
  /\ (pc \in {"failed", "stuck"} \/ (pc = "cleaned" /\ idx = 1))
  /\ UNCHANGED vars

Next ==
  \/ RequestRegion \/ MapRegisters \/ Reset \/ MapTxdesc \/ AllocRings
  \/ SetupRing \/ SetupRingFails \/ Configure \/ MapRxdesc \/ Enable
  \/ \E b \in Bufs : DriverStep(b) \/ HwTake(b) \/ HwReport(b)
  \/ \E exit \in BOOLEAN : CleanupBegin(exit)
  \/ DisableTx \/ DisableFill \/ CleanRings \/ CleanTxdescStuck \/ CleanupEnd
  \/ CleanupAgain
  \/ Done

Spec == Init /\ [][Next]_vars

-----------------------------------------------------------------------------
(* Properties. *)

\* Types of the variables.
TypeOK ==
  /\ tree \in Trees
  /\ pc \in {"region", "map", "reset", "txmap", "alloc", "setup", "configure",
             "rxmap", "enable", "running", "disable_tx", "disable_fill", "clean",
             "stuck", "unmap", "cleaned", "failed"}
  /\ kind \in Kinds /\ idx \in Nat /\ desc_index \in Nat
  /\ {region, mapped, edma_initialized, port_en} \subseteq BOOLEAN
  /\ arrays \in {{}, Kinds}
  /\ mem \subseteq AllRings /\ base \subseteq AllRings /\ enabled \subseteq AllRings
  /\ txmap \in [0 .. 2 -> SUBSET (0 .. 29)] /\ rxmap \in [0 .. 1 -> SUBSET (0 .. 29)]
  /\ where \in [Bufs -> {Out} \cup AllRings \cup ({"hw"} \X AllRings)]
  /\ wild \subseteq ({"txdesc", "txcmpl"} \X {-1})
                      \cup {StrayAccess, <<"port_ctrl", 0>>}

\* Once the driver runs, the map registers say, bit by bit, what the driver
\* assumes elsewhere: the TXCMPL rings take turns, the RXFILL ring of an RXDESC
\* ring is the one that edma_clean_rx refills, and rings that are not of this
\* driver are left at zero.
MapsAgree ==
  edma_initialized =>
    /\ \A i \in Indices("txdesc") :
         TxcmplOf(i) = Start("txcmpl") + (i % tree["txcmpl"].rings)
    /\ \A i \in Indices("rxdesc") : RxfillIdOf(i) = Start("rxfill") + RxfillOf(i)
    /\ UNION {txmap[r] : r \in 0 .. 2} \subseteq
         UNION {Field(7, Start("txdesc") + i) : i \in Indices("txdesc")}

\* The hardware never runs on memory that the driver has not allocated or has
\* freed already: an enabled ring has a base address and its descriptors, and
\* the registers are mapped until the last ring is disabled.
RingsBacked ==
  /\ TypeOK
  /\ enabled \subseteq mem \cap base
  /\ enabled # {} => mapped /\ port_en
  /\ mem # {} => mapped /\ arrays = Kinds

\* A failing edma_init, wherever it fails, gives back the region, the mapping
\* and every descriptor, and leaves all rings disabled.  What it does not give
\* back are the arrays of edma_alloc_rings once a ring could not be set up, and
\* the release of index -1 is the only one of something not allocated.
InitFailureReleases ==
  pc = "failed" =>
    /\ ~region /\ ~mapped /\ mem = {} /\ enabled = {} /\ ~edma_initialized
    /\ \A b \in Bufs : where[b] = Out
    /\ wild # {} => arrays = Kinds /\ wild = {<<kind, -1>>} /\ kind \in {"txdesc", "txcmpl"}

\* edma_cleanup comes to its end unless a TXDESC ring still has packets, and then
\* gives back everything: memory, mapping, and each buffer but those that the
\* hardware has taken and not reported.  With packets in a TXDESC ring it accesses
\* what is not its own; it ends only where their number is even, without having
\* released them, and otherwise never gives back the rest, though nothing runs on
\* it any more.  At the exit of the module the port is disabled, but when an
\* override has cleaned up before: then the write misses the register.
CleanupReleases ==
  /\ pc = "cleaned" =>
       /\ ~region /\ ~mapped /\ mem = {} /\ arrays = {} /\ enabled = {}
       /\ \A b \in Bufs : where[b] \in {Out} \cup Rings("txdesc") \cup ({"hw"} \X AllRings)
       /\ StrayAccess \in wild <=> InRings("txdesc") # {}
       /\ \A i \in Indices("txdesc") : Even(Cardinality(Left(i)))
       /\ idx = 1 => (port_en <=> <<"port_ctrl", 0>> \in wild)
  /\ pc = "stuck" => InRings("txdesc") # {} /\ StrayAccess \in wild /\ enabled = {}
=============================================================================
