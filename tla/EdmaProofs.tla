----------------------------- MODULE EdmaProofs ------------------------------
(***************************************************************************)
(* Proofs about EdmaCfg, for any device tree and any buffers: the hardware *)
(* runs on memory that is allocated only, both an edma_init that fails and *)
(* edma_cleanup give back what they have taken, and, for rings that the    *)
(* hardware has, the map registers say what the driver assumes.            *)
(*                                                                         *)
(* Proofs about EdmaIrq, at the end: whoever disables the interrupt of a   *)
(* ring leaves somebody behind who will enable it, or has forgotten it.    *)
(***************************************************************************)
EXTENDS EdmaCfg, EdmaIrq, TLAPS

-----------------------------------------------------------------------------
(* The inductive invariant: what is held at each place of the code.        *)

\* The rings of the kinds set up, or cleaned, before k, and the first n rings of
\* a kind.
Before(k) == UNION {Rings(e) : e \in Earlier(k)}
First(k, n) == {<<k, j>> : j \in 0 .. n - 1}

InitPlaces == {"region", "map", "reset", "txmap", "alloc", "setup", "configure"}
CleanPlaces == {"clean", "unmap", "cleaned"}

\* Descriptor memory.
MemInv ==
  /\ pc \in {"region", "map", "reset", "txmap", "alloc", "unmap", "cleaned", "failed"} =>
       mem = {}
  /\ pc = "setup" => idx < tree[kind].rings /\ mem = Before(kind) \cup First(kind, idx)
  /\ pc \in {"configure", "rxmap", "enable", "running", "disable_tx", "disable_fill"} =>
       mem = AllRings
  /\ pc = "clean" => mem = AllRings \ Before(kind)

\* The register region, its mapping, and the arrays of rings.
UnitInv ==
  /\ pc \in {"region", "failed", "cleaned"} => ~region
  /\ mapped <=> pc \notin {"region", "map", "failed", "cleaned"}
  /\ edma_initialized <=> pc \in {"running", "disable_tx", "disable_fill", "clean", "stuck",
                              "unmap"}
  /\ pc \in {"region", "map", "reset", "txmap", "alloc", "cleaned"} => arrays = {}
  /\ pc \in {"setup", "configure", "rxmap", "enable", "running", "disable_tx",
             "disable_fill", "clean", "stuck", "unmap"} => arrays = Kinds

\* The rings that the hardware runs on.
EnabledInv ==
  /\ pc \in {"rxmap", "enable", "running", "disable_tx", "disable_fill"} => base = AllRings
  /\ pc = "running" => enabled = Rings("rxdesc") \cup Rings("rxfill") \cup Rings("txdesc")
  /\ pc = "disable_tx" => enabled = Rings("rxfill") \cup Rings("txdesc")
  /\ pc = "disable_fill" => enabled = Rings("rxfill")
  /\ pc \notin {"running", "disable_tx", "disable_fill"} => enabled = {}
  /\ pc \in {"running", "disable_tx", "disable_fill"} => port_en

\* The port at the exit of the module.
PortInv ==
  /\ pc \in {"disable_tx", "disable_fill"} \cup CleanPlaces => idx \in {0, 1}
  /\ pc \in CleanPlaces /\ idx = 0 => port_en /\ <<"port_ctrl", 0>> \notin wild
  /\ pc \in CleanPlaces /\ idx = 1 => (port_en <=> <<"port_ctrl", 0>> \in wild)
  /\ pc \in {"clean", "unmap"} => <<"port_ctrl", 0>> \notin wild

\* Accesses outside of what is allocated or mapped.
WildInv ==
  /\ pc \notin CleanPlaces \cup {"failed", "stuck"} => wild = {}
  /\ pc = "clean" /\ kind = "txdesc" => wild = {}
  /\ pc \in CleanPlaces /\ ~(pc = "clean" /\ kind = "txdesc") =>
       /\ StrayAccess \in wild <=> InRings("txdesc") # {}
       /\ \A i \in Indices("txdesc") : Even(Cardinality(Left(i)))
  /\ pc = "stuck" => StrayAccess \in wild /\ InRings("txdesc") # {}
  /\ pc = "failed" /\ wild # {} =>
       arrays = Kinds /\ wild = {<<kind, -1>>} /\ kind \in {"txdesc", "txcmpl"}

\* Where the buffers are not.
WhereInv ==
  /\ pc \in InitPlaces \cup {"failed"} => \A b \in Bufs : where[b] = Out
  /\ pc = "clean" =>
       \A b \in Bufs, e \in Earlier(kind) \ {"txdesc"} : where[b] \notin Rings(e)
  /\ pc \in {"unmap", "cleaned"} =>
       \A b \in Bufs, e \in Kinds \ {"txdesc"} : where[b] \notin Rings(e)

IInv ==
  /\ TypeOK
  /\ MemInv /\ UnitInv /\ EnabledInv /\ PortInv /\ WildInv /\ WhereInv

-----------------------------------------------------------------------------
(* Rings                                                                   *)

\* A device tree gives each kind a first ring and at least one ring.
LEMMA TreeNumbers ==
  ASSUME tree \in Trees, NEW k \in Kinds
  PROVE  tree[k].start \in Nat /\ tree[k].rings \in Nat \ {0}
BY CfgAssumption

LEMMA InRing ==
  ASSUME NEW k, NEW r
  PROVE  r \in Rings(k) <=> \E j \in Indices(k) : r = <<k, j>>
BY DEF Rings

LEMMA AllRingsOf ==
  AllRings = Rings("txdesc") \cup Rings("txcmpl") \cup Rings("rxfill") \cup Rings("rxdesc")
BY DEF AllRings, Kinds

LEMMA RingsDisjoint ==
  ASSUME NEW k, NEW l, k # l
  PROVE  Rings(k) \cap Rings(l) = {}
BY InRing

\* A ring is neither Out nor a buffer that the hardware holds.
LEMMA RingIsNotOut ==
  ASSUME NEW k \in Kinds
  PROVE  Out \notin Rings(k) /\ \A r : <<"hw", r>> \notin Rings(k)
BY InRing DEF Out, Kinds

LEMMA BeforeOf ==
  /\ Before("txdesc") = {}
  /\ Before("txcmpl") = Rings("txdesc")
  /\ Before("rxfill") = Rings("txdesc") \cup Rings("txcmpl")
  /\ Before("rxdesc") = Rings("txdesc") \cup Rings("txcmpl") \cup Rings("rxfill")
BY DEF Before, Earlier

\* The rings of a kind, one after the other.
LEMMA FirstOf ==
  ASSUME tree \in Trees, NEW k \in Kinds
  PROVE  /\ First(k, 0) = {}
         /\ \A n \in Nat : First(k, n + 1) = First(k, n) \cup {<<k, n>>}
         /\ First(k, tree[k].rings) = Rings(k)
         /\ \A n \in Nat : n <= tree[k].rings => First(k, n) \subseteq Rings(k)
<1>1. tree[k].rings \in Nat
  BY TreeNumbers
<1> QED
  BY <1>1, InRing DEF First, Indices

\* The device tree does not change, nor do the rings.
LEMMA RingsFixed ==
  ASSUME tree' = tree
  PROVE  /\ AllRings' = AllRings
         /\ \A k : Rings(k)' = Rings(k)
         /\ \A k : Before(k)' = Before(k)
         /\ \A k : Indices(k)' = Indices(k)
BY DEF AllRings, Rings, Indices, Before

LEMMA KindPrimed ==
  ASSUME tree' = tree, kind' = NextKind[kind], kind \in Kinds \ {"rxdesc"}
  PROVE  Before(kind)' = Before(kind) \cup Rings(kind)
<1>1. /\ kind = "txdesc" => kind' = "txcmpl"
      /\ kind = "txcmpl" => kind' = "rxfill"
      /\ kind = "rxfill" => kind' = "rxdesc"
  BY DEF NextKind
<1> QED
  BY <1>1, RingsFixed, BeforeOf DEF Kinds

-----------------------------------------------------------------------------
(* The types, in parts                                                     *)

FlagTypes ==
  region \in BOOLEAN /\ mapped \in BOOLEAN /\ edma_initialized \in BOOLEAN
                     /\ port_en \in BOOLEAN

PlaceTypes ==
  /\ tree \in Trees
  /\ pc \in {"region", "map", "reset", "txmap", "alloc", "setup", "configure",
             "rxmap", "enable", "running", "disable_tx", "disable_fill", "clean",
             "stuck", "unmap", "cleaned", "failed"}
  /\ kind \in Kinds /\ idx \in Nat /\ desc_index \in Nat

RingTypes ==
  /\ arrays \in {{}, Kinds}
  /\ mem \subseteq AllRings /\ base \subseteq AllRings /\ enabled \subseteq AllRings

MapTypes ==
  txmap \in [0 .. 2 -> SUBSET (0 .. 29)] /\ rxmap \in [0 .. 1 -> SUBSET (0 .. 29)]

Places == {Out} \cup AllRings \cup ({"hw"} \X AllRings)

BufTypes ==
  /\ where \in [Bufs -> Places]
  /\ wild \subseteq ({"txdesc", "txcmpl"} \X {-1})
                      \cup {StrayAccess, <<"port_ctrl", 0>>}

LEMMA TypeParts ==
  TypeOK <=> FlagTypes /\ PlaceTypes /\ RingTypes /\ MapTypes /\ BufTypes
<1>1. FlagTypes <=> {region, mapped, edma_initialized, port_en} \subseteq BOOLEAN
  BY Zenon DEF FlagTypes
<1>2. TypeOK => {region, mapped, edma_initialized, port_en} \subseteq BOOLEAN /\ PlaceTypes
  BY Zenon DEF TypeOK, PlaceTypes
<1>3. TypeOK => RingTypes /\ MapTypes /\ BufTypes
  BY Zenon DEF TypeOK, RingTypes, MapTypes, BufTypes, Places
<1>4. {region, mapped, edma_initialized, port_en} \subseteq BOOLEAN /\ PlaceTypes
        /\ RingTypes /\ MapTypes /\ BufTypes => TypeOK
  BY Zenon DEF TypeOK, PlaceTypes, RingTypes, MapTypes, BufTypes, Places
<1> QED
  BY <1>1, <1>2, <1>3, <1>4

LEMMA TypePartsNext ==
  FlagTypes' /\ PlaceTypes' /\ RingTypes' /\ MapTypes' /\ BufTypes' => TypeOK'
<1>1. FlagTypes' => {region', mapped', edma_initialized', port_en'} \subseteq BOOLEAN
  BY Zenon DEF FlagTypes
<1> QED
  BY <1>1, Zenon DEF TypeOK, PlaceTypes, RingTypes, MapTypes, BufTypes, Places

-----------------------------------------------------------------------------
(* Initial states                                                          *)

LEMMA InitIInv == Init => IInv
<1> SUFFICES ASSUME Init PROVE IInv
  OBVIOUS
<1>1. FlagTypes
  BY Zenon DEF Init, FlagTypes
<1>2. PlaceTypes /\ RingTypes /\ MapTypes /\ BufTypes
  BY DEF Init, PlaceTypes, RingTypes, MapTypes, BufTypes, Places, Kinds
<1>3. MemInv /\ UnitInv /\ EnabledInv
  BY DEF Init, MemInv, UnitInv, EnabledInv
<1>4. PortInv /\ WildInv /\ WhereInv
  BY DEF Init, PortInv, WildInv, WhereInv, CleanPlaces
<1> QED
  BY <1>1, <1>2, <1>3, <1>4, TypeParts DEF IInv

-----------------------------------------------------------------------------
(* The steps                                                               *)

InitStep ==
  RequestRegion \/ MapRegisters \/ Reset \/ MapTxdesc \/ AllocRings
SetupStep == SetupRing \/ SetupRingFails \/ Configure \/ MapRxdesc \/ Enable
MoveStep == \E b \in Bufs : DriverStep(b) \/ HwTake(b) \/ HwReport(b)
DisableStep ==
  \/ \E exit \in BOOLEAN : CleanupBegin(exit)
  \/ DisableTx \/ DisableFill
CleanStep == CleanRings \/ CleanTxdescStuck \/ CleanupEnd \/ CleanupAgain
AnyStep ==
  InitStep \/ SetupStep \/ MoveStep \/ DisableStep \/ CleanStep \/ UNCHANGED vars

LEMMA Steps == [Next]_vars => AnyStep
BY DEF Next, AnyStep, InitStep, SetupStep, MoveStep, DisableStep, CleanStep, Done

\* Buffers move while rings are enabled, from Out, a ring or the hardware to
\* another of these, and nothing else changes.
LEMMA MoveKeeps ==
  ASSUME IInv, MoveStep
  PROVE  /\ pc \in {"running", "disable_tx", "disable_fill"}
         /\ UNCHANGED <<tree, pc, kind, idx, desc_index, region, mapped, edma_initialized>>
         /\ UNCHANGED <<arrays, mem, base, enabled, txmap, rxmap, port_en, wild>>
         /\ where' \in [Bufs -> Places]
<1>1. PICK b \in Bufs : DriverStep(b) \/ HwTake(b) \/ HwReport(b)
  BY DEF MoveStep
<1>2. where \in [Bufs -> Places] /\ enabled \subseteq AllRings
  BY TypeParts DEF IInv, BufTypes, RingTypes
<1>3. enabled # {} => pc \in {"running", "disable_tx", "disable_fill"}
  BY DEF IInv, EnabledInv
<1>4. \A k \in Kinds : Rings(k) \subseteq AllRings
  BY DEF AllRings
<1>5. PICK to \in Places : Move(b, to) /\ pc \in {"running", "disable_tx", "disable_fill"}
  <2>1. CASE DriverStep(b)
    BY <2>1, <1>4 DEF DriverStep, Places, Kinds
  <2>2. CASE HwTake(b)
    BY <2>2, <1>2, <1>3 DEF HwTake, Places
  <2>3. CASE HwReport(b)
    BY <2>3, <1>3 DEF HwReport, Places
  <2> QED
    BY <1>1, <2>1, <2>2, <2>3
<1> QED
  BY <1>2, <1>5 DEF Move, loopVars, unitVars, ringVars, mapVars

LEMMA TreeFixed == ASSUME IInv, AnyStep PROVE tree' = tree
<1>1. CASE InitStep
  BY <1>1 DEF InitStep, RequestRegion, MapRegisters, Reset, MapTxdesc, AllocRings
<1>2. CASE SetupStep
  BY <1>2 DEF SetupStep, SetupRing, SetupRingFails, Configure, MapRxdesc, Enable
<1>3. CASE MoveStep
  BY <1>3, MoveKeeps
<1>4. CASE DisableStep
  BY <1>4 DEF DisableStep, CleanupBegin, DisableTx, DisableFill
<1>5. CASE CleanStep
  BY <1>5 DEF CleanStep, CleanRings, CleanTxdescStuck, CleanupEnd, CleanupAgain
<1>6. CASE UNCHANGED vars
  BY <1>6 DEF vars
<1> QED
  BY <1>1, <1>2, <1>3, <1>4, <1>5, <1>6 DEF AnyStep

-----------------------------------------------------------------------------
(* The types are kept                                                      *)

LEMMA FlagsKept == ASSUME IInv, AnyStep PROVE FlagTypes'
<1>1. FlagTypes
  BY TypeParts DEF IInv
<1>2. CASE InitStep
  BY <1>1, <1>2, Zenon DEF FlagTypes, InitStep, RequestRegion, MapRegisters, Reset,
       MapTxdesc, AllocRings, HwInitFails, unitVars
<1>3. CASE SetupStep
  BY <1>1, <1>3, Zenon DEF FlagTypes, SetupStep, SetupRing, SetupRingFails, Configure,
       MapRxdesc, Enable, HwInitFails, unitVars
<1>4. CASE MoveStep
  BY <1>1, <1>4, MoveKeeps, Zenon DEF FlagTypes
<1>5. CASE DisableStep
  BY <1>1, <1>5, Zenon DEF FlagTypes, DisableStep, CleanupBegin, DisableTx, DisableFill,
       unitVars
<1>6. CASE CleanStep
  BY <1>1, <1>6, Zenon DEF FlagTypes, CleanStep, CleanRings, CleanTxdescStuck, CleanupEnd, CleanupAgain,
       unitVars
<1>7. CASE UNCHANGED vars
  BY <1>1, <1>7, Zenon DEF FlagTypes, vars, unitVars
<1> QED
  BY <1>2, <1>3, <1>4, <1>5, <1>6, <1>7 DEF AnyStep

LEMMA BeginMarksExit ==
  ASSUME NEW exit \in BOOLEAN, CleanupBegin(exit)
  PROVE  idx' = 0 \/ idx' = 1
BY Zenon DEF CleanupBegin

LEMMA PlacesKept == ASSUME IInv, AnyStep PROVE PlaceTypes'
<1>1. PlaceTypes
  BY TypeParts DEF IInv
<1>2. tree' = tree
  BY TreeFixed
<1>3. /\ tree["txcmpl"].start \in Nat /\ "txdesc" \in Kinds /\ "rxdesc" \in Kinds
      /\ kind # "rxdesc" => NextKind[kind] \in Kinds
  BY <1>1, TreeNumbers DEF PlaceTypes, Kinds, NextKind
<1>4. CASE InitStep
  BY <1>1, <1>2, <1>3, <1>4 DEF PlaceTypes, InitStep, RequestRegion, MapRegisters, Reset,
       MapTxdesc, AllocRings, HwInitFails, loopVars, Start
<1>5. CASE SetupStep
  BY <1>1, <1>2, <1>3, <1>5 DEF PlaceTypes, SetupStep, SetupRing, SetupRingFails, Configure,
       MapRxdesc, Enable, HwInitFails, loopVars
<1>6. CASE MoveStep
  BY <1>1, <1>6, MoveKeeps DEF PlaceTypes
<1>7. CASE DisableStep
  <2>1. ASSUME NEW exit \in BOOLEAN, CleanupBegin(exit) PROVE PlaceTypes'
    BY <1>1, <1>2, <2>1, BeginMarksExit DEF PlaceTypes, CleanupBegin
  <2>2. CASE DisableTx \/ DisableFill
    BY <1>1, <1>2, <1>3, <2>2 DEF PlaceTypes, DisableTx, DisableFill, loopVars
  <2> QED
    BY <1>7, <2>1, <2>2 DEF DisableStep
<1>8. CASE CleanStep
  BY <1>1, <1>2, <1>3, <1>8 DEF PlaceTypes, CleanStep, CleanRings, CleanTxdescStuck, CleanupEnd, CleanupAgain,
       loopVars
<1>9. CASE UNCHANGED vars
  BY <1>1, <1>9 DEF PlaceTypes, vars, loopVars
<1> QED
  BY <1>4, <1>5, <1>6, <1>7, <1>8, <1>9 DEF AnyStep

LEMMA RingSetsKept == ASSUME IInv, AnyStep PROVE RingTypes'
<1>1. RingTypes /\ PlaceTypes
  BY TypeParts DEF IInv
<1>2. AllRings' = AllRings
  BY TreeFixed, RingsFixed
<1>3. \A k \in Kinds : Rings(k) \subseteq AllRings
  BY DEF AllRings
<1>4. pc = "setup" => <<kind, idx>> \in AllRings
  <2>1. ASSUME pc = "setup" PROVE idx \in Indices(kind)
    BY <2>1, <1>1, TreeNumbers DEF IInv, MemInv, PlaceTypes, Indices
  <2> QED
    BY <1>1, <1>3, <2>1, InRing DEF PlaceTypes
<1>5. CASE InitStep
  BY <1>1, <1>2, <1>5 DEF RingTypes, InitStep, RequestRegion, MapRegisters, Reset,
       MapTxdesc, AllocRings, ringVars
<1>6. CASE SetupStep
  BY <1>1, <1>2, <1>3, <1>4, <1>6 DEF RingTypes, SetupStep, SetupRing, SetupRingRes,
       SetupRingFails, Configure, MapRxdesc, Enable, ringVars, Kinds
<1>7. CASE MoveStep
  BY <1>1, <1>2, <1>7, MoveKeeps DEF RingTypes
<1>8. CASE DisableStep
  BY <1>1, <1>2, <1>8 DEF RingTypes, DisableStep, CleanupBegin, DisableTx, DisableFill
<1>9. CASE CleanStep
  BY <1>1, <1>2, <1>9 DEF RingTypes, CleanStep, CleanRings, CleanTxdescStuck, CleanupEnd, CleanupAgain,
       ringVars
<1>10. CASE UNCHANGED vars
  BY <1>1, <1>2, <1>10 DEF RingTypes, vars, ringVars
<1> QED
  BY <1>5, <1>6, <1>7, <1>8, <1>9, <1>10 DEF AnyStep

\* A field of a map register lies within the 30 bits that the fields take.
LEMMA FieldBits == ASSUME NEW n \in Nat, NEW i \in Nat PROVE Field(n, i) \subseteq 0 .. 29
<1>1. i % 10 \in 0 .. 9
  OBVIOUS
<1> QED
  BY <1>1 DEF Field

LEMMA MapsKept == ASSUME IInv, AnyStep PROVE MapTypes'
<1>1. MapTypes /\ PlaceTypes
  BY TypeParts DEF IInv
<1>2. \A k \in Kinds : tree[k].start \in Nat /\ tree[k].rings \in Nat \ {0}
  BY <1>1, TreeNumbers DEF PlaceTypes
<1>3. CASE MapTxdesc
  <2> DEFINE i == Start("txdesc") + idx
             f == Field(desc_index, i)
             reg == IF i <= 9 THEN 0 ELSE IF i <= 19 THEN 1 ELSE 2
  <2>1. i \in Nat /\ desc_index \in Nat
    BY <1>1, <1>2 DEF PlaceTypes, Start, Kinds
  <2>2. f \subseteq 0 .. 29
    BY <2>1, FieldBits
  <2>3. txmap' = [txmap EXCEPT ![reg] = @ \cup f] /\ rxmap' = rxmap /\ reg \in 0 .. 2
    BY <1>3 DEF MapTxdesc
  <2> HIDE DEF i, f, reg
  <2> QED
    BY <1>1, <2>2, <2>3 DEF MapTypes
<1>4. CASE MapRxdesc
  <2> DEFINE i == Start("rxdesc") + idx
             n == Start("rxfill") + RxfillOf(idx)
             f == Field(n, i)
             reg == IF i <= 9 THEN 0 ELSE 1
  <2>1. i \in Nat
    BY <1>1, <1>2 DEF PlaceTypes, Start, Kinds
  <2>2. tree["rxfill"].rings \in Nat \ {0} /\ tree["rxfill"].start \in Nat /\ idx \in Nat
    BY <1>1, <1>2 DEF PlaceTypes, Kinds
  <2>3. n \in Nat
    BY <2>2 DEF RxfillOf, Start
  <2>4. f \subseteq 0 .. 29
    BY <2>1, <2>3, FieldBits
  <2>5. rxmap' = [rxmap EXCEPT ![reg] = @ \cup f] /\ txmap' = txmap /\ reg \in 0 .. 1
    BY <1>4 DEF MapRxdesc
  <2> HIDE DEF i, n, f, reg
  <2> QED
    BY <1>1, <2>4, <2>5 DEF MapTypes
<1>5. CASE RequestRegion \/ MapRegisters \/ Reset \/ AllocRings
  BY <1>1, <1>5 DEF MapTypes, RequestRegion, MapRegisters, Reset, AllocRings, mapVars
<1>6. CASE SetupRing \/ SetupRingFails \/ Configure \/ Enable
  BY <1>1, <1>6 DEF MapTypes, SetupRing, SetupRingFails, Configure, Enable, mapVars
<1>7. CASE MoveStep
  BY <1>1, <1>7, MoveKeeps DEF MapTypes
<1>8. CASE DisableStep \/ CleanStep \/ UNCHANGED vars
  BY <1>1, <1>8 DEF MapTypes, DisableStep, CleanupBegin, DisableTx, DisableFill, CleanStep,
       CleanRings, CleanTxdescStuck, CleanupEnd, CleanupAgain, vars, mapVars
<1> QED
  BY <1>3, <1>4, <1>5, <1>6, <1>7, <1>8 DEF AnyStep, InitStep, SetupStep

\* Rings that are released without having descriptors, when the setup fails.
LEMMA UnwoundOf ==
  ASSUME IInv, pc = "setup"
  PROVE  /\ mem \subseteq Unwound(kind, idx)
         /\ Unwound(kind, idx) \ mem \subseteq {<<kind, -1>>}
         /\ kind \notin {"txdesc", "txcmpl"} => Unwound(kind, idx) \ mem = {}
<1>1. PlaceTypes /\ mem = Before(kind) \cup First(kind, idx)
  BY TypeParts DEF IInv, MemInv
<1>2. Unwound(kind, idx) =
        {<<kind, j>> : j \in (IF kind \in {"txdesc", "txcmpl"} THEN -1 ELSE 0) .. idx - 1}
          \cup Before(kind)
  BY DEF Unwound, Before
<1>3. /\ First(kind, idx) \subseteq
           {<<kind, j>> : j \in (IF kind \in {"txdesc", "txcmpl"} THEN -1 ELSE 0) .. idx - 1}
      /\ {<<kind, j>> : j \in -1 .. idx - 1} \subseteq First(kind, idx) \cup {<<kind, -1>>}
      /\ {<<kind, j>> : j \in 0 .. idx - 1} \subseteq First(kind, idx)
  BY <1>1 DEF First, PlaceTypes
<1> QED
  BY <1>1, <1>2, <1>3

LEMMA BufsKept == ASSUME IInv, AnyStep PROVE BufTypes'
<1>1. BufTypes /\ PlaceTypes
  BY TypeParts DEF IInv
<1>2. AllRings' = AllRings /\ Places' = Places
  BY TreeFixed, RingsFixed DEF Places
<1>3. Out \in Places /\ \A k \in Kinds : Rings(k) \subseteq Places
  BY DEF Places, AllRings
<1>4. CASE InitStep
  BY <1>1, <1>2, <1>4 DEF BufTypes, InitStep, RequestRegion, MapRegisters, Reset,
       MapTxdesc, AllocRings
<1>5. CASE SetupRingFails
  <2>1. where' = where /\ wild' = wild \cup (Unwound(kind, idx) \ mem) /\ pc = "setup"
    BY <1>5 DEF SetupRingFails
  <2>2. Unwound(kind, idx) \ mem \subseteq {"txdesc", "txcmpl"} \X {-1}
    BY <2>1, UnwoundOf
  <2> QED
    BY <1>1, <1>2, <2>1, <2>2 DEF BufTypes
<1>6. CASE Configure
  BY <1>1, <1>2, <1>3, <1>6 DEF BufTypes, Configure, Kinds
<1>7. CASE SetupRing \/ MapRxdesc \/ Enable
  BY <1>1, <1>2, <1>7 DEF BufTypes, SetupRing, MapRxdesc, Enable
<1>8. CASE MoveStep
  BY <1>1, <1>2, <1>8, MoveKeeps DEF BufTypes
<1>9. CASE DisableStep
  BY <1>1, <1>2, <1>9 DEF BufTypes, DisableStep, CleanupBegin, DisableTx, DisableFill
<1>10. CASE CleanRings
  <2>1. CASE CleanTxdesc
    BY <1>1, <1>2, <2>1 DEF BufTypes, CleanTxdesc
  <2>2. CASE CleanTxcmpl \/ CleanRxfill \/ CleanRxdesc
    BY <1>1, <1>2, <1>3, <2>2 DEF BufTypes, CleanTxcmpl, CleanRxfill, CleanRxdesc,
         FreeBuffers
  <2> QED
    BY <1>10, <2>1, <2>2 DEF CleanRings
<1>11. CASE CleanTxdescStuck \/ CleanupEnd \/ CleanupAgain
  BY <1>1, <1>2, <1>11 DEF BufTypes, CleanTxdescStuck, CleanupEnd, CleanupAgain
<1>12. CASE UNCHANGED vars
  BY <1>1, <1>2, <1>12 DEF BufTypes, vars
<1> QED
  BY <1>4, <1>5, <1>6, <1>7, <1>8, <1>9, <1>10, <1>11, <1>12
     DEF AnyStep, SetupStep, CleanStep

LEMMA TypeOKKept == ASSUME IInv, AnyStep PROVE TypeOK'
BY FlagsKept, PlacesKept, RingSetsKept, MapsKept, BufsKept, TypePartsNext

-----------------------------------------------------------------------------
(* What is held at each place is kept                                      *)

LEMMA MemKept == ASSUME IInv, AnyStep PROVE MemInv'
<1>1. MemInv /\ PlaceTypes
  BY TypeParts DEF IInv
<1>2. tree' = tree /\ AllRings' = AllRings
  BY TreeFixed, RingsFixed
<1>3. \A k \in Kinds : tree[k].rings \in Nat \ {0}
  BY <1>1, TreeNumbers DEF PlaceTypes
<1>4. CASE RequestRegion \/ MapRegisters \/ Reset \/ MapTxdesc
  BY <1>1, <1>4 DEF MemInv, RequestRegion, MapRegisters, Reset, MapTxdesc, HwInitFails,
       ringVars
<1>5. CASE AllocRings
  <2>1. CASE pc' = "failed"
    BY <1>1, <1>5, <2>1 DEF MemInv, AllocRings
  <2>2. CASE pc' = "setup"
    <3>1. kind' = "txdesc" /\ idx' = 0 /\ mem' = {} /\ pc = "alloc"
      BY <1>1, <1>5, <2>2 DEF MemInv, AllocRings, HwInitFails
    <3>2. Before(kind)' = {} /\ First(kind, idx)' = {}
      <4>1. Before(kind)' = {}
        BY <1>2, <3>1, BeforeOf, RingsFixed
      <4>2. First(kind, idx)' = {}
        BY <3>1 DEF First
      <4> QED
        BY <4>1, <4>2
    <3> QED
      BY <1>2, <1>3, <2>2, <3>1, <3>2 DEF MemInv, Kinds
  <2> QED
    BY <1>5, <2>1, <2>2 DEF AllocRings, HwInitFails
<1>6. CASE SetupRing
  <2>1. /\ pc = "setup" /\ idx \in Nat /\ kind \in Kinds /\ idx < tree[kind].rings
        /\ mem' = Before(kind) \cup First(kind, idx) \cup {<<kind, idx>>}
    BY <1>1, <1>6 DEF MemInv, PlaceTypes, SetupRing, SetupRingRes
  <2>2. mem' = Before(kind) \cup First(kind, idx + 1)
    BY <1>1, <2>1, FirstOf DEF PlaceTypes
  <2>3. CASE idx + 1 < tree[kind].rings
    <3>1. pc' = "setup" /\ kind' = kind /\ idx' = idx + 1
      BY <1>6, <2>1, <2>3 DEF SetupRing
    <3>2. Before(kind)' = Before(kind) /\ First(kind, idx)' = First(kind, idx + 1)
      <4>1. Before(kind)' = Before(kind)
        BY <1>2, <3>1, RingsFixed
      <4>2. First(kind, idx)' = First(kind, idx + 1)
        BY <3>1 DEF First
      <4> QED
        BY <4>1, <4>2
    <3> QED
      BY <1>2, <2>2, <2>3, <3>1, <3>2 DEF MemInv
  <2>4. CASE ~(idx + 1 < tree[kind].rings)
    <3>1. idx + 1 = tree[kind].rings
      BY <1>3, <2>1, <2>4
    <3>2. mem' = Before(kind) \cup Rings(kind)
      BY <1>1, <2>1, <2>2, <3>1, FirstOf DEF PlaceTypes
    <3>3. CASE kind = "rxdesc"
      <4>1. pc' = "configure"
        BY <1>6, <2>4, <3>3 DEF SetupRing
      <4>2. mem' = AllRings
        BY <3>2, <3>3, BeforeOf, AllRingsOf
      <4> QED
        BY <1>2, <4>1, <4>2 DEF MemInv
    <3>4. CASE kind # "rxdesc"
      <4>1. pc' = "setup" /\ kind' = NextKind[kind] /\ idx' = 0
        BY <1>6, <2>1, <2>4, <3>4 DEF SetupRing
      <4>2. Before(kind)' = Before(kind) \cup Rings(kind)
        BY <1>2, <2>1, <3>4, <4>1, KindPrimed
      <4>3. First(kind, idx)' = {}
        BY <4>1 DEF First
      <4>4. kind' \in Kinds
        BY PlacesKept DEF PlaceTypes
      <4> QED
        BY <1>2, <1>3, <3>2, <4>1, <4>2, <4>3, <4>4 DEF MemInv
    <3> QED
      BY <3>3, <3>4
  <2> QED
    BY <2>3, <2>4
<1>7. CASE SetupRingFails
  BY <1>7, UnwoundOf DEF MemInv, SetupRingFails, HwInitFails
<1>8. CASE Configure \/ MapRxdesc \/ Enable
  BY <1>1, <1>2, <1>8 DEF MemInv, Configure, MapRxdesc, Enable, ringVars
<1>9. CASE MoveStep
  BY <1>1, <1>2, <1>9, MoveKeeps DEF MemInv
<1>10. CASE (\E exit \in BOOLEAN : CleanupBegin(exit)) \/ DisableTx
  BY <1>1, <1>2, <1>10 DEF MemInv, CleanupBegin, DisableTx
<1>11. CASE DisableFill
  <2>1. pc' = "clean" /\ kind' = "txdesc" /\ mem' = AllRings
    BY <1>1, <1>11 DEF MemInv, DisableFill
  <2>2. Before(kind)' = {}
    BY <1>2, <2>1, BeforeOf, RingsFixed
  <2> QED
    BY <1>2, <2>1, <2>2 DEF MemInv
<1>12. CASE CleanRings
  <2>1. mem' = AllRings \ (Before(kind) \cup Rings(kind)) /\ kind \in Kinds
    BY <1>1, <1>12 DEF MemInv, PlaceTypes, CleanRings
  <2>2. CASE kind = "rxdesc"
    <3>1. pc' = "unmap" /\ mem' = {}
      BY <1>12, <2>1, <2>2, BeforeOf, AllRingsOf DEF CleanRings
    <3> QED
      BY <3>1 DEF MemInv
  <2>3. CASE kind # "rxdesc"
    <3>1. pc' = "clean" /\ kind' = NextKind[kind]
      BY <1>12, <2>3 DEF CleanRings
    <3>2. Before(kind)' = Before(kind) \cup Rings(kind)
      BY <1>2, <2>1, <2>3, <3>1, KindPrimed
    <3> QED
      BY <1>2, <2>1, <3>1, <3>2 DEF MemInv
  <2> QED
    BY <2>2, <2>3
<1>13. CASE CleanTxdescStuck \/ CleanupEnd \/ CleanupAgain
  BY <1>1, <1>13 DEF MemInv, CleanTxdescStuck, CleanupEnd, CleanupAgain, ringVars
<1>14. CASE UNCHANGED vars
  <2>1. pc' = pc /\ kind' = kind /\ idx' = idx /\ mem' = mem
    BY <1>14 DEF vars, loopVars, ringVars
  <2>2. Before(kind)' = Before(kind) /\ First(kind, idx)' = First(kind, idx)
    BY <1>2, <2>1, RingsFixed DEF First
  <2> QED
    BY <1>1, <1>2, <2>1, <2>2 DEF MemInv
<1> QED
  BY <1>4, <1>5, <1>6, <1>7, <1>8, <1>9, <1>10, <1>11, <1>12, <1>13, <1>14
     DEF AnyStep, InitStep, SetupStep, DisableStep, CleanStep

LEMMA UnitKept == ASSUME IInv, AnyStep PROVE UnitInv'
<1>1. UnitInv /\ FlagTypes /\ PlaceTypes
  BY TypeParts DEF IInv
<1>2. CASE InitStep
  BY <1>1, <1>2, SMT DEF UnitInv, FlagTypes, PlaceTypes, InitStep, RequestRegion, MapRegisters,
       Reset, MapTxdesc, AllocRings, HwInitFails, unitVars, ringVars
<1>3. CASE SetupStep
  BY <1>1, <1>3 DEF UnitInv, FlagTypes, PlaceTypes, SetupStep, SetupRing, SetupRingFails,
       Configure, MapRxdesc, Enable, HwInitFails, unitVars, ringVars
<1>4. CASE MoveStep
  BY <1>1, <1>4, MoveKeeps DEF UnitInv
<1>5. CASE DisableStep
  BY <1>1, <1>5 DEF UnitInv, DisableStep, CleanupBegin, DisableTx, DisableFill, unitVars
<1>6. CASE CleanStep
  BY <1>1, <1>6 DEF UnitInv, CleanStep, CleanRings, CleanTxdescStuck, CleanupEnd, CleanupAgain, unitVars, ringVars
<1>7. CASE UNCHANGED vars
  BY <1>1, <1>7 DEF UnitInv, vars, unitVars, ringVars
<1> QED
  BY <1>2, <1>3, <1>4, <1>5, <1>6, <1>7 DEF AnyStep

LEMMA EnabledKept == ASSUME IInv, AnyStep PROVE EnabledInv'
<1>1. EnabledInv /\ MemInv
  BY DEF IInv
<1>2. AllRings' = AllRings /\ \A k : Rings(k)' = Rings(k)
  BY TreeFixed, RingsFixed
<1>3. CASE InitStep
  BY <1>1, <1>3 DEF EnabledInv, InitStep, RequestRegion, MapRegisters, Reset, MapTxdesc,
       AllocRings, HwInitFails, ringVars
<1>4. CASE SetupStep
  BY <1>1, <1>2, <1>4 DEF EnabledInv, MemInv, SetupStep, SetupRing, SetupRingFails, Configure,
       MapRxdesc, Enable, HwInitFails, ringVars
<1>5. CASE MoveStep
  BY <1>1, <1>2, <1>5, MoveKeeps DEF EnabledInv
<1>6. CASE DisableStep
  BY <1>1, <1>2, <1>6, RingsDisjoint DEF EnabledInv, DisableStep, CleanupBegin, DisableTx,
       DisableFill
<1>7. CASE CleanStep
  BY <1>1, <1>7 DEF EnabledInv, CleanStep, CleanRings, CleanTxdescStuck, CleanupEnd, CleanupAgain, ringVars
<1>8. CASE UNCHANGED vars
  BY <1>1, <1>2, <1>8 DEF EnabledInv, vars, ringVars
<1> QED
  BY <1>3, <1>4, <1>5, <1>6, <1>7, <1>8 DEF AnyStep

LEMMA PortKept == ASSUME IInv, AnyStep PROVE PortInv'
<1>1. PortInv /\ UnitInv /\ EnabledInv /\ WildInv
  BY DEF IInv
<1>2. CASE InitStep \/ SetupStep
  <2>1. pc' \notin {"disable_tx", "disable_fill"} \cup CleanPlaces
    BY <1>2 DEF CleanPlaces, InitStep, SetupStep, RequestRegion, MapRegisters, Reset,
         MapTxdesc, AllocRings, SetupRing, SetupRingFails, Configure, MapRxdesc, Enable,
         HwInitFails
  <2> QED
    BY <2>1 DEF PortInv, CleanPlaces
<1>3. CASE MoveStep
  BY <1>1, <1>3, MoveKeeps DEF PortInv
<1>4. CASE DisableStep
  <2>1. ASSUME NEW exit \in BOOLEAN, CleanupBegin(exit) PROVE PortInv'
    <3>1. pc' = "disable_tx"
      BY <2>1 DEF CleanupBegin
    <3> QED
      BY <2>1, <3>1, BeginMarksExit DEF PortInv, CleanPlaces
  <2>2. CASE DisableTx
    BY <1>1, <2>2 DEF PortInv, CleanPlaces, DisableTx, loopVars
  <2>3. CASE DisableFill
    <3>1. pc = "disable_fill" /\ idx \in {0, 1} /\ port_en /\ wild = {}
      BY <1>1, <2>3 DEF DisableFill, PortInv, EnabledInv, WildInv, CleanPlaces
    <3>2. /\ pc' = "clean" /\ idx' = idx /\ wild' = {}
          /\ port_en' = IF idx = 1 THEN FALSE ELSE port_en
      BY <2>3, <3>1 DEF DisableFill
    <3> QED
      BY <3>1, <3>2 DEF PortInv, CleanPlaces
  <2> QED
    BY <1>4, <2>1, <2>2, <2>3 DEF DisableStep
<1>5. CASE CleanRings
  <2>1. <<"port_ctrl", 0>> \in wild' <=> <<"port_ctrl", 0>> \in wild
    BY <1>5 DEF CleanRings, CleanTxdesc, StrayAccess, CleanTxcmpl, CleanRxfill, CleanRxdesc,
         FreeBuffers
  <2>2. /\ pc = "clean" /\ pc' \in {"clean", "unmap"} /\ idx' = idx /\ port_en' = port_en
    BY <1>5 DEF CleanRings
  <2> QED
    BY <1>1, <2>1, <2>2 DEF PortInv, CleanPlaces
<1>6. CASE CleanTxdescStuck \/ CleanupEnd
  BY <1>1, <1>6 DEF PortInv, CleanPlaces, CleanTxdescStuck, CleanupEnd, loopVars
<1>7. CASE CleanupAgain
  BY <1>1, <1>7 DEF PortInv, UnitInv, CleanPlaces, CleanupAgain
<1>8. CASE UNCHANGED vars
  BY <1>1, <1>8 DEF PortInv, vars, loopVars
<1> QED
  BY <1>2, <1>3, <1>4, <1>5, <1>6, <1>7, <1>8 DEF AnyStep, CleanStep

\* While the rings are cleaned, nothing moves into or out of the TXDESC rings.
LEMMA TxdescLeft ==
  ASSUME IInv, CleanRings
  PROVE  /\ InRings("txdesc")' = InRings("txdesc")
         /\ \A i \in Indices("txdesc") : Left(i)' = Left(i)
<1>1. Rings("txdesc")' = Rings("txdesc")
  BY RingsFixed DEF CleanRings
<1>2. \A b \in Bufs, r \in Rings("txdesc") : where'[b] = r <=> where[b] = r
  <2>1. CASE UNCHANGED where
    BY <2>1
  <2>2. CASE FreeBuffers("txcmpl") \/ FreeBuffers("rxfill") \/ FreeBuffers("rxdesc")
    <3>1. PICK k \in {"txcmpl", "rxfill", "rxdesc"} : FreeBuffers(k)
      BY <2>2
    <3>2. Rings(k) \cap Rings("txdesc") = {}
      BY RingsDisjoint
    <3>3. Out \notin Rings("txdesc")
      BY RingIsNotOut DEF Kinds
    <3> QED
      BY <3>1, <3>2, <3>3 DEF FreeBuffers, InRings
  <2> QED
    BY <2>1, <2>2 DEF CleanRings, CleanTxdesc, CleanTxcmpl, CleanRxfill, CleanRxdesc
<1>3. InRings("txdesc")' = InRings("txdesc")
  BY <1>1, <1>2 DEF InRings
<1>4. \A i \in Indices("txdesc") : <<"txdesc", i>> \in Rings("txdesc")
  BY InRing DEF Kinds
<1> QED
  BY <1>2, <1>3, <1>4 DEF Left

LEMMA WildKept == ASSUME IInv, AnyStep PROVE WildInv'
<1>1. WildInv /\ UnitInv /\ PlaceTypes
  BY TypeParts DEF IInv
<1>2. Indices("txdesc")' = Indices("txdesc") /\ \A k : Rings(k)' = Rings(k)
  BY TreeFixed, RingsFixed DEF Indices
<1>3. CASE InitStep
  BY <1>1, <1>3 DEF WildInv, CleanPlaces, InitStep, RequestRegion, MapRegisters, Reset,
       MapTxdesc, AllocRings, HwInitFails
<1>4. CASE SetupRing \/ Configure \/ MapRxdesc \/ Enable
  BY <1>1, <1>4 DEF WildInv, CleanPlaces, SetupRing, Configure, MapRxdesc, Enable
<1>5. CASE SetupRingFails
  <2>1. pc = "setup" /\ wild = {} /\ arrays = Kinds
    BY <1>1, <1>5 DEF SetupRingFails, WildInv, UnitInv, CleanPlaces
  <2>2. /\ pc' = "failed" /\ kind' = kind /\ arrays' = Kinds
        /\ wild' = Unwound(kind, idx) \ mem
    BY <1>5, <2>1 DEF SetupRingFails, HwInitFails, loopVars
  <2>3. wild' # {} => wild' = {<<kind, -1>>} /\ kind \in {"txdesc", "txcmpl"}
    BY <2>1, <2>2, UnwoundOf
  <2> QED
    BY <2>2, <2>3 DEF WildInv, CleanPlaces
<1>6. CASE MoveStep
  BY <1>1, <1>6, MoveKeeps DEF WildInv, CleanPlaces
<1>7. CASE DisableStep
  BY <1>1, <1>7 DEF WildInv, CleanPlaces, DisableStep, CleanupBegin, DisableTx, DisableFill
<1>8. CASE CleanRings
  <2>1. pc = "clean" /\ pc' \in {"clean", "unmap"}
    BY <1>8 DEF CleanRings
  <2>2. ~(pc' = "clean" /\ kind' = "txdesc")
    BY <1>1, <1>8 DEF PlaceTypes, Kinds, CleanRings, NextKind
  <2>3. /\ InRings("txdesc")' = InRings("txdesc")
        /\ \A i \in Indices("txdesc") : Left(i)' = Left(i)
    BY <1>8, TxdescLeft
  <2>4. CASE kind = "txdesc"
    <3>1. wild = {}
      BY <1>1, <2>1, <2>4 DEF WildInv
    <3>2. /\ wild' = wild \cup {StrayAccess : b \in InRings("txdesc")}
          /\ \A i \in Indices("txdesc") : Even(Cardinality(Left(i)))
      BY <1>8, <2>4 DEF CleanRings, CleanTxdesc
    <3>3. StrayAccess \in wild' <=> InRings("txdesc") # {}
      BY <3>1, <3>2
    <3>4. \A i \in Indices("txdesc") : Even(Cardinality(Left(i)))'
      BY <2>3, <3>2 DEF Even
    <3> QED
      BY <1>2, <2>1, <2>2, <2>3, <3>3, <3>4 DEF WildInv, CleanPlaces
  <2>5. CASE kind # "txdesc"
    <3>1. wild' = wild
      BY <1>8, <2>5 DEF CleanRings, CleanTxcmpl, CleanRxfill, CleanRxdesc, FreeBuffers
    <3>2. \A i \in Indices("txdesc") : Even(Cardinality(Left(i)))'
      BY <1>1, <2>1, <2>3, <2>5 DEF WildInv, CleanPlaces, Even
    <3> QED
      BY <1>1, <1>2, <2>1, <2>2, <2>3, <2>5, <3>1, <3>2 DEF WildInv, CleanPlaces
  <2> QED
    BY <2>4, <2>5
<1>9. CASE CleanupEnd \/ CleanupAgain
  <2>1. where' = where /\ pc \in {"unmap", "cleaned"} /\ pc' = "cleaned"
    BY <1>9 DEF CleanupEnd, CleanupAgain
  <2>2. StrayAccess \in wild' <=> StrayAccess \in wild
    BY <1>9 DEF CleanupEnd, CleanupAgain, StrayAccess
  <2>3. /\ InRings("txdesc")' = InRings("txdesc")
        /\ \A i \in Indices("txdesc") : Even(Cardinality(Left(i)))' = Even(Cardinality(Left(i)))
    BY <1>2, <2>1 DEF InRings, Left, Even
  <2> QED
    BY <1>1, <1>2, <2>1, <2>2, <2>3 DEF WildInv, CleanPlaces
<1>11. CASE CleanTxdescStuck
  <2>1. pc' = "stuck" /\ where' = where /\ StrayAccess \in wild'
    BY <1>11 DEF CleanTxdescStuck
  <2>2. PICK i \in Indices("txdesc") : Left(i) # {}
    BY <1>11 DEF CleanTxdescStuck
  <2>3. <<"txdesc", i>> \in Rings("txdesc")
    BY InRing DEF Kinds
  <2>4. InRings("txdesc")' # {}
    BY <1>2, <2>1, <2>2, <2>3 DEF InRings, Left
  <2> QED
    BY <2>1, <2>4 DEF WildInv, CleanPlaces
<1>10. CASE UNCHANGED vars
  <2>1. UNCHANGED <<pc, kind, arrays, wild, where>>
    BY <1>10 DEF vars, loopVars, ringVars
  <2>2. /\ InRings("txdesc")' = InRings("txdesc")
        /\ \A i \in Indices("txdesc") : Even(Cardinality(Left(i)))' = Even(Cardinality(Left(i)))
    BY <1>2, <2>1 DEF InRings, Left, Even
  <2> QED
    BY <1>1, <1>2, <2>1, <2>2 DEF WildInv
<1> QED
  BY <1>3, <1>4, <1>5, <1>6, <1>7, <1>8, <1>9, <1>10, <1>11 DEF AnyStep, SetupStep, CleanStep

\* The walk through the rings of a kind leaves no buffer there, and puts none
\* into a ring.
LEMMA FreedOf ==
  ASSUME IInv, NEW k \in Kinds, FreeBuffers(k), tree' = tree
  PROVE  /\ \A b \in Bufs : where'[b] \notin Rings(k)
         /\ \A b \in Bufs : where'[b] = where[b] \/ where'[b] = Out
<1>1. Out \notin Rings(k)
  BY RingIsNotOut
<1> QED
  BY <1>1 DEF FreeBuffers, InRings

LEMMA WhereKept == ASSUME IInv, AnyStep PROVE WhereInv'
<1>1. WhereInv /\ PlaceTypes
  BY TypeParts DEF IInv
<1>2. tree' = tree /\ \A k : Rings(k)' = Rings(k)
  BY TreeFixed, RingsFixed
<1>3. CASE InitStep
  BY <1>1, <1>3 DEF WhereInv, InitPlaces, InitStep, RequestRegion, MapRegisters, Reset,
       MapTxdesc, AllocRings, HwInitFails
<1>4. CASE SetupStep
  BY <1>1, <1>4 DEF WhereInv, InitPlaces, SetupStep, SetupRing, SetupRingFails, Configure,
       MapRxdesc, Enable, HwInitFails
<1>5. CASE MoveStep
  BY <1>5, MoveKeeps DEF WhereInv, InitPlaces
<1>6. CASE (\E exit \in BOOLEAN : CleanupBegin(exit)) \/ DisableTx
  BY <1>6 DEF WhereInv, InitPlaces, CleanupBegin, DisableTx
<1>7. CASE DisableFill
  <2>1. pc' = "clean" /\ kind' = "txdesc"
    BY <1>7 DEF DisableFill
  <2>2. Earlier(kind') = {}
    BY <2>1 DEF Earlier
  <2> QED
    BY <2>1, <2>2 DEF WhereInv, InitPlaces
<1>8. CASE CleanRings
  <2>1. pc = "clean" /\ kind \in Kinds
    BY <1>1, <1>8 DEF CleanRings, PlaceTypes
  <2>2. \A b \in Bufs : where'[b] = where[b] \/ where'[b] = Out
    <3>1. CASE UNCHANGED where
      BY <3>1
    <3>2. CASE \E k \in Kinds : FreeBuffers(k)
      BY <1>2, <3>2, FreedOf
    <3> QED
      BY <1>8, <3>1, <3>2 DEF CleanRings, CleanTxdesc, CleanTxcmpl, CleanRxfill,
           CleanRxdesc, Kinds
  <2>3. kind # "txdesc" => \A b \in Bufs : where'[b] \notin Rings(kind)
    <3>1. kind # "txdesc" => FreeBuffers(kind)
      BY <1>8 DEF CleanRings, CleanTxcmpl, CleanRxfill, CleanRxdesc
    <3> QED
      BY <1>2, <2>1, <3>1, FreedOf
  <2>4. \A b \in Bufs, e \in Earlier(kind) \ {"txdesc"} : where[b] \notin Rings(e)
    BY <1>1, <2>1 DEF WhereInv
  <2>5. Earlier(kind) \subseteq Kinds
    BY <2>1 DEF Earlier, Kinds
  <2>6. \A b \in Bufs, e \in (Earlier(kind) \cup {kind}) \ {"txdesc"} :
          where'[b] \notin Rings(e)
    BY <2>1, <2>2, <2>3, <2>4, <2>5, RingIsNotOut
  <2>7. CASE kind = "rxdesc"
    <3>1. pc' = "unmap"
      BY <1>8, <2>7 DEF CleanRings
    <3>2. Earlier(kind) \cup {kind} = Kinds
      BY <2>7 DEF Earlier, Kinds
    <3> QED
      BY <1>2, <2>6, <3>1, <3>2 DEF WhereInv, InitPlaces
  <2>8. CASE kind # "rxdesc"
    <3>1. pc' = "clean" /\ kind' = NextKind[kind]
      BY <1>8, <2>1, <2>8 DEF CleanRings
    <3>2. Earlier(kind') = Earlier(kind) \cup {kind}
      <4>1. CASE kind = "txdesc"
        BY <3>1, <4>1 DEF NextKind, Earlier
      <4>2. CASE kind = "txcmpl"
        BY <3>1, <4>2 DEF NextKind, Earlier
      <4>3. CASE kind = "rxfill"
        BY <3>1, <4>3 DEF NextKind, Earlier
      <4> QED
        BY <2>1, <2>8, <4>1, <4>2, <4>3 DEF Kinds
    <3> QED
      BY <1>2, <2>6, <3>1, <3>2 DEF WhereInv, InitPlaces
  <2> QED
    BY <2>7, <2>8
<1>9. CASE CleanTxdescStuck \/ CleanupEnd \/ CleanupAgain
  BY <1>1, <1>2, <1>9 DEF WhereInv, InitPlaces, CleanTxdescStuck, CleanupEnd, CleanupAgain
<1>10. CASE UNCHANGED vars
  BY <1>1, <1>2, <1>10 DEF WhereInv, vars, loopVars
<1> QED
  BY <1>3, <1>4, <1>5, <1>6, <1>7, <1>8, <1>9, <1>10 DEF AnyStep, DisableStep, CleanStep

-----------------------------------------------------------------------------
(* Theorems                                                                *)

\* What the driver holds follows from where it is in edma_init, edma_hw_init and
\* edma_cleanup, for any device tree.
THEOREM Invariance == Spec => []IInv
<1>1. IInv /\ [Next]_vars => IInv'
  BY Steps, TypeOKKept, MemKept, UnitKept, EnabledKept, PortKept, WildKept, WhereKept DEF IInv
<1> QED
  BY <1>1, InitIInv, PTL DEF Spec

\* The hardware never runs on memory that the driver has not allocated or has
\* freed: an enabled ring has a base address and its descriptors, and the
\* registers stay mapped until the last ring is disabled.
THEOREM RingsAreBacked == Spec => []RingsBacked
<1>1. IInv => RingsBacked
  <2> SUFFICES ASSUME IInv PROVE RingsBacked
    OBVIOUS
  <2>1. TypeOK /\ MemInv /\ UnitInv /\ EnabledInv /\ PlaceTypes /\ RingTypes
    BY TypeParts DEF IInv
  <2>2. enabled \subseteq mem \cap base
    BY <2>1 DEF MemInv, EnabledInv, RingTypes
  <2>3. enabled # {} => mapped /\ port_en
    BY <2>1 DEF UnitInv, EnabledInv
  <2>4. mem # {} => mapped /\ arrays = Kinds
    BY <2>1 DEF UnitInv, MemInv, PlaceTypes
  <2> QED
    BY <2>1, <2>2, <2>3, <2>4 DEF RingsBacked
<1> QED
  BY <1>1, Invariance, PTL

\* Wherever edma_init fails, it has given back the region, the mapping and the
\* descriptors of every ring; the only release of something never allocated is
\* that of index -1 of the TXDESC or TXCMPL rings.
THEOREM FailureReleases == Spec => []InitFailureReleases
<1>1. IInv => InitFailureReleases
  <2> SUFFICES ASSUME IInv, pc = "failed" PROVE InitFailureReleases
    BY DEF InitFailureReleases
  <2>1. MemInv /\ UnitInv /\ EnabledInv /\ WildInv /\ WhereInv
    BY DEF IInv
  <2>2. ~region /\ ~mapped /\ mem = {} /\ enabled = {} /\ ~edma_initialized
    BY <2>1 DEF MemInv, UnitInv, EnabledInv
  <2>3. \A b \in Bufs : where[b] = Out
    BY <2>1 DEF WhereInv
  <2>4. wild # {} => arrays = Kinds /\ wild = {<<kind, -1>>} /\ kind \in {"txdesc", "txcmpl"}
    BY <2>1 DEF WildInv
  <2> QED
    BY <2>2, <2>3, <2>4 DEF InitFailureReleases
<1> QED
  BY <1>1, Invariance, PTL

\* edma_cleanup comes to its end unless a TXDESC ring has packets, and then gives
\* back everything but the buffers that the hardware has not reported; with an
\* even number of packets it may end as well, after stray accesses and without
\* having released them.  It disables the port at the exit of the module unless an
\* override has cleaned up before.
THEOREM CleanupGivesBack == Spec => []CleanupReleases
<1>1. IInv => CleanupReleases
  <2> SUFFICES ASSUME IInv PROVE CleanupReleases
    OBVIOUS
  <2>1. MemInv /\ UnitInv /\ EnabledInv /\ PortInv /\ WildInv /\ WhereInv /\ BufTypes
    BY TypeParts DEF IInv
  <2>6. pc = "stuck" => InRings("txdesc") # {} /\ StrayAccess \in wild /\ enabled = {}
    BY <2>1 DEF WildInv, EnabledInv
  <2>7. ASSUME pc = "cleaned"
        PROVE  \A i \in Indices("txdesc") : Even(Cardinality(Left(i)))
    BY <2>1, <2>7 DEF WildInv, CleanPlaces
  <2>2. ASSUME pc = "cleaned"
        PROVE  ~region /\ ~mapped /\ mem = {} /\ arrays = {} /\ enabled = {}
    BY <2>1, <2>2 DEF MemInv, UnitInv, EnabledInv
  <2>3. ASSUME pc = "cleaned"
        PROVE  \A b \in Bufs : where[b] \in {Out} \cup Rings("txdesc") \cup ({"hw"} \X AllRings)
    <3>1. \A b \in Bufs : where[b] \in {Out} \cup AllRings \cup ({"hw"} \X AllRings)
      BY <2>1 DEF BufTypes, Places
    <3>2. \A b \in Bufs, e \in {"txcmpl", "rxfill", "rxdesc"} : where[b] \notin Rings(e)
      BY <2>1, <2>3 DEF WhereInv, Kinds
    <3> QED
      BY <3>1, <3>2, AllRingsOf
  <2>4. pc = "cleaned" => (StrayAccess \in wild <=> InRings("txdesc") # {})
    BY <2>1 DEF WildInv, CleanPlaces
  <2>5. pc = "cleaned" /\ idx = 1 => (port_en <=> <<"port_ctrl", 0>> \in wild)
    BY <2>1 DEF PortInv, CleanPlaces
  <2> QED
    BY <2>2, <2>3, <2>4, <2>5, <2>6, <2>7 DEF CleanupReleases
<1> QED
  BY <1>1, Invariance, PTL

-----------------------------------------------------------------------------
(* The map registers, for rings that the hardware has                      *)

\* EDMA_MAX_..._RINGS of the build for IPQ807x: the rings of the device tree are
\* among those of the hardware.
MaxRings == [txdesc |-> 24, txcmpl |-> 8, rxfill |-> 8, rxdesc |-> 16]
TreeExists == \A k \in Kinds : tree[k].start + tree[k].rings <= MaxRings[k]

\* The register for a ring number, and the ring that the driver assumes for ring
\* i of this driver.
TxReg(n) == IF n <= 9 THEN 0 ELSE IF n <= 19 THEN 1 ELSE 2
RxReg(n) == IF n <= 9 THEN 0 ELSE 1
TxTarget(i) == Start("txcmpl") + (i % tree["txcmpl"].rings)
RxTarget(i) == Start("rxfill") + RxfillOf(i)

\* The registers have the fields of the first n rings and nothing else.
TxWritten(n) ==
  \A r \in 0 .. 2, b \in 0 .. 29 : b \in txmap[r] <=>
    \E j \in 0 .. n - 1 :
      TxReg(Start("txdesc") + j) = r /\ b \in Field(TxTarget(j), Start("txdesc") + j)
RxWritten(n) ==
  \A r \in 0 .. 1, b \in 0 .. 29 : b \in rxmap[r] <=>
    \E j \in 0 .. n - 1 :
      RxReg(Start("rxdesc") + j) = r /\ b \in Field(RxTarget(j), Start("rxdesc") + j)

\* How far the loops of edma_hw_init and edma_configure_rings have come.
TxMapInv ==
  /\ pc = "txmap" =>
       idx < tree["txdesc"].rings /\ desc_index = TxTarget(idx) /\ TxWritten(idx)
  /\ pc \notin {"region", "map", "reset", "txmap", "failed"} =>
       TxWritten(tree["txdesc"].rings)
RxMapInv ==
  /\ pc = "rxmap" => idx < tree["rxdesc"].rings /\ RxWritten(idx)
  /\ pc \in {"enable", "running", "disable_tx", "disable_fill", "clean", "stuck", "unmap",
             "cleaned"} =>
       RxWritten(tree["rxdesc"].rings)

\* Quotient and remainder, and that there are no others.
LEMMA DivMod ==
  ASSUME NEW i \in Nat, NEW n \in Nat \ {0}
  PROVE  i \div n \in Nat /\ i % n \in 0 .. n - 1 /\ i = n * (i \div n) + (i % n)
OBVIOUS

LEMMA DivModUnique ==
  ASSUME NEW n \in Nat \ {0}, NEW q \in Int, NEW p \in Int,
         NEW r \in 0 .. n - 1, NEW s \in 0 .. n - 1, n * q + r = n * p + s
  PROVE  r = s
<1> DEFINE d == q - p
<1>1. d \in Int /\ n * d = s - r
  OBVIOUS
<1> HIDE DEF d
<1>2. ASSUME d >= 1 PROVE n * d >= n
  BY <1>1, <1>2
<1>3. ASSUME d <= -1 PROVE n * d <= -n
  BY <1>1, <1>3
<1>4. d = 0
  BY <1>1, <1>2, <1>3
<1> QED
  BY <1>1, <1>4

\* Turning back at the end is the remainder.
LEMMA TurnBack ==
  ASSUME NEW i \in Nat, NEW n \in Nat \ {0}
  PROVE  (i + 1) % n = IF (i % n) + 1 = n THEN 0 ELSE (i % n) + 1
<1> DEFINE q == i \div n
           r == i % n
           p == (i + 1) \div n
           s == (i + 1) % n
<1>1. q \in Nat /\ r \in 0 .. n - 1 /\ i = n * q + r
  BY DivMod
<1>2. p \in Nat /\ s \in 0 .. n - 1 /\ i + 1 = n * p + s
  <2>1. i + 1 \in Nat
    OBVIOUS
  <2> QED
    BY <2>1, DivMod
<1> HIDE DEF q, r, p, s
<1>3. CASE r + 1 = n
  <2>1. n * (q + 1) + 0 = n * p + s
    BY <1>1, <1>2, <1>3
  <2>2. s = 0
    BY <1>1, <1>2, <2>1, DivModUnique
  <2> QED
    BY <1>3, <2>2 DEF r, s
<1>4. CASE r + 1 # n
  <2>1. n * q + (r + 1) = n * p + s /\ r + 1 \in 0 .. n - 1
    BY <1>1, <1>2, <1>4
  <2>2. s = r + 1
    BY <1>1, <1>2, <2>1, DivModUnique
  <2> QED
    BY <1>4, <2>2 DEF r, s
<1> QED
  BY <1>3, <1>4

\* Bit c of a ring number.
HasBit(v, c) == (v \div 2^c) % 2 = 1

\* Bit c of the field of ring i is set by a write for ring k only if both have
\* the same place in a register.
LEMMA FieldBit ==
  ASSUME NEW v \in Nat, NEW i \in Nat, NEW k \in Nat, NEW c \in 0 .. 2
  PROVE  c + (i % 10) * 3 \in Field(v, k) <=> k % 10 = i % 10 /\ HasBit(v, c)
<1>1. i % 10 \in 0 .. 9 /\ k % 10 \in 0 .. 9
  OBVIOUS
<1>2. \A d \in 0 .. 2 : c + (i % 10) * 3 = d + (k % 10) * 3 => c = d /\ k % 10 = i % 10
  BY <1>1
<1> QED
  BY <1>1, <1>2 DEF Field, HasBit

\* Different rings of one register have different places.
LEMMA PlaceInReg ==
  ASSUME NEW i \in 0 .. 23, NEW k \in 0 .. 23, k % 10 = i % 10
  PROVE  /\ TxReg(i) = TxReg(k) => i = k
         /\ i < 16 /\ k < 16 /\ RxReg(i) = RxReg(k) => i = k
BY DEF TxReg, RxReg

\* Three bits make up a ring number below 8.
LEMMA ThreeBits ==
  ASSUME NEW v \in 0 .. 7
  PROVE  v = (IF HasBit(v, 0) THEN 2^0 ELSE 0)
               + (IF HasBit(v, 1) THEN 2^1 ELSE 0)
               + (IF HasBit(v, 2) THEN 2^2 ELSE 0)
<1>1. 2^0 = 1 /\ 2^1 = 2 /\ 2^2 = 4
  OBVIOUS
<1> QED
  BY <1>1 DEF HasBit

\* One more ring is written to a register.
LEMMA TxWriteOne ==
  ASSUME TypeOK, tree' = tree, NEW n \in Nat, TxWritten(n),
         txmap' = [txmap EXCEPT ![TxReg(Start("txdesc") + n)] =
                                  @ \cup Field(TxTarget(n), Start("txdesc") + n)]
  PROVE  TxWritten(n + 1)'
<1> DEFINE W(r, b, j) ==
      TxReg(Start("txdesc") + j) = r /\ b \in Field(TxTarget(j), Start("txdesc") + j)
<1>1. txmap \in [0 .. 2 -> SUBSET (0 .. 29)]
  BY TypeParts DEF MapTypes
<1>2. \A r \in 0 .. 2, b \in 0 .. 29 : b \in txmap[r] <=> \E j \in 0 .. n - 1 : W(r, b, j)
  BY DEF TxWritten
<1>3. \A r \in 0 .. 2, b \in 0 .. 29 : b \in txmap'[r] <=> b \in txmap[r] \/ W(r, b, n)
  BY <1>1
<1>4. TxWritten(n + 1)' <=>
        \A r \in 0 .. 2, b \in 0 .. 29 : b \in txmap'[r] <=>
          \E j \in 0 .. n + 1 - 1 : W(r, b, j)
  BY DEF TxWritten, TxTarget, Start
<1>5. \A r, b : (\E j \in 0 .. n + 1 - 1 : W(r, b, j)) <=>
                (\E j \in 0 .. n - 1 : W(r, b, j)) \/ W(r, b, n)
  <2> HIDE DEF W
  <2>1. 0 .. n + 1 - 1 = (0 .. n - 1) \cup {n}
    OBVIOUS
  <2> QED
    BY <2>1
<1> HIDE DEF W
<1> QED
  BY <1>2, <1>3, <1>4, <1>5

LEMMA RxWriteOne ==
  ASSUME TypeOK, tree' = tree, NEW n \in Nat, RxWritten(n),
         rxmap' = [rxmap EXCEPT ![RxReg(Start("rxdesc") + n)] =
                                  @ \cup Field(RxTarget(n), Start("rxdesc") + n)]
  PROVE  RxWritten(n + 1)'
<1> DEFINE W(r, b, j) ==
      RxReg(Start("rxdesc") + j) = r /\ b \in Field(RxTarget(j), Start("rxdesc") + j)
<1>1. rxmap \in [0 .. 1 -> SUBSET (0 .. 29)]
  BY TypeParts DEF MapTypes
<1>2. \A r \in 0 .. 1, b \in 0 .. 29 : b \in rxmap[r] <=> \E j \in 0 .. n - 1 : W(r, b, j)
  BY DEF RxWritten
<1>3. \A r \in 0 .. 1, b \in 0 .. 29 : b \in rxmap'[r] <=> b \in rxmap[r] \/ W(r, b, n)
  BY <1>1
<1>4. RxWritten(n + 1)' <=>
        \A r \in 0 .. 1, b \in 0 .. 29 : b \in rxmap'[r] <=>
          \E j \in 0 .. n + 1 - 1 : W(r, b, j)
  BY DEF RxWritten, RxTarget, RxfillOf, Start
<1>5. \A r, b : (\E j \in 0 .. n + 1 - 1 : W(r, b, j)) <=>
                (\E j \in 0 .. n - 1 : W(r, b, j)) \/ W(r, b, n)
  <2> HIDE DEF W
  <2>1. 0 .. n + 1 - 1 = (0 .. n - 1) \cup {n}
    OBVIOUS
  <2> QED
    BY <2>1
<1> HIDE DEF W
<1> QED
  BY <1>2, <1>3, <1>4, <1>5

\* Registers that are not written keep what they have.
LEMMA WrittenKept ==
  ASSUME tree' = tree, NEW n \in Nat
  PROVE  /\ txmap' = txmap => (TxWritten(n)' <=> TxWritten(n))
         /\ rxmap' = rxmap => (RxWritten(n)' <=> RxWritten(n))
         /\ txmap' = [r \in 0 .. 2 |-> {}] => TxWritten(0)'
         /\ rxmap' = [r \in 0 .. 1 |-> {}] => RxWritten(0)'
<1>1. txmap' = txmap => (TxWritten(n)' <=> TxWritten(n))
  BY DEF TxWritten, TxTarget, Start
<1>2. rxmap' = rxmap => (RxWritten(n)' <=> RxWritten(n))
  BY DEF RxWritten, RxTarget, RxfillOf, Start
<1>3. txmap' = [r \in 0 .. 2 |-> {}] => TxWritten(0)'
  BY DEF TxWritten
<1>4. rxmap' = [r \in 0 .. 1 |-> {}] => RxWritten(0)'
  BY DEF RxWritten
<1> QED
  BY <1>1, <1>2, <1>3, <1>4

LEMMA TxMapKept == ASSUME IInv, TxMapInv, AnyStep PROVE TxMapInv'
<1>1. tree' = tree /\ TypeOK /\ PlaceTypes
  BY TreeFixed, TypeParts DEF IInv
<1> DEFINE C == tree["txcmpl"].rings
<1>2. PICK T \in Nat \ {0}, n \in Nat : T = tree["txdesc"].rings /\ n = idx
  BY <1>1, TreeNumbers DEF PlaceTypes, Kinds
<1>3. C \in Nat \ {0} /\ tree["txcmpl"].start \in Nat
  BY <1>1, TreeNumbers DEF PlaceTypes, Kinds
<1>4. tree'["txdesc"].rings = T
  BY <1>1, <1>2
<1>5. SUFFICES
        /\ pc' = "txmap" => idx' < T /\ desc_index' = TxTarget(idx)' /\ TxWritten(idx)'
        /\ pc' \notin {"region", "map", "reset", "txmap", "failed"} => TxWritten(T)'
  BY <1>4 DEF TxMapInv, TxWritten
<1>6. CASE Reset
  <2>1. CASE pc' = "txmap"
    <3>1. idx' = 0 /\ desc_index' = Start("txcmpl") /\ txmap' = [r \in 0 .. 2 |-> {}]
      BY <1>6, <2>1 DEF Reset, HwInitFails
    <3>2. TxTarget(idx)' = Start("txcmpl")
      BY <1>1, <1>3, <3>1 DEF TxTarget, Start
    <3>3. TxWritten(0)'
      BY <1>1, <3>1, WrittenKept
    <3> QED
      BY <1>2, <2>1, <3>1, <3>2, <3>3 DEF TxWritten
  <2> QED
    BY <1>6, <2>1 DEF Reset, HwInitFails
<1>7. CASE MapTxdesc
  <2>1. /\ n < T /\ desc_index = TxTarget(n) /\ TxWritten(n)
        /\ idx' = n + 1 /\ pc' = IF n + 1 = T THEN "alloc" ELSE "txmap"
        /\ desc_index' = IF desc_index + 1 = Start("txcmpl") + C
                           THEN Start("txcmpl") ELSE desc_index + 1
    BY <1>2, <1>7 DEF MapTxdesc, TxMapInv
  <2>2. txmap' = [txmap EXCEPT ![TxReg(Start("txdesc") + n)] =
                                 @ \cup Field(TxTarget(n), Start("txdesc") + n)]
    BY <1>2, <1>7, <2>1 DEF MapTxdesc, TxReg
  <2>3. TxWritten(n + 1)'
    BY <1>1, <2>1, <2>2, TxWriteOne
  <2>4. desc_index' = Start("txcmpl") + ((n + 1) % C)
    <3>1. (n + 1) % C = IF (n % C) + 1 = C THEN 0 ELSE (n % C) + 1
      BY <1>3, TurnBack
    <3>2. n % C \in Nat
      BY <1>3
    <3>3. desc_index = Start("txcmpl") + (n % C) /\ Start("txcmpl") \in Nat
      BY <1>3, <2>1 DEF TxTarget, Start
    <3> HIDE DEF C
    <3> QED
      BY <1>3, <2>1, <3>1, <3>2, <3>3
  <2>5. TxTarget(idx)' = Start("txcmpl") + ((n + 1) % C)
    BY <1>1, <2>1 DEF TxTarget, Start
  <2>6. CASE n + 1 = T
    BY <2>1, <2>3, <2>6
  <2>7. CASE n + 1 # T
    BY <2>1, <2>3, <2>4, <2>5, <2>7 DEF TxWritten
  <2> QED
    BY <2>6, <2>7
<1>8. CASE ~Reset /\ ~MapTxdesc
  <2>1. CASE pc' = "txmap"
    <3>1. pc = "txmap" /\ idx' = n /\ desc_index' = desc_index /\ txmap' = txmap
      BY <1>2, <1>8, <2>1, MoveKeeps
      DEF AnyStep, InitStep, SetupStep, DisableStep, CleanStep, RequestRegion, MapRegisters,
          AllocRings, SetupRing, SetupRingFails, Configure, MapRxdesc, Enable, CleanupBegin,
          DisableTx, DisableFill, CleanRings, CleanTxdescStuck, CleanupEnd, CleanupAgain, HwInitFails, vars,
          loopVars, mapVars
    <3>2. TxTarget(idx)' = TxTarget(n) /\ TxWritten(n)'
      BY <1>1, <1>2, <3>1, WrittenKept DEF TxTarget, Start, TxMapInv
    <3> QED
      BY <1>2, <2>1, <3>1, <3>2 DEF TxMapInv, TxWritten
  <2>2. CASE pc' \notin {"region", "map", "reset", "txmap", "failed"}
    <3>1. pc \notin {"region", "map", "reset", "txmap", "failed"} /\ txmap' = txmap
      BY <1>8, <2>2, MoveKeeps
      DEF AnyStep, InitStep, SetupStep, DisableStep, CleanStep, RequestRegion, MapRegisters,
          AllocRings, SetupRing, SetupRingFails, Configure, MapRxdesc, Enable, CleanupBegin,
          DisableTx, DisableFill, CleanRings, CleanTxdescStuck, CleanupEnd, CleanupAgain, HwInitFails, vars,
          mapVars
    <3> QED
      BY <1>1, <1>2, <2>2, <3>1, WrittenKept DEF TxMapInv
  <2> QED
    BY <2>1, <2>2
<1> QED
  BY <1>6, <1>7, <1>8

LEMMA RxMapKept == ASSUME IInv, RxMapInv, AnyStep PROVE RxMapInv'
<1>1. tree' = tree /\ TypeOK /\ PlaceTypes
  BY TreeFixed, TypeParts DEF IInv
<1> DEFINE Later ==
      {"enable", "running", "disable_tx", "disable_fill", "clean", "stuck", "unmap",
             "cleaned"}
<1>2. PICK R \in Nat \ {0}, n \in Nat : R = tree["rxdesc"].rings /\ n = idx
  BY <1>1, TreeNumbers DEF PlaceTypes, Kinds
<1>3. tree'["rxdesc"].rings = R
  BY <1>1, <1>2
<1>4. SUFFICES /\ pc' = "rxmap" => idx' < R /\ RxWritten(idx)'
               /\ pc' \in Later => RxWritten(R)'
  BY <1>3 DEF RxMapInv, RxWritten
<1>5. CASE Configure
  <2>1. idx' = 0 /\ pc' = "rxmap" /\ RxWritten(0)'
    BY <1>1, <1>5, WrittenKept DEF Configure
  <2> QED
    BY <1>2, <2>1 DEF RxWritten
<1>6. CASE MapRxdesc
  <2>1. /\ n < R /\ RxWritten(n)
        /\ idx' = n + 1 /\ pc' = IF n + 1 = R THEN "enable" ELSE "rxmap"
    BY <1>2, <1>6 DEF MapRxdesc, RxMapInv
  <2>2. rxmap' = [rxmap EXCEPT ![RxReg(Start("rxdesc") + n)] =
                                 @ \cup Field(RxTarget(n), Start("rxdesc") + n)]
    BY <1>2, <1>6 DEF MapRxdesc, RxReg, RxTarget
  <2>3. RxWritten(n + 1)'
    BY <1>1, <2>1, <2>2, RxWriteOne
  <2>4. CASE n + 1 = R
    BY <2>1, <2>3, <2>4
  <2>5. CASE n + 1 # R
    BY <2>1, <2>3, <2>5 DEF RxWritten
  <2> QED
    BY <2>4, <2>5
<1>7. CASE ~Configure /\ ~MapRxdesc
  <2>1. CASE pc' = "rxmap"
    <3>1. pc = "rxmap" /\ idx' = n /\ rxmap' = rxmap
      BY <1>2, <1>7, <2>1, MoveKeeps
      DEF AnyStep, InitStep, SetupStep, DisableStep, CleanStep, RequestRegion, MapRegisters,
          Reset, MapTxdesc, AllocRings, SetupRing, SetupRingFails, Enable, CleanupBegin,
          DisableTx, DisableFill, CleanRings, CleanTxdescStuck, CleanupEnd, CleanupAgain, HwInitFails, vars,
          loopVars, mapVars
    <3>2. RxWritten(n)'
      BY <1>1, <1>2, <3>1, WrittenKept DEF RxMapInv
    <3> QED
      BY <1>2, <2>1, <3>1, <3>2 DEF RxMapInv, RxWritten
  <2>2. CASE pc' \in Later
    <3>1. pc \in Later /\ rxmap' = rxmap
      BY <1>7, <2>2, MoveKeeps
      DEF AnyStep, InitStep, SetupStep, DisableStep, CleanStep, RequestRegion, MapRegisters,
          Reset, MapTxdesc, AllocRings, SetupRing, SetupRingFails, Enable, CleanupBegin,
          DisableTx, DisableFill, CleanRings, CleanTxdescStuck, CleanupEnd, CleanupAgain, HwInitFails, vars,
          mapVars
    <3> QED
      BY <1>1, <1>2, <2>2, <3>1, WrittenKept DEF RxMapInv
  <2> QED
    BY <2>1, <2>2
<1> QED
  BY <1>5, <1>6, <1>7

\* What the register says for ring i of this driver, once all rings are written.
LEMMA TxDecoded ==
  ASSUME TypeOK, TreeExists, TxWritten(tree["txdesc"].rings), NEW i \in Indices("txdesc")
  PROVE  TxcmplOf(i) = TxTarget(i)
<1> DEFINE S == Start("txdesc")
           T == tree["txdesc"].rings
           v == TxTarget(i)
           n == S + i
           Is(c) == c + (n % 10) * 3 \in txmap[TxReg(n)]
<1>1. /\ S \in Nat /\ T \in Nat \ {0} /\ S + T <= 24
      /\ \A j \in 0 .. T - 1 : TxTarget(j) \in 0 .. 7
  <2>1. tree \in Trees
    BY TypeParts DEF PlaceTypes
  <2>2. \A k \in Kinds : tree[k].start \in Nat /\ tree[k].rings \in Nat \ {0}
    BY <2>1, TreeNumbers
  <2>3. S \in Nat /\ T \in Nat \ {0} /\ S + T <= 24
    BY <2>2 DEF TreeExists, MaxRings, Kinds, Start
  <2>4. PICK s \in Nat, r \in Nat \ {0} :
          s = tree["txcmpl"].start /\ r = tree["txcmpl"].rings /\ s + r <= 8
    BY <2>2 DEF TreeExists, MaxRings, Kinds
  <2>5. ASSUME NEW j \in Nat PROVE TxTarget(j) \in 0 .. 7
    <3>1. j % r \in 0 .. r - 1
      BY DivMod
    <3>2. TxTarget(j) = s + (j % r)
      BY <2>4 DEF TxTarget, Start
    <3> QED
      BY <2>4, <3>1, <3>2
  <2> QED
    BY <2>3, <2>5
<1>2. i \in 0 .. T - 1 /\ n \in 0 .. 23
  BY <1>1 DEF Indices
<1>3. n % 10 \in 0 .. 9 /\ TxReg(n) \in 0 .. 2
  BY <1>2 DEF TxReg
<1>4. ASSUME NEW c \in 0 .. 2 PROVE Is(c) <=> HasBit(v, c)
  <2> DEFINE b == c + (n % 10) * 3
  <2>1. b \in 0 .. 29
    BY <1>3
  <2>2. Is(c) <=> \E j \in 0 .. T - 1 : TxReg(S + j) = TxReg(n) /\ b \in Field(TxTarget(j), S + j)
    BY <1>3, <2>1 DEF TxWritten
  <2>3. ASSUME NEW j \in 0 .. T - 1
        PROVE  (TxReg(S + j) = TxReg(n) /\ b \in Field(TxTarget(j), S + j)) <=> j = i /\ HasBit(TxTarget(j), c)
    <3>1. S + j \in 0 .. 23 /\ TxTarget(j) \in Nat
      BY <1>1
    <3>2. b \in Field(TxTarget(j), S + j) <=> (S + j) % 10 = n % 10 /\ HasBit(TxTarget(j), c)
      <4>1. PICK w \in Nat, k \in Nat, m \in Nat : w = TxTarget(j) /\ k = S + j /\ m = n
        BY <1>2, <3>1
      <4> HIDE DEF S, n
      <4>2. c + (m % 10) * 3 \in Field(w, k) <=> k % 10 = m % 10 /\ HasBit(w, c)
        BY FieldBit
      <4> QED
        BY <4>1, <4>2
    <3>3. TxReg(S + j) = TxReg(n) /\ (S + j) % 10 = n % 10 => j = i
      BY <1>1, <1>2, <3>1, PlaceInReg
    <3> HIDE DEF b
    <3> QED
      BY <3>2, <3>3
  <2> HIDE DEF b, Is, T, S
  <2>4. Is(c) <=> \E j \in 0 .. T - 1 : j = i /\ HasBit(TxTarget(j), c)
    BY <2>2, <2>3
  <2> QED
    BY <1>2, <2>4
<1>5. TxcmplOf(i) = (IF Is(0) THEN 2^0 ELSE 0) + (IF Is(1) THEN 2^1 ELSE 0)
                      + (IF Is(2) THEN 2^2 ELSE 0)
  BY DEF TxcmplOf, Decode, TxReg
<1>6. v = (IF HasBit(v, 0) THEN 2^0 ELSE 0)
            + (IF HasBit(v, 1) THEN 2^1 ELSE 0)
            + (IF HasBit(v, 2) THEN 2^2 ELSE 0)
  BY <1>1, <1>2, ThreeBits
<1> HIDE DEF v, Is
<1>7. TxcmplOf(i) = v
  BY <1>4, <1>5, <1>6
<1> QED
  BY <1>7 DEF v

LEMMA RxDecoded ==
  ASSUME TypeOK, TreeExists, RxWritten(tree["rxdesc"].rings), NEW i \in Indices("rxdesc")
  PROVE  RxfillIdOf(i) = RxTarget(i)
<1> DEFINE S == Start("rxdesc")
           T == tree["rxdesc"].rings
           v == RxTarget(i)
           n == S + i
           Is(c) == c + (n % 10) * 3 \in rxmap[RxReg(n)]
<1>1. /\ S \in Nat /\ T \in Nat \ {0} /\ S + T <= 16
      /\ \A j \in 0 .. T - 1 : RxTarget(j) \in 0 .. 7
  <2>1. tree \in Trees
    BY TypeParts DEF PlaceTypes
  <2>2. \A k \in Kinds : tree[k].start \in Nat /\ tree[k].rings \in Nat \ {0}
    BY <2>1, TreeNumbers
  <2>3. S \in Nat /\ T \in Nat \ {0} /\ S + T <= 16
    BY <2>2 DEF TreeExists, MaxRings, Kinds, Start
  <2>4. PICK s \in Nat, r \in Nat \ {0} :
          s = tree["rxfill"].start /\ r = tree["rxfill"].rings /\ s + r <= 8
    BY <2>2 DEF TreeExists, MaxRings, Kinds
  <2>5. ASSUME NEW j \in Nat PROVE RxTarget(j) \in 0 .. 7
    <3>1. j % r \in 0 .. r - 1
      BY DivMod
    <3>2. RxTarget(j) = s + (j % r)
      BY <2>4 DEF RxTarget, RxfillOf, Start
    <3> QED
      BY <2>4, <3>1, <3>2
  <2> QED
    BY <2>3, <2>5
<1>2. i \in 0 .. T - 1 /\ n \in 0 .. 15
  BY <1>1 DEF Indices
<1>3. n % 10 \in 0 .. 9 /\ RxReg(n) \in 0 .. 1
  BY <1>2 DEF RxReg
<1>4. ASSUME NEW c \in 0 .. 2 PROVE Is(c) <=> HasBit(v, c)
  <2> DEFINE b == c + (n % 10) * 3
  <2>1. b \in 0 .. 29
    BY <1>3
  <2>2. Is(c) <=> \E j \in 0 .. T - 1 : RxReg(S + j) = RxReg(n) /\ b \in Field(RxTarget(j), S + j)
    BY <1>3, <2>1 DEF RxWritten
  <2>3. ASSUME NEW j \in 0 .. T - 1
        PROVE  (RxReg(S + j) = RxReg(n) /\ b \in Field(RxTarget(j), S + j)) <=> j = i /\ HasBit(RxTarget(j), c)
    <3>1. S + j \in 0 .. 15 /\ RxTarget(j) \in Nat
      BY <1>1
    <3>2. b \in Field(RxTarget(j), S + j) <=> (S + j) % 10 = n % 10 /\ HasBit(RxTarget(j), c)
      <4>1. PICK w \in Nat, k \in Nat, m \in Nat : w = RxTarget(j) /\ k = S + j /\ m = n
        BY <1>2, <3>1
      <4> HIDE DEF S, n
      <4>2. c + (m % 10) * 3 \in Field(w, k) <=> k % 10 = m % 10 /\ HasBit(w, c)
        BY FieldBit
      <4> QED
        BY <4>1, <4>2
    <3>3. RxReg(S + j) = RxReg(n) /\ (S + j) % 10 = n % 10 => j = i
      BY <1>1, <1>2, <3>1, PlaceInReg
    <3> HIDE DEF b
    <3> QED
      BY <3>2, <3>3
  <2> HIDE DEF b, Is, T, S
  <2>4. Is(c) <=> \E j \in 0 .. T - 1 : j = i /\ HasBit(RxTarget(j), c)
    BY <2>2, <2>3
  <2> QED
    BY <1>2, <2>4
<1>5. RxfillIdOf(i) = (IF Is(0) THEN 2^0 ELSE 0) + (IF Is(1) THEN 2^1 ELSE 0)
                        + (IF Is(2) THEN 2^2 ELSE 0)
  BY DEF RxfillIdOf, Decode, RxReg
<1>6. v = (IF HasBit(v, 0) THEN 2^0 ELSE 0)
            + (IF HasBit(v, 1) THEN 2^1 ELSE 0)
            + (IF HasBit(v, 2) THEN 2^2 ELSE 0)
  BY <1>1, <1>2, ThreeBits
<1> HIDE DEF v, Is
<1>7. RxfillIdOf(i) = v
  BY <1>4, <1>5, <1>6
<1> QED
  BY <1>7 DEF v

\* Rings that are not of this driver are left at zero.
LEMMA TxOthersZero ==
  ASSUME TypeOK, TxWritten(tree["txdesc"].rings)
  PROVE  UNION {txmap[r] : r \in 0 .. 2} \subseteq
           UNION {Field(7, Start("txdesc") + i) : i \in Indices("txdesc")}
<1>1. \A v, i : Field(v, i) \subseteq Field(7, i)
  <2>1. \A c \in 0 .. 2 : (7 \div 2^c) % 2 = 1
    <3>1. 2^0 = 1 /\ 2^1 = 2 /\ 2^2 = 4
      OBVIOUS
    <3>2. \A c \in 0 .. 2 : c = 0 \/ c = 1 \/ c = 2
      OBVIOUS
    <3>3. (7 \div 1) % 2 = 1 /\ (7 \div 2) % 2 = 1 /\ (7 \div 4) % 2 = 1
      OBVIOUS
    <3> QED
      BY <3>1, <3>2, <3>3
  <2> QED
    BY <2>1 DEF Field
<1>2. txmap \in [0 .. 2 -> SUBSET (0 .. 29)]
  BY TypeParts DEF MapTypes
<1>3. ASSUME NEW r \in 0 .. 2, NEW b \in txmap[r]
      PROVE  \E i \in Indices("txdesc") : b \in Field(7, Start("txdesc") + i)
  <2>1. b \in 0 .. 29
    BY <1>2
  <2>2. PICK j \in 0 .. tree["txdesc"].rings - 1 : b \in Field(TxTarget(j), Start("txdesc") + j)
    BY <2>1 DEF TxWritten
  <2> QED
    BY <1>1, <2>2 DEF Indices
<1> QED
  BY <1>3

\* The map registers of a running driver say what the driver assumes elsewhere,
\* for every device tree whose rings exist in the hardware: fields of several
\* rings share a register and never disturb each other.
THEOREM MapsAreRight == Spec => [](TreeExists => MapsAgree)
<1> DEFINE Inv == TxMapInv /\ RxMapInv
<1>1. Init => Inv
  BY DEF Init, TxMapInv, RxMapInv
<1>2. IInv /\ Inv /\ [Next]_vars => Inv'
  BY Steps, TxMapKept, RxMapKept
<1>3. IInv /\ Inv => (TreeExists => MapsAgree)
  <2> SUFFICES ASSUME IInv, Inv, TreeExists, edma_initialized PROVE MapsAgree
    BY DEF MapsAgree
  <2>1. TypeOK /\ pc \in {"running", "disable_tx", "disable_fill", "clean", "stuck", "unmap"}
    BY DEF IInv, UnitInv
  <2>2. TxWritten(tree["txdesc"].rings) /\ RxWritten(tree["rxdesc"].rings)
    BY <2>1 DEF TxMapInv, RxMapInv
  <2> QED
    BY <2>1, <2>2, TxDecoded, RxDecoded, TxOthersZero DEF MapsAgree, TxTarget, RxTarget
<1> QED
  BY <1>1, <1>2, <1>3, Invariance, PTL DEF Spec

-----------------------------------------------------------------------------
(* Interrupts: the specification IrqSpec of EdmaIrq.                         *)

\* Somebody will enable the interrupt of ring r: a scheduled poll, a handler
\* that will schedule one, or a poll that has not come to r yet.
WillEnable(r) ==
  \/ napi = "scheduled"
  \/ \E l \in Lines : hpc[l] = "schedule"
  \/ \E l \in Lines : hpc[l] = "scan" /\ r < hring[l]
  \/ \E c \in CPUs : ppc[c] = "unmask" /\ pring[c] <= r

HandOver == \A r \in Lines : ~int_mask[r] => WillEnable(r) \/ forgotten

\* A poll that enables interrupts has not come to the end.
UnmaskInv == \A c \in CPUs : ppc[c] = "unmask" => pring[c] < NumRings

IrqInv == IrqTypeOK /\ UnmaskInv /\ HandOver

USE DEF irqVars, pollVars

\* A poll takes no more from a ring than is there.
LEMMA TakenFacts ==
  ASSUME IrqTypeOK, NEW r \in Lines
  PROVE  /\ Taken(r) \in Nat
         /\ work[r] - Taken(r) \in 0 .. MaxWork
<1>1. work[r] \in 0 .. MaxWork
  BY DEF IrqTypeOK
<1> QED
  BY <1>1, IrqAssumption DEF Taken

\* The next ring, while there is one.
LEMMA NextRing ==
  ASSUME NEW i \in 0 .. NumRings, i + 1 < NumRings
  PROVE  i + 1 \in 0 .. NumRings
BY IrqAssumption

\* Each action keeps the types.
LEMMA TypeStep ==
  ASSUME IrqInv, IrqNext
  PROVE  IrqTypeOK' /\ UnmaskInv'
<1> USE IrqAssumption DEF IrqInv, IrqTypeOK, UnmaskInv, Lines
<1>1. ASSUME NEW l \in Lines, IrqTake(l) PROVE IrqTypeOK' /\ UnmaskInv'
  BY <1>1 DEF IrqTake
<1>2. ASSUME NEW l \in Lines, HandlerScan(l) PROVE IrqTypeOK' /\ UnmaskInv'
  <2>1. hring[l] + 1 \in 0 .. NumRings
    BY <1>2 DEF HandlerScan
  <2>2. int_mask' \in [Lines -> BOOLEAN]
    BY <1>2, Zenon DEF HandlerScan
  <2>3. hstatus' \in [Lines -> BOOLEAN]
    BY <1>2, Zenon DEF HandlerScan
  <2>4. hring' \in [Lines -> 0 .. NumRings]
    BY <1>2, <2>1, Zenon DEF HandlerScan
  <2> QED
    BY <1>2, <2>2, <2>3, <2>4 DEF HandlerScan
<1>3. ASSUME NEW l \in Lines, HandlerNone(l) PROVE IrqTypeOK' /\ UnmaskInv'
  BY <1>3 DEF HandlerNone
<1>4. ASSUME NEW l \in Lines, HandlerRemask(l) PROVE IrqTypeOK' /\ UnmaskInv'
  BY <1>4 DEF HandlerRemask
<1>5. ASSUME NEW l \in Lines, HandlerSchedule(l) PROVE IrqTypeOK' /\ UnmaskInv'
  BY <1>5 DEF HandlerSchedule
<1>6. ASSUME NEW c \in CPUs, PollBegin(c) PROVE IrqTypeOK' /\ UnmaskInv'
  BY <1>6 DEF PollBegin
<1>7. ASSUME NEW c \in CPUs, PollRing(c) PROVE IrqTypeOK' /\ UnmaskInv'
  <2>1. pring[c] \in Lines /\ pring[c] + 1 \in 0 .. NumRings
    BY <1>7 DEF PollRing
  <2>2. /\ Taken(pring[c]) \in Nat
        /\ work[pring[c]] - Taken(pring[c]) \in 0 .. MaxWork
    BY <2>1, TakenFacts
  <2>3. work' \in [Lines -> 0 .. MaxWork]
    BY <1>7, <2>1, <2>2, Zenon DEF PollRing
  <2>4. pring' \in [CPUs -> 0 .. NumRings]
    BY <1>7, <2>1, Zenon DEF PollRing
  <2>5. work_done' \in Nat
    <3>1. work_done' = work_done + Taken(pring[c]) /\ work_done \in Nat
      BY <1>7, Zenon DEF PollRing
    <3> QED
      BY <2>2, <3>1
  <2>6. UnmaskInv'
    BY <1>7 DEF PollRing
  <2> QED
    BY <1>7, <2>3, <2>4, <2>5, <2>6 DEF PollRing
<1>8. ASSUME NEW c \in CPUs, PollComplete(c) PROVE IrqTypeOK' /\ UnmaskInv'
  BY <1>8 DEF PollComplete
<1>9. ASSUME NEW c \in CPUs, PollAgain(c) PROVE IrqTypeOK' /\ UnmaskInv'
  BY <1>9 DEF PollAgain
<1>10. ASSUME NEW c \in CPUs, Unmask(c) PROVE IrqTypeOK' /\ UnmaskInv'
  <2>1. int_mask' \in [Lines -> BOOLEAN]
    BY <1>10, Zenon DEF Unmask
  <2>2. pring' \in [CPUs -> 0 .. NumRings]
    <3>1. 0 \in 0 .. NumRings
      OBVIOUS
    <3>2. CASE pring[c] + 1 < NumRings
      <4>1. pring[c] \in 0 .. NumRings
        BY Zenon
      <4>2. pring[c] + 1 \in 0 .. NumRings
        BY <3>2, <4>1, NextRing, Zenon
      <4> QED
        BY <1>10, <3>2, <4>2, Zenon DEF Unmask
    <3>3. CASE ~(pring[c] + 1 < NumRings)
      BY <1>10, <3>1, <3>3, Zenon DEF Unmask
    <3> QED
      BY <3>2, <3>3
  <2>3. ppc' \in [CPUs -> {"idle", "poll", "unmask"}]
    BY <1>10 DEF Unmask
  <2>4. UnmaskInv'
    BY <1>10 DEF Unmask
  <2> QED
    BY <1>10, <2>1, <2>2, <2>3, <2>4 DEF Unmask
<1>11. CASE NapiEnable \/ NapiDisable \/ NapiDisabled
  BY <1>11 DEF NapiEnable, NapiDisable, NapiDisabled
<1>12. ASSUME NEW r \in Lines, NewWork(r) PROVE IrqTypeOK' /\ UnmaskInv'
  <2>1. work[r] + 1 \in 0 .. MaxWork
    BY <1>12 DEF NewWork
  <2>2. work' \in [Lines -> 0 .. MaxWork]
    BY <1>12, <2>1, Zenon DEF NewWork
  <2> QED
    BY <1>12, <2>2 DEF NewWork
<1> QED
  BY <1>1, <1>2, <1>3, <1>4, <1>5, <1>6, <1>7, <1>8, <1>9, <1>10, <1>11, <1>12
  DEF IrqNext, HandlerStep, PollStep

\* A handler hands the interrupts over to the poll that it schedules, and a
\* poll that completes NAPI to itself.
LEMMA HandOverStep ==
  ASSUME IrqInv, IrqNext
  PROVE  HandOver'
<1> USE IrqAssumption DEF IrqInv, IrqTypeOK, UnmaskInv, HandOver, WillEnable, Lines
<1>1. ASSUME NEW l \in Lines, IrqTake(l) PROVE HandOver'
  BY <1>1 DEF IrqTake
<1>2. ASSUME NEW l \in Lines, HandlerScan(l) PROVE HandOver'
  <2> SUFFICES ASSUME NEW r \in Lines, ~int_mask'[r]
               PROVE  WillEnable(r)' \/ forgotten'
    BY DEF HandOver
  <2>1. CASE r = hring[l]
    <3>1. hpc'[l] = "scan" /\ r < hring'[l]
      BY <1>2, <2>1 DEF HandlerScan
    <3> QED
      BY <3>1
  <2>2. CASE r # hring[l]
    <3>1. WillEnable(r) \/ forgotten
      BY <1>2, <2>2 DEF HandlerScan
    <3>2. CASE \E k \in Lines : hpc[k] = "scan" /\ r < hring[k]
      BY <1>2, <3>2 DEF HandlerScan
    <3> QED
      BY <1>2, <3>1, <3>2 DEF HandlerScan
  <2> QED
    BY <2>1, <2>2
<1>3. ASSUME NEW l \in Lines, HandlerNone(l) PROVE HandOver'
  BY <1>3 DEF HandlerNone
<1>4. ASSUME NEW l \in Lines, HandlerRemask(l) PROVE HandOver'
  BY <1>4 DEF HandlerRemask
<1>5. ASSUME NEW l \in Lines, HandlerSchedule(l) PROVE HandOver'
  BY <1>5 DEF HandlerSchedule
<1>6. ASSUME NEW c \in CPUs, PollBegin(c) PROVE HandOver'
  BY <1>6 DEF PollBegin
<1>7. ASSUME NEW c \in CPUs, PollRing(c) PROVE HandOver'
  BY <1>7 DEF PollRing
<1>8. ASSUME NEW c \in CPUs, PollComplete(c) PROVE HandOver'
  BY <1>8 DEF PollComplete
<1>9. ASSUME NEW c \in CPUs, PollAgain(c) PROVE HandOver'
  BY <1>9 DEF PollAgain
<1>10. ASSUME NEW c \in CPUs, Unmask(c) PROVE HandOver'
  <2> SUFFICES ASSUME NEW r \in Lines, ~int_mask'[r]
               PROVE  WillEnable(r)' \/ forgotten'
    BY DEF HandOver
  <2>1. r # pring[c] /\ ~int_mask[r]
    BY <1>10 DEF Unmask
  <2>2. WillEnable(r) \/ forgotten
    BY <2>1
  <2>3. CASE \E d \in CPUs : ppc[d] = "unmask" /\ pring[d] <= r
    <3>1. PICK d \in CPUs : ppc[d] = "unmask" /\ pring[d] <= r
      BY <2>3
    <3>2. ppc'[d] = "unmask" /\ pring'[d] <= r
      <4>1. CASE d # c
        BY <1>10, <3>1, <4>1 DEF Unmask
      <4>2. CASE d = c
        <5>1. pring[c] + 1 <= r /\ pring[c] + 1 < NumRings
          BY <2>1, <3>1, <4>2
        <5> QED
          BY <1>10, <4>2, <5>1 DEF Unmask
      <4> QED
        BY <4>1, <4>2
    <3> QED
      BY <3>2
  <2> QED
    BY <1>10, <2>2, <2>3 DEF Unmask
<1>11. CASE NapiEnable \/ NapiDisable \/ NapiDisabled
  BY <1>11 DEF NapiEnable, NapiDisable, NapiDisabled
<1>12. ASSUME NEW r \in Lines, NewWork(r) PROVE HandOver'
  BY <1>12 DEF NewWork
<1> QED
  BY <1>1, <1>2, <1>3, <1>4, <1>5, <1>6, <1>7, <1>8, <1>9, <1>10, <1>11, <1>12
  DEF IrqNext, HandlerStep, PollStep

\* The inductive invariant: every disabled interrupt has somebody who will
\* enable it.
THEOREM IrqInvariance == IrqSpec => []IrqInv
<1>1. IrqInit => IrqInv
  <2> SUFFICES ASSUME IrqInit PROVE IrqInv
    OBVIOUS
  <2>1. IrqTypeOK
    <3>1. 0 \in 0 .. MaxWork /\ 0 \in 0 .. NumRings /\ 0 \in Nat
      BY IrqAssumption
    <3> QED
      BY <3>1, Zenon DEF IrqInit, IrqTypeOK
  <2>2. UnmaskInv
    BY DEF IrqInit, UnmaskInv
  <2>3. HandOver
    BY Zenon DEF IrqInit, HandOver
  <2> QED
    BY <2>1, <2>2, <2>3 DEF IrqInv
<1>2. IrqInv /\ [IrqNext]_handoverVars => IrqInv'
  <2> SUFFICES ASSUME IrqInv, [IrqNext]_handoverVars PROVE IrqInv'
    OBVIOUS
  <2>1. CASE IrqNext
    BY <2>1, TypeStep, HandOverStep DEF IrqInv
  <2>2. CASE UNCHANGED handoverVars
    BY <2>2 DEF IrqInv, IrqTypeOK, UnmaskInv, HandOver, WillEnable, handoverVars
  <2> QED
    BY <2>1, <2>2
<1> QED
  BY <1>1, <1>2, PTL DEF IrqSpec

\* The types of EdmaIrq, for every number of rings and CPUs.
THEOREM IrqTypeCorrect == IrqSpec => []IrqTypeOK
  BY IrqInvariance, PTL DEF IrqInv

\* Handlers of any number of lines and polls on any number of CPUs leave no
\* interrupt disabled behind them, but for the ways out that forget it.
THEOREM NoneLeftDisabled == IrqSpec => []EnabledUnlessForgotten
<1>1. IrqInv => EnabledUnlessForgotten
  BY DEF IrqInv, IrqTypeOK, HandOver, WillEnable, EnabledUnlessForgotten, Quiet
<1> QED
  BY <1>1, IrqInvariance, PTL
=============================================================================
