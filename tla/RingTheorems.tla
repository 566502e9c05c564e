---------------------------- MODULE RingTheorems ----------------------------
(***************************************************************************)
(* Facts about ring indices, for rings of any size.                        *)
(***************************************************************************)
EXTENDS Ring, SequenceTheorems, TLAPS

\* Stepping stays on the ring and never maps two indices to one: the two ways
\* in which the driver wraps an index lose no descriptor.
LEMMA NextIdxFacts ==
  ASSUME NEW i \in Slots, NEW j \in Slots
  PROVE  /\ NextIdx(i) \in Slots
         /\ NextIdx(i) # i
         /\ NextIdx(i) = NextIdx(j) => i = j
BY RingAssumption DEF Slots, NextIdx

\* Producing an entry in a ring with room adds that entry and no other.
LEMMA HeldAfterProduce ==
  ASSUME NEW c \in Slots, NEW p \in Slots, NEW i \in Slots, ~Full(c, p)
  PROVE  /\ ~Held(c, p, p)
         /\ Held(c, NextIdx(p), i) <=> Held(c, p, i) \/ i = p
BY RingAssumption DEF Slots, NextIdx, Full, Held

\* Consuming an entry of a ring that is not empty removes that entry and no
\* other, and makes room.
LEMMA HeldAfterConsume ==
  ASSUME NEW c \in Slots, NEW p \in Slots, NEW i \in Slots, c # p
  PROVE  /\ Held(c, p, c)
         /\ Held(NextIdx(c), p, i) <=> Held(c, p, i) /\ i # c
         /\ ~Full(NextIdx(c), p)
BY RingAssumption DEF Slots, NextIdx, Full, Held

\* An empty ring holds nothing.
LEMMA HeldEmpty ==
  ASSUME NEW c \in Slots, NEW i \in Slots
  PROVE  ~Held(c, c, i) /\ Dist(c, c) = 0
BY RingAssumption DEF Slots, Held, Dist

\* A distance is a number of steps.
LEMMA DistType ==
  ASSUME NEW a \in Slots, NEW b \in Slots
  PROVE  Dist(a, b) \in Nat
BY RingAssumption DEF Slots, Dist

\* Distance grows by one with each step that does not close the circle.
LEMMA DistStep ==
  ASSUME NEW a \in Slots, NEW b \in Slots, NextIdx(b) # a
  PROVE  Dist(a, NextIdx(b)) = Dist(a, b) + 1
BY RingAssumption DEF Slots, NextIdx, Dist

\* A ring with room has two slots that are not in use or more.
LEMMA DistRoom ==
  ASSUME NEW c \in Slots, NEW p \in Slots, ~Full(c, p)
  PROVE  Dist(c, p) < RingSize - 1
BY RingAssumption DEF Slots, NextIdx, Full, Dist

\* An index strictly before another, seen from a, can be stepped without
\* passing it.
LEMMA DistStepBefore ==
  ASSUME NEW a \in Slots, NEW b \in Slots, NEW c \in Slots,
         Dist(a, b) <= Dist(a, c), b # c
  PROVE  /\ NextIdx(b) # a
         /\ Dist(a, NextIdx(b)) <= Dist(a, c)
BY RingAssumption DEF Slots, NextIdx, Dist

\* A ring with room as seen from the consumer register has room as seen from
\* any index between the registers.
LEMMA RoomBetween ==
  ASSUME NEW a \in Slots, NEW b \in Slots, NEW p \in Slots,
         Dist(a, b) <= Dist(a, p), ~Full(a, p)
  PROVE  ~Full(b, p)
BY RingAssumption DEF Slots, NextIdx, Dist, Full

\* An index strictly before the last entry that was seen produced differs from
\* the producer index.
LEMMA NotEmptyBetween ==
  ASSUME NEW a \in Slots, NEW b \in Slots, NEW c \in Slots, NEW p \in Slots,
         Dist(a, b) <= Dist(a, c), Dist(a, c) <= Dist(a, p), b # c
  PROVE  b # p
BY RingAssumption DEF Slots, Dist

\* Entries that are published are among those that are filled in, if the indices
\* come in the order consumer, producer, end, seen from an older consumer index.
LEMMA HeldWithin ==
  ASSUME NEW a \in Slots, NEW b \in Slots, NEW p \in Slots, NEW n \in Slots,
         Dist(a, b) <= Dist(a, p), Dist(a, p) <= Dist(a, n),
         NEW i \in Slots, Held(b, p, i)
  PROVE  Held(b, n, i)
BY RingAssumption DEF Slots, Dist, Held

-----------------------------------------------------------------------------
(* The contents of a ring. *)

\* What a ring holds, oldest first: the sequence in terms of which TxPath and
\* RxPath are stated.
Contents(ring, c, p) == [k \in 1 .. Dist(c, p) |-> ring[(c + k - 1) % RingSize]]

\* An index that has left the ring at its end, at most once.
Wrapped(j) == IF j < RingSize THEN j ELSE j - RingSize

\* "Modulo the ring size" and "minus the ring size" agree on such an index.
LEMMA WrappedIsMod ==
  ASSUME NEW a \in Slots, NEW k \in Int, 1 <= k, k <= RingSize
  PROVE  (a + k - 1) % RingSize = Wrapped(a + k - 1)
<1>1. CASE a + k - 1 < RingSize
  BY <1>1, RingAssumption DEF Slots, Wrapped
<1>2. CASE a + k - 1 >= RingSize
  BY <1>2, RingAssumption DEF Slots, Wrapped
<1> QED
  BY <1>1, <1>2, RingAssumption DEF Slots

\* The k-th entry is in the k-th slot from the consumer index.
LEMMA ContentsAt ==
  ASSUME NEW ring, NEW c \in Slots, NEW p \in Slots, NEW k \in 1 .. Dist(c, p)
  PROVE  /\ Contents(ring, c, p)[k] = ring[Wrapped(c + k - 1)]
         /\ Wrapped(c + k - 1) \in Slots
         /\ Held(c, p, Wrapped(c + k - 1))
<1>1. k \in Int /\ 1 <= k /\ k <= RingSize /\ k <= Dist(c, p)
  BY RingAssumption, DistType DEF Slots, Dist
<1>2. (c + k - 1) % RingSize = Wrapped(c + k - 1)
  BY <1>1, WrappedIsMod
<1>3. Wrapped(c + k - 1) \in Slots /\ Held(c, p, Wrapped(c + k - 1))
  BY <1>1, RingAssumption DEF Slots, Dist, Held, Wrapped
<1> QED
  BY <1>2, <1>3 DEF Contents

\* It is a sequence of the entries' type, one for each slot in use.
LEMMA ContentsType ==
  ASSUME NEW S, NEW ring \in [Slots -> S], NEW c \in Slots, NEW p \in Slots
  PROVE  /\ Contents(ring, c, p) \in Seq(S)
         /\ Len(Contents(ring, c, p)) = Dist(c, p)
<1>1. Dist(c, p) \in Nat
  BY DistType
<1>2. ASSUME NEW k \in 1 .. Dist(c, p)
      PROVE  ring[(c + k - 1) % RingSize] \in S
  <2>1. Contents(ring, c, p)[k] = ring[(c + k - 1) % RingSize]
    BY DEF Contents
  <2>2. ring[Wrapped(c + k - 1)] \in S
    BY ContentsAt
  <2> QED
    BY <2>1, <2>2, ContentsAt
<1>3. Contents(ring, c, p) \in Seq(S)
  BY <1>1, <1>2, IsASeq DEF Contents
<1>4. DOMAIN Contents(ring, c, p) = 1 .. Dist(c, p)
  BY DEF Contents
<1> QED
  BY <1>1, <1>3, <1>4, LenProperties

\* An entry that is produced comes last.
LEMMA ContentsProduce ==
  ASSUME NEW S, NEW ring \in [Slots -> S], NEW c \in Slots, NEW p \in Slots,
         NEW e \in S, ~Full(c, p)
  PROVE  Contents([ring EXCEPT ![p] = e], c, NextIdx(p)) = Append(Contents(ring, c, p), e)
<1> DEFINE q     == NextIdx(p)
           ring2 == [ring EXCEPT ![p] = e]
           new   == Contents(ring2, c, q)
           old   == Contents(ring, c, p)
           d     == Dist(c, p)
<1>0. /\ ring2 \in [Slots -> S] /\ ring2[p] = e
      /\ \A i \in Slots : i # p => ring2[i] = ring[i]
  OBVIOUS
<1> HIDE DEF ring2
<1>1. q \in Slots /\ d \in Nat /\ Dist(c, q) = d + 1
  BY NextIdxFacts, DistStep, DistType DEF Full
<1> HIDE DEF q
<1>2. new \in Seq(S) /\ Len(new) = d + 1
  <2>1. new \in Seq(S) /\ Len(new) = Dist(c, q)
    BY <1>0, <1>1, ContentsType
  <2> QED
    BY <1>1, <2>1
<1>3. old \in Seq(S) /\ Len(old) = d
  BY ContentsType
<1>4. ASSUME NEW k \in 1 .. d PROVE new[k] = old[k]
  <2>1. Wrapped(c + k - 1) \in Slots /\ Wrapped(c + k - 1) # p
    BY ContentsAt, HeldAfterProduce
  <2>2. k \in 1 .. Dist(c, q)
    BY <1>1
  <2>3. new[k] = ring2[Wrapped(c + k - 1)] /\ old[k] = ring[Wrapped(c + k - 1)]
    BY <1>1, <2>2, ContentsAt
  <2> QED
    BY <1>0, <2>1, <2>3
<1>5. new[d + 1] = e
  <2>1. d + 1 \in 1 .. Dist(c, q)
    BY <1>1
  <2>2. new[d + 1] = ring2[Wrapped(c + (d + 1) - 1)]
    BY <1>1, <2>1, ContentsAt
  <2>3. Wrapped(c + (d + 1) - 1) = p
    BY <1>1, RingAssumption DEF Slots, Dist, Wrapped
  <2> QED
    BY <1>0, <2>2, <2>3
<1> HIDE DEF new, old, d
<1>6. /\ Append(old, e) \in Seq(S) /\ Len(Append(old, e)) = d + 1
      /\ \A k \in 1 .. d : Append(old, e)[k] = old[k]
      /\ Append(old, e)[d + 1] = e
  BY <1>3, AppendProperties
<1>7. \A k \in 1 .. Len(new) : new[k] = Append(old, e)[k]
  BY <1>1, <1>2, <1>4, <1>5, <1>6
<1>8. new = Append(old, e)
  BY <1>2, <1>6, <1>7, SeqEqual
<1> QED
  BY <1>8 DEF new, old, q, ring2

\* The entry that is consumed comes first.
LEMMA ContentsConsume ==
  ASSUME NEW S, NEW ring \in [Slots -> S], NEW c \in Slots, NEW p \in Slots, c # p
  PROVE  /\ Contents(ring, c, p) # <<>>
         /\ Head(Contents(ring, c, p)) = ring[c]
         /\ Tail(Contents(ring, c, p)) = Contents(ring, NextIdx(c), p)
<1> DEFINE new == Contents(ring, NextIdx(c), p)
           old == Contents(ring, c, p)
           d   == Dist(c, p)
<1>1. NextIdx(c) \in Slots /\ d \in Nat /\ d >= 1 /\ Dist(NextIdx(c), p) = d - 1
  BY NextIdxFacts, DistType, RingAssumption DEF Slots, Dist, NextIdx
<1>2. new \in Seq(S) /\ Len(new) = d - 1
  <2>1. new \in Seq(S) /\ Len(new) = Dist(NextIdx(c), p)
    BY <1>1, ContentsType
  <2> QED
    BY <1>1, <2>1
<1>3. old \in Seq(S) /\ Len(old) = d
  BY ContentsType
<1>4. old[1] = ring[c]
  <2>1. 1 \in 1 .. Dist(c, p)
    BY <1>1
  <2>2. old[1] = ring[Wrapped(c + 1 - 1)]
    BY <2>1, ContentsAt
  <2>3. Wrapped(c + 1 - 1) = c
    BY RingAssumption DEF Slots, Wrapped
  <2> QED
    BY <2>2, <2>3
<1>5. ASSUME NEW k \in 1 .. d - 1 PROVE new[k] = old[k + 1]
  <2>1. k \in 1 .. Dist(NextIdx(c), p) /\ k + 1 \in 1 .. Dist(c, p)
    BY <1>1
  <2>2. new[k] = ring[Wrapped(NextIdx(c) + k - 1)]
    BY <1>1, <2>1, ContentsAt
  <2>3. old[k + 1] = ring[Wrapped(c + (k + 1) - 1)]
    BY <2>1, ContentsAt
  <2>4. Wrapped(NextIdx(c) + k - 1) = Wrapped(c + (k + 1) - 1)
    BY <1>1, RingAssumption DEF Slots, Dist, Wrapped, NextIdx
  <2> QED
    BY <2>2, <2>3, <2>4
<1> HIDE DEF new, old, d
<1>6. old # <<>>
  BY <1>1, <1>3, EmptySeq
<1>7. Head(old) = old[1]
  BY <1>3, <1>6
<1>8. /\ Tail(old) \in Seq(S) /\ Len(Tail(old)) = d - 1
      /\ \A k \in 1 .. Len(Tail(old)) : Tail(old)[k] = old[k + 1]
  BY <1>3, <1>6, HeadTailProperties
<1>9. Tail(old) = new
  <2>1. \A k \in 1 .. Len(new) : new[k] = Tail(old)[k]
    BY <1>2, <1>5, <1>8
  <2> QED
    BY <1>2, <1>8, <2>1, SeqEqual
<1> QED
  BY <1>4, <1>6, <1>7, <1>9 DEF new, old

\* Slots that are not in use do not matter.
LEMMA ContentsSame ==
  ASSUME NEW S, NEW ring \in [Slots -> S], NEW ring2 \in [Slots -> S],
         NEW c \in Slots, NEW p \in Slots,
         \A i \in Slots : Held(c, p, i) => ring2[i] = ring[i]
  PROVE  Contents(ring2, c, p) = Contents(ring, c, p)
<1> DEFINE new == Contents(ring2, c, p)
           old == Contents(ring, c, p)
<1>1. /\ new \in Seq(S) /\ Len(new) = Dist(c, p)
      /\ old \in Seq(S) /\ Len(old) = Dist(c, p)
  BY ContentsType
<1>2. ASSUME NEW k \in 1 .. Dist(c, p) PROVE new[k] = old[k]
  BY ContentsAt
<1> HIDE DEF new, old
<1>3. new = old
  BY <1>1, <1>2, SeqEqual
<1> QED
  BY <1>3 DEF new, old
=============================================================================
