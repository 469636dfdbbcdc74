-------------------------- MODULE SPSCRing_proofs --------------------------
(***************************************************************************)
(* Proofs about SPSCRing for every capacity, message set and word layout.  *)
(***************************************************************************)
EXTENDS SPSCRing, SequenceTheorems, TLAPS

-----------------------------------------------------------------------------
(* Arithmetic of the slot index. *)

\* A slot index is in range.
LEMMA SlotInRange ==
  ASSUME NEW i \in Nat
  PROVE  Slot(i) \in 0 .. Capacity - 1
BY CapacityAssumption DEF Slot

\* Two indices less than Capacity apart name different slots.
LEMMA SlotDistinct ==
  ASSUME NEW i \in Nat, NEW j \in Nat, i < j, j < i + Capacity
  PROVE  Slot(i) # Slot(j)
<1> DEFINE C == Capacity
<1>1. C \in Nat \ {0}
  BY CapacityAssumption
<1>2. SUFFICES ASSUME i % C = j % C PROVE FALSE
  BY DEF Slot
<1> HIDE DEF C
<1>3. /\ i \div C \in Int /\ j \div C \in Int
      /\ i = C * (i \div C) + (i % C)
      /\ j = C * (j \div C) + (j % C)
  BY <1>1
<1>4. PICK k \in Int : k = (j \div C) - (i \div C)
  BY <1>3
<1>5. j - i = C * k
  BY <1>1, <1>2, <1>3, <1>4
<1>6. C * k > 0 /\ C * k < C
  BY <1>1, <1>4, <1>5 DEF C
<1>7. k >= 1
  BY <1>1, <1>4, <1>6
<1>8. C * k >= C
  BY <1>1, <1>4, <1>7
<1>9. QED
  BY <1>1, <1>4, <1>6, <1>8

-----------------------------------------------------------------------------
(***************************************************************************)
(* The inductive invariant.  IndexOrder is not inductive: that a slot is   *)
(* free when the producer writes follows from its CACHED tail, which it    *)
(* tested some steps ago; and that what pop delivers is whole follows from *)
(* what each half-finished copy has moved so far.                          *)
(***************************************************************************)
Indices ==
  /\ cached_tail <= tail /\ tail <= head /\ head <= tail + Capacity
  /\ cached_head <= head
  /\ ppc = "write" => head < cached_tail + Capacity
  /\ cpc = "read" => tail < cached_head

SlotsWhole ==
  \A n \in Nat : tail <= n /\ n < head =>
                   \E x \in Items : buffer[Slot(n)] = Whole(x)

CopiesFaithful ==
  /\ ppc # "idle" => item \in Items
  /\ ppc = "write" => \A w \in Words \ wtodo : buffer[Slot(head)][w] = item
  /\ cpc = "read" => \A w \in Words \ rtodo : reg[w] = buffer[Slot(tail)][w]

IInv == TypeOK /\ Indices /\ SlotsWhole /\ CopiesFaithful

LEMMA InitIInv == Init => IInv
<1> SUFFICES ASSUME Init PROVE IInv
  OBVIOUS
<1>1. TypeOK
  BY CapacityAssumption DEF Init, TypeOK, Copies, Whole
<1>2. Indices /\ SlotsWhole /\ CopiesFaithful
  BY CapacityAssumption DEF Init, Indices, SlotsWhole, CopiesFaithful
<1>3. QED
  BY <1>1, <1>2 DEF IInv

\* Every step of the ring preserves the invariant: one case per action.
LEMMA NextIInv == IInv /\ [Next]_vars => IInv'
<1> SUFFICES ASSUME IInv, [Next]_vars PROVE IInv'
  OBVIOUS
<1> USE CapacityAssumption
<1>1. ASSUME NEW x \in Items, Push(x) PROVE IInv'
  BY <1>1 DEF IInv, TypeOK, Indices, SlotsWhole, CopiesFaithful, Push, Full, cvars
<1>2. ASSUME NEW v \in cached_tail .. tail, ReloadTail(v) PROVE IInv'
  BY <1>2 DEF IInv, TypeOK, Indices, SlotsWhole, CopiesFaithful, ReloadTail, Full, cvars
<1>3. ASSUME NEW w \in Words, WriteWord(w) PROVE IInv'
  <2> USE <1>3 DEF WriteWord, cvars
  <2>1. Slot(head) \in 0 .. Capacity - 1
    BY SlotInRange DEF IInv, TypeOK
  <2>2. TypeOK'
    BY <2>1 DEF IInv, TypeOK, Copies, CopiesFaithful
  <2>3. Indices'
    BY DEF IInv, Indices
  <2>4. \A n \in Nat : tail <= n /\ n < head => buffer'[Slot(n)] = buffer[Slot(n)]
    <3> SUFFICES ASSUME NEW n \in Nat, tail <= n, n < head
                 PROVE  buffer'[Slot(n)] = buffer[Slot(n)]
      OBVIOUS
    <3>1. head < n + Capacity
      BY DEF IInv, TypeOK, Indices
    <3>2. Slot(n) # Slot(head)
      BY <3>1, SlotDistinct DEF IInv, TypeOK
    <3>3. QED
      BY <3>2, <2>1, SlotInRange DEF IInv, TypeOK
  <2>5. SlotsWhole'
    BY <2>4 DEF IInv, SlotsWhole
  <2>6. CopiesFaithful'
    <3>1. ppc' # "idle" => item' \in Items
      BY DEF IInv, CopiesFaithful
    <3>2. ASSUME NEW u \in Words \ wtodo' PROVE buffer'[Slot(head)][u] = item
      BY <2>1, <3>2 DEF IInv, TypeOK, CopiesFaithful, Copies
    <3>3. cpc = "read" => buffer'[Slot(tail)] = buffer[Slot(tail)]
      BY <2>4 DEF IInv, TypeOK, Indices
    <3>4. QED
      BY <3>1, <3>2, <3>3 DEF IInv, CopiesFaithful
  <2>7. QED
    BY <2>2, <2>3, <2>5, <2>6 DEF IInv
<1>4. ASSUME StoreHead PROVE IInv'
  <2> USE <1>4 DEF StoreHead, cvars
  <2>1. TypeOK' /\ Indices' /\ CopiesFaithful'
    BY DEF IInv, TypeOK, Indices, CopiesFaithful
  <2>2. Slot(head) \in 0 .. Capacity - 1
    BY SlotInRange DEF IInv, TypeOK
  <2>3. buffer[Slot(head)] = Whole(item) /\ item \in Items
    BY <2>2 DEF IInv, TypeOK, CopiesFaithful, Copies, Whole
  <2>4. SlotsWhole'
    BY <2>3 DEF IInv, TypeOK, SlotsWhole
  <2>5. QED
    BY <2>1, <2>4 DEF IInv
<1>5. ASSUME Pop PROVE IInv'
  BY <1>5 DEF IInv, TypeOK, Indices, SlotsWhole, CopiesFaithful, Pop, Empty, pvars
<1>6. ASSUME NEW v \in cached_head .. head, ReloadHead(v) PROVE IInv'
  BY <1>6 DEF IInv, TypeOK, Indices, SlotsWhole, CopiesFaithful, ReloadHead, Empty, pvars
<1>7. ASSUME NEW w \in Words, ReadWord(w) PROVE IInv'
  <2> USE <1>7 DEF ReadWord, pvars
  <2>1. Slot(tail) \in 0 .. Capacity - 1
    BY SlotInRange DEF IInv, TypeOK
  <2>2. TypeOK'
    BY <2>1 DEF IInv, TypeOK, Copies
  <2>3. Indices' /\ SlotsWhole'
    BY DEF IInv, Indices, SlotsWhole
  <2>4. CopiesFaithful'
    BY <2>1 DEF IInv, TypeOK, Copies, CopiesFaithful
  <2>5. QED
    BY <2>2, <2>3, <2>4 DEF IInv
<1>8. ASSUME StoreTail PROVE IInv'
  BY <1>8 DEF IInv, TypeOK, Indices, SlotsWhole, CopiesFaithful, StoreTail, pvars
<1>9. CASE UNCHANGED vars
  BY <1>9 DEF IInv, TypeOK, Indices, SlotsWhole, CopiesFaithful, vars, pvars, cvars
<1>10. QED
  BY <1>1, <1>2, <1>3, <1>4, <1>5, <1>6, <1>7, <1>8, <1>9 DEF Next, Producer, Consumer

THEOREM IInvHolds == Spec => []IInv
BY InitIInv, NextIInv, PTL DEF Spec

-----------------------------------------------------------------------------
\* Type correctness of spsc_ring.h's state for every capacity.
THEOREM TypeCorrect == Spec => []TypeOK
<1>1. IInv => TypeOK
  BY DEF IInv
<1>2. QED
  BY <1>1, IInvHolds, PTL

\* No stale cached index ever licenses a push into a full ring or a pop from
\* an empty one.
THEOREM IndicesOrdered == Spec => []IndexOrder
<1>1. IInv => IndexOrder
  BY CapacityAssumption DEF IInv, TypeOK, Indices, IndexOrder
<1>2. QED
  BY <1>1, IInvHolds, PTL

\* The producer and the consumer never touch the same slot at once.
THEOREM SlotsExclusive == Spec => []SlotExclusive
<1>1. IInv => SlotExclusive
  <2> SUFFICES ASSUME IInv, ppc = "write", cpc = "read"
               PROVE  Slot(head) # Slot(tail)
    BY DEF SlotExclusive
  <2>1. tail < head /\ head < tail + Capacity
    BY CapacityAssumption DEF IInv, TypeOK, Indices
  <2>2. QED
    BY <2>1, SlotDistinct DEF IInv, TypeOK
<1>2. QED
  BY <1>1, IInvHolds, PTL

-----------------------------------------------------------------------------
(* The ring implements BoundedQueue. *)

\* Whatever index is used, the slot it names holds a copy.
LEMMA SlotHoldsCopy ==
  ASSUME IInv, NEW i \in Nat
  PROVE  buffer[Slot(i)] \in Copies
BY SlotInRange DEF IInv, TypeOK

\* The contents of the ring form a sequence of slots, one per message.
LEMMA ContentsSeq ==
  ASSUME IInv
  PROVE  /\ Contents \in Seq(Copies)
         /\ Len(Contents) = head - tail
         /\ \A i \in 1 .. head - tail : Contents[i] = buffer[Slot(tail + i - 1)]
<1>1. head - tail \in Nat
  BY CapacityAssumption DEF IInv, TypeOK, Indices
<1>2. \A i \in 1 .. head - tail : buffer[Slot(tail + i - 1)] \in Copies
  <2> SUFFICES ASSUME NEW i \in 1 .. head - tail
               PROVE  buffer[Slot(tail + i - 1)] \in Copies
    OBVIOUS
  <2>1. tail + i - 1 \in Nat
    BY <1>1 DEF IInv, TypeOK
  <2>2. QED
    BY <2>1, SlotHoldsCopy
<1>3. QED
  BY <1>1, <1>2 DEF Contents

\* A step of the ring is a step of the queue or changes neither the queue nor
\* what was delivered.
LEMMA StepRefines == IInv /\ IInv' /\ [Next]_vars => [Queue!QNext]_(Queue!qvars)
<1> SUFFICES ASSUME IInv, IInv', [Next]_vars
             PROVE  Queue!QNext \/ (Contents' = Contents /\ out' = out)
  BY DEF Queue!qvars
<1> USE CapacityAssumption
<1>1. ASSUME NEW x \in Items, Push(x) PROVE Contents' = Contents /\ out' = out
  BY <1>1 DEF Push, cvars, Contents
<1>2. ASSUME NEW v \in cached_tail .. tail, ReloadTail(v)
      PROVE  Contents' = Contents /\ out' = out
  BY <1>2 DEF ReloadTail, cvars, Contents
<1>3. ASSUME NEW w \in Words, WriteWord(w) PROVE Contents' = Contents /\ out' = out
  <2>1. head' = head /\ tail' = tail /\ out' = out
    BY <1>3 DEF WriteWord, cvars
  <2>2. ASSUME NEW i \in 1 .. head - tail
        PROVE  buffer'[Slot(tail + i - 1)] = buffer[Slot(tail + i - 1)]
    <3>1. /\ tail + i - 1 \in Nat /\ head \in Nat
          /\ tail + i - 1 < head /\ head < (tail + i - 1) + Capacity
      BY <1>3, <2>2 DEF IInv, TypeOK, Indices, WriteWord
    <3>2. Slot(tail + i - 1) # Slot(head)
      BY <3>1, SlotDistinct
    <3>3. QED
      BY <1>3, <3>1, <3>2, SlotInRange DEF IInv, TypeOK, WriteWord
  <2>3. QED
    BY <2>1, <2>2 DEF Contents
<1>4. ASSUME StoreHead PROVE Queue!QNext
  <2>1. /\ head' = head + 1 /\ tail' = tail /\ buffer' = buffer /\ out' = out
    BY <1>4 DEF StoreHead, cvars
  <2>2. item \in Items /\ buffer[Slot(head)] = Whole(item)
    BY <1>4, SlotInRange DEF IInv, TypeOK, CopiesFaithful, Copies, Whole, StoreHead
  <2>3. Len(Contents) < Capacity
    BY <1>4, ContentsSeq DEF IInv, TypeOK, Indices, StoreHead
  <2>4. Contents' = Append(Contents, Whole(item))
    <3>1. head - tail \in Nat
      BY DEF IInv, TypeOK, Indices
    <3>2. Contents' = [i \in 1 .. head - tail + 1 |-> buffer[Slot(tail + i - 1)]]
      BY <2>1, <3>1 DEF Contents, IInv, TypeOK
    <3>3. tail + (head - tail + 1) - 1 = head
      BY DEF IInv, TypeOK
    <3>4. \A i \in 1 .. head - tail + 1 : buffer[Slot(tail + i - 1)] \in Copies
      <4> SUFFICES ASSUME NEW i \in 1 .. head - tail + 1
                   PROVE  buffer[Slot(tail + i - 1)] \in Copies
        OBVIOUS
      <4>1. tail + i - 1 \in Nat
        BY DEF IInv, TypeOK
      <4>2. QED
        BY <4>1, SlotHoldsCopy
    <3>5. /\ Contents' \in Seq(Copies)
          /\ Len(Contents') = head - tail + 1
      BY <3>1, <3>2, <3>4
    <3>6. Whole(item) \in Copies
      BY <2>2 DEF Whole, Copies
    <3>7. /\ Append(Contents, Whole(item)) \in Seq(Copies)
          /\ Len(Append(Contents, Whole(item))) = head - tail + 1
      BY <3>1, <3>6, ContentsSeq, AppendProperties
    <3>8. ASSUME NEW i \in 1 .. head - tail + 1
          PROVE  Contents'[i] = Append(Contents, Whole(item))[i]
      <4>1. CASE i = head - tail + 1
        BY <2>2, <3>1, <3>2, <3>3, <3>6, <4>1, ContentsSeq, AppendProperties
      <4>2. CASE i # head - tail + 1
        <5>1. i \in 1 .. head - tail
          BY <3>1, <4>2
        <5>2. Append(Contents, Whole(item))[i] = Contents[i]
          BY <3>6, <5>1, ContentsSeq, AppendProperties
        <5>3. QED
          BY <3>1, <3>2, <5>1, <5>2, ContentsSeq
      <4>3. QED
        BY <4>1, <4>2
    <3>9. QED
      BY <3>5, <3>7, <3>8, SeqEqual
  <2>5. QED
    BY <2>1, <2>2, <2>3, <2>4 DEF Queue!QNext, Queue!Enqueue
<1>5. ASSUME Pop PROVE Contents' = Contents /\ out' = out
  BY <1>5 DEF Pop, pvars, Contents
<1>6. ASSUME NEW v \in cached_head .. head, ReloadHead(v)
      PROVE  Contents' = Contents /\ out' = out
  BY <1>6 DEF ReloadHead, pvars, Contents
<1>7. ASSUME NEW w \in Words, ReadWord(w) PROVE Contents' = Contents /\ out' = out
  BY <1>7 DEF ReadWord, pvars, Contents
<1>8. ASSUME StoreTail PROVE Queue!QNext
  <2>1. head' = head /\ tail' = tail + 1 /\ buffer' = buffer /\ out' = reg
    BY <1>8 DEF StoreTail, pvars
  <2>2. tail < head /\ head - tail \in Nat \ {0}
    BY <1>8 DEF IInv, TypeOK, Indices, StoreTail
  <2>3. buffer[Slot(tail)] \in Copies
    BY SlotInRange DEF IInv, TypeOK
  <2>4. reg = buffer[Slot(tail)]
    BY <1>8, <2>3 DEF IInv, TypeOK, CopiesFaithful, Copies, StoreTail
  <2>5. Contents # << >> /\ Head(Contents) = buffer[Slot(tail)]
    BY <2>2, ContentsSeq DEF IInv, TypeOK
  <2>6. Contents' = Tail(Contents)
    <3>1. Contents' = [i \in 1 .. head - tail - 1 |-> buffer[Slot(tail + i)]]
      BY <2>1, <2>2 DEF Contents, IInv, TypeOK
    <3>2. /\ Tail(Contents) \in Seq(Copies)
          /\ Len(Tail(Contents)) = head - tail - 1
          /\ \A i \in 1 .. head - tail - 1 : Tail(Contents)[i] = Contents[i + 1]
      BY <2>2, <2>5, ContentsSeq, HeadTailProperties
    <3>3. \A i \in 1 .. head - tail - 1 :
             /\ Contents[i + 1] = buffer[Slot(tail + i)]
             /\ buffer[Slot(tail + i)] \in Copies
      <4> SUFFICES ASSUME NEW i \in 1 .. head - tail - 1
                   PROVE  /\ Contents[i + 1] = buffer[Slot(tail + i)]
                          /\ buffer[Slot(tail + i)] \in Copies
        OBVIOUS
      <4>1. /\ tail + i \in Nat /\ tail + (i + 1) - 1 = tail + i
            /\ i + 1 \in 1 .. head - tail
        BY <2>2 DEF IInv, TypeOK
      <4>2. QED
        BY <4>1, ContentsSeq, SlotHoldsCopy
    <3>4. /\ Contents' \in Seq(Copies)
          /\ Len(Contents') = head - tail - 1
      BY <2>2, <3>1, <3>3
    <3>5. QED
      BY <3>1, <3>2, <3>3, <3>4, SeqEqual
  <2>7. QED
    BY <2>1, <2>4, <2>5, <2>6 DEF Queue!QNext, Queue!Dequeue
<1>9. CASE UNCHANGED vars
  BY <1>9 DEF vars, pvars, cvars, Contents
<1>10. QED
  BY <1>1, <1>2, <1>3, <1>4, <1>5, <1>6, <1>7, <1>8, <1>9 DEF Next, Producer, Consumer

\* For every capacity the lock-free ring is a bounded FIFO queue of whole
\* messages.
THEOREM RingIsQueue == Spec => RefinesQueue
<1>1. Init => Queue!QInit
  BY DEF Init, Queue!QInit, Contents
<1>2. QED
  BY <1>1, StepRefines, IInvHolds, PTL DEF Spec, RefinesQueue, Queue!QSpec
=============================================================================
