------------------------------ MODULE SPSCRing ------------------------------
(***************************************************************************)
(* src/transport/spsc_ring.h: the lock-free single-producer/single-        *)
(* consumer ring.  One thread calls push, one calls pop; every access to   *)
(* shared memory that the other thread can observe is a step of its own.   *)
(*                                                                         *)
(*  - A message is a struct of several machine words (Words); the copy     *)
(*    into and out of a slot is not atomic and may move the words in any   *)
(*    order.                                                               *)
(*  - The acquire load of the other thread's index may return any value    *)
(*    that index has had since this thread last read it: C++ coherence     *)
(*    forbids going back, nothing obliges a load to see the newest store.  *)
(*  - The release stores of head_ and tail_, paired with those loads,      *)
(*    order the slot accesses before them, so slots are read and written   *)
(*    in place.                                                            *)
(*  - A thread reads its own index exactly (relaxed load).                 *)
(*                                                                         *)
(* The indices are size_t counters that never wrap in practice (2^64       *)
(* messages); the model lets them grow and MaxPush bounds them for TLC.    *)
(***************************************************************************)
EXTENDS Integers, Sequences

CONSTANTS Capacity,   \* slots in buffer_
          Words,      \* the words one message is copied in
          Items,      \* message contents the producer may push
          NoItem,     \* content of a slot never written
          MaxPush     \* bound: pushes started in one behaviour

ASSUME CapacityAssumption == Capacity \in Nat \ {0}
\* static_assert: without it, & MASK would not be a remainder.
ASSUME CapacityIsPowerOfTwo == \E k \in 0 .. Capacity : Capacity = 2 ^ k
ASSUME ItemAssumption == NoItem \notin Items

VARIABLES head,         \* head_: messages pushed so far, stored by the producer
          tail,         \* tail_: messages popped so far, stored by the consumer
          cached_tail,  \* the producer's last look at tail_
          cached_head,  \* the consumer's last look at head_
          buffer,       \* buffer_: the slots, word by word
          ppc, item, wtodo,  \* producer: where it is, the argument of push,
                             \* and the words still to be copied in
          cpc, reg, rtodo,   \* consumer: where it is, the words copied so
                             \* far, and the words still to be copied out
          out           \* what the last pop that returned true delivered

pvars == <<cached_tail, ppc, item, wtodo>>
cvars == <<cached_head, cpc, reg, rtodo, out>>
vars == <<head, tail, buffer, pvars, cvars>>

Slot(i) == i % Capacity                        \* i & MASK
Copies == [Words -> Items \cup {NoItem}]       \* what a slot or a copy can hold
Whole(x) == [w \in Words |-> x]                \* an untorn copy of x

Init == /\ head = 0 /\ tail = 0
        /\ cached_tail = 0 /\ cached_head = 0
        /\ buffer = [s \in 0 .. Capacity - 1 |-> Whole(NoItem)]
        /\ ppc = "idle" /\ item = NoItem /\ wtodo = {}
        /\ cpc = "idle" /\ reg = Whole(NoItem) /\ rtodo = {}
        /\ out = Whole(NoItem)

-----------------------------------------------------------------------------
(* push, run by the producer. *)

\* Variant of Full that lets the producer run one slot into the consumer.
FullOneLate(t) == head - t > Capacity

\* The producer's test, against a value t it has for the consumer's index.
Full(t) == head - t >= Capacity

\* push(x) up to and including the test of the cached index.
Push(x) ==
  /\ ppc = "idle"
  /\ head < MaxPush
  /\ item' = x
  /\ IF Full(cached_tail)
       THEN ppc' = "reload" /\ UNCHANGED wtodo
       ELSE ppc' = "write" /\ wtodo' = Words
  /\ UNCHANGED <<head, tail, buffer, cached_tail, cvars>>

\* tail_.load(acquire) and the second test; push returns false if it fails.
ReloadTail(v) ==
  /\ ppc = "reload"
  /\ v \in cached_tail .. tail
  /\ cached_tail' = v
  /\ IF Full(v)
       THEN ppc' = "idle" /\ UNCHANGED wtodo
       ELSE ppc' = "write" /\ wtodo' = Words
  /\ UNCHANGED <<head, tail, buffer, item, cvars>>

\* One word of buffer_[head & MASK] = item.
WriteWord(w) ==
  /\ ppc = "write"
  /\ w \in wtodo
  /\ buffer' = [buffer EXCEPT ![Slot(head)][w] = item]
  /\ wtodo' = wtodo \ {w}
  /\ UNCHANGED <<head, tail, cached_tail, ppc, item, cvars>>

\* Variant of StoreHead that publishes a slot before its copy is complete.
StoreHeadEarly ==
  /\ ppc = "write"
  /\ head' = head + 1
  /\ ppc' = "idle"
  /\ wtodo' = {}
  /\ UNCHANGED <<tail, buffer, cached_tail, item, cvars>>

\* head_.store(head + 1, release); push returns true.
StoreHead ==
  /\ ppc = "write"
  /\ wtodo = {}
  /\ head' = head + 1
  /\ ppc' = "idle"
  /\ UNCHANGED <<tail, buffer, cached_tail, item, wtodo, cvars>>

-----------------------------------------------------------------------------
(* pop, run by the consumer. *)

\* Variant of Empty that reads one slot past the last published one.
EmptyOneLate(h) == h < tail

\* The consumer's test, against a value h it has for the producer's index.
Empty(h) == h <= tail

\* pop up to and including the test of the cached index.
Pop ==
  /\ cpc = "idle"
  /\ IF Empty(cached_head)
       THEN cpc' = "reload" /\ UNCHANGED rtodo
       ELSE cpc' = "read" /\ rtodo' = Words
  /\ UNCHANGED <<head, tail, buffer, cached_head, reg, out, pvars>>

\* Variant of ReloadHead that forgets to keep the value it loaded.
ReloadHeadDropped(v) ==
  /\ cpc = "reload"
  /\ v \in cached_head .. head
  /\ cpc' = "idle"
  /\ UNCHANGED <<head, tail, buffer, cached_head, reg, rtodo, out, pvars>>

\* head_.load(acquire) and the second test; pop returns false if it fails.
ReloadHead(v) ==
  /\ cpc = "reload"
  /\ v \in cached_head .. head
  /\ cached_head' = v
  /\ IF Empty(v)
       THEN cpc' = "idle" /\ UNCHANGED rtodo
       ELSE cpc' = "read" /\ rtodo' = Words
  /\ UNCHANGED <<head, tail, buffer, reg, out, pvars>>

\* One word of item = buffer_[tail & MASK].
ReadWord(w) ==
  /\ cpc = "read"
  /\ w \in rtodo
  /\ reg' = [reg EXCEPT ![w] = buffer[Slot(tail)][w]]
  /\ rtodo' = rtodo \ {w}
  /\ UNCHANGED <<head, tail, buffer, cached_head, cpc, out, pvars>>

\* tail_.store(tail + 1, release); pop returns true with the copied message.
StoreTail ==
  /\ cpc = "read"
  /\ rtodo = {}
  /\ tail' = tail + 1
  /\ out' = reg
  /\ cpc' = "idle"
  /\ UNCHANGED <<head, buffer, cached_head, reg, rtodo, pvars>>

-----------------------------------------------------------------------------
Producer == \/ \E x \in Items : Push(x)
            \/ \E v \in cached_tail .. tail : ReloadTail(v)
            \/ \E w \in Words : WriteWord(w)
            \/ StoreHead

Consumer == \/ Pop
            \/ \E v \in cached_head .. head : ReloadHead(v)
            \/ \E w \in Words : ReadWord(w)
            \/ StoreTail

Next == Producer \/ Consumer

Spec == Init /\ [][Next]_vars

(***************************************************************************)
(* Fairness.  The engine thread spins on pop (MatchingEngine::run), so the *)
(* consumer never rests; the producer finishes a push it has begun but may *)
(* never begin another.  A store becomes visible to the other core after a *)
(* finite time, so a reload that is retried for ever eventually sees the   *)
(* newest index.                                                           *)
(***************************************************************************)
Fairness == /\ WF_vars(Consumer)
            /\ WF_vars(ppc # "idle" /\ Producer)
            /\ SF_vars(ReloadHead(head))

FairSpec == Spec /\ Fairness

-----------------------------------------------------------------------------
\* Every variable of push and pop has its type.
TypeOK ==
  /\ head \in Nat /\ tail \in Nat
  /\ cached_tail \in Nat /\ cached_head \in Nat
  /\ buffer \in [0 .. Capacity - 1 -> Copies]
  /\ ppc \in {"idle", "reload", "write"}
  /\ item \in Items \cup {NoItem}
  /\ wtodo \in SUBSET Words
  /\ cpc \in {"idle", "reload", "read"}
  /\ reg \in Copies /\ out \in Copies
  /\ rtodo \in SUBSET Words

\* Neither stale cached index ever licenses an access the true indices would
\* not: each cache trails its index, the ring never holds more than Capacity
\* messages, and a producer that went on to write (a consumer that went on to
\* read) still has a free (a published) slot however late it gets there.
IndexOrder ==
  /\ cached_tail <= tail /\ tail <= head /\ head <= tail + Capacity
  /\ cached_head <= head
  /\ ppc = "write" => head < tail + Capacity
  /\ cpc = "read" => tail < head

\* The producer copying a message in and the consumer copying one out are
\* never in the same slot: spsc_ring.h needs no lock around buffer_.
SlotExclusive ==
  ppc = "write" /\ cpc = "read" => Slot(head) # Slot(tail)

\* The messages in the ring, oldest first, as the slots hold them.
Contents == [i \in 1 .. head - tail |-> buffer[Slot(tail + i - 1)]]

\* The ring implements a bounded FIFO queue of whole messages: nothing is
\* lost, duplicated, reordered or torn, whatever the interleaving of the
\* word copies and however stale the cached indices.
Queue == INSTANCE BoundedQueue
           WITH Messages <- {Whole(x) : x \in Items},
                NoMessage <- Whole(NoItem),
                queue <- Contents,
                delivered <- out
RefinesQueue == Queue!QSpec

\* Every message that push published is eventually popped, although pop
\* consults a cached head that may be arbitrarily out of date.
EventuallyPopped == \A n \in 0 .. MaxPush - 1 : head > n ~> tail > n
=============================================================================
