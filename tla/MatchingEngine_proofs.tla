------------------------ MODULE MatchingEngine_proofs ------------------------
(***************************************************************************)
(* Proofs about MatchingEngine, over the book's invariant, for every size  *)
(* of the rings and every constant of the book.                            *)
(***************************************************************************)
EXTENDS MatchingEngine, OrderBook_proofs

-----------------------------------------------------------------------------
(* The invariant *)

\* What the k-th push of emit_fills credits to id, and the first k of them.
Share(fs, id, k) ==
  LET f == fs[(k - 1) \div 2 + 1]
  IN  IF id = (IF (k - 1) % 2 = 0 THEN f.bid_id ELSE f.ask_id)
        THEN f.quantity ELSE 0
Shares(fs, id) == [k \in 1 .. 2 * Len(fs) |-> Share(fs, id, k)]
Due(fs, id, k) == PrefixSum(Shares(fs, id), k)

\* The call at work is one that emit_fills will report on.
Trading == pc = "match" \/ (epc = "reply" /\ ReplyKind = "OrderAccepted")

\* Where the engine is, and the id its reply will name.
Phases ==
  /\ epc # "fills" => leg = 0
  /\ next_id \in 1 .. MaxId + 1
  /\ epc \in {"book", "reply"} => /\ msg \in Messages /\ msg.type # "Unknown"
                                  /\ ReplyId \in 1 .. MaxId
  /\ epc = "book" => msg.type # "CancelOrder"
  /\ pc = "add" => fills = <<>> /\ req.id = ReplyId

\* A live order's id can be reported on, and no fill is with oneself.
Parties ==
  /\ \A n \in Node : ~IsFree(n) => arena[n].id \in 1 .. MaxId
  /\ \A k \in 1 .. Len(fills) : fills[k].bid_id # fills[k].ask_id

\* FillsReported at every step: what an order has traded is what has been
\* reported and what is still to be.
Accounted ==
  \A id \in 1 .. MaxId :
    LET all == Due(fills, id, 2 * Len(fills))
    IN  /\ epc = "fills" =>
             traded[id] + Due(fills, id, leg) = reported[id] + all
        /\ epc # "fills" /\ Trading => traded[id] = reported[id] + all
        /\ epc # "fills" /\ ~Trading => traded[id] = reported[id]

\* Reports on the ring have earlier match numbers, except for the first of
\* the match whose second is about to be pushed.
MatchNumbers ==
  \A i \in 1 .. Len(outbound) : outbound[i].type = "OrderExecuted" =>
    LET m == outbound[i]
        f == fills[leg \div 2 + 1]
    IN  /\ m.match_number <= match_number
        /\ m.match_number = match_number =>
             /\ i = Len(outbound) /\ leg % 2 = 1
             /\ m.price = f.price /\ m.quantity = f.quantity
             /\ m.id = f.bid_id

EInv == /\ IInv /\ ETypeOK /\ Phases /\ Parties /\ Accounted
        /\ MatchNumbers /\ ReportsOrdered

-----------------------------------------------------------------------------
(* What is due to an order *)

\* The entries of Shares.
LEMMA SharesEntries ==
  ASSUME NEW fs \in Seq(FillRecord), NEW id,
         NEW k \in 1 .. 2 * Len(fs)
  PROVE  /\ Shares(fs, id)[k] = Share(fs, id, k)
         /\ (k - 1) \div 2 + 1 \in 1 .. Len(fs)
         /\ Share(fs, id, k) \in Nat
<1>1. Len(fs) \in Nat
  OBVIOUS
<1>2. (k - 1) \div 2 + 1 \in 1 .. Len(fs)
  BY <1>1
<1>3. fs[(k - 1) \div 2 + 1] \in FillRecord
  BY <1>2
<1>4. \A f \in FillRecord : f.quantity \in Nat
  BY DEF FillRecord
<1>5. Share(fs, id, k) \in Nat
  BY <1>3, <1>4 DEF Share
<1>6. QED
  BY <1>2, <1>5 DEF Shares

\* What is due grows with every push.
LEMMA DueStep ==
  ASSUME NEW fs \in Seq(FillRecord), NEW id
  PROVE  /\ Due(fs, id, 0) = 0
         /\ \A k \in 0 .. 2 * Len(fs) : Due(fs, id, k) \in Nat
         /\ \A k \in 0 .. 2 * Len(fs) - 1 :
              Due(fs, id, k + 1) = Due(fs, id, k) + Share(fs, id, k + 1)
<1>1. Len(fs) \in Nat /\ 2 * Len(fs) \in Nat
  OBVIOUS
<1>2. Due(fs, id, 0) = 0
  BY PrefixSumStep DEF Due
<1>3. \A k \in 1 .. 2 * Len(fs) : Shares(fs, id)[k] \in Nat
  BY SharesEntries
<1>4. \A k \in 0 .. 2 * Len(fs) : Due(fs, id, k) \in Nat
  <2> DEFINE v == Shares(fs, id)
             n == 2 * Len(fs)
  <2>1. n \in Nat /\ \A k \in 1 .. n : v[k] \in Nat
    BY <1>1, <1>3
  <2> HIDE DEF v, n
  <2>2. \A k \in 0 .. n : PrefixSum(v, k) \in Nat
    BY <2>1, PrefixSumType
  <2>3. QED
    BY <2>2 DEF Due, v, n
<1>5. ASSUME NEW k \in 0 .. 2 * Len(fs) - 1
      PROVE  Due(fs, id, k + 1) = Due(fs, id, k) + Share(fs, id, k + 1)
  <2>1. k \in Nat /\ k + 1 \in 1 .. 2 * Len(fs)
    BY <1>1
  <2>2. Due(fs, id, k + 1) = Due(fs, id, k) + Shares(fs, id)[k + 1]
    BY <2>1, PrefixSumStep DEF Due
  <2>3. Shares(fs, id)[k + 1] = Share(fs, id, k + 1)
    BY <2>1, SharesEntries
  <2>4. QED
    BY <2>2, <2>3
<1>6. QED
  BY <1>2, <1>4, <1>5

\* What a new fill adds to what is due.
LEMMA DueAppend ==
  ASSUME NEW fs \in Seq(FillRecord), NEW f \in FillRecord, NEW id
  PROVE  Due(Append(fs, f), id, 2 * Len(Append(fs, f))) =
           Due(fs, id, 2 * Len(fs))
             + (IF id = f.bid_id THEN f.quantity ELSE 0)
             + (IF id = f.ask_id THEN f.quantity ELSE 0)
<1> DEFINE gs == Append(fs, f)
           n == 2 * Len(fs)
<1>1. /\ gs \in Seq(FillRecord) /\ Len(gs) = Len(fs) + 1 /\ Len(fs) \in Nat
      /\ \A i \in 1 .. Len(fs) : gs[i] = fs[i]
      /\ gs[Len(fs) + 1] = f
  BY AppendProperties
<1> HIDE DEF gs
<1>2. /\ n \in Nat /\ 2 * Len(gs) = (n + 1) + 1
      /\ n \in 0 .. 2 * Len(gs) - 1 /\ n + 1 \in 0 .. 2 * Len(gs) - 1
  BY <1>1
<1>3. Due(gs, id, n) = Due(fs, id, n)
  <2>1. ASSUME NEW k \in 1 .. n
        PROVE  Shares(gs, id)[k] = Shares(fs, id)[k]
    <3>1. /\ k \in 1 .. 2 * Len(gs) /\ k \in 1 .. 2 * Len(fs)
      BY <1>1, <1>2
    <3>2. (k - 1) \div 2 + 1 \in 1 .. Len(fs)
      BY <3>1, SharesEntries
    <3>3. Share(gs, id, k) = Share(fs, id, k)
      BY <1>1, <3>2 DEF Share
    <3>4. QED
      BY <1>1, <3>1, <3>3, SharesEntries
  <2> DEFINE v == Shares(gs, id)
             w == Shares(fs, id)
  <2>2. n \in Nat /\ \A k \in 1 .. n : v[k] = w[k]
    BY <1>2, <2>1
  <2> HIDE DEF n, v, w
  <2>3. PrefixSum(v, n) = PrefixSum(w, n)
    BY <2>2, PrefixSumSame, Zenon
  <2>4. QED
    BY <2>3, Zenon DEF Due, v, w
<1>4. /\ ((n + 1) - 1) \div 2 + 1 = Len(fs) + 1 /\ ((n + 1) - 1) % 2 = 0
      /\ (((n + 1) + 1) - 1) \div 2 + 1 = Len(fs) + 1
      /\ (((n + 1) + 1) - 1) % 2 = 1
  BY <1>1
<1> HIDE DEF n
<1>5. /\ Share(gs, id, n + 1) = IF id = f.bid_id THEN f.quantity ELSE 0
      /\ Share(gs, id, (n + 1) + 1) = IF id = f.ask_id THEN f.quantity ELSE 0
  BY <1>1, <1>4 DEF Share
<1>6. /\ Due(gs, id, n + 1) = Due(gs, id, n) + Share(gs, id, n + 1)
      /\ Due(gs, id, (n + 1) + 1) =
           Due(gs, id, n + 1) + Share(gs, id, (n + 1) + 1)
  BY <1>1, <1>2, DueStep
<1>7. QED
  BY <1>2, <1>3, <1>5, <1>6 DEF gs, n

-----------------------------------------------------------------------------
(* What the steps of a call do to the live orders *)

\* A cancel or a modify takes one order out and leaves the others alone.
LEMMA TakeOutLive ==
  ASSUME IInv, pc = "idle", NEW id \in Nat, lookup(id) # NULL,
         NEW k \in 1 .. PoolCapacity, take_out(lookup(id), k),
         UNCHANGED aggressor
  PROVE  /\ \A m \in Node : ~IsFree(m)' =>
              ~IsFree(m) /\ arena'[m] = arena[m]
         /\ \A m \in Node : ~IsFree(m)' => arena[m].id # id
<1>1. /\ lookup(id) \in Node /\ arena[lookup(id)].id = id /\ ~IsFree(lookup(id))
  BY LookupFinds
<1>2. \A m \in Node : IsFree(m)' <=> IsFree(m) \/ m = lookup(id)
  BY CancelFound
<1>3. arena' = [arena EXCEPT ![lookup(id)].filled_qty = 0]
  BY DEF take_out
<1>4. ASSUME NEW m \in Node, m # lookup(id) PROVE arena'[m] = arena[m]
  BY <1>3, <1>4 DEF IInv, TypeOK
<1>5. QED
  BY <1>1, <1>2, <1>4 DEF IInv, LiveIdsUnique

\* add_order makes one more order live, with nothing filled.
LEMMA AddOrderLive ==
  ASSUME IInv, add_order
  PROVE  /\ aggressor' \in Node
         /\ arena'[aggressor'].id = req.id
         /\ arena'[aggressor'].filled_qty = 0
         /\ \A m \in Node : m # aggressor' /\ ~IsFree(m)' =>
              ~IsFree(m) /\ arena'[m] = arena[m]
<1> DEFINE n == Last(free_list)
           o == [id |-> req.id, client |-> req.client, side |-> req.side,
                 type |-> req.type, price |-> req.price,
                 quantity |-> req.qty, filled_qty |-> 0]
<1>1. /\ ~Rejected /\ free_list' = Front(free_list)
      /\ arena' = [arena EXCEPT ![n] = o] /\ aggressor' = n
  BY DEF add_order
<1>2. free_list \in Seq(Node) /\ free_list # <<>> /\ IsInjective(free_list)
  BY <1>1 DEF IInv, TypeOK, PoolPartition, Rejected
<1>3. n \in Node /\ \A m : IsFree(m)' <=> IsFree(m) /\ m # n
  BY <1>1, <1>2, FrontDistinct DEF IsFree
<1>4. arena \in [Node -> Order] /\ o.id = req.id /\ o.filled_qty = 0
  BY DEF IInv, TypeOK
<1> HIDE DEF n, o
<1>5. arena'[n] = o /\ \A m \in Node : m # n => arena'[m] = arena[m]
  BY <1>1, <1>3, <1>4
<1>6. QED
  BY <1>1, <1>3, <1>4, <1>5

\* Discard drops the aggressor.
LEMMA DiscardLive ==
  ASSUME IInv, Discard
  PROVE  \A m \in Node : ~IsFree(m)' => ~IsFree(m) /\ arena'[m] = arena[m]
                                        /\ m # aggressor
<1>1. /\ pc = "match" /\ release(aggressor)
      /\ arena' = [arena EXCEPT ![aggressor].filled_qty = 0]
  BY DEF Discard
<1>2. aggressor \in Node
  BY <1>1 DEF IInv, TypeOK
<1>3. ~IsFree(aggressor)
  BY <1>2 DEF IInv, PoolPartition
<1>4. \A m \in Node : IsFree(m)' <=> IsFree(m) \/ m = aggressor
  BY <1>1, <1>2, <1>3, Released DEF IInv
<1>5. ASSUME NEW m \in Node, m # aggressor PROVE arena'[m] = arena[m]
  BY <1>1, <1>5 DEF IInv, TypeOK
<1>6. QED
  BY <1>4, <1>5

\* A fill is between two live orders, which differ; the aggressor's gain is
\* the quantity of the fill.
LEMMA FillLive ==
  ASSUME IInv, Fill
  PROVE  /\ aggressor \in Node /\ MakerNode \in Node /\ MakerNode # aggressor
         /\ ~IsFree(aggressor) /\ ~IsFree(MakerNode)
         /\ Taker.id # Maker.id
         /\ Traded \in Nat /\ Taker.filled_qty \in Nat
         /\ \A m \in Node : ~IsFree(m)' => ~IsFree(m)
         /\ \A m \in Node : arena'[m].id = arena[m].id
         /\ arena'[aggressor].filled_qty = Taker.filled_qty + Traded
<1>1. /\ aggressor \in Node /\ MakerNode \in Node /\ MakerNode # aggressor
      /\ Traded \in Nat /\ Taker \in Order /\ Maker \in Order
      /\ MakerFilled \in Nat /\ Taker.filled_qty + Traded \in Nat
      /\ \A m \in Node : arena'[m] =
              IF m = aggressor THEN WithFilled(Taker, Taker.filled_qty + Traded)
              ELSE IF m = MakerNode THEN WithFilled(Maker, MakerFilled)
              ELSE arena[m]
  BY FillFacts
<1>2. ~IsFree(aggressor)
  BY <1>1 DEF IInv, PoolPartition
<1>3. ~IsFree(MakerNode)
  <2>1. OnBook(MakerNode)
    BY FillFacts DEF OnBook
  <2>2. QED
    BY <1>1, <2>1 DEF IInv, PoolPartition
<1>4. Taker.id # Maker.id
  BY <1>1, <1>2, <1>3 DEF IInv, LiveIdsUnique, Taker, Maker
<1>5. \A m \in Node : IsFree(m)' <=>
        IsFree(m) \/ (m = MakerNode /\ Traded = remaining(Maker))
  <2>1. CASE Traded = remaining(Maker)
    <3>1. release(MakerNode)
      BY <2>1, FillFacts
    <3>2. QED
      BY <1>1, <1>3, <2>1, <3>1, Released DEF IInv
  <2>2. CASE Traded # remaining(Maker)
    <3>1. UNCHANGED free_list
      BY <2>2, FillFacts
    <3>2. QED
      BY <2>2, <3>1 DEF IsFree
  <2>3. QED
    BY <2>1, <2>2
<1>6. /\ WithFilled(Taker, Taker.filled_qty + Traded).filled_qty =
           Taker.filled_qty + Traded
      /\ WithFilled(Taker, Taker.filled_qty + Traded).id = Taker.id
      /\ WithFilled(Maker, MakerFilled).filled_qty = MakerFilled
      /\ WithFilled(Maker, MakerFilled).id = Maker.id
  BY <1>1, SetFilled
<1>7. ASSUME NEW m \in Node PROVE arena'[m].id = arena[m].id
  <2>1. CASE m = aggressor
    BY <1>1, <1>6, <2>1 DEF Taker
  <2>2. CASE m = MakerNode
    BY <1>1, <1>6, <2>2 DEF Maker
  <2>3. CASE m \notin {aggressor, MakerNode}
    BY <1>1, <2>3
  <2>4. QED
    BY <2>1, <2>2, <2>3
<1>8. Taker.filled_qty \in Nat
  BY <1>1 DEF Order
<1>9. QED
  BY <1>1, <1>2, <1>3, <1>4, <1>5, <1>6, <1>7, <1>8

-----------------------------------------------------------------------------
(* The engine's steps on its book *)

\* The fields of a message, by its type.
LEMMA MessageFields ==
  ASSUME NEW m \in Messages
  PROVE  /\ m.type \in {"NewOrder", "CancelOrder", "ModifyOrder", "Unknown"}
         /\ m.client \in Clients
         /\ m.type = "NewOrder" =>
              /\ m.side \in Sides /\ m.order_type \in OrderTypes
              /\ m.price \in AnyPrice /\ m.qty \in AnyQty
         /\ m.type = "CancelOrder" => m.id \in 1 .. MaxId
         /\ m.type = "ModifyOrder" =>
              m.id \in 1 .. MaxId /\ m.price \in AnyPrice /\ m.qty \in AnyQty
BY DEF Messages

\* The head of the inbound ring, and what is left behind it.
LEMMA InboundHead ==
  ASSUME ETypeOK, inbound # <<>>
  PROVE  /\ Head(inbound) \in Messages
         /\ Tail(inbound) \in Seq(Messages) /\ Len(Tail(inbound)) <= RING_SIZE
<1>1. inbound \in Seq(Messages) /\ Len(inbound) <= RING_SIZE
  BY DEF ETypeOK
<1>2. Len(Tail(inbound)) = Len(inbound) - 1 /\ Len(inbound) \in Nat
  BY <1>1, HeadTailProperties
<1>3. QED
  BY <1>1, <1>2, HeadTailProperties, RingAssumption

\* The calls process makes, as the book's actions.
LEMMA ProcessCalls ==
  ASSUME ETypeOK, process
  PROVE  /\ epc = "poll" /\ inbound # <<>>
         /\ msg' = Head(inbound) /\ msg' \in Messages
         /\ inbound' = Tail(inbound)
         /\ UNCHANGED <<outbound, arrivals, match_number, leg, traded, reported>>
         /\ \/ /\ msg'.type = "NewOrder" /\ Called
               /\ new_order(msg'.client, msg'.side, msg'.order_type,
                            msg'.price, msg'.qty)
            \/ msg'.type = "CancelOrder" /\ Called /\ cancel_order(msg'.id)
            \/ /\ msg'.type = "ModifyOrder" /\ Called
               /\ modify_order(msg'.id, msg'.price, msg'.qty)
            \/ msg'.type = "Unknown" /\ epc' = "poll" /\ UNCHANGED vars
<1>1. inbound # <<>> /\ msg' = Head(inbound) /\ inbound' = Tail(inbound)
  BY DEF process
<1>2. Head(inbound) \in Messages
  BY <1>1, InboundHead
<1>3. QED
  BY <1>1, <1>2 DEF process

\* Every step of the engine is a step of its book, or leaves it alone.
LEMMA BookSteps ==
  ASSUME ETypeOK, [ENext]_allvars
  PROVE  [Next]_vars
<1>1. CASE process
  <2>1. msg' \in Messages
    BY <1>1, ProcessCalls
  <2>2. CASE /\ msg'.type = "NewOrder"
             /\ new_order(msg'.client, msg'.side, msg'.order_type,
                          msg'.price, msg'.qty)
    <3>1. NewOrder
      BY <2>1, <2>2, MessageFields DEF NewOrder
    <3>2. QED
      BY <3>1 DEF Next
  <2>3. CASE msg'.type = "CancelOrder" /\ cancel_order(msg'.id)
    <3>1. CancelOrder
      BY <2>1, <2>3, MessageFields DEF CancelOrder
    <3>2. QED
      BY <3>1 DEF Next
  <2>4. CASE /\ msg'.type = "ModifyOrder"
             /\ modify_order(msg'.id, msg'.price, msg'.qty)
    <3>1. ModifyOrder
      BY <2>1, <2>4, MessageFields DEF ModifyOrder
    <3>2. QED
      BY <3>1 DEF Next
  <2>5. CASE UNCHANGED vars
    BY <2>5
  <2>6. QED
    BY <1>1, <2>2, <2>3, <2>4, <2>5, ProcessCalls
<1>2. CASE book_step
  BY <1>2 DEF book_step, Next
<1>3. CASE UNCHANGED vars
  BY <1>3
<1>4. QED
  BY <1>1, <1>2, <1>3
     DEF ENext, Engine, Arrive, Collect, reply, emit_fill, allvars

\* A push keeps a ring a sequence within its capacity.
LEMMA Pushed ==
  ASSUME NEW S, NEW ring \in Seq(S), Len(ring) <= RING_SIZE, NEW m \in S
  PROVE  Push(ring, m) \in Seq(S) /\ Len(Push(ring, m)) <= RING_SIZE
<1>1. CASE Len(ring) < RING_SIZE
  <2>1. /\ Push(ring, m) = Append(ring, m)
        /\ Append(ring, m) \in Seq(S) /\ Len(Append(ring, m)) = Len(ring) + 1
        /\ Len(ring) \in Nat
    BY <1>1, AppendProperties DEF Push
  <2>2. QED
    BY <1>1, <2>1, RingAssumption
<1>2. CASE ~(Len(ring) < RING_SIZE)
  BY <1>2 DEF Push
<1>3. QED
  BY <1>1, <1>2

-----------------------------------------------------------------------------
(* The gateway's steps *)

\* Phases, Parties and Accounted do not look at the rings.
LEMMA RingsOnly ==
  ASSUME EInv, UNCHANGED <<vars, match_number, epc, msg, leg, traded,
                            reported>>
  PROVE  IInv' /\ Phases' /\ Parties' /\ Accounted'
<1>1. IInv'
  BY NextIInv DEF EInv
<1>2. UNCHANGED <<arena, free_list, fills, next_id, pc, req, aggressor, ret>>
  BY DEF vars, book
<1>3. /\ ReplyId' = ReplyId /\ ReplyKind' = ReplyKind /\ Trading' = Trading
      /\ \A n : IsFree(n)' = IsFree(n)
  BY <1>2 DEF ReplyId, ReplyKind, Trading, IsFree
<1>4. Phases'
  BY <1>2, <1>3 DEF EInv, Phases
<1>5. Parties'
  BY <1>2, <1>3 DEF EInv, Parties
<1>6. Accounted'
  BY <1>2, <1>3 DEF EInv, Accounted
<1>7. QED
  BY <1>1, <1>4, <1>5, <1>6

\* The gateway pushes a message.
LEMMA ArriveEInv ==
  ASSUME EInv, NEW m \in Requests, Arrive(m)
  PROVE  EInv'
<1>1. /\ arrivals < MaxArrivals /\ arrivals' = arrivals + 1
      /\ inbound' = Push(inbound, m)
      /\ UNCHANGED <<vars, outbound, match_number, epc, msg, leg, traded,
                     reported>>
  BY DEF Arrive
<1>2. IInv' /\ Phases' /\ Parties' /\ Accounted'
  BY <1>1, RingsOnly
<1>3. UNCHANGED <<pc, fills>>
  BY <1>1 DEF vars
<1>4. inbound' \in Seq(Messages) /\ Len(inbound') <= RING_SIZE
  BY <1>1, Pushed, RequestAssumption DEF EInv, ETypeOK
<1>5. arrivals' \in 0 .. MaxArrivals
  BY <1>1, ArrivalAssumption DEF EInv, ETypeOK
<1>6. ETypeOK'
  BY <1>1, <1>2, <1>3, <1>4, <1>5 DEF EInv, ETypeOK, IInv
<1>7. MatchNumbers' /\ ReportsOrdered'
  BY <1>1, <1>3 DEF EInv, MatchNumbers, ReportsOrdered
<1>8. QED
  BY <1>2, <1>6, <1>7 DEF EInv

\* The gateway pops a report.
LEMMA CollectEInv ==
  ASSUME EInv, Collect
  PROVE  EInv'
<1>1. /\ outbound # <<>> /\ outbound' = Tail(outbound)
      /\ UNCHANGED <<vars, inbound, arrivals, match_number, epc, msg, leg,
                     traded, reported>>
  BY DEF Collect
<1>2. IInv' /\ Phases' /\ Parties' /\ Accounted'
  BY <1>1, RingsOnly
<1>3. UNCHANGED <<pc, fills>>
  BY <1>1 DEF vars
<1>4. /\ outbound \in Seq(Replies \cup Executions) /\ Len(outbound) <= RING_SIZE
      /\ Len(outbound) \in Nat
  BY DEF EInv, ETypeOK
<1>5. /\ outbound' \in Seq(Replies \cup Executions)
      /\ Len(outbound') = Len(outbound) - 1
      /\ \A i \in 1 .. Len(outbound') :
           i + 1 \in 1 .. Len(outbound) /\ outbound'[i] = outbound[i + 1]
  BY <1>1, <1>4, HeadTailProperties
<1>6. ETypeOK'
  <2>1. Len(outbound') <= RING_SIZE
    BY <1>4, <1>5, RingAssumption
  <2>2. QED
    BY <1>1, <1>2, <1>3, <1>5, <2>1 DEF EInv, ETypeOK, IInv
<1>7. MatchNumbers'
  <2>1. SUFFICES ASSUME NEW i \in 1 .. Len(outbound'),
                        outbound'[i].type = "OrderExecuted"
        PROVE  LET m == outbound'[i]
                   f == fills[leg \div 2 + 1]
               IN  /\ m.match_number <= match_number
                   /\ m.match_number = match_number =>
                        /\ i = Len(outbound') /\ leg % 2 = 1
                        /\ m.price = f.price /\ m.quantity = f.quantity
                        /\ m.id = f.bid_id
    BY <1>1, <1>3 DEF MatchNumbers
  <2>2. i + 1 \in 1 .. Len(outbound) /\ outbound'[i] = outbound[i + 1]
    BY <1>5
  <2>3. i + 1 = Len(outbound) => i = Len(outbound')
    BY <1>4, <1>5
  <2>4. QED
    BY <2>1, <2>2, <2>3 DEF EInv, MatchNumbers
<1>8. ReportsOrdered'
  <2>1. SUFFICES ASSUME NEW i \in 1 .. Len(outbound'),
                        NEW j \in 1 .. Len(outbound'), i < j,
                        outbound'[i].type = "OrderExecuted",
                        outbound'[j].type = "OrderExecuted"
        PROVE  LET a == outbound'[i]
                   b == outbound'[j]
               IN  /\ a.match_number <= b.match_number
                   /\ a.match_number = b.match_number =>
                        /\ j = i + 1
                        /\ a.price = b.price /\ a.quantity = b.quantity
                        /\ a.id # b.id
    BY DEF ReportsOrdered
  <2>2. /\ i + 1 \in 1 .. Len(outbound) /\ outbound'[i] = outbound[i + 1]
        /\ j + 1 \in 1 .. Len(outbound) /\ outbound'[j] = outbound[j + 1]
    BY <1>5
  <2>3. i + 1 < j + 1 /\ (j + 1 = (i + 1) + 1 => j = i + 1)
    BY <2>1
  <2>4. QED
    BY <2>1, <2>2, <2>3 DEF EInv, ReportsOrdered
<1>9. QED
  BY <1>2, <1>6, <1>7, <1>8 DEF EInv

-----------------------------------------------------------------------------
(* The engine's steps *)

\* Outside of emit_fills no report has the number of a match to come, so the
\* order of the reports does not depend on the fills.
LEMMA BookReports ==
  ASSUME EInv, epc # "fills",
         UNCHANGED <<outbound, match_number, leg>>
  PROVE  MatchNumbers' /\ ReportsOrdered'
<1>1. leg = 0 /\ leg % 2 # 1
  BY DEF EInv, Phases
<1>2. MatchNumbers'
  BY <1>1 DEF EInv, MatchNumbers
<1>3. ReportsOrdered'
  BY DEF EInv, ReportsOrdered
<1>4. QED
  BY <1>2, <1>3

\* Every live order was live before, and is the order it was.
Survivors == \A m \in Node : ~IsFree(m)' => ~IsFree(m) /\ arena'[m] = arena[m]

\* Accounted without anything owed, before and after.
LEMMA AccountedQuiet ==
  ASSUME EInv, epc # "fills", ~Trading, epc' # "fills", ~Trading',
         UNCHANGED <<traded, reported>>
  PROVE  Accounted'
<1>1. \A id \in 1 .. MaxId : traded'[id] = reported'[id]
  BY DEF EInv, Accounted
<1>2. QED
  BY <1>1 DEF Accounted

\* The ids of survivors stay in range.
LEMMA PartiesQuiet ==
  ASSUME EInv, Survivors, fills' = fills \/ fills' = <<>>
  PROVE  Parties'
<1>1. \A n \in Node : ~IsFree(n)' => arena'[n].id \in 1 .. MaxId
  BY DEF EInv, Parties, Survivors
<1>2. \A k \in 1 .. Len(fills') : fills'[k].bid_id # fills'[k].ask_id
  <2>1. CASE fills' = fills
    BY <2>1 DEF EInv, Parties
  <2>2. CASE fills' = <<>>
    BY <2>2
  <2>3. QED
    BY <2>1, <2>2
<1>3. QED
  BY <1>1, <1>2 DEF Parties

\* Taking the next message from the ring.
LEMMA ProcessEInv ==
  ASSUME EInv, process
  PROVE  EInv'
<1>0. ETypeOK /\ IInv
  BY DEF EInv
<1>1. /\ epc = "poll" /\ inbound # <<>> /\ msg' \in Messages
      /\ inbound' = Tail(inbound)
      /\ UNCHANGED <<outbound, arrivals, match_number, leg, traded, reported>>
  BY <1>0, ProcessCalls
<1>2. /\ pc = "idle" /\ leg = 0 /\ ~Trading
      /\ next_id \in 1 .. MaxId + 1
  BY <1>1 DEF EInv, ETypeOK, Phases, Trading
<1>3. IInv'
  <2>1. [Next]_vars
    BY <1>0, BookSteps DEF ENext, Engine
  <2>2. QED
    BY <1>0, <2>1, NextIInv
<1>4. MatchNumbers' /\ ReportsOrdered'
  BY <1>1, BookReports
<1>5. inbound' \in Seq(Messages) /\ Len(inbound') <= RING_SIZE
  BY <1>0, <1>1, InboundHead
<1>6. ASSUME epc' \in {"poll", "book", "reply"}, epc' = "book" <=> pc' # "idle",
             Phases', Parties', Accounted'
      PROVE  EInv'
  <2>1. ETypeOK'
    BY <1>0, <1>1, <1>2, <1>3, <1>5, <1>6 DEF ETypeOK, IInv
  <2>2. QED
    BY <1>3, <1>4, <1>6, <2>1 DEF EInv
<1>7. CASE /\ msg'.type = "NewOrder" /\ Called
           /\ new_order(msg'.client, msg'.side, msg'.order_type,
                        msg'.price, msg'.qty)
  <2>1. /\ next_id <= MaxId /\ next_id' = next_id + 1 /\ fills' = <<>>
        /\ req'.id = next_id /\ pc' = "add" /\ epc' = "book"
        /\ UNCHANGED <<arena, free_list>>
    BY <1>7 DEF new_order, Called, book
  <2>2. Survivors /\ ~Trading'
    BY <2>1 DEF Survivors, IsFree, Trading
  <2>3. ReplyId' = next_id /\ next_id \in 1 .. MaxId
        /\ next_id' \in 1 .. MaxId + 1
    BY <1>2, <1>7, <2>1, BoundAssumption DEF ReplyId
  <2>4. Phases'
    BY <1>1, <1>2, <1>7, <2>1, <2>3 DEF Phases
  <2>5. Parties' /\ Accounted'
    BY <1>1, <1>2, <2>1, <2>2, PartiesQuiet, AccountedQuiet
  <2>6. QED
    BY <1>6, <2>1, <2>4, <2>5
<1>8. CASE msg'.type = "CancelOrder" /\ Called /\ cancel_order(msg'.id)
  <2>1. /\ pc' = "idle" /\ epc' = "reply" /\ UNCHANGED <<fills, next_id, aggressor>>
        /\ msg'.id \in 1 .. MaxId /\ msg'.id \in Nat
    BY <1>1, <1>2, <1>8, MessageFields, BoundAssumption DEF cancel_order, Called
  <2>2. Survivors
    <3>1. CASE lookup(msg'.id) = NULL
      <4>1. UNCHANGED <<arena, free_list>>
        BY <1>8, <3>1 DEF cancel_order, book
      <4>2. QED
        BY <4>1 DEF Survivors, IsFree
    <3>2. CASE lookup(msg'.id) # NULL
      <4>1. PICK k \in 1 .. PoolCapacity : take_out(lookup(msg'.id), k)
        BY <1>8, <3>2 DEF cancel_order
      <4>2. QED
        BY <1>0, <1>2, <2>1, <3>2, <4>1, TakeOutLive DEF Survivors
    <3>3. QED
      BY <3>1, <3>2
  <2>3. ~Trading' /\ ReplyId' = msg'.id
    BY <1>8, <2>1 DEF Trading, ReplyKind, ReplyId
  <2>4. Phases'
    BY <1>1, <1>2, <1>8, <2>1, <2>3 DEF Phases
  <2>5. Parties' /\ Accounted'
    BY <1>1, <1>2, <2>1, <2>2, <2>3, PartiesQuiet, AccountedQuiet
  <2>6. QED
    BY <1>6, <2>1, <2>4, <2>5
<1>9. CASE /\ msg'.type = "ModifyOrder" /\ Called
           /\ modify_order(msg'.id, msg'.price, msg'.qty)
  <2>1. /\ UNCHANGED <<next_id, aggressor>> /\ fills' = <<>>
        /\ msg'.id \in 1 .. MaxId /\ msg'.id \in Nat
    BY <1>1, <1>9, MessageFields, BoundAssumption DEF modify_order
  <2>2. ReplyId' = msg'.id
    BY <1>9 DEF ReplyId
  <2>3. CASE lookup(msg'.id) = NULL
    <3>1. /\ UNCHANGED <<arena, free_list, pc>> /\ ret' = FALSE
          /\ epc' = "reply"
      BY <1>2, <1>9, <2>3 DEF modify_order, book, Called
    <3>2. Survivors /\ ~Trading'
      BY <1>2, <3>1 DEF Survivors, IsFree, Trading, ReplyKind
    <3>3. Phases'
      BY <1>1, <1>2, <1>9, <2>1, <2>2, <3>1 DEF Phases
    <3>4. Parties' /\ Accounted'
      BY <1>1, <1>2, <2>1, <3>1, <3>2, PartiesQuiet, AccountedQuiet
    <3>5. QED
      BY <1>2, <1>6, <3>1, <3>3, <3>4
  <2>4. CASE lookup(msg'.id) # NULL
    <3>1. /\ pc' = "add" /\ req'.id = msg'.id /\ epc' = "book"
      BY <1>9, <2>4 DEF modify_order, Called
    <3>2. PICK k \in 1 .. PoolCapacity : take_out(lookup(msg'.id), k)
      BY <1>9, <2>4 DEF modify_order
    <3>3. Survivors
      BY <1>0, <1>2, <2>1, <2>4, <3>2, TakeOutLive DEF Survivors
    <3>4. ~Trading'
      BY <3>1 DEF Trading
    <3>5. Phases'
      BY <1>1, <1>2, <1>9, <2>1, <2>2, <3>1 DEF Phases
    <3>6. Parties' /\ Accounted'
      BY <1>1, <1>2, <2>1, <3>1, <3>3, <3>4, PartiesQuiet, AccountedQuiet
    <3>7. QED
      BY <1>6, <3>1, <3>5, <3>6
  <2>5. QED
    BY <2>3, <2>4
<1>10. CASE msg'.type = "Unknown" /\ epc' = "poll" /\ UNCHANGED vars
  <2>1. UNCHANGED <<arena, free_list, fills, next_id, pc>>
    BY <1>10 DEF vars, book
  <2>2. Survivors /\ ~Trading'
    BY <1>2, <1>10, <2>1 DEF Survivors, IsFree, Trading
  <2>3. Phases'
    BY <1>1, <1>2, <1>10, <2>1 DEF Phases
  <2>4. Parties' /\ Accounted'
    BY <1>1, <1>2, <1>10, <2>1, <2>2, PartiesQuiet, AccountedQuiet
  <2>5. QED
    BY <1>2, <1>6, <1>10, <2>1, <2>3, <2>4
<1>11. QED
  BY <1>0, <1>7, <1>8, <1>9, <1>10, ProcessCalls

\* What the history of trades records of a step of the book.
LEMMA LedgerStep ==
  ASSUME EInv, book_step
  PROVE  /\ traded' \in [1 .. MaxId -> Nat]
         /\ ~Fill => traded' = traded
         /\ Fill => \A id \in 1 .. MaxId : traded'[id] =
              traded[id] + (IF id \in {Taker.id, Maker.id} THEN Traded ELSE 0)
<1> DEFINE q == arena'[aggressor].filled_qty - arena[aggressor].filled_qty
<1>1. traded \in [1 .. MaxId -> Nat] /\ IInv
  BY DEF EInv, ETypeOK
<1>2. /\ Step
      /\ traded' = IF pc = "match" /\ q > 0
           THEN [traded EXCEPT ![Taker.id] = @ + q, ![Maker.id] = @ + q]
           ELSE traded
  BY DEF book_step, Ledger, Taker, Maker, MakerNode, TakenSide, TakenPrice
<1>3. pc = "match" => /\ aggressor \in Node
                      /\ arena[aggressor].filled_qty \in Nat
                      /\ arena \in [Node -> Order]
  BY <1>1 DEF IInv, TypeOK, Order
<1>4. ASSUME ~Fill PROVE traded' = traded
  <2>1. CASE pc # "match"
    BY <1>2, <2>1
  <2>2. CASE pc = "match"
    <3>1. Rest \/ Discard
      BY <1>2, <1>4, <2>2 DEF Step, reject_order, add_order
    <3>2. \/ arena'[aggressor].filled_qty = arena[aggressor].filled_qty
          \/ arena'[aggressor].filled_qty = 0
      <4>1. CASE Rest
        <5>1. UNCHANGED arena
          BY <4>1 DEF Rest
        <5>2. QED
          BY <5>1
      <4>2. CASE Discard
        <5>1. arena' = [arena EXCEPT ![aggressor].filled_qty = 0]
          BY <4>2 DEF Discard
        <5>2. arena[aggressor] \in Order
          BY <1>3, <2>2
        <5>3. QED
          BY <1>3, <2>2, <5>1, <5>2 DEF Order
      <4>3. QED
        BY <3>1, <4>1, <4>2
    <3>3. ~(q > 0)
      BY <1>3, <2>2, <3>2
    <3>4. QED
      BY <1>2, <3>3
  <2>3. QED
    BY <2>1, <2>2
<1>5. ASSUME Fill
      PROVE  /\ traded' \in [1 .. MaxId -> Nat]
             /\ \A id \in 1 .. MaxId : traded'[id] =
                  traded[id] + (IF id \in {Taker.id, Maker.id} THEN Traded ELSE 0)
  <2>1. /\ aggressor \in Node /\ MakerNode \in Node
        /\ ~IsFree(aggressor) /\ ~IsFree(MakerNode)
        /\ Taker.id # Maker.id /\ Traded \in Nat /\ Taker.filled_qty \in Nat
        /\ arena'[aggressor].filled_qty = Taker.filled_qty + Traded
    BY <1>1, <1>5, FillLive
  <2>2. q = Traded /\ pc = "match"
    <3>1. pc = "match"
      BY <1>5 DEF Fill
    <3>2. q = (Taker.filled_qty + Traded) - Taker.filled_qty
      BY <2>1 DEF Taker
    <3>3. QED
      BY <2>1, <3>1, <3>2
  <2>3. Taker.id \in 1 .. MaxId /\ Maker.id \in 1 .. MaxId
    BY <2>1 DEF EInv, Parties, Taker, Maker
  <2> HIDE DEF q
  <2>4. CASE Traded > 0
    <3>1. traded' = [traded EXCEPT ![Taker.id] = @ + Traded,
                                   ![Maker.id] = @ + Traded]
      BY <1>2, <2>2, <2>4
    <3>2. \A id \in 1 .. MaxId : traded[id] \in Nat
      BY <1>1
    <3>3. QED
      BY <1>1, <2>1, <2>3, <3>1, <3>2
  <2>5. CASE ~(Traded > 0)
    <3>1. Traded = 0 /\ traded' = traded
      BY <1>2, <2>1, <2>2, <2>5
    <3>2. QED
      BY <1>1, <3>1
  <2>6. QED
    BY <2>4, <2>5
<1>6. QED
  BY <1>1, <1>4, <1>5

\* What stays the same while the book works.
LEMMA BookStepFrame ==
  ASSUME EInv, book_step
  PROVE  /\ IInv' /\ MatchNumbers' /\ ReportsOrdered'
         /\ epc = "book" /\ pc # "idle" /\ leg = 0
         /\ UNCHANGED <<inbound, outbound, arrivals, match_number, msg, leg,
                        reported, next_id>>
         /\ epc' = IF pc' = "idle" THEN "reply" ELSE "book"
         /\ msg \in Messages /\ msg.type # "Unknown"
         /\ msg.type # "CancelOrder"
         /\ ReplyId' = ReplyId /\ ReplyId \in 1 .. MaxId
         /\ Phases' /\ Parties' /\ Accounted' => EInv'
<1>0. ETypeOK /\ IInv
  BY DEF EInv
<1>1. /\ epc = "book" /\ Step
      /\ UNCHANGED <<inbound, outbound, arrivals, match_number, msg, leg,
                     reported>>
      /\ epc' = IF pc' = "idle" THEN "reply" ELSE "book"
  BY DEF book_step, Called
<1>2. IInv'
  <2>1. [Next]_vars
    BY <1>0, BookSteps DEF ENext, Engine
  <2>2. QED
    BY <1>0, <2>1, NextIInv
<1>3. MatchNumbers' /\ ReportsOrdered'
  BY <1>1, BookReports
<1>4. /\ pc # "idle" /\ leg = 0 /\ msg \in Messages /\ msg.type # "Unknown"
      /\ msg.type # "CancelOrder" /\ ReplyId \in 1 .. MaxId
  BY <1>1 DEF EInv, ETypeOK, Phases
<1>5. next_id' = next_id
  BY <1>1 DEF Step, reject_order, add_order, Fill, Rest, Discard
<1>6. ReplyId' = ReplyId
  BY <1>1, <1>5 DEF ReplyId
<1>7. ETypeOK'
  <2>1. traded' \in [1 .. MaxId -> Nat]
    BY LedgerStep
  <2>2. QED
    BY <1>0, <1>1, <1>2, <1>4, <2>1 DEF ETypeOK, IInv
<1>8. QED
  BY <1>1, <1>2, <1>3, <1>4, <1>5, <1>6, <1>7 DEF EInv

\* Phases after a step of the book.
LEMMA BookStepPhases ==
  ASSUME EInv, book_step, pc' # "add"
  PROVE  Phases'
<1>1. /\ epc' \in {"book", "reply"} /\ leg' = 0 /\ msg' = msg
      /\ next_id' = next_id
      /\ msg \in Messages /\ msg.type # "Unknown" /\ msg.type # "CancelOrder"
      /\ ReplyId' = ReplyId /\ ReplyId \in 1 .. MaxId
  BY BookStepFrame
<1>2. next_id \in 1 .. MaxId + 1
  BY DEF EInv, Phases
<1>3. QED
  BY <1>1, <1>2 DEF Phases

\* add_order turns the request down.
LEMMA RejectEInv ==
  ASSUME EInv, book_step, reject_order
  PROVE  EInv'
<1>1. /\ pc = "add" /\ pc' = "idle" /\ ret' = FALSE
      /\ UNCHANGED <<arena, free_list, fills>>
  BY DEF reject_order, book
<1>2. epc = "book" /\ epc' = "reply" /\ UNCHANGED <<traded, reported>>
  BY <1>1, BookStepFrame, LedgerStep DEF Fill
<1>3. Survivors /\ ~Trading /\ ~Trading'
  BY <1>1, <1>2 DEF Survivors, IsFree, Trading, ReplyKind
<1>4. Phases'
  BY <1>1, BookStepPhases
<1>5. Parties' /\ Accounted'
  BY <1>1, <1>2, <1>3, PartiesQuiet, AccountedQuiet
<1>6. QED
  BY <1>4, <1>5, BookStepFrame

\* add_order takes the request, of which nothing is due yet.
LEMMA AddOrderEInv ==
  ASSUME EInv, book_step, add_order
  PROVE  EInv'
<1>1. pc = "add" /\ pc' = "match" /\ UNCHANGED fills
  BY DEF add_order
<1>2. /\ epc = "book" /\ epc' = "book" /\ UNCHANGED <<traded, reported>>
      /\ ReplyId \in 1 .. MaxId
  BY <1>1, BookStepFrame, LedgerStep DEF Fill
<1>3. fills = <<>> /\ req.id = ReplyId
  BY <1>1 DEF EInv, Phases
<1>4. /\ arena'[aggressor'].id = ReplyId
      /\ \A m \in Node : m # aggressor' /\ ~IsFree(m)' =>
           ~IsFree(m) /\ arena'[m] = arena[m]
  BY <1>3, AddOrderLive DEF EInv
<1>5. Phases'
  BY <1>1, BookStepPhases
<1>6. Parties'
  <2>1. \A n \in Node : ~IsFree(n)' => arena'[n].id \in 1 .. MaxId
    BY <1>2, <1>4 DEF EInv, Parties
  <2>2. QED
    BY <1>1, <2>1 DEF EInv, Parties
<1>7. Accounted'
  <2>1. fills' = <<>> /\ 2 * Len(fills') = 0 /\ fills' \in Seq(FillRecord)
    BY <1>1, <1>3
  <2>2. \A id : Due(fills', id, 2 * Len(fills')) = 0
    BY <2>1, DueStep
  <2>3. \A id \in 1 .. MaxId : traded[id] = reported[id] /\ reported[id] \in Nat
    BY <1>1, <1>2 DEF EInv, Accounted, Trading, ETypeOK
  <2>4. QED
    BY <1>1, <1>2, <2>2, <2>3 DEF Accounted, Trading
<1>8. QED
  BY <1>5, <1>6, <1>7, BookStepFrame

\* A call that accepted its order ends: what was due stays due.
LEMMA EndEInv ==
  ASSUME EInv, book_step, Rest \/ Discard
  PROVE  EInv'
<1>1. /\ pc = "match" /\ pc' = "idle" /\ ret' = TRUE /\ UNCHANGED fills
  BY DEF Rest, Discard
<1>2. /\ epc = "book" /\ epc' = "reply"
      /\ UNCHANGED <<msg, traded, reported>> /\ msg.type # "CancelOrder"
  BY <1>1, BookStepFrame, LedgerStep DEF Fill
<1>3. Survivors
  <2>1. CASE Rest
    BY <2>1 DEF Rest, Survivors, IsFree
  <2>2. CASE Discard
    BY <2>2, DiscardLive DEF Survivors, EInv
  <2>3. QED
    BY <2>1, <2>2
<1>4. Trading /\ Trading'
  BY <1>1, <1>2 DEF Trading, ReplyKind
<1>5. Phases'
  BY <1>1, BookStepPhases
<1>6. Parties'
  BY <1>1, <1>3, PartiesQuiet
<1>7. Accounted'
  BY <1>1, <1>2, <1>4 DEF EInv, Accounted
<1>8. QED
  BY <1>5, <1>6, <1>7, BookStepFrame

\* A fill: both parties are owed a report of what they traded, whether or not
\* they are still live.
LEMMA FillEInv ==
  ASSUME EInv, book_step, Fill
  PROVE  EInv'
<1> DEFINE f == NewFill(Taker, Maker, Traded)
<1>1. /\ pc = "match" /\ UNCHANGED pc
      /\ f \in FillRecord /\ fills' = Append(fills, f)
  BY FillFacts DEF EInv
<1>2. epc = "book" /\ epc' = "book" /\ UNCHANGED reported
  BY <1>1, BookStepFrame
<1>3. /\ Taker.id # Maker.id /\ Traded \in Nat
      /\ \A m \in Node : ~IsFree(m)' => ~IsFree(m)
      /\ \A m \in Node : arena'[m].id = arena[m].id
  BY FillLive DEF EInv
<1>4. /\ f.quantity = Traded
      /\ \/ f.bid_id = Taker.id /\ f.ask_id = Maker.id
         \/ f.bid_id = Maker.id /\ f.ask_id = Taker.id
  BY DEF NewFill
<1> HIDE DEF f
<1>5. fills \in Seq(FillRecord)
  BY DEF EInv, IInv, TypeOK
<1>6. Phases'
  BY <1>1, BookStepPhases
<1>7. Parties'
  <2>1. \A n \in Node : ~IsFree(n)' => arena'[n].id \in 1 .. MaxId
    BY <1>3 DEF EInv, Parties
  <2>2. /\ Len(fills') = Len(fills) + 1 /\ Len(fills) \in Nat
        /\ \A k \in 1 .. Len(fills) : fills'[k] = fills[k]
        /\ fills'[Len(fills) + 1] = f
    BY <1>1, <1>5, AppendProperties
  <2>3. ASSUME NEW k \in 1 .. Len(fills')
        PROVE  fills'[k].bid_id # fills'[k].ask_id
    <3>1. CASE k \in 1 .. Len(fills)
      BY <2>2, <3>1 DEF EInv, Parties
    <3>2. CASE k = Len(fills) + 1
      BY <1>3, <1>4, <2>2, <3>2
    <3>3. QED
      BY <2>2, <3>1, <3>2
  <2>4. QED
    BY <2>1, <2>3 DEF Parties
<1>8. Accounted'
  <2>1. SUFFICES ASSUME NEW id \in 1 .. MaxId
        PROVE  traded'[id] = reported[id] + Due(fills', id, 2 * Len(fills'))
    BY <1>1, <1>2 DEF Accounted, Trading
  <2> DEFINE old == Due(fills, id, 2 * Len(fills))
             new == Due(fills', id, 2 * Len(fills'))
  <2>2. traded[id] = reported[id] + old /\ reported[id] \in Nat
    BY <1>1, <1>2 DEF EInv, Accounted, Trading, ETypeOK
  <2>3. old \in Nat
    <3>1. 2 * Len(fills) \in 0 .. 2 * Len(fills)
      BY <1>5
    <3>2. QED
      BY <1>5, <3>1, DueStep
  <2>4. new = old + (IF id = f.bid_id THEN f.quantity ELSE 0)
                  + (IF id = f.ask_id THEN f.quantity ELSE 0)
    BY <1>1, <1>5, DueAppend
  <2>5. traded'[id] =
          traded[id] + (IF id \in {Taker.id, Maker.id} THEN Traded ELSE 0)
    BY LedgerStep
  <2> HIDE DEF old, new
  <2>6. new = old + (IF id \in {Taker.id, Maker.id} THEN Traded ELSE 0)
    BY <1>3, <1>4, <2>3, <2>4
  <2>7. traded'[id] = reported[id] + new
    BY <1>3, <2>2, <2>3, <2>5, <2>6
  <2>8. QED
    BY <2>7 DEF new
<1>9. QED
  BY <1>6, <1>7, <1>8, BookStepFrame

\* The book at work.
LEMMA BookStepEInv ==
  ASSUME EInv, book_step
  PROVE  EInv'
BY RejectEInv, AddOrderEInv, FillEInv, EndEInv DEF book_step, Step

\* The acknowledgement: what is due to both sides is about to be reported.
LEMMA ReplyEInv ==
  ASSUME EInv, reply
  PROVE  EInv'
<1> DEFINE m == [type |-> ReplyKind, client |-> msg.client, id |-> ReplyId]
<1>1. /\ epc = "reply" /\ outbound' = Push(outbound, m) /\ AfterReply
      /\ UNCHANGED <<vars, inbound, arrivals, match_number, msg, leg, traded,
                     reported>>
  BY DEF reply
<1>2. /\ leg = 0 /\ pc = "idle" /\ ReplyId \in 1 .. MaxId
      /\ msg \in Messages /\ fills \in Seq(FillRecord)
      /\ next_id \in 1 .. MaxId + 1
      /\ {traded, reported} \subseteq [1 .. MaxId -> Nat]
  BY <1>1 DEF EInv, Phases, ETypeOK, IInv, TypeOK
<1>3. UNCHANGED <<arena, free_list, fills, next_id, pc, req, aggressor, ret>>
  BY <1>1 DEF vars, book
<1>4. IInv'
  BY <1>1, NextIInv DEF EInv
<1>5. m \in Replies
  BY <1>2, MessageFields, BoundAssumption DEF Replies, ReplyKind
<1>6. epc' = IF ReplyKind = "OrderAccepted" /\ fills # <<>> THEN "fills"
             ELSE "poll"
  BY <1>1 DEF AfterReply
<1>7. ETypeOK'
  <2>1. {traded', reported'} \subseteq [1 .. MaxId -> Nat]
    BY <1>1, <1>2
  <2>2. /\ outbound' \in Seq(Replies \cup Executions)
        /\ Len(outbound') <= RING_SIZE
    BY <1>1, <1>5, Pushed DEF EInv, ETypeOK
  <2>3. epc' = "fills" => leg' < 2 * Len(fills')
    <3>1. fills # <<>> => Len(fills) > 0
      BY <1>2
    <3>2. QED
      BY <1>1, <1>2, <1>3, <1>6, <3>1
  <2>4. /\ epc' \in {"poll", "fills"} /\ pc' = "idle"
    BY <1>2, <1>3, <1>6
  <2>5. /\ inbound' \in Seq(Messages) /\ Len(inbound') <= RING_SIZE
        /\ arrivals' \in 0 .. MaxArrivals /\ match_number' \in Nat \ {0}
        /\ msg' \in Messages \cup {NoMessage} /\ leg' \in Nat
    BY <1>1 DEF EInv, ETypeOK
  <2>6. QED
    BY <1>4, <2>1, <2>2, <2>3, <2>4, <2>5 DEF ETypeOK, IInv
<1>8. Phases'
  BY <1>1, <1>2, <1>3, <1>6 DEF Phases
<1>9. Parties'
  BY <1>3 DEF EInv, Parties, IsFree
<1>10. Accounted'
  <2>1. SUFFICES ASSUME NEW id \in 1 .. MaxId
        PROVE  LET all == Due(fills, id, 2 * Len(fills))
               IN  /\ epc' = "fills" => traded[id] + Due(fills, id, 0) =
                                          reported[id] + all
                   /\ epc' = "poll" => traded[id] = reported[id]
    BY <1>1, <1>2, <1>3, <1>6 DEF Accounted, Trading
  <2> DEFINE all == Due(fills, id, 2 * Len(fills))
  <2>2. Due(fills, id, 0) = 0
    BY <1>2, DueStep
  <2>3. fills = <<>> => all = 0
    <3>1. fills = <<>> => 2 * Len(fills) = 0
      OBVIOUS
    <3>2. QED
      BY <2>2, <3>1
  <2>4. traded[id] \in Nat /\ reported[id] \in Nat
    BY <1>2
  <2>5. CASE ReplyKind = "OrderAccepted"
    <3>1. traded[id] = reported[id] + all
      BY <1>1, <2>5 DEF EInv, Accounted, Trading
    <3> HIDE DEF all
    <3>2. /\ traded[id] + 0 = reported[id] + all
          /\ fills = <<>> => traded[id] = reported[id]
      BY <2>3, <2>4, <3>1
    <3>3. epc' = "poll" => fills = <<>>
      BY <1>6, <2>5
    <3>4. QED
      BY <2>2, <3>2, <3>3 DEF all
  <2>6. CASE ReplyKind # "OrderAccepted"
    <3>1. traded[id] = reported[id]
      BY <1>1, <1>2, <2>6 DEF EInv, Accounted, Trading
    <3>2. QED
      BY <1>6, <2>6, <3>1
  <2>7. QED
    BY <2>5, <2>6
<1>11. /\ Len(outbound) \in Nat
       /\ \/ outbound' = outbound
          \/ /\ Len(outbound') = Len(outbound) + 1
             /\ outbound'[Len(outbound) + 1] = m
             /\ \A i \in 1 .. Len(outbound) : outbound'[i] = outbound[i]
  BY <1>1, AppendProperties DEF Push, EInv, ETypeOK
<1>12. m.type # "OrderExecuted"
  BY DEF ReplyKind
<1>13. \A i \in 1 .. Len(outbound') : outbound'[i].type = "OrderExecuted" =>
         i \in 1 .. Len(outbound) /\ outbound'[i] = outbound[i]
  BY <1>11, <1>12
<1> HIDE DEF m
<1>14. leg % 2 # 1
  BY <1>2
<1>15. MatchNumbers'
  BY <1>1, <1>3, <1>13, <1>14 DEF EInv, MatchNumbers
<1>16. ReportsOrdered'
  BY <1>13 DEF EInv, ReportsOrdered
<1>17. QED
  BY <1>4, <1>7, <1>8, <1>9, <1>10, <1>15, <1>16 DEF EInv

\* One execution report.
LEMMA EmitEInv ==
  ASSUME EInv, emit_fill
  PROVE  EInv'
<1> DEFINE f == fills[leg \div 2 + 1]
           m == Leg(f, leg % 2)
           more == leg + 1 < 2 * Len(fills)
<1>1. /\ epc = "fills" /\ outbound' = Push(outbound, m)
      /\ reported' = [reported EXCEPT ![m.id] = @ + m.quantity]
      /\ match_number' = IF leg % 2 = 1 THEN match_number + 1 ELSE match_number
      /\ more => leg' = leg + 1 /\ epc' = "fills"
      /\ ~more => leg' = 0 /\ epc' = "poll"
      /\ UNCHANGED <<vars, inbound, arrivals, msg, traded>>
  BY DEF emit_fill, Report
<1>2. /\ fills \in Seq(FillRecord) /\ Len(fills) \in Nat
      /\ leg \in Nat /\ leg < 2 * Len(fills) /\ pc = "idle"
      /\ match_number \in Nat \ {0}
      /\ {traded, reported} \subseteq [1 .. MaxId -> Nat]
  BY <1>1 DEF EInv, ETypeOK, IInv, TypeOK
<1>3. UNCHANGED <<arena, free_list, fills, next_id, pc, req, aggressor, ret>>
  BY <1>1 DEF vars, book
<1>4. IInv'
  BY <1>1, NextIInv DEF EInv
<1>5. /\ leg \div 2 + 1 \in 1 .. Len(fills) /\ leg % 2 \in {0, 1}
      /\ leg % 2 = 0 => more /\ (leg + 1) % 2 = 1
                        /\ (leg + 1) \div 2 = leg \div 2
  BY <1>2
<1>6. f \in FillRecord /\ f.bid_id # f.ask_id
  BY <1>2, <1>5 DEF EInv, Parties
<1>7. /\ m.type = "OrderExecuted" /\ m.match_number = match_number
      /\ m.price = f.price /\ m.quantity = f.quantity
      /\ m.id = IF leg % 2 = 0 THEN f.bid_id ELSE f.ask_id
  BY DEF Leg
<1>8. m \in Executions /\ m.quantity \in Nat
  BY <1>2, <1>6 DEF Leg, Executions, FillRecord
<1>9. \A id : Share(fills, id, leg + 1) = IF id = m.id THEN m.quantity ELSE 0
  <2>1. (leg + 1) - 1 = leg
    BY <1>2
  <2>2. QED
    BY <1>7, <2>1 DEF Share
<1> HIDE DEF m, f
<1>10. ETypeOK'
  <2>1. reported' \in [1 .. MaxId -> Nat]
    <3>1. \A k \in 1 .. MaxId : reported[k] + m.quantity \in Nat
      BY <1>2, <1>8
    <3>2. CASE m.id \in 1 .. MaxId
      BY <1>1, <1>2, <3>1, <3>2
    <3>3. CASE m.id \notin 1 .. MaxId
      <4>1. reported' = reported
        BY <1>1, <1>2, <3>3
      <4>2. QED
        BY <1>2, <4>1
    <3>4. QED
      BY <3>2, <3>3
  <2>2. /\ outbound' \in Seq(Replies \cup Executions)
        /\ Len(outbound') <= RING_SIZE
    BY <1>1, <1>8, Pushed DEF EInv, ETypeOK
  <2>3. leg' \in Nat /\ (epc' = "fills" => leg' < 2 * Len(fills'))
    BY <1>1, <1>2, <1>3
  <2>4. epc' \in {"poll", "fills"} /\ pc' = "idle"
        /\ match_number' \in Nat \ {0}
    BY <1>1, <1>2, <1>3
  <2>5. /\ inbound' \in Seq(Messages) /\ Len(inbound') <= RING_SIZE
        /\ arrivals' \in 0 .. MaxArrivals
        /\ msg' \in Messages \cup {NoMessage}
    BY <1>1 DEF EInv, ETypeOK
  <2>6. traded' \in [1 .. MaxId -> Nat]
    BY <1>1, <1>2
  <2>7. QED
    BY <1>4, <2>1, <2>2, <2>3, <2>4, <2>5, <2>6 DEF ETypeOK, IInv
<1>11. Phases'
  <2>1. next_id \in 1 .. MaxId + 1
    BY DEF EInv, Phases
  <2>2. QED
    BY <1>1, <1>2, <1>3, <2>1 DEF Phases
<1>12. Parties'
  BY <1>3 DEF EInv, Parties, IsFree
<1>13. Accounted'
  <2>1. SUFFICES ASSUME NEW id \in 1 .. MaxId
        PROVE  LET all == Due(fills, id, 2 * Len(fills))
               IN  /\ more => traded[id] + Due(fills, id, leg + 1) =
                                reported'[id] + all
                   /\ ~more => traded[id] = reported'[id]
    BY <1>1, <1>2, <1>3 DEF Accounted, Trading
  <2> DEFINE all == Due(fills, id, 2 * Len(fills))
             done == Due(fills, id, leg)
             next == Due(fills, id, leg + 1)
             share == Share(fills, id, leg + 1)
  <2>2. traded[id] \in Nat /\ reported[id] \in Nat
    BY <1>2
  <2>3. traded[id] + done = reported[id] + all
    BY <1>1, <2>1 DEF EInv, Accounted
  <2>4. /\ leg \in 0 .. 2 * Len(fills) - 1 /\ leg \in 0 .. 2 * Len(fills)
        /\ 2 * Len(fills) \in 0 .. 2 * Len(fills)
        /\ ~more => leg + 1 = 2 * Len(fills)
    BY <1>2
  <2>5. done \in Nat /\ all \in Nat /\ next = done + share
    BY <1>2, <2>4, DueStep
  <2>6. ~more => all = next
    BY <2>4
  <2>7. share \in Nat /\ reported'[id] = reported[id] + share
    BY <1>1, <1>2, <1>8, <1>9, <2>2
  <2> HIDE DEF all, done, next, share, more
  <2>8. /\ traded[id] + next = reported'[id] + all
        /\ ~more => traded[id] = reported'[id]
    BY <2>2, <2>3, <2>5, <2>6, <2>7
  <2>9. QED
    BY <2>8 DEF all, next
<1>14. /\ Len(outbound) \in Nat
       /\ \/ outbound' = outbound
          \/ /\ Len(outbound') = Len(outbound) + 1
             /\ outbound'[Len(outbound) + 1] = m
             /\ \A i \in 1 .. Len(outbound) : outbound'[i] = outbound[i]
  BY <1>1, AppendProperties DEF Push, EInv, ETypeOK
<1>15. ASSUME NEW i \in 1 .. Len(outbound),
              outbound[i].type = "OrderExecuted"
       PROVE  /\ outbound[i].match_number \in Nat
              /\ outbound[i].match_number <= match_number
              /\ outbound[i].match_number = match_number =>
                   /\ i = Len(outbound) /\ leg % 2 = 1
                   /\ outbound[i].price = f.price
                   /\ outbound[i].quantity = f.quantity
                   /\ outbound[i].id = f.bid_id
  <2>1. outbound[i] \in Replies \cup Executions
    BY DEF EInv, ETypeOK
  <2>2. outbound[i].match_number \in Nat
    BY <1>15, <2>1 DEF Replies, Executions
  <2>3. QED
    BY <1>15, <2>2 DEF EInv, MatchNumbers, f
<1>16. MatchNumbers'
  <2>1. SUFFICES ASSUME NEW i \in 1 .. Len(outbound'),
                        outbound'[i].type = "OrderExecuted"
        PROVE  LET a == outbound'[i]
                   g == fills[leg' \div 2 + 1]
               IN  /\ a.match_number <= match_number'
                   /\ a.match_number = match_number' =>
                        /\ i = Len(outbound') /\ leg' % 2 = 1
                        /\ a.price = g.price /\ a.quantity = g.quantity
                        /\ a.id = g.bid_id
    BY <1>3 DEF MatchNumbers
  <2>2. \/ i \in 1 .. Len(outbound) /\ outbound'[i] = outbound[i]
        \/ i = Len(outbound') /\ outbound'[i] = m
    BY <1>14
  <2>3. CASE leg % 2 = 1
    <3>1. match_number' = match_number + 1
      BY <1>1, <2>3
    <3>2. outbound'[i].match_number \in Nat
          /\ outbound'[i].match_number <= match_number
      BY <1>2, <1>7, <1>15, <2>1, <2>2
    <3>3. QED
      BY <1>2, <3>1, <3>2
  <2>4. CASE leg % 2 = 0
    <3>1. match_number' = match_number /\ leg' = leg + 1
          /\ leg' % 2 = 1 /\ fills[leg' \div 2 + 1] = f
      BY <1>1, <1>5, <2>4 DEF f
    <3>2. CASE i \in 1 .. Len(outbound) /\ outbound'[i] = outbound[i]
      BY <1>15, <2>1, <2>4, <3>1, <3>2
    <3>3. CASE i = Len(outbound') /\ outbound'[i] = m
      BY <1>2, <1>7, <2>4, <3>1, <3>3
    <3>4. QED
      BY <2>2, <3>2, <3>3
  <2>5. QED
    BY <1>5, <2>3, <2>4
<1>17. ReportsOrdered'
  <2>1. SUFFICES ASSUME NEW i \in 1 .. Len(outbound'),
                        NEW j \in 1 .. Len(outbound'), i < j,
                        outbound'[i].type = "OrderExecuted",
                        outbound'[j].type = "OrderExecuted"
        PROVE  LET a == outbound'[i]
                   b == outbound'[j]
               IN  /\ a.match_number <= b.match_number
                   /\ a.match_number = b.match_number =>
                        /\ j = i + 1
                        /\ a.price = b.price /\ a.quantity = b.quantity
                        /\ a.id # b.id
    BY DEF ReportsOrdered
  <2>2. i \in 1 .. Len(outbound) /\ outbound'[i] = outbound[i]
    BY <1>14, <2>1
  <2>3. \/ j \in 1 .. Len(outbound) /\ outbound'[j] = outbound[j]
        \/ j = Len(outbound) + 1 /\ outbound'[j] = m
    BY <1>14
  <2>4. CASE j \in 1 .. Len(outbound) /\ outbound'[j] = outbound[j]
    BY <2>1, <2>2, <2>4 DEF EInv, ReportsOrdered
  <2>5. CASE j = Len(outbound) + 1 /\ outbound'[j] = m
    BY <1>6, <1>7, <1>15, <2>1, <2>2, <2>5
  <2>6. QED
    BY <2>3, <2>4, <2>5
<1>18. QED
  BY <1>4, <1>10, <1>11, <1>12, <1>13, <1>16, <1>17 DEF EInv

-----------------------------------------------------------------------------
(* The theorems *)

LEMMA InitEInv == EInit => EInv
<1> SUFFICES ASSUME EInit PROVE EInv
  OBVIOUS
<1>1. /\ Init /\ inbound = <<>> /\ outbound = <<>> /\ arrivals = 0
      /\ match_number = 1 /\ epc = "poll" /\ msg = NoMessage /\ leg = 0
      /\ traded = [id \in 1 .. MaxId |-> 0] /\ reported = traded
  BY DEF EInit
<1>2. IInv
  BY <1>1, InitIInv
<1>3. /\ pc = "idle" /\ fills = <<>> /\ next_id = 1
      /\ free_list = [i \in 1 .. PoolCapacity |-> PoolCapacity + 1 - i]
  BY <1>1 DEF Init
<1>4. \A n \in Node : IsFree(n)
  <2>1. \A s \in Sides, p \in Prices : levels[s][p] = <<>>
    BY <1>1 DEF Init
  <2>2. \A n \in Node : ~OnBook(n)
    BY <2>1 DEF OnBook, Contains
  <2>3. aggressor \notin Node
    BY <1>1 DEF Init, NULL, Node
  <2>4. QED
    BY <1>2, <2>2, <2>3 DEF IInv, PoolPartition
<1>5. ETypeOK
  BY <1>1, <1>2, <1>3, RingAssumption, ArrivalAssumption DEF ETypeOK, IInv
<1>6. Phases
  BY <1>1, <1>3, BoundAssumption DEF Phases
<1>7. Parties /\ Accounted
  BY <1>1, <1>3, <1>4 DEF Parties, Accounted, Trading
<1>8. MatchNumbers /\ ReportsOrdered
  BY <1>1 DEF MatchNumbers, ReportsOrdered
<1>9. QED
  BY <1>2, <1>5, <1>6, <1>7, <1>8 DEF EInv

LEMMA NextEInv == EInv /\ [ENext]_allvars => EInv'
<1> SUFFICES ASSUME EInv, [ENext]_allvars PROVE EInv'
  OBVIOUS
<1>1. CASE \E m \in Requests : Arrive(m)
  BY <1>1, ArriveEInv
<1>2. CASE Collect
  BY <1>2, CollectEInv
<1>3. CASE process
  BY <1>3, ProcessEInv
<1>4. CASE book_step
  BY <1>4, BookStepEInv
<1>5. CASE reply
  BY <1>5, ReplyEInv
<1>6. CASE emit_fill
  BY <1>6, EmitEInv
<1>7. CASE UNCHANGED allvars
  <2>1. UNCHANGED <<vars, inbound, outbound, arrivals, match_number, epc, msg,
                    leg, traded, reported>>
    BY <1>7 DEF allvars, evars
  <2>2. IInv' /\ Phases' /\ Parties' /\ Accounted'
    BY <2>1, RingsOnly
  <2>3. UNCHANGED <<pc, fills>>
    BY <2>1 DEF vars
  <2>4. ETypeOK' /\ MatchNumbers' /\ ReportsOrdered'
    BY <2>1, <2>2, <2>3
       DEF EInv, ETypeOK, IInv, MatchNumbers, ReportsOrdered
  <2>5. QED
    BY <2>2, <2>4 DEF EInv
<1>8. QED
  BY <1>1, <1>2, <1>3, <1>4, <1>5, <1>6, <1>7 DEF ENext, Engine

\* The engine's inductive invariant holds in every reachable state.
THEOREM EInvHolds == ESpec => []EInv
<1>1. EInit => EInv
  BY InitEInv
<1>2. EInv /\ [ENext]_allvars => EInv'
  BY NextEInv
<1>3. QED
  BY <1>1, <1>2, PTL DEF ESpec

\* Every variable of the engine keeps its type, neither ring exceeds its
\* capacity, and process and the book's calls begin and end together.
THEOREM EngineTypeCorrect == ESpec => []ETypeOK
<1>1. EInv => ETypeOK
  BY DEF EInv
<1>2. QED
  BY <1>1, EInvHolds, PTL

\* Between messages, emit_fills has emitted for every order exactly what the
\* book executed of it, whether it is live or gone, and whatever calls,
\* rejections and collisions came between.
THEOREM EveryFillReported == ESpec => []FillsReported
<1>1. EInv => FillsReported
  <2> SUFFICES ASSUME EInv, epc = "poll" PROVE reported = traded
    BY DEF FillsReported
  <2>1. ~Trading
    BY DEF EInv, ETypeOK, Trading
  <2>2. \A id \in 1 .. MaxId : traded[id] = reported[id]
    BY <2>1 DEF EInv, Accounted
  <2>3. /\ reported = [id \in 1 .. MaxId |-> reported[id]]
        /\ traded = [id \in 1 .. MaxId |-> traded[id]]
    BY DEF EInv, ETypeOK
  <2>4. [id \in 1 .. MaxId |-> reported[id]] = [id \in 1 .. MaxId |-> traded[id]]
    BY <2>2
  <2>5. QED
    BY <2>3, <2>4, Zenon
<1>2. QED
  BY <1>1, EInvHolds, PTL

\* Execution reports reach the outbound ring in match order and in pairs,
\* also when it overflows.
THEOREM ReportsAlwaysOrdered == ESpec => []ReportsOrdered
<1>1. EInv => ReportsOrdered
  BY DEF EInv
<1>2. QED
  BY <1>1, EInvHolds, PTL

\* The book's invariant holds inside the engine: the engine never calls the
\* book in a way the book's own specification does not allow.
THEOREM BookSoundInEngine == ESpec => []IInv
<1>1. EInv => IInv
  BY DEF EInv
<1>2. QED
  BY <1>1, EInvHolds, PTL
=============================================================================
