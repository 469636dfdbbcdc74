---------------------------- MODULE MatchingEngine ----------------------------
(***************************************************************************)
(* src/core/matching_engine.{h,cpp}: the engine thread.  It pops a message *)
(* from the inbound ring, runs it on its book (module OrderBook, whose     *)
(* variables it shares) and reports on the outbound ring, one push at a    *)
(* time; the result of a push is ignored, so a full ring drops messages.   *)
(* The rings are the bounded FIFO queues that module SPSCRing implements.  *)
(***************************************************************************)
EXTENDS OrderBook

CONSTANTS RING_SIZE,    \* capacity of both rings
          Requests,     \* the messages the gateway may deliver
          MaxArrivals   \* bound: how many of them

ASSUME RingAssumption == RING_SIZE \in Nat \ {0}
\* Ids never run out before messages do.
ASSUME ArrivalAssumption == MaxArrivals \in 0 .. MaxId

VARIABLES inbound, outbound,  \* the two rings
          arrivals,           \* messages delivered so far
          match_number,       \* match_number_
          epc,   \* "poll", "book" while the book works, "reply" before the
                 \* acknowledgement, "fills" while fills are reported
          msg,   \* the message being processed
          leg,   \* in "fills": how many execution reports were pushed
          traded,   \* history: per id, the quantity the book has executed
          reported  \* history: per id, the quantity reported as executed

evars == <<inbound, outbound, arrivals, match_number, epc, msg, leg, traded,
           reported>>
allvars == <<vars, evars>>

\* What the gateway can put into the ring; any type byte may come in.
Messages ==
  [type : {"NewOrder"}, client : Clients, side : Sides,
   order_type : OrderTypes, price : AnyPrice, qty : AnyQty]
  \cup [type : {"CancelOrder"}, client : Clients, id : 1 .. MaxId]
  \cup [type : {"ModifyOrder"}, client : Clients, id : 1 .. MaxId,
        price : AnyPrice, qty : AnyQty]
  \cup [type : {"Unknown"}, client : Clients]

ASSUME RequestAssumption == Requests \subseteq Messages

\* What the engine puts into the ring.
Replies == [type : {"OrderAccepted", "OrderRejected", "OrderCanceled"},
            client : Clients, id : Nat]
Executions == [type : {"OrderExecuted"}, price : AnyPrice, quantity : Nat,
               id : Nat, client : Clients \cup {NULL}, match_number : Nat]

NoMessage == [type |-> "None"]

EInit == /\ Init
         /\ inbound = <<>> /\ outbound = <<>> /\ arrivals = 0
         /\ match_number = 1
         /\ epc = "poll" /\ msg = NoMessage /\ leg = 0
         /\ traded = [id \in 1 .. MaxId |-> 0] /\ reported = traded

-----------------------------------------------------------------------------
\* SPSCRing::push with its result ignored.
Push(ring, m) == IF Len(ring) < RING_SIZE THEN Append(ring, m) ELSE ring

\* The gateway thread's ends of the two rings.
Arrive(m) == /\ arrivals < MaxArrivals
             /\ arrivals' = arrivals + 1
             /\ inbound' = Push(inbound, m)
             /\ UNCHANGED <<vars, outbound, match_number, epc, msg, leg,
                            traded, reported>>

Collect == /\ outbound # <<>>
           /\ outbound' = Tail(outbound)
           /\ UNCHANGED <<vars, inbound, arrivals, match_number, epc, msg, leg,
                          traded, reported>>

-----------------------------------------------------------------------------
\* Where a call of the book leaves the engine.
Called == epc' = IF pc' = "idle" THEN "reply" ELSE "book"

\* run and the switch of process, up to the first step of the book's call.
process ==
  /\ epc = "poll"
  /\ inbound # <<>>
  /\ LET m == Head(inbound)
     IN  /\ inbound' = Tail(inbound)
         /\ msg' = m
         /\ \/ /\ m.type = "NewOrder"
               /\ new_order(m.client, m.side, m.order_type, m.price, m.qty)
               /\ Called
            \/ /\ m.type = "CancelOrder"
               /\ cancel_order(m.id)
               /\ Called
            \/ /\ m.type = "ModifyOrder"
               /\ modify_order(m.id, m.price, m.qty)
               /\ Called
            \/ /\ m.type = "Unknown"
               /\ epc' = "poll"
               /\ UNCHANGED vars
  /\ UNCHANGED <<outbound, arrivals, match_number, leg, traded, reported>>

\* History: what the aggressor has gained in a match was traded between it and
\* the order at the head of the best level across, also when either of them is
\* off the book afterwards.
Ledger ==
  LET a == arena[aggressor]
      s == Opposite(a.side)
      r == arena[Head(levels[s][best[s]])]
      q == arena'[aggressor].filled_qty - a.filled_qty
  IN  traded' = IF pc = "match" /\ q > 0
                  THEN [traded EXCEPT ![a.id] = @ + q, ![r.id] = @ + q]
                  ELSE traded

\* The book at work inside process.
book_step ==
  /\ epc = "book"
  /\ Step
  /\ Ledger
  /\ Called
  /\ UNCHANGED <<inbound, outbound, arrivals, match_number, msg, leg, reported>>

\* The id a reply is about: the one just given to a new order, or the
\* client's.
ReplyId == IF msg.type = "NewOrder" THEN next_id - 1 ELSE msg.id

ReplyKind == IF ~ret THEN "OrderRejected"
             ELSE IF msg.type = "CancelOrder" THEN "OrderCanceled"
             ELSE "OrderAccepted"

\* Only an accepted order goes on to emit_fills.
AfterReply ==
  epc' = IF ReplyKind = "OrderAccepted" /\ fills # <<>> THEN "fills" ELSE "poll"

\* Variant of reply that waits for room on the outbound ring.
reply_waits ==
  /\ epc = "reply"
  /\ Len(outbound) < RING_SIZE
  /\ outbound' = Append(outbound, [type |-> ReplyKind, client |-> msg.client,
                                   id |-> ReplyId])
  /\ AfterReply
  /\ UNCHANGED <<vars, inbound, arrivals, match_number, msg, leg, traded,
                 reported>>

\* emit_accept, emit_cancel or emit_reject.
reply ==
  /\ epc = "reply"
  /\ outbound' = Push(outbound, [type |-> ReplyKind, client |-> msg.client,
                                 id |-> ReplyId])
  /\ AfterReply
  /\ UNCHANGED <<vars, inbound, arrivals, match_number, msg, leg, traded,
                 reported>>

\* Variant of Leg that reports the bid twice.
BidLeg(f, k) == [type |-> "OrderExecuted", price |-> f.price,
                 quantity |-> f.quantity, id |-> f.bid_id,
                 client |-> f.bid_client, match_number |-> match_number]

\* The k-th execution report of fill f: the bid's, then the ask's.
Leg(f, k) == [type |-> "OrderExecuted", price |-> f.price,
              quantity |-> f.quantity,
              id |-> IF k = 0 THEN f.bid_id ELSE f.ask_id,
              client |-> IF k = 0 THEN f.bid_client ELSE f.ask_client,
              match_number |-> match_number]

\* Variant of Report that leaves out an order that was filled and is gone.
ReportKnown(m) ==
  IF lookup(m.id) = NULL THEN UNCHANGED <<outbound, reported>>
  ELSE /\ outbound' = Push(outbound, m)
       /\ reported' = [reported EXCEPT ![m.id] = @ + m.quantity]

Report(m) == /\ outbound' = Push(outbound, m)
             /\ reported' = [reported EXCEPT ![m.id] = @ + m.quantity]

\* One push of emit_fills.
emit_fill ==
  /\ epc = "fills"
  /\ Report(Leg(fills[leg \div 2 + 1], leg % 2))
  /\ match_number' = IF leg % 2 = 1 THEN match_number + 1 ELSE match_number
  /\ IF leg + 1 < 2 * Len(fills) THEN leg' = leg + 1 /\ epc' = "fills"
                                 ELSE leg' = 0 /\ epc' = "poll"
  /\ UNCHANGED <<vars, inbound, arrivals, msg, traded>>

-----------------------------------------------------------------------------
Engine == process \/ book_step \/ reply \/ emit_fill

ENext == (\E m \in Requests : Arrive(m)) \/ Collect \/ Engine

ESpec == EInit /\ [][ENext]_allvars
EFairSpec == ESpec /\ WF_allvars(Engine)

-----------------------------------------------------------------------------
\* Every variable has its type, neither ring exceeds its capacity, and the
\* engine is inside process exactly while the book is at work.
ETypeOK ==
  /\ TypeOK
  /\ inbound \in Seq(Messages) /\ Len(inbound) <= RING_SIZE
  /\ outbound \in Seq(Replies \cup Executions) /\ Len(outbound) <= RING_SIZE
  /\ arrivals \in 0 .. MaxArrivals
  /\ match_number \in Nat \ {0}
  /\ epc \in {"poll", "book", "reply", "fills"}
  /\ epc = "book" <=> pc # "idle"
  /\ msg \in Messages \cup {NoMessage}
  /\ leg \in Nat /\ (epc = "fills" => leg < 2 * Len(fills))
  /\ {traded, reported} \subseteq [1 .. MaxId -> Nat]

\* Between messages, execution reports have been emitted for exactly the
\* quantity every order has traded, to date and whether it is still live or
\* was filled and freed by the match itself (a full ring may still drop them):
\* no fill goes unreported or is reported twice, to either party, although
\* fills_ outlives the call that made it and a later cancel or rejected modify
\* may run in between.
FillsReported == epc = "poll" => reported = traded

\* Execution reports reach the ring in match order, and the two of one match
\* are neighbours with the same price and quantity, also when the ring
\* overflows and drops some of them.
ReportsOrdered ==
  \A i, j \in 1 .. Len(outbound) :
    LET a == outbound[i]
        b == outbound[j]
    IN  /\ i < j
        /\ a.type = "OrderExecuted" /\ b.type = "OrderExecuted"
        => /\ a.match_number <= b.match_number
           /\ a.match_number = b.match_number =>
                /\ j = i + 1
                /\ a.price = b.price /\ a.quantity = b.quantity
                /\ a.id # b.id

\* The engine works off its ring whatever the gateway does: it never waits
\* for room on the outbound side.
InboundServed == []<>(inbound = <<>> /\ epc = "poll")
=============================================================================
