-------------------------- MODULE MCMatchingEngine --------------------------
(* Two price levels, orders that fill each other wholly, in part and over     *)
(* both levels, every way a message can be turned down, and a ring that       *)
(* overflows with the reports of a single message.                            *)
EXTENDS MatchingEngine

New(s, t, p, q) == [type |-> "NewOrder", client |-> 1, side |-> s,
                    order_type |-> t, price |-> p, qty |-> q]

MCRequests ==
  {New("Sell", "Limit", 1, 1), New("Sell", "Limit", 2, 1),
   New("Sell", "Limit", 2, 0), New("Buy", "Limit", 1, 2),
   New("Buy", "Limit", 2, 2), New("Buy", "Limit", 3, 1),
   New("Sell", "Market", 0, 2)}
  \cup [type : {"CancelOrder"}, client : {1}, id : {1, 2}]
  \cup [type : {"ModifyOrder"}, client : {1}, id : {1, 2}, price : {1, 3},
        qty : {1}]
  \cup [type : {"Unknown"}, client : {1}]
=============================================================================
