----------------------------- MODULE MCExchange -----------------------------
(* Two clients whose orders trade with each other.                           *)
EXTENDS Exchange

CONSTANTS c1, c2

Limit(client, side) == [type |-> "NewOrder", client |-> client, side |-> side,
                        order_type |-> "Limit", price |-> 1, qty |-> 1]

MCScript == [c \in Conns |-> <<IF c = c1 THEN Limit(1, "Sell")
                                         ELSE Limit(2, "Buy")>>]
=============================================================================
