---------------------------- MODULE MCOrderBook ----------------------------
(* Three nodes in the pool over a table of two entries and three ids: the    *)
(* pool fills up, ids collide, a level holds several orders and an aggressor *)
(* crosses both price levels.                                                *)
EXTENDS OrderBook
=============================================================================
