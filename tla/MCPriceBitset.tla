---- MODULE MCPriceBitset ----
(* Two-bit words over ten price levels: five, three and two words in the    *)
(* three tiers, the last word of tiers 1 and 2 only partly in use.          *)
EXTENDS PriceBitset
====
