------------------------------- MODULE MCFeed -------------------------------
(* A feed session in which frames use every form of a length and every       *)
(* opcode, with quotes, trades and objects that are not ticks.               *)
EXTENDS FeedClient

Pair(key, v) == <<key, v>>
Str(s) == [str |-> s]
Num(n) == [num |-> n]

Quote(bid, ask) == <<Pair("T", Str("q")), Pair("S", Str("AMD")),
                     Pair("bp", Num(bid)), Pair("bs", Num(2)),
                     Pair("ap", Num(ask))>>
Trade(price) == <<Pair("T", Str("t")), Pair("S", Str("AMD")),
                  Pair("p", Num(price)), Pair("s", Num(3))>>

Frame(op, masked, msg, objects, len) ==
  [op |-> op, masked |-> masked, msg |-> msg, objs |-> objects, len |-> len]

MCServerFrames ==
  {Frame("text", FALSE, "greeting", <<>>, 1),
   Frame("text", FALSE, "authenticated", <<>>, 1),
   Frame("text", FALSE, "subscription", <<>>, 1),
   Frame("text", FALSE, "error", <<>>, 1),
   Frame("text", FALSE, "data", <<Quote(6, 11), Trade(9)>>, 2),
   Frame("binary", FALSE, "data", <<Quote(6, 20), Trade(16)>>, 1),
   Frame("ping", FALSE, "ping", <<>>, 2),
   Frame("pong", TRUE, "pong", <<>>, 0),
   Frame("close", FALSE, "close", <<>>, 0)}

MCOptions == {[connect |-> TRUE, capture |-> TRUE, limit |-> 3],
              [connect |-> FALSE, capture |-> TRUE, limit |-> 0]}
=============================================================================
