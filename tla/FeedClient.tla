----------------------------- MODULE FeedClient -----------------------------
(***************************************************************************)
(* src/feed/feed_main.cpp: a tradefeed-feed process that streams from the  *)
(* market data server, captures ticks and sends orders to an exchange, and *)
(* afterwards one that replays the capture.                                *)
(*                                                                         *)
(* A data frame holds objects (Normalizer), handed out one by one by       *)
(* for_each_object.  The capture file has RecUnits units per record, of    *)
(* which `disk` are sure to survive the process; stdio may write out more  *)
(* at any time, so a crash leaves any number between that and all.  The    *)
(* pauses of a replay change nothing that is modelled.                     *)
(***************************************************************************)
EXTENDS AlpacaWebSocket, Normalizer, PrefixSums

CONSTANTS RecUnits,    \* sizeof(CaptureRecord): 32
          FlushEvery,  \* ticks between two calls of fflush: 500
          QtyMod,      \* values of a Quantity: 2^32
          Options      \* command lines: [connect, capture, limit]

\* Only data frames hold objects; they and confirmations are texts, and a
\* number in an object is an integer of its unit.
ASSUME DataAssumption ==
  \A f \in ServerFrames :
    /\ f.objs \in Seq(Range(f.objs))
    /\ f.objs # <<>> => f.msg = "data"
    /\ f.msg \in {"subscription", "data"} => f.op \in {"text", "binary"}
    /\ \A o \in Range(f.objs) :
         /\ o \in Seq(Range(o))
         /\ \A k \in 1 .. Len(o) :
              "num" \in DOMAIN o[k][2] => o[k][2].num \in Int
ASSUME RecAssumption == {RecUnits, FlushEvery, QtyMod} \subseteq Nat \ {0}

VARIABLES opts,      \* the command line
          proc,      \* "live", or "replay" for the second process
          mpc,       \* where main is
          running,   \* g_running
          fd,        \* the exchange: "none", "up", "gone"
          objs,      \* objects of the current frame still to come
          buy,       \* the static of emit_orders
          orders,    \* orders of the current tick still to be sent
          received,  \* orders the exchange has received from this process
          ticks,     \* records this process has handled
          file,      \* records written to the capture
          disk,      \* units of it that survive
          clean      \* the live process has ended by itself

fvars == <<opts, proc, mpc, running, fd, objs, buy, orders, received, ticks,
           file, disk, clean>>
allvars == <<wsvars, fvars>>

Init == /\ WsInit
        /\ opts \in Options /\ proc = "live" /\ mpc = "start"
        /\ running = TRUE /\ fd = "none" /\ objs = <<>> /\ buy = TRUE
        /\ orders = <<>> /\ received = <<>> /\ ticks = <<>>
        /\ file = <<>> /\ disk = 0 /\ clean = FALSE

-----------------------------------------------------------------------------
(* emit_orders *)

\* Round lots; a size that is not known counts as one.
Lots(s) == IF s = 0 THEN 100 ELSE (s * 100) % QtyMod

Order(side, price, quantity) ==
  [side |-> side, price |-> price, quantity |-> quantity]

\* Variant of TurnsSide that alternates on every tick.
TurnsOnEvery(r) == TRUE

\* Only a trade turns the side.
TurnsSide(r) == r.type = "t"

\* The orders of tick r, given the side of the last trade.
OrdersOf(r, last) ==
  IF r.type = "q"
    THEN <<Order("Buy", r.p1, Lots(r.s1)), Order("Sell", r.p2, Lots(r.s2))>>
    ELSE <<Order(IF last THEN "Sell" ELSE "Buy", r.p1,
                 IF r.s1 = 0 THEN 1 ELSE r.s1)>>

\* A tick is counted and its orders are started on, if there is an exchange.
emit_orders(r) ==
  /\ ticks' = Append(ticks, r)
  /\ buy' = IF fd # "none" /\ TurnsSide(r) THEN ~buy ELSE buy
  /\ orders' = IF fd = "none" THEN <<>> ELSE OrdersOf(r, buy)

\* Where main goes on after a tick.
Back == IF proc = "replay" THEN "replay" ELSE "objects"

\* One send_wire: the exchange has the order, or is gone and the rest of the
\* tick is skipped.
send_wire ==
  /\ mpc = "send"
  /\ \/ /\ fd = "up"
        /\ received' = Append(received, Head(orders))
        /\ orders' = Tail(orders)
     \/ /\ fd = "gone"
        /\ orders' = <<>>
        /\ UNCHANGED received
  /\ mpc' = IF orders' = <<>> THEN Back ELSE "send"
  /\ UNCHANGED <<wsvars, opts, proc, running, fd, objs, buy, ticks, file, disk,
                 clean>>

-----------------------------------------------------------------------------
(* main *)

All == RecUnits * Len(file)

\* Variant of Closed that does not write out what is buffered.
ClosedUnflushed == disk

\* fclose, or exit: stdio's buffer is written out.
Closed == All

\* Leaving main, by its last lines or by one of its error returns.
Leave == /\ mpc' = "exit"
         /\ fd' = "none"
         /\ disk' = IF proc = "live" THEN Closed ELSE disk
         /\ clean' = (clean \/ proc = "live")
         /\ UNCHANGED <<opts, proc, running, objs, buy, orders, received, ticks,
                        file>>

Goto(label) == /\ mpc' = label
               /\ UNCHANGED <<opts, proc, running, fd, objs, buy, orders,
                              received, ticks, file, disk, clean>>

dial ==
  /\ mpc = "start"
  /\ \/ /\ mpc' = IF proc = "replay" THEN "replay" ELSE "open"
        /\ fd' = IF opts.connect THEN "up" ELSE "none"
        /\ UNCHANGED <<opts, proc, running, objs, buy, orders, received, ticks,
                       file, disk, clean>>
     \/ opts.connect /\ Leave
  /\ UNCHANGED wsvars

\* The capture is opened, and so emptied, before anything is connected.
\* Missing credentials or symbols end the process here as well.
open_capture ==
  /\ mpc = "open"
  /\ Goto("connect") \/ Leave
  /\ UNCHANGED wsvars

\* The calls that set up the stream, one after the other.
set_up ==
  \/ mpc = "connect" /\ connect /\ Goto("auth")
  \/ mpc = "auth" /\ ret /\ authenticate /\ Goto("subscribe")
  \/ mpc = "subscribe" /\ ret /\ subscribe /\ Goto("stream")

\* The head of the loop.
stream_loop ==
  /\ mpc = "stream" /\ ret /\ running
  /\ read_frame
  /\ Goto("frame")

\* One of the calls has failed, or the loop is over.
give_up ==
  /\ call = "none"
  /\ \/ mpc \in {"auth", "subscribe", "stream", "frame"} /\ ~ret
     \/ mpc = "stream" /\ ~running
  /\ close
  /\ Leave

\* for_each_object over the frame that read_frame returned.
split ==
  /\ mpc = "frame" /\ call = "none" /\ ret
  /\ objs' = script[got[1][2]].objs
  /\ mpc' = "objects"
  /\ UNCHANGED <<wsvars, opts, proc, running, fd, buy, orders, received, ticks,
                 file, disk, clean>>

\* The callback of for_each_object.
on_object ==
  /\ mpc = "objects" /\ objs # <<>>
  /\ objs' = Tail(objs)
  /\ LET r == normalize(Head(objs))
     IN  \/ r = None /\ UNCHANGED <<file, buy, orders, ticks>>
         \/ /\ r # None
            /\ file' = IF opts.capture THEN Append(file, r) ELSE file
            /\ emit_orders(r)
  /\ mpc' = IF orders' = <<>> THEN "objects" ELSE "send"
  /\ UNCHANGED <<wsvars, opts, proc, running, fd, received, disk, clean>>

Enough == opts.limit > 0 /\ Len(ticks) >= opts.limit

\* After a frame: flush, and look at the limit.
frame_done ==
  /\ mpc = "objects" /\ objs = <<>>
  /\ IF Enough
       THEN close /\ Leave
       ELSE /\ mpc' = "stream"
            /\ disk' = IF ticks # <<>> /\ Len(ticks) % FlushEvery = 0
                         THEN All ELSE disk
            /\ UNCHANGED <<wsvars, opts, proc, running, fd, objs, buy, orders,
                           received, ticks, file, clean>>

\* One turn of run_replay: the next whole record, or the end.  At the first
\* one the capture may not open at all.
run_replay ==
  /\ mpc = "replay"
  /\ \/ IF running /\ Len(ticks) < disk \div RecUnits /\ ~Enough
          THEN /\ emit_orders(file[Len(ticks) + 1])
               /\ mpc' = IF orders' = <<>> THEN "replay" ELSE "send"
               /\ UNCHANGED <<opts, proc, running, fd, objs, received, file,
                              disk, clean>>
          ELSE Leave
     \/ ticks = <<>> /\ Leave
  /\ UNCHANGED wsvars

-----------------------------------------------------------------------------
(* The surroundings *)

Over == mpc \in {"exit", "crashed"}
Streaming == proc = "live" /\ ~Over

Signal == /\ running /\ ~Over
          /\ running' = FALSE
          /\ UNCHANGED <<wsvars, opts, proc, mpc, fd, objs, buy, orders,
                         received, ticks, file, disk, clean>>

ExchangeGone == /\ fd = "up"
                /\ fd' = "gone"
                /\ UNCHANGED <<wsvars, opts, proc, mpc, running, objs, buy,
                               orders, received, ticks, file, disk, clean>>

Crash == /\ proc = "live" /\ ~Over
         /\ mpc' = "crashed"
         /\ fd' = "none"
         /\ disk' \in disk .. All
         /\ Killed
         /\ UNCHANGED <<opts, proc, running, objs, buy, orders,
                        received, ticks, file, clean>>

\* A second process replays the capture to a new exchange.
StartReplay == /\ Over /\ proc = "live" /\ opts.capture
               /\ proc' = "replay" /\ mpc' = "start"
               /\ running' = TRUE /\ buy' = TRUE /\ orders' = <<>>
               /\ received' = <<>> /\ ticks' = <<>> /\ objs' = <<>>
               /\ Killed
               /\ UNCHANGED <<opts, fd, file, disk, clean>>

-----------------------------------------------------------------------------
Main == dial \/ open_capture \/ set_up \/ stream_loop \/ give_up \/ split
          \/ on_object \/ frame_done \/ run_replay \/ send_wire
          \/ (Streaming /\ ReadStep /\ UNCHANGED fvars)

Next == \/ Main
        \/ Streaming /\ Server /\ UNCHANGED fvars
        \/ Signal \/ ExchangeGone \/ Crash \/ StartReplay

\* The process runs; server, exchange and operator do what they like.
FairSpec == Init /\ [][Next]_allvars /\ WF_allvars(Main)

-----------------------------------------------------------------------------
(* Properties *)

\* The ticks among objects, and those of the frames read so far, in the
\* server's order.
TicksOf(objects) ==
  FlattenSeq([k \in 1 .. Len(objects) |->
    IF normalize(objects[k]) = None THEN <<>> ELSE <<normalize(objects[k])>>])
TicksRead == FlattenSeq([i \in 1 .. nread |-> TicksOf(script[i].objs)])

\* The orders that ticks should become: both sides of every quote, and for
\* the trades, counted alone, sell and buy in turn.
Trades(records) ==
  [k \in 1 .. Len(records) |-> IF records[k].type = "t" THEN 1 ELSE 0]
Expected(records) ==
  FlattenSeq([i \in 1 .. Len(records) |->
    LET r == records[i]
        sells == PrefixSum(Trades(records), i) % 2 = 1
        size == IF r.s1 = 0 THEN 1 ELSE r.s1
    IN  IF r.type = "q"
          THEN <<Order("Buy", r.p1, Lots(r.s1)), Order("Sell", r.p2, Lots(r.s2))>>
          ELSE <<Order(IF sells THEN "Sell" ELSE "Buy", r.p1, size)>>])

\* Live or replayed, the exchange receives the orders of the ticks so far, in
\* order and without a gap, up to the point where it went away, and every one
\* has a price the book accepts.
EmissionExact ==
  /\ IsPrefix(received, Expected(ticks))
  /\ fd = "up" => received \o orders = Expected(ticks)
  /\ \A i \in DOMAIN received : received[i].price \in 1 .. MAX_PRICE

\* Every tick the server sent is handled once and in order, and the capture
\* replays it: after a crash, which may tear a record, a replay is the start
\* of what was read; after an orderly end, on any path, all of it, unless the
\* replay got no exchange or no capture to begin with.
ReplayFaithful ==
  /\ IsPrefix(ticks, TicksRead)
  /\ proc = "live" /\ opts.capture => file = ticks
  /\ proc = "live" /\ mpc = "stream" => ticks = TicksRead
  /\ /\ proc = "replay" /\ mpc = "exit" /\ running /\ ~Enough
     /\ clean /\ ticks # <<>>
     => ticks = TicksRead

\* A ping is answered sooner or later: as long as the process runs and the
\* connection holds, no ping stays without its pong, whatever frames come in
\* between and in whatever call it is read.
EventuallyPonged ==
  []<>(\/ ~Streaming \/ srv = "gone"
       \/ \A i \in DOMAIN script : script[i].op = "ping" =>
            Contains(Pongs, Payload(script[i], i)))
=============================================================================
