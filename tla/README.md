# TradeFeed in TLA+

A verification project for TradeFeed, a limit order book and matching engine
with a lock-free transport, a TCP gateway and a market data feed. It holds TLA+
models of the exchange's and the feed's components, TLC configurations that check them on small instances,
and TLAPS proofs of their most important invariants for every instance. Paths
below are relative to the repository (`src/core/...` and so on); PROJECT.json
lists, for every definition, the lines it models.

## 1. The system

| Component | State | Operations | What makes it correct |
|---|---|---|---|
| `transport/spsc_ring.h` | two atomic indices, a cached copy of each, the slots | `push` (gateway or engine), `pop` (the other) | a bounded FIFO of whole messages in spite of stale caches and non-atomic copies |
| `core/price_bitset.h` | three tiers of words | `set`, `clear`, `test`, `highest`, `lowest` | tiers summarise each other; the descents equal a scan |
| `core/price_level.h` | head, tail, links in the orders, total, count | `push`, `remove`, `adjust_qty` | links, count and total agree |
| `core/order_pool.h` | arena, free list | `allocate`, `deallocate` | no leak, no double free |
| `core/order_book.*` | price arrays, bitsets, best prices, order table, pool, fills | `add_order`, `cancel_order`, `modify_order` | price-time priority; exact best prices; the table never dangles |
| `core/matching_engine.*` | book, next id, next match number | `run`, `process`, the `emit_*` functions | every fill reported once to each party, in order; never blocks |
| `transport/socket_transport.h` | client slots with a partial frame each, epoll | `accept_client`, `read_client`, `disconnect`, `drain_outbound`, `run` | whole frames, no lost wake-up, slots match connections |
| `codec/sbe_messages.h` | - | message layouts | fixed frames |
| `main.cpp` | running flag, two threads | start, status line, shutdown | a signal ends all threads, nothing in use is destroyed |
| `feed/alpaca_ws.*` | TLS session, received bytes not yet used | `connect`, `authenticate`, `subscribe`, `read_frame`, `close` | framing never lost, pings answered |
| `feed/feed_normalizer.h` | - | `to_cents`, `field*`, `parse_rfc3339_ns`, `normalize`, `for_each_object` | each equals its definition |
| `feed/feed_main.cpp` | exchange connection, capture file, side of the last trade | live session, `emit_orders`, `run_replay` | orders and capture are those of the ticks; a replay repeats them |
| `analytics/book_analytics.h` | VPIN buckets, sums | `on_fill`, views of a book | the window holds the last buckets; sums are exact |

How they interact: clients talk TCP to the gateway thread, which assembles
frames and pushes them on the inbound ring; the engine thread pops, runs the
book, and pushes acknowledgements and execution reports on the outbound ring;
the gateway pops those and broadcasts them to every client. The two threads
share nothing but the rings (and the running flag). The main thread only reads
the book for its status line. The feed is a separate process that is one more
TCP client.

What is hard: the interleavings inside the ring; the interplay of levels,
bitset and cached best price while an aggressor eats through levels; id
collisions in the order table and a full pool; a modify that fails half way;
results that are ignored when a ring or a socket buffer is full; edge-triggered
epoll, partial frames and slot reuse; a signal at any moment; a WebSocket stream
cut anywhere; a capture torn by a crash. PROJECT.json lists these hazards with
their lines and the properties aimed at each.

## 2. The modules

| Module | Models | Notes |
|---|---|---|
| `Types` | `core/types.h`: the price range | |
| `SPSCRing` | the ring | one step per access the other thread can see |
| `BoundedQueue` | what a ring promises | abstract specification |
| `PriceBitset` | the bitset | words as sets of bit positions, width a parameter |
| `PriceLevel` | one level's intrusive list | history variable `queue`; quantities of `Width` bits |
| `OrderBook` | book and pool | levels as sequences, bitsets as sets |
| `PriceTimeBook` | what the book promises | abstract specification |
| `OrderBookRefinement` | the mapping between the two | levels joined from best to worst; table, pool and occupancy disappear |
| `MatchingEngine` | the engine over `OrderBook` and two bounded queues | |
| `Gateway` | gateway thread, clients, kernel | |
| `Exchange` | `main.cpp`: both threads, the rings and the flag | composes `Gateway` and `MatchingEngine` |
| `AlpacaWebSocket` | the WebSocket client and the server it talks to | byte by byte on the receiving side |
| `Normalizer` | the normaliser | pure operators |
| `FeedClient` | `feed_main.cpp` | composes `AlpacaWebSocket` and `Normalizer` |
| `BookAnalytics` | the analytics | ratios as pairs |
| `PrefixSums` | sums over a sequence | a recursive function, so that TLC evaluates and TLAPS reasons about it |
| `Numerals` | numbers and powers from their digits | a recursive function, for the same reason |
| `DataLemmas` | facts about Min, Max, sequences, prefixes, remainders, sums, numerals and concatenations | proved, used by the proofs |
| `SPSCRing_proofs`, `PriceBitset_proofs`, `PriceLevel_proofs`, `OrderBook_proofs`, `MatchingEngine_proofs`, `Exchange_proofs`, `FeedClient_proofs` | theorems | section 4 |
| `MC*` | instances for TLC | `MCFunctions` puts `MCNormalizer` and `MCBookAnalytics` side by side |

The components are stacked by what they promise: `SPSCRing` is shown to be a
`BoundedQueue`, so `MatchingEngine` and `Gateway` use queues of bounded length;
`PriceBitset` is shown to find the Max and Min of the occupied levels and
`PriceLevel` to be a queue, so `OrderBook` uses sets and sequences. `Exchange`
puts the gateway and the engine, with its book, between two such queues, and
`FeedClient` runs the WebSocket client and the normaliser.

### SPSCRing

`push` and `pop` are split into the test of the cached index (`Push`, `Pop`),
the reload with its second test (`ReloadTail`, `ReloadHead`), one step per word
of the copy (`WriteWord`, `ReadWord`, in any order) and the publishing store
(`StoreHead`, `StoreTail`). An acquire load may return any value the index has
had since the last look, which is what C++ coherence allows. Release/acquire
pairs order slot accesses before the index they publish, so slots are read and
written in place; what a weaker ordering would do is not modelled. The
comparison of `pop` (`cached_head_ <= tail`) is not safe for indices that wrap,
but 2^64 messages never happen; indices are unbounded.

### PriceBitset, PriceLevel

Straight translations. `PriceLevel` is driven as the book drives it: `push` of
an order that is on no level, `remove` of any queued order at what is left of
it, and `fill_front` for one iteration of `drain_level`, where the quantity goes
through `static_cast<int32_t>`. For a quantity of 2^31 the negation after the
cast overflows, which C++ leaves undefined; the model takes the outcome a build
produces, a negation that wraps.

### OrderBook

One call of the book is several steps: `new_order` (the engine's part: id and
`clear_fills`) or `modify_order` (lookup and cancel) lead to `pc = "add"`;
`add_order` or `reject_order` follows; then `Fill`, once per iteration of
`drain_level` together with what `match_limit` and `match_market` do when the
level has become empty; then `Rest` or `Discard`. The steps matter for the
invariants, which hold at every iteration, and for termination. Requests have
prices on both sides of the valid range, zero quantities, and order type bytes
that are neither `Limit` nor `Market` (the gateway does not validate them; such
an order is matched with its limit price and never rests). Freed nodes keep
their stale contents. Ids are what the engine hands out; clients may cancel or
modify any id.

### MatchingEngine

Shares the book's variables. `process` pops a message and makes the first step
of its call; `book_step` runs the call; `reply` is the one push of
`emit_accept`, `emit_cancel` or `emit_reject`; `emit_fill` is one of the two
pushes per fill. Results of pushes are ignored as in the code, so a full ring
drops. Two history variables count per order id: `traded` what the book has
executed for it, on either side, and `reported` what `emit_fills` has pushed for
it, whether the ring took it or not. Neither is ever reset, so the comparison
covers the orders that a fill completes and frees.

### Gateway

A frame is `Frame` units (bytes in the code); a unit is named by its connection
and its position in the stream, so mixed or shifted frames are visible. `recv`
returns any part of what has arrived. `edge` is the kernel's pending
edge-triggered event of an fd: raised by new data, by a close and by
registration of a readable fd, consumed by `epoll_wait`. The listener is
level-triggered. A reset may or may not lose unread data, and may make `accept`
fail. `send` takes what fits in `SendRoom`. A connection stands for its fd: the
kernel may reuse the number, but within one `epoll_wait` round every fd occurs
once and only the fd of the event at hand is closed, so no event is taken for
another connection. The kqueue branch is the same loop with level-triggered
events. The message being sent is `out`, and `MaxSent` bounds what all clients
write together.

### Exchange

Extends `Gateway` and instantiates `MatchingEngine`, whose inbound ring is the
gateway's with every frame decoded. The main thread runs the constructor (which
may fail), starts the engine and then the gateway, polls `g_running`, joins both
and destroys the gateway; a signal clears the flag at any moment before that.
Each thread loads the flag between two rounds only: `engine_check` then
`engine_pop` or the steps of `process`; `gateway_check` then the steps of one
round. The flag is a relaxed atomic, which decides nothing but when the store is
seen, and the loads here see it at any later point. Clients send the messages of
`Script` and may leave; they do not read, so the socket buffers only fill.

### AlpacaWebSocket

The receiving side is a stream of tagged bytes; `SSL_read` returns any part of
what is under way, so a read may end inside a header or take several frames. The
lengths of RFC 6455 are parameters (`Mark`, `Base`, `Mid`, `Wide`, `MaskLen`),
which lets frames of a few bytes use the short, the medium and the long form.
`take_frame` is one turn of the loop of `read_frame`, with one turn of `await`
when that is the caller; pings are answered there. `send_frame` may fail at any
time (no random bytes, no connection) and may succeed after the server has gone.
The server follows Alpaca's protocol: a greeting, answers to what it finds in
unmasked requests, then data, with pings, pongs, a close or the end of the
connection at any time. Fragmented messages are not reassembled by the code
(FIN is not looked at), and the server does not send any. `read_frame` skips the
mask of a masked frame without undoing it. RFC 6455 forbids a server to mask, so
only frames whose payload nothing looks at (pongs, closes, unknown opcodes) may
be masked here (`FrameAssumption`): they show that the header is measured right.

### Normalizer

Amounts are multiples of a fifth of a cent, so that both directions of rounding
and neither side of a tie occur: in binary floating point a tie may go either
way, and no quote is finer than a hundredth of a cent. `field` finds the first
occurrence of a key anywhere in the object, nested objects included. The key
`"t"` is looked up as a string, which a number under the same key fails; a number
read from a string is zero, as `strtod` makes it. Characters other than the four
that steer `for_each_object` are one.

### FeedClient

One process that streams, captures and sends orders, and after it one that
replays the capture to a new exchange. The calls of the WebSocket client are the
actions of `AlpacaWebSocket`; each object of a frame is one step, each order sent
another. `disk` is the part of the capture that is certain to survive: what
`fflush` or `fclose` (or `exit`, on the early returns) has written. `Crash` may
happen at any step and leaves any part between that and everything, in units
smaller than a record. A replay may find no exchange (`dial`) or a capture that
does not open (`run_replay`, first turn). Pauses during a replay are left out.

### BookAnalytics

`on_fill` at the width of `Quantity`; quotients are kept as pairs, so nothing is
rounded. The views are operators on a book given by the totals of its levels and
its best prices; a total has wrapped when the orders of a level exceed 2^32.

## 3. What the runs check

| Run | Shows |
|---|---|
| `ring` | `IndexOrder`, `SlotExclusive`: stale indices never license a wrong access, and no slot is read and written at once; `RefinesQueue`: the ring is a bounded FIFO of whole messages; `EventuallyPopped` |
| `bitset` | `TiersExact` (the invariant in price_bitset.h), `HighestExact`, `LowestExact` against a scan |
| `price_level` | `ListExact`, `TotalExact` |
| `book` | `BboExact` (what `validate_bbo` tests, at every step), `NotCrossed`, `PoolPartition`, `RestingSound`, `TableSound`, `LiveIdsUnique`, `NeverWedged`; `PriceTimePriority`: the book refines `PriceTimeBook` |
| `engine` | `FillsReported`: between two messages every order, live or gone, has been reported exactly what it traded; `ReportsOrdered`; `InboundServed`: the ring is worked off, hence every matching loop terminates |
| `gateway` | `FramesWhole`, `SlotsExact`, `NoLostEdge`, `StreamInOrder` |
| `exchange` | `OrdersAnswered`: end to end, over both rings; `SlotsReleased`; `Terminates` and `ShutdownClean` |
| `feed` | `FramesFaithful`, `PongsEcho`, `EventuallyPonged`; `EmissionExact`: the orders are those of the ticks; `ReplayFaithful`: nothing is lost or repeated on the way to the capture and back |
| `functions` | `SplitExact` for frames that close nothing they did not open, `ViewsBalanced` for all; `TimestampExact`; `CentsExact`; `VpinWindow`, `ViewsExact` |

The type invariants of `OrderBook` (checked in `book`), `SPSCRing` and
`PriceBitset` are part of the proofs.

`NeverWedged` deserves a word. A full pool rejects even orders that would trade,
so only a cancel or a modify can make room, and colliding ids hide orders from
both. It says that with a full pool some order is still found: of the orders
sharing a table slot, the one registered last holds it, and it can only lose
the slot by releasing a node.

`VpinWindow` counts volumes as the code does, at 32 bits. A fill near 2^32 can
make `current_bucket_vol_` wrap past the threshold and leave open a bucket it
should complete; the property says that this stays within its bucket. For the
same reason `ViewsExact` claims a range for `imbalance` only while the two
quantities at the touch add up to less than 2^32: beyond that the divisor wraps,
and a bid of 3,000,000,000 against an ask of 2,000,000,000 gives about 1.42
instead of 0.2. Nothing in the repository states a range, so this is no finding.

`CentsExact` leaves open whether an amount that rounds to the top price becomes
that price or none. The code drops it, which the next section takes up.

### Findings

Three runs show a disagreement with what the repository says of itself:

- `gateway_short_send`: `send`'s result is ignored (socket_transport.h:162), so
  a short write shifts all later frames of that client; sbe_messages.h:33-34
  says that the gateway writes exact frames.
- `book_aliasing`: an order that is still on the book when an id `MAX_ORDERS`
  higher is handed out loses its table entry (order_book.h:45) and can no longer
  be cancelled or modified; README.md:126 calls the table direct-address because
  ids are sequential.
- `top_price`: `to_cents` adds the half for rounding before it compares with
  `MAX_PRICE` (feed_normalizer.h:41), so an amount whose nearest cent is the top
  price, $10,000.00 itself included, becomes no price and its tick is dropped;
  types.h:16 says that the range covers $0.01 to $10,000.00, and
  feed_normalizer.h:36 that dollars become the nearest cent.

Not findings, since README.md lists them as limitations: messages dropped by
full rings, and client ids that are not authenticated. Nor is a modify that
`add_order` rejects after `modify_order` has cancelled the order
(order_book.cpp:86): nothing in the repository says what should happen.

### Bounds

- `ring`: 2 slots, 2 words, 2 contents, 5 pushes: every slot is reused, both
  caches are stale at the boundary.
- `bitset`: 2-bit words over 10 levels: 5, 3 and 2 words in the tiers with
  partly used last words; all 1024 occupancies are reached.
- `price_level`: 4 orders (symmetric) and 2-bit quantities: removals with
  neighbours on both sides, a total that wraps, fills that the cast makes
  negative.
- `book`: pool 3, table 2, prices 1..2, quantities to 2, 3 ids: a full pool, a
  collision, a level with several orders, an aggressor crossing both levels,
  partial fills.
- `engine`: two prices, 4 messages of a representative set (both sides, full and
  partial fills, a sweep over both levels, market, zero quantity, bad price,
  cancels and modifies of two ids, an unknown type), rings of 3, so that the
  reports of one sweep overflow and the pairs that stay have neighbours. Arrivals
  are bounded, so the engine comes to rest: deadlock is not checked there.
- `gateway`: 2 clients over 2 slots with slot reuse, 2-unit frames, 4 units in
  all, 2 reports through 3 units of socket buffer (not a multiple of the frame).
  The clients are symmetric.
- `exchange`: 2 clients with one order each that trade with each other, frames of
  one unit, rings and buffers of 5: room for all answers and reports, so that
  `OrdersAnswered` is about losing wake-ups and not about documented drops.
- `feed`: 4 frames, of which the session takes at least two before data, up to
  8 bytes under way, lengths in all three forms, masked and unmasked, one quote
  and one trade per data frame, one of them out of range, `await` for 2 frames, a
  flush every 2 ticks, a limit of 3 with an exchange and none without.
- `functions`: frames to 6 characters of 5 kinds; the years 0 to 2401, six
  times the 400-year cycle; fractions of 2 digits; all amounts up to just beyond
  a top price of 3 (the theorem is for every price); a window of 2 buckets and up
  to 7 fills of 3-bit quantities, so that both wrap; and all uncrossed books over
  3 prices with every 3-bit total at each, so that the sums of a view wrap.

`MaxPush`, `MaxId`, `MaxQty`, `MaxArrivals`, `MaxSent`, `MaxOut`, `MaxFrames`,
`Window`, `MaxFills` and `MaxChars` are bounds that the code does not have.
`MaxQty` limits only what requests ask for.

### Fairness

- Ring: the consumer spins, so it never stops (WF); a push once begun is
  finished; a store becomes visible eventually, so a reload repeated for ever
  sees the newest index (SF on that reload). Nothing obliges the producer to
  push.
- Book and engine: the engine thread is never blocked, so a call goes on (WF on
  its steps). Arrivals and the collection of reports are not fair.
- Exchange: main, engine and gateway thread run (WF on the steps of each); none
  of them blocks for ever, as `epoll_wait` has a timeout and main sleeps for
  100 ms at a time. Clients and the signal are not fair. Clients write finitely
  much (`MaxSent`): a client that never stops writing can hold `read_client` for
  ever, and the run does not claim otherwise.
- Feed: the process runs (WF on its steps, which are disabled while `SSL_read`
  has nothing to return); server, exchange, operator and crashes are not fair.

## 4. What is proved

TLAPS checks the following for all values of the constants that satisfy the
named assumptions. These say that sizes and bounds are naturals, positive where
the code divides by or allocates them; that sentinels (`NULL`, `NoConn`,
`Listener`) are not members of the sets they are used with; that requests are
messages; and, for `ModulusAssumption`, that a power of two is a positive
natural, which the provers do not compute.

`SPSCRing_proofs`. The inductive invariant `IInv` adds to the types: the order
of the indices *including* the caches and what each program counter has
established (`Indices`), that every slot between tail and head holds an untorn
message (`SlotsWhole`), and that the words copied so far are those of the
message being pushed or of the slot being popped (`CopiesFaithful`). From it
follow `IndexOrder`, `SlotExclusive` (two indices less than `Capacity` apart
name different slots: `SlotDistinct`) and the refinement `RingIsQueue`, in which
only `StoreHead` and `StoreTail` are steps of the queue.

`PriceBitset_proofs`. `IInv` says that no bit past the last level is set and that
each tier summarises the one below; both tiers are handled by one lemma
(`SummaryStep`), the early returns of `clear` by the observation that a word
that keeps a bit was non-zero before. The descents follow from one lemma per
direction (`DescendMax`, `DescendMin`), applied at each tier.

`OrderBook_proofs`. `IInv` is the conjunction of all safety invariants of the
`book` run and two auxiliary ones: `IdsGivenOut` (live ids lie below `next_id`,
and the id of an add to come is not in use, which `LiveIdsUnique` needs at
`add_order`) and `AggressorValid` (a limit order being matched has a valid
price, which `Rest` needs). The invariants need each other: `take_out` may only
unlink what the table names because of `TableSound`, which needs
`PoolPartition`; `NotCrossed` at `Rest` needs `BboExact`. The helpers `unlink`
and `release` have lemmas (`Unlinked`, `Released`) that the steps `cancel_order`,
`modify_order`, `Fill` and `Discard` share.

The second half of `OrderBook_proofs` is the refinement `PriceTimePriorityKept`.
The mapping joins the levels of a side from the best price to the worst
(`Queues`), so every step has to be traced through a concatenation.
`MergedSplit` cuts a queue at a price: what is in front of the level has better
prices, what is behind has worse ones, and a change of the level changes nothing
else. From it, taking the k-th order out of a level takes one order out of the
queue (`LevelCut`, `QueueCut`), appending to a level inserts behind every order
that is at least as good (`LevelJoin`), and the head of the queue is the head of
the best level (`BestFirst`, which needs `BboExact`). One lemma per kind of step
follows: a cancel, also as the first half of a modify, is a withdrawal
(`CancelWithdraws`); `add_order` takes an order in (`AddEnters`); `Fill` trades
with the head of the queue, and the two notions of crossing agree (`FillTrades`,
`Agreement`); `Rest` and `Discard` settle the remainder. The mapping shows ids
and owners, which `IInv` leaves free, so the proof carries `Owned`: live orders
belong to clients, and an add to come is a possible request.

`PriceLevel_proofs`. `IInv` is `TypeOK`, `ListExact` and `TotalExact` together,
because they need each other: the links determine which order a removal takes
out, hence what must leave the total. `Chain` restates the links of a queue by
positions; one lemma each shows what appending to, removing from and filling the
front of the queue does to a chain and to the sum. The total is a remainder
(`TotalNeverDrifts`): both the wrap of the total and the detour of `adjust_qty`
through a signed number cancel out modulo 2^32, for every width.

`MatchingEngine_proofs`. `FillsReported` speaks of the moments between two
messages only, so `EInv` carries the account through a message. `Due(fs, id, k)`
is what the first `k` pushes of `emit_fills` report to `id`; `Accounted` says for
every id, of a live order or one that is gone, that what it has traded is what
was reported before plus what is due, minus what has been pushed of it.
`LedgerStep` shows that only `Fill` adds to `traded`, the same to both parties,
and one lemma per step of the book that `fills` follows. The invariant needs
`Phases` (a call of `add_order` begins without fills: `clear_fills`) and
`Parties` (no fill is with oneself, which follows from `LiveIdsUnique`).
`ReportsOrdered` needs `MatchNumbers`: the number of the current match is on the
ring only between its two pushes, and then at the end. The book's invariant is a part of
`EInv`; `BookSoundInEngine` states that it holds under the engine.

`Exchange_proofs`, first part: the gateway. `IInv` has one part per concern. `Core`: seats and open
connections correspond, and the partial frame of a seat is the end of what was
received (`SlotsExact`). `Edges`: the wake-up is never lost, which needs that
nothing of a batch is left when `epoll_wait` is called again. `Inbound`: frames
on the ring were received whole, so a frame that is completed later is a later
one. `Outbound` and `Streams`: the ring holds reports in order, the one being
sent is older, no client has a later one, and a client still to be served has
nothing of it yet; without these `StreamInOrder` is not inductive.

`Exchange_proofs`, second part: the process. `XInv` ties the threads to the components: a thread that is
not running is between two messages or two rounds, nothing is open before the
gateway thread starts, and the gateway's `Core` holds until its destructor. That
`Core` is the gateway's own invariant is reused (`RunCore`, `ClientCore`): the
destructor closes what is seated, and `Core` says that this is all there is.

`FeedClient_proofs`. The four safety properties of the feed are consequences of
one inductive invariant, `FeedInv`, because a process that streams, captures and
emits has no part that can be argued alone. Its conjuncts, in the order of the
bytes:

- `WInv`: what is in `rx_` and under way is the frames of the server that are not
  taken yet, or the first bytes of them once the connection has ended
  (`Awaits`), with the upgrade response in front until `http_upgrade` has seen
  its end; and the pongs sent are those of the pings taken. It needs that a frame
  can be read back from its bytes: `FramedBytes` says what a frame looks like in
  each of the three forms of a length, `FrameComplete` that `read_frame` asks
  for more exactly until it has all of it. That the digits of a length give the
  length again is a fact about `Numeral` and `Power` in `DataLemmas`.
- `Control`: which call of the WebSocket client `main` is in at which point, what
  is held and whether the session is open; `WInv` and the rest are inductive only
  for calls made where the code makes them.
- `Announced`: the server sends data only behind the confirmation of the
  subscription, confirms nothing it was not asked for, and `await` has not read
  past the confirmation while `subscribe` waits. Without it `await` could swallow
  ticks, and `ReplayFaithful` would fail.
- `Fetched`: the frame `main` is about to split is the one read last, whole.
- `FTypes` and `Emitted`: what the exchange has received, followed by what the
  current tick still owes it (`Owes`), is the orders of the ticks so far, up to
  where the exchange went away; `buy` is the parity of the trades so far, which
  is a `PrefixSum`.
- `Handled`: the ticks handled, followed by those of the objects at hand
  (`Pending`), are the ticks of the frames read; the capture holds those handled,
  and all of it is on disk after an orderly end. A replay handles a prefix of the
  records that have survived, all of them unless it is stopped, reaches its limit
  or finds no exchange or no capture.

The theorems assume of the constants: lengths and the base are positive and the
medium form is shorter than the long one (`WireAssumption`, `BaseAssumption`: 126,
256, 2 and 8 in RFC 6455); a frame's length can be written, texts are not
empty and masked frames carry nothing that is looked at (`FrameAssumption`); only data frames hold objects, data and confirmations
are texts or binaries, and numbers are multiples of the unit of `Normalizer`
(`DataAssumption`: the server's side of the protocol, which the code relies on and
does not check); and records, flush interval and quantities have positive sizes
(`RecAssumption`). Frames, ticks, cuts of the stream, moments of a crash and
command lines are arbitrary.

The last part of `FeedClient_proofs` is about the normaliser: `CentsAlwaysExact`
states what the invariant `CentsExact` checks of one amount, `Rounds`, for every
amount and price range (an amount is never half way between two cents, so the
nearest one is unique), and `CalendarExact` for every year, which extends the
calendar part of `TimestampExact` beyond the years TLC walks: both the
formula with 153 and the division into eras of 400 years are shown to follow the
lengths of the months.

`DataLemmas` proves what the provers lack about `Min` and `Max` of sets of
naturals, about `Append`, `RemoveAt` and `Front` of sequences without
repetition, about remainders, about `PrefixSum`, `Numeral` and prefixes, and about
`FlattenSeq`: what a change of one of the joined sequences does to the whole. The library's induction
theorems cannot be applied by the installed provers, so the facts about sums
and concatenations are proved by considering a least counterexample (`MinNat`).

Only model-checked:

- all liveness properties (`EventuallyPopped`, `InboundServed`,
  `OrdersAnswered`, `SlotsReleased`, `Terminates`, `EventuallyPonged`): fairness
  is out of the prover's reach;
- `SplitExact`, `ViewsBalanced`, `TimestampExact`, `VpinWindow` and `ViewsExact`,
  which compare folds over a text, a fraction, the fills or the prices with
  reference definitions over bounded inputs. The folds take an operator as a
  parameter, which the installed provers cannot instantiate; of `TimestampExact`
  the calendar is proved and the digits of the fraction are not. `CentsExact` is
  proved for the operator, of every amount, rather than for the run's input.

## 5. Not modelled

- Benchmarks, the feed's test program and the empty files.
- Thread pinning, printing, `last_error` texts, and the status line, which reads
  the book without synchronisation: what it prints may be torn, and nothing else
  depends on it.
- Timestamps of messages (`recv_tsc`, `engine_tsc`), which no component reads,
  and the field layout of messages.
- The random key of the upgrade request, whose echo the code does not verify, and
  certificate checking, which is OpenSSL's.
- The capture file of an earlier session, write errors on it, and the pauses of a
  replay.
- What weaker memory orders than the code's would allow.

## 6. Plan

Done, in this order: ring and its refinement; bitset; book, pool and price-time
refinement; price level; engine; gateway; proofs for ring, bitset and book; the
exchange process; normaliser, WebSocket client and feed process; analytics;
proofs for the price level, the gateway, the shutdown of the exchange and the
engine; the proof of the price-time refinement; the proofs for the feed process
and its WebSocket client, for prices and for the calendar.

Left: `VpinWindow`, whose reference definition would have to be restated with
`PrefixSum` before its induction could be done by a least counterexample, as the
other sums were.
