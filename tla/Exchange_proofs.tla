--------------------------- MODULE Exchange_proofs ---------------------------
(***************************************************************************)
(* The gateway, for every number of connections and slots, frame length    *)
(* and buffer size: the slots are the open connections, no wake-up is      *)
(* lost, frames reach the engine whole and messages the clients in order.  *)
(* And the shutdown of the exchange process it is a part of: main never    *)
(* destroys what a thread still uses.                                      *)
(***************************************************************************)
EXTENDS Exchange, DataLemmas, FiniteSetTheorems

-----------------------------------------------------------------------------
(* The gateway *)

SlotRec == [fd : Conns \cup {NoConn}, active : BOOLEAN,
            read_pos : 0 .. Frame - 1, read_buf : [0 .. Frame - 1 -> Unit]]

\* The types of what the connections, the slots and the event loop are made
\* of; recv returns only what was sent, and nothing before accept.
CoreType ==
  /\ conn \in [Conns -> {"new", "backlog", "open", "closed"}]
  /\ peer \in [Conns -> {"up", "fin", "rst"}]
  /\ sent \in [Conns -> Nat] /\ rcvd \in [Conns -> Nat]
  /\ slots \in [Slots -> SlotRec]
  /\ gpc \in {"wait", "batch", "read", "drain", "send"}
  /\ cur \in Slots
  /\ \A c \in Conns : rcvd[c] <= sent[c]
  /\ \A c \in Conns : conn[c] \in {"new", "backlog"} => rcvd[c] = 0

\* Slot i is the seat of connection c.
Seat(i, c) == slots[i].active /\ slots[i].fd = c

\* Active slots and open connections are matched one to one, and read_client
\* works on an active slot.
Seats ==
  /\ \A i \in Slots : slots[i].active =>
       slots[i].fd \in Conns /\ conn[slots[i].fd] = "open"
  /\ \A c \in Conns : conn[c] = "open" => \E i \in Slots : Seat(i, c)
  /\ \A i, j \in Slots : slots[i].active /\ slots[j].active
                         /\ slots[i].fd = slots[j].fd => i = j
  /\ gpc = "read" => slots[cur].active

\* The partial frame of slot i is the tail of what was read of c's stream.
Tail_of(s, r) ==
  /\ s.read_pos = r % Frame
  /\ \A k \in 0 .. s.read_pos - 1 : s.read_buf[k] = <<s.fd, r - s.read_pos + k>>

Partial == \A i \in Slots : slots[i].active => Tail_of(slots[i], rcvd[slots[i].fd])

Core == CoreType /\ Seats /\ Partial

\* The frames on the inbound ring are frames that were read whole.
Inbound ==
  /\ inbound \in Seq([0 .. Frame - 1 -> Unit])
  /\ \A i \in 1 .. Len(inbound) : \E c \in Conns, f \in Nat :
       f < rcvd[c] \div Frame /\ inbound[i] = Written(c, f)
  /\ \A i, j \in 1 .. Len(inbound) :
       i < j /\ inbound[i][0][1] = inbound[j][0][1]
         => inbound[i][0][2] < inbound[j][0][2]

\* The outbound ring is a part of the emitted messages, in order, and the one
\* being sent is older than all of it.
Outbound ==
  /\ emitted \in Nat
  /\ outbound \in Seq(Nat)
  /\ \A i \in 1 .. Len(outbound) : outbound[i] < emitted
  /\ \A i, j \in 1 .. Len(outbound) : i < j => outbound[i] < outbound[j]
  /\ out = <<>> \/ \E m \in Nat : /\ out = <<m>> /\ m < emitted
                                  /\ \A i \in 1 .. Len(outbound) : m < outbound[i]

\* A client has units of messages up to the one being sent, and none of that
\* one while its slot is still to be served.
Streams ==
  /\ todo \subseteq Slots
  /\ stream \in [Conns -> Seq(Nat \X (0 .. Frame - 1))]
  /\ taken \in [Conns -> Nat]
  /\ \A c \in Conns : Len(stream[c]) - taken[c] \in 0 .. SendRoom
  /\ \A c \in Conns : \A k \in 1 .. Len(stream[c]) :
       out # <<>> /\ stream[c][k][1] <= out[1]
  /\ gpc = "send" =>
       /\ out # <<>> /\ todo # {}
       /\ \A i \in todo : slots[i].active /\
            \A k \in 1 .. Len(stream[slots[i].fd]) :
              stream[slots[i].fd][k][1] < out[1]

\* No event is left over when epoll_wait replaces the batch.
Edges == /\ edge \in [Conns -> BOOLEAN]
         /\ gpc \in {"wait", "drain", "send"} => batch = {}
         /\ NoLostEdge

IInv == Core /\ Edges /\ Inbound /\ Outbound /\ Streams /\ StreamInOrder

-----------------------------------------------------------------------------
(* Slots and connections *)

\* What every step but Connect, accept_client, recv and disconnect does to
\* the slots: nothing.
LEMMA CoreFrame ==
  ASSUME Core, UNCHANGED <<conn, slots, rcvd>>,
         peer' \in [Conns -> {"up", "fin", "rst"}],
         sent' \in [Conns -> Nat], \A c \in Conns : sent[c] <= sent'[c],
         gpc' \in {"wait", "batch", "read", "drain", "send"},
         cur' \in Slots, gpc' = "read" => slots[cur'].active
  PROVE  Core'
<1>1. CoreType'
  BY DEF Core, CoreType
<1>2. Seats'
  BY DEF Core, Seats, Seat
<1>3. Partial'
  BY DEF Core, Partial, Tail_of
<1>4. QED
  BY <1>1, <1>2, <1>3 DEF Core

LEMMA ConnectCore ==
  ASSUME Core, NEW c \in Conns, Connect(c) PROVE Core'
<1>1. /\ UNCHANGED <<slots, rcvd, peer, sent, gpc, cur>>
      /\ conn[c] = "new" /\ conn' = [conn EXCEPT ![c] = "backlog"]
      /\ conn \in [Conns -> {"new", "backlog", "open", "closed"}]
  BY DEF Connect, Core, CoreType
<1>2. \A d \in Conns : conn'[d] = "open" <=> conn[d] = "open"
  BY <1>1
<1>3. CoreType'
  <2>1. conn' \in [Conns -> {"new", "backlog", "open", "closed"}]
    BY <1>1
  <2>2. \A d \in Conns : conn'[d] \in {"new", "backlog"} => rcvd'[d] = 0
    BY <1>1 DEF Core, CoreType
  <2>3. QED
    BY <1>1, <2>1, <2>2 DEF Core, CoreType
<1>4. Seats'
  BY <1>1, <1>2 DEF Core, Seats, Seat
<1>5. Partial'
  BY <1>1 DEF Core, Partial, Tail_of
<1>6. QED
  BY <1>3, <1>4, <1>5 DEF Core

\* find_slot: the least inactive slot.
LEMMA FindSlot ==
  ASSUME {i \in Slots : ~slots[i].active} # {}
  PROVE  /\ Min({i \in Slots : ~slots[i].active}) \in Slots
         /\ ~slots[Min({i \in Slots : ~slots[i].active})].active
<1> DEFINE free == {i \in Slots : ~slots[i].active}
<1>1. free \in SUBSET Nat
  BY SlotAssumption DEF Slots
<1> HIDE DEF free
<1>2. Min(free) \in free
  BY <1>1, MinNat DEF free
<1>3. QED
  BY <1>2 DEF free

\* slot_for_fd: the least active slot with this fd.
LEMMA SlotForFd ==
  ASSUME NEW c, {i \in Slots : slots[i].active /\ slots[i].fd = c} # {}
  PROVE  LET k == Min({i \in Slots : slots[i].active /\ slots[i].fd = c})
         IN  k \in Slots /\ slots[k].active /\ slots[k].fd = c
<1> DEFINE mine == {i \in Slots : slots[i].active /\ slots[i].fd = c}
<1>1. mine \in SUBSET Nat
  BY SlotAssumption DEF Slots
<1> HIDE DEF mine
<1>2. Min(mine) \in mine
  BY <1>1, MinNat DEF mine
<1>3. QED
  BY <1>2 DEF mine

\* The fields of a slot that is taken or given back.
LEMMA SeatedFields ==
  ASSUME NEW s \in SlotRec, NEW c \in Conns
  PROVE  /\ Seated(s, c) \in SlotRec /\ Seated(s, c).fd = c
         /\ Seated(s, c).active = TRUE /\ Seated(s, c).read_pos = 0
<1>1. 0 \in 0 .. Frame - 1
  BY FrameAssumption
<1>2. QED
  BY <1>1 DEF SlotRec, Seated

LEMMA VacatedFields ==
  ASSUME NEW s \in SlotRec
  PROVE  Vacated(s) \in SlotRec /\ Vacated(s).active = FALSE
  BY DEF SlotRec, Vacated

\* Connection c takes a free slot with an empty buffer; nothing of it is read.
LEMMA SeatCore ==
  ASSUME Core, NEW c \in Conns, conn[c] = "backlog",
         NEW i \in Slots, ~slots[i].active,
         conn' = [conn EXCEPT ![c] = "open"],
         slots' = [slots EXCEPT ![i] = Seated(@, c)],
         UNCHANGED <<peer, sent, rcvd, cur>>,
         gpc' \in {"batch", "drain"}
  PROVE  Core'
<1>1. /\ slots \in [Slots -> SlotRec] /\ rcvd[c] = 0
      /\ conn \in [Conns -> {"new", "backlog", "open", "closed"}]
  BY DEF Core, CoreType
<1>2. /\ \A j \in Slots : j # i => slots'[j] = slots[j]
      /\ slots'[i] = Seated(slots[i], c) /\ slots[i] \in SlotRec
  BY <1>1
<1>3. /\ slots'[i] \in SlotRec /\ slots'[i].fd = c /\ slots'[i].active
      /\ slots'[i].read_pos = 0
  <2> DEFINE s == Seated(slots[i], c)
  <2>1. /\ s \in SlotRec /\ s.fd = c
        /\ s.active = TRUE /\ s.read_pos = 0
    BY <1>2, SeatedFields
  <2>2. slots'[i] = s
    BY <1>2
  <2> HIDE DEF s
  <2>3. QED
    BY <2>1, <2>2, Zenon
<1>4. /\ \A d \in Conns : d # c => conn'[d] = conn[d]
      /\ conn'[c] = "open"
  BY <1>1
<1>5. CoreType'
  <2>1. slots' \in [Slots -> SlotRec]
    BY <1>1, <1>3
  <2>2. conn' \in [Conns -> {"new", "backlog", "open", "closed"}]
    BY <1>1
  <2>3. \A d \in Conns : conn'[d] \in {"new", "backlog"} => rcvd'[d] = 0
    BY <1>4 DEF Core, CoreType
  <2>4. QED
    BY <2>1, <2>2, <2>3 DEF Core, CoreType
<1>6. \A j \in Slots : slots[j].active => j # i /\ slots[j].fd # c
  BY DEF Core, Seats
<1>7. Seats'
  <2>1. ASSUME NEW j \in Slots, slots'[j].active
        PROVE  slots'[j].fd \in Conns /\ conn'[slots'[j].fd] = "open"
    <3>1. CASE j = i
      BY <1>3, <1>4, <3>1
    <3>2. CASE j # i
      BY <1>2, <1>4, <2>1, <3>2 DEF Core, Seats
    <3>3. QED
      BY <3>1, <3>2
  <2>2. ASSUME NEW d \in Conns, conn'[d] = "open"
        PROVE  \E j \in Slots : slots'[j].active /\ slots'[j].fd = d
    <3>1. CASE d = c
      BY <1>3, <3>1
    <3>2. CASE d # c
      <4>1. conn[d] = "open"
        BY <1>4, <2>2, <3>2
      <4>2. PICK j \in Slots : slots[j].active /\ slots[j].fd = d
        BY <4>1 DEF Core, Seats, Seat
      <4>3. slots'[j] = slots[j]
        BY <1>2, <4>2
      <4>4. QED
        BY <4>2, <4>3
    <3>3. QED
      BY <3>1, <3>2
  <2>3. ASSUME NEW j \in Slots, NEW k \in Slots, slots'[j].active,
               slots'[k].active, slots'[j].fd = slots'[k].fd
        PROVE  j = k
    <3>1. CASE j = i \/ k = i
      BY <1>2, <1>3, <1>6, <2>3, <3>1
    <3>2. CASE j # i /\ k # i
      BY <1>2, <2>3, <3>2 DEF Core, Seats
    <3>3. QED
      BY <3>1, <3>2
  <2>4. gpc' # "read"
    OBVIOUS
  <2>5. QED
    BY <2>1, <2>2, <2>3, <2>4 DEF Seats, Seat
<1>8. Partial'
  <2>1. ASSUME NEW j \in Slots, slots'[j].active
        PROVE  Tail_of(slots'[j], rcvd'[slots'[j].fd])
    <3>1. CASE j = i
      <4>1. 0 % Frame = 0
        BY FrameAssumption
      <4>2. QED
        BY <1>1, <1>3, <3>1, <4>1 DEF Tail_of
    <3>2. CASE j # i
      BY <1>2, <2>1, <3>2 DEF Core, Partial, Tail_of
    <3>3. QED
      BY <3>1, <3>2
  <2>2. QED
    BY <2>1 DEF Partial, Tail_of
<1>9. QED
  BY <1>5, <1>7, <1>8 DEF Core

\* A connection without a seat is closed.
LEMMA RefuseCore ==
  ASSUME Core, NEW c \in Conns, conn[c] = "backlog",
         conn' = [conn EXCEPT ![c] = "closed"],
         UNCHANGED <<slots, peer, sent, rcvd, cur>>,
         gpc' \in {"batch", "drain"}
  PROVE  Core'
<1>1. conn \in [Conns -> {"new", "backlog", "open", "closed"}]
  BY DEF Core, CoreType
<1>2. \A d \in Conns : /\ conn'[d] = "open" <=> conn[d] = "open"
                       /\ conn'[d] \in {"new", "backlog"} => conn'[d] = conn[d]
  BY <1>1
<1>3. CoreType'
  <2>1. conn' \in [Conns -> {"new", "backlog", "open", "closed"}]
    BY <1>1
  <2>2. \A d \in Conns : conn'[d] \in {"new", "backlog"} => rcvd'[d] = 0
    BY <1>2 DEF Core, CoreType
  <2>3. QED
    BY <2>1, <2>2 DEF Core, CoreType
<1>4. Seats'
  BY <1>2 DEF Core, Seats, Seat
<1>5. Partial'
  BY DEF Core, Partial, Tail_of
<1>6. QED
  BY <1>3, <1>4, <1>5 DEF Core

LEMMA AcceptCore ==
  ASSUME Core, NEW c \in Conns, accept_client(c) PROVE Core'
<1> DEFINE free == {i \in Slots : ~slots[i].active}
<1>1. /\ conn[c] = "backlog" /\ UNCHANGED <<peer, sent, rcvd, cur>>
      /\ gpc' \in {"batch", "drain"}
  BY DEF accept_client, EventDone
<1>2. \/ conn' = [conn EXCEPT ![c] = "closed"] /\ slots' = slots
      \/ /\ free # {} /\ conn' = [conn EXCEPT ![c] = "open"]
         /\ slots' = [slots EXCEPT ![Min(free)] = Seated(@, c)]
  BY DEF accept_client
<1>3. CASE conn' = [conn EXCEPT ![c] = "closed"] /\ slots' = slots
  BY <1>1, <1>3, RefuseCore
<1>4. CASE /\ free # {} /\ conn' = [conn EXCEPT ![c] = "open"]
           /\ slots' = [slots EXCEPT ![Min(free)] = Seated(@, c)]
  BY <1>1, <1>4, FindSlot, SeatCore
<1>5. QED
  BY <1>2, <1>3, <1>4

LEMMA ReadClientCore ==
  ASSUME Core, NEW c \in Conns, read_client(c) PROVE Core'
<1> DEFINE mine == {i \in Slots : slots[i].active /\ slots[i].fd = c}
<1>1. /\ UNCHANGED <<conn, peer, sent, rcvd, slots>>
      /\ \/ mine # {} /\ gpc' = "read" /\ cur' = Min(mine)
         \/ gpc' \in {"batch", "drain"} /\ cur' = cur
  BY DEF read_client, EventDone, net
<1>2. mine # {} => Min(mine) \in Slots /\ slots[Min(mine)].active
  BY SlotForFd
<1>3. \A d \in Conns : sent[d] <= sent[d]
  BY DEF Core, CoreType
<1> HIDE DEF mine
<1>4. QED
  BY <1>1, <1>2, <1>3, CoreFrame DEF Core, CoreType

\* The frame being assembled once n more units are in.
RecvBuf(n) == Received(slots[cur], n)

\* recv in terms of the connection c and the position p it reads at.
LEMMA RecvFacts ==
  ASSUME Core, NEW n \in 1 .. Frame, recv(n)
  PROVE  LET c == slots[cur].fd
             p == slots[cur].read_pos
         IN  /\ gpc = "read" /\ slots[cur].active /\ c \in Conns /\ p \in Nat
             /\ conn[c] = "open"
             /\ p < Frame /\ p + n <= Frame /\ rcvd[c] + n <= sent[c]
             /\ rcvd' = [rcvd EXCEPT ![c] = @ + n]
             /\ slots' = [slots EXCEPT ![cur] =
                  [slots[cur] EXCEPT
                     !.read_buf = RecvBuf(n),
                     !.read_pos = IF p + n = Frame THEN 0 ELSE p + n]]
             /\ inbound' = IF p + n = Frame THEN Push(inbound, RecvBuf(n))
                                            ELSE inbound
             /\ UNCHANGED <<conn, peer, sent, emitted, taken, edge, outbound,
                            stream, gpc, batch, cur, out, todo>>
<1> DEFINE c == slots[cur].fd
           p == slots[cur].read_pos
<1>1. gpc = "read" /\ cur \in Slots /\ slots \in [Slots -> SlotRec]
      /\ rcvd \in [Conns -> Nat] /\ sent \in [Conns -> Nat]
  BY DEF recv, Core, CoreType
<1>2. slots[cur].active /\ c \in Conns /\ conn[c] = "open"
  BY <1>1 DEF Core, Seats
<1>3. p \in Nat /\ p < Frame
  <2>1. slots[cur] \in SlotRec
    BY <1>1
  <2>2. QED
    BY <2>1, FrameAssumption DEF SlotRec
<1>4. n <= Frame - p /\ n <= sent[c] - rcvd[c]
  BY DEF recv
<1>5. p + n <= Frame /\ rcvd[c] + n <= sent[c] /\ (p + n >= Frame <=> p + n = Frame)
  BY <1>1, <1>2, <1>3, <1>4, FrameAssumption
<1>6. /\ rcvd' = [rcvd EXCEPT ![c] = @ + n]
      /\ UNCHANGED <<conn, peer, sent, emitted, taken, edge, outbound, stream,
                     gpc, batch, cur, out, todo>>
  BY DEF recv, AfterRecv, net
<1>7. inbound' = IF p + n >= Frame THEN Push(inbound, RecvBuf(n)) ELSE inbound
  BY Zenon DEF recv, Complete, RecvBuf
<1>8. slots' = [slots EXCEPT ![cur].read_buf = RecvBuf(n),
                             ![cur].read_pos = IF p + n >= Frame THEN 0 ELSE p + n]
  BY Zenon DEF recv, Complete, RecvBuf
<1>9. slots' = [slots EXCEPT ![cur] =
                  [slots[cur] EXCEPT !.read_buf = RecvBuf(n),
                                     !.read_pos = IF p + n >= Frame THEN 0 ELSE p + n]]
  BY <1>1, <1>8
<1>10. QED
  BY <1>1, <1>2, <1>3, <1>5, <1>6, <1>7, <1>9

\* Every unit of RecvBuf up to the new position is the stream's.
LEMMA RecvBufUnits ==
  ASSUME Core, NEW n \in 1 .. Frame, recv(n)
  PROVE  LET c == slots[cur].fd
             p == slots[cur].read_pos
         IN  /\ RecvBuf(n) \in [0 .. Frame - 1 -> Unit]
             /\ \A k \in 0 .. p + n - 1 : RecvBuf(n)[k] = <<c, rcvd[c] - p + k>>
             /\ p = rcvd[c] % Frame
<1> DEFINE c == slots[cur].fd
           p == slots[cur].read_pos
<1>1. /\ c \in Conns /\ p \in Nat /\ p < Frame /\ p + n <= Frame
      /\ slots[cur].active
  BY RecvFacts
<1>2. rcvd[c] \in Nat /\ cur \in Slots /\ slots[cur] \in SlotRec
  BY <1>1 DEF Core, CoreType
<1>3. Tail_of(slots[cur], rcvd[c])
  BY <1>1, <1>2 DEF Core, Partial
<1>4. /\ p = rcvd[c] % Frame
      /\ \A k \in 0 .. p - 1 : slots[cur].read_buf[k] = <<c, rcvd[c] - p + k>>
  BY <1>3 DEF Tail_of
<1>5. \A i \in 0 .. Frame - 1 : slots[cur].read_buf[i] \in Unit
  BY <1>2 DEF SlotRec
<1>6. \A i \in p .. p + n - 1 : <<c, rcvd[c] + i - p>> \in Unit
  BY <1>1, <1>2 DEF Unit
<1>7. RecvBuf(n) \in [0 .. Frame - 1 -> Unit]
  BY <1>5, <1>6 DEF RecvBuf, Received
<1>8. ASSUME NEW k \in 0 .. p + n - 1
      PROVE  RecvBuf(n)[k] = <<c, rcvd[c] - p + k>>
  <2>1. k \in 0 .. Frame - 1
    BY <1>1, FrameAssumption
  <2>2. CASE k \in p .. p + n - 1
    <3>1. RecvBuf(n)[k] = <<c, rcvd[c] + k - p>>
      BY <2>1, <2>2 DEF RecvBuf, Received
    <3>2. rcvd[c] + k - p = rcvd[c] - p + k
      BY <1>1, <1>2, <2>1
    <3>3. QED
      BY <3>1, <3>2
  <2>3. CASE k \notin p .. p + n - 1
    <3>1. RecvBuf(n)[k] = slots[cur].read_buf[k]
      BY <2>1, <2>3 DEF RecvBuf, Received
    <3>2. k \in 0 .. p - 1
      BY <1>1, <2>3
    <3>3. QED
      BY <1>4, <3>1, <3>2
  <2>4. QED
    BY <2>2, <2>3
<1>9. QED
  BY <1>4, <1>7, <1>8

\* Reading n units at position p of a frame.
LEMMA RecvCount ==
  ASSUME NEW r \in Nat, NEW n \in 1 .. Frame, NEW p, p = r % Frame,
         p + n <= Frame
  PROVE  /\ p + n = Frame => (r + n) % Frame = 0
                             /\ (r + n) \div Frame = (r \div Frame) + 1
         /\ p + n # Frame => (r + n) % Frame = p + n
                             /\ (r + n) \div Frame = r \div Frame
<1> DEFINE d == r \div Frame
<1>1. d \in Int /\ p \in 0 .. Frame - 1 /\ r = Frame * d + p
  BY DivMod, FrameAssumption
<1> HIDE DEF d
<1>2. ASSUME p + n = Frame
      PROVE  (r + n) % Frame = 0 /\ (r + n) \div Frame = d + 1
  <2>1. r + n = Frame * (d + 1) + 0 /\ d + 1 \in Int /\ 0 \in 0 .. Frame - 1
    BY <1>1, <1>2, FrameAssumption
  <2>2. /\ (Frame * (d + 1) + 0) % Frame = 0
        /\ (Frame * (d + 1) + 0) \div Frame = d + 1
    BY <2>1, ModUnique, FrameAssumption, Zenon
  <2>3. QED
    BY <2>1, <2>2
<1>3. ASSUME p + n # Frame
      PROVE  (r + n) % Frame = p + n /\ (r + n) \div Frame = d
  <2> DEFINE q == p + n
  <2>1. r + n = Frame * d + q /\ q \in 0 .. Frame - 1
    BY <1>1, <1>3, FrameAssumption
  <2> HIDE DEF q
  <2>2. (Frame * d + q) % Frame = q /\ (Frame * d + q) \div Frame = d
    BY <1>1, <2>1, ModUnique, FrameAssumption, Zenon
  <2>3. QED
    BY <2>1, <2>2 DEF q
<1>4. QED
  BY <1>2, <1>3 DEF d

LEMMA RecvCore ==
  ASSUME Core, NEW n \in 1 .. Frame, recv(n) PROVE Core'
<1> DEFINE c == slots[cur].fd
           p == slots[cur].read_pos
           np == IF p + n = Frame THEN 0 ELSE p + n
           s == [slots[cur] EXCEPT !.read_buf = RecvBuf(n), !.read_pos = np]
<1>1. /\ gpc = "read" /\ slots[cur].active /\ c \in Conns /\ p \in Nat
      /\ conn[c] = "open"
      /\ p < Frame /\ p + n <= Frame /\ rcvd[c] + n <= sent[c]
      /\ rcvd' = [rcvd EXCEPT ![c] = @ + n]
      /\ slots' = [slots EXCEPT ![cur] = s]
      /\ UNCHANGED <<conn, peer, sent, gpc, cur>>
  BY RecvFacts
<1>2. /\ rcvd \in [Conns -> Nat] /\ cur \in Slots /\ slots \in [Slots -> SlotRec]
      /\ slots[cur] \in SlotRec
  BY DEF Core, CoreType
<1>3. /\ RecvBuf(n) \in [0 .. Frame - 1 -> Unit]
      /\ \A k \in 0 .. p + n - 1 : RecvBuf(n)[k] = <<c, rcvd[c] - p + k>>
      /\ p = rcvd[c] % Frame
  BY RecvBufUnits
<1> DEFINE r == rcvd[c]
           r1 == r + n
<1>4. np \in 0 .. Frame - 1 /\ np = r1 % Frame
  <2>1. np \in 0 .. Frame - 1
    BY <1>1, FrameAssumption
  <2>2. r \in Nat /\ p = r % Frame /\ p + n <= Frame
    BY <1>1, <1>2, <1>3
  <2> HIDE DEF p, r
  <2>3. /\ p + n = Frame => (r + n) % Frame = 0
        /\ p + n # Frame => (r + n) % Frame = p + n
    BY <2>2, RecvCount
  <2>4. QED
    BY <2>1, <2>3
<1> HIDE DEF np
<1>5. /\ s \in SlotRec /\ s.fd = c /\ s.active = slots[cur].active
      /\ s.read_pos = np /\ s.read_buf = RecvBuf(n)
  BY <1>2, <1>3, <1>4 DEF SlotRec
<1>6. Tail_of(s, rcvd[c] + n)
  <2>1. ASSUME NEW k \in 0 .. np - 1
        PROVE  RecvBuf(n)[k] = <<c, r1 - np + k>>
    <3>1. np = p + n /\ k \in 0 .. p + n - 1
      BY <1>1 DEF np
    <3>2. r1 - np + k = rcvd[c] - p + k
      BY <1>1, <1>2, <3>1
    <3>3. QED
      BY <1>3, <3>1, <3>2
  <2> HIDE DEF s, r1
  <2>2. s.read_pos = r1 % Frame
    BY <1>4, <1>5
  <2>3. \A k \in 0 .. s.read_pos - 1 : s.read_buf[k] = <<s.fd, r1 - s.read_pos + k>>
    BY <1>5, <2>1
  <2>4. Tail_of(s, r1)
    BY <2>2, <2>3, Zenon DEF Tail_of
  <2>5. QED
    BY <2>4 DEF r1
<1> HIDE DEF s
<1>7. /\ \A i \in Slots : i # cur => slots'[i] = slots[i]
      /\ slots'[cur] = s
      /\ \A d \in Conns : d # c => rcvd'[d] = rcvd[d]
      /\ rcvd'[c] = rcvd[c] + n
  BY <1>1, <1>2
<1>8. \A i \in Slots : slots'[i].fd = slots[i].fd /\ slots'[i].active = slots[i].active
  BY <1>5, <1>7
<1>9. CoreType'
  <2>1. slots' \in [Slots -> SlotRec]
    BY <1>1, <1>2, <1>5
  <2>2. rcvd' \in [Conns -> Nat]
    BY <1>1, <1>2
  <2>3. \A d \in Conns : rcvd'[d] <= sent'[d]
    BY <1>1, <1>7 DEF Core, CoreType
  <2>4. \A d \in Conns : conn'[d] \in {"new", "backlog"} => rcvd'[d] = 0
    BY <1>1, <1>7 DEF Core, CoreType
  <2>5. QED
    BY <1>1, <2>1, <2>2, <2>3, <2>4 DEF Core, CoreType
<1>10. Seats'
  BY <1>1, <1>2, <1>8 DEF Core, Seats, Seat
<1>11. Partial'
  <2>1. ASSUME NEW i \in Slots, slots'[i].active
        PROVE  Tail_of(slots'[i], rcvd'[slots'[i].fd])
    <3>1. CASE i = cur
      BY <1>5, <1>6, <1>7, <3>1
    <3>2. CASE i # cur
      <4>1. slots[i].active /\ slots'[i] = slots[i]
        BY <1>7, <2>1, <3>2
      <4>2. slots[i].fd \in Conns /\ slots[i].fd # c
        BY <1>1, <1>2, <3>2, <4>1 DEF Core, Seats
      <4>3. rcvd'[slots'[i].fd] = rcvd[slots[i].fd]
        BY <1>7, <4>1, <4>2
      <4>4. QED
        BY <4>1, <4>3 DEF Core, Partial
    <3>3. QED
      BY <3>1, <3>2
  <2>2. QED
    BY <2>1 DEF Partial, Tail_of
<1>12. QED
  BY <1>9, <1>10, <1>11 DEF Core

LEMMA DisconnectCore ==
  ASSUME Core, disconnect PROVE Core'
<1> DEFINE c == slots[cur].fd
<1>1. /\ gpc = "read" /\ conn' = [conn EXCEPT ![c] = "closed"]
      /\ slots' = [slots EXCEPT ![cur] = Vacated(@)]
      /\ UNCHANGED <<peer, sent, rcvd, cur>> /\ gpc' \in {"batch", "drain"}
  BY DEF disconnect, EventDone
<1>2. /\ cur \in Slots /\ slots \in [Slots -> SlotRec] /\ slots[cur] \in SlotRec
      /\ conn \in [Conns -> {"new", "backlog", "open", "closed"}]
      /\ slots[cur].active /\ c \in Conns /\ conn[c] = "open"
  BY <1>1 DEF Core, CoreType, Seats
<1>3. Vacated(slots[cur]) \in SlotRec /\ Vacated(slots[cur]).active = FALSE
  BY <1>2, VacatedFields
<1>4. /\ \A i \in Slots : i # cur => slots'[i] = slots[i]
      /\ slots'[cur] = Vacated(slots[cur])
  BY <1>1, <1>2
<1>5. slots'[cur].active = FALSE
  BY <1>3, <1>4
<1>6. ~slots'[cur].active
  BY <1>5, Zenon
<1>7. conn'[c] = "closed" /\ \A d \in Conns : d # c => conn'[d] = conn[d]
  BY <1>1, <1>2
<1>8. CoreType'
  <2>1. slots' \in [Slots -> SlotRec]
    BY <1>1, <1>2, <1>3
  <2>2. conn' \in [Conns -> {"new", "backlog", "open", "closed"}]
    BY <1>1, <1>2
  <2>3. \A d \in Conns : conn'[d] \in {"new", "backlog"} => rcvd'[d] = 0
    BY <1>1, <1>7 DEF Core, CoreType
  <2>4. QED
    BY <1>1, <2>1, <2>2, <2>3 DEF Core, CoreType
<1>9. \A i \in Slots : slots'[i].active =>
        i # cur /\ slots'[i] = slots[i] /\ slots[i].active /\ slots[i].fd # c
  <2>1. SUFFICES ASSUME NEW i \in Slots, slots'[i].active
                 PROVE  i # cur /\ slots'[i] = slots[i] /\ slots[i].active
                        /\ slots[i].fd # c
    OBVIOUS
  <2>2. i # cur
    BY <1>6, <2>1
  <2>3. slots'[i] = slots[i] /\ slots[i].active
    BY <1>4, <2>1, <2>2
  <2>4. QED
    BY <1>2, <2>2, <2>3 DEF Core, Seats
<1>10. Seats'
  <2>1. \A i \in Slots : slots'[i].active =>
          slots'[i].fd \in Conns /\ conn'[slots'[i].fd] = "open"
    BY <1>7, <1>9 DEF Core, Seats
  <2>2. ASSUME NEW d \in Conns, conn'[d] = "open"
        PROVE  \E i \in Slots : slots'[i].active /\ slots'[i].fd = d
    <3>1. d # c /\ conn[d] = "open"
      BY <1>7, <2>2
    <3>2. PICK i \in Slots : slots[i].active /\ slots[i].fd = d
      BY <3>1 DEF Core, Seats, Seat
    <3>3. slots'[i] = slots[i]
      BY <1>4, <3>1, <3>2
    <3>4. QED
      BY <3>2, <3>3
  <2>3. \A i, j \in Slots : slots'[i].active /\ slots'[j].active
                            /\ slots'[i].fd = slots'[j].fd => i = j
    BY <1>9 DEF Core, Seats
  <2>4. gpc' # "read"
    BY <1>1
  <2>5. QED
    BY <2>1, <2>2, <2>3, <2>4 DEF Seats, Seat
<1>11. Partial'
  BY <1>1, <1>9 DEF Core, Partial, Tail_of
<1>12. QED
  BY <1>8, <1>10, <1>11 DEF Core

\* The steps of the clients, as far as they concern the slots.
LEMMA ClientCore ==
  ASSUME Core, NEW c \in Conns,
         \/ Connect(c) \/ ClientWrite(c) \/ ClientRead(c)
         \/ \E how \in {"fin", "rst"} : ClientClose(c, how)
  PROVE  Core'
<1>1. /\ peer \in [Conns -> {"up", "fin", "rst"}] /\ sent \in [Conns -> Nat]
      /\ gpc \in {"wait", "batch", "read", "drain", "send"} /\ cur \in Slots
      /\ gpc = "read" => slots[cur].active
  BY DEF Core, CoreType, Seats
<1>2. CASE Connect(c)
  BY <1>2, ConnectCore
<1>3. CASE ClientWrite(c)
  <2>1. /\ UNCHANGED <<conn, slots, rcvd, peer, gpc, cur>>
        /\ sent' = [sent EXCEPT ![c] = @ + 1]
    BY <1>3 DEF ClientWrite
  <2>2. sent' \in [Conns -> Nat] /\ \A d \in Conns : sent[d] <= sent'[d]
    BY <1>1, <2>1
  <2>3. QED
    BY <1>1, <2>1, <2>2, CoreFrame
<1>4. CASE ClientRead(c)
  <2>1. UNCHANGED <<conn, slots, rcvd, peer, gpc, cur, sent>>
    BY <1>4 DEF ClientRead
  <2>2. QED
    BY <1>1, <2>1, CoreFrame
<1>5. ASSUME NEW how \in {"fin", "rst"}, ClientClose(c, how) PROVE Core'
  <2>1. /\ UNCHANGED <<conn, slots, rcvd, gpc, cur, sent>>
        /\ peer' = [peer EXCEPT ![c] = how]
    BY <1>5 DEF ClientClose
  <2>2. peer' \in [Conns -> {"up", "fin", "rst"}]
    BY <1>1, <2>1
  <2>3. QED
    BY <1>1, <2>1, <2>2, CoreFrame
<1>6. QED
  BY <1>2, <1>3, <1>4, <1>5

\* Steps that leave connections, slots and both ends of the clients' streams
\* alone and stop no reading.
LEMMA QuietCore ==
  ASSUME Core, UNCHANGED <<conn, slots, rcvd, peer, sent, cur>>,
         gpc' = gpc \/ gpc' \in {"wait", "batch", "drain", "send"}
  PROVE  Core'
<1>1. /\ peer \in [Conns -> {"up", "fin", "rst"}] /\ sent \in [Conns -> Nat]
      /\ gpc \in {"wait", "batch", "read", "drain", "send"} /\ cur \in Slots
      /\ gpc = "read" => slots[cur].active
  BY DEF Core, CoreType, Seats
<1>2. QED
  BY <1>1, CoreFrame

\* The event loop keeps the slots exact.
LEMMA RunCore ==
  ASSUME Core, Run PROVE Core'
<1>1. CASE epoll_wait
  <2>1. /\ UNCHANGED <<conn, slots, rcvd, peer, sent, cur>>
        /\ gpc' \in {"batch", "drain"}
    BY <1>1 DEF epoll_wait, net
  <2>2. QED
    BY <2>1, QuietCore
<1>2. ASSUME NEW c \in Conns, accept_client(c) \/ read_client(c) PROVE Core'
  BY <1>2, AcceptCore, ReadClientCore
<1>3. ASSUME NEW n \in 1 .. Frame, recv(n) PROVE Core'
  BY <1>3, RecvCore
<1>4. CASE recv_again
  <2>1. /\ UNCHANGED <<conn, slots, rcvd, peer, sent, cur>>
        /\ gpc' \in {"batch", "drain"}
    BY <1>4 DEF recv_again, EventDone, net
  <2>2. QED
    BY <2>1, QuietCore
<1>5. CASE disconnect
  BY <1>5, DisconnectCore
<1>6. CASE drain_outbound
  <2>1. /\ UNCHANGED <<conn, slots, rcvd, peer, sent, cur>>
        /\ gpc' \in {"wait", "drain", "send"}
    BY <1>6 DEF drain_outbound, net
  <2>2. QED
    BY <2>1, QuietCore
<1>7. CASE send
  <2>1. /\ UNCHANGED <<conn, slots, rcvd, peer, sent, cur>>
        /\ gpc' \in {"drain", "send"}
    BY <1>7 DEF send, net
  <2>2. QED
    BY <2>1, QuietCore
<1>8. QED
  BY <1>1, <1>2, <1>3, <1>4, <1>5, <1>6, <1>7 DEF Run

LEMMA InitCore == Init => Core
<1> SUFFICES ASSUME Init PROVE Core
  OBVIOUS
<1>1. Empty \in SlotRec /\ Empty.active = FALSE
  <2>1. [i \in 0 .. Frame - 1 |-> <<NoConn, 0>>] \in [0 .. Frame - 1 -> Unit]
    BY DEF Unit
  <2>2. 0 \in 0 .. Frame - 1
    BY FrameAssumption
  <2>3. QED
    BY <2>1, <2>2 DEF Empty, SlotRec
<1>2. \A i \in Slots : slots[i] = Empty
  BY DEF Init
<1>3. \A i \in Slots : ~slots[i].active
  BY <1>1, <1>2, Zenon
<1>4. CoreType
  <2>1. slots \in [Slots -> SlotRec]
    BY <1>1 DEF Init
  <2>2. 0 \in Slots
    BY SlotAssumption DEF Slots
  <2>3. QED
    BY <2>1, <2>2 DEF Init, CoreType
<1>5. Seats
  BY <1>3 DEF Init, Seats
<1>6. Partial
  BY <1>3 DEF Partial
<1>7. QED
  BY <1>4, <1>5, <1>6 DEF Core

\* The one-to-one matching, counted.
LEMMA CoreSlotsExact == Core => SlotsExact
<1> SUFFICES ASSUME Core PROVE SlotsExact
  OBVIOUS
<1>1. ASSUME NEW c \in Conns
      PROVE  Cardinality({i \in Slots : slots[i].active /\ slots[i].fd = c})
               = IF conn[c] = "open" THEN 1 ELSE 0
  <2> DEFINE mine == {i \in Slots : slots[i].active /\ slots[i].fd = c}
  <2>1. CASE conn[c] = "open"
    <3>1. PICK i \in Slots : slots[i].active /\ slots[i].fd = c
      BY <2>1 DEF Core, Seats, Seat
    <3>2. mine = {i}
      BY <3>1 DEF Core, Seats
    <3>3. QED
      BY <2>1, <3>2, FS_Singleton
  <2>2. CASE conn[c] # "open"
    <3>1. mine = {}
      BY <2>2 DEF Core, Seats
    <3>2. QED
      BY <2>2, <3>1, FS_EmptySet
  <2>3. QED
    BY <2>1, <2>2
<1>2. ASSUME NEW i \in Slots, slots[i].active
      PROVE  LET c == slots[i].fd
             IN  /\ c # NoConn
                 /\ slots[i].read_pos = rcvd[c] % Frame
                 /\ \A k \in 0 .. slots[i].read_pos - 1 :
                      slots[i].read_buf[k]
                        = <<c, rcvd[c] - slots[i].read_pos + k>>
  <2>1. slots[i].fd # NoConn
    BY <1>2, ConnAssumption DEF Core, Seats
  <2>2. Tail_of(slots[i], rcvd[slots[i].fd])
    BY <1>2 DEF Core, Partial
  <2>3. QED
    BY <2>1, <2>2, Zenon DEF Tail_of
<1>3. QED
  BY <1>1, <1>2, Zenon DEF SlotsExact

-----------------------------------------------------------------------------
(* Wake-ups *)

\* What the fds of connections other than c look like after a step on c.
LEMMA RaiseEdges ==
  ASSUME Core, Edges, NEW c \in Conns, Raise(c),
         UNCHANGED <<conn, rcvd, slots, cur, gpc, batch>>,
         \A d \in Conns : d # c => sent'[d] = sent[d] /\ peer'[d] = peer[d]
  PROVE  Edges'
<1>1. /\ edge \in [Conns -> BOOLEAN]
      /\ edge' = [edge EXCEPT ![c] = conn[c] = "open"]
  BY DEF Edges, Raise
<1>2. edge' \in [Conns -> BOOLEAN]
  BY <1>1
<1>3. /\ edge'[c] <=> conn[c] = "open"
      /\ \A d \in Conns : d # c => edge'[d] = edge[d]
  BY <1>1
<1>4. NoLostEdge'
  <2>1. SUFFICES ASSUME NEW d \in Conns, conn'[d] = "open",
                        rcvd'[d] < sent'[d] \/ peer'[d] # "up"
                 PROVE  edge'[d] \/ d \in batch' \/
                        (gpc' = "read" /\ slots'[cur'].fd = d)
    BY DEF NoLostEdge
  <2>2. CASE d = c
    BY <1>3, <2>1, <2>2
  <2>3. CASE d # c
    BY <1>3, <2>1, <2>3 DEF Edges, NoLostEdge
  <2>4. QED
    BY <2>2, <2>3
<1>5. gpc' \in {"wait", "drain", "send"} => batch' = {}
  BY DEF Edges
<1>6. QED
  BY <1>2, <1>4, <1>5 DEF Edges

\* Steps that concern no wake-up.
LEMMA QuietEdges ==
  ASSUME Edges, UNCHANGED <<conn, rcvd, sent, peer, edge, slots, cur, batch>>,
         gpc = gpc' \/ {gpc, gpc'} \subseteq {"wait", "drain", "send"}
  PROVE  Edges'
  BY DEF Edges, NoLostEdge

LEMMA ConnectEdges ==
  ASSUME Core, Edges, NEW c \in Conns, Connect(c) PROVE Edges'
<1>1. /\ UNCHANGED <<rcvd, sent, peer, edge, slots, cur, gpc, batch>>
      /\ conn' = [conn EXCEPT ![c] = "backlog"]
      /\ conn \in [Conns -> {"new", "backlog", "open", "closed"}]
  BY DEF Connect, Core, CoreType
<1>2. \A d \in Conns : conn'[d] = "open" => conn[d] = "open"
  BY <1>1
<1>3. QED
  BY <1>1, <1>2 DEF Edges, NoLostEdge

LEMMA WaitEdges ==
  ASSUME Core, Edges, epoll_wait PROVE Edges'
<1>1. /\ gpc = "wait" /\ edge' = [c \in Conns |-> FALSE]
      /\ batch' = {c \in Conns : edge[c]} \cup
                  {l \in {Listener} : \E c \in Conns : conn[c] = "backlog"}
      /\ UNCHANGED <<conn, rcvd, sent, peer, slots, cur>>
  BY DEF epoll_wait, net
<1>2. edge' \in [Conns -> BOOLEAN]
  BY <1>1
<1>3. \A c \in Conns : edge[c] => c \in batch'
  BY <1>1
<1>4. NoLostEdge'
  <2>1. SUFFICES ASSUME NEW d \in Conns, conn'[d] = "open",
                        rcvd'[d] < sent'[d] \/ peer'[d] # "up"
                 PROVE  d \in batch'
    BY DEF NoLostEdge
  <2>2. edge[d]
    BY <1>1, <2>1 DEF Edges, NoLostEdge
  <2>3. QED
    BY <1>3, <2>2
<1>5. gpc' \in {"wait", "drain", "send"} => batch' = {}
  BY DEF epoll_wait
<1>6. QED
  BY <1>2, <1>4, <1>5 DEF Edges

LEMMA AcceptEdges ==
  ASSUME Core, Edges, NEW c \in Conns, accept_client(c) PROVE Edges'
<1> DEFINE free == {i \in Slots : ~slots[i].active}
<1>1. /\ gpc = "batch" /\ conn[c] = "backlog"
      /\ UNCHANGED <<peer, sent, rcvd, cur>>
      /\ batch' = batch \ {Listener}
      /\ gpc' = IF batch' = {} THEN "drain" ELSE "batch"
  BY DEF accept_client, EventDone
<1>2. /\ conn \in [Conns -> {"new", "backlog", "open", "closed"}]
      /\ edge \in [Conns -> BOOLEAN] /\ rcvd[c] = 0
      /\ sent \in [Conns -> Nat]
  BY <1>1 DEF Core, CoreType, Edges
<1>3. \A d \in Conns : d \in batch => d \in batch'
  BY <1>1, ConnAssumption
<1>4. \/ conn' = [conn EXCEPT ![c] = "closed"] /\ edge' = edge
      \/ /\ conn' = [conn EXCEPT ![c] = "open"]
         /\ edge' = [edge EXCEPT ![c] = sent[c] > 0 \/ peer[c] # "up"]
  BY DEF accept_client
<1>5. edge' \in [Conns -> BOOLEAN]
  BY <1>2, <1>4
<1>6. \A d \in Conns : d # c => conn'[d] = conn[d] /\ edge'[d] = edge[d]
  BY <1>2, <1>4
<1>7. conn'[c] = "open" => (edge'[c] <=> sent[c] > 0 \/ peer[c] # "up")
  BY <1>2, <1>4
<1>8. NoLostEdge'
  <2>1. SUFFICES ASSUME NEW d \in Conns, conn'[d] = "open",
                        rcvd'[d] < sent'[d] \/ peer'[d] # "up"
                 PROVE  edge'[d] \/ d \in batch'
    BY DEF NoLostEdge
  <2>2. CASE d = c
    BY <1>1, <1>2, <1>7, <2>1, <2>2
  <2>3. CASE d # c
    <3>1. edge[d] \/ d \in batch
      BY <1>1, <1>6, <2>1, <2>3 DEF Edges, NoLostEdge
    <3>2. QED
      BY <1>3, <1>6, <2>3, <3>1
  <2>4. QED
    BY <2>2, <2>3
<1>9. gpc' \in {"wait", "drain", "send"} => batch' = {}
  BY <1>1
<1>10. QED
  BY <1>5, <1>8, <1>9 DEF Edges

LEMMA ReadClientEdges ==
  ASSUME Core, Edges, NEW c \in Conns, read_client(c) PROVE Edges'
<1> DEFINE mine == {i \in Slots : slots[i].active /\ slots[i].fd = c}
<1>1. /\ gpc = "batch" /\ batch' = batch \ {c}
      /\ UNCHANGED <<conn, peer, sent, rcvd, edge, slots>>
      /\ \/ mine # {} /\ gpc' = "read" /\ cur' = Min(mine)
         \/ mine = {} /\ gpc' = IF batch' = {} THEN "drain" ELSE "batch"
  BY DEF read_client, EventDone, net
<1>2. mine # {} => slots[Min(mine)].fd = c
  BY SlotForFd
<1>3. mine = {} => conn[c] # "open"
  BY DEF Core, Seats, Seat
<1> HIDE DEF mine
<1>4. NoLostEdge'
  <2>1. SUFFICES ASSUME NEW d \in Conns, conn'[d] = "open",
                        rcvd'[d] < sent'[d] \/ peer'[d] # "up"
                 PROVE  edge'[d] \/ d \in batch' \/
                        (gpc' = "read" /\ slots'[cur'].fd = d)
    BY DEF NoLostEdge
  <2>2. edge[d] \/ d \in batch
    BY <1>1, <2>1 DEF Edges, NoLostEdge
  <2>3. CASE d = c
    BY <1>1, <1>2, <1>3, <2>1, <2>3
  <2>4. CASE d # c
    BY <1>1, <2>2, <2>4
  <2>5. QED
    BY <2>3, <2>4
<1>5. gpc' \in {"wait", "drain", "send"} => batch' = {}
  BY <1>1
<1>6. QED
  BY <1>1, <1>4, <1>5 DEF Edges

LEMMA RecvEdges ==
  ASSUME Core, Edges, NEW n \in 1 .. Frame, recv(n) PROVE Edges'
<1> DEFINE c == slots[cur].fd
<1>1. /\ gpc = "read" /\ c \in Conns /\ rcvd' = [rcvd EXCEPT ![c] = @ + n]
      /\ UNCHANGED <<conn, peer, sent, edge, gpc, batch, cur>>
      /\ rcvd \in [Conns -> Nat] /\ cur \in Slots
  BY RecvFacts DEF Core, CoreType
<1>2. slots'[cur].fd = c
  <2>1. slots' = [slots EXCEPT ![cur] =
          [slots[cur] EXCEPT
             !.read_buf = RecvBuf(n),
             !.read_pos = IF slots[cur].read_pos + n = Frame THEN 0
                          ELSE slots[cur].read_pos + n]]
    BY RecvFacts
  <2>2. slots \in [Slots -> SlotRec] /\ slots[cur] \in SlotRec
    BY DEF Core, CoreType
  <2>3. QED
    BY <1>1, <2>1, <2>2 DEF SlotRec
<1>3. \A d \in Conns : d # c => rcvd'[d] = rcvd[d]
  BY <1>1
<1>4. NoLostEdge'
  BY <1>1, <1>2, <1>3 DEF Edges, NoLostEdge
<1>5. QED
  BY <1>1, <1>4 DEF Edges

LEMMA RecvAgainEdges ==
  ASSUME Core, Edges, recv_again PROVE Edges'
<1> DEFINE c == slots[cur].fd
<1>1. /\ gpc = "read" /\ sent[c] = rcvd[c] /\ ~HungUp(c)
      /\ UNCHANGED <<conn, peer, sent, rcvd, edge, slots, batch, cur>>
      /\ gpc' = IF batch = {} THEN "drain" ELSE "batch"
  BY DEF recv_again, EventDone, net
<1>2. c \in Conns
  BY <1>1 DEF Core, CoreType, Seats
<1>3. peer[c] = "up" /\ ~(rcvd[c] < sent[c])
  BY <1>1, <1>2 DEF HungUp, Core, CoreType
<1>4. NoLostEdge'
  BY <1>1, <1>3 DEF Edges, NoLostEdge
<1>5. QED
  BY <1>1, <1>4 DEF Edges

LEMMA DisconnectEdges ==
  ASSUME Core, Edges, disconnect PROVE Edges'
<1> DEFINE c == slots[cur].fd
<1>1. /\ gpc = "read" /\ conn' = [conn EXCEPT ![c] = "closed"]
      /\ edge' = [edge EXCEPT ![c] = FALSE]
      /\ UNCHANGED <<peer, sent, rcvd, batch, cur>>
      /\ gpc' = IF batch = {} THEN "drain" ELSE "batch"
  BY DEF disconnect, EventDone
<1>2. /\ conn \in [Conns -> {"new", "backlog", "open", "closed"}]
      /\ edge \in [Conns -> BOOLEAN] /\ c \in Conns
  BY <1>1 DEF Core, CoreType, Seats, Edges
<1>3. edge' \in [Conns -> BOOLEAN]
  BY <1>1, <1>2
<1>4. /\ \A d \in Conns : d # c => conn'[d] = conn[d] /\ edge'[d] = edge[d]
      /\ conn'[c] # "open"
  BY <1>1, <1>2
<1>5. NoLostEdge'
  <2>1. SUFFICES ASSUME NEW d \in Conns, conn'[d] = "open",
                        rcvd'[d] < sent'[d] \/ peer'[d] # "up"
                 PROVE  edge'[d] \/ d \in batch'
    BY DEF NoLostEdge
  <2>2. d # c
    BY <1>4, <2>1
  <2>3. edge[d] \/ d \in batch
    BY <1>1, <1>4, <2>1, <2>2 DEF Edges, NoLostEdge
  <2>4. QED
    BY <1>1, <1>4, <2>2, <2>3
<1>6. QED
  BY <1>1, <1>3, <1>5 DEF Edges

\* Every step keeps wake-ups coming.
LEMMA NextEdges ==
  ASSUME Core, Edges, Next PROVE Edges'
<1>1. ASSUME NEW c \in Conns, Connect(c) PROVE Edges'
  BY <1>1, ConnectEdges
<1>2. ASSUME NEW c \in Conns, ClientWrite(c) PROVE Edges'
  <2>1. /\ Raise(c) /\ UNCHANGED <<conn, rcvd, slots, cur, gpc, batch, peer>>
        /\ sent' = [sent EXCEPT ![c] = @ + 1] /\ sent \in [Conns -> Nat]
    BY <1>2 DEF ClientWrite, Core, CoreType
  <2>2. \A d \in Conns : d # c => sent'[d] = sent[d] /\ peer'[d] = peer[d]
    BY <2>1
  <2>3. QED
    BY <2>1, <2>2, RaiseEdges
<1>3. ASSUME NEW c \in Conns, NEW how \in {"fin", "rst"}, ClientClose(c, how)
      PROVE  Edges'
  <2>1. /\ Raise(c) /\ UNCHANGED <<conn, rcvd, slots, cur, gpc, batch, sent>>
        /\ peer' = [peer EXCEPT ![c] = how]
        /\ peer \in [Conns -> {"up", "fin", "rst"}]
    BY <1>3 DEF ClientClose, Core, CoreType
  <2>2. \A d \in Conns : d # c => sent'[d] = sent[d] /\ peer'[d] = peer[d]
    BY <2>1
  <2>3. QED
    BY <2>1, <2>2, RaiseEdges
<1>4. ASSUME NEW c \in Conns, ClientRead(c) PROVE Edges'
  BY <1>4, QuietEdges DEF ClientRead
<1>5. CASE EngineEmit
  BY <1>5, QuietEdges DEF EngineEmit
<1>6. CASE EnginePop
  BY <1>6, QuietEdges DEF EnginePop, net
<1>7. CASE drain_outbound
  <2>1. /\ UNCHANGED <<conn, rcvd, sent, peer, edge, slots, cur, batch>>
        /\ gpc = "drain" /\ gpc' \in {"wait", "drain", "send"}
    BY <1>7 DEF drain_outbound, net
  <2>2. QED
    BY <2>1, QuietEdges
<1>8. CASE send
  <2>1. /\ UNCHANGED <<conn, rcvd, sent, peer, edge, slots, cur, batch>>
        /\ gpc = "send" /\ gpc' \in {"drain", "send"}
    BY <1>8 DEF send, net
  <2>2. QED
    BY <2>1, QuietEdges
<1>9. CASE Environment
  BY <1>1, <1>2, <1>3, <1>4, <1>5, <1>6, <1>9 DEF Environment
<1>10. CASE Run
  BY <1>7, <1>8, <1>10, WaitEdges, AcceptEdges, ReadClientEdges, RecvEdges,
     RecvAgainEdges, DisconnectEdges DEF Run
<1>11. QED
  BY <1>9, <1>10 DEF Next

-----------------------------------------------------------------------------
(* Frames to the engine *)

\* Frames and units within a frame.
LEMMA FrameDiv ==
  ASSUME NEW r \in Nat
  PROVE  /\ r \div Frame \in Nat /\ r % Frame \in 0 .. Frame - 1
         /\ r = Frame * (r \div Frame) + (r % Frame)
<1> DEFINE d == r \div Frame
           p == r % Frame
<1>1. d \in Int /\ p \in 0 .. Frame - 1 /\ r = Frame * d + p
  BY DivMod, FrameAssumption
<1> HIDE DEF d, p
<1>2. d >= 0
  <2>1. SUFFICES ASSUME d + 1 <= 0 PROVE FALSE
    BY <1>1
  <2>2. Frame * (d + 1) <= 0 /\ Frame * (d + 1) = Frame * d + Frame
    BY <1>1, <2>1, FrameAssumption
  <2>3. QED
    BY <1>1, <2>2, FrameAssumption
<1>3. d \in Nat
  BY <1>1, <1>2
<1>4. QED
  BY <1>1, <1>3 DEF d, p

LEMMA WrittenParts ==
  ASSUME NEW c \in Conns, NEW f \in Nat
  PROVE  /\ Written(c, f) \in [0 .. Frame - 1 -> Unit]
         /\ Written(c, f)[0][1] = c /\ Written(c, f)[0][2] = f * Frame
<1>1. 0 \in 0 .. Frame - 1 /\ f * Frame + 0 = f * Frame
  BY FrameAssumption
<1>2. \A k \in 0 .. Frame - 1 : <<c, f * Frame + k>> \in Unit
  BY FrameAssumption DEF Unit
<1>3. QED
  BY <1>1, <1>2 DEF Written

\* What recv completes is the next frame of its client.
LEMMA RecvWritten ==
  ASSUME Core, NEW n \in 1 .. Frame, recv(n),
         slots[cur].read_pos + n = Frame
  PROVE  LET c == slots[cur].fd
         IN  RecvBuf(n) = Written(c, rcvd[c] \div Frame)
<1> DEFINE c == slots[cur].fd
           p == slots[cur].read_pos
           r == rcvd[c]
           d == r \div Frame
<1>1. c \in Conns /\ p \in Nat /\ p + n = Frame
  BY RecvFacts
<1>2. r \in Nat
  BY <1>1 DEF Core, CoreType
<1>3. /\ RecvBuf(n) \in [0 .. Frame - 1 -> Unit]
      /\ \A k \in 0 .. p + n - 1 : RecvBuf(n)[k] = <<c, r - p + k>>
      /\ p = r % Frame
  BY RecvBufUnits
<1> HIDE DEF c, p, r
<1>4. d \in Nat /\ r = Frame * d + p
  <2>1. d \in Nat /\ r = Frame * d + (r % Frame)
    BY <1>2, FrameDiv, Zenon
  <2>2. QED
    BY <1>3, <2>1, Zenon
<1> HIDE DEF d
<1>5. ASSUME NEW k \in 0 .. Frame - 1 PROVE RecvBuf(n)[k] = <<c, d * Frame + k>>
  <2>1. r - p + k = d * Frame + k
    BY <1>1, <1>2, <1>4, FrameAssumption
  <2>2. QED
    BY <1>1, <1>3, <2>1
<1>6. RecvBuf(n) = [k \in 0 .. Frame - 1 |-> <<c, d * Frame + k>>]
  BY <1>3, <1>5
<1>7. QED
  BY <1>6, Zenon DEF Written, c, d, r

LEMMA RecvInbound ==
  ASSUME Core, Inbound, NEW n \in 1 .. Frame, recv(n) PROVE Inbound'
<1> DEFINE c == slots[cur].fd
           p == slots[cur].read_pos
           d == rcvd[c] \div Frame
           b == RecvBuf(n)
           l == Len(inbound)
<1>1. /\ c \in Conns /\ p \in Nat /\ p + n <= Frame
      /\ rcvd' = [rcvd EXCEPT ![c] = @ + n]
      /\ inbound' = IF p + n = Frame THEN Push(inbound, b) ELSE inbound
  BY RecvFacts
<1>2. rcvd \in [Conns -> Nat] /\ rcvd[c] \in Nat /\ p = rcvd[c] % Frame
      /\ b \in [0 .. Frame - 1 -> Unit]
  BY <1>1, RecvBufUnits DEF Core, CoreType
<1>3. rcvd'[c] = rcvd[c] + n /\ \A e \in Conns : e # c => rcvd'[e] = rcvd[e]
  BY <1>1, <1>2
<1>4. d \in Nat
  BY <1>2, FrameDiv, Zenon
<1>5. rcvd'[c] \div Frame = IF p + n = Frame THEN d + 1 ELSE d
  <2> DEFINE r == rcvd[c]
  <2>1. r \in Nat /\ p = r % Frame
    BY <1>2
  <2> HIDE DEF p, r
  <2>2. /\ p + n = Frame => (r + n) \div Frame = (r \div Frame) + 1
        /\ p + n # Frame => (r + n) \div Frame = r \div Frame
    BY <1>1, <2>1, RecvCount
  <2>3. QED
    BY <1>3, <2>2 DEF r
<1>6. /\ l \in Nat /\ inbound \in Seq([0 .. Frame - 1 -> Unit])
  BY LenProperties DEF Inbound
<1>7. \A i \in 1 .. l : \E e \in Conns, f \in Nat :
        f < rcvd[e] \div Frame /\ inbound[i] = Written(e, f)
  BY DEF Inbound
<1> HIDE DEF c, d, p, b
<1>8. \A i \in 1 .. l : \E e \in Conns, f \in Nat :
        f < rcvd'[e] \div Frame /\ inbound[i] = Written(e, f)
  <2>1. SUFFICES ASSUME NEW i \in 1 .. l
                 PROVE  \E e \in Conns, f \in Nat :
                          f < rcvd'[e] \div Frame /\ inbound[i] = Written(e, f)
    OBVIOUS
  <2>2. PICK e \in Conns, f \in Nat :
          f < rcvd[e] \div Frame /\ inbound[i] = Written(e, f)
    BY <1>7
  <2>3. f < rcvd'[e] \div Frame
    <3>1. CASE e = c
      <4>1. f < d
        BY <2>2, <3>1 DEF d
      <4>2. QED
        BY <1>4, <1>5, <3>1, <4>1
    <3>2. CASE e # c
      BY <1>3, <2>2, <3>2
    <3>3. QED
      BY <3>1, <3>2
  <2>4. QED
    BY <2>2, <2>3
<1>9. CASE inbound' = inbound
  BY <1>8, <1>9 DEF Inbound
<1>10. CASE p + n = Frame /\ inbound' = Append(inbound, b)
  <2>1. /\ inbound' \in Seq([0 .. Frame - 1 -> Unit]) /\ Len(inbound') = l + 1
        /\ \A i \in 1 .. l : inbound'[i] = inbound[i]
        /\ inbound'[l + 1] = b
    BY <1>2, <1>6, <1>10, AppendProperties
  <2>2. b = Written(c, d)
    BY <1>10, RecvWritten DEF b, c, d, p
  <2>3. b[0][1] = c /\ b[0][2] = d * Frame
    BY <1>1, <1>4, <2>2, WrittenParts
  <2>4. ASSUME NEW i \in 1 .. l + 1
        PROVE  \E e \in Conns, f \in Nat :
                 f < rcvd'[e] \div Frame /\ inbound'[i] = Written(e, f)
    <3>1. CASE i = l + 1
      <4>1. d < rcvd'[c] \div Frame
        BY <1>4, <1>5, <1>10
      <4>2. QED
        BY <1>1, <1>4, <2>1, <2>2, <3>1, <4>1
    <3>2. CASE i # l + 1
      <4>1. i \in 1 .. l
        BY <1>6, <3>2
      <4>2. QED
        BY <1>8, <2>1, <4>1
    <3>3. QED
      BY <3>1, <3>2
  <2>5. ASSUME NEW i \in 1 .. l + 1, NEW j \in 1 .. l + 1, i < j,
               inbound'[i][0][1] = inbound'[j][0][1]
        PROVE  inbound'[i][0][2] < inbound'[j][0][2]
    <3>1. i \in 1 .. l
      BY <1>6, <2>5
    <3>2. CASE j = l + 1
      <4>1. PICK e \in Conns, f \in Nat :
              f < rcvd[e] \div Frame /\ inbound[i] = Written(e, f)
        BY <1>7, <3>1
      <4>2. inbound[i][0][1] = e /\ inbound[i][0][2] = f * Frame
        BY <4>1, WrittenParts
      <4>3. e = c /\ f < d
        BY <2>1, <2>3, <2>5, <3>1, <3>2, <4>1, <4>2 DEF d
      <4>4. f * Frame < d * Frame
        BY <1>4, <4>3, FrameAssumption
      <4>5. QED
        BY <2>1, <2>3, <3>1, <3>2, <4>2, <4>4
    <3>3. CASE j # l + 1
      <4>1. j \in 1 .. l
        BY <1>6, <3>3
      <4>2. QED
        BY <2>1, <2>5, <3>1, <4>1 DEF Inbound
    <3>4. QED
      BY <3>2, <3>3
  <2>6. QED
    BY <2>1, <2>4, <2>5 DEF Inbound
<1>11. QED
  BY <1>1, <1>9, <1>10 DEF Push

LEMMA PopInbound ==
  ASSUME Inbound, inbound # <<>>, inbound' = Tail(inbound), rcvd' = rcvd
  PROVE  Inbound'
<1> DEFINE l == Len(inbound)
<1>1. /\ inbound \in Seq([0 .. Frame - 1 -> Unit]) /\ l \in Nat /\ l # 0
  BY EmptySeq, LenProperties DEF Inbound
<1>2. /\ inbound' \in Seq([0 .. Frame - 1 -> Unit]) /\ Len(inbound') = l - 1
      /\ \A i \in 1 .. l - 1 : inbound'[i] = inbound[i + 1]
  BY <1>1, HeadTailProperties
<1>3. \A i \in 1 .. l - 1 : i + 1 \in 1 .. l
  BY <1>1
<1>4. QED
  BY <1>1, <1>2, <1>3 DEF Inbound

\* Only recv and the engine touch the inbound ring.
LEMMA NextInbound ==
  ASSUME Core, Inbound, Next PROVE Inbound'
<1>1. ASSUME NEW n \in 1 .. Frame, recv(n) PROVE Inbound'
  BY <1>1, RecvInbound
<1>2. CASE EnginePop
  BY <1>2, PopInbound DEF EnginePop
<1>3. ASSUME UNCHANGED <<inbound, rcvd>> PROVE Inbound'
  BY <1>3 DEF Inbound
<1>4. CASE Environment
  <2>1. EnginePop \/ UNCHANGED <<inbound, rcvd>>
    BY <1>4 DEF Environment, Connect, ClientWrite, ClientRead, ClientClose,
                EngineEmit
  <2>2. QED
    BY <1>2, <1>3, <2>1
<1>5. CASE Run
  <2>1. (\E n \in 1 .. Frame : recv(n)) \/ UNCHANGED <<inbound, rcvd>>
    BY <1>5 DEF Run, epoll_wait, accept_client, read_client, recv_again,
                disconnect, drain_outbound, send
  <2>2. QED
    BY <1>1, <1>3, <2>1
<1>6. QED
  BY <1>4, <1>5 DEF Next

\* A whole frame that was read was sent.
LEMMA InboundFramesWhole == Core /\ Inbound => FramesWhole
<1> SUFFICES ASSUME Core, Inbound PROVE FramesWhole
  OBVIOUS
<1>1. DOMAIN inbound = 1 .. Len(inbound)
  BY LenProperties DEF Inbound
<1>2. ASSUME NEW i \in 1 .. Len(inbound)
      PROVE  \E c \in Conns : \E f \in 0 .. (sent[c] \div Frame) - 1 :
               inbound[i] = Written(c, f)
  <2>1. PICK c \in Conns, f \in Nat :
          f < rcvd[c] \div Frame /\ inbound[i] = Written(c, f)
    BY DEF Inbound
  <2> DEFINE a == rcvd[c] \div Frame
             b == sent[c] \div Frame
             ar == rcvd[c] % Frame
             br == sent[c] % Frame
  <2>2. rcvd[c] \in Nat /\ sent[c] \in Nat /\ rcvd[c] <= sent[c]
    BY DEF Core, CoreType
  <2>3. /\ a \in Nat /\ ar \in 0 .. Frame - 1 /\ rcvd[c] = Frame * a + ar
        /\ b \in Nat /\ br \in 0 .. Frame - 1 /\ sent[c] = Frame * b + br
    BY <2>2, FrameDiv, Zenon
  <2> HIDE DEF a, b, ar, br
  <2>4. a <= b
    <3>1. SUFFICES ASSUME b + 1 <= a PROVE FALSE
      BY <2>3
    <3>2. Frame * (b + 1) <= Frame * a
      BY <2>3, <3>1, FrameAssumption
    <3>3. Frame * (b + 1) = Frame * b + Frame
      BY <2>3, FrameAssumption
    <3>4. QED
      BY <2>2, <2>3, <3>2, <3>3, FrameAssumption
  <2>5. f \in 0 .. b - 1
    BY <2>1, <2>3, <2>4 DEF a
  <2>6. QED
    BY <2>1, <2>5 DEF b
<1>3. QED
  BY <1>1, <1>2 DEF FramesWhole, Inbound

-----------------------------------------------------------------------------
(* Messages to the clients *)

LEMMA EmitOutbound ==
  ASSUME Outbound, EngineEmit PROVE Outbound'
<1> DEFINE l == Len(outbound)
<1>1. /\ outbound \in Seq(Nat) /\ l \in Nat /\ emitted \in Nat
      /\ \A i \in 1 .. l : outbound[i] \in Nat
  BY LenProperties, ElementOfSeq DEF Outbound
<1>2. /\ emitted' = emitted + 1 /\ out' = out
      /\ outbound' = outbound \/ outbound' = Append(outbound, emitted)
  BY DEF EngineEmit, Push
<1>3. CASE outbound' = outbound
  BY <1>1, <1>2, <1>3 DEF Outbound
<1>4. CASE outbound' = Append(outbound, emitted)
  <2>1. /\ outbound' \in Seq(Nat) /\ Len(outbound') = l + 1
        /\ \A i \in 1 .. l : outbound'[i] = outbound[i]
        /\ outbound'[l + 1] = emitted
    BY <1>1, <1>4, AppendProperties
  <2>2. \A i \in 1 .. l + 1 : outbound'[i] < emitted'
    <3>1. SUFFICES ASSUME NEW i \in 1 .. l + 1 PROVE outbound'[i] < emitted'
      OBVIOUS
    <3>2. CASE i = l + 1
      BY <1>1, <1>2, <2>1, <3>2
    <3>3. CASE i # l + 1
      <4>1. i \in 1 .. l
        BY <1>1, <3>3
      <4>2. outbound'[i] = outbound[i] /\ outbound[i] < emitted
            /\ outbound[i] \in Nat
        BY <1>1, <2>1, <4>1 DEF Outbound
      <4>3. QED
        BY <1>1, <1>2, <4>2
    <3>4. QED
      BY <3>2, <3>3
  <2>3. \A i, j \in 1 .. l + 1 : i < j => outbound'[i] < outbound'[j]
    <3>1. SUFFICES ASSUME NEW i \in 1 .. l + 1, NEW j \in 1 .. l + 1, i < j
                   PROVE  outbound'[i] < outbound'[j]
      OBVIOUS
    <3>2. i \in 1 .. l /\ (j = l + 1 \/ j \in 1 .. l)
      BY <1>1, <3>1
    <3>3. QED
      BY <2>1, <3>1, <3>2 DEF Outbound
  <2>4. ASSUME NEW m \in Nat, m < emitted, \A i \in 1 .. l : m < outbound[i]
        PROVE  m < emitted' /\ \A i \in 1 .. l + 1 : m < outbound'[i]
    <3>1. SUFFICES ASSUME NEW i \in 1 .. l + 1 PROVE m < outbound'[i]
      BY <1>1, <1>2, <2>4
    <3>2. i = l + 1 \/ i \in 1 .. l
      BY <1>1
    <3>3. QED
      BY <2>1, <2>4, <3>2
  <2>5. out' = <<>> \/ \E m \in Nat : /\ out' = <<m>> /\ m < emitted'
                                      /\ \A i \in 1 .. Len(outbound') : m < outbound'[i]
    BY <1>2, <2>1, <2>4 DEF Outbound
  <2>6. QED
    BY <1>1, <1>2, <2>1, <2>2, <2>3, <2>5 DEF Outbound
<1>5. QED
  BY <1>2, <1>3, <1>4

\* What drain_outbound pops is older than the rest of the ring and newer than
\* what it popped before.
LEMMA DrainOutbound ==
  ASSUME Outbound, outbound # <<>>, out' = <<Head(outbound)>>,
         outbound' = Tail(outbound), emitted' = emitted
  PROVE  /\ Outbound' /\ out' # <<>> /\ out'[1] \in Nat
         /\ out # <<>> => out[1] \in Nat /\ out[1] < out'[1]
<1> DEFINE l == Len(outbound)
<1>1. outbound \in Seq(Nat) /\ l \in Nat /\ l # 0
  BY EmptySeq, LenProperties DEF Outbound
<1>2. /\ Head(outbound) = outbound[1] /\ outbound[1] \in Nat
      /\ outbound' \in Seq(Nat) /\ Len(outbound') = l - 1
      /\ \A i \in 1 .. l - 1 : outbound'[i] = outbound[i + 1]
  BY <1>1, HeadTailProperties, ElementOfSeq
<1>3. /\ \A i \in 1 .. l - 1 : i + 1 \in 1 .. l /\ 1 < i + 1
      /\ \A i, j \in 1 .. l - 1 : i < j => i + 1 < j + 1
      /\ 1 \in 1 .. l
  BY <1>1
<1>4. out' = <<outbound[1]>> /\ out' # <<>> /\ out'[1] = outbound[1]
  BY <1>2
<1>5. \A i \in 1 .. l - 1 : outbound[1] < outbound'[i]
  BY <1>2, <1>3 DEF Outbound
<1>6. Outbound'
  <2>1. \A i \in 1 .. l - 1 : outbound'[i] < emitted'
    BY <1>2, <1>3 DEF Outbound
  <2>2. \A i, j \in 1 .. l - 1 : i < j => outbound'[i] < outbound'[j]
    BY <1>2, <1>3 DEF Outbound
  <2>3. outbound[1] < emitted'
    BY <1>3 DEF Outbound
  <2>4. emitted' \in Nat
    BY DEF Outbound
  <2>5. QED
    BY <1>2, <1>4, <1>5, <2>1, <2>2, <2>3, <2>4 DEF Outbound
<1>7. ASSUME out # <<>> PROVE out[1] \in Nat /\ out[1] < out'[1]
  <2>1. PICK m \in Nat : out = <<m>> /\ \A i \in 1 .. l : m < outbound[i]
    BY <1>7 DEF Outbound
  <2>2. QED
    BY <1>3, <1>4, <2>1
<1>8. QED
  BY <1>2, <1>4, <1>6, <1>7

LEMMA NextOutbound ==
  ASSUME Outbound, Next PROVE Outbound'
<1>1. CASE EngineEmit
  BY <1>1, EmitOutbound
<1>2. CASE drain_outbound /\ outbound # <<>>
  BY <1>2, DrainOutbound DEF drain_outbound, net
<1>3. ASSUME UNCHANGED <<outbound, emitted, out>> PROVE Outbound'
  BY <1>3 DEF Outbound
<1>4. CASE Environment
  <2>1. EngineEmit \/ UNCHANGED <<outbound, emitted, out>>
    BY <1>4 DEF Environment, Connect, ClientWrite, ClientRead, ClientClose,
                EnginePop, net
  <2>2. QED
    BY <1>1, <1>3, <2>1
<1>5. CASE Run
  <2>1. \/ drain_outbound /\ outbound # <<>>
        \/ UNCHANGED <<outbound, emitted, out>>
    BY <1>5 DEF Run, epoll_wait, accept_client, read_client, recv, recv_again,
                disconnect, drain_outbound, send, net
  <2>2. QED
    BY <1>2, <1>3, <2>1
<1>6. QED
  BY <1>4, <1>5 DEF Next

\* What send accepts is a leading part of the frame that fits the buffer.
LEMMA AcceptedPrefix ==
  ASSUME Streams, NEW m \in Nat, NEW c \in Conns
  PROVE  \E n \in 0 .. Frame :
           /\ Accepted(m, c) \in Seq(Nat \X (0 .. Frame - 1))
           /\ Len(Accepted(m, c)) = n
           /\ \A k \in 1 .. n : Accepted(m, c)[k] = <<m, k - 1>>
           /\ Len(stream[c]) + n - taken[c] \in 0 .. SendRoom
<1> DEFINE room == SendRoom - (Len(stream[c]) - taken[c])
           n == IF peer[c] # "up" THEN 0 ELSE IF room < Frame THEN room ELSE Frame
           w == [k \in 1 .. n |-> <<m, k - 1>>]
<1>1. /\ Len(stream[c]) \in Nat /\ taken[c] \in Nat
      /\ Len(stream[c]) - taken[c] \in 0 .. SendRoom
  BY LenProperties DEF Streams
<1>2. n \in 0 .. Frame /\ Len(stream[c]) + n - taken[c] \in 0 .. SendRoom
  <2> DEFINE L == Len(stream[c])
             T == taken[c]
  <2>1. L \in Nat /\ T \in Nat /\ L - T \in 0 .. SendRoom
    BY <1>1
  <2> HIDE DEF L, T
  <2>2. room = SendRoom - (L - T) /\ room \in 0 .. SendRoom
    BY <2>1, BoundAssumption DEF L, T
  <2> HIDE DEF room
  <2>3. n \in 0 .. Frame /\ n \in 0 .. room
    BY <2>2, FrameAssumption, BoundAssumption
  <2> HIDE DEF n
  <2>4. L + n - T \in 0 .. SendRoom
    BY <2>1, <2>2, <2>3, FrameAssumption, BoundAssumption
  <2>5. QED
    BY <2>3, <2>4 DEF L, T
<1>3. Accepted(m, c) = w
  BY Zenon DEF Accepted
<1> HIDE DEF n
<1>4. w \in [1 .. n -> Nat \X (0 .. Frame - 1)]
  BY <1>2, FrameAssumption
<1>5. n \in Nat
  BY <1>2, FrameAssumption
<1>6. w \in Seq(Nat \X (0 .. Frame - 1)) /\ Len(w) = n
  BY <1>4, <1>5, FunctionSeq
<1>7. \A k \in 1 .. n : w[k] = <<m, k - 1>>
  OBVIOUS
<1> HIDE DEF w
<1>8. QED
  BY <1>2, <1>3, <1>6, <1>7

\* The stream of c once a leading part of message m is appended to it.
LEMMA SendStream ==
  ASSUME Streams, StreamInOrder, NEW m \in Nat, NEW c \in Conns,
         \A k \in 1 .. Len(stream[c]) : stream[c][k][1] < m
  PROVE  LET t == stream[c] \o Accepted(m, c)
         IN  /\ t \in Seq(Nat \X (0 .. Frame - 1))
             /\ Len(t) - taken[c] \in 0 .. SendRoom
             /\ \A k \in 1 .. Len(t) : t[k][1] <= m
             /\ \A k \in 1 .. Len(t) - 1 :
                  \/ t[k][1] < t[k + 1][1]
                  \/ t[k][1] = t[k + 1][1] /\ t[k][2] + 1 = t[k + 1][2]
<1> DEFINE s == stream[c]
           w == Accepted(m, c)
           t == s \o w
           l == Len(s)
<1>1. PICK n \in 0 .. Frame :
        /\ w \in Seq(Nat \X (0 .. Frame - 1)) /\ Len(w) = n
        /\ \A k \in 1 .. n : w[k] = <<m, k - 1>>
        /\ l + n - taken[c] \in 0 .. SendRoom
  BY AcceptedPrefix
<1>2. /\ s \in Seq(Nat \X (0 .. Frame - 1)) /\ l \in Nat
      /\ \A k \in 1 .. l : s[k] \in Nat \X (0 .. Frame - 1)
  BY LenProperties, ElementOfSeq DEF Streams
<1>3. /\ t \in Seq(Nat \X (0 .. Frame - 1)) /\ Len(t) = l + n
      /\ \A k \in 1 .. l + n : t[k] = IF k <= l THEN s[k] ELSE w[k - l]
  <2> HIDE DEF s, w
  <2>1. /\ t \in Seq(Nat \X (0 .. Frame - 1)) /\ Len(t) = Len(s) + Len(w)
        /\ \A k \in 1 .. Len(s) + Len(w) :
             t[k] = IF k <= Len(s) THEN s[k] ELSE w[k - Len(s)]
    BY <1>1, <1>2, ConcatProperties
  <2>2. QED
    BY <1>1, <2>1
<1>4. \A k \in 1 .. l : s[k][1] < m /\ s[k][1] \in Nat
  BY <1>2
<1>5. \A k \in 1 .. l - 1 :
        s[k][1] < s[k + 1][1] \/ (s[k][1] = s[k + 1][1] /\ s[k][2] + 1 = s[k + 1][2])
  BY DEF StreamInOrder
<1>6. n \in Nat
  BY FrameAssumption
<1> HIDE DEF t, w, s, l
<1>7. ASSUME NEW k \in 1 .. l + n
      PROVE  \/ k \in 1 .. l /\ t[k] = s[k]
             \/ k > l /\ k - l \in 1 .. n /\ t[k] = <<m, k - l - 1>>
  <2>1. CASE k <= l
    <3>1. k \in 1 .. l
      BY <1>2, <1>6, <2>1
    <3>2. t[k] = s[k]
      BY <1>3, <2>1, Zenon
    <3>3. QED
      BY <3>1, <3>2
  <2>2. CASE k > l
    <3>1. k - l \in 1 .. n /\ ~(k <= l)
      BY <1>2, <1>6, <2>2
    <3>2. t[k] = w[k - l]
      BY <1>3, <3>1
    <3>3. w[k - l] = <<m, k - l - 1>>
      BY <1>1, <3>1
    <3>4. QED
      BY <2>2, <3>1, <3>2, <3>3
  <2>3. QED
    BY <1>2, <1>6, <2>1, <2>2
<1>8. \A k \in 1 .. l + n : t[k][1] <= m
  BY <1>4, <1>7
<1>9. ASSUME NEW k \in 1 .. l + n - 1
      PROVE  \/ t[k][1] < t[k + 1][1]
             \/ t[k][1] = t[k + 1][1] /\ t[k][2] + 1 = t[k + 1][2]
  <2>1. k \in 1 .. l + n /\ k + 1 \in 1 .. l + n
    BY <1>2, <1>6
  <2>2. CASE k + 1 <= l
    <3>0. k <= l /\ k \in 1 .. l - 1
      BY <1>2, <1>6, <2>2
    <3>1. t[k] = s[k] /\ t[k + 1] = s[k + 1] /\ k \in 1 .. l - 1
      BY <1>3, <2>1, <2>2, <3>0, Zenon
    <3>2. QED
      BY <1>5, <3>1
  <2>3. CASE k = l
    <3>1. t[k] = s[k] /\ k \in 1 .. l /\ t[k + 1][1] = m
      BY <1>2, <1>7, <2>1, <2>3
    <3>2. QED
      BY <1>4, <3>1
  <2>4. CASE k > l
    <3>1. t[k] = <<m, k - l - 1>> /\ t[k + 1] = <<m, k + 1 - l - 1>>
      BY <1>2, <1>7, <2>1, <2>4
    <3>2. QED
      BY <1>2, <3>1
  <2>5. QED
    BY <1>2, <2>2, <2>3, <2>4
<1>10. Len(t) - taken[c] \in 0 .. SendRoom
  <2>1. l + n - taken[c] \in 0 .. SendRoom /\ Len(t) = l + n
    BY <1>1, <1>3
  <2>2. taken[c] \in Nat
    BY DEF Streams
  <2>3. QED
    BY <1>2, <1>6, <2>1, <2>2
<1>11. /\ \A k \in 1 .. Len(t) : t[k][1] <= m
       /\ \A k \in 1 .. Len(t) - 1 :
            \/ t[k][1] < t[k + 1][1]
            \/ t[k][1] = t[k + 1][1] /\ t[k][2] + 1 = t[k + 1][2]
  <2>1. Len(t) = l + n /\ Len(t) - 1 = l + n - 1
    BY <1>2, <1>3, <1>6
  <2>2. QED
    BY <1>8, <1>9, <2>1, Zenon
<1>12. QED
  BY <1>3, <1>10, <1>11, Zenon DEF t, s, w

LEMMA SendStreams ==
  ASSUME Core, Outbound, Streams, StreamInOrder, send
  PROVE  Streams' /\ StreamInOrder'
<1> DEFINE i == Min(todo)
           c == slots[i].fd
           m == out[1]
<1>1. /\ gpc = "send" /\ todo' = todo \ {i}
      /\ stream' = [stream EXCEPT ![c] = @ \o Accepted(m, c)]
      /\ gpc' = IF todo' = {} THEN "drain" ELSE "send"
      /\ UNCHANGED <<slots, taken, out>>
  BY DEF send, net
<1>2. /\ todo \in SUBSET Nat /\ todo # {} /\ todo \subseteq Slots /\ out # <<>>
      /\ stream \in [Conns -> Seq(Nat \X (0 .. Frame - 1))]
  BY <1>1, SlotAssumption DEF Streams, Slots
<1>3. i \in todo
  BY <1>2, MinNat
<1>4. m \in Nat
  BY <1>2 DEF Outbound
<1>5. slots[i].active /\ c \in Conns
  BY <1>1, <1>2, <1>3 DEF Streams, Core, Seats
<1>6. \A k \in 1 .. Len(stream[c]) : stream[c][k][1] < m
  BY <1>1, <1>3 DEF Streams
<1> DEFINE t == stream[c] \o Accepted(m, c)
<1>7. /\ t \in Seq(Nat \X (0 .. Frame - 1))
      /\ Len(t) - taken[c] \in 0 .. SendRoom
      /\ \A k \in 1 .. Len(t) : t[k][1] <= m
      /\ \A k \in 1 .. Len(t) - 1 :
           \/ t[k][1] < t[k + 1][1]
           \/ t[k][1] = t[k + 1][1] /\ t[k][2] + 1 = t[k + 1][2]
  BY <1>4, <1>5, <1>6, SendStream
<1>8. stream'[c] = t /\ \A d \in Conns : d # c => stream'[d] = stream[d]
  BY <1>1, <1>2, <1>5
<1> HIDE DEF t
<1>9. ASSUME NEW j \in todo' PROVE slots'[j].active /\ slots'[j].fd \in Conns
                                  /\ slots'[j].fd # c /\ j \in todo
  BY <1>1, <1>2, <1>3, <1>5 DEF Streams, Core, Seats
<1>10. Streams'
  <2>1. stream' \in [Conns -> Seq(Nat \X (0 .. Frame - 1))]
    <3>1. stream' = [stream EXCEPT ![c] = t]
      BY <1>1 DEF t
    <3>2. QED
      BY <1>2, <1>7, <3>1
  <2>2. \A d \in Conns : Len(stream'[d]) - taken'[d] \in 0 .. SendRoom
    BY <1>1, <1>7, <1>8 DEF Streams
  <2>3. \A d \in Conns : \A k \in 1 .. Len(stream'[d]) :
          out' # <<>> /\ stream'[d][k][1] <= out'[1]
    BY <1>1, <1>2, <1>7, <1>8 DEF Streams
  <2>4. gpc' = "send" =>
         /\ out' # <<>> /\ todo' # {}
         /\ \A j \in todo' : slots'[j].active /\
              \A k \in 1 .. Len(stream'[slots'[j].fd]) :
                stream'[slots'[j].fd][k][1] < out'[1]
    <3>1. ASSUME NEW j \in todo', NEW k \in 1 .. Len(stream'[slots'[j].fd])
          PROVE  stream'[slots'[j].fd][k][1] < out'[1]
      <4>1. stream'[slots'[j].fd] = stream[slots[j].fd] /\ j \in todo
        BY <1>1, <1>8, <1>9
      <4>2. QED
        BY <1>1, <4>1 DEF Streams
    <3>2. QED
      BY <1>1, <1>2, <1>9, <3>1
  <2>5. QED
    BY <1>1, <1>2, <2>1, <2>2, <2>3, <2>4 DEF Streams
<1>11. StreamInOrder'
  <2>1. SUFFICES ASSUME NEW d \in Conns, NEW k \in 1 .. Len(stream'[d]) - 1
                 PROVE  \/ stream'[d][k][1] < stream'[d][k + 1][1]
                        \/ /\ stream'[d][k][1] = stream'[d][k + 1][1]
                           /\ stream'[d][k][2] + 1 = stream'[d][k + 1][2]
    BY Zenon DEF StreamInOrder
  <2>2. CASE d = c
    BY <1>7, <1>8, <2>2
  <2>3. CASE d # c
    <3>1. stream'[d] = stream[d]
      BY <1>8, <2>3
    <3>2. QED
      BY <3>1 DEF StreamInOrder
  <2>4. QED
    BY <2>2, <2>3
<1>12. QED
  BY <1>10, <1>11

\* A new message goes to streams that hold older ones only.
LEMMA DrainStreams ==
  ASSUME Core, Outbound, Streams, StreamInOrder, drain_outbound
  PROVE  Streams' /\ StreamInOrder'
<1>1. UNCHANGED <<stream, taken, slots>>
  BY DEF drain_outbound, net
<1>2. StreamInOrder'
  BY <1>1 DEF StreamInOrder
<1>3. CASE outbound = <<>>
  <2>1. gpc' = "wait" /\ UNCHANGED <<out, todo>>
    BY <1>3 DEF drain_outbound
  <2>2. Streams'
    BY <1>1, <2>1 DEF Streams
  <2>3. QED
    BY <1>2, <2>2
<1>4. CASE outbound # <<>>
  <2>1. /\ out' = <<Head(outbound)>> /\ outbound' = Tail(outbound)
        /\ emitted' = emitted
        /\ todo' = {i \in Slots : slots[i].active}
        /\ gpc' = IF todo' = {} THEN "drain" ELSE "send"
    BY <1>4 DEF drain_outbound, net
  <2>2. /\ out' # <<>> /\ out'[1] \in Nat
        /\ out # <<>> => out[1] \in Nat /\ out[1] < out'[1]
    BY <1>4, <2>1, DrainOutbound
  <2>3. ASSUME NEW c \in Conns, NEW k \in 1 .. Len(stream[c])
        PROVE  stream[c][k][1] < out'[1]
    <3>1. stream[c][k][1] \in Nat
      <4>1. stream[c][k] \in Nat \X (0 .. Frame - 1)
        BY ElementOfSeq DEF Streams
      <4>2. QED
        BY <4>1
    <3>2. out # <<>> /\ stream[c][k][1] <= out[1]
      BY DEF Streams
    <3>3. QED
      BY <2>2, <3>1, <3>2
  <2>4. \A i \in todo' : slots[i].active /\ slots[i].fd \in Conns
    BY <2>1 DEF Core, Seats
  <2>5. todo' \subseteq Slots
    BY <2>1
  <2>6. \A c \in Conns : \A k \in 1 .. Len(stream[c]) : stream[c][k][1] <= out'[1]
    <3>1. SUFFICES ASSUME NEW c \in Conns, NEW k \in 1 .. Len(stream[c])
                   PROVE  stream[c][k][1] <= out'[1]
      OBVIOUS
    <3>2. stream[c][k] \in Nat \X (0 .. Frame - 1)
      BY ElementOfSeq DEF Streams
    <3>3. stream[c][k][1] \in Nat
      BY <3>2
    <3>4. QED
      BY <2>2, <2>3, <3>3
  <2>7. Streams'
    BY <1>1, <2>1, <2>2, <2>3, <2>4, <2>5, <2>6 DEF Streams
  <2>8. QED
    BY <1>2, <2>7
<1>5. QED
  BY <1>3, <1>4

\* While the gateway reads or waits, streams stay as they are.
LEMMA QuietStreams ==
  ASSUME Streams, StreamInOrder, UNCHANGED <<stream, taken, out, todo>>,
         gpc' # "send" \/ UNCHANGED <<gpc, slots>>
  PROVE  Streams' /\ StreamInOrder'
  BY DEF Streams, StreamInOrder

LEMMA ClientReadStreams ==
  ASSUME Streams, StreamInOrder, NEW c \in Conns, ClientRead(c)
  PROVE  Streams' /\ StreamInOrder'
<1>1. /\ taken[c] < Len(stream[c]) /\ taken' = [taken EXCEPT ![c] = @ + 1]
      /\ UNCHANGED <<stream, out, todo, gpc, slots>>
  BY DEF ClientRead
<1>2. taken \in [Conns -> Nat] /\ Len(stream[c]) \in Nat
  BY LenProperties DEF Streams
<1>3. /\ taken' \in [Conns -> Nat] /\ taken'[c] = taken[c] + 1
      /\ \A d \in Conns : d # c => taken'[d] = taken[d]
  BY <1>1, <1>2
<1>4. \A d \in Conns : Len(stream'[d]) - taken'[d] \in 0 .. SendRoom
  <2>1. SUFFICES ASSUME NEW d \in Conns
                 PROVE  Len(stream[d]) - taken'[d] \in 0 .. SendRoom
    BY <1>1
  <2>2. Len(stream[d]) \in Nat /\ Len(stream[d]) - taken[d] \in 0 .. SendRoom
    BY LenProperties DEF Streams
  <2>3. QED
    BY <1>1, <1>2, <1>3, <2>2, BoundAssumption
<1>5. Streams'
  BY <1>1, <1>3, <1>4 DEF Streams
<1>6. QED
  BY <1>1, <1>5 DEF StreamInOrder

LEMMA NextStreams ==
  ASSUME Core, Outbound, Streams, StreamInOrder, Next
  PROVE  Streams' /\ StreamInOrder'
<1>1. CASE send
  BY <1>1, SendStreams
<1>2. CASE drain_outbound
  BY <1>2, DrainStreams
<1>3. ASSUME NEW c \in Conns, ClientRead(c) PROVE Streams' /\ StreamInOrder'
  BY <1>3, ClientReadStreams
<1>4. CASE Environment
  <2>1. \/ \E c \in Conns : ClientRead(c)
        \/ UNCHANGED <<stream, taken, out, todo, gpc, slots>>
    BY <1>4 DEF Environment, Connect, ClientWrite, ClientClose, EngineEmit,
                EnginePop, net
  <2>2. QED
    BY <1>3, <2>1, QuietStreams
<1>5. CASE Run
  <2>1. \/ send \/ drain_outbound
        \/ UNCHANGED <<stream, taken, out, todo>> /\ gpc' # "send"
    BY <1>5 DEF Run, epoll_wait, accept_client, read_client, recv, recv_again,
                disconnect, EventDone, AfterRecv, net
  <2>2. QED
    BY <1>1, <1>2, <2>1, QuietStreams
<1>6. QED
  BY <1>4, <1>5 DEF Next

-----------------------------------------------------------------------------
LEMMA InitIInv == Init => IInv
<1> SUFFICES ASSUME Init PROVE IInv
  OBVIOUS
<1>1. Core
  BY InitCore
<1>2. Edges
  BY DEF Init, Edges, NoLostEdge
<1>3. Inbound
  BY EmptySeq DEF Init, Inbound
<1>4. Outbound
  BY EmptySeq DEF Init, Outbound
<1>5. /\ stream = [c \in Conns |-> <<>>] /\ <<>> \in Seq(Nat \X (0 .. Frame - 1))
      /\ \A c \in Conns : stream[c] = <<>> /\ Len(stream[c]) = 0
  BY EmptySeq DEF Init
<1>6. Streams
  BY <1>5, BoundAssumption DEF Init, Streams
<1>7. StreamInOrder
  BY <1>5 DEF StreamInOrder
<1>8. QED
  BY <1>1, <1>2, <1>3, <1>4, <1>6, <1>7 DEF IInv

LEMMA NextCore ==
  ASSUME Core, Next PROVE Core'
<1>1. CASE EngineEmit
  BY <1>1, QuietCore DEF EngineEmit
<1>2. CASE EnginePop
  BY <1>2, QuietCore DEF EnginePop, net
<1>3. QED
  BY <1>1, <1>2, ClientCore, RunCore DEF Next, Environment

LEMMA StutterIInv ==
  ASSUME IInv, UNCHANGED vars PROVE IInv'
<1>1. UNCHANGED <<conn, peer, sent, emitted, taken, rcvd, edge, slots, inbound,
                  outbound, stream, gpc, batch, cur, out, todo>>
  BY DEF vars, net
<1>2. Core'
  BY <1>1, QuietCore DEF IInv
<1>3. Edges'
  BY <1>1, QuietEdges DEF IInv
<1>4. Inbound'
  BY <1>1 DEF IInv, Inbound
<1>5. Outbound'
  BY <1>1 DEF IInv, Outbound
<1>6. Streams' /\ StreamInOrder'
  BY <1>1, QuietStreams DEF IInv
<1>7. QED
  BY <1>2, <1>3, <1>4, <1>5, <1>6 DEF IInv

\* IInv holds in every state.
THEOREM IInvHolds == Spec => []IInv
<1>1. IInv /\ Next => IInv'
  BY NextCore, NextEdges, NextInbound, NextOutbound, NextStreams DEF IInv
<1>2. IInv /\ UNCHANGED vars => IInv'
  BY StutterIInv
<1>3. QED
  BY <1>1, <1>2, InitIInv, PTL DEF Spec

\* The active slots are exactly the open connections, one each, and a partial
\* frame is the tail of its own client's stream (find_slot, slot_for_fd,
\* read_client, disconnect).
THEOREM SlotsAlwaysExact == Spec => []SlotsExact
<1>1. IInv => SlotsExact
  BY CoreSlotsExact DEF IInv
<1>2. QED
  BY <1>1, IInvHolds, PTL

\* Edge-triggered reading until EAGAIN loses no wake-up (run, read_client).
THEOREM NoWakeUpLost == Spec => []NoLostEdge
<1>1. IInv => NoLostEdge
  BY DEF IInv, Edges
<1>2. QED
  BY <1>1, IInvHolds, PTL

\* However recv splits the streams, the engine gets whole frames of one
\* client, in the order that client wrote them (read_client).
THEOREM FramesAlwaysWhole == Spec => []FramesWhole
<1>1. IInv => FramesWhole
  BY InboundFramesWhole DEF IInv
<1>2. QED
  BY <1>1, IInvHolds, PTL

\* A client never sees an older message after a newer one, whatever part of
\* its frames a full socket buffer drops (drain_outbound).
THEOREM StreamsAlwaysInOrder == Spec => []StreamInOrder
<1>1. IInv => StreamInOrder
  BY DEF IInv
<1>2. QED
  BY <1>1, IInvHolds, PTL

-----------------------------------------------------------------------------
(* The exchange process *)

\* Threads start and end between two messages and between two rounds of the
\* event loop; the gateway's slots are exact until its destructor closes
\* them, and before the gateway thread runs nothing is open.
XInv ==
  /\ mpc \in {"setup", "spawn", "poll", "join", "exit"}
  /\ ethread \in {"off", "check", "pop", "exited"}
  /\ gthread \in {"off", "check", "loop", "exited"}
  /\ mpc # "exit" => Core
  /\ mpc \in {"setup", "spawn"} => gthread = "off"
  /\ mpc = "setup" => ethread = "off" /\ fds = {}
  /\ gthread = "off" => \A c \in Conns : conn[c] # "open"
  /\ gthread # "loop" => gpc = "wait"
  /\ ethread # "check" => epc = "poll"
  /\ epc \in {"poll", "book", "reply", "fills"}
  /\ epc # "book" => pc = "idle"
  /\ mpc = "exit" => /\ fds = {} /\ \A c \in Conns : conn[c] # "open"
                     /\ ethread \in {"off", "exited"}
                     /\ gthread \in {"off", "exited"}

\* What the engine's steps do to its program counter and the book's.
LEMMA EngineSteps ==
  ASSUME epc \in {"poll", "book", "reply", "fills"},
         epc # "book" => pc = "idle"
  PROVE  /\ E!process \/ E!book_step \/ E!reply \/ E!emit_fill =>
              /\ epc' \in {"poll", "book", "reply", "fills"}
              /\ epc' # "book" => pc' = "idle"
<1>1. ASSUME E!Called
      PROVE  /\ epc' \in {"poll", "book", "reply", "fills"}
             /\ epc' # "book" => pc' = "idle"
  BY <1>1 DEF E!Called
<1>2. ASSUME E!process
      PROVE  /\ epc' \in {"poll", "book", "reply", "fills"}
             /\ epc' # "book" => pc' = "idle"
  <2>1. E!Called \/ (epc = "poll" /\ epc' = "poll" /\ UNCHANGED E!vars)
    BY <1>2 DEF E!process
  <2>2. QED
    BY <1>1, <2>1 DEF E!vars
<1>3. ASSUME E!book_step
      PROVE  /\ epc' \in {"poll", "book", "reply", "fills"}
             /\ epc' # "book" => pc' = "idle"
  BY <1>1, <1>3 DEF E!book_step
<1>4. ASSUME E!reply
      PROVE  /\ epc' \in {"poll", "book", "reply", "fills"}
             /\ epc' # "book" => pc' = "idle"
  <2>1. epc = "reply" /\ UNCHANGED E!vars /\ epc' \in {"fills", "poll"}
    BY <1>4 DEF E!reply, E!AfterReply
  <2>2. QED
    BY <2>1 DEF E!vars
<1>5. ASSUME E!emit_fill
      PROVE  /\ epc' \in {"poll", "book", "reply", "fills"}
             /\ epc' # "book" => pc' = "idle"
  <2>1. epc = "fills" /\ UNCHANGED E!vars /\ epc' \in {"fills", "poll"}
    BY <1>5 DEF E!emit_fill
  <2>2. QED
    BY <2>1 DEF E!vars
<1>6. QED
  BY <1>2, <1>3, <1>4, <1>5

LEMMA XInitInv == XInit => XInv
<1> SUFFICES ASSUME XInit PROVE XInv
  OBVIOUS
<1>1. Core
  BY InitCore DEF XInit
<1>2. epc = "poll" /\ pc = "idle"
  BY DEF XInit, E!EInit, E!Init
<1>3. gpc = "wait" /\ \A c \in Conns : conn[c] # "open"
  BY DEF XInit, Init
<1>4. QED
  BY <1>1, <1>2, <1>3 DEF XInit, XInv

\* Main: setup, spawn, wait, join and the destructor.
LEMMA MainInv ==
  ASSUME XInv, MainThread \/ signal_handler PROVE XInv'
<1>1. CASE Gateway_ctor \/ spawn \/ poll_running \/ signal_handler
  <2>1. /\ UNCHANGED <<conn, peer, sent, rcvd, slots, cur, gpc, epc, pc>>
        /\ mpc # "exit"
    BY <1>1 DEF Gateway_ctor, spawn, poll_running, signal_handler, vars, net,
                bookvars
  <2>2. Core'
    BY <2>1, QuietCore DEF XInv
  <2>3. CASE Gateway_ctor
    BY <2>1, <2>2, <2>3 DEF Gateway_ctor, XInv
  <2>4. CASE spawn
    BY <2>1, <2>2, <2>4 DEF spawn, XInv
  <2>5. CASE poll_running
    BY <2>1, <2>2, <2>5 DEF poll_running, XInv
  <2>6. CASE signal_handler
    BY <2>1, <2>2, <2>6 DEF signal_handler, XInv
  <2>7. QED
    BY <1>1, <2>3, <2>4, <2>5, <2>6
<1>2. CASE finish
  <2>1. /\ mpc = "join" /\ mpc' = "exit" /\ fds' = {}
        /\ ethread = "exited" /\ gthread = "exited"
        /\ UNCHANGED <<gpc, epc, pc, ethread, gthread>>
        /\ conn' = [c \in Conns |->
                      IF \E i \in Slots : slots[i].active /\ slots[i].fd = c
                        THEN "closed" ELSE conn[c]]
    BY <1>2 DEF finish, Joined, bookvars
  <2>2. ASSUME NEW c \in Conns PROVE conn'[c] # "open"
    <3>1. conn[c] = "open" => \E i \in Slots : slots[i].active /\ slots[i].fd = c
      BY <2>1 DEF XInv, Core, Seats, Seat
    <3>2. QED
      BY <2>1, <3>1
  <2>3. QED
    BY <2>1, <2>2 DEF XInv
<1>3. QED
  BY <1>1, <1>2 DEF MainThread

LEMMA EngineThreadInv ==
  ASSUME XInv, EngineThread PROVE XInv'
<1>1. /\ UNCHANGED <<conn, peer, sent, rcvd, slots, cur, gpc, mpc, gthread, fds>>
      /\ ethread \in {"check", "pop"}
  BY DEF EngineThread, engine_check, engine_pop, engine_work, vars, net, procvars
<1>2. mpc # "exit" /\ Core'
  <2>1. mpc # "exit"
    BY <1>1 DEF XInv
  <2>2. QED
    BY <1>1, <2>1, QuietCore DEF XInv
<1>3. /\ epc' \in {"poll", "book", "reply", "fills"}
      /\ epc' # "book" => pc' = "idle"
      /\ ethread' \in {"check", "pop", "exited"}
      /\ ethread' # "check" => epc' = "poll"
  <2>1. CASE engine_check
    BY <2>1 DEF engine_check, bookvars, XInv
  <2>2. CASE engine_pop
    <3>1. ethread' = "check" /\ (E!process \/ UNCHANGED bookvars)
      BY <2>2 DEF engine_pop
    <3>2. QED
      BY <3>1, EngineSteps DEF XInv, bookvars
  <2>3. CASE engine_work
    <3>1. /\ ethread = "check" /\ ethread' = ethread
          /\ E!book_step \/ E!reply \/ E!emit_fill
      BY <2>3 DEF engine_work, procvars
    <3>2. QED
      BY <3>1, EngineSteps DEF XInv
  <2>4. QED
    BY <2>1, <2>2, <2>3 DEF EngineThread
<1>4. QED
  BY <1>1, <1>2, <1>3 DEF XInv

LEMMA GatewayThreadInv ==
  ASSUME XInv, GatewayThread PROVE XInv'
<1>1. CASE gateway_check
  <2>1. /\ UNCHANGED <<conn, peer, sent, rcvd, slots, cur, gpc, epc, pc,
                       mpc, ethread, fds>>
        /\ gthread = "check" /\ gthread' \in {"loop", "exited"}
    BY <1>1 DEF gateway_check, vars, net, bookvars
  <2>2. mpc # "exit" /\ Core'
    BY <2>1, QuietCore DEF XInv
  <2>3. QED
    BY <2>1, <2>2 DEF XInv
<1>2. CASE gateway_step
  <2>1. /\ Run /\ gthread = "loop"
        /\ gthread' = IF gpc' = "wait" THEN "check" ELSE "loop"
        /\ UNCHANGED <<epc, pc, mpc, ethread, fds>>
    BY <1>2 DEF gateway_step, bookvars
  <2>2. mpc # "exit" /\ Core'
    BY <2>1, RunCore DEF XInv
  <2>3. QED
    BY <2>1, <2>2 DEF XInv
<1>3. QED
  BY <1>1, <1>2 DEF GatewayThread

LEMMA ClientInv ==
  ASSUME XInv, Client PROVE XInv'
<1>1. PICK c \in Conns : Connect(c) \/ ClientWrite(c) \/ ClientClose(c, "fin")
  BY DEF Client
<1>2. UNCHANGED <<epc, pc, mpc, ethread, gthread, fds, gpc>> /\ fds # {}
  BY <1>1 DEF Client, bookvars, procvars, Connect, ClientWrite, ClientClose
<1>3. mpc # "exit" /\ Core
  BY <1>2 DEF XInv
<1>4. Core'
  BY <1>1, <1>3, ClientCore
<1>5. \A d \in Conns : conn'[d] = "open" => conn[d] = "open"
  <2>1. conn' = conn \/ conn' = [conn EXCEPT ![c] = "backlog"]
    BY <1>1 DEF Connect, ClientWrite, ClientClose
  <2>2. conn \in [Conns -> {"new", "backlog", "open", "closed"}]
    BY <1>3 DEF Core, CoreType
  <2>3. QED
    BY <2>1, <2>2
<1>6. QED
  BY <1>2, <1>3, <1>4, <1>5 DEF XInv

LEMMA XStutterInv ==
  ASSUME XInv, UNCHANGED xvars PROVE XInv'
<1>1. UNCHANGED <<conn, peer, sent, rcvd, slots, cur, gpc, epc, pc, mpc,
                  ethread, gthread, fds>>
  BY DEF xvars, vars, net, bookvars, procvars
<1>2. mpc # "exit" => Core'
  BY <1>1, QuietCore DEF XInv
<1>3. QED
  BY <1>1, <1>2 DEF XInv

\* When main returns, both threads are over, each between two messages or
\* rounds, every connection is closed and no fd is left (main.cpp).
THEOREM ShutdownAlwaysClean == XSpec => []ShutdownClean
<1>1. XInv /\ XNext => XInv'
  BY MainInv, EngineThreadInv, GatewayThreadInv, ClientInv DEF XNext
<1>2. XInv /\ UNCHANGED xvars => XInv'
  BY XStutterInv
<1>3. XInv => ShutdownClean
  BY DEF XInv, ShutdownClean
<1>4. QED
  BY <1>1, <1>2, <1>3, XInitInv, PTL DEF XSpec
=============================================================================
