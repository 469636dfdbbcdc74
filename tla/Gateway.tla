------------------------------- MODULE Gateway -------------------------------
(***************************************************************************)
(* src/transport/socket_transport.h: the gateway thread, its client slots  *)
(* and the two byte streams of every connection, with the kernel's side of *)
(* epoll (edge-triggered for clients, level-triggered for the listener),   *)
(* recv and send as the code uses them.                                    *)
(*                                                                         *)
(* A wire frame is Frame units long (32 bytes in the code); unit k of a    *)
(* client's stream belongs to that client's frame k \div Frame.  recv may  *)
(* return any part of what has arrived, a client may write and close at    *)
(* any moment, and a non-blocking send takes only what fits the socket     *)
(* buffer.  A connection stands for its fd: an event names an fd at most   *)
(* once per epoll_wait, and only the event's own fd is closed.             *)
(***************************************************************************)
EXTENDS Integers, Sequences, FiniteSets, SequencesExt

CONSTANTS Conns,        \* connections, each made at most once
          NoConn,       \* fd = -1
          MAX_CLIENTS,  \* slots
          Frame,        \* units per wire frame
          RING_SIZE,    \* capacity of both rings
          SendRoom,     \* units the kernel buffers towards a client
          MaxSent,      \* bound: units the clients send, all together
          MaxOut        \* bound: messages the engine emits

Listener == "listen_fd"

ASSUME FrameAssumption == Frame \in Nat \ {0}
ASSUME SlotAssumption == MAX_CLIENTS \in Nat \ {0}
\* An fd is the listener's, a client's or none.
ASSUME ConnAssumption == NoConn \notin Conns /\ Listener \notin Conns
ASSUME RingAssumption == RING_SIZE \in Nat \ {0}
ASSUME BoundAssumption == SendRoom \in Nat /\ MaxSent \in Nat /\ MaxOut \in Nat

VARIABLES conn,      \* "new", "backlog", "open", "closed" on our side
          peer,      \* the client's end: "up", "fin" (closed), "rst" (reset)
          sent,      \* units the client has written
          rcvd,      \* units recv has returned to the gateway
          edge,      \* an epoll event is due for this fd
          slots,     \* clients_
          inbound,   \* the inbound ring: the assembled frames
          outbound,  \* the outbound ring: message numbers
          emitted,   \* messages the engine has emitted
          stream,    \* units send has accepted for each client, ever
          taken,     \* units the client has read of its stream
          gpc,       \* "wait", "batch", "read", "drain", "send"
          batch,     \* events of this round still to be handled
          cur,       \* slot being read
          out,       \* the message drain_outbound has popped last, if any
          todo       \* slots it still goes to

net == <<conn, peer, sent, emitted, taken>>
vars == <<net, rcvd, edge, slots, inbound, outbound, stream, gpc, batch, cur,
          out, todo>>

Slots == 0 .. MAX_CLIENTS - 1
Empty == [fd |-> NoConn, active |-> FALSE, read_pos |-> 0,
          read_buf |-> [i \in 0 .. Frame - 1 |-> <<NoConn, 0>>]]

Init == /\ conn = [c \in Conns |-> "new"] /\ peer = [c \in Conns |-> "up"]
        /\ sent = [c \in Conns |-> 0] /\ rcvd = [c \in Conns |-> 0]
        /\ edge = [c \in Conns |-> FALSE]
        /\ slots = [i \in Slots |-> Empty]
        /\ inbound = <<>> /\ outbound = <<>> /\ emitted = 0
        /\ stream = [c \in Conns |-> <<>>] /\ taken = [c \in Conns |-> 0]
        /\ gpc = "wait" /\ batch = {} /\ cur = 0
        /\ out = <<>> /\ todo = {}

Push(ring, m) == IF Len(ring) < RING_SIZE THEN Append(ring, m) ELSE ring

-----------------------------------------------------------------------------
(* The clients, the kernel and the engine *)

Connect(c) ==
  /\ conn[c] = "new"
  /\ conn' = [conn EXCEPT ![c] = "backlog"]
  /\ UNCHANGED <<peer, sent, emitted, taken, rcvd, edge, slots, inbound,
                 outbound, stream, gpc, batch, cur, out, todo>>

\* New data, or the end of the stream, raises the edge of a registered fd.
Raise(c) == edge' = [edge EXCEPT ![c] = conn[c] = "open"]

TotalSent == MapThenSumSet(LAMBDA d : sent[d], Conns)

ClientWrite(c) ==
  /\ conn[c] # "new" /\ peer[c] = "up"
  /\ TotalSent < MaxSent
  /\ sent' = [sent EXCEPT ![c] = @ + 1]
  /\ Raise(c)
  /\ UNCHANGED <<conn, peer, emitted, taken, rcvd, slots, inbound, outbound,
                 stream, gpc, batch, cur, out, todo>>

\* A client closes or resets; a closed end resets when we still send to it.
ClientClose(c, how) ==
  /\ conn[c] # "new"
  /\ peer[c] = "up" \/ (peer[c] = "fin" /\ how = "rst")
  /\ peer' = [peer EXCEPT ![c] = how]
  /\ Raise(c)
  /\ UNCHANGED <<conn, sent, emitted, taken, rcvd, slots, inbound, outbound,
                 stream, gpc, batch, cur, out, todo>>

ClientRead(c) ==
  /\ taken[c] < Len(stream[c])
  /\ taken' = [taken EXCEPT ![c] = @ + 1]
  /\ UNCHANGED <<conn, peer, sent, emitted, rcvd, edge, slots, inbound,
                 outbound, stream, gpc, batch, cur, out, todo>>

EngineEmit ==
  /\ emitted < MaxOut
  /\ emitted' = emitted + 1
  /\ outbound' = Push(outbound, emitted)
  /\ UNCHANGED <<conn, peer, sent, taken, rcvd, edge, slots, inbound, stream,
                 gpc, batch, cur, out, todo>>

EnginePop ==
  /\ inbound # <<>>
  /\ inbound' = Tail(inbound)
  /\ UNCHANGED <<net, rcvd, edge, slots, outbound, stream, gpc, batch, cur,
                 out, todo>>

-----------------------------------------------------------------------------
(* Gateway::run *)

\* epoll_wait: every event that is due, possibly none (the 1 ms timeout).
epoll_wait ==
  /\ gpc = "wait"
  /\ batch' = {c \in Conns : edge[c]} \cup
              {l \in {Listener} : \E c \in Conns : conn[c] = "backlog"}
  /\ edge' = [c \in Conns |-> FALSE]
  /\ gpc' = IF batch' = {} THEN "drain" ELSE "batch"
  /\ UNCHANGED <<net, rcvd, slots, inbound, outbound, stream, cur, out, todo>>

\* One event is done: the next one, or drain_outbound.
EventDone(b) == /\ batch' = b
                /\ gpc' = IF b = {} THEN "drain" ELSE "batch"

\* Variant of Seated that keeps the position of the slot's last client.
SeatedStale(s, c) == [s EXCEPT !.fd = c, !.active = TRUE]

\* A slot taken by connection c; read_buf keeps what it held.
Seated(s, c) == [s EXCEPT !.fd = c, !.active = TRUE, !.read_pos = 0]

\* accept_client: one connection of the backlog.  It is closed when no slot is
\* free; accept fails when the client has reset it.  Registering an fd that is
\* already readable raises its edge.
accept_client(c) ==
  LET free == {i \in Slots : ~slots[i].active}
  IN  /\ gpc = "batch" /\ Listener \in batch
      /\ conn[c] = "backlog"
      /\ \/ /\ free = {} \/ peer[c] = "rst"
            /\ conn' = [conn EXCEPT ![c] = "closed"]
            /\ UNCHANGED <<slots, edge>>
         \/ /\ free # {}
            /\ conn' = [conn EXCEPT ![c] = "open"]
            /\ slots' = [slots EXCEPT ![Min(free)] = Seated(@, c)]
            /\ edge' = [edge EXCEPT ![c] = sent[c] > 0 \/ peer[c] # "up"]
      /\ EventDone(batch \ {Listener})
      /\ UNCHANGED <<peer, sent, emitted, taken, rcvd, inbound, outbound,
                     stream, cur, out, todo>>

\* read_client up to its loop: slot_for_fd.
read_client(c) ==
  LET mine == {i \in Slots : slots[i].active /\ slots[i].fd = c}
  IN  /\ gpc = "batch" /\ c \in batch
      /\ IF mine = {}
           THEN EventDone(batch \ {c}) /\ UNCHANGED cur
           ELSE gpc' = "read" /\ cur' = Min(mine) /\ batch' = batch \ {c}
      /\ UNCHANGED <<net, rcvd, edge, slots, inbound, outbound, stream, out,
                     todo>>

\* Variant of Complete that is one unit late.
CompleteLate(pos) == pos > Frame

\* read_pos >= WIRE_MSG_SIZE.
Complete(pos) == pos >= Frame

\* Variant of AfterRecv that returns to run after every complete frame.
AfterRecvReturns(done) == IF done THEN EventDone(batch)
                                  ELSE UNCHANGED <<gpc, batch>>

\* The loop of read_client goes on, whether or not a frame is done.
AfterRecv(done) == UNCHANGED <<gpc, batch>>

\* read_buf of slot s with n more units of its client's stream in it.
Received(s, n) ==
  [i \in 0 .. Frame - 1 |->
     IF i \in s.read_pos .. s.read_pos + n - 1
       THEN <<s.fd, rcvd[s.fd] + i - s.read_pos>> ELSE s.read_buf[i]]

\* recv returns n > 0 units; a complete frame is decoded and pushed.
recv(n) ==
  LET s == slots[cur]
      c == s.fd
      pos == s.read_pos + n
      buf == Received(s, n)
  IN  /\ gpc = "read"
      /\ n \in 1 .. Frame - s.read_pos /\ n <= sent[c] - rcvd[c]
      /\ rcvd' = [rcvd EXCEPT ![c] = @ + n]
      /\ slots' = [slots EXCEPT ![cur].read_buf = buf,
                                ![cur].read_pos = IF Complete(pos) THEN 0
                                                                   ELSE pos]
      /\ inbound' = IF Complete(pos) THEN Push(inbound, buf) ELSE inbound
      /\ AfterRecv(Complete(pos))
      /\ UNCHANGED <<net, edge, outbound, stream, cur, out, todo>>

\* Variant of HungUp that takes the end of the stream for "nothing yet".
HungUpReset(c) == peer[c] = "rst"

\* recv returns 0 or an error: the client has reset the connection, or has
\* closed it and everything it sent is read.
HungUp(c) == peer[c] = "rst" \/ (peer[c] = "fin" /\ sent[c] = rcvd[c])

\* recv returns EAGAIN: everything that has arrived is read.
recv_again ==
  LET c == slots[cur].fd
  IN  /\ gpc = "read"
      /\ sent[c] = rcvd[c] /\ ~HungUp(c)
      /\ EventDone(batch)
      /\ UNCHANGED <<net, rcvd, edge, slots, inbound, outbound, stream, cur,
                     out, todo>>

\* Variant of Vacated that leaves the slot marked active.
VacatedActive(s) == [s EXCEPT !.fd = NoConn]

\* A slot given back: read_pos and read_buf keep what they held.
Vacated(s) == [s EXCEPT !.fd = NoConn, !.active = FALSE]

\* disconnect.  A reset may lose unread data.
disconnect ==
  LET c == slots[cur].fd
  IN  /\ gpc = "read" /\ HungUp(c)
      /\ conn' = [conn EXCEPT ![c] = "closed"]
      /\ edge' = [edge EXCEPT ![c] = FALSE]
      /\ slots' = [slots EXCEPT ![cur] = Vacated(@)]
      /\ EventDone(batch)
      /\ UNCHANGED <<peer, sent, emitted, taken, rcvd, inbound, outbound,
                     stream, cur, out, todo>>

\* drain_outbound: pop the next message, or go back to epoll_wait.
drain_outbound ==
  /\ gpc = "drain"
  /\ IF outbound = <<>>
       THEN gpc' = "wait" /\ UNCHANGED <<outbound, out, todo>>
       ELSE /\ out' = <<Head(outbound)>> /\ outbound' = Tail(outbound)
            /\ todo' = {i \in Slots : slots[i].active}
            /\ gpc' = IF todo' = {} THEN "drain" ELSE "send"
  /\ UNCHANGED <<net, rcvd, edge, slots, inbound, stream, batch, cur>>

\* The units of message m that send accepts for connection c.
Accepted(m, c) ==
  LET room == SendRoom - (Len(stream[c]) - taken[c])
      n == IF peer[c] # "up" THEN 0 ELSE IF room < Frame THEN room ELSE Frame
  IN  [k \in 1 .. n |-> <<m, k - 1>>]

\* Variant of send that repeats the frame after a short write.
send_again ==
  /\ gpc = "send"
  /\ LET i == Min(todo)
         c == slots[i].fd
         w == Accepted(out[1], c)
     IN  /\ stream' = [stream EXCEPT ![c] = @ \o w]
         /\ todo' = IF peer[c] = "up" /\ Len(w) < Frame THEN todo ELSE todo \ {i}
  /\ gpc' = IF todo' = {} THEN "drain" ELSE "send"
  /\ UNCHANGED <<net, rcvd, edge, slots, inbound, outbound, batch, cur, out>>

\* send to the next active slot; its result is ignored.
send ==
  /\ gpc = "send"
  /\ LET i == Min(todo)
         c == slots[i].fd
     IN  /\ stream' = [stream EXCEPT ![c] = @ \o Accepted(out[1], c)]
         /\ todo' = todo \ {i}
  /\ gpc' = IF todo' = {} THEN "drain" ELSE "send"
  /\ UNCHANGED <<net, rcvd, edge, slots, inbound, outbound, batch, cur, out>>

-----------------------------------------------------------------------------
Environment == \/ \E c \in Conns : \/ Connect(c) \/ ClientWrite(c)
                                   \/ ClientRead(c)
                                   \/ \E how \in {"fin", "rst"} :
                                        ClientClose(c, how)
               \/ EngineEmit \/ EnginePop

Run == \/ epoll_wait
       \/ \E c \in Conns : accept_client(c) \/ read_client(c)
       \/ \E n \in 1 .. Frame : recv(n)
       \/ recv_again \/ disconnect
       \/ drain_outbound \/ send

Next == Environment \/ Run

Spec == Init /\ [][Next]_vars

-----------------------------------------------------------------------------
(* Properties *)

Unit == (Conns \cup {NoConn}) \X Nat

\* Every variable has its type: in particular read_pos never reaches the end
\* of read_buf, where recv would be asked for nothing and look like a close.
TypeOK ==
  /\ conn \in [Conns -> {"new", "backlog", "open", "closed"}]
  /\ peer \in [Conns -> {"up", "fin", "rst"}]
  /\ sent \in [Conns -> Nat] /\ rcvd \in [Conns -> Nat]
  /\ edge \in [Conns -> BOOLEAN]
  /\ slots \in [Slots -> [fd : Conns \cup {NoConn}, active : BOOLEAN,
                          read_pos : 0 .. Frame - 1,
                          read_buf : [0 .. Frame - 1 -> Unit]]]
  /\ inbound \in Seq([0 .. Frame - 1 -> Unit]) /\ Len(inbound) <= RING_SIZE
  /\ outbound \in Seq(Nat) /\ Len(outbound) <= RING_SIZE
  /\ emitted \in 0 .. MaxOut
  /\ stream \in [Conns -> Seq(Nat \X (0 .. Frame - 1))]
  /\ taken \in [Conns -> Nat]
  /\ \A c \in Conns : Len(stream[c]) - taken[c] \in 0 .. SendRoom
  /\ gpc \in {"wait", "batch", "read", "drain", "send"}
  /\ batch \subseteq Conns \cup {Listener}
  /\ cur \in Slots /\ out \in Seq(Nat) /\ todo \subseteq Slots

\* Frame f of connection c, as the client wrote it.
Written(c, f) == [k \in 0 .. Frame - 1 |-> <<c, f * Frame + k>>]

\* However recv splits the streams, and however connections come and go over
\* the slots, the engine is handed exactly frames that one client has
\* written whole, and those of one client in the order it wrote them
\* (read_client, accept_client).
FramesWhole ==
  /\ \A i \in DOMAIN inbound : \E c \in Conns :
       \E f \in 0 .. (sent[c] \div Frame) - 1 : inbound[i] = Written(c, f)
  /\ \A i, j \in DOMAIN inbound :
       i < j /\ inbound[i][0][1] = inbound[j][0][1]
         => inbound[i][0][2] < inbound[j][0][2]

\* The slots are exactly the open connections: find_slot, slot_for_fd and
\* disconnect never leave a connection without its slot, in two slots, or a
\* slot behind, and a slot's partial frame is the tail of its own stream.
SlotsExact ==
  /\ \A c \in Conns :
       Cardinality({i \in Slots : slots[i].active /\ slots[i].fd = c})
         = IF conn[c] = "open" THEN 1 ELSE 0
  /\ \A i \in Slots : slots[i].active =>
       LET c == slots[i].fd
       IN  /\ c # NoConn
           /\ slots[i].read_pos = rcvd[c] % Frame
           /\ \A k \in 0 .. slots[i].read_pos - 1 :
                slots[i].read_buf[k]
                  = <<c, rcvd[c] - slots[i].read_pos + k>>

\* No wake-up is lost: whenever an open connection has something to read, or
\* is closed by its client, the gateway is reading it or an event for it is
\* still to come.  Edge-triggered epoll reports nothing twice, so this rests
\* on read_client reading until EAGAIN.
NoLostEdge ==
  \A c \in Conns :
    conn[c] = "open" /\ (rcvd[c] < sent[c] \/ peer[c] # "up")
      => edge[c] \/ c \in batch \/ (gpc = "read" /\ slots[cur].fd = c)

\* A client never sees an older message after a newer one, nor a part of a
\* message twice, whatever part of its frames a full socket buffer drops.
StreamInOrder ==
  \A c \in Conns : \A i \in 1 .. Len(stream[c]) - 1 :
    LET a == stream[c][i]
        b == stream[c][i + 1]
    IN  a[1] < b[1] \/ (a[1] = b[1] /\ a[2] + 1 = b[2])

\* What sbe_messages.h says of the wire: the gateway writes exact frames, so
\* that a client can cut its stream into frames without a length prefix.
StreamFramed ==
  \A c \in Conns : \A i \in DOMAIN stream[c] :
    stream[c][i][2] = (i - 1) % Frame
=============================================================================
