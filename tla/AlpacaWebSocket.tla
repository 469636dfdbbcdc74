-------------------------- MODULE AlpacaWebSocket --------------------------
(***************************************************************************)
(* src/feed/alpaca_ws.cpp: the WebSocket client, byte by byte on the       *)
(* receiving side, with TLS and the market data server as it uses them.    *)
(*                                                                         *)
(* A byte is a tuple tagged with what it is: <<"http", s>> of the upgrade  *)
(* response, <<"op", o>> and <<"len", masked, n>> of a frame's first two   *)
(* bytes, <<"digit", d>> of a longer length, <<"mask">>, and <<"data", i,  *)
(* k>>, byte k of the payload of the server's i-th frame.  The numbers     *)
(* RFC 6455 fixes are parameters, so that small frames use all three forms *)
(* of a length: Mark is 126, a digit is below Base = 256, the longer forms *)
(* have Mid = 2 and Wide = 8 digits, a mask has MaskLen = 4 bytes.  What a *)
(* payload says is the message of the server's frame it came from.         *)
(***************************************************************************)
EXTENDS Integers, Sequences, SequencesExt, Numerals

CONSTANTS Mark, Base, Mid, Wide, MaskLen,
          MaxAwait,      \* frames await looks at: 10
          ServerFrames,  \* what the server may send: [op, masked, msg, len]
          MaxFrames,     \* bound: frames the server sends
          Window         \* bound: bytes it has under way

ASSUME WireAssumption == 
  {Mark, Mid, Wide, MaskLen, MaxAwait} \subseteq Nat \ {0} /\ Mid < Wide
ASSUME BaseAssumption == Base \in Nat \ {0, 1} /\ Mark <= Power(Base, Mid)
ASSUME LimitAssumption == MaxFrames \in Nat /\ Window \in Nat

\* A length can be written, and a text is never empty.  A server does not mask;
\* read_frame skips a mask without undoing it, so the payload of a masked frame
\* is kept as sent only where nothing looks at it.
ASSUME FrameAssumption ==
  \A f \in ServerFrames :
    /\ f.op \in {"text", "binary", "ping", "pong", "close", "other"}
    /\ f.masked \in BOOLEAN
    /\ f.len \in 0 .. Power(Base, Wide) - 1
    /\ f.op \in {"text", "binary"} => f.len > 0
    /\ f.masked => f.op \notin {"text", "binary", "ping"}

VARIABLES srv,     \* the server: "down", "asked", "up", "gone"
          script,  \* the frames it has sent
          wire,    \* its bytes that SSL_read has not returned
          rx,      \* rx_
          tx,      \* the frames send_frame has written, as bytes
          held,    \* which of fd_, ctx_ and ssl_ are set
          call,    \* the call in progress: "none", "connect", "authenticate",
                   \* "subscribe" or "read_frame"
          left,    \* frames await still looks at
          ret,     \* what the last call returned
          got,     \* out, the frame the last read_frame returned
          nread    \* frames taken off rx_

wsvars == <<srv, script, wire, rx, tx, held, call, left, ret, got, nread>>

WsInit == /\ srv = "down" /\ script = <<>> /\ wire = <<>>
          /\ rx = <<>> /\ tx = <<>> /\ held = {}
          /\ call = "none" /\ left = 0 /\ ret = TRUE /\ got = <<>> /\ nread = 0

-----------------------------------------------------------------------------
(* Frames as bytes *)

\* Digits of the extended length.
Digits(n) == IF n < Mark THEN 0 ELSE IF n < Power(Base, Mid) THEN Mid ELSE Wide

\* The length bytes of a payload of n bytes.
Length(masked, n) ==
  LET d == Digits(n)
  IN  <<<<"len", masked, CASE d = 0 -> n [] d = Mid -> Mark
                           [] OTHER -> Mark + 1>>>>
        \o [k \in 1 .. d |-> <<"digit", (n \div Power(Base, d - k)) % Base>>]

Mask == [k \in 1 .. MaskLen |-> <<"mask">>]

\* Variant of Masked that uses one mask byte for all.
MaskedOnce(payload) == [k \in DOMAIN payload |-> <<"xor", 0, payload[k]>>]

\* A masked payload: every byte combined with the mask byte of its turn.
Masked(payload) ==
  [k \in DOMAIN payload |-> <<"xor", (k - 1) % MaskLen, payload[k]>>]

\* A frame: header and payload.
Framed(op, masked, payload) ==
  <<<<"op", op>>>> \o Length(masked, Len(payload))
    \o (IF masked THEN Mask ELSE <<>>) \o payload

\* The bytes send_frame writes.
ClientFrame(op, payload) == Framed(op, TRUE, Masked(payload))

\* The digits announced by a frame's second byte.
Extended(b1) ==
  IF b1[3] = Mark THEN Mid ELSE IF b1[3] = Mark + 1 THEN Wide ELSE 0

\* Where the payload starts and ends, once the length has been read.
Header(bytes) ==
  LET ext == Extended(bytes[2])
      len == IF ext = 0 THEN bytes[2][3]
             ELSE Numeral([k \in 1 .. ext |-> bytes[2 + k][2]], Base, ext)
      hdr == 2 + ext + IF bytes[2][2] THEN MaskLen ELSE 0
  IN  [hdr |-> hdr, end |-> hdr + len]

\* The argument of the read_exact that read_frame is in.
Needed(bytes) ==
  IF Len(bytes) < 2 THEN 2
  ELSE IF Len(bytes) < 2 + Extended(bytes[2]) THEN 2 + Extended(bytes[2])
  ELSE Header(bytes).end

\* The server's side: its i-th frame as bytes, and how it reads one of ours.
Payload(f, i) == [k \in 1 .. f.len |-> <<"data", i, k>>]
ServerFrame(f, i) == Framed(f.op, f.masked, Payload(f, i))

Decoded(bytes) ==
  LET h == Header(bytes)
      unmask(k) == IF bytes[h.hdr + k][2] = (k - 1) % MaskLen
                     THEN bytes[h.hdr + k][3] ELSE <<"garbled">>
  IN  [op |-> bytes[1][2], payload |-> [k \in 1 .. h.end - h.hdr |-> unmask(k)]]

-----------------------------------------------------------------------------
(* The server *)

Asked(what) == \E i \in DOMAIN tx :
                 Decoded(tx[i]) = [op |-> "text", payload |-> <<what>>]

Sent(msg) == \E i \in DOMAIN script : script[i].msg = msg

\* It answers what it was asked, once, and streams what was subscribed to;
\* the greeting, pings and unknown frames come unasked.
MaySend(msg) ==
  CASE msg = "greeting" -> script = <<>>
    [] msg = "authenticated" -> Asked(<<"auth">>) /\ ~Sent(msg) /\ ~Sent("error")
    [] msg = "subscription" -> Asked(<<"subscribe">>) /\ ~Sent(msg)
                                 /\ ~Sent("error")
    [] msg = "error" -> tx # <<>> /\ ~Sent(msg) /\ ~Sent("subscription")
    [] msg = "data" -> Sent("subscription")
    [] OTHER -> TRUE

\* The response to the upgrade request.
Response(status) == <<<<"http", status>>, <<"http", "header">>, <<"http", "end">>>>

Respond(status) ==
  /\ srv = "asked"
  /\ srv' = "up"
  /\ wire' = Response(status)
  /\ UNCHANGED <<script, rx, tx, held, call, left, ret, got, nread>>

Serve(f) ==
  /\ srv = "up" /\ Len(script) < MaxFrames
  /\ MaySend(f.msg)
  /\ script' = Append(script, f)
  /\ wire' = wire \o ServerFrame(f, Len(script) + 1)
  /\ Len(wire') <= Window
  /\ UNCHANGED <<srv, rx, tx, held, call, left, ret, got, nread>>

\* The connection ends; what SSL_read has not returned yet may be lost.
Drop == /\ srv \in {"asked", "up"}
        /\ srv' = "gone"
        /\ wire' \in {wire, <<>>}
        /\ UNCHANGED <<script, rx, tx, held, call, left, ret, got, nread>>

-----------------------------------------------------------------------------
(* The client *)

\* A send_frame that succeeds.  It may fail at any time, for want of random
\* bytes or of a connection, and may succeed after the server has gone.
send_frame(op, payload) == tx' = Append(tx, ClientFrame(op, payload))

Return(value) == call' = "none" /\ ret' = value

\* connect up to the upgrade request: tls_connect may fail at every stage,
\* leaving what it had opened to close.
connect ==
  /\ call = "none"
  /\ \/ /\ held' \in {{}, {"fd"}, {"fd", "ctx"}, {"fd", "ctx", "ssl"}}
        /\ Return(FALSE)
        /\ UNCHANGED srv
     \/ /\ held' = {"fd", "ctx", "ssl"}
        /\ srv' = "asked"
        /\ call' = "connect"
        /\ UNCHANGED ret
  /\ UNCHANGED <<script, wire, rx, tx, left, got, nread>>

\* send_text, then await.
Request(what, name) ==
  /\ call = "none"
  /\ \/ /\ send_frame("text", <<<<what>>>>)
        /\ call' = name /\ left' = MaxAwait
        /\ UNCHANGED ret
     \/ Return(FALSE) /\ UNCHANGED <<tx, left>>
  /\ UNCHANGED <<srv, script, wire, rx, held, got, nread>>

authenticate == Request("auth", "authenticate")
subscribe == Request("subscribe", "subscribe")

read_frame == /\ call = "none"
              /\ call' = "read_frame"
              /\ UNCHANGED <<srv, script, wire, rx, tx, held, left, ret, got,
                             nread>>

HeaderEnd == SelectInSeq(rx, LAMBDA b : b[1] = "http" /\ b[2] = "end")

\* The loops around SSL_read: until the end of the header block in
\* http_upgrade, until the bytes asked for in read_exact.
Wanting == IF call = "connect" THEN HeaderEnd = 0
           ELSE call # "none" /\ Len(rx) < Needed(rx)

SSL_read ==
  /\ Wanting
  /\ \/ \E n \in 1 .. Len(wire) :
          /\ rx' = rx \o SubSeq(wire, 1, n)
          /\ wire' = SubSeq(wire, n + 1, Len(wire))
          /\ UNCHANGED <<call, ret>>
     \/ /\ srv = "gone" /\ wire = <<>>
        /\ Return(FALSE)
        /\ UNCHANGED <<rx, wire>>
  /\ UNCHANGED <<srv, script, tx, held, left, got, nread>>

\* Variant of CarryOver that starts afresh after the upgrade.
CarryNothing == <<>>

\* The frame bytes that arrived with the header block.
CarryOver == SubSeq(rx, HeaderEnd + 1, Len(rx))

\* The end of http_upgrade.
http_upgrade ==
  /\ call = "connect" /\ HeaderEnd # 0
  /\ IF rx[1][2] = "101" THEN rx' = CarryOver /\ Return(TRUE)
                         ELSE Return(FALSE) /\ UNCHANGED rx
  /\ UNCHANGED <<srv, script, wire, tx, held, left, got, nread>>

\* What the text of a payload says.
Message(payload) == script[payload[1][2]].msg

Marker == IF call = "authenticate" THEN "authenticated" ELSE "subscription"

\* A text or binary frame: to the caller of read_frame, or one turn of await.
Deliver(payload) ==
  IF call = "read_frame" THEN Return(TRUE) /\ got' = payload /\ UNCHANGED left
  ELSE /\ left' = left - 1
       /\ CASE Message(payload) = Marker -> Return(TRUE)
            [] Message(payload) = "error" \/ left = 1 -> Return(FALSE)
            [] OTHER -> UNCHANGED <<call, ret>>
       /\ UNCHANGED got

\* Variant of Answer that leaves pings to the caller.
AnswerNot(payload) == UNCHANGED <<tx, call, ret>>

\* A ping: its payload goes back.
Answer(payload) ==
  \/ send_frame("pong", payload) /\ UNCHANGED <<call, ret>>
  \/ Return(FALSE) /\ UNCHANGED tx

\* One whole frame of read_frame's loop.
take_frame ==
  /\ call \in {"authenticate", "subscribe", "read_frame"}
  /\ Len(rx) >= Needed(rx)
  /\ LET h == Header(rx)
         op == rx[1][2]
         payload == SubSeq(rx, h.hdr + 1, h.end)
     IN  /\ rx' = SubSeq(rx, h.end + 1, Len(rx))
         /\ nread' = nread + 1
         /\ \/ /\ op \in {"text", "binary"}
               /\ Deliver(payload) /\ UNCHANGED tx
            \/ /\ op = "ping"
               /\ Answer(payload) /\ UNCHANGED <<left, got>>
            \/ /\ op \in {"pong", "other"}
               /\ UNCHANGED <<tx, call, ret, left, got>>
            \/ /\ op = "close"
               /\ Return(FALSE) /\ UNCHANGED <<tx, left, got>>
  /\ UNCHANGED <<srv, script, wire, held>>

\* close, and the destructor: a close frame when there is a TLS session.
close ==
  /\ call = "none"
  /\ \/ "ssl" \in held /\ send_frame("close", <<>>)
     \/ UNCHANGED tx
  /\ held' = {}
  /\ UNCHANGED <<srv, script, wire, rx, call, left, ret, got, nread>>

\* The process dies.
Killed == /\ srv' = "gone" /\ held' = {} /\ call' = "none"
          /\ rx' = <<>> /\ wire' = <<>> /\ tx' = <<>> /\ got' = <<>>
          /\ left' = 0 /\ ret' = FALSE
          /\ UNCHANGED <<script, nread>>

Server == \/ \E status \in {"101", "403"} : Respond(status)
          \/ \E f \in ServerFrames : Serve(f)
          \/ Drop

ReadStep == SSL_read \/ http_upgrade \/ take_frame

-----------------------------------------------------------------------------
(* Properties *)

\* What the server has sent and the client has not taken yet.
Ahead == FlattenSeq([i \in 1 .. Len(script) - nread |->
                       ServerFrame(script[nread + i], nread + i)])

\* The payloads of the pings read, and of the pongs as the server reads them.
Pings == FlattenSeq([i \in 1 .. nread |->
           IF script[i].op = "ping" THEN <<Payload(script[i], i)>> ELSE <<>>])
Pongs == FlattenSeq([i \in 1 .. Len(tx) |->
           LET f == Decoded(tx[i])
           IN  IF f.op = "pong" THEN <<f.payload>> ELSE <<>>])

\* Framing is never lost: however SSL_read cuts the stream, the upgrade
\* response included, what is buffered and what is still to come are exactly
\* the frames not yet taken (or the first bytes of them, when the connection
\* has ended), and the frame handed out last is one the server
\* sent as text or binary, whole.
FramesFaithful ==
  /\ held # {} /\ call # "connect" /\ (ret \/ nread > 0) =>
       /\ IsPrefix(rx \o wire, Ahead)
       /\ srv = "up" => rx \o wire = Ahead
  /\ got # <<>> =>
       \E i \in 1 .. nread : /\ script[i].op \in {"text", "binary"}
                            /\ got = Payload(script[i], i)

\* The server, undoing the mask, finds for every ping read so far one pong
\* with the same payload, in the order of the pings; at most the last one is
\* missing, when it could not be written and the call has failed.
PongsEcho ==
  held # {} =>
    /\ IsPrefix(Pongs, Pings)
    /\ Len(Pongs) >= Len(Pings) - IF call = "none" /\ ~ret THEN 1 ELSE 0
=============================================================================
