------------------------------ MODULE Exchange ------------------------------
(***************************************************************************)
(* src/main.cpp: the exchange process.  The gateway thread (Gateway) and   *)
(* the engine thread (MatchingEngine on its OrderBook) share the two rings *)
(* and the flag g_running, which a signal clears; the main thread builds   *)
(* the gateway, starts the threads, waits for the flag, joins them and     *)
(* destroys everything.                                                    *)
(*                                                                         *)
(* Client c writes the messages of Script[c], one frame each.  Pinning a   *)
(* thread and the status line decide nothing and are left out.             *)
(***************************************************************************)
EXTENDS Gateway

CONSTANTS Script,  \* what every connection sends
          PoolCapacity, MAX_ORDERS, MAX_PRICE, Clients, MaxQty, MaxId

VARIABLES arena, free_list, levels, bits, best, order_table, fills, next_id,
          pc, req, aggressor, ret,                 \* the book
          match_number, epc, msg, leg, traded, reported,   \* the engine
          running,   \* g_running
          mpc,       \* main: "setup", "spawn", "poll", "join", "exit"
          ethread,   \* engine thread: "off", "check" before the load of
                     \* running or inside process, "pop", "exited"
          gthread,   \* gateway thread: "off", "check", "loop", "exited"
          fds        \* listen_fd_ and event_fd_, as far as they are open

bookvars == <<arena, free_list, levels, bits, best, order_table, fills,
              next_id, pc, req, aggressor, ret, match_number, epc, msg, leg,
              traded, reported>>
procvars == <<running, mpc, ethread, gthread, fds>>
xvars == <<vars, bookvars, procvars>>

\* The message in a frame: what decoding the WireMessage gives.
Decode(buf) == Script[buf[0][1]][buf[0][2] \div Frame + 1]

E == INSTANCE MatchingEngine WITH
       inbound <- [i \in DOMAIN inbound |-> Decode(inbound[i])],
       arrivals <- 0, MaxArrivals <- 0,
       Requests <- UNION {{Script[c][i] : i \in DOMAIN Script[c]} : c \in Conns}

XInit == /\ Init
         /\ E!EInit
         /\ running = TRUE /\ mpc = "setup"
         /\ ethread = "off" /\ gthread = "off" /\ fds = {}

-----------------------------------------------------------------------------
(* main *)

\* The constructor: every step of it may fail, leaving ready_ false and main
\* to return 1; the destructor closes what was opened.
Gateway_ctor ==
  /\ mpc = "setup"
  /\ \/ mpc' = "spawn" /\ fds' = {"listen_fd", "event_fd"}
     \/ mpc' = "exit" /\ UNCHANGED fds
  /\ UNCHANGED <<vars, bookvars, running, ethread, gthread>>

\* std::thread, twice: the engine first.
spawn ==
  /\ mpc = "spawn"
  /\ IF ethread = "off" THEN ethread' = "check" /\ UNCHANGED <<gthread, mpc>>
     ELSE gthread' = "check" /\ mpc' = "poll" /\ UNCHANGED ethread
  /\ UNCHANGED <<vars, bookvars, running, fds>>

\* The polling loop ends once the flag is down.
poll_running ==
  /\ mpc = "poll" /\ ~running
  /\ mpc' = "join"
  /\ UNCHANGED <<vars, bookvars, running, ethread, gthread, fds>>

\* Variant of Joined that waits for the engine only.
JoinedEngine == ethread = "exited"

\* What main waits for before it goes on.
Joined == ethread = "exited" /\ gthread = "exited"

\* Both joins, the last line and ~Gateway.
finish ==
  /\ mpc = "join" /\ Joined
  /\ mpc' = "exit" /\ fds' = {}
  /\ conn' = [c \in Conns |->
                IF \E i \in Slots : slots[i].active /\ slots[i].fd = c
                  THEN "closed" ELSE conn[c]]
  /\ UNCHANGED <<peer, sent, emitted, taken, rcvd, edge, slots, inbound,
                 outbound, stream, gpc, batch, cur, out, todo, bookvars,
                 running, ethread, gthread>>

signal_handler ==
  /\ running /\ mpc # "exit"
  /\ running' = FALSE
  /\ UNCHANGED <<vars, bookvars, mpc, ethread, gthread, fds>>

-----------------------------------------------------------------------------
(* The threads *)

\* MatchingEngine::run.
engine_check ==
  /\ ethread = "check" /\ epc = "poll"
  /\ ethread' = IF running THEN "pop" ELSE "exited"
  /\ UNCHANGED <<vars, bookvars, running, mpc, gthread, fds>>

\* Variant of NothingToPop that waits for a message.
NothingToPopWaits == FALSE

NothingToPop == inbound = <<>>

engine_pop ==
  /\ ethread = "pop"
  /\ \/ NothingToPop /\ UNCHANGED <<inbound, outbound, bookvars>>
     \/ inbound # <<>> /\ inbound' = Tail(inbound) /\ E!process
  /\ ethread' = "check"
  /\ UNCHANGED <<net, rcvd, edge, slots, stream, gpc, batch, cur, out, todo,
                 running, mpc, gthread, fds>>

engine_work ==
  /\ ethread = "check" /\ epc # "poll"
  /\ inbound' = inbound
  /\ E!book_step \/ E!reply \/ E!emit_fill
  /\ UNCHANGED <<net, rcvd, edge, slots, stream, gpc, batch, cur, out, todo,
                 procvars>>

\* Gateway::run.
gateway_check ==
  /\ gthread = "check"
  /\ gthread' = IF running THEN "loop" ELSE "exited"
  /\ UNCHANGED <<vars, bookvars, running, mpc, ethread, fds>>

gateway_step ==
  /\ gthread = "loop"
  /\ Run
  /\ gthread' = IF gpc' = "wait" THEN "check" ELSE "loop"
  /\ UNCHANGED <<bookvars, running, mpc, ethread, fds>>

\* Clients read nothing: what they leave unread is bounded by SendRoom alone.
Client ==
  /\ fds # {}
  /\ \E c \in Conns : \/ Connect(c)
                      \/ sent[c] < Frame * Len(Script[c]) /\ ClientWrite(c)
                      \/ ClientClose(c, "fin")
  /\ UNCHANGED <<bookvars, procvars>>

-----------------------------------------------------------------------------
MainThread == Gateway_ctor \/ spawn \/ poll_running \/ finish
EngineThread == engine_check \/ engine_pop \/ engine_work
GatewayThread == gateway_check \/ gateway_step

XNext == MainThread \/ EngineThread \/ GatewayThread \/ Client \/ signal_handler

\* The three threads are scheduled; clients and the operator need do nothing.
XSpec == XInit /\ [][XNext]_xvars /\ WF_xvars(MainThread)
               /\ WF_xvars(EngineThread) /\ WF_xvars(GatewayThread)

-----------------------------------------------------------------------------
(* Properties *)

\* A client's connection is up on both ends.
Linked(c) == conn[c] = "open" /\ peer[c] = "up"

Replies(c) == SelectSeq(stream[c], LAMBDA u :
                u[2] = 0 /\ u[1].type # "OrderExecuted"
                         /\ u[1].client = Script[c][1].client)

\* End to end: every message a client has sent whole is answered on its own
\* connection, as long as nobody hangs up and the exchange is not stopped.
\* The bounds leave room in rings and socket buffers, where nothing is
\* dropped.
OrdersAnswered ==
  \A c \in Conns : \A n \in DOMAIN Script[c] :
    (Linked(c) /\ sent[c] >= n * Frame)
      ~> (~Linked(c) \/ ~running \/ Len(Replies(c)) >= n)

\* A client that goes away gives its slot back while the exchange runs, also
\* when it left before it was accepted.
SlotsReleased ==
  \A c \in Conns : (conn[c] = "open" /\ peer[c] # "up")
                     ~> (conn[c] = "closed" \/ ~running)

\* A signal ends the process, whatever the threads are doing when it comes:
\* neither thread waits for the other one.
Terminates == ~running ~> mpc = "exit"

\* The threads are over before what they use is destroyed, and stop between
\* two messages: the book is at rest, with every fill of it reported.
ShutdownClean ==
  mpc = "exit" =>
    /\ fds = {} /\ \A c \in Conns : conn[c] # "open"
    /\ ethread \in {"off", "exited"} /\ gthread \in {"off", "exited"}
    /\ pc = "idle" /\ epc = "poll" /\ gpc = "wait"
=============================================================================
