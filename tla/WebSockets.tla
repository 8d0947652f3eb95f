----------------------------- MODULE WebSockets -----------------------------
(***************************************************************************)
(* The web socket server of ai-demo (web/websocket.c): every connection to *)
(* /ws-source gets a session, which is listed among the producers if there *)
(* is room, and freed when its connection has closed.  libsoup calls all   *)
(* handlers on the one main loop.  /ws-events has an empty handler, so     *)
(* that no session is ever a consumer.                                     *)
(***************************************************************************)
EXTENDS Naturals, Sequences, SequencesExt

CONSTANTS Conns,         \* connections to /ws-source, one session each
          MaxProducers   \* ctx->max_producers (64)

VARIABLES
  conn,       \* the state of each connection, as libsoup sees it
  producers,  \* ctx->producers, as a sequence
  state,      \* session->state: 0 new, 1 closing, 2 closed
  device,     \* session->jdevice: a device is registered
  live,       \* sessions allocated and not freed
  refused,    \* ghost: sessions that found the array full
  crashed     \* an assertion failed or NULL was read

vars == <<conn, producers, state, device, live, refused, crashed>>

\* websocket_context_init
Init ==
  /\ conn = [c \in Conns |-> "none"] /\ producers = <<>>
  /\ state = [c \in Conns |-> 0] /\ device = [c \in Conns |-> FALSE]
  /\ live = {} /\ refused = {} /\ crashed = FALSE

-----------------------------------------------------------------------------
\* websocket_add_session
HasRoom == Len(producers) < MaxProducers

\* on_ws_source_producer does not look at the result of add_session.
OnWsSourceProducer(c) ==
  /\ conn[c] = "none"
  /\ conn' = [conn EXCEPT ![c] = "open"]
  /\ live' = live \cup {c}
  /\ IF HasRoom
     THEN producers' = Append(producers, c) /\ UNCHANGED refused
     ELSE refused' = refused \cup {c} /\ UNCHANGED producers
  /\ UNCHANGED <<state, device, crashed>>

\* soup_websocket_connection_close: "closing" is emitted, once; then on_ws_session_closing.
Close(c) ==
  /\ conn' = [conn EXCEPT ![c] = "closing"]
  /\ state' = IF conn[c] = "open" THEN [state EXCEPT ![c] = 1] ELSE state

\* What on_ws_producer_message and on_producer_command tell apart: what cannot be
\* read or is no message, a message without effect, a command without a name, and
\* register-device with its number of arguments.
Messages == {"unreadable", "noeffect", "unnamed", "register0", "register1", "register2"}

\* The name is compared without a look whether there is one; the device is the second
\* argument, which must exist.
OnWsProducerMessage(c, m) ==
  /\ conn[c] \in {"open", "closing"}
  /\ IF m \in {"unreadable", "register0"}
     THEN Close(c)
     ELSE UNCHANGED <<conn, state>>
  /\ crashed' = (m \in {"unnamed", "register1"})
  /\ device' = [device EXCEPT ![c] = @ \/ m = "register2"]
  /\ UNCHANGED <<producers, live, refused>>

\* The peer closes, or is lost: "closed" may come without "closing".
PeerCloses(c) ==
  /\ conn[c] = "open"
  /\ Close(c)
  /\ UNCHANGED <<producers, device, live, refused, crashed>>

RemovedLast(i) == Front(producers)

\* websocket_remove_session: the last one takes the place.
RemovedAt(i) == Front([producers EXCEPT ![i] = Last(producers)])

\* on_ws_session_closed: only a session found in the array is freed.
OnWsSessionClosed(c) ==
  /\ conn[c] \in {"open", "closing"}
  /\ conn' = [conn EXCEPT ![c] = "closed"]
  /\ IF c \in Range(producers)
     THEN /\ producers' = RemovedAt(CHOOSE i \in DOMAIN producers : producers[i] = c)
          /\ live' = live \ {c}
     ELSE UNCHANGED <<producers, live>>
  /\ state' = [state EXCEPT ![c] = 2]
  /\ UNCHANGED <<device, refused, crashed>>

Next == ~crashed /\ \E c \in Conns :
  \/ OnWsSourceProducer(c) \/ PeerCloses(c) \/ OnWsSessionClosed(c)
  \/ \E m \in Messages : OnWsProducerMessage(c, m)

Spec == Init /\ [][Next]_vars

-----------------------------------------------------------------------------
\* Every variable has its type.
TypeOK ==
  /\ conn \in [Conns -> {"none", "open", "closing", "closed"}]
  /\ producers \in Seq(Conns)
  /\ state \in [Conns -> 0 .. 2] /\ device \in [Conns -> BOOLEAN]
  /\ live \subseteq Conns /\ refused \subseteq Conns
  /\ crashed \in BOOLEAN

\* Whoever comes and goes in whichever order, the array lists each open session once,
\* within its slots, and no session that is freed; a session ends with its
\* connection (websocket.c:225-290), but for those that found the array full, which
\* nothing frees.
SessionsHeld ==
  /\ Len(producers) <= MaxProducers
  /\ \A i, j \in DOMAIN producers : producers[i] = producers[j] => i = j
  /\ Range(producers) = live \ refused
  /\ live \ refused = {c \in Conns : conn[c] \in {"open", "closing"}} \ refused
=============================================================================
