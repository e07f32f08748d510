----------------------------- MODULE WsStreamer -----------------------------
(***************************************************************************)
(* WebSocketContextStreamer and its endpoint (api/server.py): the clients  *)
(* of one tenant, each served by a handler coroutine, and the broadcasts   *)
(* sent to them.  Everything runs on one event loop: a step lasts from one *)
(* await that suspends to the next.  Nothing suspends inside               *)
(* `async with self._lock`, so the lock is always free when it is asked    *)
(* for; what suspends is accept, receive and send_text.                    *)
(***************************************************************************)
EXTENDS Naturals, FiniteSets

CONSTANTS
  Clients,     \* handshakes made in one behaviour, each with its own client_id
  Sessions,    \* session ids that clients ask for; All stands for the empty one
  Topics,      \* session ids that broadcasts name
  Broadcasts,  \* calls of the broadcast_* methods, made by the embedding code
  All, None    \* "every session", and the None of Python

ASSUME StreamAssumption == All # None /\ None \notin Sessions /\ None \notin Topics

VARIABLES
  handler,   \* where the coroutine of each client stands
  conns,     \* the keys of _connections
  subs,      \* _subscriptions, None for a client that has no entry
  peer,      \* is the client's end of the socket still there
  cast,      \* was each broadcast called, and does its payload serialize
  waiting,   \* the clients whose _send task has not started
  sending,   \* the clients whose _send waits in send_text
  served,    \* history: the clients each broadcast wrote a frame to
  spoiled    \* history: the clients dropped because a payload did not serialize

vars == <<handler, conns, subs, peer, cast, waiting, sending, served, spoiled>>

casting == <<cast, waiting, sending, served, spoiled>>

NoCast == [called |-> FALSE, clean |-> TRUE]

Init ==
  /\ handler = [c \in Clients |-> "away"]
  /\ conns = {}
  /\ subs = [c \in Clients |-> None]
  /\ peer = [c \in Clients |-> TRUE]
  /\ cast = [b \in Broadcasts |-> NoCast]
  /\ waiting = [b \in Broadcasts |-> {}]
  /\ sending = [b \in Broadcasts |-> {}]
  /\ served = [b \in Broadcasts |-> {}]
  /\ spoiled = {}

GoTo(c, from, to) == handler[c] = from /\ handler' = [handler EXCEPT ![c] = to]

\* disconnect: pop both entries, whether or not they are there.
Drop(c) == conns' = conns \ {c} /\ subs' = [subs EXCEPT ![c] = None]

-----------------------------------------------------------------------------
(* The endpoint                                                            *)

\* The key or the tenant is refused before accept, or accept is awaited.
Handshake(c) ==
  /\ \E next \in {"rejected", "accepting"} : GoTo(c, "away", next)
  /\ UNCHANGED <<conns, subs, peer, casting>>

\* connect registers the client for all sessions, and the first _send writes
\* its frame before it suspends.
Connect(c) ==
  /\ GoTo(c, "accepting", "sending")
  /\ conns' = conns \cup {c}
  /\ subs' = [subs EXCEPT ![c] = All]
  /\ UNCHANGED <<peer, casting>>

\* accept raises: nothing was registered.
AcceptFails(c) ==
  /\ ~peer[c]
  /\ GoTo(c, "accepting", "ended")
  /\ UNCHANGED <<conns, subs, peer, casting>>

\* Mutated form of Message: unsubscribe removes the entry.
MessagePops(c) ==
  /\ GoTo(c, "reading", IF c \in conns THEN "sending" ELSE "reading")
  /\ \/ \E s \in Sessions \cup {All, None} : subs' = [subs EXCEPT ![c] = s]
     \/ UNCHANGED subs
  /\ UNCHANGED <<conns, peer, casting>>

\* A message that changes nothing, subscribe or unsubscribe: the entry is
\* written whether or not the client is still in _connections, the answer is
\* sent only if it is.
Message(c) ==
  /\ GoTo(c, "reading", IF c \in conns THEN "sending" ELSE "reading")
  /\ \/ \E s \in Sessions \cup {All} : subs' = [subs EXCEPT ![c] = s]
     \/ UNCHANGED subs
  /\ UNCHANGED <<conns, peer, casting>>

\* The same when the answer repeats what the message said and that does not
\* serialize: model_dump_json raises, and _send drops the client, which is
\* there and goes on being read from.
MessageSpoils(c) ==
  /\ handler[c] = "reading" /\ c \in conns
  /\ Drop(c)
  /\ spoiled' = spoiled \cup {c}
  /\ UNCHANGED <<handler, peer, cast, waiting, sending, served>>

\* Mutated forms of Close: an error leaves the loop past the finally; only a
\* client that is still registered is closed.
CloseUnclean(c) ==
  /\ GoTo(c, "reading", "ended")
  /\ \/ ~peer[c] /\ Drop(c)
     \/ UNCHANGED <<conns, subs>>
  /\ UNCHANGED <<peer, casting>>

CloseRegistered(c) ==
  /\ c \in conns
  /\ GoTo(c, "reading", "ended")
  /\ Drop(c)
  /\ UNCHANGED <<peer, casting>>

\* A message that is not an object, or a session id that is not a string,
\* raises; so does the receive after a disconnect frame.  Both end in finally.
Close(c) ==
  /\ GoTo(c, "reading", "ended")
  /\ Drop(c)
  /\ UNCHANGED <<peer, casting>>

\* The answer is out ...
Answered(c) ==
  /\ GoTo(c, "sending", "reading")
  /\ UNCHANGED <<conns, subs, peer, casting>>

\* ... or send_text raises: _send drops the client, and the loop reads on.
AnswerFails(c) ==
  /\ ~peer[c]
  /\ GoTo(c, "sending", "reading")
  /\ Drop(c)
  /\ UNCHANGED <<peer, casting>>

PeerLeaves(c) ==
  /\ handler[c] \notin {"away", "rejected", "ended"}
  /\ peer[c]
  /\ peer' = [peer EXCEPT ![c] = FALSE]
  /\ UNCHANGED <<handler, conns, subs, casting>>

-----------------------------------------------------------------------------
(* Broadcasts                                                              *)

\* The clients the lock's snapshot selects; broadcast_stats_update and
\* broadcast_pruning_event are the case of no session.
Targets(s) == {c \in conns : s = None \/ subs[c] \in {s, All}}

\* The targets are chosen, and gather schedules one task for each.
Broadcast(b, s, clean) ==
  /\ ~cast[b].called
  /\ cast' = [cast EXCEPT ![b] = [called |-> TRUE, clean |-> clean]]
  /\ waiting' = [waiting EXCEPT ![b] = Targets(s)]
  /\ UNCHANGED <<handler, conns, subs, peer, sending, served, spoiled>>

\* The task of one target runs: the client is looked up once more ...
SkipSend(b, c) ==
  /\ c \in waiting[b] \ conns
  /\ waiting' = [waiting EXCEPT ![b] = @ \ {c}]
  /\ UNCHANGED <<handler, conns, subs, peer, cast, sending, served, spoiled>>

\* ... the frame is written ...
StartSend(b, c) ==
  /\ cast[b].clean
  /\ c \in waiting[b] \cap conns
  /\ waiting' = [waiting EXCEPT ![b] = @ \ {c}]
  /\ sending' = [sending EXCEPT ![b] = @ \cup {c}]
  /\ served' = [served EXCEPT ![b] = @ \cup {c}]
  /\ UNCHANGED <<handler, conns, subs, peer, cast, spoiled>>

\* ... or model_dump_json raises, which is treated like a dropped connection.
SpoilSend(b, c) ==
  /\ ~cast[b].clean
  /\ c \in waiting[b] \cap conns
  /\ waiting' = [waiting EXCEPT ![b] = @ \ {c}]
  /\ Drop(c)
  /\ spoiled' = spoiled \cup {c}
  /\ UNCHANGED <<handler, peer, cast, sending, served>>

SendEnds(b, c) ==
  /\ c \in sending[b]
  /\ sending' = [sending EXCEPT ![b] = @ \ {c}]
  /\ UNCHANGED <<handler, conns, subs, peer, cast, waiting, served, spoiled>>

\* Mutated form of SendFails: the failure of one send ends the gather.
SendFailsAll(b, c) ==
  /\ ~peer[c]
  /\ c \in sending[b]
  /\ sending' = [sending EXCEPT ![b] = {}]
  /\ waiting' = [waiting EXCEPT ![b] = {}]
  /\ Drop(c)
  /\ UNCHANGED <<handler, peer, cast, served, spoiled>>

\* send_text raises: the client is dropped, though its handler still runs.
SendFails(b, c) ==
  /\ ~peer[c]
  /\ c \in sending[b]
  /\ sending' = [sending EXCEPT ![b] = @ \ {c}]
  /\ Drop(c)
  /\ UNCHANGED <<handler, peer, cast, waiting, served, spoiled>>

-----------------------------------------------------------------------------
Accept(c) == Connect(c) \/ AcceptFails(c)
Answer(c) == Answered(c) \/ AnswerFails(c)
Read(c) == Message(c) \/ MessageSpoils(c) \/ Close(c)
Handler(c) == Handshake(c) \/ Accept(c) \/ Read(c) \/ Answer(c)

RunTask(b, c) == SkipSend(b, c) \/ StartSend(b, c) \/ SpoilSend(b, c)
EndTask(b, c) == SendEnds(b, c) \/ SendFails(b, c)
Task(b, c) == RunTask(b, c) \/ EndTask(b, c)

Call(b) == \E s \in Topics \cup {None}, clean \in BOOLEAN : Broadcast(b, s, clean)

Next ==
  \/ \E c \in Clients : Handler(c) \/ PeerLeaves(c)
  \/ \E b \in Broadcasts : Call(b) \/ \E c \in Clients : Task(b, c)

Spec == Init /\ [][Next]_vars

\* The loop runs what is scheduled; send_text returns or raises, since the
\* transport drains or closes; after the messages a peer sent before it left,
\* finitely many, receive reports that it did.  A client never has to send
\* anything, nor to leave.
FairSpec ==
  /\ Spec
  /\ \A c \in Clients :
       /\ WF_vars(Accept(c) \/ Answer(c))
       /\ SF_vars(~peer[c] /\ Close(c))
  /\ \A b \in Broadcasts, c \in Clients : WF_vars(Task(b, c))

-----------------------------------------------------------------------------
\* Type invariant of the streamer's tables and of the coroutines that use them.
TypeOK ==
  /\ handler \in [Clients -> {"away", "rejected", "accepting", "sending", "reading", "ended"}]
  /\ conns \subseteq Clients
  /\ subs \in [Clients -> Sessions \cup {All, None}]
  /\ peer \in [Clients -> BOOLEAN]
  /\ cast \in [Broadcasts -> [called : BOOLEAN, clean : BOOLEAN]]
  /\ waiting \in [Broadcasts -> SUBSET Clients]
  /\ sending \in [Broadcasts -> SUBSET Clients]
  /\ served \in [Broadcasts -> SUBSET Clients]
  /\ spoiled \subseteq Clients

Serving == {c \in Clients : handler[c] \in {"sending", "reading"}}

\* "Rejected connections never enter the streamer state", and a handler that
\* ended left nothing in it (websocket_context_stream), whatever sends to the
\* client were still under way: a drop by a failing send, then a subscribe of
\* the handler that still runs, is undone by the finally.
GoneLeavesNothing ==
  \A c \in Clients \ Serving : c \notin conns /\ subs[c] = None

\* A client that is still there is unregistered only by a payload that did not
\* serialize, of a broadcast or of the answer to itself (_send): every other
\* failure is the peer's going.
\* From then on such a client is connected and hears of nothing.
OnlyLossUnregisters ==
  \A c \in Serving : peer[c] /\ c \notin spoiled => c \in conns /\ subs[c] # None

\* A client chosen under the lock gets the frame or is unregistered, however
\* the other sends of the same gather end (broadcast_context_update, _send).
EveryTargetServed ==
  \A b \in Broadcasts, c \in Clients :
    c \in waiting[b] ~> (c \in served[b] \/ c \notin conns)

\* A client that goes away is forgotten (websocket_context_stream): its handler
\* ends, even when a failing send found out first.
DeadPeersLeave ==
  \A c \in Clients : ~peer[c] ~> handler[c] = "ended"

=============================================================================
