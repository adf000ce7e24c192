------------------------------ MODULE Delivery ------------------------------
(***************************************************************************)
(* How a stored message reaches a recipient that comes and goes: the       *)
(* messages table, the send_message handler's push, the WebSocket registry *)
(* of server/ws/handler.py with its flush of the offline queue, the        *)
(* acknowledgement handler, and the recipient's client with its login, the *)
(* handshake of its first connection and its reconnect loop.               *)
(*                                                                         *)
(* The server is one asyncio loop: code between two awaits is one step.    *)
(* The registry's lock is held only across code without an await, so it is *)
(* never contended.  with_for_update() is not part of SQLite's SELECT, so  *)
(* the handlers' reads lock nothing.  What the client does with a frame it *)
(* accepts is module Channel; here it only remembers the message.          *)
(***************************************************************************)
EXTENDS Naturals, Sequences, FiniteSets

CONSTANTS
    Msgs,      \* the messages sent to the recipient, numbered by sent_at
    Conns,     \* bound: the WebSocket connections of the recipient
    None       \* no connection

ASSUME DeliveryAssumption ==
    /\ Msgs \subseteq Nat
    /\ None \notin Conns
    /\ Conns \cap {"none", "committed", "done"} = {}

VARIABLES
    row,        \* the row of each message
    pusher,     \* the send_message handler of each message, after its commit
    registry,   \* _connections[recipient]
    phase,      \* the server's handler of each connection
    snapshot,   \* what its flush has read and not sent yet
    sent,       \* messages passed to send_text of the connection (history)
    alive,      \* the connection's socket works
    wire,       \* frames on their way to the client
    cconn,      \* the connection the client listens on
    login,      \* "out", "starting" (connect_ws waits for auth_ok), "started",
                \* "ready" (the login has set _client and _peer_usernames)
    valid,      \* the server accepts the client's token
    got,        \* messages the client has opened and saved
    acks,       \* POST /messages/ack requests the server has not handled
    ackSeen     \* those whose handler has read the row and will update it

serverVars == <<row, pusher, registry, phase, snapshot, sent, acks, ackSeen>>
clientVars == <<cconn, login, valid, got>>
vars == <<serverVars, clientVars, alive, wire>>

Init ==
    /\ row = [m \in Msgs |-> "absent"]
    /\ pusher = [m \in Msgs |-> "none"]
    /\ registry = None
    /\ phase = [c \in Conns |-> "new"]
    /\ snapshot = [c \in Conns |-> {}]
    /\ sent = [c \in Conns |-> {}]
    /\ alive = [c \in Conns |-> FALSE]
    /\ wire = [c \in Conns |-> <<>>]
    /\ cconn = None
    /\ login = "out"
    /\ valid = FALSE
    /\ got = {}
    /\ acks = {}
    /\ ackSeen = {}

Undelivered == {m \in Msgs : row[m] = "undelivered"}

\* send_text: a frame for a socket that is dead, but not known to be, is lost.
SendText(c, m) ==
    /\ sent' = [sent EXCEPT ![c] = @ \cup {m}]
    /\ wire' = IF alive[c] THEN [wire EXCEPT ![c] = Append(@, m)] ELSE wire

-----------------------------------------------------------------------------
(* send_message, from its commit on *)

Post(m) ==
    /\ row[m] = "absent"
    /\ row' = [row EXCEPT ![m] = "undelivered"]
    /\ pusher' = [pusher EXCEPT ![m] = "committed"]
    /\ UNCHANGED <<registry, phase, snapshot, sent, acks, ackSeen, clientVars,
                   alive, wire>>

\* Mutant of PushRead: a user whose queue is being flushed counts as offline.
PushReadSkipsFlushing(m) ==
    /\ pusher[m] = "committed"
    /\ pusher' = [pusher EXCEPT ![m] =
                    IF registry = None \/ phase[registry] # "loop" THEN "done"
                    ELSE registry]
    /\ UNCHANGED <<row, registry, phase, snapshot, sent, acks, ackSeen,
                   clientVars, alive, wire>>

\* push_to_user looks the connection up; without one it returns False.
PushRead(m) ==
    /\ pusher[m] = "committed"
    /\ pusher' = [pusher EXCEPT ![m] = IF registry = None THEN "done" ELSE registry]
    /\ UNCHANGED <<row, registry, phase, snapshot, sent, acks, ackSeen,
                   clientVars, alive, wire>>

PushSend(m, c) ==
    /\ pusher[m] = c
    /\ phase[c] # "closed"
    /\ SendText(c, m)
    /\ pusher' = [pusher EXCEPT ![m] = "done"]
    /\ UNCHANGED <<row, registry, phase, snapshot, acks, ackSeen, clientVars, alive>>

\* send_text raises: the user's entry is popped, whichever connection it holds.
PushFail(m, c) ==
    /\ pusher[m] = c
    /\ ~ alive[c]
    /\ registry' = None
    /\ pusher' = [pusher EXCEPT ![m] = "done"]
    /\ UNCHANGED <<row, phase, snapshot, sent, acks, ackSeen, clientVars, alive, wire>>

-----------------------------------------------------------------------------
(* ws_endpoint and websocket_endpoint *)

\* The token of the auth frame is good: auth_ok, and the connection takes the
\* user's entry.  A connection the client has left carries any token.
Register(c) ==
    /\ phase[c] = "accepted"
    /\ c = cconn => valid
    /\ registry' = c
    /\ phase' = [phase EXCEPT ![c] = "registered"]
    /\ UNCHANGED <<row, pusher, snapshot, sent, acks, ackSeen, clientVars, alive, wire>>

\* The token has expired or is revoked: close(4001).  The connection leaves no
\* trace on the server, so the model uses it again.
AuthRefused(c) ==
    /\ phase[c] = "accepted"
    /\ c = cconn
    /\ ~ valid
    /\ alive' = [alive EXCEPT ![c] = FALSE]
    /\ phase' = [phase EXCEPT ![c] = "new"]
    /\ UNCHANGED <<row, pusher, registry, snapshot, sent, acks, ackSeen, clientVars, wire>>

\* The auth frame does not come, or its answer cannot be sent.
AuthFails(c) ==
    /\ phase[c] = "accepted"
    /\ ~ alive[c]
    /\ phase' = [phase EXCEPT ![c] = "closed"]
    /\ UNCHANGED <<row, pusher, registry, snapshot, sent, acks, ackSeen, clientVars,
                   alive, wire>>

\* The session's expires_at passes, or the session is revoked.
TokenExpires ==
    /\ valid
    /\ valid' = FALSE
    /\ UNCHANGED <<serverVars, cconn, login, got, alive, wire>>

\* _flush_offline_queue selects the undelivered rows (expires_at is NULL in
\* every row) ...
FlushRead(c) ==
    /\ phase[c] = "registered"
    /\ snapshot' = [snapshot EXCEPT ![c] = Undelivered]
    /\ phase' = [phase EXCEPT ![c] = "flushing"]
    /\ UNCHANGED <<row, pusher, registry, sent, acks, ackSeen, clientVars, alive, wire>>

\* Mutant of FlushSend: a message counts as delivered once it is sent.
FlushSendDelivers(c) ==
    /\ phase[c] = "flushing"
    /\ \E m \in snapshot[c] :
           /\ \A n \in snapshot[c] : m <= n
           /\ SendText(c, m)
           /\ snapshot' = [snapshot EXCEPT ![c] = @ \ {m}]
           /\ row' = [row EXCEPT ![m] = "delivered"]
    /\ UNCHANGED <<pusher, registry, phase, acks, ackSeen, clientVars, alive>>

\* ... and sends them, oldest first.
FlushSend(c) ==
    /\ phase[c] = "flushing"
    /\ \E m \in snapshot[c] :
           /\ \A n \in snapshot[c] : m <= n
           /\ SendText(c, m)
           /\ snapshot' = [snapshot EXCEPT ![c] = @ \ {m}]
    /\ UNCHANGED <<row, pusher, registry, phase, acks, ackSeen, clientVars, alive>>

\* send_text raises in the middle of the flush: break.
FlushBreak(c) ==
    /\ phase[c] = "flushing"
    /\ snapshot[c] # {}
    /\ ~ alive[c]
    /\ snapshot' = [snapshot EXCEPT ![c] = {}]
    /\ UNCHANGED <<row, pusher, registry, phase, sent, acks, ackSeen, clientVars,
                   alive, wire>>

FlushDone(c) ==
    /\ phase[c] = "flushing"
    /\ snapshot[c] = {}
    /\ phase' = [phase EXCEPT ![c] = "loop"]
    /\ UNCHANGED <<row, pusher, registry, snapshot, sent, acks, ackSeen, clientVars,
                   alive, wire>>

\* The read or the ping of the keep-alive loop finds the socket dead.  The
\* finally clause pops the user's entry, whichever connection it holds.
Disconnect(c) ==
    /\ phase[c] = "loop"
    /\ ~ alive[c]
    /\ registry' = None
    /\ phase' = [phase EXCEPT ![c] = "closed"]
    /\ UNCHANGED <<row, pusher, snapshot, sent, acks, ackSeen, clientVars, alive, wire>>

-----------------------------------------------------------------------------
(* Acknowledgements and retention *)

\* mark_delivered_on_ack reads the row; a missing or delivered one ends it.
AckRead(m) ==
    /\ m \in acks
    /\ acks' = acks \ {m}
    /\ ackSeen' = IF row[m] = "undelivered" THEN ackSeen \cup {m} ELSE ackSeen
    /\ UNCHANGED <<row, pusher, registry, phase, snapshot, sent, clientVars, alive, wire>>

\* Mutant of AckWrite: the row read before is written back as a whole.
AckWriteRow(m) ==
    /\ m \in ackSeen
    /\ ackSeen' = ackSeen \ {m}
    /\ row' = [row EXCEPT ![m] = "delivered"]
    /\ UNCHANGED <<pusher, registry, phase, snapshot, sent, acks, clientVars, alive, wire>>

\* ... and updates it, if cleanup has not deleted it meanwhile.
AckWrite(m) ==
    /\ m \in ackSeen
    /\ ackSeen' = ackSeen \ {m}
    /\ row' = IF row[m] = "undelivered" THEN [row EXCEPT ![m] = "delivered"] ELSE row
    /\ UNCHANGED <<pusher, registry, phase, snapshot, sent, acks, clientVars, alive, wire>>

AckLost(m) ==
    /\ m \in acks
    /\ acks' = acks \ {m}
    /\ UNCHANGED <<row, pusher, registry, phase, snapshot, sent, ackSeen, clientVars,
                   alive, wire>>

\* _ttl_cleanup_loop deletes rows stored more than max_message_age_days ago.
DeleteAged(m) ==
    /\ row[m] \in {"undelivered", "delivered"}
    /\ row' = [row EXCEPT ![m] = "deleted"]
    /\ UNCHANGED <<pusher, registry, phase, snapshot, sent, acks, ackSeen, clientVars,
                   alive, wire>>

-----------------------------------------------------------------------------
(* The recipient's client *)

\* The user logs in and gets a new token; connect_ws starts _ws_loop.
Login ==
    /\ login = "out"
    /\ login' = "starting"
    /\ valid' = TRUE
    /\ UNCHANGED <<serverVars, cconn, got, alive, wire>>

\* Connections are taken in a fixed order: their names do not matter.
IsNext(c) == phase[c] = "new" /\ c = CHOOSE d \in Conns : phase[d] = "new"

\* Mutant of Connect: the client does not come back after a broken connection.
ConnectOnce(c) ==
    /\ cconn = None
    /\ login # "out"
    /\ \A d \in Conns : phase[d] = "new"
    /\ cconn' = c
    /\ alive' = [alive EXCEPT ![c] = TRUE]
    /\ phase' = [phase EXCEPT ![c] = "accepted"]
    /\ UNCHANGED <<row, pusher, registry, snapshot, sent, acks, ackSeen, login, valid,
                   got, wire>>

\* _ws_loop opens a connection and sends the auth frame.
Connect(c) ==
    /\ cconn = None
    /\ login # "out"
    /\ IsNext(c)
    /\ cconn' = c
    /\ alive' = [alive EXCEPT ![c] = TRUE]
    /\ phase' = [phase EXCEPT ![c] = "accepted"]
    /\ UNCHANGED <<row, pusher, registry, snapshot, sent, acks, ackSeen, login, valid,
                   got, wire>>

\* The socket breaks; frames on their way are lost.  The guard keeps one
\* connection for the client to come back on.
SocketDies(c) ==
    /\ alive[c]
    /\ \E d \in Conns : phase[d] = "new"
    /\ alive' = [alive EXCEPT ![c] = FALSE]
    /\ wire' = [wire EXCEPT ![c] = <<>>]
    /\ UNCHANGED <<serverVars, clientVars>>

\* _ws_loop, once ready is done: it sleeps and connects again.
ClientNotices ==
    /\ login \in {"started", "ready"}
    /\ cconn # None
    /\ ~ alive[cconn]
    /\ cconn' = None
    /\ UNCHANGED <<serverVars, login, valid, got, alive, wire>>

\* auth_ok arrives: ready.set_result, and connect_ws returns.
HandshakeDone ==
    /\ login = "starting"
    /\ cconn # None
    /\ alive[cconn]
    /\ phase[cconn] \in {"registered", "flushing", "loop"}
    /\ login' = "started"
    /\ UNCHANGED <<serverVars, cconn, valid, got, alive, wire>>

\* _ws_loop ends and its socket is closed.  The guard keeps one connection for
\* the next login.
LeaveLogin ==
    /\ cconn # None => \E d \in Conns : phase[d] = "new"
    /\ alive' = [c \in Conns |-> alive[c] /\ c # cconn]
    /\ wire' = [c \in Conns |-> IF c = cconn THEN <<>> ELSE wire[c]]
    /\ cconn' = None
    /\ login' = "out"
    /\ UNCHANGED <<serverVars, valid, got>>

\* No connection, a refused token, a socket that breaks, or no auth_ok within
\* five seconds: ready.set_exception, and the login fails.
HandshakeFails == login = "starting" /\ LeaveLogin

\* The app is closed.
ClientRestart == login \in {"started", "ready"} /\ LeaveLogin

\* _apply_login_result and _show_conversations, after connect_ws.
LoginDone ==
    /\ login = "started"
    /\ login' = "ready"
    /\ UNCHANGED <<serverVars, cconn, valid, got, alive, wire>>

\* _handle_incoming_message opens and saves the message and acknowledges it;
\* a message it has already is refused (ReplayError) without an ACK, and an ACK
\* with an expired token is refused (401).
Handle(c) ==
    /\ cconn = c
    /\ login \in {"started", "ready"}
    /\ wire[c] # <<>>
    /\ wire' = [wire EXCEPT ![c] = Tail(@)]
    /\ got' = got \cup {Head(wire[c])}
    /\ acks' = IF Head(wire[c]) \in got \/ ~ valid THEN acks
               ELSE acks \cup {Head(wire[c])}
    /\ UNCHANGED <<row, pusher, registry, phase, snapshot, sent, ackSeen, cconn,
                   login, valid, alive>>

\* Before the login is complete there is no client, or no name to look the
\* sender's keys up with, and the frame is dropped, unless its conversation
\* has a session by then (Handle).
HandleTooEarly(c) ==
    /\ cconn = c
    /\ login = "started"
    /\ wire[c] # <<>>
    /\ wire' = [wire EXCEPT ![c] = Tail(@)]
    /\ UNCHANGED <<serverVars, clientVars, alive>>

\* The user opens the conversation: _sync_chat_history_from_server.
SyncHistory(m) ==
    /\ login = "ready"
    /\ valid
    /\ row[m] \in {"undelivered", "delivered"}
    /\ m \notin got
    /\ got' = got \cup {m}
    /\ acks' = acks \cup {m}
    /\ UNCHANGED <<row, pusher, registry, phase, snapshot, sent, ackSeen, cconn, login,
                   valid, alive, wire>>

-----------------------------------------------------------------------------
MessageNext(m) ==
    \/ Post(m)
    \/ PushRead(m)
    \/ \E c \in Conns : PushSend(m, c) \/ PushFail(m, c)
    \/ AckRead(m) \/ AckWrite(m) \/ AckLost(m)
    \/ DeleteAged(m)
    \/ SyncHistory(m)

ConnectionNext(c) ==
    \/ Connect(c)
    \/ Register(c) \/ AuthRefused(c) \/ AuthFails(c)
    \/ FlushRead(c) \/ FlushSend(c) \/ FlushBreak(c) \/ FlushDone(c)
    \/ Disconnect(c)
    \/ SocketDies(c)
    \/ Handle(c) \/ HandleTooEarly(c)

Next ==
    \/ \E m \in Msgs : MessageNext(m)
    \/ \E c \in Conns : ConnectionNext(c)
    \/ TokenExpires
    \/ Login
    \/ HandshakeDone \/ HandshakeFails
    \/ ClientNotices
    \/ ClientRestart
    \/ LoginDone

Spec == Init /\ [][Next]_vars

\* The event loops resume what can run: handlers whose await has completed,
\* a ping on a dead socket fails within the keep-alive time, a handshake ends
\* within its five seconds, and the client reconnects for ever to a server that
\* it reaches in the end.  Nobody has to send, to log in, to break a socket, to
\* open a conversation, or to wait for a token or a row to expire.
Fairness ==
    /\ \A m \in Msgs :
          /\ WF_vars(PushRead(m))
          /\ WF_vars(\E c \in Conns : PushSend(m, c) \/ PushFail(m, c))
    /\ \A c \in Conns :
          /\ WF_vars(Register(c) \/ AuthRefused(c) \/ AuthFails(c))
          /\ WF_vars(FlushRead(c) \/ FlushSend(c) \/ FlushBreak(c) \/ FlushDone(c))
          /\ WF_vars(Disconnect(c))
          /\ WF_vars(Handle(c) \/ HandleTooEarly(c))
    /\ WF_vars(\E c \in Conns : Connect(c))
    /\ WF_vars(HandshakeDone \/ HandshakeFails)
    /\ WF_vars(ClientNotices)
    /\ WF_vars(LoginDone)

FairSpec == Spec /\ Fairness

-----------------------------------------------------------------------------
(* Properties *)

\* The registry, the connection handlers and the client hold what the code puts
\* there; a push goes to a connection, never to a missing one.
TypeOK ==
    /\ row \in [Msgs -> {"absent", "undelivered", "delivered", "deleted"}]
    /\ pusher \in [Msgs -> {"none", "committed", "done"} \cup Conns]
    /\ registry \in Conns \cup {None}
    /\ phase \in [Conns -> {"new", "accepted", "registered", "flushing", "loop", "closed"}]
    /\ snapshot \in [Conns -> SUBSET Msgs]
    /\ sent \in [Conns -> SUBSET Msgs]
    /\ alive \in [Conns -> BOOLEAN]
    /\ wire \in [Conns -> Seq(Msgs)]
    /\ cconn \in Conns \cup {None}
    /\ login \in {"out", "starting", "started", "ready"}
    /\ valid \in BOOLEAN
    /\ got \in SUBSET Msgs
    /\ acks \in SUBSET Msgs
    /\ ackSeen \in SUBSET Msgs

\* The connection the registry holds misses nothing: once its flush has read
\* the queue, every undelivered message was sent on it, is still in its flush,
\* or is in the hands of a send handler that will find it.  No message falls
\* between the flush and the push, because websocket_endpoint registers before
\* it flushes and send_message commits before it looks the registry up.
RegisteredMissesNothing ==
    \A c \in Conns, m \in Msgs :
        /\ registry = c
        /\ alive[c]
        /\ phase[c] \in {"flushing", "loop"}
        /\ row[m] = "undelivered"
        => \/ m \in sent[c] \cup snapshot[c]
           \/ pusher[m] \in {"committed", c}

\* delivered_at is set for messages the recipient has, whatever was pushed,
\* flushed, lost with its socket or sent twice.
DeliveredWasOpened == \A m \in Msgs : row[m] = "delivered" => m \in got

\* The client listens on a connection that the registry does not hold, or that
\* carried m before the login was complete.
Stranded(m) ==
    /\ cconn # None
    /\ \/ registry # cconn
       \/ m \in sent[cconn] /\ m \notin {wire[cconn][k] : k \in 1 .. Len(wire[cconn])}

\* Nobody is logged in: connect_ws has not returned.
LoggedOut == login \in {"out", "starting"}

\* The token has expired: _ws_loop is refused, sleeps and tries again.
LockedOut ==
    /\ ~ valid
    /\ cconn # None => phase[cconn] \in {"new", "accepted"}

\* A stored message reaches the client, or grows too old, or from some time on
\* no login gets through, the reconnect loop goes on with an expired token, or
\* the client sits on a connection that the registry lost or that swallowed the
\* message: there is no other way to miss a message.
StoredReaches ==
    \A m \in Msgs :
        row[m] = "undelivered" ~>
            m \in got \/ row[m] = "deleted" \/ []LoggedOut \/ []LockedOut \/ []Stranded(m)

-----------------------------------------------------------------------------
(* The mailbox that this implements *)

MailStatus(m) == IF row[m] = "undelivered" THEN "queued" ELSE row[m]

Mail == INSTANCE Mailbox
        WITH status <- [m \in Msgs |-> MailStatus(m)], opened <- got

\* Whatever is pushed, flushed, lost, repeated or acknowledged late, the table
\* and the client behave like a mailbox: a frame is never of a message that was
\* not stored, mark_delivered_on_ack never brings a deleted row back and never
\* counts an unopened message, and every handler step is at most one step of
\* one message.
ImplementsMailbox == Mail!Spec

-----------------------------------------------------------------------------
(* Statements of the documentation that the code does not keep *)

\* "Tracks online users; pushes messages in real-time when recipient is
\* connected": the registry does not list a connected client as offline.
OnlineIsRegistered ==
    \A c \in Conns :
        cconn = c /\ alive[c] /\ phase[c] = "loop" => registry # None

=============================================================================
