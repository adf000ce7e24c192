------------------------------- MODULE Access ------------------------------
(***************************************************************************)
(* Getting into the system: registration, login and logout on the server   *)
(* (server/api/auth.py), and what the client keeps of them: the keystore   *)
(* with its private keys, its token and its WebSocket (client/ui/app.py,   *)
(* client/use_cases/login.py, client/api/client.py).                       *)
(*                                                                         *)
(* There is one user name, which several devices may try to register.  A   *)
(* request is served by a handler that awaits the database between its     *)
(* steps; a client gives up on an answer after a timeout, and the handler  *)
(* goes on without it.  Time is left out: a session may expire at any      *)
(* step.  The rate limit (module RateLimit) may refuse any request.        *)
(***************************************************************************)
EXTENDS Naturals, Sequences

CONSTANTS
    Devices,      \* installations of the client
    Handlers,     \* handlers the server can run at a time
    MaxKeys,      \* bound on the number of registration attempts
    MaxSessions,  \* bound on the number of logins
    None

ASSUME AccessAssumption ==
    /\ {MaxKeys, MaxSessions} \subseteq Nat \ {0}
    /\ None \notin Nat \cup Devices \cup Handlers

VARIABLES
    account,    \* the public key of the user's row, None while the name is free
    sessions,   \* the sessions table, in the order of the logins
    handler,    \* where each handler is
    req,        \* the request it serves and what it has read so far
    keystore,   \* the key pair in a device's keystore.json
    client,     \* what a device is doing
    call,       \* the handler whose answer it waits for
    reply,      \* the answer that has arrived
    token,      \* its token, as a position in sessions
    socket,     \* does it have an open WebSocket?
    made        \* key pairs generated so far

servers == <<account, sessions, handler, req>>
clients == <<keystore, client, call, reply, token, socket, made>>
vars == <<servers, clients>>

\* Any error status; a success carries the registered key pair or the session.
Refused == 0

Success(a) == a # None /\ a # Refused

NoRequest == [dev |-> None, id |-> 0]

Init ==
    /\ account = None
    /\ sessions = <<>>
    /\ handler = [h \in Handlers |-> "idle"]
    /\ req = [h \in Handlers |-> NoRequest]
    /\ keystore = [d \in Devices |-> None]
    /\ client = [d \in Devices |-> "out"]
    /\ call = [d \in Devices |-> None]
    /\ reply = [d \in Devices |-> None]
    /\ token = [d \in Devices |-> 0]
    /\ socket = [d \in Devices |-> FALSE]
    /\ made = 0

\* The WHERE clause of require_auth and of the WebSocket's first frame.
Valid(s) == s # 0 /\ ~ sessions[s].revoked /\ ~ sessions[s].expired

-----------------------------------------------------------------------------
(* register, login and logout on the server *)

\* The end of a handler: its answer reaches the device if that still waits.
Answer(h, a) ==
    LET d == req[h].dev
    IN  /\ handler' = [handler EXCEPT ![h] = "idle"]
        /\ req' = [req EXCEPT ![h] = NoRequest]
        /\ reply' = IF call[d] = h THEN [reply EXCEPT ![d] = a] ELSE reply

\* The name is looked up: 409 if it is taken, 429 from the rate limit before.
RegisterCheck(h) ==
    /\ handler[h] = "register"
    /\ \/ Answer(h, Refused)
       \/ /\ account = None
          /\ handler' = [handler EXCEPT ![h] = "insert"]
          /\ UNCHANGED <<req, reply>>
    /\ UNCHANGED <<account, sessions, keystore, client, call, token, socket, made>>

\* Mutant of RegisterInsert: the name is not unique in the table.
RegisterInsertAnyway(h) ==
    /\ handler[h] = "insert"
    /\ account' = req[h].id
    /\ Answer(h, req[h].id)
    /\ UNCHANGED <<sessions, keystore, client, call, token, socket, made>>

\* The user and the public keys are inserted; the UNIQUE constraint on the name
\* refuses the second of two handlers that both found it free.
RegisterInsert(h) ==
    /\ handler[h] = "insert"
    /\ \/ /\ account # None
          /\ Answer(h, Refused)
          /\ UNCHANGED account
       \/ /\ account = None
          /\ account' = req[h].id
          /\ Answer(h, req[h].id)
    /\ UNCHANGED <<sessions, keystore, client, call, token, socket, made>>

\* Password and TOTP are right: a session is inserted.
LoginSucceeds(h) ==
    /\ handler[h] = "login"
    /\ account # None
    /\ Len(sessions) < MaxSessions
    /\ sessions' = Append(sessions, [expired |-> FALSE, revoked |-> FALSE])
    /\ Answer(h, Len(sessions'))
    /\ UNCHANGED <<account, keystore, client, call, token, socket, made>>

\* The rate limit, no such user, a wrong password or a wrong code.
LoginFails(h) ==
    /\ handler[h] = "login"
    /\ Answer(h, Refused)
    /\ UNCHANGED <<account, sessions, keystore, client, call, token, socket, made>>

\* Mutant of Revoke: logout revokes the newest session of the user.
RevokeNewest(h) ==
    /\ handler[h] = "revoke"
    /\ sessions' = [sessions EXCEPT ![Len(sessions)].revoked = TRUE]
    /\ Answer(h, req[h].id)
    /\ UNCHANGED <<account, keystore, client, call, token, socket, made>>

\* logout revokes the session that require_auth found.
Revoke(h) ==
    /\ handler[h] = "revoke"
    /\ sessions' = [sessions EXCEPT ![req[h].id].revoked = TRUE]
    /\ Answer(h, req[h].id)
    /\ UNCHANGED <<account, keystore, client, call, token, socket, made>>

\* token_expiry_seconds have passed.
Expire(s) ==
    /\ ~ sessions[s].expired
    /\ sessions' = [sessions EXCEPT ![s].expired = TRUE]
    /\ UNCHANGED <<account, handler, req, clients>>

-----------------------------------------------------------------------------
(* The client *)

\* A request reaches a handler.
Send(d, h, id) ==
    /\ call[d] = None
    /\ handler[h] = "idle"
    /\ call' = [call EXCEPT ![d] = h]
    /\ req' = [req EXCEPT ![h] = [dev |-> d, id |-> id]]

\* The register screen generates key pairs and posts the public ones.
Register(d, h) ==
    /\ client[d] = "out"
    /\ made < MaxKeys
    /\ Send(d, h, made + 1)
    /\ made' = made + 1
    /\ handler' = [handler EXCEPT ![h] = "register"]
    /\ client' = [client EXCEPT ![d] = "registering"]
    /\ UNCHANGED <<account, sessions, keystore, reply, token, socket>>

\* 201: only now the private keys of this attempt are written to the keystore.
SaveKeystore(d) ==
    /\ client[d] = "registering"
    /\ Success(reply[d])
    /\ keystore' = [keystore EXCEPT ![d] = reply[d]]
    /\ client' = [client EXCEPT ![d] = "out"]
    /\ call' = [call EXCEPT ![d] = None]
    /\ reply' = [reply EXCEPT ![d] = None]
    /\ UNCHANGED <<servers, token, socket, made>>

Login(d, h) ==
    /\ client[d] = "out"
    /\ Send(d, h, 0)
    /\ handler' = [handler EXCEPT ![h] = "login"]
    /\ client' = [client EXCEPT ![d] = "logging_in"]
    /\ UNCHANGED <<account, sessions, keystore, reply, token, socket, made>>

\* The token is there and so are the local keys.
LoginAnswered(d) ==
    /\ client[d] = "logging_in"
    /\ Success(reply[d])
    /\ keystore[d] # None
    /\ token' = [token EXCEPT ![d] = reply[d]]
    /\ client' = [client EXCEPT ![d] = "starting"]
    /\ call' = [call EXCEPT ![d] = None]
    /\ reply' = [reply EXCEPT ![d] = None]
    /\ UNCHANGED <<servers, keystore, socket, made>>

\* A refusal, a timeout, or a login on a device without keys.  The handler may
\* still be running, and a session it inserts stays valid.
GiveUp(d) ==
    /\ client[d] \in {"registering", "logging_in"}
    /\ Success(reply[d]) => client[d] = "logging_in" /\ keystore[d] = None
    /\ client' = [client EXCEPT ![d] = "out"]
    /\ call' = [call EXCEPT ![d] = None]
    /\ reply' = [reply EXCEPT ![d] = None]
    /\ UNCHANGED <<servers, keystore, token, socket, made>>

\* The bootstrap asks for the own keys and connects the WebSocket, whose first
\* frame carries the token.
Start(d) ==
    /\ client[d] = "starting"
    /\ Valid(token[d])
    /\ client' = [client EXCEPT ![d] = "in"]
    /\ socket' = [socket EXCEPT ![d] = TRUE]
    /\ UNCHANGED <<servers, keystore, call, reply, token, made>>

StartFails(d) ==
    /\ client[d] = "starting"
    /\ client' = [client EXCEPT ![d] = "out"]
    /\ token' = [token EXCEPT ![d] = 0]
    /\ UNCHANGED <<servers, keystore, call, reply, socket, made>>

SocketDrops(d) ==
    /\ socket[d]
    /\ socket' = [socket EXCEPT ![d] = FALSE]
    /\ UNCHANGED <<servers, keystore, client, call, reply, token, made>>

\* The loop tries again every three seconds, with the same token.
Reconnect(d) ==
    /\ client[d] = "in"
    /\ ~ socket[d]
    /\ Valid(token[d])
    /\ socket' = [socket EXCEPT ![d] = TRUE]
    /\ UNCHANGED <<servers, keystore, client, call, reply, token, made>>

\* require_auth finds the session of the token; it is revoked a step later.
Logout(d, h) ==
    /\ client[d] = "in"
    /\ Valid(token[d])
    /\ Send(d, h, token[d])
    /\ handler' = [handler EXCEPT ![h] = "revoke"]
    /\ client' = [client EXCEPT ![d] = "leaving"]
    /\ UNCHANGED <<account, sessions, keystore, reply, token, socket, made>>

\* Mutant of Leave: the WebSocket task is not cancelled.
LeaveConnected(d) ==
    /\ client[d] = "leaving" \/ client[d] = "in"
    /\ client' = [client EXCEPT ![d] = "out"]
    /\ token' = [token EXCEPT ![d] = 0]
    /\ call' = [call EXCEPT ![d] = None]
    /\ reply' = [reply EXCEPT ![d] = None]
    /\ UNCHANGED <<servers, keystore, socket, made>>

\* Whatever became of the request (an answer, a timeout, a 401 for an expired
\* token), the client closes its socket and forgets the token.
Leave(d) ==
    /\ client[d] = "leaving" \/ client[d] = "in"
    /\ client' = [client EXCEPT ![d] = "out"]
    /\ token' = [token EXCEPT ![d] = 0]
    /\ socket' = [socket EXCEPT ![d] = FALSE]
    /\ call' = [call EXCEPT ![d] = None]
    /\ reply' = [reply EXCEPT ![d] = None]
    /\ UNCHANGED <<servers, keystore, made>>

\* The process ends at any point; the keystore is all that a device keeps.
Crash(d) ==
    /\ client' = [client EXCEPT ![d] = "out"]
    /\ token' = [token EXCEPT ![d] = 0]
    /\ socket' = [socket EXCEPT ![d] = FALSE]
    /\ call' = [call EXCEPT ![d] = None]
    /\ reply' = [reply EXCEPT ![d] = None]
    /\ UNCHANGED <<servers, keystore, made>>

ServerNext(h) ==
    \/ RegisterCheck(h)
    \/ RegisterInsert(h)
    \/ LoginSucceeds(h)
    \/ LoginFails(h)
    \/ Revoke(h)

ClientNext(d) ==
    \/ \E h \in Handlers : Register(d, h)
    \/ SaveKeystore(d)
    \/ \E h \in Handlers : Login(d, h)
    \/ LoginAnswered(d)
    \/ GiveUp(d)
    \/ Start(d)
    \/ StartFails(d)
    \/ SocketDrops(d)
    \/ Reconnect(d)
    \/ \E h \in Handlers : Logout(d, h)
    \/ Leave(d)
    \/ Crash(d)

Next ==
    \/ \E s \in 1 .. Len(sessions) : Expire(s)
    \/ \E h \in Handlers : ServerNext(h)
    \/ \E d \in Devices : ClientNext(d)

Spec == Init /\ [][Next]_vars

-----------------------------------------------------------------------------
(* Properties *)

\* Tables, handlers and clients have their types; a socket belongs to a client
\* that is logged in or on its way out (Leave closes it with the token).
TypeOK ==
    /\ account \in 1 .. MaxKeys \cup {None}
    /\ sessions \in Seq([expired : BOOLEAN, revoked : BOOLEAN])
    /\ handler \in [Handlers -> {"idle", "register", "insert", "login", "revoke"}]
    /\ \A h \in Handlers : handler[h] = "idle" <=> req[h] = NoRequest
    /\ keystore \in [Devices -> 1 .. MaxKeys \cup {None}]
    /\ client \in [Devices -> {"out", "registering", "logging_in", "starting", "in", "leaving"}]
    /\ call \in [Devices -> Handlers \cup {None}]
    /\ token \in [Devices -> 0 .. Len(sessions)]
    /\ \A d \in Devices : socket[d] => client[d] \in {"in", "leaving"}

\* The private keys a device keeps are those of the account: two devices that
\* register one name at the same time, and answers that are lost, never leave a
\* keystore whose public keys the server does not publish.
KeystoreMatches == \A d \in Devices : keystore[d] # None => keystore[d] = account

\* A client that is logged in holds a session of its own that nobody revoked,
\* even if a logout it gave up on is carried out after its next login.
HeldIsUnrevoked ==
    \A d \in Devices :
        client[d] \in {"starting", "in"} =>
            /\ token[d] # 0
            /\ ~ sessions[token[d]].revoked
            /\ \A e \in Devices \ {d} : token[e] # token[d]
=============================================================================
