----------------------------- MODULE Handshake -----------------------------
(***************************************************************************)
(* How the two clients of a conversation come to share a session:          *)
(* ensure_session on the first send, the bootstrap of the receive paths on *)
(* the first message with key material, and what a restart keeps of it.    *)
(*                                                                         *)
(* Each client has two asyncio tasks over one _sessions dictionary: "ui"   *)
(* (sending, history sync) and "ws" (pushed messages).  Both look the      *)
(* conversation up, await get_keys, and assign a new SessionState without  *)
(* looking again.  A task works on with the SessionState object it got, so *)
(* objects have an identity: their position in heap.                       *)
(*                                                                         *)
(* Here a received message is opened, saved, persisted and acknowledged in *)
(* one step, and an object opens each position of its chain once; module   *)
(* Channel has the awaits between, the window and the skip limit.          *)
(***************************************************************************)
EXTENDS Naturals, Sequences, FiniteSets

CONSTANTS
    Clients,       \* the two participants
    Initiators,    \* those whose user sends before there is a session
    None,          \* no session, no key material, no envelope
    MaxSends,      \* bound: messages of one client
    MaxRestarts    \* bound: restarts of all clients

Tasks == {"ui", "ws"}

VARIABLES
    heap,      \* SessionState objects of each client, in order of creation
    slot,      \* _sessions[conversation]: a position in heap, or 0
    disk,      \* the session in sessions.json
    counter,   \* _counters[conversation]
    stage,     \* where each task is
    cur,       \* the envelope a receiving task works on
    ref,       \* the object it holds
    msgs,      \* the messages table
    late,      \* requests their client has given up, not stored (yet)
    opened,    \* the id of every envelope that was opened, in order (history)
    restarts

clientVars == <<heap, slot, disk, counter, stage, cur, ref, opened>>
serverVars == <<msgs, late>>
vars == <<clientVars, serverVars, restarts>>

\* A root key is named by the initiator's object it was derived in.
Key == Clients \X (Nat \ {0})

\* eph: the object still has _eph_pub_b64 and _conv_dh_pub_b64; index:
\* send_chain.index; next: next_outbound_counter; taken: positions of
\* recv_chain whose key was handed out.
Session ==
    [key : Key, initiator : BOOLEAN, eph : BOOLEAN, index : Nat, next : Nat,
     taken : SUBSET Nat]

\* key and initiator stand for the chain the envelope was encrypted under; eph
\* is the key material it carries: enough for the peer to derive the root key.
Envelope ==
    [from : Clients, counter : Nat, index : Nat, key : Key, initiator : BOOLEAN,
     eph : Key \cup {None}]

ASSUME HandshakeAssumption ==
    /\ IsFiniteSet(Clients) /\ Cardinality(Clients) = 2
    /\ Initiators \subseteq Clients
    /\ None \notin Key \cup Session \cup Envelope
    /\ MaxSends \in Nat
    /\ MaxRestarts \in Nat

NewSession(key, initiator) ==
    [key |-> key, initiator |-> initiator, eph |-> initiator, index |-> 0,
     next |-> 0, taken |-> {}]

Advanced(s) == [s EXCEPT !.index = @ + 1]

Init ==
    /\ heap = [c \in Clients |-> <<>>]
    /\ slot = [c \in Clients |-> 0]
    /\ disk = [c \in Clients |-> None]
    /\ counter = [c \in Clients |-> None]
    /\ stage = [c \in Clients |-> [t \in Tasks |-> "idle"]]
    /\ cur = [c \in Clients |-> [t \in Tasks |-> None]]
    /\ ref = [c \in Clients |-> [t \in Tasks |-> 0]]
    /\ msgs = {}
    /\ late = {}
    /\ opened = [c \in Clients |-> <<>>]
    /\ restarts = 0

-----------------------------------------------------------------------------
(* Sending: ensure_session, execute_send_message *)

\* Mutant of NextCounter: _counters is read without a default.
NextCounterUnset(c, s) == counter[c]

NextCounter(c, s) == IF counter[c] # None THEN counter[c] ELSE s.next

\* The envelope for session s: key material goes with counter 0, if the object
\* still has it.
Built(c, s) ==
    [from |-> c, counter |-> NextCounter(c, s), index |-> s.index, key |-> s.key,
     initiator |-> s.initiator,
     eph |-> IF NextCounter(c, s) = 0 /\ s.eph THEN s.key ELSE None]

\* build_and_encrypt advances the send chain; the POST is awaited.
Post(c, n, s) ==
    /\ stage' = [stage EXCEPT ![c]["ui"] = "posting"]
    /\ cur' = [cur EXCEPT ![c]["ui"] = Built(c, s)]
    /\ ref' = [ref EXCEPT ![c]["ui"] = n]

Done(c, t) ==
    /\ stage' = [stage EXCEPT ![c][t] = "idle"]
    /\ cur' = [cur EXCEPT ![c][t] = None]
    /\ ref' = [ref EXCEPT ![c][t] = 0]

\* ensure_session finds none and asks the server for the peer's keys.
SendWithoutSession(c) ==
    /\ stage[c]["ui"] = "idle"
    /\ slot[c] = 0
    /\ c \in Initiators
    /\ stage' = [stage EXCEPT ![c]["ui"] = "send_keys"]
    /\ UNCHANGED <<heap, slot, disk, counter, cur, ref, opened, serverVars, restarts>>

\* The keys arrive: a new session replaces whatever is in _sessions by now, is
\* saved, and encrypts the message.
EnsureSession(c) ==
    /\ stage[c]["ui"] = "send_keys"
    /\ LET n == Len(heap[c]) + 1
           s == NewSession(<<c, n>>, TRUE)
       IN  /\ heap' = [heap EXCEPT ![c] = Append(@, Advanced(s))]
           /\ slot' = [slot EXCEPT ![c] = n]
           /\ disk' = [disk EXCEPT ![c] = s]
           /\ Post(c, n, s)
    /\ UNCHANGED <<counter, opened, serverVars, restarts>>

\* get_keys fails: NetworkFailure or ServerFailure.
EnsureSessionFails(c) ==
    /\ stage[c]["ui"] = "send_keys"
    /\ stage' = [stage EXCEPT ![c]["ui"] = "idle"]
    /\ UNCHANGED <<heap, slot, disk, counter, cur, ref, opened, serverVars, restarts>>

\* The guard on index bounds the messages of one session.
SendWithSession(c) ==
    /\ stage[c]["ui"] = "idle"
    /\ slot[c] # 0
    /\ LET s == heap[c][slot[c]]
       IN  /\ s.index < MaxSends
           /\ heap' = [heap EXCEPT ![c][slot[c]] = Advanced(s)]
           /\ Post(c, slot[c], s)
    /\ UNCHANGED <<slot, disk, counter, opened, serverVars, restarts>>

CounterTaken(e) == \E m \in msgs : m.from = e.from /\ m.counter = e.counter

\* send_message inserts the row; a taken counter is refused.
StorePost(c) ==
    /\ stage[c]["ui"] = "posting"
    /\ ~ CounterTaken(cur[c]["ui"])
    /\ msgs' = msgs \cup {cur[c]["ui"]}
    /\ stage' = [stage EXCEPT ![c]["ui"] = "posted"]
    /\ UNCHANGED <<heap, slot, disk, counter, cur, ref, opened, late, restarts>>

\* 201: the counter moves on, in _counters and in the object the send used,
\* and the sessions go to disk.
PostSucceeds(c) ==
    /\ stage[c]["ui"] = "posted"
    /\ LET e == cur[c]["ui"]
       IN  /\ counter' = [counter EXCEPT ![c] = e.counter + 1]
           /\ heap' = [heap EXCEPT ![c][ref[c]["ui"]].next = e.counter + 1]
    /\ disk' = [disk EXCEPT ![c] = heap'[c][slot[c]]]
    /\ Done(c, "ui")
    /\ UNCHANGED <<slot, opened, serverVars, restarts>>

\* The client gives up the request it waits for; the server may still get it.
GiveUp(c) ==
    late' = IF stage[c]["ui"] = "posting" THEN late \cup {cur[c]["ui"]} ELSE late

\* The exception leaves execute_send_message; the server may have the message.
PostFails(c) ==
    /\ stage[c]["ui"] \in {"posting", "posted"}
    /\ GiveUp(c)
    /\ Done(c, "ui")
    /\ UNCHANGED <<heap, slot, disk, counter, opened, msgs, restarts>>

\* A request that was given up reaches the server after all.
StoreLate(e) ==
    /\ ~ CounterTaken(e)
    /\ msgs' = msgs \cup {e}
    /\ late' = late \ {e}
    /\ UNCHANGED <<clientVars, restarts>>

-----------------------------------------------------------------------------
(* Receiving: _handle_incoming_message (ws), _store_fetched_history_envelope
   (ui) *)

\* decrypt_envelope: the other side of the same root key, at a position not
\* taken yet.
Opens(s, e) ==
    /\ s.key = e.key
    /\ s.initiator # e.initiator
    /\ e.index \notin s.taken

\* Client c opens e with its object n and saves, or drops it.  An envelope of
\* another chain still costs the object that position: advance_to has handed
\* out the key before the tag is found to be wrong.
Decrypt(c, n, e) ==
    IF Opens(heap[c][n], e)
    THEN /\ heap' = [heap EXCEPT ![c][n].taken = @ \cup {e.index}]
         /\ disk' = [disk EXCEPT ![c] = heap'[c][slot[c]]]
         /\ opened' = [opened EXCEPT ![c] = Append(@, e)]
    ELSE /\ heap' = [heap EXCEPT ![c][n].taken = @ \cup {e.index}]
         /\ UNCHANGED <<disk, opened>>

\* An envelope with key material and no session: get_keys.  Without key
\* material it is dropped, which changes nothing.
ReceiveFirst(c, t, e) ==
    /\ stage[c][t] = "idle"
    /\ slot[c] = 0
    /\ e.from # c
    /\ e.eph # None
    /\ stage' = [stage EXCEPT ![c][t] = "boot_keys"]
    /\ cur' = [cur EXCEPT ![c][t] = e]
    /\ UNCHANGED <<heap, slot, disk, counter, ref, opened, serverVars, restarts>>

\* Mutant of Responder: the responder takes the initiator's chains.
ResponderAsInitiator(e) == NewSession(e.eph, TRUE)

\* derive_session_key_as_responder, derive_ratchet_chains(initiator=False).
Responder(e) == NewSession(e.eph, FALSE)

\* The keys arrive: a responder's session replaces whatever is in _sessions.
\* The ws task fetches the keys once more before it decrypts.
BootstrapLive(c) ==
    /\ stage[c]["ws"] = "boot_keys"
    /\ heap' = [heap EXCEPT ![c] = Append(@, Responder(cur[c]["ws"]))]
    /\ slot' = [slot EXCEPT ![c] = Len(heap[c]) + 1]
    /\ disk' = [disk EXCEPT ![c] = Responder(cur[c]["ws"])]
    /\ stage' = [stage EXCEPT ![c]["ws"] = "rekey"]
    /\ ref' = [ref EXCEPT ![c]["ws"] = Len(heap[c]) + 1]
    /\ UNCHANGED <<counter, cur, opened, serverVars, restarts>>

\* The ui task decrypts at once.
BootstrapHistory(c) ==
    /\ stage[c]["ui"] = "boot_keys"
    /\ LET e == cur[c]["ui"]
           s == Responder(e)
           t == IF Opens(s, e) THEN [s EXCEPT !.taken = {e.index}] ELSE s
       IN  /\ heap' = [heap EXCEPT ![c] = Append(@, t)]
           /\ slot' = [slot EXCEPT ![c] = Len(heap[c]) + 1]
           /\ disk' = [disk EXCEPT ![c] = t]
           /\ opened' = IF Opens(s, e) THEN [opened EXCEPT ![c] = Append(@, e)]
                        ELSE opened
    /\ Done(c, "ui")
    /\ UNCHANGED <<counter, serverVars, restarts>>

\* get_keys fails, or the sender's bundle does not verify.
BootstrapFails(c, t) ==
    /\ stage[c][t] = "boot_keys"
    /\ Done(c, t)
    /\ UNCHANGED <<heap, slot, disk, counter, opened, serverVars, restarts>>

\* With a session the envelope is decrypted at once ...
Receive(c, t, e) ==
    /\ stage[c][t] = "idle"
    /\ slot[c] # 0
    /\ e.from # c
    /\ t = "ws" => e.eph = None
    /\ Decrypt(c, slot[c], e)
    /\ UNCHANGED <<slot, counter, stage, cur, ref, serverVars, restarts>>

\* Mutant of ReceiveRekey: a first message for a session that exists is taken
\* for a duplicate.
ReceiveRekeyDuplicate(c, e) ==
    /\ stage[c]["ws"] = "idle"
    /\ slot[c] # 0
    /\ e.from # c
    /\ e.eph # None
    /\ e.counter # 0
    /\ stage' = [stage EXCEPT ![c]["ws"] = "rekey"]
    /\ cur' = [cur EXCEPT ![c]["ws"] = e]
    /\ ref' = [ref EXCEPT ![c]["ws"] = slot[c]]
    /\ UNCHANGED <<heap, slot, disk, counter, opened, serverVars, restarts>>

\* ... except that the ws task awaits the key change check first, if there is
\* key material, and uses the object it looked up before.
ReceiveRekey(c, e) ==
    /\ stage[c]["ws"] = "idle"
    /\ slot[c] # 0
    /\ e.from # c
    /\ e.eph # None
    /\ stage' = [stage EXCEPT ![c]["ws"] = "rekey"]
    /\ cur' = [cur EXCEPT ![c]["ws"] = e]
    /\ ref' = [ref EXCEPT ![c]["ws"] = slot[c]]
    /\ UNCHANGED <<heap, slot, disk, counter, opened, serverVars, restarts>>

OpenRekeyed(c) ==
    /\ stage[c]["ws"] = "rekey"
    /\ Decrypt(c, ref[c]["ws"], cur[c]["ws"])
    /\ Done(c, "ws")
    /\ UNCHANGED <<slot, counter, serverVars, restarts>>

\* Any handler of the client writes all sessions to disk as they are: the key
\* change check, another conversation, exit.
Persist(c) ==
    /\ slot[c] # 0
    /\ disk' = [disk EXCEPT ![c] = heap[c][slot[c]]]
    /\ UNCHANGED <<heap, slot, counter, stage, cur, ref, opened, serverVars, restarts>>

-----------------------------------------------------------------------------
\* The process dies and logs in again: load_sessions makes a new object, and
\* _rehydrate_outbound_counters sets the counter.  _eph_pub_b64 and
\* _conv_dh_pub_b64 are not in sessions.json.
Restart(c) ==
    /\ restarts < MaxRestarts
    /\ restarts' = restarts + 1
    /\ IF disk[c] = None
       THEN /\ slot' = [slot EXCEPT ![c] = 0]
            /\ counter' = [counter EXCEPT ![c] = None]
            /\ UNCHANGED heap
       ELSE /\ heap' = [heap EXCEPT ![c] = Append(@, [disk[c] EXCEPT !.eph = FALSE])]
            /\ slot' = [slot EXCEPT ![c] = Len(heap[c]) + 1]
            /\ counter' = [counter EXCEPT ![c] = disk[c].next]
    /\ stage' = [stage EXCEPT ![c] = [t \in Tasks |-> "idle"]]
    /\ cur' = [cur EXCEPT ![c] = [t \in Tasks |-> None]]
    /\ ref' = [ref EXCEPT ![c] = [t \in Tasks |-> 0]]
    /\ GiveUp(c)
    /\ UNCHANGED <<disk, opened, msgs>>

-----------------------------------------------------------------------------
ClientNext(c) ==
    \/ SendWithoutSession(c) \/ EnsureSession(c) \/ EnsureSessionFails(c)
    \/ SendWithSession(c) \/ StorePost(c) \/ PostSucceeds(c) \/ PostFails(c)
    \/ \E t \in Tasks :
          \/ \E e \in msgs : ReceiveFirst(c, t, e) \/ Receive(c, t, e)
          \/ BootstrapFails(c, t)
    \/ BootstrapLive(c) \/ BootstrapHistory(c)
    \/ \E e \in msgs : ReceiveRekey(c, e)
    \/ OpenRekeyed(c)
    \/ Persist(c)
    \/ Restart(c)

Next ==
    \/ \E c \in Clients : ClientNext(c)
    \/ \E e \in late : StoreLate(e)

Spec == Init /\ [][Next]_vars

\* The event loop resumes a receiving task whose await has completed or timed
\* out.  Nothing is assumed of the users, and nothing of the server.
Fairness ==
    \A c \in Clients :
        /\ WF_vars(BootstrapLive(c) \/ BootstrapFails(c, "ws"))
        /\ WF_vars(OpenRekeyed(c))

FairSpec == Spec /\ Fairness

-----------------------------------------------------------------------------
(* Properties *)

\* Sessions, envelopes and tasks hold what the code puts there, and a task that
\* holds a SessionState object holds one that exists.
TypeOK ==
    /\ heap \in [Clients -> Seq(Session)]
    /\ \A c \in Clients : slot[c] \in 0 .. Len(heap[c])
    /\ disk \in [Clients -> Session \cup {None}]
    /\ counter \in [Clients -> Nat \cup {None}]
    /\ stage \in [Clients -> [Tasks -> {"idle", "send_keys", "posting", "posted",
                                        "boot_keys", "rekey"}]]
    /\ cur \in [Clients -> [Tasks -> Envelope \cup {None}]]
    /\ \A c \in Clients, t \in Tasks : ref[c][t] \in 0 .. Len(heap[c])
    /\ msgs \subseteq Envelope
    /\ late \subseteq Envelope
    /\ opened \in [Clients -> Seq(Envelope)]
    /\ restarts \in 0 .. MaxRestarts

Current(c) == heap[c][slot[c]]

\* Client c has generated key material of its own.
Initiated(c) == \E n \in 1 .. Len(heap[c]) : heap[c][n].key[1] = c

\* The sessions of c and d have the same root key and opposite roles, so that
\* what one sends the other can open (derive_ratchet_chains).
Agree(c, d) ==
    /\ slot[c] # 0
    /\ slot[d] # 0
    /\ Current(c).key = Current(d).key
    /\ Current(c).initiator # Current(d).initiator

\* Two sessions agree, whatever was lost, opened twice, overwritten by the
\* other task or reloaded from disk, unless both clients started one.
SessionsAgree ==
    \A c, d \in Clients :
        c # d /\ slot[c] # 0 /\ slot[d] # 0 =>
            Agree(c, d) \/ (Initiated(c) /\ Initiated(d))

WasOpened(c, e) == \E k \in 1 .. Len(opened[c]) : opened[c][k] = e

\* The ws task gets an envelope that is not opened yet.
Redelivered(c) ==
    \E e \in msgs :
        /\ ~ WasOpened(c, e)
        /\ ReceiveFirst(c, "ws", e) \/ ReceiveRekey(c, e) \/ Receive(c, "ws", e)

\* Client c reconnects often enough: the flush sends what is not opened again
\* and again, and get_keys does not fail every time.  On a connection that
\* stays up nothing is sent again, so this is a hypothesis.
MessagesComeAgain(c) == SF_vars(Redelivered(c)) /\ SF_vars(BootstrapLive(c))

BothInitiated == \A c \in Clients : Initiated(c)

\* Two messages of one client are encrypted with the same message key.
SameKey(e, f) == e.from = f.from /\ e.key = f.key /\ e.index = f.index

\* Client c has opened what d sent, up to messages that share a key.
AllOpened(c, d) ==
    \A e \in msgs :
        e.from = d => WasOpened(c, e) \/ \E f \in msgs \ {e} : SameKey(e, f)

\* Client d has lost the key material of its session before it was stored.
KeyLost(c, d) ==
    /\ slot[c] = 0
    /\ \A e \in msgs : e.from = d => e.eph = None

\* If messages come again, client c opens all that is stored for it, with key
\* material or without, of the initiator or of the responder, however often
\* get_keys fails and whichever task is first, unless both clients started a
\* session, the other one restarted before its key material was stored, or a
\* second bootstrap set the sender's chain back.
StoredIsOpened ==
    \A c, d \in Clients :
        c # d /\ MessagesComeAgain(c) =>
            []<>(AllOpened(c, d) \/ BothInitiated \/ []KeyLost(c, d))

-----------------------------------------------------------------------------
(* Statements of the documentation that the code does not keep *)

\* "Each message gets a unique key": no two stored messages of a client are
\* encrypted with the same message key (send_chain.advance).
MessageKeysDistinct == \A e \in msgs : \A f \in msgs \ {e} : ~ SameKey(e, f)

=============================================================================
