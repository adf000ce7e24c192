------------------------------ MODULE Channel ------------------------------
(***************************************************************************)
(* One direction of one conversation whose session is established: the     *)
(* sending client, the server's messages table, and the receiving client.  *)
(*                                                                         *)
(* The sender runs execute_send_message (client/use_cases/send_message.py),*)
(* one send at a time because the UI message pump awaits it.  The request  *)
(* may be slow, lost, or answered after the sender gave up.  The server's  *)
(* only defence against a repeated counter is the UNIQUE constraint.  The  *)
(* receiver opens envelopes in two asyncio tasks that share one session:   *)
(* the WebSocket task (live pushes and the flush of the offline queue) and *)
(* the UI task (history sync).  decrypt_envelope has no await, so it is    *)
(* one step; every await after it is a point where the other task, or a    *)
(* crash, may come in between.  A restart puts back what                   *)
(* _persist_sessions last wrote.                                           *)
(*                                                                         *)
(* AES-GCM is taken to be perfect: with an honest server the tag verifies  *)
(* exactly when the key at the envelope's chain_index is used, and in one  *)
(* established session both sides hold the same chain.                     *)
(***************************************************************************)
EXTENDS Ratchet

CONSTANTS
    Tasks,         \* receiving asyncio tasks: the WebSocket loop, the UI pump
    None,          \* no envelope
    MaxAttempts,   \* bound: envelopes the sender builds
    MaxFaults      \* bound: restarts, failed local writes and lost ACKs

VARIABLES
    snd,        \* sender memory: send_chain.index and next_outbound_counter
    sndDisk,    \* the same fields in the sender's sessions.json
    pc,         \* where execute_send_message is
    post,       \* the envelope it is sending
    attempts,   \* envelopes built so far; supplies the fresh uuid
    outbox,     \* envelopes in the sender's local_messages
    acked,      \* ids whose row there says "delivered"
    requests,   \* POST /messages requests the server has not handled
    stored,     \* rows of the server's messages table
    delivered,  \* ids of rows with delivered_at set
    ackPush,    \* ids of "ack" events pushed to the sender, not handled yet
    rcv,        \* receiver memory: recv_chain, replay_protector and opened
    rcvDisk,    \* the same in the receiver's sessions.json
    stage,      \* where each receiving task is
    cur,        \* the envelope it is working on
    inbox,      \* ids in the receiver's local_messages
    everOpened, \* history: envelopes any process of the receiver has opened
    cutOff,     \* history: those of them that the last restart took back
    faults      \* faults so far

senderVars == <<snd, sndDisk, pc, post, attempts, outbox, acked>>
serverVars == <<requests, stored, delivered, ackPush>>
receiverVars == <<rcv, rcvDisk, stage, cur, inbox, everOpened, cutOff>>
vars == <<senderVars, serverVars, receiverVars, faults>>

Envelope == [id : Nat, counter : Nat, chain_index : Nat]

\* What a client keeps per session for receiving.  The field opened is a
\* history variable: the envelopes decrypt_envelope returned a plaintext for,
\* in order, as far as this state knows of them; everOpened knows of all.
Receiving ==
    [ recv_chain : Chain,
      replay     : [max_counter : Nat \cup {-1}, seen_ids : Seq(Nat)],
      opened     : Seq(Envelope) ]

Sending == [index : Nat, next_outbound_counter : Nat]

ASSUME ChannelAssumption ==
    /\ None \notin Envelope
    /\ MaxAttempts \in Nat
    /\ MaxFaults \in Nat

\* The envelope e has been opened, as far as the session state s knows.
Opened(s, e) == \E k \in 1 .. Len(s.opened) : s.opened[k] = e

NewSending == [index |-> 0, next_outbound_counter |-> 0]

NewReceiving == [recv_chain |-> NewChain, replay |-> NewReplay, opened |-> <<>>]

Init ==
    /\ snd = NewSending
    /\ sndDisk = NewSending
    /\ pc = "idle"
    /\ post = None
    /\ attempts = 0
    /\ outbox = {}
    /\ acked = {}
    /\ requests = {}
    /\ stored = {}
    /\ delivered = {}
    /\ ackPush = {}
    /\ rcv = NewReceiving
    /\ rcvDisk = NewReceiving
    /\ stage = [t \in Tasks |-> "idle"]
    /\ cur = [t \in Tasks |-> None]
    /\ inbox = {}
    /\ everOpened = {}
    /\ cutOff = {}
    /\ faults = 0

-----------------------------------------------------------------------------
(* The sender: execute_send_message *)

\* build_and_encrypt advances the send chain and stamps the envelope with
\* the index it used and the next counter; the POST then leaves.
BuildAndPost ==
    /\ pc = "idle"
    /\ attempts < MaxAttempts
    /\ post' = [ id          |-> attempts,
                 counter     |-> snd.next_outbound_counter,
                 chain_index |-> snd.index ]
    /\ snd' = Advance(snd)
    /\ attempts' = attempts + 1
    /\ requests' = requests \cup {post'}
    /\ pc' = "awaiting"
    /\ UNCHANGED <<sndDisk, outbox, acked, stored, delivered, ackPush,
                   receiverVars, faults>>

\* The exception of a timeout or of a 409 leaves execute_send_message before
\* the counter is advanced.
SendFails ==
    /\ pc = "awaiting"
    /\ pc' = "idle"
    /\ post' = None
    /\ UNCHANGED <<snd, sndDisk, attempts, outbox, acked, serverVars,
                   receiverVars, faults>>

\* Mutant of SaveSent: the row is written without waiting for the 201.
SaveSentEarly ==
    /\ pc = "awaiting"
    /\ outbox' = outbox \cup {post}
    /\ pc' = "saved"
    /\ UNCHANGED <<snd, sndDisk, post, attempts, acked, serverVars,
                   receiverVars, faults>>

\* The 201 arrived; save_message inserts the row (INSERT OR IGNORE, one row
\* per counter).
SaveSent ==
    /\ pc = "awaiting"
    /\ post \in stored
    /\ outbox' = IF \E m \in outbox : m.counter = post.counter
                 THEN outbox ELSE outbox \cup {post}
    /\ pc' = "saved"
    /\ UNCHANGED <<snd, sndDisk, post, attempts, acked, serverVars,
                   receiverVars, faults>>

\* save_message raises LocalStorageSecurityError: SendMessageBlocked.
SaveSentFails ==
    /\ pc = "awaiting"
    /\ post \in stored
    /\ faults < MaxFaults
    /\ faults' = faults + 1
    /\ pc' = "idle"
    /\ post' = None
    /\ UNCHANGED <<snd, sndDisk, attempts, outbox, acked, serverVars,
                   receiverVars>>

\* Only now does the counter move, and the session goes to disk with it.
FinishSend ==
    /\ pc = "saved"
    /\ snd' = [snd EXCEPT !.next_outbound_counter = post.counter + 1]
    /\ sndDisk' = snd'
    /\ pc' = "idle"
    /\ post' = None
    /\ UNCHANGED <<attempts, outbox, acked, serverVars, receiverVars, faults>>

\* Any other handler of the sender (an incoming message, another
\* conversation's send, exit) writes all sessions to disk as they are.
SenderPersist ==
    /\ sndDisk' = snd
    /\ UNCHANGED <<snd, pc, post, attempts, outbox, acked, serverVars,
                   receiverVars, faults>>

\* The sender's process dies and logs in again: load_sessions and
\* _rehydrate_outbound_counters.
SenderRestart ==
    /\ faults < MaxFaults
    /\ faults' = faults + 1
    /\ snd' = sndDisk
    /\ pc' = "idle"
    /\ post' = None
    /\ UNCHANGED <<sndDisk, attempts, outbox, acked, serverVars, receiverVars>>

\* _handle_ack: an UPDATE that finds no row changes nothing.
HandleAck(id) ==
    /\ id \in ackPush
    /\ ackPush' = ackPush \ {id}
    /\ acked' = IF \E m \in outbox : m.id = id THEN acked \cup {id} ELSE acked
    /\ UNCHANGED <<snd, sndDisk, pc, post, attempts, outbox, requests,
                   stored, delivered, receiverVars, faults>>

-----------------------------------------------------------------------------
(* The server *)

\* Mutant of CounterTaken: only the primary key is unique.
CounterTakenById(e) == \E m \in stored : m.id = e.id

CounterTaken(e) == \E m \in stored : m.counter = e.counter

\* send_message: the INSERT passes UNIQUE(conversation_id, sender_id, counter).
StoreMessage(e) ==
    /\ e \in requests
    /\ ~ CounterTaken(e)
    /\ stored' = stored \cup {e}
    /\ requests' = requests \ {e}
    /\ UNCHANGED <<delivered, ackPush, senderVars, receiverVars, faults>>

\* Mutant of RejectReplay: INSERT OR REPLACE.
RejectReplayReplaces(e) ==
    /\ e \in requests
    /\ CounterTaken(e)
    /\ stored' = {m \in stored : m.counter # e.counter} \cup {e}
    /\ requests' = requests \ {e}
    /\ UNCHANGED <<delivered, ackPush, senderVars, receiverVars, faults>>

\* send_message: IntegrityError on that constraint, 409.
RejectReplay(e) ==
    /\ e \in requests
    /\ CounterTaken(e)
    /\ requests' = requests \ {e}
    /\ UNCHANGED <<stored, delivered, ackPush, senderVars, receiverVars, faults>>

\* The request never reaches the server.
LoseRequest(e) ==
    /\ e \in requests
    /\ requests' = requests \ {e}
    /\ UNCHANGED <<stored, delivered, ackPush, senderVars,
                   receiverVars, faults>>

-----------------------------------------------------------------------------
(* The receiver: _handle_incoming_message, _store_fetched_history_envelope *)

Acceptable(s, e) ==
    /\ Check(s.replay, e.id, e.counter)
    /\ HasKey(s.recv_chain, e.chain_index)

\* decrypt_envelope: check, take the key, decrypt, commit.
DecryptEnvelope(s, e) ==
    [ recv_chain |-> TakeKey(s.recv_chain, e.chain_index),
      replay     |-> Commit(s.replay, e.id, e.counter),
      opened     |-> Append(s.opened, e) ]

\* An envelope reaches a task.  The history sync fetches every stored row,
\* the flush every undelivered one, at any time and any number of times.  An
\* envelope that is not acceptable is logged and dropped, with no change of
\* state and no ACK.
Receive(t, e) ==
    /\ stage[t] = "idle"
    /\ e \in stored
    /\ Acceptable(rcv, e)
    /\ rcv' = DecryptEnvelope(rcv, e)
    /\ stage' = [stage EXCEPT ![t] = "storing"]
    /\ cur' = [cur EXCEPT ![t] = e]
    /\ everOpened' = everOpened \cup {e}
    /\ cutOff' = cutOff \ {e}
    /\ UNCHANGED <<rcvDisk, inbox, senderVars, serverVars, faults>>

\* save_message commits the plaintext.
SaveReceived(t) ==
    /\ stage[t] = "storing"
    /\ inbox' = inbox \cup {cur[t].id}
    /\ stage' = [stage EXCEPT ![t] = "stored"]
    /\ UNCHANGED <<rcv, rcvDisk, cur, everOpened, cutOff, senderVars, serverVars,
                   faults>>

\* save_message raises: the handler returns, the opened envelope is dropped.
SaveReceivedFails(t) ==
    /\ stage[t] = "storing"
    /\ faults < MaxFaults
    /\ faults' = faults + 1
    /\ stage' = [stage EXCEPT ![t] = "idle"]
    /\ cur' = [cur EXCEPT ![t] = None]
    /\ UNCHANGED <<rcv, rcvDisk, inbox, everOpened, cutOff, senderVars, serverVars>>

\* Mutant of PersistReceived: the ACK is sent before the session is on disk.
PersistReceivedSkipped(t) ==
    /\ stage[t] = "stored"
    /\ stage' = [stage EXCEPT ![t] = "acking"]
    /\ UNCHANGED <<rcv, rcvDisk, cur, inbox, everOpened, cutOff, senderVars,
                   serverVars, faults>>

\* _persist_sessions, after the save.
PersistReceived(t) ==
    /\ stage[t] = "stored"
    /\ rcvDisk' = rcv
    /\ stage' = [stage EXCEPT ![t] = "acking"]
    /\ UNCHANGED <<rcv, cur, inbox, everOpened, cutOff, senderVars, serverVars, faults>>

\* _send_delivery_ack reaches the server: mark_delivered_on_ack, then, on the
\* first ACK, a push to the sender, which is lost if the sender is offline.
DeliveryAck(t) ==
    /\ stage[t] = "acking"
    /\ delivered' = delivered \cup {cur[t].id}
    /\ \/ /\ cur[t].id \notin delivered
          /\ ackPush' = ackPush \cup {cur[t].id}
       \/ UNCHANGED ackPush
    /\ stage' = [stage EXCEPT ![t] = "idle"]
    /\ cur' = [cur EXCEPT ![t] = None]
    /\ UNCHANGED <<rcv, rcvDisk, inbox, everOpened, cutOff, requests, stored,
                   senderVars, faults>>

\* The ACK fails; the error is logged and the ACK is never sent again.
LoseAck(t) ==
    /\ stage[t] = "acking"
    /\ faults < MaxFaults
    /\ faults' = faults + 1
    /\ stage' = [stage EXCEPT ![t] = "idle"]
    /\ cur' = [cur EXCEPT ![t] = None]
    /\ UNCHANGED <<rcv, rcvDisk, inbox, everOpened, cutOff, senderVars, serverVars>>

\* Any other handler of the receiver writes all sessions to disk as they are,
\* also while a task waits for its save.
ReceiverPersist ==
    /\ rcvDisk' = rcv
    /\ UNCHANGED <<rcv, stage, cur, inbox, everOpened, cutOff, senderVars, serverVars,
                   faults>>

\* The receiver's process dies and logs in again.  What it had opened since the
\* last _persist_sessions is as if it had never been opened.
ReceiverRestart ==
    /\ faults < MaxFaults
    /\ faults' = faults + 1
    /\ rcv' = rcvDisk
    /\ stage' = [t \in Tasks |-> "idle"]
    /\ cur' = [t \in Tasks |-> None]
    /\ cutOff' = {e \in everOpened : ~ Opened(rcvDisk, e)}
    /\ UNCHANGED <<rcvDisk, inbox, everOpened, senderVars, serverVars>>

-----------------------------------------------------------------------------
SenderNext ==
    \/ BuildAndPost
    \/ SendFails
    \/ SaveSent
    \/ SaveSentFails
    \/ FinishSend
    \/ SenderPersist
    \/ SenderRestart
    \/ \E id \in ackPush : HandleAck(id)

ServerNext ==
    \E e \in requests : StoreMessage(e) \/ RejectReplay(e) \/ LoseRequest(e)

TaskNext(t) ==
    \/ \E e \in stored : Receive(t, e)
    \/ SaveReceived(t)
    \/ SaveReceivedFails(t)
    \/ PersistReceived(t)
    \/ DeliveryAck(t)
    \/ LoseAck(t)

Next ==
    \/ SenderNext
    \/ ServerNext
    \/ \E t \in Tasks : TaskNext(t)
    \/ ReceiverPersist
    \/ ReceiverRestart

Spec == Init /\ [][Next]_vars

\* The event loop resumes a receiving task whose await has completed.  Nothing
\* is assumed of the sender, of the network or of the receiver's user.
Fairness ==
    \A t \in Tasks : WF_vars(SaveReceived(t) \/ PersistReceived(t) \/ DeliveryAck(t))

FairSpec == Spec /\ Fairness

-----------------------------------------------------------------------------
(* Properties *)

\* The fields of the two SessionStates, the tables and the tasks hold what the
\* code puts there; an envelope is in hand exactly while a task is busy.
TypeOK ==
    /\ snd \in Sending
    /\ sndDisk \in Sending
    /\ pc \in {"idle", "awaiting", "saved"}
    /\ post \in Envelope \cup {None}
    /\ attempts \in Nat
    /\ outbox \in SUBSET Envelope
    /\ acked \in SUBSET Nat
    /\ requests \in SUBSET Envelope
    /\ stored \in SUBSET Envelope
    /\ delivered \in SUBSET Nat
    /\ ackPush \in SUBSET Nat
    /\ rcv \in Receiving
    /\ rcvDisk \in Receiving
    /\ stage \in [Tasks -> {"idle", "storing", "stored", "acking"}]
    /\ cur \in [Tasks -> Envelope \cup {None}]
    /\ pc = "idle" <=> post = None
    /\ \A t \in Tasks : stage[t] = "idle" <=> cur[t] = None
    /\ inbox \in SUBSET Nat
    /\ everOpened \in SUBSET Envelope
    /\ cutOff \in SUBSET Envelope
    /\ faults \in Nat

\* The key of a message that was opened, by this process or by one before it, is
\* gone: neither the chain nor the cache of skipped keys can produce it again,
\* whatever the order of arrival and the interleaving of the two tasks
\* (RatchetChain: old keys are not retained; try_skipped pops).  One exception:
\* a restart brings back the key of a message that was opened and not on disk
\* yet.  The server was never told that such a message is delivered.
KeyErased ==
    \A e \in everOpened :
        HasKey(rcv.recv_chain, e.chain_index) => e \in cutOff /\ e.id \notin delivered

\* ReplayProtector.check alone, without the ratchet's help, refuses every
\* message that the session has opened as far as its state knows, although its
\* deque forgets ids: a forgotten id has a counter the window has left behind.
ReplayRefusesOpened ==
    \A k \in 1 .. Len(rcv.opened) :
        ~ Check(rcv.replay, rcv.opened[k].id, rcv.opened[k].counter)

\* No two rows of the messages table were encrypted under the same message
\* key, and chain indices grow with counters, although a restart winds the
\* sender's chain back and retries reuse the counter.
StoredKeysDistinct ==
    \A m, n \in stored :
        /\ m.counter = n.counter => m = n
        /\ m.counter < n.counter => m.chain_index < n.chain_index

\* delivered_at is set only for a message the recipient can no longer lose
\* nor open again: its text is in local_messages, and the sessions.json a
\* restart would load already refuses it.
DeliveredIsDurable ==
    \A e \in stored : e.id \in delivered => e.id \in inbox /\ Opened(rcvDisk, e)

\* What the clients show is true: a row of the sender's store is on the
\* server, and one shown as "delivered" is in the recipient's store.
StatusIsTrue ==
    /\ outbox \subseteq stored
    /\ acked \subseteq delivered
    /\ acked \subseteq inbox

\* The ways the receive path can leave a stored message behind.
OutOfWindow(e) == e.counter <= rcv.replay.max_counter - REPLAY_WINDOW
BeyondSkip(e) == e.chain_index - rcv.recv_chain.index > MAX_SKIP

\* A row that the receiver refuses was opened before, or is behind the replay
\* window, or lies further ahead than one advance_to may skip.  Any other row
\* can still be opened when it comes: no order of arrival, no restart and no
\* step of the other task uses up the key or the counter of a message that was
\* not opened.
RefusedForAReason ==
    \A e \in stored :
        Acceptable(rcv, e) \/ Opened(rcv, e) \/ OutOfWindow(e) \/ BeyondSkip(e)

\* The receiver gets the undelivered row id.
Redeliver(id) ==
    /\ id \notin delivered
    /\ \E t \in Tasks, e \in stored : e.id = id /\ Receive(t, e)

\* The environment in which messages can be expected to arrive: an undelivered
\* row that can be opened is sent once more.  The code sends one again only in
\* the flush of a new connection and when the user opens the chat, and on a
\* connection that lasts neither may ever happen.
RowsComeAgain == \A id \in 0 .. (MaxAttempts - 1) : WF_vars(Redeliver(id))

\* If rows come again, a stored message ends in the recipient's store, or for
\* ever behind the replay window, or for ever further ahead than one advance_to
\* may skip, or opened by a handler that never saved it: there is no other way
\* for the receive path to lose a message, whatever arrives in which order.
StoredIsSaved ==
    RowsComeAgain =>
        \A id \in 0 .. (MaxAttempts - 1) :
            LET Row == {m \in stored : m.id = id}
            IN  Row # {} ~> \/ id \in inbox
                            \/ [](\A e \in Row : OutOfWindow(e))
                            \/ [](\A e \in Row : BeyondSkip(e))
                            \/ [](\A e \in Row : Opened(rcv, e))

-----------------------------------------------------------------------------
(* The mailbox that this implements *)

Ids == 0 .. (MaxAttempts - 1)

MailStatus(id) ==
    IF id \in delivered THEN "delivered"
    ELSE IF \E e \in stored : e.id = id THEN "queued" ELSE "absent"

Mail == INSTANCE Mailbox
        WITH Msgs <- Ids, status <- [id \in Ids |-> MailStatus(id)], opened <- inbox

\* Seen from outside, two racing tasks, retries with a used counter, restarts
\* and repeated deliveries are a mailbox: an id is stored once, its text is
\* saved only after that, and delivery_ack only ever counts a saved message.
ImplementsMailbox == Mail!Spec

-----------------------------------------------------------------------------
(* Statements of the documentation that the code does not keep *)

\* "Same counter/ID mechanism handles retransmission": a sender that is free
\* to retry is going to use a counter the server can still accept.
NextCounterFree ==
    pc = "idle" => \A m \in stored : m.counter # snd.next_outbound_counter

=============================================================================
