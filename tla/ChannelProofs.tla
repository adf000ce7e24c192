--------------------------- MODULE ChannelProofs ---------------------------
(***************************************************************************)
(* Proofs about Channel for every window, skip limit, set of tasks and     *)
(* bound.                                                                  *)
(***************************************************************************)
EXTENDS Channel, FiniteSetTheorems, TLAPS

-----------------------------------------------------------------------------
(* Ratchet and replay operators *)

\* Taking a key leaves a well-formed chain.
LEMMA TakeKeyType ==
    ASSUME NEW chain \in Chain, NEW i \in Nat
    PROVE  TakeKey(chain, i) \in Chain
  BY DEF Chain, TakeKey, AdvanceTo

\* Appending to the deque keeps its element type.
LEMMA DequeType ==
    ASSUME NEW q \in Seq(Nat), NEW id \in Nat
    PROVE  DequeAppend(q, id) \in Seq(Nat)
  <1>. SeenMaxLen \in Nat /\ SeenMaxLen > 0
    BY RatchetAssumption DEF SeenMaxLen
  <1>1. CASE Len(q) < SeenMaxLen
    BY <1>1 DEF DequeAppend
  <1>2. CASE ~ (Len(q) < SeenMaxLen)
    <2>1. q # <<>>
      BY <1>2
    <2>2. Tail(q) \in Seq(Nat)
      BY <2>1
    <2>. QED  BY <1>2, <2>2 DEF DequeAppend
  <1>. QED  BY <1>1, <1>2

\* decrypt_envelope turns a well-formed session into a well-formed session.
LEMMA DecryptType ==
    ASSUME NEW s \in Receiving, NEW e \in Envelope
    PROVE  DecryptEnvelope(s, e) \in Receiving
  <1>1. TakeKey(s.recv_chain, e.chain_index) \in Chain
    BY TakeKeyType DEF Receiving, Envelope
  <1>2. DequeAppend(s.replay.seen_ids, e.id) \in Seq(Nat)
    BY DequeType DEF Receiving, Envelope
  <1>3. Commit(s.replay, e.id, e.counter)
            \in [max_counter : Nat \cup {-1}, seen_ids : Seq(Nat)]
    BY <1>2 DEF Commit, Receiving, Envelope
  <1>4. Append(s.opened, e) \in Seq(Envelope)
    BY DEF Receiving
  <1>. QED  BY <1>1, <1>3, <1>4 DEF DecryptEnvelope, Receiving

-----------------------------------------------------------------------------
(* Type correctness *)

\* The initial state is well typed.
LEMMA TypeInit == Init => TypeOK
  BY ChannelAssumption
  DEF Init, TypeOK, NewSending, Sending, NewReceiving, Receiving, NewChain, Chain,
      NewReplay

\* Every step of sender, server and receiver keeps the types.
LEMMA TypeNext == TypeOK /\ [Next]_vars => TypeOK'
  <1> SUFFICES ASSUME TypeOK, [Next]_vars PROVE TypeOK'
    OBVIOUS
  <1>. USE ChannelAssumption DEF TypeOK
  <1>1. CASE BuildAndPost
    BY <1>1 DEF BuildAndPost, receiverVars, Advance, Sending, Envelope
  <1>2. CASE SendFails
    BY <1>2 DEF SendFails, serverVars, receiverVars
  <1>3. CASE SaveSent
    BY <1>3 DEF SaveSent, serverVars, receiverVars
  <1>4. CASE SaveSentFails
    BY <1>4 DEF SaveSentFails, serverVars, receiverVars
  <1>5. CASE FinishSend
    BY <1>5 DEF FinishSend, serverVars, receiverVars, Sending, Envelope
  <1>6. CASE SenderPersist
    BY <1>6 DEF SenderPersist, serverVars, receiverVars
  <1>7. CASE SenderRestart
    BY <1>7 DEF SenderRestart, serverVars, receiverVars
  <1>8. ASSUME NEW id \in ackPush, HandleAck(id) PROVE TypeOK'
    BY <1>8 DEF HandleAck, receiverVars
  <1>9. ASSUME NEW e \in requests, StoreMessage(e) PROVE TypeOK'
    BY <1>9 DEF StoreMessage, senderVars, receiverVars
  <1>10. ASSUME NEW e \in requests, RejectReplay(e) PROVE TypeOK'
    BY <1>10 DEF RejectReplay, senderVars, receiverVars
  <1>11. ASSUME NEW e \in requests, LoseRequest(e) PROVE TypeOK'
    BY <1>11 DEF LoseRequest, senderVars, receiverVars
  <1>12. ASSUME NEW t \in Tasks, NEW e \in stored, Receive(t, e) PROVE TypeOK'
    <2>1. rcv' \in Receiving
      BY <1>12, DecryptType DEF Receive
    <2>. QED  BY <1>12, <2>1 DEF Receive, senderVars, serverVars
  <1>13. ASSUME NEW t \in Tasks, SaveReceived(t) PROVE TypeOK'
    BY <1>13 DEF SaveReceived, senderVars, serverVars, Envelope
  <1>14. ASSUME NEW t \in Tasks, SaveReceivedFails(t) PROVE TypeOK'
    BY <1>14 DEF SaveReceivedFails, senderVars, serverVars
  <1>15. ASSUME NEW t \in Tasks, PersistReceived(t) PROVE TypeOK'
    BY <1>15 DEF PersistReceived, senderVars, serverVars
  <1>16. ASSUME NEW t \in Tasks, DeliveryAck(t) PROVE TypeOK'
    <2>1. cur[t] \in Envelope /\ cur[t].id \in Nat
      BY <1>16 DEF DeliveryAck, Envelope
    <2>2. /\ delivered' \in SUBSET Nat /\ ackPush' \in SUBSET Nat
          /\ stage' = [stage EXCEPT ![t] = "idle"] /\ cur' = [cur EXCEPT ![t] = None]
      BY <1>16, <2>1 DEF DeliveryAck
    <2>. QED  BY <1>16, <2>2 DEF DeliveryAck, senderVars
  <1>17. ASSUME NEW t \in Tasks, LoseAck(t) PROVE TypeOK'
    BY <1>17 DEF LoseAck, senderVars, serverVars
  <1>18. CASE ReceiverPersist
    BY <1>18 DEF ReceiverPersist, senderVars, serverVars
  <1>19. CASE ReceiverRestart
    BY <1>19 DEF ReceiverRestart, senderVars, serverVars
  <1>20. CASE UNCHANGED vars
    BY <1>20 DEF vars, senderVars, serverVars, receiverVars
  <1>. QED
    BY <1>1, <1>2, <1>3, <1>4, <1>5, <1>6, <1>7, <1>8, <1>9, <1>10, <1>11,
       <1>12, <1>13, <1>14, <1>15, <1>16, <1>17, <1>18, <1>19, <1>20
    DEF Next, SenderNext, ServerNext, TaskNext

\* Every variable keeps its type, and the envelope a coroutine works on is
\* there exactly while it works.
THEOREM TypeCorrect == Spec => []TypeOK
  BY TypeInit, TypeNext, PTL DEF Spec

-----------------------------------------------------------------------------
(* Forward secrecy of opened messages.  HasKey is false of an index exactly *)
(* when the chain is past it and it is not cached; that much is inductive, *)
(* for the state in memory together with the one on disk, which a restart  *)
(* brings back.                                                            *)

Erased(s) ==
    /\ \A i \in s.recv_chain.skipped_keys : i < s.recv_chain.index
    /\ \A k \in 1 .. Len(s.opened) :
           /\ s.opened[k].chain_index < s.recv_chain.index
           /\ s.opened[k].chain_index \notin s.recv_chain.skipped_keys

KeyInv == Erased(rcv) /\ Erased(rcvDisk)

\* Opening an envelope erases its key and brings no erased key back: the keys
\* advance_to caches lie at or beyond the old index.
LEMMA ErasedDecrypt ==
    ASSUME NEW s \in Receiving, NEW e \in Envelope, Erased(s),
           HasKey(s.recv_chain, e.chain_index)
    PROVE  Erased(DecryptEnvelope(s, e))
  <1>. DEFINE ch == s.recv_chain
              new == DecryptEnvelope(s, e)
  <1>1. ch \in Chain /\ e.chain_index \in Nat /\ s.opened \in Seq(Envelope)
    BY DEF Receiving, Envelope
  <1>2. new.recv_chain = TakeKey(ch, e.chain_index) /\ new.opened = Append(s.opened, e)
    BY DEF DecryptEnvelope
  <1>. HIDE DEF new
  <1>2a. \A i \in new.recv_chain.skipped_keys : i < new.recv_chain.index
    <2>1. CASE e.chain_index \in ch.skipped_keys
      BY <1>1, <1>2, <2>1 DEF TakeKey, Chain, Erased
    <2>2. CASE e.chain_index \notin ch.skipped_keys
      BY <1>1, <1>2, <2>2 DEF TakeKey, AdvanceTo, Chain, Erased, HasKey, CanAdvanceTo
    <2>. QED  BY <2>1, <2>2
  <1>3. SUFFICES ASSUME NEW k \in 1 .. Len(new.opened)
                 PROVE  /\ new.opened[k].chain_index < new.recv_chain.index
                        /\ new.opened[k].chain_index \notin new.recv_chain.skipped_keys
    BY <1>2a DEF Erased, new
  <1>4. CASE k \in 1 .. Len(s.opened)
    <2>. DEFINE i == s.opened[k].chain_index
    <2>0. s.opened[k] \in Envelope
      BY <1>1, <1>4
    <2>1. new.opened[k] = s.opened[k] /\ i \in Nat
      <3>1. new.opened[k] = s.opened[k]
        BY <1>1, <1>2, <1>4
      <3>. QED  BY <3>1, <2>0 DEF Envelope
    <2>2. i < ch.index /\ i \notin ch.skipped_keys
      BY <1>4 DEF Erased
    <2>3. CASE e.chain_index \in ch.skipped_keys
      BY <1>1, <1>2, <2>1, <2>2, <2>3 DEF TakeKey, Chain
    <2>4. CASE e.chain_index \notin ch.skipped_keys
      <3>1. e.chain_index >= ch.index
        BY <2>4 DEF HasKey, CanAdvanceTo
      <3>2. TakeKey(ch, e.chain_index) = AdvanceTo(ch, e.chain_index)
        BY <2>4 DEF TakeKey
      <3>. QED  BY <1>1, <1>2, <2>1, <2>2, <3>1, <3>2 DEF AdvanceTo, Chain
    <2>. QED  BY <2>3, <2>4
  <1>5. CASE k \notin 1 .. Len(s.opened)
    <2>1. new.opened[k] = e
      BY <1>1, <1>2, <1>3, <1>5
    <2>2. CASE e.chain_index \in ch.skipped_keys
      <3>1. TakeKey(ch, e.chain_index) = [ch EXCEPT !.skipped_keys = @ \ {e.chain_index}]
        BY <2>2 DEF TakeKey
      <3>2. e.chain_index < ch.index
        BY <2>2 DEF Erased
      <3>. QED  BY <1>1, <1>2, <2>1, <3>1, <3>2 DEF Chain
    <2>3. CASE e.chain_index \notin ch.skipped_keys
      <3>1. TakeKey(ch, e.chain_index) = AdvanceTo(ch, e.chain_index)
        BY <2>3 DEF TakeKey
      <3>. QED  BY <1>1, <1>2, <2>1, <2>3, <3>1 DEF AdvanceTo, Chain, HasKey, CanAdvanceTo
    <2>. QED  BY <2>2, <2>3
  <1>. QED  BY <1>4, <1>5

\* Receive is the only step that changes the receiving state in memory, the
\* persists copy it to disk, and a restart copies it back.
LEMMA KeyNext == TypeOK /\ KeyInv /\ [Next]_vars => KeyInv'
  <1> SUFFICES ASSUME TypeOK, KeyInv, [Next]_vars PROVE KeyInv'
    OBVIOUS
  <1>. USE DEF KeyInv
  <1>1. ASSUME NEW t \in Tasks, NEW e \in stored, Receive(t, e) PROVE KeyInv'
    <2>1. Erased(DecryptEnvelope(rcv, e))
      BY <1>1, ErasedDecrypt DEF TypeOK, Receive, Acceptable
    <2>2. rcv' = DecryptEnvelope(rcv, e) /\ rcvDisk' = rcvDisk
      BY <1>1 DEF Receive
    <2>. QED  BY <2>1, <2>2 DEF Erased
  <1>2. ASSUME NEW t \in Tasks, PersistReceived(t) PROVE KeyInv'
    BY <1>2 DEF PersistReceived, Erased
  <1>3. CASE ReceiverPersist
    BY <1>3 DEF ReceiverPersist, Erased
  <1>4. CASE ReceiverRestart
    BY <1>4 DEF ReceiverRestart, Erased
  <1>5. CASE UNCHANGED <<rcv, rcvDisk>>
    BY <1>5 DEF Erased
  <1>6. CASE SenderNext \/ ServerNext \/ UNCHANGED vars
    BY <1>5, <1>6
    DEF SenderNext, ServerNext, vars, receiverVars, BuildAndPost, SendFails, SaveSent,
        SaveSentFails, FinishSend, SenderPersist, SenderRestart, HandleAck,
        StoreMessage, RejectReplay, LoseRequest
  <1>7. ASSUME NEW t \in Tasks,
               SaveReceived(t) \/ SaveReceivedFails(t) \/ DeliveryAck(t) \/ LoseAck(t)
        PROVE  KeyInv'
    BY <1>5, <1>7 DEF SaveReceived, SaveReceivedFails, DeliveryAck, LoseAck
  <1>. QED  BY <1>1, <1>2, <1>3, <1>4, <1>6, <1>7 DEF Next, TaskNext

\* A position the chain has passed and that is not cached has no key.
LEMMA KeyInvErased ==
    ASSUME TypeOK, KeyInv, NEW e \in Envelope, Opened(rcv, e)
    PROVE  ~ HasKey(rcv.recv_chain, e.chain_index)
  <1>1. rcv.recv_chain.index \in Nat /\ e.chain_index \in Nat
    BY DEF TypeOK, Receiving, Chain, Envelope
  <1>2. PICK k \in 1 .. Len(rcv.opened) : rcv.opened[k] = e
    BY DEF Opened
  <1>3. e.chain_index < rcv.recv_chain.index /\ e.chain_index \notin rcv.recv_chain.skipped_keys
    BY <1>2 DEF KeyInv, Erased
  <1>. QED  BY <1>1, <1>3 DEF HasKey, CanAdvanceTo

-----------------------------------------------------------------------------
(* One message key per stored row.  A restart winds the send chain back to *)
(* what is on disk, so indices are reused on the wire.  What saves the     *)
(* table: the counter moves only after the row is stored, together with    *)
(* the disk copy of the chain, so a request that can still be stored       *)
(* carries the current counter, and every row with a smaller counter used  *)
(* an index the disk copy is already past.                                 *)

SenderInv ==
    /\ sndDisk.next_outbound_counter = snd.next_outbound_counter
    /\ sndDisk.index <= snd.index
    /\ pc # "idle" => /\ post.counter = snd.next_outbound_counter
                      /\ post.chain_index < snd.index
    /\ pc = "saved" => post \in stored
    /\ \A m \in stored \cup requests : m.counter <= snd.next_outbound_counter
    /\ \A m \in stored :
          m.counter < snd.next_outbound_counter => m.chain_index < sndDisk.index
    /\ \A c \in Nat :
          c < snd.next_outbound_counter => \E m \in stored : m.counter = c
    /\ \A n \in stored, e \in requests :
          n.counter < e.counter => n.chain_index < e.chain_index
    /\ StoredKeysDistinct

\* One case per step of the sender, and StoreMessage.
LEMMA SenderInvNext == TypeOK /\ SenderInv /\ [Next]_vars => SenderInv'
  <1> SUFFICES ASSUME TypeOK, SenderInv, [Next]_vars PROVE SenderInv'
    OBVIOUS
  <1>0. /\ snd \in Sending /\ sndDisk \in Sending
        /\ stored \in SUBSET Envelope /\ requests \in SUBSET Envelope
        /\ post \in Envelope \cup {None}
        /\ pc # "idle" => post \in Envelope
    BY DEF TypeOK
  <1>1. CASE BuildAndPost
    <2>1. /\ post' = [id |-> attempts, counter |-> snd.next_outbound_counter,
                      chain_index |-> snd.index]
          /\ snd' = [snd EXCEPT !.index = @ + 1]
          /\ requests' = requests \cup {post'}
          /\ sndDisk' = sndDisk /\ stored' = stored /\ pc' = "awaiting"
      BY <1>1 DEF BuildAndPost, Advance
    <2>2. /\ snd'.index = snd.index + 1
          /\ snd'.next_outbound_counter = snd.next_outbound_counter
      BY <1>0, <2>1 DEF Sending
    <2>3. post'.counter = snd.next_outbound_counter /\ post'.chain_index = snd.index
      BY <2>1
    <2>4. \A n \in stored : n.counter < post'.counter => n.chain_index < post'.chain_index
      BY <1>0, <2>3 DEF SenderInv, Sending, Envelope
    <2>. QED
      BY <1>0, <2>1, <2>2, <2>3, <2>4 DEF SenderInv, StoredKeysDistinct, Sending, Envelope
  <1>2. CASE SendFails \/ SaveSentFails
    BY <1>2 DEF SendFails, SaveSentFails, serverVars, SenderInv, StoredKeysDistinct
  <1>3. CASE SaveSent
    BY <1>3 DEF SaveSent, serverVars, SenderInv, StoredKeysDistinct
  <1>4. CASE FinishSend
    <2>1. /\ snd' = [snd EXCEPT !.next_outbound_counter = post.counter + 1]
          /\ sndDisk' = snd' /\ pc' = "idle"
          /\ stored' = stored /\ requests' = requests
          /\ pc = "saved" /\ post \in stored /\ post \in Envelope
      BY <1>0, <1>4 DEF FinishSend, serverVars, SenderInv
    <2>2. /\ snd'.index = snd.index
          /\ snd'.next_outbound_counter = snd.next_outbound_counter + 1
          /\ post.counter = snd.next_outbound_counter
          /\ post.chain_index < snd.index
      BY <1>0, <2>1 DEF Sending, SenderInv
    <2>3. \A m \in stored : m.counter < snd'.next_outbound_counter
                                => m.chain_index < sndDisk'.index
      <3>1. SUFFICES ASSUME NEW m \in stored, m.counter < snd'.next_outbound_counter
                     PROVE  m.chain_index < snd.index
        BY <2>1, <2>2
      <3>2. CASE m.counter = post.counter
        BY <2>1, <2>2, <3>2 DEF SenderInv, StoredKeysDistinct
      <3>3. CASE m.counter # post.counter
        <4>1. m.counter < snd.next_outbound_counter
          BY <1>0, <2>2, <3>1, <3>3 DEF Sending, Envelope
        <4>. QED  BY <1>0, <4>1 DEF SenderInv, Sending, Envelope
      <3>. QED  BY <3>2, <3>3
    <2>4. \A c \in Nat : c < snd'.next_outbound_counter => \E m \in stored : m.counter = c
      BY <1>0, <2>1, <2>2 DEF SenderInv, Sending, Envelope
    <2>5. \A m \in stored \cup requests : m.counter <= snd'.next_outbound_counter
      BY <1>0, <2>2 DEF SenderInv, Sending, Envelope
    <2>6. sndDisk'.index <= snd'.index
      BY <1>0, <2>1, <2>2 DEF Sending
    <2>. QED
      BY <2>1, <2>3, <2>4, <2>5, <2>6 DEF SenderInv, StoredKeysDistinct
  <1>5. CASE SenderPersist
    <2>1. sndDisk' = snd /\ UNCHANGED <<snd, pc, post, stored, requests>>
      BY <1>5 DEF SenderPersist, serverVars
    <2>2. \A m \in stored : m.counter < snd.next_outbound_counter
                                => m.chain_index < snd.index
      BY <1>0 DEF SenderInv, Sending, Envelope
    <2>. QED  BY <1>0, <2>1, <2>2 DEF SenderInv, StoredKeysDistinct, Sending
  <1>6. CASE SenderRestart
    <2>1. snd' = sndDisk /\ sndDisk' = sndDisk /\ pc' = "idle"
          /\ UNCHANGED <<stored, requests>>
      BY <1>6 DEF SenderRestart, serverVars
    <2>. QED  BY <1>0, <2>1 DEF SenderInv, StoredKeysDistinct, Sending
  <1>7. ASSUME NEW e \in requests, StoreMessage(e) PROVE SenderInv'
    <2>1. /\ stored' = stored \cup {e} /\ requests' = requests \ {e}
          /\ UNCHANGED <<snd, sndDisk, pc, post>>
          /\ \A m \in stored : m.counter # e.counter
      BY <1>7 DEF StoreMessage, CounterTaken, senderVars
    <2>2. e.counter = snd.next_outbound_counter
      <3>1. e.counter \in Nat /\ snd.next_outbound_counter \in Nat
        BY <1>0 DEF Sending, Envelope
      <3>2. e.counter <= snd.next_outbound_counter
        BY DEF SenderInv
      <3>3. ~ (e.counter < snd.next_outbound_counter)
        BY <2>1, <3>1 DEF SenderInv
      <3>. QED  BY <3>1, <3>2, <3>3
    <2>3. \A n \in stored : n.counter < e.counter /\ n.chain_index < e.chain_index
      <3>1. SUFFICES ASSUME NEW n \in stored
                     PROVE  n.counter < e.counter /\ n.chain_index < e.chain_index
        OBVIOUS
      <3>2. n.counter <= e.counter /\ n.counter # e.counter
        BY <2>1, <2>2 DEF SenderInv
      <3>3. n.counter < e.counter
        BY <1>0, <3>2 DEF Envelope
      <3>. QED  BY <3>3 DEF SenderInv
    <2>4. StoredKeysDistinct'
      BY <1>0, <2>1, <2>3 DEF StoredKeysDistinct, SenderInv, Envelope
    <2>5. \A n \in stored', r \in requests' :
              n.counter < r.counter => n.chain_index < r.chain_index
      BY <1>0, <2>1, <2>2 DEF SenderInv, Envelope, Sending
    <2>6. \A m \in stored' :
              m.counter < snd.next_outbound_counter => m.chain_index < sndDisk.index
      BY <1>0, <2>1, <2>2 DEF SenderInv, Envelope, Sending
    <2>. QED  BY <2>1, <2>4, <2>5, <2>6 DEF SenderInv
  <1>8. CASE /\ UNCHANGED <<snd, sndDisk, pc, post, stored>>
             /\ requests' \in SUBSET requests
    BY <1>8 DEF SenderInv, StoredKeysDistinct
  <1>9. ASSUME NEW e \in requests, RejectReplay(e) \/ LoseRequest(e) PROVE SenderInv'
    BY <1>8, <1>9 DEF RejectReplay, LoseRequest, senderVars
  <1>10. ASSUME NEW id \in ackPush, HandleAck(id) PROVE SenderInv'
    BY <1>8, <1>10 DEF HandleAck
  <1>11. ASSUME NEW t \in Tasks, TaskNext(t) PROVE SenderInv'
    BY <1>8, <1>11 DEF TaskNext, Receive, SaveReceived, SaveReceivedFails,
        PersistReceived, DeliveryAck, LoseAck, senderVars, serverVars
  <1>12. CASE ReceiverPersist \/ ReceiverRestart \/ UNCHANGED vars
    BY <1>8, <1>12 DEF ReceiverPersist, ReceiverRestart, vars, senderVars, serverVars
  <1>. QED
    BY <1>1, <1>2, <1>3, <1>4, <1>5, <1>6, <1>7, <1>9, <1>10, <1>11, <1>12
    DEF Next, SenderNext, ServerNext

\* For every number of retries, restarts and late requests, two rows of the
\* messages table never share a counter or a message key, and their chain
\* indices are in the order of their counters.
THEOREM StoredKeysDistinctAlways == Spec => []StoredKeysDistinct
  <1>1. Init => SenderInv
    BY DEF Init, SenderInv, StoredKeysDistinct, NewSending
  <1>2. SenderInv => StoredKeysDistinct
    BY DEF SenderInv
  <1>. QED  BY <1>1, <1>2, TypeInit, TypeNext, SenderInvNext, PTL DEF Spec

-----------------------------------------------------------------------------
(* What an acknowledgement is worth.  The handlers of the receiver save,   *)
(* then persist, then acknowledge; the invariant follows the envelope      *)
(* through those stages.  delivered_at is kept per id, so the ids of rows  *)
(* and requests must be unique.                                            *)

IdsUnique ==
    /\ \A m \in stored \cup requests : m.id < attempts
    /\ \A m, n \in stored \cup requests : m.id = n.id => m = n

StageInv ==
    /\ \A e \in Envelope : Opened(rcvDisk, e) => Opened(rcv, e)
    /\ \A t \in Tasks :
          /\ stage[t] # "idle" => cur[t] \in stored /\ Opened(rcv, cur[t])
          /\ stage[t] \in {"stored", "acking"} => cur[t].id \in inbox
          /\ stage[t] = "acking" => Opened(rcvDisk, cur[t])

AckInv ==
    /\ \A id \in delivered : id \in inbox /\ \E m \in stored : m.id = id
    /\ ackPush \subseteq delivered
    /\ acked \subseteq delivered
    /\ outbox \subseteq stored
    /\ DeliveredIsDurable

DurableInv == IdsUnique /\ StageInv /\ AckInv

\* Every envelope gets the next number as its uuid.
LEMMA IdsNext == TypeOK /\ IdsUnique /\ [Next]_vars => IdsUnique'
  <1> SUFFICES ASSUME TypeOK, IdsUnique, [Next]_vars PROVE IdsUnique'
    OBVIOUS
  <1>1. CASE BuildAndPost
    <2>1. /\ requests' = requests \cup {post'} /\ post'.id = attempts
          /\ stored' = stored /\ attempts' = attempts + 1
      BY <1>1 DEF BuildAndPost
    <2>2. \A m \in stored \cup requests : m.id \in Nat /\ m.id # attempts
      BY DEF TypeOK, IdsUnique, Envelope
    <2>. QED  BY <2>1, <2>2 DEF IdsUnique, TypeOK
  <1>2. CASE attempts' = attempts /\ stored' \cup requests' \in SUBSET (stored \cup requests)
    BY <1>2 DEF IdsUnique
  <1>3. CASE SendFails \/ SaveSent \/ SaveSentFails \/ FinishSend \/ SenderPersist
                \/ SenderRestart
    BY <1>2, <1>3 DEF SendFails, SaveSent, SaveSentFails, FinishSend, SenderPersist,
        SenderRestart, serverVars
  <1>4. ASSUME NEW id \in ackPush, HandleAck(id) PROVE IdsUnique'
    BY <1>2, <1>4 DEF HandleAck
  <1>5. ASSUME NEW e \in requests, StoreMessage(e) \/ RejectReplay(e) \/ LoseRequest(e)
        PROVE  IdsUnique'
    BY <1>2, <1>5 DEF StoreMessage, RejectReplay, LoseRequest, senderVars
  <1>6. ASSUME NEW t \in Tasks, TaskNext(t) PROVE IdsUnique'
    BY <1>2, <1>6 DEF TaskNext, Receive, SaveReceived, SaveReceivedFails,
        PersistReceived, DeliveryAck, LoseAck, senderVars, serverVars
  <1>7. CASE ReceiverPersist \/ ReceiverRestart \/ UNCHANGED vars
    BY <1>2, <1>7 DEF ReceiverPersist, ReceiverRestart, vars, senderVars, serverVars
  <1>. QED
    BY <1>1, <1>3, <1>4, <1>5, <1>6, <1>7 DEF Next, SenderNext, ServerNext

\* Opening an envelope records it and forgets none.
LEMMA OpenedDecrypt ==
    ASSUME NEW s \in Receiving, NEW e \in Envelope
    PROVE  /\ Opened(DecryptEnvelope(s, e), e)
           /\ \A f \in Envelope : Opened(s, f) => Opened(DecryptEnvelope(s, e), f)
  <1>1. DecryptEnvelope(s, e).opened = Append(s.opened, e) /\ s.opened \in Seq(Envelope)
    BY DEF DecryptEnvelope, Receiving
  <1>2. /\ Len(Append(s.opened, e)) = Len(s.opened) + 1
        /\ Append(s.opened, e)[Len(s.opened) + 1] = e
        /\ \A k \in 1 .. Len(s.opened) : Append(s.opened, e)[k] = s.opened[k]
        /\ Len(s.opened) \in Nat
    BY <1>1
  <1>. QED  BY <1>1, <1>2 DEF Opened

\* Every stage of a receiving task is reached through the ones before it.
LEMMA StageNext == TypeOK /\ StageInv /\ [Next]_vars => StageInv'
  <1> SUFFICES ASSUME TypeOK, StageInv, [Next]_vars PROVE StageInv'
    OBVIOUS
  <1>0. /\ rcv \in Receiving /\ stored \in SUBSET Envelope
        /\ stage \in [Tasks -> {"idle", "storing", "stored", "acking"}]
        /\ cur \in [Tasks -> Envelope \cup {None}]
    BY DEF TypeOK
  <1>1. ASSUME NEW t \in Tasks, NEW e \in stored, Receive(t, e) PROVE StageInv'
    <2>1. /\ rcv' = DecryptEnvelope(rcv, e) /\ UNCHANGED <<rcvDisk, inbox, stored>>
          /\ stage' = [stage EXCEPT ![t] = "storing"] /\ cur' = [cur EXCEPT ![t] = e]
      BY <1>1 DEF Receive, serverVars
    <2>2. /\ Opened(rcv', e)
          /\ \A f \in Envelope : Opened(rcv, f) => Opened(rcv', f)
      BY <1>0, <2>1, OpenedDecrypt
    <2>3. \A f : Opened(rcvDisk', f) <=> Opened(rcvDisk, f)
      BY <2>1 DEF Opened
    <2>4. \A u \in Tasks :
            \/ stage'[u] = "storing" /\ cur'[u] = e
            \/ stage'[u] = stage[u] /\ cur'[u] = cur[u]
      BY <1>0, <2>1
    <2>. QED  BY <1>0, <2>1, <2>2, <2>3, <2>4 DEF StageInv
  <1>2. ASSUME NEW t \in Tasks, SaveReceived(t) PROVE StageInv'
    BY <1>0, <1>2 DEF SaveReceived, StageInv, serverVars, Opened
  <1>3. ASSUME NEW t \in Tasks, SaveReceivedFails(t) \/ LoseAck(t) PROVE StageInv'
    BY <1>0, <1>3 DEF SaveReceivedFails, LoseAck, StageInv, serverVars, Opened
  <1>4. ASSUME NEW t \in Tasks, PersistReceived(t) PROVE StageInv'
    <2>1. /\ rcvDisk' = rcv /\ UNCHANGED <<rcv, cur, inbox, stored>>
          /\ stage' = [stage EXCEPT ![t] = "acking"] /\ stage[t] = "stored"
      BY <1>4 DEF PersistReceived, serverVars
    <2>2. \A f : Opened(rcvDisk', f) <=> Opened(rcv, f)
      BY <2>1 DEF Opened
    <2>3. \A f : Opened(rcv', f) <=> Opened(rcv, f)
      BY <2>1 DEF Opened
    <2>4. \A u \in Tasks : \/ u = t /\ stage'[u] = "acking"
                           \/ stage'[u] = stage[u]
      BY <1>0, <2>1
    <2>. QED  BY <1>0, <2>1, <2>2, <2>3, <2>4 DEF StageInv
  <1>5. ASSUME NEW t \in Tasks, DeliveryAck(t) PROVE StageInv'
    BY <1>0, <1>5 DEF DeliveryAck, StageInv, Opened
  <1>6. CASE ReceiverPersist
    <2>1. rcvDisk' = rcv /\ UNCHANGED <<rcv, stage, cur, inbox, stored>>
      BY <1>6 DEF ReceiverPersist, serverVars
    <2>. QED  BY <2>1 DEF StageInv, Opened
  <1>7. CASE ReceiverRestart
    BY <1>7 DEF ReceiverRestart, StageInv, Opened
  <1>8. CASE UNCHANGED receiverVars /\ stored \subseteq stored'
    <2>1. UNCHANGED <<rcv, rcvDisk, stage, cur, inbox>>
      BY <1>8 DEF receiverVars
    <2>2. \A f : (Opened(rcv', f) <=> Opened(rcv, f))
                    /\ (Opened(rcvDisk', f) <=> Opened(rcvDisk, f))
      BY <2>1 DEF Opened
    <2>. QED  BY <1>8, <2>1, <2>2 DEF StageInv
  <1>9. CASE SenderNext \/ ServerNext \/ UNCHANGED vars
    BY <1>8, <1>9
    DEF SenderNext, ServerNext, vars, serverVars, BuildAndPost, SendFails, SaveSent,
        SaveSentFails, FinishSend, SenderPersist, SenderRestart, HandleAck,
        StoreMessage, RejectReplay, LoseRequest
  <1>. QED
    BY <1>1, <1>2, <1>3, <1>4, <1>5, <1>6, <1>7, <1>9 DEF Next, TaskNext

\* delivered grows by DeliveryAck only, outbox by SaveSent, acked by HandleAck.
LEMMA AckNext == TypeOK /\ DurableInv /\ [Next]_vars => AckInv'
  <1> SUFFICES ASSUME TypeOK, DurableInv, [Next]_vars PROVE AckInv'
    OBVIOUS
  <1>. USE DEF DurableInv
  <1>0. /\ stored \in SUBSET Envelope /\ requests \in SUBSET Envelope
        /\ stage \in [Tasks -> {"idle", "storing", "stored", "acking"}]
    BY DEF TypeOK
  <1>1. CASE BuildAndPost \/ SendFails \/ SaveSentFails \/ FinishSend
                \/ SenderPersist \/ SenderRestart
    <2>1. UNCHANGED <<stored, delivered, ackPush, acked, outbox, inbox, rcvDisk>>
      BY <1>1 DEF BuildAndPost, SendFails, SaveSentFails, FinishSend, SenderPersist,
          SenderRestart, serverVars, receiverVars
    <2>. QED  BY <2>1 DEF AckInv, DeliveredIsDurable, Opened
  <1>2. CASE SaveSent
    <2>1. /\ UNCHANGED <<stored, delivered, ackPush, acked, inbox, rcvDisk>>
          /\ outbox' \subseteq outbox \cup {post} /\ post \in stored
      BY <1>2 DEF SaveSent, serverVars, receiverVars
    <2>. QED  BY <2>1 DEF AckInv, DeliveredIsDurable, Opened
  <1>3. ASSUME NEW id \in ackPush, HandleAck(id) PROVE AckInv'
    <2>1. /\ UNCHANGED <<stored, delivered, outbox, inbox, rcvDisk>>
          /\ ackPush' \subseteq ackPush /\ acked' \subseteq acked \cup {id}
      BY <1>3 DEF HandleAck, receiverVars
    <2>. QED  BY <2>1 DEF AckInv, DeliveredIsDurable, Opened
  <1>4. ASSUME NEW e \in requests, StoreMessage(e) PROVE AckInv'
    <2>1. /\ UNCHANGED <<delivered, ackPush, acked, outbox, inbox, rcvDisk>>
          /\ stored' = stored \cup {e}
          /\ e \notin stored
      BY <1>4 DEF StoreMessage, CounterTaken, senderVars, receiverVars
    <2>2. e.id \notin delivered
      BY <2>1 DEF AckInv, IdsUnique
    <2>. QED  BY <2>1, <2>2 DEF AckInv, DeliveredIsDurable, Opened
  <1>5. ASSUME NEW e \in requests, RejectReplay(e) \/ LoseRequest(e) PROVE AckInv'
    <2>1. UNCHANGED <<stored, delivered, ackPush, acked, outbox, inbox, rcvDisk>>
      BY <1>5 DEF RejectReplay, LoseRequest, senderVars, receiverVars
    <2>. QED  BY <2>1 DEF AckInv, DeliveredIsDurable, Opened
  <1>6. ASSUME NEW t \in Tasks,
               (\E e \in stored : Receive(t, e)) \/ SaveReceived(t)
                  \/ SaveReceivedFails(t) \/ LoseAck(t)
        PROVE  AckInv'
    <2>1. /\ UNCHANGED <<stored, delivered, ackPush, acked, outbox, rcvDisk>>
          /\ inbox \subseteq inbox'
      BY <1>6 DEF Receive, SaveReceived, SaveReceivedFails, LoseAck, senderVars, serverVars
    <2>. QED  BY <2>1 DEF AckInv, DeliveredIsDurable, Opened
  <1>7. CASE /\ rcvDisk' = rcv
             /\ UNCHANGED <<stored, delivered, ackPush, acked, outbox, inbox>>
    <2>1. \A e \in stored : Opened(rcvDisk, e) => Opened(rcvDisk', e)
      BY <1>0, <1>7 DEF StageInv, Opened
    <2>. QED  BY <1>7, <2>1 DEF AckInv, DeliveredIsDurable
  <1>8. ASSUME NEW t \in Tasks, PersistReceived(t) PROVE AckInv'
    BY <1>7, <1>8 DEF PersistReceived, senderVars, serverVars
  <1>9. CASE ReceiverPersist
    BY <1>7, <1>9 DEF ReceiverPersist, senderVars, serverVars
  <1>10. ASSUME NEW t \in Tasks, DeliveryAck(t) PROVE AckInv'
    <2>1. /\ UNCHANGED <<stored, acked, outbox, inbox, rcvDisk>>
          /\ delivered' = delivered \cup {cur[t].id}
          /\ ackPush' \subseteq ackPush \cup {cur[t].id}
      BY <1>10 DEF DeliveryAck, senderVars
    <2>2. cur[t] \in stored /\ cur[t].id \in inbox /\ Opened(rcvDisk, cur[t])
      BY <1>10 DEF DeliveryAck, StageInv
    <2>3. \A e \in stored : e.id = cur[t].id => e = cur[t]
      BY <2>2 DEF IdsUnique
    <2>4. DeliveredIsDurable'
      BY <2>1, <2>2, <2>3 DEF AckInv, DeliveredIsDurable, Opened
    <2>. QED  BY <2>1, <2>2, <2>4 DEF AckInv
  <1>11. CASE ReceiverRestart \/ UNCHANGED vars
    <2>1. UNCHANGED <<stored, delivered, ackPush, acked, outbox, inbox, rcvDisk>>
      BY <1>11 DEF ReceiverRestart, vars, senderVars, serverVars, receiverVars
    <2>. QED  BY <2>1 DEF AckInv, DeliveredIsDurable, Opened
  <1>. QED
    BY <1>1, <1>2, <1>3, <1>4, <1>5, <1>6, <1>8, <1>9, <1>10, <1>11
    DEF Next, SenderNext, ServerNext, TaskNext

\* The conjunction of the three parts is an invariant.
LEMMA DurableInvariant == Spec => []DurableInv
  <1>1. Init => DurableInv
    BY DEF Init, DurableInv, IdsUnique, StageInv, AckInv, DeliveredIsDurable, Opened,
        NewReceiving
  <1>2. TypeOK /\ DurableInv /\ [Next]_vars => DurableInv'
    BY IdsNext, StageNext, AckNext DEF DurableInv
  <1>. QED  BY <1>1, <1>2, TypeInit, TypeNext, PTL DEF Spec

\* A message the server counts as delivered is in the recipient's store and
\* is refused by the session a restart of the recipient would load.
THEOREM DeliveredIsDurableAlways == Spec => []DeliveredIsDurable
  <1>1. DurableInv => DeliveredIsDurable
    BY DEF DurableInv, AckInv
  <1>. QED  BY <1>1, DurableInvariant, PTL

\* What the sender's client shows as sent is stored, and what it shows as
\* delivered has reached the recipient's store.
THEOREM StatusIsTrueAlways == Spec => []StatusIsTrue
  <1>1. DurableInv => StatusIsTrue
    BY DEF DurableInv, AckInv, StatusIsTrue
  <1>. QED  BY <1>1, DurableInvariant, PTL

-----------------------------------------------------------------------------
(* Forward secrecy across restarts.  What any process of the receiver has   *)
(* opened is known to the session in memory, or was cut off by a restart    *)
(* and is not on disk either.                                              *)

EverInv ==
    /\ everOpened \subseteq stored
    /\ \A e \in everOpened : Opened(rcv, e) \/ (e \in cutOff /\ ~ Opened(rcvDisk, e))

\* Receive records the envelope in both histories; a restart moves what the
\* disk does not know to cutOff; a persist writes no more than memory knows.
LEMMA EverNext == TypeOK /\ EverInv /\ [Next]_vars => EverInv'
  <1> SUFFICES ASSUME TypeOK, EverInv, [Next]_vars PROVE EverInv'
    OBVIOUS
  <1>0. rcv \in Receiving /\ stored \in SUBSET Envelope
    BY DEF TypeOK
  <1>1. ASSUME NEW t \in Tasks, NEW e \in stored, Receive(t, e) PROVE EverInv'
    <2>1. /\ rcv' = DecryptEnvelope(rcv, e) /\ UNCHANGED <<rcvDisk, stored>>
          /\ everOpened' = everOpened \cup {e} /\ cutOff' = cutOff \ {e}
      BY <1>1 DEF Receive, serverVars
    <2>2. Opened(rcv', e) /\ \A f \in Envelope : Opened(rcv, f) => Opened(rcv', f)
      BY <1>0, <2>1, OpenedDecrypt
    <2>3. \A f : Opened(rcvDisk', f) <=> Opened(rcvDisk, f)
      BY <2>1 DEF Opened
    <2>. QED  BY <1>0, <2>1, <2>2, <2>3 DEF EverInv
  <1>2. ASSUME rcvDisk' = rcv, UNCHANGED <<rcv, stored, everOpened, cutOff>> PROVE EverInv'
    BY <1>2 DEF EverInv, Opened
  <1>3. CASE ReceiverRestart
    BY <1>3 DEF ReceiverRestart, serverVars, EverInv, Opened
  <1>4. ASSUME UNCHANGED <<rcv, rcvDisk, everOpened, cutOff>>, stored \subseteq stored'
        PROVE  EverInv'
    BY <1>4 DEF EverInv, Opened
  <1>5. CASE SenderNext
    BY <1>4, <1>5 DEF SenderNext, BuildAndPost, SendFails, SaveSent, SaveSentFails,
        FinishSend, SenderPersist, SenderRestart, HandleAck, serverVars, receiverVars
  <1>6. CASE ServerNext
    BY <1>4, <1>6 DEF ServerNext, StoreMessage, RejectReplay, LoseRequest, receiverVars
  <1>7. ASSUME NEW t \in Tasks, TaskNext(t) PROVE EverInv'
    <2>1. CASE \E e \in stored : Receive(t, e)
      BY <1>1, <2>1
    <2>2. CASE PersistReceived(t)
      BY <1>2, <2>2 DEF PersistReceived, serverVars
    <2>3. CASE SaveReceived(t) \/ SaveReceivedFails(t) \/ DeliveryAck(t) \/ LoseAck(t)
      BY <1>4, <2>3 DEF SaveReceived, SaveReceivedFails, DeliveryAck, LoseAck, serverVars
    <2>. QED  BY <1>7, <2>1, <2>2, <2>3 DEF TaskNext
  <1>8. CASE ReceiverPersist
    BY <1>2, <1>8 DEF ReceiverPersist, serverVars
  <1>9. CASE UNCHANGED vars
    BY <1>4, <1>9 DEF vars, serverVars, receiverVars
  <1>. QED  BY <1>3, <1>5, <1>6, <1>7, <1>8, <1>9 DEF Next

\* What memory knows has no key, and what was cut off is not on disk, so that
\* it was not acknowledged.
LEMMA EverErased == TypeOK /\ KeyInv /\ DurableInv /\ EverInv => KeyErased
  <1> SUFFICES ASSUME TypeOK, KeyInv, DurableInv, EverInv, NEW e \in everOpened,
                      HasKey(rcv.recv_chain, e.chain_index)
               PROVE  e \in cutOff /\ e.id \notin delivered
    BY DEF KeyErased
  <1>1. e \in stored /\ e \in Envelope
    BY DEF EverInv, TypeOK
  <1>2. ~ Opened(rcv, e)
    BY <1>1, KeyInvErased
  <1>3. e \in cutOff /\ ~ Opened(rcvDisk, e)
    BY <1>2 DEF EverInv
  <1>. QED  BY <1>1, <1>3 DEF DurableInv, AckInv, DeliveredIsDurable

\* A message that any process of the receiver has opened has no key in memory,
\* for every number of restarts, except between a restart that came before its
\* session was saved and the next opening; such a message was never counted as
\* delivered, so the server still has it in its queue.
THEOREM KeyErasedAlways == Spec => []KeyErased
  <1>1. Init => KeyInv /\ EverInv
    BY DEF Init, KeyInv, Erased, NewReceiving, NewChain, EverInv
  <1>. QED  BY <1>1, TypeInit, TypeNext, KeyNext, EverNext, DurableInvariant, EverErased,
              PTL DEF Spec

-----------------------------------------------------------------------------
(* Channel implements Mailbox. *)

\* The sender stops after MaxAttempts envelopes.
AttemptsInv == attempts <= MaxAttempts

\* Only BuildAndPost counts, under its guard.
LEMMA AttemptsNext == TypeOK /\ AttemptsInv /\ [Next]_vars => AttemptsInv'
  <1> SUFFICES ASSUME TypeOK, AttemptsInv, [Next]_vars PROVE AttemptsInv'
    OBVIOUS
  <1>1. CASE BuildAndPost
    BY <1>1, ChannelAssumption DEF BuildAndPost, AttemptsInv, TypeOK
  <1>2. CASE ~ BuildAndPost
    <2>1. attempts' = attempts
      BY <1>2
      DEF Next, SenderNext, ServerNext, TaskNext, SendFails, SaveSent, SaveSentFails,
          FinishSend, SenderPersist, SenderRestart, HandleAck, StoreMessage,
          RejectReplay, LoseRequest, Receive, SaveReceived, SaveReceivedFails,
          PersistReceived, DeliveryAck, LoseAck, ReceiverPersist, ReceiverRestart,
          senderVars, vars
    <2>. QED  BY <2>1 DEF AttemptsInv
  <1>. QED  BY <1>1, <1>2

\* A step that touches neither table nor the recipient's store is invisible.
LEMMA MailStutter ==
    ASSUME UNCHANGED <<stored, delivered, inbox>> PROVE UNCHANGED Mail!vars
  BY DEF Mail!vars, MailStatus

\* The uuid of a row is one of those the sender can have used.
LEMMA StoredIds ==
    ASSUME TypeOK, IdsUnique, AttemptsInv, NEW e \in stored \cup requests
    PROVE  e.id \in Ids
  <1>1. e.id \in Nat /\ e.id < attempts /\ attempts \in Nat
    BY DEF TypeOK, Envelope, IdsUnique
  <1>. QED  BY <1>1, ChannelAssumption DEF AttemptsInv, Ids

\* Every step of the sender, the server and the receiving tasks is a step of one
\* message of the mailbox, or none.
LEMMA MailNext ==
    TypeOK /\ DurableInv /\ AttemptsInv /\ [Next]_vars => [Mail!Next]_Mail!vars
  <1> SUFFICES ASSUME TypeOK, DurableInv, AttemptsInv, [Next]_vars
               PROVE  [Mail!Next]_Mail!vars
    OBVIOUS
  <1>1. ASSUME NEW e \in requests, StoreMessage(e) PROVE [Mail!Next]_Mail!vars
    <2>1. /\ ~ CounterTaken(e) /\ stored' = stored \cup {e}
          /\ delivered' = delivered /\ inbox' = inbox
      BY <1>1 DEF StoreMessage, receiverVars
    <2>2. \A m \in stored : m.id # e.id
      BY <2>1 DEF CounterTaken, DurableInv, IdsUnique
    <2>3. e.id \notin delivered
      BY <2>2 DEF DurableInv, AckInv
    <2>4. e.id \in Ids
      BY StoredIds DEF DurableInv
    <2>5. MailStatus(e.id) = "absent" /\ MailStatus(e.id)' = "queued"
      BY <2>1, <2>2, <2>3 DEF MailStatus
    <2>6. \A id \in Ids : id # e.id => MailStatus(id)' = MailStatus(id)
      BY <2>1 DEF MailStatus
    <2>7. Mail!Take(e.id)
      BY <2>1, <2>4, <2>5, <2>6 DEF Mail!Take
    <2>. QED  BY <2>4, <2>7 DEF Mail!Next
  <1>2. ASSUME NEW t \in Tasks, SaveReceived(t) PROVE [Mail!Next]_Mail!vars
    <2>1. /\ cur[t] \in stored /\ inbox' = inbox \cup {cur[t].id}
          /\ UNCHANGED <<stored, delivered>>
      BY <1>2 DEF SaveReceived, serverVars, DurableInv, StageInv
    <2>2. CASE cur[t].id \in inbox
      <3>1. UNCHANGED <<stored, delivered, inbox>>
        BY <2>1, <2>2
      <3>. QED  BY <3>1, MailStutter
    <2>3. CASE cur[t].id \notin inbox
      <3>1. cur[t].id \in Ids
        BY <2>1, StoredIds DEF DurableInv
      <3>2. MailStatus(cur[t].id) # "absent"
        BY <2>1 DEF MailStatus
      <3>3. \A id \in Ids : MailStatus(id)' = MailStatus(id)
        BY <2>1 DEF MailStatus
      <3>4. Mail!Open(cur[t].id)
        BY <2>1, <2>3, <3>1, <3>2, <3>3 DEF Mail!Open
      <3>. QED  BY <3>1, <3>4 DEF Mail!Next
    <2>. QED  BY <2>2, <2>3
  <1>3. ASSUME NEW t \in Tasks, DeliveryAck(t) PROVE [Mail!Next]_Mail!vars
    <2>1. PICK e \in stored : /\ e.id \in inbox
                              /\ delivered' = delivered \cup {e.id}
                              /\ UNCHANGED <<stored, inbox>>
      BY <1>3 DEF DeliveryAck, DurableInv, StageInv
    <2>2. CASE e.id \in delivered
      <3>1. UNCHANGED <<stored, delivered, inbox>>
        BY <2>1, <2>2
      <3>. QED  BY <3>1, MailStutter
    <2>3. CASE e.id \notin delivered
      <3>1. e.id \in Ids
        BY StoredIds DEF DurableInv
      <3>2. MailStatus(e.id) = "queued" /\ MailStatus(e.id)' = "delivered"
        BY <2>1, <2>3 DEF MailStatus
      <3>3. \A id \in Ids : id # e.id => MailStatus(id)' = MailStatus(id)
        BY <2>1 DEF MailStatus
      <3>4. Mail!Acknowledge(e.id)
        BY <2>1, <3>1, <3>2, <3>3 DEF Mail!Acknowledge
      <3>. QED  BY <3>1, <3>4 DEF Mail!Next
    <2>. QED  BY <2>2, <2>3
  <1>4. CASE SenderNext \/ ReceiverPersist \/ ReceiverRestart \/ UNCHANGED vars
    BY <1>4, MailStutter
    DEF SenderNext, BuildAndPost, SendFails, SaveSent, SaveSentFails, FinishSend,
        SenderPersist, SenderRestart, HandleAck, ReceiverPersist, ReceiverRestart,
        serverVars, receiverVars, vars
  <1>5. ASSUME NEW e \in requests, RejectReplay(e) \/ LoseRequest(e)
        PROVE  [Mail!Next]_Mail!vars
    BY <1>5, MailStutter DEF RejectReplay, LoseRequest, receiverVars
  <1>6. ASSUME NEW t \in Tasks,
               \/ \E e \in stored : Receive(t, e)
               \/ SaveReceivedFails(t)
               \/ PersistReceived(t)
               \/ LoseAck(t)
        PROVE  [Mail!Next]_Mail!vars
    BY <1>6, MailStutter
    DEF Receive, SaveReceivedFails, PersistReceived, LoseAck, serverVars
  <1>. QED
    BY <1>1, <1>2, <1>3, <1>4, <1>5, <1>6 DEF Next, ServerNext, TaskNext

\* Retries, restarts, two receiving tasks and repeated deliveries together
\* implement a mailbox, for every window, skip limit and number of faults.
THEOREM ImplementsMailboxAlways == Spec => ImplementsMailbox
  <1>1. Init => AttemptsInv
    BY ChannelAssumption DEF Init, AttemptsInv
  <1>2. Init => Mail!Init
    BY DEF Init, Mail!Init, MailStatus
  <1>. QED
    BY <1>1, <1>2, TypeInit, TypeNext, AttemptsNext, DurableInvariant, MailNext, PTL
    DEF Spec, ImplementsMailbox, Mail!Spec

-----------------------------------------------------------------------------
(***************************************************************************)
(* Replay protection: why a deque of 2 * REPLAY_WINDOW ids is long enough. *)
(*                                                                         *)
(* Look at the messages in the order in which they were opened.  Their     *)
(* counters are pairwise different (StoredKeysDistinct, and a message is   *)
(* opened once, KeyErased), and each is greater than every earlier one     *)
(* minus the window, because check compared it with the maximum.  If an id *)
(* has left the deque, 2 * REPLAY_WINDOW messages were opened after it.    *)
(* If its counter c were still inside the window, c and the counters of    *)
(* those messages would be 2 * REPLAY_WINDOW + 1 different numbers between *)
(* c - REPLAY_WINDOW + 1 and c + REPLAY_WINDOW - 1: too many.              *)
(***************************************************************************)

LogInv(s) ==
    LET n == Len(s.opened)
        q == s.replay.seen_ids
    IN  /\ Len(q) = IF n < SeenMaxLen THEN n ELSE SeenMaxLen
        /\ \A k \in 1 .. Len(q) : q[k] = s.opened[n - Len(q) + k].id
        /\ \A k \in 1 .. n : /\ s.opened[k] \in stored
                             /\ s.opened[k].counter <= s.replay.max_counter
        /\ \A k \in 1 .. n : \A j \in 1 .. (k - 1) :
              /\ s.opened[k].counter # s.opened[j].counter
              /\ s.opened[k].counter > s.opened[j].counter - REPLAY_WINDOW

ReplayInv == LogInv(rcv) /\ LogInv(rcvDisk)

\* The pigeonhole step, about numbers only: 2w different integers that come
\* after c, all above c - w, cannot all stay below c + w.
LEMMA WindowPigeonHole ==
    ASSUME NEW w \in Nat \ {0}, NEW c \in Int,
           NEW f \in [1 .. 2 * w -> Int],
           \A i \in 1 .. 2 * w : f[i] > c - w /\ f[i] < c + w /\ f[i] # c,
           \A i \in 1 .. 2 * w : \A j \in 1 .. (i - 1) : f[i] # f[j]
    PROVE  FALSE
  <1>. DEFINE S == 1 .. 2 * w
              T == (c - w + 1) .. (c + w - 1)
  <1>1. IsFiniteSet(S) /\ Cardinality(S) = 2 * w
    BY FS_Interval
  <1>2. IsFiniteSet(T) /\ Cardinality(T) = 2 * w - 1
    <2>1. c - w + 1 \in Int /\ c + w - 1 \in Int /\ ~ (c - w + 1 > c + w - 1)
      OBVIOUS
    <2>2. /\ IsFiniteSet(T)
          /\ Cardinality(T) = IF c - w + 1 > c + w - 1 THEN 0
                              ELSE (c + w - 1) - (c - w + 1) + 1
      BY <2>1, FS_Interval
    <2>. QED  BY <2>1, <2>2
  <1>3. f \in [S -> T]
    <2>1. \A i \in S : f[i] \in T
      OBVIOUS
    <2>. QED  BY <2>1
  <1>4. \E x, y \in S : x # y /\ f[x] = f[y]
    <2>1. Cardinality(T) < Cardinality(S)
      BY <1>1, <1>2
    <2>2. IsFiniteSet(S) /\ IsFiniteSet(T)
      BY <1>1, <1>2
    <2>. HIDE DEF S, T
    <2>. QED  BY ONLY <1>3, <2>1, <2>2, FS_PigeonHole
  <1>5. PICK x \in S, y \in S : x # y /\ f[x] = f[y]
    BY <1>4
  <1>6. x \in 1 .. (y - 1) \/ y \in 1 .. (x - 1)
    BY <1>5
  <1>. QED  BY <1>5, <1>6

\* The log invariant makes check refuse every message opened so far.
LEMMA LogInvRefuses ==
    ASSUME NEW s \in Receiving, LogInv(s), NEW k \in 1 .. Len(s.opened)
    PROVE  ~ Check(s.replay, s.opened[k].id, s.opened[k].counter)
  <1>. DEFINE n == Len(s.opened)
              q == s.replay.seen_ids
              w == REPLAY_WINDOW
              c == s.opened[k].counter
              max == s.replay.max_counter
  <1>1. /\ s.opened \in Seq(Envelope) /\ n \in Nat /\ q \in Seq(Nat) /\ max \in Int
        /\ w \in Nat \ {0} /\ SeenMaxLen = 2 * w
    BY RatchetAssumption DEF Receiving, SeenMaxLen
  <1>1a. Len(q) \in Nat /\ k \in Nat /\ 1 <= k /\ k <= n
    BY <1>1
  <1>1b. Len(q) = IF n < 2 * w THEN n ELSE 2 * w
    BY <1>1 DEF LogInv
  <1>2. \A j \in 1 .. n : s.opened[j] \in Envelope /\ s.opened[j].counter \in Nat
    <2>1. \A j \in 1 .. n : s.opened[j] \in Envelope
      BY <1>1
    <2>2. \A e \in Envelope : e.counter \in Nat
      BY DEF Envelope
    <2>. QED  BY <2>1, <2>2
  <1>3. CASE k > n - Len(q)
    <2>1. k - (n - Len(q)) \in 1 .. Len(q)
      <3>. DEFINE L == Len(q)
      <3>1. n \in Nat /\ L \in Nat /\ k \in Nat /\ k <= n /\ k > n - L
        BY <1>1, <1>1a, <1>3
      <3>. HIDE DEF L, n
      <3>. QED  BY <3>1 DEF L
    <2>2. q[k - (n - Len(q))] = s.opened[n - Len(q) + (k - (n - Len(q)))].id
      BY <2>1 DEF LogInv
    <2>3. n - Len(q) + (k - (n - Len(q))) = k
      <3>. DEFINE L == Len(q)
      <3>1. n \in Nat /\ L \in Nat /\ k \in Nat
        BY <1>1, <1>1a
      <3>. HIDE DEF L, n
      <3>2. n - L + (k - (n - L)) = k
        BY <3>1
      <3>. QED  BY <3>2 DEF L
    <2>. QED  BY <2>1, <2>2, <2>3 DEF Check, Seen
  <1>4. CASE ~ (k > n - Len(q))
    <2>1. Len(q) = 2 * w /\ k + 2 * w <= n
      <3>. DEFINE L == Len(q)
      <3>1. /\ n \in Nat /\ L \in Nat /\ k \in Nat /\ 1 <= k /\ w \in Nat
            /\ L = (IF n < 2 * w THEN n ELSE 2 * w) /\ ~ (k > n - L)
        BY <1>1, <1>1a, <1>1b, <1>4
      <3>. HIDE DEF L, n, w
      <3>2. L = 2 * w /\ k + 2 * w <= n
        BY <3>1
      <3>. QED  BY <3>2 DEF L
    <2>2. SUFFICES ASSUME c > max - w PROVE FALSE
      BY DEF Check
    <2>. DEFINE f == [i \in 1 .. 2 * w |-> s.opened[k + i].counter]
    <2>3. \A i \in 1 .. 2 * w : k + i \in 1 .. n /\ k \in 1 .. (k + i - 1)
      BY <1>1, <2>1
    <2>4. f \in [1 .. 2 * w -> Int]
      BY <1>2, <2>3
    <2>5. \A i \in 1 .. 2 * w : f[i] > c - w /\ f[i] # c
      BY <2>3 DEF LogInv
    <2>6. \A i \in 1 .. 2 * w : f[i] <= max
      BY <2>3 DEF LogInv
    <2>7. \A i \in 1 .. 2 * w : f[i] < c + w
      <3>1. SUFFICES ASSUME NEW i \in 1 .. 2 * w PROVE f[i] < c + w
        OBVIOUS
      <3>3. c \in Int
        BY <1>1a, <1>2
      <3>4. max \in Int /\ w \in Int
        BY <1>1
      <3>. HIDE DEF f, c, max, w
      <3>2. f[i] \in Int /\ f[i] <= max /\ max \in Int /\ w \in Int /\ c > max - w
        BY <2>2, <2>4, <2>6, <3>4
      <3>. QED  BY <3>2, <3>3
    <2>8. \A i \in 1 .. 2 * w : \A j \in 1 .. (i - 1) : f[i] # f[j]
      <3>1. SUFFICES ASSUME NEW i \in 1 .. 2 * w, NEW j \in 1 .. (i - 1)
                     PROVE  f[i] # f[j]
        OBVIOUS
      <3>2. j \in 1 .. 2 * w /\ k + j \in 1 .. (k + i - 1)
        BY <1>1
      <3>. QED  BY <2>3, <3>2 DEF LogInv
    <2>9. c \in Int
      BY <1>2
    <2>. HIDE DEF f, c
    <2>. QED  BY <1>1, <2>4, <2>5, <2>7, <2>8, <2>9, WindowPigeonHole
  <1>. QED  BY <1>3, <1>4

\* What appending to the bounded deque leaves in it.
LEMMA DequeAppendElements ==
    ASSUME NEW q \in Seq(Nat), NEW id \in Nat, Len(q) <= SeenMaxLen
    PROVE  LET r == DequeAppend(q, id)
           IN  /\ r \in Seq(Nat)
               /\ Len(q) < SeenMaxLen =>
                     /\ Len(r) = Len(q) + 1 /\ r[Len(q) + 1] = id
                     /\ \A k \in 1 .. Len(q) : r[k] = q[k]
               /\ Len(q) = SeenMaxLen =>
                     /\ Len(r) = Len(q) /\ r[Len(q)] = id
                     /\ \A k \in 1 .. (Len(q) - 1) : r[k] = q[k + 1]
  <1>. DEFINE r == DequeAppend(q, id)
  <1>0. SeenMaxLen \in Nat /\ SeenMaxLen > 0
    BY RatchetAssumption DEF SeenMaxLen
  <1>1. r \in Seq(Nat)
    BY DequeType
  <1>2. CASE Len(q) < SeenMaxLen
    <2>1. r = Append(q, id)
      BY <1>2 DEF DequeAppend
    <2>. QED  BY <1>0, <1>1, <1>2, <2>1
  <1>3. CASE Len(q) = SeenMaxLen
    <2>1. r = Append(Tail(q), id)
      BY <1>0, <1>3 DEF DequeAppend
    <2>2. /\ Tail(q) \in Seq(Nat) /\ Len(Tail(q)) = Len(q) - 1
          /\ \A k \in 1 .. (Len(q) - 1) : Tail(q)[k] = q[k + 1]
      BY <1>0, <1>3
    <2>3. Len(r) = Len(q) /\ r[Len(q)] = id
      BY <1>0, <1>3, <2>1, <2>2
    <2>4. \A k \in 1 .. (Len(q) - 1) : r[k] = q[k + 1]
      BY <1>0, <1>3, <2>1, <2>2
    <2>. QED  BY <1>0, <1>1, <1>3, <2>3, <2>4
  <1>. QED  BY <1>0, <1>2, <1>3

\* Opening an acceptable stored envelope keeps the log invariant.
LEMMA LogInvDecrypt ==
    ASSUME NEW s \in Receiving, NEW e \in Envelope, LogInv(s), Erased(s),
           e \in stored, stored \in SUBSET Envelope, StoredKeysDistinct,
           Acceptable(s, e)
    PROVE  LogInv(DecryptEnvelope(s, e))
  <1>. DEFINE n == Len(s.opened)
              q == s.replay.seen_ids
              max == s.replay.max_counter
              t == DecryptEnvelope(s, e)
  <1>1. /\ s.opened \in Seq(Envelope) /\ n \in Nat /\ q \in Seq(Nat) /\ max \in Int
        /\ Len(q) \in Nat /\ e.id \in Nat /\ e.counter \in Nat
        /\ REPLAY_WINDOW \in Nat \ {0} /\ SeenMaxLen \in Nat /\ SeenMaxLen > 0
    BY RatchetAssumption DEF Receiving, Envelope, SeenMaxLen
  <1>2. /\ t.opened = Append(s.opened, e)
        /\ t.replay.seen_ids = DequeAppend(q, e.id)
        /\ t.replay.max_counter = IF e.counter > max THEN e.counter ELSE max
    BY DEF DecryptEnvelope, Commit
  <1>3. /\ Len(t.opened) = n + 1 /\ t.opened[n + 1] = e
        /\ \A k \in 1 .. n : t.opened[k] = s.opened[k]
    BY <1>1, <1>2
  <1>4. \A k \in 1 .. n : s.opened[k] \in Envelope /\ s.opened[k].counter \in Nat
                             /\ s.opened[k].chain_index \in Nat
    <2>1. \A k \in 1 .. n : s.opened[k] \in Envelope
      BY <1>1
    <2>. QED  BY <2>1 DEF Envelope
  <1>5. Len(q) = IF n < SeenMaxLen THEN n ELSE SeenMaxLen
    BY DEF LogInv
  <1>. HIDE DEF t
  <1>5a. \A k \in 1 .. Len(q) : q[k] = s.opened[n - Len(q) + k].id
    BY DEF LogInv
  <1>6. /\ Len(t.replay.seen_ids) = IF n + 1 < SeenMaxLen THEN n + 1 ELSE SeenMaxLen
        /\ \A k \in 1 .. Len(t.replay.seen_ids) :
              t.replay.seen_ids[k] = t.opened[n + 1 - Len(t.replay.seen_ids) + k].id
    <2>. DEFINE r == t.replay.seen_ids
                M == SeenMaxLen
    <2>0. r = DequeAppend(q, e.id)
      BY <1>2
    <2>. HIDE DEF n, q, r, M
    <2>1. /\ n \in Nat /\ M \in Nat /\ M > 0 /\ Len(q) = IF n < M THEN n ELSE M
          /\ q \in Seq(Nat) /\ e.id \in Nat
      BY <1>1, <1>5 DEF M
    <2>2. /\ Len(q) < M =>
                /\ Len(r) = Len(q) + 1 /\ r[Len(q) + 1] = e.id
                /\ \A k \in 1 .. Len(q) : r[k] = q[k]
          /\ Len(q) = M =>
                /\ Len(r) = Len(q) /\ r[Len(q)] = e.id
                /\ \A k \in 1 .. (Len(q) - 1) : r[k] = q[k + 1]
      <3>1. Len(q) <= SeenMaxLen
        BY <2>1 DEF M
      <3>. QED  BY <2>0, <2>1, <3>1, DequeAppendElements DEF M
    <2>3. CASE n < M
      <3>1. Len(q) = n /\ Len(r) = n + 1 /\ r[n + 1] = e.id
              /\ \A k \in 1 .. n : r[k] = q[k]
        BY <2>1, <2>2, <2>3
      <3>2. \A k \in 1 .. n : q[k] = s.opened[k].id
        <4>1. \A k \in 1 .. n : n - n + k = k
          BY <2>1
        <4>. QED  BY <1>5a, <3>1, <4>1
      <3>3. \A k \in 1 .. (n + 1) : r[k] = t.opened[k].id
        <4>1. \A k \in 1 .. n : r[k] = t.opened[k].id
          BY <1>3, <3>1, <3>2 DEF n
        <4>2. r[n + 1] = t.opened[n + 1].id
          BY <1>3, <3>1 DEF n
        <4>. QED  BY <2>1, <4>1, <4>2
      <3>4. \A k \in 1 .. (n + 1) : n + 1 - (n + 1) + k = k
        BY <2>1
      <3>5. Len(r) = IF n + 1 < M THEN n + 1 ELSE M
        BY <2>1, <2>3, <3>1
      <3>6. \A k \in 1 .. Len(r) : r[k] = t.opened[n + 1 - Len(r) + k].id
        BY <3>1, <3>3, <3>4
      <3>. QED  BY <3>5, <3>6 DEF n, r, M
    <2>4. CASE ~ (n < M)
      <3>1. Len(q) = M /\ Len(r) = M /\ r[M] = e.id
              /\ \A k \in 1 .. (M - 1) : r[k] = q[k + 1]
        BY <2>1, <2>2, <2>4
      <3>2. \A k \in 1 .. M : q[k] = s.opened[n - M + k].id
        BY <1>5a, <3>1 DEF n
      <3>3. ASSUME NEW k \in 1 .. M PROVE r[k] = t.opened[n + 1 - M + k].id
        <4>1. CASE k = M
          <5>1. n + 1 - M + M = n + 1
            BY <2>1
          <5>2. r[M] = t.opened[n + 1].id
            BY <1>3, <3>1 DEF n
          <5>. QED  BY <4>1, <5>1, <5>2
        <4>2. CASE k # M
          <5>1. k \in 1 .. (M - 1) /\ k + 1 \in 1 .. M
            BY <2>1, <4>2
          <5>2. r[k] = s.opened[n - M + (k + 1)].id
            BY <3>1, <3>2, <5>1
          <5>3. n - M + (k + 1) = n + 1 - M + k /\ n + 1 - M + k \in 1 .. n
            BY <2>1, <2>4, <5>1
          <5>4. t.opened[n + 1 - M + k] = s.opened[n + 1 - M + k]
            BY <1>3, <5>3 DEF n
          <5>. QED  BY <5>2, <5>3, <5>4
        <4>. QED  BY <4>1, <4>2
      <3>4. Len(r) = IF n + 1 < M THEN n + 1 ELSE M
        BY <2>1, <2>4, <3>1
      <3>5. \A k \in 1 .. Len(r) : r[k] = t.opened[n + 1 - Len(r) + k].id
        BY <3>1, <3>3
      <3>. QED  BY <3>4, <3>5 DEF n, r, M
    <2>. QED  BY <2>3, <2>4
  <1>7. \A k \in 1 .. n : s.opened[k] \in stored /\ s.opened[k].counter <= max
    BY DEF LogInv
  <1>8. \A k \in 1 .. (n + 1) : /\ t.opened[k] \in stored
                                /\ t.opened[k].counter <= t.replay.max_counter
    <2>1. SUFFICES ASSUME NEW k \in 1 .. (n + 1)
                   PROVE  /\ t.opened[k] \in stored
                          /\ t.opened[k].counter <= t.replay.max_counter
      OBVIOUS
    <2>2. CASE k = n + 1
      BY <1>1, <1>2, <1>3, <2>2
    <2>3. CASE k # n + 1
      <3>1. k \in 1 .. n
        BY <1>1, <2>3
      <3>. QED  BY <1>1, <1>2, <1>3, <1>4, <1>7, <3>1
    <2>. QED  BY <2>2, <2>3
  <1>9. \A j \in 1 .. n : e.counter # s.opened[j].counter
    <2>1. SUFFICES ASSUME NEW j \in 1 .. n, e.counter = s.opened[j].counter
                   PROVE  FALSE
      OBVIOUS
    <2>2. s.opened[j] = e
      BY <1>7, <2>1 DEF StoredKeysDistinct
    <2>3. /\ e.chain_index < s.recv_chain.index
          /\ e.chain_index \notin s.recv_chain.skipped_keys
      BY <2>2 DEF Erased
    <2>4. e.chain_index \in Nat /\ s.recv_chain.index \in Nat
      BY DEF Envelope, Receiving, Chain
    <2>. QED  BY <2>3, <2>4 DEF Acceptable, HasKey, CanAdvanceTo
  <1>10. \A j \in 1 .. n : e.counter > s.opened[j].counter - REPLAY_WINDOW
    <2>1. e.counter > max - REPLAY_WINDOW
      BY DEF Acceptable, Check
    <2>2. \A j \in 1 .. n : s.opened[j].counter \in Nat /\ s.opened[j].counter <= max
      BY <1>4, <1>7
    <2>3. max \in Int /\ e.counter \in Int /\ REPLAY_WINDOW \in Int
      BY <1>1
    <2>. HIDE DEF max, n
    <2>. QED  BY ONLY <2>1, <2>2, <2>3
  <1>11. \A k \in 1 .. (n + 1) : \A j \in 1 .. (k - 1) :
              /\ t.opened[k].counter # t.opened[j].counter
              /\ t.opened[k].counter > t.opened[j].counter - REPLAY_WINDOW
    <2>1. SUFFICES ASSUME NEW k \in 1 .. (n + 1), NEW j \in 1 .. (k - 1)
                   PROVE  /\ t.opened[k].counter # t.opened[j].counter
                          /\ t.opened[k].counter > t.opened[j].counter - REPLAY_WINDOW
      OBVIOUS
    <2>2. j \in 1 .. n
      BY <1>1
    <2>3. CASE k = n + 1
      BY <1>3, <1>9, <1>10, <2>2, <2>3
    <2>4. CASE k # n + 1
      <3>1. k \in 1 .. n
        BY <1>1, <2>4
      <3>. QED  BY <1>3, <2>2, <3>1 DEF LogInv
    <2>. QED  BY <2>3, <2>4
  <1>12. Len(t.opened) = n + 1
    BY <1>3
  <1>13. LogInv(t)
    <2>. DEFINE m == n + 1
    <2>. HIDE DEF n
    <2>1. Len(t.opened) = m
      BY <1>12
    <2>2. /\ Len(t.replay.seen_ids) = IF m < SeenMaxLen THEN m ELSE SeenMaxLen
          /\ \A k \in 1 .. Len(t.replay.seen_ids) :
                t.replay.seen_ids[k] = t.opened[m - Len(t.replay.seen_ids) + k].id
      <3>. DEFINE r == t.replay.seen_ids
      <3>. HIDE DEF r, m
      <3>1. m = n + 1
        BY DEF m
      <3>2. /\ Len(r) = IF n + 1 < SeenMaxLen THEN n + 1 ELSE SeenMaxLen
            /\ \A k \in 1 .. Len(r) : r[k] = t.opened[n + 1 - Len(r) + k].id
        BY <1>6 DEF r
      <3>3. n \in Nat /\ SeenMaxLen \in Nat
        BY <1>1 DEF n
      <3>4. Len(r) = IF m < SeenMaxLen THEN m ELSE SeenMaxLen
        BY ONLY <3>1, <3>2, <3>3
      <3>5. Len(r) \in Nat /\ m \in Nat
        BY ONLY <3>1, <3>3, <3>4
      <3>6. ASSUME NEW k \in 1 .. Len(r) PROVE r[k] = t.opened[m - Len(r) + k].id
        BY ONLY <3>1, <3>2, <3>3, <3>5
      <3>. QED  BY <3>4, <3>6 DEF r
    <2>3. \A k \in 1 .. m : /\ t.opened[k] \in stored
                            /\ t.opened[k].counter <= t.replay.max_counter
      BY <1>8
    <2>4. \A k \in 1 .. m : \A j \in 1 .. (k - 1) :
              /\ t.opened[k].counter # t.opened[j].counter
              /\ t.opened[k].counter > t.opened[j].counter - REPLAY_WINDOW
      BY <1>11
    <2>. HIDE DEF m
    <2>. QED  BY ONLY <2>1, <2>2, <2>3, <2>4 DEF LogInv
  <1>. QED  BY <1>13 DEF t

\* Receive appends an acceptable envelope to the log; every other step copies
\* the receiving state as it is.
LEMMA ReplayNext ==
    TypeOK /\ KeyInv /\ StoredKeysDistinct /\ ReplayInv /\ [Next]_vars => ReplayInv'
  <1> SUFFICES ASSUME TypeOK, KeyInv, StoredKeysDistinct, ReplayInv, [Next]_vars
               PROVE  ReplayInv'
    OBVIOUS
  <1>. USE DEF ReplayInv
  <1>1. ASSUME UNCHANGED <<rcv, rcvDisk>>, stored \subseteq stored' PROVE ReplayInv'
    <2>1. LogInv(rcv)'
      BY <1>1 DEF LogInv, SeenMaxLen
    <2>2. LogInv(rcvDisk)'
      BY <1>1 DEF LogInv, SeenMaxLen
    <2>. QED  BY <2>1, <2>2
  <1>2. ASSUME rcvDisk' = rcv, UNCHANGED <<rcv, stored>> PROVE ReplayInv'
    BY <1>2 DEF LogInv, SeenMaxLen
  <1>3. CASE ReceiverRestart
    BY <1>3 DEF ReceiverRestart, serverVars, LogInv, SeenMaxLen
  <1>4. ASSUME NEW r \in Tasks, NEW e \in stored, Receive(r, e) PROVE ReplayInv'
    <2>1. /\ rcv' = DecryptEnvelope(rcv, e) /\ Acceptable(rcv, e)
          /\ UNCHANGED <<rcvDisk, stored>>
      BY <1>4 DEF Receive, serverVars
    <2>2. rcv \in Receiving /\ e \in Envelope /\ stored \in SUBSET Envelope
      BY DEF TypeOK
    <2>3. LogInv(DecryptEnvelope(rcv, e))
      BY <2>1, <2>2, LogInvDecrypt DEF KeyInv
    <2>4. LogInv(rcv)'
      BY <2>1, <2>3 DEF LogInv, SeenMaxLen
    <2>5. LogInv(rcvDisk)'
      BY <2>1 DEF LogInv, SeenMaxLen
    <2>. QED  BY <2>4, <2>5
  <1>5. CASE SenderNext
    BY <1>1, <1>5 DEF SenderNext, BuildAndPost, SendFails, SaveSent, SaveSentFails,
        FinishSend, SenderPersist, SenderRestart, HandleAck, serverVars, receiverVars
  <1>6. CASE ServerNext
    BY <1>1, <1>6 DEF ServerNext, StoreMessage, RejectReplay, LoseRequest, receiverVars
  <1>7. CASE ReceiverPersist
    BY <1>2, <1>7 DEF ReceiverPersist, serverVars
  <1>8. ASSUME NEW r \in Tasks, TaskNext(r) PROVE ReplayInv'
    <2>1. CASE \E e \in stored : Receive(r, e)
      BY <1>4, <2>1
    <2>2. CASE PersistReceived(r)
      BY <1>2, <2>2 DEF PersistReceived, serverVars
    <2>3. CASE SaveReceived(r) \/ SaveReceivedFails(r) \/ DeliveryAck(r) \/ LoseAck(r)
      BY <1>1, <2>3 DEF SaveReceived, SaveReceivedFails, DeliveryAck, LoseAck, serverVars
    <2>. QED  BY <1>8, <2>1, <2>2, <2>3 DEF TaskNext
  <1>9. CASE UNCHANGED vars
    BY <1>1, <1>9 DEF vars, serverVars, receiverVars
  <1>. QED  BY <1>3, <1>5, <1>6, <1>7, <1>8, <1>9 DEF Next

\* What the log's invariant says of every entry is that check refuses it.
LEMMA ReplayInvRefuses == TypeOK /\ ReplayInv => ReplayRefusesOpened
  BY LogInvRefuses DEF TypeOK, ReplayInv, ReplayRefusesOpened

\* ReplayProtector.check refuses every message that the session state knows as
\* opened, for every window, every skip limit and every number of messages: the bounded deque of
\* ids never lets a replay through (session.py, REPLAY_WINDOW * 2).
THEOREM ReplayRefusesOpenedAlways == Spec => []ReplayRefusesOpened
  <1>1. Init => KeyInv /\ SenderInv
    BY DEF Init, KeyInv, Erased, NewReceiving, NewChain, SenderInv, StoredKeysDistinct,
        NewSending
  <1>2. Init => ReplayInv
    <2>1. ASSUME Init PROVE LogInv(NewReceiving)
      BY RatchetAssumption DEF LogInv, NewReceiving, NewReplay, SeenMaxLen
    <2>. QED  BY <2>1 DEF Init, ReplayInv
  <1>3. SenderInv => StoredKeysDistinct
    BY DEF SenderInv
  <1>. QED  BY <1>1, <1>2, <1>3, TypeInit, TypeNext, KeyNext, SenderInvNext, ReplayNext,
              ReplayInvRefuses, PTL DEF Spec

-----------------------------------------------------------------------------
(* No message is refused for nothing.  Every position the receive chain has *)
(* passed is cached or was spent on a row that was opened, and every id in  *)
(* the deque is that of such a row; rows differ in index and id.            *)

Spent(s) ==
    /\ \A i \in Nat :
          i < s.recv_chain.index =>
              \/ i \in s.recv_chain.skipped_keys
              \/ \E m \in stored : Opened(s, m) /\ m.chain_index = i
    /\ \A j \in 1 .. Len(s.replay.seen_ids) :
          \E m \in stored : Opened(s, m) /\ m.id = s.replay.seen_ids[j]

SpentInv == Spent(rcv) /\ Spent(rcvDisk)

\* What the deque holds after an append was there before, or is new.
LEMMA DequeOrigin ==
    ASSUME NEW q \in Seq(Nat), NEW id \in Nat, NEW j \in 1 .. Len(DequeAppend(q, id))
    PROVE  DequeAppend(q, id)[j] = id \/ \E k \in 1 .. Len(q) : DequeAppend(q, id)[j] = q[k]
  <1>. SeenMaxLen \in Nat /\ SeenMaxLen > 0
    BY RatchetAssumption DEF SeenMaxLen
  <1>1. CASE Len(q) < SeenMaxLen
    <2>1. DequeAppend(q, id) = Append(q, id)
      BY <1>1 DEF DequeAppend
    <2>. QED  BY <2>1
  <1>2. CASE ~ (Len(q) < SeenMaxLen)
    <2>1. DequeAppend(q, id) = Append(Tail(q), id) /\ q # <<>>
      BY <1>2 DEF DequeAppend
    <2>2. /\ Tail(q) \in Seq(Nat) /\ Len(Tail(q)) = Len(q) - 1 /\ Len(q) \in Nat
          /\ \A k \in 1 .. (Len(q) - 1) : Tail(q)[k] = q[k + 1]
      BY <2>1
    <2>3. Len(DequeAppend(q, id)) = Len(q) /\ DequeAppend(q, id)[Len(q)] = id
      BY <2>1, <2>2
    <2>4. CASE j = Len(q)
      BY <2>3, <2>4
    <2>5. CASE j # Len(q)
      <3>1. j \in 1 .. Len(q) /\ Len(q) \in Nat
        BY <2>2, <2>3
      <3>2. j \in 1 .. (Len(q) - 1) /\ j + 1 \in 1 .. Len(q)
        BY <2>5, <3>1
      <3>3. DequeAppend(q, id)[j] = Tail(q)[j]
        BY <2>1, <2>2, <3>2
      <3>. QED  BY <2>2, <3>2, <3>3
    <2>. QED  BY <2>4, <2>5
  <1>. QED  BY <1>1, <1>2

\* decrypt_envelope spends one position, on the row it opens, and caches the
\* ones it steps over.
LEMMA SpentDecrypt ==
    ASSUME TypeOK, NEW s \in Receiving, NEW e \in stored, Spent(s),
           HasKey(s.recv_chain, e.chain_index)
    PROVE  Spent(DecryptEnvelope(s, e))
  <1>. DEFINE ch == s.recv_chain
              new == DecryptEnvelope(s, e)
  <1>1. /\ e \in Envelope /\ stored \in SUBSET Envelope /\ ch \in Chain
        /\ e.chain_index \in Nat /\ e.id \in Nat /\ ch.index \in Nat
        /\ s.replay.seen_ids \in Seq(Nat)
    BY DEF TypeOK, Envelope, Receiving, Chain
  <1>2. /\ new.recv_chain = TakeKey(ch, e.chain_index)
        /\ new.replay.seen_ids = DequeAppend(s.replay.seen_ids, e.id)
    BY DEF DecryptEnvelope, Commit
  <1>3. Opened(new, e) /\ \A m \in stored : Opened(s, m) => Opened(new, m)
    BY <1>1, OpenedDecrypt
  <1>. HIDE DEF new
  <1>4. ASSUME NEW i \in Nat, i < new.recv_chain.index
        PROVE  \/ i \in new.recv_chain.skipped_keys
               \/ \E m \in stored : Opened(new, m) /\ m.chain_index = i
    <2>1. CASE i = e.chain_index
      BY <1>3, <2>1
    <2>2. CASE i # e.chain_index /\ e.chain_index \in ch.skipped_keys
      <3>1. /\ new.recv_chain.index = ch.index
            /\ new.recv_chain.skipped_keys = ch.skipped_keys \ {e.chain_index}
        BY <1>1, <1>2, <2>2 DEF TakeKey, Chain
      <3>. QED  BY <1>3, <1>4, <2>2, <3>1 DEF Spent
    <2>3. CASE i # e.chain_index /\ e.chain_index \notin ch.skipped_keys
      <3>1. /\ new.recv_chain.index = e.chain_index + 1
            /\ new.recv_chain.skipped_keys =
                  ch.skipped_keys \cup (ch.index .. (e.chain_index - 1))
        BY <1>1, <1>2, <2>3 DEF TakeKey, AdvanceTo
      <3>2. i < ch.index \/ i \in ch.index .. (e.chain_index - 1)
        BY <1>1, <1>4, <2>3, <3>1
      <3>. QED  BY <1>3, <3>1, <3>2 DEF Spent
    <2>. QED  BY <2>1, <2>2, <2>3
  <1>5. ASSUME NEW j \in 1 .. Len(new.replay.seen_ids)
        PROVE  \E m \in stored : Opened(new, m) /\ m.id = new.replay.seen_ids[j]
    <2>1. CASE new.replay.seen_ids[j] = e.id
      BY <1>3, <2>1
    <2>2. CASE \E k \in 1 .. Len(s.replay.seen_ids) :
                  new.replay.seen_ids[j] = s.replay.seen_ids[k]
      BY <1>3, <2>2 DEF Spent
    <2>. QED  BY <1>1, <1>2, <1>5, <2>1, <2>2, DequeOrigin
  <1>. QED  BY <1>4, <1>5 DEF Spent, new

\* Only Receive spends; a restart and the persists copy a state as it is.
LEMMA SpentNext == TypeOK /\ SpentInv /\ [Next]_vars => SpentInv'
  <1> SUFFICES ASSUME TypeOK, SpentInv, [Next]_vars PROVE SpentInv'
    OBVIOUS
  <1>. USE DEF SpentInv
  <1>1. ASSUME UNCHANGED <<rcv, rcvDisk>>, stored \subseteq stored' PROVE SpentInv'
    BY <1>1 DEF Spent, Opened
  <1>2. ASSUME rcvDisk' = rcv, UNCHANGED <<rcv, stored>> PROVE SpentInv'
    BY <1>2 DEF Spent, Opened
  <1>3. CASE ReceiverRestart
    BY <1>3 DEF ReceiverRestart, serverVars, Spent, Opened
  <1>4. ASSUME NEW t \in Tasks, NEW e \in stored, Receive(t, e) PROVE SpentInv'
    <2>1. /\ rcv' = DecryptEnvelope(rcv, e) /\ Acceptable(rcv, e)
          /\ UNCHANGED <<rcvDisk, stored>>
      BY <1>4 DEF Receive, serverVars
    <2>2. Spent(DecryptEnvelope(rcv, e))
      BY <2>1, SpentDecrypt DEF TypeOK, Acceptable
    <2>3. Spent(rcv)' /\ Spent(rcvDisk)'
      BY <2>1, <2>2 DEF Spent, Opened
    <2>. QED  BY <2>3
  <1>5. CASE SenderNext
    BY <1>1, <1>5 DEF SenderNext, BuildAndPost, SendFails, SaveSent, SaveSentFails,
        FinishSend, SenderPersist, SenderRestart, HandleAck, serverVars, receiverVars
  <1>6. CASE ServerNext
    BY <1>1, <1>6 DEF ServerNext, StoreMessage, RejectReplay, LoseRequest, receiverVars
  <1>7. CASE ReceiverPersist
    BY <1>2, <1>7 DEF ReceiverPersist, serverVars
  <1>8. ASSUME NEW t \in Tasks, TaskNext(t) PROVE SpentInv'
    <2>1. CASE \E e \in stored : Receive(t, e)
      BY <1>4, <2>1
    <2>2. CASE PersistReceived(t)
      BY <1>2, <2>2 DEF PersistReceived, serverVars
    <2>3. CASE SaveReceived(t) \/ SaveReceivedFails(t) \/ DeliveryAck(t) \/ LoseAck(t)
      BY <1>1, <2>3 DEF SaveReceived, SaveReceivedFails, DeliveryAck, LoseAck, serverVars
    <2>. QED  BY <1>8, <2>1, <2>2, <2>3 DEF TaskNext
  <1>9. CASE UNCHANGED vars
    BY <1>1, <1>9 DEF vars, serverVars, receiverVars
  <1>. QED  BY <1>3, <1>5, <1>6, <1>7, <1>8, <1>9 DEF Next

\* A refused row shares its id or its spent position with an opened row, which
\* is then the row itself, or fails one of the two limits.
LEMMA SpentRefuses ==
    TypeOK /\ SpentInv /\ StoredKeysDistinct /\ IdsUnique => RefusedForAReason
  <1> SUFFICES ASSUME TypeOK, SpentInv, StoredKeysDistinct, IdsUnique, NEW e \in stored,
                      ~ Acceptable(rcv, e), ~ OutOfWindow(e), ~ BeyondSkip(e)
               PROVE  Opened(rcv, e)
    BY DEF RefusedForAReason
  <1>1. /\ e \in Envelope /\ stored \in SUBSET Envelope
        /\ e.counter \in Nat /\ e.chain_index \in Nat
        /\ rcv.replay.max_counter \in Int /\ rcv.recv_chain.index \in Nat
        /\ REPLAY_WINDOW \in Nat /\ MAX_SKIP \in Nat
    BY RatchetAssumption DEF TypeOK, Envelope, Receiving, Chain
  <1>2. CASE Seen(rcv.replay, e.id)
    <2>1. PICK m \in stored : Opened(rcv, m) /\ m.id = e.id
      BY <1>2 DEF Seen, SpentInv, Spent
    <2>2. m = e
      BY <2>1 DEF IdsUnique
    <2>. QED  BY <2>1, <2>2
  <1>3. CASE ~ Seen(rcv.replay, e.id)
    <2>1. Check(rcv.replay, e.id, e.counter)
      BY <1>1, <1>3 DEF Check, OutOfWindow
    <2>2. ~ HasKey(rcv.recv_chain, e.chain_index)
      BY <2>1 DEF Acceptable
    <2>3. e.chain_index < rcv.recv_chain.index
             /\ e.chain_index \notin rcv.recv_chain.skipped_keys
      BY <1>1, <2>2 DEF HasKey, CanAdvanceTo, BeyondSkip
    <2>4. PICK m \in stored : Opened(rcv, m) /\ m.chain_index = e.chain_index
      BY <1>1, <2>3 DEF SpentInv, Spent
    <2>5. m = e
      <3>1. m.counter \in Nat
        BY <1>1 DEF Envelope
      <3>. QED  BY <1>1, <2>4, <3>1 DEF StoredKeysDistinct
    <2>. QED  BY <2>4, <2>5
  <1>. QED  BY <1>2, <1>3

\* For every window and skip limit and any number of messages, restarts and
\* retries, the receiver refuses a stored message only if its session has opened
\* it, or the window has passed it, or it lies beyond the skip limit.
THEOREM RefusedForAReasonAlways == Spec => []RefusedForAReason
  <1>1. Init => SenderInv /\ SpentInv
    BY DEF Init, SenderInv, StoredKeysDistinct, NewSending, SpentInv, Spent, NewReceiving,
        NewChain, NewReplay
  <1>2. SenderInv => StoredKeysDistinct
    BY DEF SenderInv
  <1>3. DurableInv => IdsUnique
    BY DEF DurableInv
  <1>. QED  BY <1>1, <1>2, <1>3, TypeInit, TypeNext, SenderInvNext, DurableInvariant,
              SpentNext, SpentRefuses, PTL DEF Spec
=============================================================================
