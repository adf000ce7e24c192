--------------------------- MODULE DeliveryProofs ---------------------------
(***************************************************************************)
(* Theorems about module Delivery, for every set of messages and every     *)
(* number of connections.                                                  *)
(***************************************************************************)
EXTENDS Delivery, TLAPS

\* A connection id, None and the handler's own states are told apart.
LEMMA ConnsApart ==
    /\ None \notin Conns
    /\ \A c \in Conns : c # "none" /\ c # "committed" /\ c # "done"
  BY DeliveryAssumption

\* The initial state is well typed.
LEMMA TypeInit == Init => TypeOK
  <1> SUFFICES ASSUME Init PROVE TypeOK
    OBVIOUS
  <1>1. wire \in [Conns -> Seq(Msgs)]
    <2>1. <<>> \in Seq(Msgs)
      OBVIOUS
    <2>. QED  BY <2>1 DEF Init
  <1>2. alive \in [Conns -> BOOLEAN] /\ valid \in BOOLEAN
    BY DEF Init
  <1>. QED  BY <1>1, <1>2 DEF Init, TypeOK

\* Every step of server, connections and client keeps the types.
LEMMA TypeNext == TypeOK /\ [Next]_vars => TypeOK'
  <1> SUFFICES ASSUME TypeOK, [Next]_vars PROVE TypeOK'
    OBVIOUS
  <1>. USE DEF TypeOK, serverVars, clientVars
  <1>1. ASSUME NEW m \in Msgs, MessageNext(m) PROVE TypeOK'
    <2>1. CASE Post(m)
      BY <2>1 DEF Post
    <2>2. CASE PushRead(m)
      BY <2>2 DEF PushRead
    <2>3. ASSUME NEW c \in Conns, PushSend(m, c) PROVE TypeOK'
      BY <2>3 DEF PushSend, SendText
    <2>4. ASSUME NEW c \in Conns, PushFail(m, c) PROVE TypeOK'
      BY <2>4 DEF PushFail
    <2>5. CASE AckRead(m) \/ AckLost(m)
      BY <2>5 DEF AckRead, AckLost
    <2>6. CASE AckWrite(m)
      BY <2>6 DEF AckWrite
    <2>7. CASE DeleteAged(m)
      BY <2>7 DEF DeleteAged
    <2>8. CASE SyncHistory(m)
      BY <2>8 DEF SyncHistory
    <2>. QED  BY <1>1, <2>1, <2>2, <2>3, <2>4, <2>5, <2>6, <2>7, <2>8 DEF MessageNext
  <1>2. ASSUME NEW c \in Conns, ConnectionNext(c) PROVE TypeOK'
    <2>1. CASE Connect(c)
      BY <2>1 DEF Connect
    <2>2. CASE Register(c) \/ AuthFails(c) \/ FlushDone(c) \/ Disconnect(c)
      BY <2>2 DEF Register, AuthFails, FlushDone, Disconnect
    <2>3. CASE FlushRead(c)
      BY <2>3 DEF FlushRead, Undelivered
    <2>4. CASE FlushSend(c)
      BY <2>4 DEF FlushSend, SendText
    <2>5. CASE FlushBreak(c)
      BY <2>5 DEF FlushBreak
    <2>6. CASE SocketDies(c)
      BY <2>6 DEF SocketDies
    <2>7. CASE Handle(c)
      BY <2>7 DEF Handle
    <2>8. CASE HandleTooEarly(c)
      BY <2>8 DEF HandleTooEarly
    <2>9. CASE AuthRefused(c)
      BY <2>9 DEF AuthRefused
    <2>. QED  BY <1>2, <2>1, <2>2, <2>3, <2>4, <2>5, <2>6, <2>7, <2>8, <2>9
              DEF ConnectionNext
  <1>3. CASE ClientNotices \/ HandshakeDone
    BY <1>3 DEF ClientNotices, HandshakeDone
  <1>4. CASE HandshakeFails \/ ClientRestart
    <2>1. LeaveLogin
      BY <1>4 DEF HandshakeFails, ClientRestart
    <2>2. <<>> \in Seq(Msgs)
      OBVIOUS
    <2>3. wire' \in [Conns -> Seq(Msgs)]
      BY <2>1, <2>2 DEF LeaveLogin
    <2>4. alive' \in [Conns -> BOOLEAN] /\ valid' \in BOOLEAN
      BY <2>1 DEF LeaveLogin
    <2>. QED  BY <2>1, <2>3, <2>4 DEF LeaveLogin
  <1>5. CASE LoginDone \/ Login \/ TokenExpires
    BY <1>5 DEF LoginDone, Login, TokenExpires
  <1>6. CASE UNCHANGED vars
    BY <1>6 DEF vars
  <1>. QED  BY <1>1, <1>2, <1>3, <1>4, <1>5, <1>6 DEF Next

\* Every variable keeps its type (all handlers of Delivery).
THEOREM TypeCorrect == Spec => []TypeOK
  BY TypeInit, TypeNext, PTL DEF Spec

-----------------------------------------------------------------------------
(* RegisteredMissesNothing is inductive as it stands.  The premise is made *)
(* true only by FlushRead, which takes every undelivered message into the  *)
(* snapshot; a message becomes undelivered only with its handler           *)
(* "committed"; the handler then finds the connection the registry holds.  *)

\* No step of push, flush, registry, ACK or client breaks the promise.
LEMMA MissesNext ==
    TypeOK /\ RegisteredMissesNothing /\ [Next]_vars => RegisteredMissesNothing'
  <1> SUFFICES ASSUME TypeOK, RegisteredMissesNothing, [Next]_vars,
                      NEW c \in Conns, NEW m \in Msgs,
                      registry' = c, alive'[c], phase'[c] \in {"flushing", "loop"},
                      row'[m] = "undelivered"
               PROVE  m \in sent'[c] \cup snapshot'[c] \/ pusher'[m] \in {"committed", c}
    BY DEF RegisteredMissesNothing
  <1>. USE DEF TypeOK, serverVars, clientVars
  \* Steps that leave the premise and what it promises alone.
  <1>1. ASSUME registry = c, alive[c], phase[c] \in {"flushing", "loop"},
               row[m] = "undelivered",
               m \in sent[c] \cup snapshot[c] => m \in sent'[c] \cup snapshot'[c],
               pusher[m] \in {"committed", c} =>
                   \/ pusher'[m] \in {"committed", c}
                   \/ m \in sent'[c]
        PROVE  m \in sent'[c] \cup snapshot'[c] \/ pusher'[m] \in {"committed", c}
    BY <1>1 DEF RegisteredMissesNothing
  <1>2. ASSUME NEW n \in Msgs, MessageNext(n)
        PROVE  m \in sent'[c] \cup snapshot'[c] \/ pusher'[m] \in {"committed", c}
    <2>1. CASE Post(n)
      BY <1>1, <2>1 DEF Post
    <2>2. CASE PushRead(n)
      BY <1>1, <2>2, ConnsApart DEF PushRead
    <2>3. ASSUME NEW d \in Conns, PushSend(n, d)
          PROVE  m \in sent'[c] \cup snapshot'[c] \/ pusher'[m] \in {"committed", c}
      BY <1>1, <2>3, ConnsApart DEF PushSend, SendText
    <2>4. ASSUME NEW d \in Conns, PushFail(n, d)
          PROVE  m \in sent'[c] \cup snapshot'[c] \/ pusher'[m] \in {"committed", c}
      BY <2>4, ConnsApart DEF PushFail
    <2>5. CASE AckRead(n) \/ AckLost(n) \/ SyncHistory(n)
      BY <1>1, <2>5 DEF AckRead, AckLost, SyncHistory
    <2>6. CASE AckWrite(n)
      BY <1>1, <2>6 DEF AckWrite
    <2>7. CASE DeleteAged(n)
      BY <1>1, <2>7 DEF DeleteAged
    <2>. QED  BY <1>2, <2>1, <2>2, <2>3, <2>4, <2>5, <2>6, <2>7 DEF MessageNext
  <1>3. ASSUME NEW d \in Conns, ConnectionNext(d)
        PROVE  m \in sent'[c] \cup snapshot'[c] \/ pusher'[m] \in {"committed", c}
    <2>1. CASE Connect(d)
      BY <1>1, <2>1 DEF Connect
    <2>2. CASE Register(d)
      BY <2>2 DEF Register
    <2>3. CASE AuthFails(d) \/ FlushDone(d)
      BY <1>1, <2>3 DEF AuthFails, FlushDone
    <2>4. CASE FlushRead(d)
      <3>1. CASE d = c
        BY <2>4, <3>1 DEF FlushRead, Undelivered
      <3>2. CASE d # c
        BY <1>1, <2>4, <3>2 DEF FlushRead
      <3>. QED  BY <3>1, <3>2
    <2>5. CASE FlushSend(d)
      BY <1>1, <2>5 DEF FlushSend, SendText
    <2>6. CASE FlushBreak(d)
      BY <1>1, <2>6 DEF FlushBreak
    <2>7. CASE Disconnect(d)
      BY <2>7, ConnsApart DEF Disconnect
    <2>8. CASE SocketDies(d)
      BY <1>1, <2>8 DEF SocketDies
    <2>9. CASE Handle(d) \/ HandleTooEarly(d)
      BY <1>1, <2>9 DEF Handle, HandleTooEarly
    <2>10. CASE AuthRefused(d)
      BY <1>1, <2>10 DEF AuthRefused
    <2>. QED  BY <1>3, <2>1, <2>2, <2>3, <2>4, <2>5, <2>6, <2>7, <2>8, <2>9, <2>10
              DEF ConnectionNext
  <1>4. CASE ClientNotices \/ LoginDone \/ Login \/ HandshakeDone \/ TokenExpires
    BY <1>1, <1>4 DEF ClientNotices, LoginDone, Login, HandshakeDone, TokenExpires
  <1>5. CASE HandshakeFails \/ ClientRestart
    BY <1>1, <1>5 DEF HandshakeFails, ClientRestart, LeaveLogin
  <1>6. CASE UNCHANGED vars
    BY <1>1, <1>6 DEF vars
  <1>. QED  BY <1>2, <1>3, <1>4, <1>5, <1>6 DEF Next

\* No message falls between the flush of the offline queue and the push of
\* send_message, for any number of messages and connections.
THEOREM RegisteredMissesNothingAlways == Spec => []RegisteredMissesNothing
  <1>1. Init => RegisteredMissesNothing
    BY ConnsApart DEF Init, RegisteredMissesNothing
  <1>. QED  BY <1>1, TypeInit, TypeNext, MissesNext, PTL DEF Spec

-----------------------------------------------------------------------------
(* delivered_at: an ACK in any stage is for a message the client has. *)

AckInv ==
    /\ acks \subseteq got
    /\ ackSeen \subseteq got
    /\ DeliveredWasOpened

\* acks grows only with got, ackSeen from acks, and delivered rows from ackSeen.
LEMMA AckNext == TypeOK /\ AckInv /\ [Next]_vars => AckInv'
  <1> SUFFICES ASSUME TypeOK, AckInv, [Next]_vars PROVE AckInv'
    OBVIOUS
  <1>. USE DEF TypeOK, AckInv, DeliveredWasOpened, serverVars, clientVars
  <1>1. ASSUME NEW m \in Msgs, MessageNext(m) PROVE AckInv'
    <2>1. CASE Post(m)
      BY <2>1 DEF Post
    <2>2. CASE PushRead(m)
      BY <2>2 DEF PushRead
    <2>3. CASE \E c \in Conns : PushSend(m, c) \/ PushFail(m, c)
      BY <2>3 DEF PushSend, PushFail
    <2>4. CASE AckRead(m) \/ AckLost(m)
      BY <2>4 DEF AckRead, AckLost
    <2>5. CASE AckWrite(m)
      BY <2>5 DEF AckWrite
    <2>6. CASE DeleteAged(m)
      BY <2>6 DEF DeleteAged
    <2>7. CASE SyncHistory(m)
      BY <2>7 DEF SyncHistory
    <2>. QED  BY <1>1, <2>1, <2>2, <2>3, <2>4, <2>5, <2>6, <2>7 DEF MessageNext
  <1>2. ASSUME NEW c \in Conns, ConnectionNext(c) PROVE AckInv'
    <2>1. CASE Handle(c)
      BY <2>1 DEF Handle
    <2>2. CASE ~ Handle(c)
      BY <1>2, <2>2 DEF ConnectionNext, Connect, Register, AuthRefused, AuthFails, FlushRead,
          FlushSend, FlushBreak, FlushDone, Disconnect, SocketDies, HandleTooEarly
    <2>. QED  BY <2>1, <2>2
  <1>3. CASE \/ ClientNotices \/ ClientRestart \/ LoginDone
             \/ Login \/ HandshakeDone \/ HandshakeFails \/ TokenExpires
    BY <1>3 DEF ClientNotices, ClientRestart, LoginDone, Login, HandshakeDone,
        HandshakeFails, LeaveLogin, TokenExpires
  <1>4. CASE UNCHANGED vars
    BY <1>4 DEF vars
  <1>. QED  BY <1>1, <1>2, <1>3, <1>4 DEF Next

\* A row says delivered only for a message the recipient opened and saved,
\* whatever was pushed, flushed, lost or sent twice.
THEOREM DeliveredWasOpenedAlways == Spec => []DeliveredWasOpened
  <1>1. Init => AckInv
    BY DEF Init, AckInv, DeliveredWasOpened
  <1>2. AckInv => DeliveredWasOpened
    BY DEF AckInv
  <1>. QED  BY <1>1, <1>2, TypeInit, TypeNext, AckNext, PTL DEF Spec

-----------------------------------------------------------------------------
(* Delivery implements Mailbox.  A frame is only ever of a stored message: *)
(* what is pushed, in a snapshot or on a wire has a row, or had one.       *)

PostedInv ==
    /\ \A m \in Msgs : pusher[m] # "none" => row[m] # "absent"
    /\ \A c \in Conns : \A m \in snapshot[c] : row[m] # "absent"
    /\ \A c \in Conns : \A k \in 1 .. Len(wire[c]) : row[wire[c][k]] # "absent"

\* send_text appends a frame of a stored message to one wire, or loses it.
LEMMA SendPosted ==
    ASSUME TypeOK, PostedInv, NEW c \in Conns, NEW m \in Msgs, SendText(c, m),
           row[m] # "absent", row' = row
    PROVE  \A d \in Conns : \A k \in 1 .. Len(wire'[d]) : row'[wire'[d][k]] # "absent"
  <1>. SUFFICES ASSUME NEW d \in Conns, NEW k \in 1 .. Len(wire'[d])
                PROVE  row[wire'[d][k]] # "absent"
    OBVIOUS
  <1>0. wire \in [Conns -> Seq(Msgs)] /\ wire[d] \in Seq(Msgs)
    BY DEF TypeOK
  <1>1. CASE wire'[d] = wire[d]
    BY <1>1 DEF PostedInv
  <1>2. CASE wire'[d] # wire[d]
    <2>1. wire'[d] = Append(wire[d], m)
      BY <1>0, <1>2 DEF SendText
    <2>2. CASE k = Len(wire[d]) + 1
      BY <1>0, <2>1, <2>2
    <2>3. CASE k \in 1 .. Len(wire[d])
      <3>1. wire'[d][k] = wire[d][k]
        BY <1>0, <2>1, <2>3
      <3>. QED  BY <2>3, <3>1 DEF PostedInv
    <2>. QED  BY <1>0, <2>1, <2>2, <2>3
  <1>. QED  BY <1>1, <1>2

\* No step makes a row absent again, and frames are made from rows.
LEMMA PostedNext == TypeOK /\ PostedInv /\ [Next]_vars => PostedInv'
  <1> SUFFICES ASSUME TypeOK, PostedInv, [Next]_vars PROVE PostedInv'
    OBVIOUS
  <1>. USE DEF serverVars, clientVars
  <1>0. /\ row \in [Msgs -> {"absent", "undelivered", "delivered", "deleted"}]
        /\ pusher \in [Msgs -> {"none", "committed", "done"} \cup Conns]
        /\ snapshot \in [Conns -> SUBSET Msgs]
        /\ wire \in [Conns -> Seq(Msgs)]
    BY DEF TypeOK
  <1>1. ASSUME NEW m \in Msgs, MessageNext(m) PROVE PostedInv'
    <2>1. ASSUME UNCHANGED <<pusher, snapshot, wire>>,
                 \A n \in Msgs : row[n] # "absent" => row'[n] # "absent"
          PROVE  PostedInv'
      BY <1>0, <2>1 DEF PostedInv
    <2>2. CASE Post(m)
      BY <1>0, <2>2 DEF Post, PostedInv
    <2>3. CASE PushRead(m)
      BY <1>0, <2>3 DEF PushRead, PostedInv
    <2>4. ASSUME NEW c \in Conns, PushSend(m, c) PROVE PostedInv'
      <3>1. row[m] # "absent" /\ row' = row
        BY <2>4, ConnsApart DEF PushSend, PostedInv
      <3>2. \A d \in Conns : \A k \in 1 .. Len(wire'[d]) : row'[wire'[d][k]] # "absent"
        BY <2>4, <3>1, SendPosted DEF PushSend
      <3>. QED  BY <1>0, <2>4, <3>1, <3>2 DEF PushSend, PostedInv
    <2>5. ASSUME NEW c \in Conns, PushFail(m, c) PROVE PostedInv'
      BY <1>0, <2>5, ConnsApart DEF PushFail, PostedInv
    <2>6. CASE AckRead(m) \/ AckLost(m) \/ SyncHistory(m) \/ AckWrite(m) \/ DeleteAged(m)
      BY <1>0, <2>1, <2>6 DEF AckRead, AckLost, SyncHistory, AckWrite, DeleteAged
    <2>. QED  BY <1>1, <2>2, <2>3, <2>4, <2>5, <2>6 DEF MessageNext
  <1>2. ASSUME NEW c \in Conns, ConnectionNext(c) PROVE PostedInv'
    <2>1. ASSUME row' = row, pusher' = pusher,
                 \A d \in Conns : snapshot'[d] \subseteq snapshot[d],
                 \A d \in Conns : \/ wire'[d] = wire[d]
                                  \/ wire'[d] = <<>>
                                  \/ wire[d] # <<>> /\ wire'[d] = Tail(wire[d])
          PROVE  PostedInv'
      <3>1. ASSUME NEW d \in Conns, NEW k \in 1 .. Len(wire'[d])
            PROVE  row[wire'[d][k]] # "absent"
        <4>1. CASE wire'[d] = wire[d]
          BY <4>1 DEF PostedInv
        <4>2. CASE wire'[d] = <<>>
          BY <4>2
        <4>3. CASE wire[d] # <<>> /\ wire'[d] = Tail(wire[d])
          <5>1. k + 1 \in 1 .. Len(wire[d]) /\ wire'[d][k] = wire[d][k + 1]
            BY <1>0, <4>3
          <5>. QED  BY <5>1 DEF PostedInv
        <4>. QED  BY <2>1, <4>1, <4>2, <4>3
      <3>. QED  BY <1>0, <2>1, <3>1 DEF PostedInv
    <2>2. CASE \/ Connect(c) \/ Register(c) \/ AuthRefused(c) \/ AuthFails(c)
               \/ FlushDone(c) \/ Disconnect(c)
      BY <2>1, <2>2 DEF Connect, Register, AuthRefused, AuthFails, FlushDone, Disconnect
    <2>3. CASE FlushRead(c)
      BY <1>0, <2>3 DEF FlushRead, Undelivered, PostedInv
    <2>4. CASE FlushSend(c)
      <3>1. PICK m \in snapshot[c] : SendText(c, m)
                                     /\ snapshot' = [snapshot EXCEPT ![c] = @ \ {m}]
        BY <2>4 DEF FlushSend
      <3>2. m \in Msgs /\ row[m] # "absent" /\ row' = row /\ pusher' = pusher
        BY <1>0, <2>4 DEF FlushSend, PostedInv
      <3>3. \A d \in Conns : \A k \in 1 .. Len(wire'[d]) : row'[wire'[d][k]] # "absent"
        BY <3>1, <3>2, SendPosted
      <3>. QED  BY <1>0, <3>1, <3>2, <3>3 DEF PostedInv
    <2>5. CASE FlushBreak(c)
      BY <1>0, <2>1, <2>5 DEF FlushBreak
    <2>6. CASE SocketDies(c)
      BY <1>0, <2>1, <2>6 DEF SocketDies
    <2>7. CASE Handle(c) \/ HandleTooEarly(c)
      BY <1>0, <2>1, <2>7 DEF Handle, HandleTooEarly
    <2>. QED  BY <1>2, <2>2, <2>3, <2>4, <2>5, <2>6, <2>7 DEF ConnectionNext
  <1>3. CASE ClientNotices \/ LoginDone \/ Login \/ HandshakeDone \/ TokenExpires
    BY <1>3 DEF ClientNotices, LoginDone, Login, HandshakeDone, TokenExpires, PostedInv
  <1>4. CASE HandshakeFails \/ ClientRestart
    <2>1. \A d \in Conns : wire'[d] = wire[d] \/ wire'[d] = <<>>
      BY <1>0, <1>4 DEF HandshakeFails, ClientRestart, LeaveLogin
    <2>2. UNCHANGED <<row, pusher, snapshot>>
      BY <1>4 DEF HandshakeFails, ClientRestart, LeaveLogin
    <2>. QED  BY <2>1, <2>2 DEF PostedInv
  <1>5. CASE UNCHANGED vars
    BY <1>5 DEF vars, PostedInv
  <1>. QED  BY <1>1, <1>2, <1>3, <1>4, <1>5 DEF Next

\* A step that changes neither a row nor what the client has opened is invisible.
LEMMA MailStutter ==
    ASSUME UNCHANGED <<row, got>> PROVE UNCHANGED Mail!vars
  BY DEF Mail!vars, MailStatus

\* Every step of push, flush, connections, client, ACK and retention is a step
\* of one message of the mailbox, or none.
LEMMA MailNext ==
    TypeOK /\ AckInv /\ PostedInv /\ [Next]_vars => [Mail!Next]_Mail!vars
  <1> SUFFICES ASSUME TypeOK, AckInv, PostedInv, [Next]_vars
               PROVE  [Mail!Next]_Mail!vars
    OBVIOUS
  <1>. USE DEF serverVars, clientVars
  <1>0. /\ row \in [Msgs -> {"absent", "undelivered", "delivered", "deleted"}]
        /\ wire \in [Conns -> Seq(Msgs)]
        /\ got \in SUBSET Msgs
    BY DEF TypeOK
  <1>1. ASSUME NEW m \in Msgs, MessageNext(m) PROVE [Mail!Next]_Mail!vars
    <2>1. CASE Post(m)
      <3>1. Mail!Take(m)
        BY <1>0, <2>1 DEF Post, Mail!Take, MailStatus
      <3>. QED  BY <3>1 DEF Mail!Next
    <2>2. CASE \/ PushRead(m)
               \/ \E c \in Conns : PushSend(m, c) \/ PushFail(m, c)
               \/ AckRead(m)
               \/ AckLost(m)
      BY <2>2, MailStutter DEF PushRead, PushSend, PushFail, AckRead, AckLost
    <2>3. CASE AckWrite(m)
      <3>1. CASE row[m] = "undelivered"
        <4>1. Mail!Acknowledge(m)
          BY <1>0, <2>3, <3>1 DEF AckWrite, AckInv, Mail!Acknowledge, MailStatus
        <4>. QED  BY <4>1 DEF Mail!Next
      <3>2. CASE row[m] # "undelivered"
        BY <2>3, <3>2, MailStutter DEF AckWrite
      <3>. QED  BY <3>1, <3>2
    <2>4. CASE DeleteAged(m)
      <3>1. Mail!Delete(m)
        BY <1>0, <2>4 DEF DeleteAged, Mail!Delete, MailStatus
      <3>. QED  BY <3>1 DEF Mail!Next
    <2>5. CASE SyncHistory(m)
      <3>1. Mail!Open(m)
        BY <1>0, <2>5 DEF SyncHistory, Mail!Open, MailStatus
      <3>. QED  BY <3>1 DEF Mail!Next
    <2>. QED  BY <1>1, <2>1, <2>2, <2>3, <2>4, <2>5 DEF MessageNext
  <1>2. ASSUME NEW c \in Conns, ConnectionNext(c) PROVE [Mail!Next]_Mail!vars
    <2>1. CASE Handle(c)
      <3>. DEFINE m == Head(wire[c])
      <3>1. m \in Msgs /\ row[m] # "absent" /\ row' = row
        BY <1>0, <2>1 DEF Handle, PostedInv
      <3>2. CASE m \in got
        <4>1. UNCHANGED <<row, got>>
          BY <2>1, <3>1, <3>2 DEF Handle
        <4>. QED  BY <4>1, MailStutter
      <3>3. CASE m \notin got
        <4>1. got' = got \cup {m}
          BY <2>1 DEF Handle
        <4>. HIDE DEF m
        <4>2. Mail!Open(m)
          BY <1>0, <3>1, <3>3, <4>1 DEF Mail!Open, MailStatus
        <4>. QED  BY <3>1, <4>2 DEF Mail!Next
      <3>. QED  BY <3>2, <3>3
    <2>2. CASE ~ Handle(c)
      <3>1. UNCHANGED <<row, got>>
        BY <1>2, <2>2 DEF ConnectionNext, Connect, Register, AuthRefused, AuthFails, FlushRead,
            FlushSend, FlushBreak, FlushDone, Disconnect, SocketDies, HandleTooEarly
      <3>. QED  BY <3>1, MailStutter
    <2>. QED  BY <2>1, <2>2
  <1>3. CASE \/ ClientNotices \/ ClientRestart \/ LoginDone
             \/ Login \/ HandshakeDone \/ HandshakeFails \/ TokenExpires
    BY <1>3, MailStutter DEF ClientNotices, ClientRestart, LoginDone, Login,
        HandshakeDone, HandshakeFails, LeaveLogin, TokenExpires
  <1>4. CASE UNCHANGED vars
    BY <1>4, MailStutter DEF vars
  <1>. QED  BY <1>1, <1>2, <1>3, <1>4 DEF Next

\* The registry, the flush, the push, the client and the ACK handler together
\* implement a mailbox, for any number of messages and connections.
THEOREM ImplementsMailboxAlways == Spec => ImplementsMailbox
  <1>1. Init => AckInv /\ PostedInv
    BY ConnsApart DEF Init, AckInv, DeliveredWasOpened, PostedInv
  <1>2. Init => Mail!Init
    BY DEF Init, Mail!Init, MailStatus
  <1>. QED
    BY <1>1, <1>2, TypeInit, TypeNext, AckNext, PostedNext, MailNext, PTL
    DEF Spec, ImplementsMailbox, Mail!Spec
=============================================================================
