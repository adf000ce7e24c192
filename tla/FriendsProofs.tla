--------------------------- MODULE FriendsProofs ---------------------------
(***************************************************************************)
(* Proofs about module Friends, for any users and any number of handlers.  *)
(***************************************************************************)
EXTENDS Friends, TLAPS

-----------------------------------------------------------------------------
(* Pairs *)

\* The reverse of a directed pair is one, with the same unordered pair.
LEMMA ReverseDirected ==
    ASSUME NEW d \in Directed
    PROVE  /\ d = <<d[1], d[2]>>
           /\ d[1] \in Users /\ d[2] \in Users /\ d[1] # d[2]
           /\ Reverse(d) \in Directed
           /\ Reverse(Reverse(d)) = d
           /\ Pair(Reverse(d)) = Pair(d)
BY DEF Directed, Reverse, Pair

\* sorted([x, y]) forgets the direction, and nothing else.
LEMMA PairEqual ==
    ASSUME NEW d \in Directed, NEW e \in Directed, Pair(d) = Pair(e)
    PROVE  e = d \/ e = Reverse(d)
<1>1. /\ d = <<d[1], d[2]>> /\ e = <<e[1], e[2]>>
      /\ d[1] # d[2] /\ e[1] # e[2]
  BY ReverseDirected
<1>2. /\ e[1] = d[1] \/ e[1] = d[2]
      /\ e[2] = d[1] \/ e[2] = d[2]
  BY DEF Pair
<1>3. CASE e[1] = d[1]
  <2>1. e[2] = d[2]
    BY <1>1, <1>2, <1>3
  <2>2. e = d
    BY <1>1, <1>3, <2>1
  <2> QED
    BY <2>2
<1>4. CASE e[1] = d[2]
  <2>1. e[2] = d[1]
    BY <1>1, <1>2, <1>4
  <2>2. e = Reverse(d)
    BY <1>1, <1>4, <2>1 DEF Reverse
  <2> QED
    BY <2>2
<1> QED
  BY <1>2, <1>3, <1>4

-----------------------------------------------------------------------------
(* Types *)

\* A handler that is at a step is a record.
LEMMA HandlerBusy ==
    ASSUME TypeOK, NEW p \in Handlers, h[p] # None
    PROVE  /\ h[p] \in Handler
           /\ h[p].req \in Directed
           /\ h[p].me \in Users
           /\ h[p].found \in Status \cup {"present"}
BY DEF TypeOK, Handler

\* The empty tables are well typed.
LEMMA TypeInit == Init => TypeOK
BY DEF Init, TypeOK, Status

\* What the operators on handlers leave in h.
LEMMA HandlerSteps ==
    ASSUME TypeOK, NEW p \in Handlers
    PROVE  /\ Finish(p) => h' \in [Handlers -> Handler \cup {None}]
           /\ \A step \in {"check_friends", "read_request", "write_request", "accept",
                           "decline", "cancel", "block", "read_conversation", "insert"},
                 d \in Directed, u \in Users, found \in Status \cup {"present"} :
                 Begin(p, step, d, u, found) => h' \in [Handlers -> Handler \cup {None}]
           /\ \A step \in {"read_request", "insert"} :
                 h[p] # None /\ Continue(p, step) => h' \in [Handlers -> Handler \cup {None}]
<1>1. Finish(p) => h' \in [Handlers -> Handler \cup {None}]
  BY DEF Finish, TypeOK
<1>2. ASSUME NEW step \in {"check_friends", "read_request", "write_request", "accept",
                           "decline", "cancel", "block", "read_conversation", "insert"},
             NEW d \in Directed, NEW u \in Users, NEW found \in Status \cup {"present"},
             Begin(p, step, d, u, found)
      PROVE  h' \in [Handlers -> Handler \cup {None}]
  <2>1. [at |-> step, req |-> d, me |-> u, found |-> found] \in Handler
    BY DEF Handler
  <2> QED
    BY <1>2, <2>1 DEF Begin, TypeOK
<1>3. ASSUME NEW step \in {"read_request", "insert"}, h[p] # None, Continue(p, step)
      PROVE  h' \in [Handlers -> Handler \cup {None}]
  <2>1. h[p] \in Handler
    BY <1>3, HandlerBusy
  <2>2. [h[p] EXCEPT !.at = step] \in Handler
    BY <2>1 DEF Handler
  <2> QED
    BY <1>3, <2>2 DEF Continue, TypeOK
<1> QED
  BY <1>1, <1>2, <1>3

\* Every step of every handler keeps the types of the tables.
LEMMA TypeNext == TypeOK /\ [Next]_vars => TypeOK'
<1> SUFFICES ASSUME TypeOK, [Next]_vars PROVE TypeOK'
  OBVIOUS
<1> USE DEF history
<1>1. CASE UNCHANGED vars
  BY <1>1 DEF vars, tables, TypeOK
<1>2. ASSUME NEW p \in Handlers, HandlerNext(p) PROVE TypeOK'
  <2> USE HandlerSteps
  <2>1. ASSUME NEW d \in Directed, RequestCheckBlock(p, d) PROVE TypeOK'
    BY <2>1, ReverseDirected DEF RequestCheckBlock, tables, TypeOK, Status
  <2>2. ASSUME NEW d \in Directed, RemoveFriend(p, d) PROVE TypeOK'
    BY <2>2 DEF RemoveFriend, Withdraw, TypeOK
  <2>3. ASSUME NEW d \in Directed, BlockRead(p, d) PROVE TypeOK'
    BY <2>3, ReverseDirected DEF BlockRead, tables, TypeOK, Status
  <2>4. ASSUME NEW d \in Directed, MessageRead(p, d) PROVE TypeOK'
    BY <2>4, ReverseDirected DEF MessageRead, tables, TypeOK, Status
  <2>5. ASSUME NEW d \in Directed, NEW action \in {"accept", "decline", "cancel"},
               NEW u \in Users, AnswerRead(p, action, d, u)
        PROVE TypeOK'
    <3>1. \A v \in Pair(d) \ {u} : <<u, v>> \in Directed
      BY ReverseDirected DEF Pair, Directed
    <3>2. h' \in [Handlers -> Handler \cup {None}]
      BY <2>5 DEF AnswerRead, Status
    <3> QED
      BY <2>5, <3>1, <3>2 DEF AnswerRead, tables, TypeOK
  <2>6. CASE RequestCheckFriends(p)
    BY <2>6 DEF RequestCheckFriends, At, Free, tables, TypeOK
  <2>7. CASE RequestRead(p)
    <3>1. h[p] # None /\ req[h[p].req] \in Status
      BY <2>7, HandlerBusy DEF RequestRead, At, Free, TypeOK
    <3> QED
      BY <2>7, <3>1, HandlerBusy DEF RequestRead, tables, TypeOK
  <2>8. CASE RequestWrite(p)
    <3>1. h[p] # None /\ h[p].req \in Directed
      BY <2>8, HandlerBusy DEF RequestWrite, At, Free
    <3> QED
      BY <2>8, <3>1 DEF RequestWrite, TypeOK, Status
  <2>9. CASE Accept(p) \/ Decline(p) \/ Cancel(p)
    <3>1. h[p] # None /\ h[p].req \in Directed
      BY <2>9, HandlerBusy DEF Accept, Decline, Cancel, At, Free
    <3> QED
      BY <2>9, <3>1 DEF Accept, Decline, Cancel, Withdraw, TypeOK, Status
  <2>10. CASE BlockWrite(p)
    <3>1. h[p] # None /\ h[p].req \in Directed
      BY <2>10, HandlerBusy DEF BlockWrite, At, Free
    <3> QED
      BY <2>10, <3>1 DEF BlockWrite, Withdraw, TypeOK, Status
  <2>11. CASE MessageReadConversation(p)
    BY <2>11 DEF MessageReadConversation, At, Free, tables, TypeOK
  <2>12. CASE MessageInsert(p)
    BY <2>12, HandlerBusy DEF MessageInsert, At, Free, TypeOK
  <2> QED
    BY <1>2, <2>1, <2>2, <2>3, <2>4, <2>5, <2>6, <2>7, <2>8, <2>9, <2>10, <2>11, <2>12
    DEF HandlerNext
<1> QED
  BY <1>1, <1>2 DEF Next

\* Every table and every handler keeps its type (the rows the handlers write).
THEOREM TypeCorrect == Spec => []TypeOK
BY TypeInit, TypeNext, PTL DEF Spec

-----------------------------------------------------------------------------
(* Friends have a conversation *)

\* Only Accept adds a friendship, with its conversation; nothing deletes one.
LEMMA ConversationNext ==
    TypeOK /\ FriendsHaveConversation /\ [Next]_vars => FriendsHaveConversation'
<1> SUFFICES ASSUME TypeOK, FriendsHaveConversation, [Next]_vars
             PROVE  FriendsHaveConversation'
  OBVIOUS
<1>1. CASE UNCHANGED vars
  BY <1>1 DEF vars, tables, FriendsHaveConversation, At, Free
<1>2. ASSUME NEW p \in Handlers, HandlerNext(p) PROVE FriendsHaveConversation'
  <2> DEFINE Reading(q) == h[q] # None /\ h[q].at = "read_conversation"
  <2>0. \A q \in Handlers : Reading(q) => Pair(h[q].req) \in convs
    BY DEF FriendsHaveConversation, At, Free
  \* An action that begins or goes on elsewhere leaves the readers alone.
  <2>1. ASSUME friends' \subseteq convs', convs \subseteq convs',
               \A q \in Handlers : Reading(q)' => \/ h'[q] = h[q]
                                                  \/ Pair(h'[q].req) \in convs
        PROVE  FriendsHaveConversation'
    BY <2>0, <2>1 DEF FriendsHaveConversation, At, Free
  <2>2. friends \subseteq convs
    BY DEF FriendsHaveConversation
  <2>3. ASSUME NEW d \in Directed,
               RequestCheckBlock(p, d) \/ BlockRead(p, d) \/ MessageRead(p, d)
        PROVE  FriendsHaveConversation'
    BY <2>1, <2>2, <2>3
    DEF RequestCheckBlock, BlockRead, MessageRead, Begin, tables, TypeOK
  <2>4. ASSUME NEW d \in Directed, RemoveFriend(p, d) PROVE FriendsHaveConversation'
    BY <2>1, <2>2, <2>4 DEF RemoveFriend
  <2>5. ASSUME NEW d \in Directed, NEW action \in {"accept", "decline", "cancel"},
               NEW u \in Users, AnswerRead(p, action, d, u)
        PROVE FriendsHaveConversation'
    BY <2>1, <2>2, <2>5 DEF AnswerRead, Begin, tables, TypeOK
  <2>6. CASE RequestCheckFriends(p) \/ RequestRead(p)
    <3>1. h[p] # None /\ h[p] \in Handler
      BY <2>6, HandlerBusy DEF RequestCheckFriends, RequestRead, At, Free
    <3> QED
      BY <2>1, <2>2, <2>6, <3>1
      DEF RequestCheckFriends, RequestRead, Begin, Continue, Finish, tables, TypeOK, Handler
  <2>7. CASE RequestWrite(p) \/ Decline(p) \/ Cancel(p) \/ MessageInsert(p)
    BY <2>1, <2>2, <2>7
    DEF RequestWrite, Decline, Cancel, MessageInsert, Finish, TypeOK
  <2>8. CASE Accept(p)
    BY <2>1, <2>2, <2>8 DEF Accept, Finish, TypeOK
  <2>9. CASE BlockWrite(p)
    BY <2>1, <2>2, <2>9 DEF BlockWrite, Finish, TypeOK
  <2>10. CASE MessageReadConversation(p)
    <3>1. h[p] # None /\ h[p] \in Handler
      BY <2>10, HandlerBusy DEF MessageReadConversation, At, Free
    <3> QED
      BY <2>1, <2>2, <2>10, <3>1
      DEF MessageReadConversation, Continue, Finish, tables, TypeOK, Handler
  <2> QED
    BY <1>2, <2>3, <2>4, <2>5, <2>6, <2>7, <2>8, <2>9, <2>10 DEF HandlerNext
<1> QED
  BY <1>1, <1>2 DEF Next

\* send_message never tells friends that they have no conversation: accepting
\* adds both rows in one commit, and nothing deletes a conversation.
THEOREM FriendsHaveConversationAlways == Spec => []FriendsHaveConversation
<1>1. Init => FriendsHaveConversation
  BY DEF Init, FriendsHaveConversation, At, Free
<1> QED
  BY <1>1, TypeCorrect, ConversationNext, PTL DEF Spec

-----------------------------------------------------------------------------
(* Consent *)

Mutual(d) == d \in agreed /\ Reverse(d) \in agreed

\* ContactNeedsConsent is not inductive: what a handler has read has to carry
\* the consent to the step where it writes.  A row of friend_requests shows
\* that its sender asked, and so does a handler that answers it; a handler
\* about to accept, or to store a message, works for two users who agreed.
ConsentInv ==
    /\ ContactNeedsConsent
    /\ \A d \in Directed : req[d] # "absent" => d \in agreed
    /\ \A p \in Handlers :
         h[p] # None /\ h[p].at \in {"accept", "read_conversation", "insert"}
         => Mutual(h[p].req)
    /\ \A p \in Handlers :
         h[p] # None /\ h[p].at \in {"decline", "cancel"} => h[p].req \in agreed

\* A step that only adds consent keeps it, if what it adds to the tables and
\* to the handlers has it.
LEMMA ConsentStep ==
    ASSUME TypeOK, TypeOK', ConsentInv, agreed \subseteq agreed',
           \A d \in Directed :
              Pair(d) \in friends' \cup convs' \/ d \in msgs'
              => Pair(d) \in friends \cup convs \/ d \in msgs \/ Mutual(d),
           \A d \in Directed : req'[d] # "absent" => req[d] # "absent" \/ d \in agreed',
           \A p \in Handlers :
              h'[p] # None /\ h'[p].at \in {"accept", "read_conversation", "insert"}
              => h'[p] = h[p] \/ Mutual(h[p].req)',
           \A p \in Handlers :
              h'[p] # None /\ h'[p].at \in {"decline", "cancel"}
              => h'[p] = h[p] \/ h'[p].req \in agreed'
    PROVE  ConsentInv'
<1>1. \A d \in Directed : Mutual(d) => Mutual(d)'
  BY DEF Mutual
<1>2. ContactNeedsConsent'
  BY <1>1 DEF ConsentInv, ContactNeedsConsent, Mutual
<1>3. \A d \in Directed : req'[d] # "absent" => d \in agreed'
  BY DEF ConsentInv
<1>4. ASSUME NEW p \in Handlers, h'[p] # None,
             h'[p].at \in {"accept", "read_conversation", "insert"}
      PROVE  Mutual(h[p].req)'
  <2>1. CASE h'[p] = h[p]
    <3>1. Mutual(h[p].req)
      BY <1>4, <2>1 DEF ConsentInv
    <3> QED
      BY <2>1, <3>1 DEF Mutual
  <2> QED
    BY <1>4, <2>1
<1>5. ASSUME NEW p \in Handlers, h'[p] # None, h'[p].at \in {"decline", "cancel"}
      PROVE  h'[p].req \in agreed'
  BY <1>5 DEF ConsentInv
<1> QED
  BY <1>2, <1>3, <1>4, <1>5 DEF ConsentInv

\* One case per step of a handler.
LEMMA ConsentNext == TypeOK /\ TypeOK' /\ ConsentInv /\ [Next]_vars => ConsentInv'
<1> SUFFICES ASSUME TypeOK, TypeOK', ConsentInv, [Next]_vars PROVE ConsentInv'
  OBVIOUS
<1> USE DEF history
<1>1. CASE UNCHANGED vars
  BY <1>1 DEF vars, tables, ConsentInv, ContactNeedsConsent, Mutual
<1>2. ASSUME NEW p \in Handlers, HandlerNext(p) PROVE ConsentInv'
  <2>1. ASSUME NEW d \in Directed, RequestCheckBlock(p, d) \/ BlockRead(p, d)
        PROVE  ConsentInv'
    BY <2>1, ConsentStep DEF RequestCheckBlock, BlockRead, Begin, tables, TypeOK
  <2>2. ASSUME NEW d \in Directed, RemoveFriend(p, d) PROVE ConsentInv'
    BY <2>2, ConsentStep DEF RemoveFriend
  <2>3. ASSUME NEW d \in Directed, MessageRead(p, d) PROVE ConsentInv'
    <3>1. Mutual(d)
      BY <2>3 DEF MessageRead, ConsentInv, ContactNeedsConsent, Mutual
    <3>2. Mutual(d)'
      BY <2>3, <3>1 DEF MessageRead, Mutual
    <3> QED
      BY <2>3, <3>2, ConsentStep DEF MessageRead, Begin, tables, TypeOK
  <2>4. ASSUME NEW d \in Directed, NEW action \in {"accept", "decline", "cancel"},
               NEW u \in Users, AnswerRead(p, action, d, u)
        PROVE  ConsentInv'
    <3>1. action = "accept" => Mutual(d)'
      <4>1. d \in agreed
        BY <2>4 DEF AnswerRead, ConsentInv
      <4>2. action = "accept" => u = d[2] /\ d[1] \in Pair(d) \ {u}
        BY <2>4, ReverseDirected DEF AnswerRead, MayAnswer, Pair
      <4>3. action = "accept" => Reverse(d) \in agreed'
        BY <2>4, <4>2 DEF AnswerRead, Reverse
      <4> QED
        BY <2>4, <4>1, <4>3 DEF AnswerRead, Mutual
    <3>2. agreed \subseteq agreed'
      BY <2>4 DEF AnswerRead
    <3>3. h' = [h EXCEPT ![p] = [at |-> action, req |-> d, me |-> u, found |-> "pending"]]
      BY <2>4 DEF AnswerRead, Begin
    <3>4. UNCHANGED tables
      BY <2>4 DEF AnswerRead
    <3> QED
      <4>1. d \in agreed'
        BY <2>4, <3>2 DEF AnswerRead, ConsentInv
      <4> QED
        BY <3>1, <3>2, <3>3, <3>4, <4>1, ConsentStep DEF tables, TypeOK
  <2>5. CASE RequestCheckFriends(p) \/ RequestRead(p)
    <3>1. h[p] # None /\ h[p] \in Handler
      BY <2>5, HandlerBusy DEF RequestCheckFriends, RequestRead, At, Free
    <3> QED
      BY <2>5, <3>1, ConsentStep
      DEF RequestCheckFriends, RequestRead, Begin, Continue, Finish, tables, TypeOK, Handler
  <2>6. CASE RequestWrite(p)
    <3>1. h[p] # None /\ h[p].req \in Directed
      BY <2>6, HandlerBusy DEF RequestWrite, At, Free
    <3> QED
      BY <2>6, <3>1, ConsentStep DEF RequestWrite, Finish, TypeOK
  <2>7. CASE Accept(p)
    <3>1. h[p] # None /\ h[p].req \in Directed /\ h[p].at = "accept"
      BY <2>7, HandlerBusy DEF Accept, At, Free
    <3>2. Mutual(h[p].req)
      BY <3>1 DEF ConsentInv
    <3>3. \A d \in Directed : Pair(d) = Pair(h[p].req) => Mutual(d)
      BY <3>1, <3>2, PairEqual, ReverseDirected DEF Mutual
    <3>4. \A d \in Directed : req'[d] # "absent" => req[d] # "absent" \/ d \in agreed'
      BY <2>7, <3>1, <3>2 DEF Accept, TypeOK, Mutual
    <3>5. \A q \in Handlers : h'[q] # None => h'[q] = h[q]
      BY <2>7 DEF Accept, Finish, TypeOK
    <3>6. agreed' = agreed /\ msgs' = msgs
      BY <2>7 DEF Accept
    <3>7. \A d \in Directed : Pair(d) \in friends' \cup convs'
             => Pair(d) \in friends \cup convs \/ Mutual(d)
      BY <2>7, <3>3 DEF Accept
    <3> QED
      BY <3>4, <3>5, <3>6, <3>7, ConsentStep
  <2>8. CASE Decline(p) \/ Cancel(p)
    <3>1. h[p] # None /\ h[p].req \in Directed /\ h[p].at \in {"decline", "cancel"}
      BY <2>8, HandlerBusy DEF Decline, Cancel, At, Free
    <3>2. h[p].req \in agreed
      BY <3>1 DEF ConsentInv
    <3> QED
      BY <2>8, <3>1, <3>2, ConsentStep DEF Decline, Cancel, Finish, TypeOK
  <2>9. CASE BlockWrite(p)
    <3>1. \A d \in Directed : req'[d] # "absent" => req[d] # "absent"
      BY <2>9 DEF BlockWrite, TypeOK
    <3>2. friends' \subseteq friends /\ UNCHANGED <<convs, msgs, agreed>>
      BY <2>9 DEF BlockWrite
    <3>3. \A q \in Handlers : h'[q] # None => h'[q] = h[q]
      BY <2>9 DEF BlockWrite, Finish, TypeOK
    <3> QED
      BY <3>1, <3>2, <3>3, ConsentStep
  <2>10. CASE MessageReadConversation(p)
    <3>1. h[p] # None /\ h[p] \in Handler /\ h[p].at = "read_conversation"
      BY <2>10, HandlerBusy DEF MessageReadConversation, At, Free
    <3>2. Mutual(h[p].req)
      BY <3>1 DEF ConsentInv
    <3>3. \A q \in Handlers :
             h'[q] # None => h'[q] = h[q] \/ (h'[q].req = h[p].req /\ h'[q].at = "insert")
      BY <2>10, <3>1 DEF MessageReadConversation, Continue, Finish, TypeOK, Handler
    <3>4. UNCHANGED <<tables, agreed>>
      BY <2>10 DEF MessageReadConversation
    <3>5. Mutual(h[p].req) => \A q \in Handlers : h'[q].req = h[p].req => Mutual(h[q].req)'
      BY <3>4 DEF Mutual
    <3> QED
      BY <3>2, <3>3, <3>4, <3>5, ConsentStep DEF tables
  <2>11. CASE MessageInsert(p)
    <3>1. h[p] # None /\ h[p].at = "insert"
      BY <2>11 DEF MessageInsert, At, Free
    <3>2. Mutual(h[p].req)
      BY <3>1 DEF ConsentInv
    <3> QED
      BY <2>11, <3>2, ConsentStep DEF MessageInsert, Finish, TypeOK
  <2> QED
    BY <1>2, <2>1, <2>2, <2>3, <2>4, <2>5, <2>6, <2>7, <2>8, <2>9, <2>10, <2>11
    DEF HandlerNext
<1> QED
  BY <1>1, <1>2 DEF Next

\* Friendships, conversations and messages exist only between users who both
\* asked or accepted, for any number of users and of concurrent handlers of
\* server/api/friends.py and of send_message.
THEOREM ContactNeedsConsentAlways == Spec => []ContactNeedsConsent
<1>1. Init => ConsentInv
  BY DEF Init, ConsentInv, ContactNeedsConsent
<1>2. ConsentInv => ContactNeedsConsent
  BY DEF ConsentInv
<1> QED
  BY <1>1, <1>2, TypeCorrect, ConsentNext, PTL DEF Spec

-----------------------------------------------------------------------------
(* Friends still want it *)

\* The consent that counts: not withdrawn, or withdrawn while an accept was on
\* its way.
Willing == wants \cup raced

\* FriendsWant is not inductive: the consent has to be there from the moment
\* handle_request reads the request.  A pending row shows that its sender has
\* not withdrawn, and a handler about to accept works for two willing users: a
\* withdrawal that crosses it is recorded in raced.
WantInv ==
    /\ FriendsWant
    /\ \A d \in Directed : req[d] = "pending" => d \in wants
    /\ \A p \in Handlers :
         h[p] # None /\ h[p].at = "accept"
         => h[p].req \in Willing /\ Reverse(h[p].req) \in Willing

\* A withdrawal concerns one direction, and is recorded if an accept of the
\* pair is on its way.
LEMMA WithdrawOne ==
    ASSUME NEW d, Withdraw(d)
    PROVE  /\ \A e : e # d => (e \in wants <=> e \in wants')
           /\ \A e : e # d => (e \in Willing <=> e \in Willing')
           /\ \A p \in Handlers :
                h[p] # None /\ h[p].at = "accept" /\ Pair(h[p].req) = Pair(d)
                => d \in Willing'
BY DEF Withdraw, Willing, At, Free

\* A step keeps WantInv if a user stops being willing only when he has no
\* friendship and no accept on its way, and if what the step adds has consent.
LEMMA WantStep ==
    ASSUME TypeOK, TypeOK', WantInv,
           \A d \in Directed :
              d \in Willing
              => \/ d \in Willing'
                 \/ /\ Pair(d) \notin friends'
                    /\ \A q \in Handlers : h'[q] # None /\ h'[q].at = "accept"
                                           => Pair(h'[q].req) # Pair(d),
           \A d \in Directed : Pair(d) \in friends' => Pair(d) \in friends \/ d \in Willing,
           \A d \in Directed : req'[d] = "pending"
              => d \in wants' \/ (req[d] = "pending" /\ (d \in wants => d \in wants')),
           \A q \in Handlers : h'[q] # None /\ h'[q].at = "accept"
              => h'[q] = h[q] \/ (h'[q].req \in Willing' /\ Reverse(h'[q].req) \in Willing')
    PROVE  WantInv'
<1>1. \A d \in Directed : Pair(d) \in friends => d \in Willing
  BY DEF WantInv, FriendsWant, Willing
<1>2. FriendsWant'
  BY <1>1 DEF FriendsWant, Willing
<1>3. \A d \in Directed : req'[d] = "pending" => d \in wants'
  BY DEF WantInv
<1>4. ASSUME NEW q \in Handlers, h'[q] # None, h'[q].at = "accept"
      PROVE  h'[q].req \in Willing' /\ Reverse(h'[q].req) \in Willing'
  <2>1. CASE h'[q] = h[q]
    <3> DEFINE d == h'[q].req
    <3>1. d \in Directed
      BY <1>4 DEF TypeOK, Handler
    <3>2. d \in Willing /\ Reverse(d) \in Willing
      BY <1>4, <2>1 DEF WantInv
    <3>3. Reverse(d) \in Directed /\ Pair(Reverse(d)) = Pair(d)
      BY <3>1, ReverseDirected
    <3> QED
      BY <1>4, <3>1, <3>2, <3>3
  <2> QED
    BY <1>4, <2>1
<1> QED
  BY <1>2, <1>3, <1>4 DEF WantInv, Reverse, Willing

\* One case per step of a handler.
LEMMA WantNext == TypeOK /\ TypeOK' /\ WantInv /\ [Next]_vars => WantInv'
<1> SUFFICES ASSUME TypeOK, TypeOK', WantInv, [Next]_vars PROVE WantInv'
  OBVIOUS
<1> USE DEF history
<1>1. CASE UNCHANGED vars
  BY <1>1 DEF vars, tables, WantInv, FriendsWant, Willing, Reverse
<1>2. ASSUME NEW p \in Handlers, HandlerNext(p) PROVE WantInv'
  \* Handlers that read, and begin or go on elsewhere than at an accept.
  <2>0. ASSUME UNCHANGED <<req, friends, history>>,
               \A q \in Handlers : h'[q] # None /\ h'[q].at = "accept" => h'[q] = h[q]
        PROVE  WantInv'
    BY <2>0, WantStep DEF Willing
  <2>1. ASSUME NEW d \in Directed,
               RequestCheckBlock(p, d) \/ BlockRead(p, d) \/ MessageRead(p, d)
        PROVE  WantInv'
    BY <2>0, <2>1 DEF RequestCheckBlock, BlockRead, MessageRead, Begin, tables, TypeOK
  <2>2. ASSUME NEW d \in Directed, RemoveFriend(p, d) PROVE WantInv'
    <3>1. CASE Pair(d) \in friends /\ req[d] # "pending"
      <4>1. Withdraw(d) /\ friends' = friends \ {Pair(d)} /\ UNCHANGED <<req, h>>
        BY <2>2, <3>1 DEF RemoveFriend
      <4>2. \A e \in Directed : e \in Willing
               => \/ e \in Willing'
                  \/ /\ Pair(e) \notin friends'
                     /\ \A q \in Handlers : h'[q] # None /\ h'[q].at = "accept"
                                            => Pair(h'[q].req) # Pair(e)
        BY <4>1, WithdrawOne
      <4>3. \A e \in Directed : req'[e] = "pending"
               => req[e] = "pending" /\ (e \in wants => e \in wants')
        BY <3>1, <4>1, WithdrawOne
      <4> QED
        BY <4>1, <4>2, <4>3, WantStep
    <3>2. CASE ~ (Pair(d) \in friends /\ req[d] # "pending")
      BY <2>2, <3>2, WantStep DEF RemoveFriend, Willing
    <3> QED
      BY <3>1, <3>2
  <2>3. ASSUME NEW d \in Directed, NEW action \in {"accept", "decline", "cancel"},
               NEW u \in Users, AnswerRead(p, action, d, u)
        PROVE  WantInv'
    <3>1. d \in wants
      BY <2>3 DEF AnswerRead, WantInv
    <3>2. wants \subseteq wants' /\ UNCHANGED <<req, friends, raced>>
      BY <2>3 DEF AnswerRead, tables
    <3>3. action = "accept" => Reverse(d) \in wants'
      <4>1. action = "accept" => u = d[2] /\ d[1] \in Pair(d) \ {u}
        BY <2>3, ReverseDirected DEF AnswerRead, MayAnswer, Pair
      <4> QED
        BY <2>3, <4>1 DEF AnswerRead, Reverse
    <3>4. h' = [h EXCEPT ![p] = [at |-> action, req |-> d, me |-> u, found |-> "pending"]]
      BY <2>3 DEF AnswerRead, Begin
    <3>5. \A q \in Handlers : h'[q] # None /\ h'[q].at = "accept"
             => h'[q] = h[q] \/ (h'[q].req \in Willing' /\ Reverse(h'[q].req) \in Willing')
      BY <3>1, <3>2, <3>3, <3>4 DEF TypeOK, Willing
    <3> QED
      BY <3>2, <3>5, WantStep DEF Willing
  <2>4. CASE RequestCheckFriends(p) \/ RequestRead(p)
    <3>1. h[p] # None /\ h[p] \in Handler
      BY <2>4, HandlerBusy DEF RequestCheckFriends, RequestRead, At, Free
    <3> QED
      BY <2>0, <2>4, <3>1
      DEF RequestCheckFriends, RequestRead, Begin, Continue, Finish, tables, TypeOK, Handler
  <2>5. CASE RequestWrite(p)
    <3>1. h[p] # None /\ h[p].req \in Directed
      BY <2>5, HandlerBusy DEF RequestWrite, At, Free
    <3>2. \A q \in Handlers : h'[q] # None => h'[q] = h[q]
      BY <2>5 DEF RequestWrite, Finish, TypeOK
    <3>3. wants \subseteq wants' /\ UNCHANGED <<friends, raced>>
      BY <2>5 DEF RequestWrite
    <3>4. \A d \in Directed : req'[d] = "pending" => d \in wants' \/ req[d] = "pending"
      BY <2>5, <3>1 DEF RequestWrite, TypeOK
    <3> QED
      BY <3>2, <3>3, <3>4, WantStep DEF Willing
  <2>6. CASE Accept(p)
    <3>1. h[p] # None /\ h[p].req \in Directed /\ h[p].at = "accept"
      BY <2>6, HandlerBusy DEF Accept, At, Free
    <3>2. \A d \in Directed : Pair(d) = Pair(h[p].req) => d \in Willing
      BY <3>1, PairEqual DEF WantInv
    <3>3. \A q \in Handlers : h'[q] # None => h'[q] = h[q]
      BY <2>6 DEF Accept, Finish, TypeOK
    <3>4. \A d \in Directed : req'[d] = "pending" => req[d] = "pending"
      BY <2>6, <3>1 DEF Accept, TypeOK
    <3>5. friends' = friends \cup {Pair(h[p].req)} /\ UNCHANGED <<wants, raced>>
      BY <2>6 DEF Accept
    <3> QED
      BY <3>2, <3>3, <3>4, <3>5, WantStep DEF Willing
  <2>7. CASE Decline(p)
    <3>1. h[p] # None /\ h[p].req \in Directed
      BY <2>7, HandlerBusy DEF Decline, At, Free
    <3> QED
      BY <2>7, <3>1, WantStep DEF Decline, Finish, TypeOK, Willing
  <2>8. CASE Cancel(p)
    <3>1. h[p] # None /\ h[p].req \in Directed
      BY <2>8, HandlerBusy DEF Cancel, At, Free
    <3>2. \A q \in Handlers : h'[q] # None => h'[q] = h[q]
      BY <2>8 DEF Cancel, Finish, TypeOK
    <3>3. req' = [req EXCEPT ![h[p].req] = "cancelled"] /\ friends' = friends
      BY <2>8 DEF Cancel
    <3>4. \A d \in Directed : req'[d] = "pending" => req[d] = "pending" /\ d # h[p].req
      BY <3>1, <3>3 DEF TypeOK
    <3>5. CASE Pair(h[p].req) \in friends
      <4>1. UNCHANGED <<wants, raced>>
        BY <2>8, <3>5 DEF Cancel
      <4> QED
        BY <3>2, <3>3, <3>4, <4>1, WantStep DEF Willing
    <3>6. CASE Pair(h[p].req) \notin friends
      <4>1. Withdraw(h[p].req)
        BY <2>8, <3>6 DEF Cancel
      <4>2. \A d \in Directed : d \in Willing
               => \/ d \in Willing'
                  \/ /\ Pair(d) \notin friends'
                     /\ \A q \in Handlers : h'[q] # None /\ h'[q].at = "accept"
                                            => Pair(h'[q].req) # Pair(d)
        BY <3>2, <3>3, <3>6, <4>1, WithdrawOne
      <4>3. \A d \in Directed : req'[d] = "pending"
               => req[d] = "pending" /\ (d \in wants => d \in wants')
        BY <3>4, <4>1, WithdrawOne
      <4> QED
        BY <3>2, <3>3, <4>2, <4>3, WantStep
    <3> QED
      BY <3>5, <3>6
  <2>9. CASE BlockWrite(p)
    <3> DEFINE d == h[p].req
    <3>1. h[p] # None /\ d \in Directed
      BY <2>9, HandlerBusy DEF BlockWrite, At, Free
    <3>2. \A q \in Handlers : h'[q] # None => h'[q] = h[q]
      BY <2>9 DEF BlockWrite, Finish, TypeOK
    <3>3. CASE h[p].found = "absent" /\ d \in blocks
      <4>1. UNCHANGED <<req, friends, wants, raced>>
        BY <2>9, <3>3 DEF BlockWrite
      <4> QED
        BY <3>2, <4>1, WantStep DEF Willing
    <3>4. CASE ~ (h[p].found = "absent" /\ d \in blocks)
      <4>1. /\ friends' = friends \ {Pair(d)}
            /\ req' = [r \in Directed |-> IF Pair(r) = Pair(d) /\ req[r] = "pending"
                                          THEN "cancelled" ELSE req[r]]
            /\ Withdraw(d)
        BY <2>9, <3>4 DEF BlockWrite
      <4>2. \A e \in Directed : e \in Willing
               => \/ e \in Willing'
                  \/ /\ Pair(e) \notin friends'
                     /\ \A q \in Handlers : h'[q] # None /\ h'[q].at = "accept"
                                            => Pair(h'[q].req) # Pair(e)
        BY <3>2, <4>1, WithdrawOne
      <4>3. \A e \in Directed : req'[e] = "pending" => req[e] = "pending" /\ Pair(e) # Pair(d)
        BY <4>1
      <4>4. \A e \in Directed : req'[e] = "pending"
               => req[e] = "pending" /\ (e \in wants => e \in wants')
        BY <4>1, <4>3, WithdrawOne
      <4> QED
        BY <3>2, <4>1, <4>2, <4>4, WantStep
    <3> QED
      BY <3>3, <3>4
  <2>10. CASE MessageReadConversation(p)
    <3>1. h[p] # None /\ h[p] \in Handler
      BY <2>10, HandlerBusy DEF MessageReadConversation, At, Free
    <3> QED
      BY <2>0, <2>10, <3>1
      DEF MessageReadConversation, Continue, Finish, tables, TypeOK, Handler
  <2>11. CASE MessageInsert(p)
    BY <2>0, <2>11 DEF MessageInsert, Finish, TypeOK
  <2> QED
    BY <1>2, <2>1, <2>2, <2>3, <2>4, <2>5, <2>6, <2>7, <2>8, <2>9, <2>10, <2>11
    DEF HandlerNext
<1> QED
  BY <1>1, <1>2 DEF Next

\* Friends are two users who both still want it, except for a withdrawal that
\* crossed an accept on its way: cancel, remove_friend and block_user end the
\* consent for good, for any number of users and of concurrent handlers.
THEOREM FriendsWantAlways == Spec => []FriendsWant
<1>1. Init => WantInv
  BY DEF Init, WantInv, FriendsWant
<1>2. WantInv => FriendsWant
  BY DEF WantInv
<1> QED
  BY <1>1, <1>2, TypeCorrect, WantNext, PTL DEF Spec
=============================================================================
