------------------------------ MODULE Friends ------------------------------
(***************************************************************************)
(* Who may write to whom: server/api/friends.py, and the friendship check  *)
(* of send_message in server/api/messages.py, over the tables              *)
(* friend_requests, friendships, conversations and blocks.                 *)
(*                                                                         *)
(* Every request has its own handler and its own database session.  With   *)
(* aiosqlite a SELECT outside a write transaction sees the tables as they  *)
(* are at that moment and locks nothing (SQLite has no FOR UPDATE); the    *)
(* write transaction begins at the first INSERT, UPDATE or DELETE and      *)
(* excludes other writers until the commit.  So each read is a step, and   *)
(* everything from the first write to the commit is one step.              *)
(***************************************************************************)
EXTENDS FiniteSets

CONSTANTS
    Users,       \* the registered users
    Handlers,    \* bound: requests the server works on at the same time
    None         \* a handler that is free

VARIABLES
    req,       \* the status of the friend_requests row of each <<sender, recipient>>
    friends,   \* friendships: pairs {u, v}
    convs,     \* conversations: pairs {u, v}
    blocks,    \* blocks: <<blocker, blocked>>
    msgs,      \* <<sender, recipient>> of the rows of messages
    h,         \* the handlers
    agreed,    \* <<u, v>>: u has asked v, or accepted v's request (history)
    wants,     \* <<u, v>>: and has not cancelled, removed or blocked since (history)
    raced      \* <<u, v>>: u did so last while an accept was on its way (history)

tables == <<req, friends, convs, blocks, msgs>>
history == <<agreed, wants, raced>>
vars == <<tables, h, history>>

\* Pairs of different users ("Cannot add yourself", "Cannot block yourself").
Directed == {d \in Users \X Users : d[1] # d[2]}

Pair(d) == {d[1], d[2]}
Reverse(d) == <<d[2], d[1]>>

Status == {"absent", "pending", "accepted", "declined", "cancelled"}

\* at: the next step of the handler; req: the pair it is about; me: the user
\* who sent the request; found: what an earlier SELECT returned.
Handler == [at : {"check_friends", "read_request", "write_request", "accept",
                  "decline", "cancel", "block", "read_conversation", "insert"},
            req : Directed, me : Users, found : Status \cup {"present"}]

ASSUME FriendsAssumption == None \notin Handler

Init ==
    /\ req = [d \in Directed |-> "absent"]
    /\ friends = {}
    /\ convs = {}
    /\ blocks = {}
    /\ msgs = {}
    /\ h = [p \in Handlers |-> None]
    /\ agreed = {}
    /\ wants = {}
    /\ raced = {}

Free(p) == h[p] = None
At(p, step) == ~ Free(p) /\ h[p].at = step

Begin(p, step, d, me, found) ==
    h' = [h EXCEPT ![p] = [at |-> step, req |-> d, me |-> me, found |-> found]]
Continue(p, step) == h' = [h EXCEPT ![p].at = step]
Finish(p) == h' = [h EXCEPT ![p] = None]

\* The user d[1] ends his consent to d[2]; an accept that has read the request
\* and not written yet does not see it.
Withdraw(d) ==
    /\ wants' = wants \ {d}
    /\ raced' = IF \E p \in Handlers : At(p, "accept") /\ Pair(h[p].req) = Pair(d)
                THEN raced \cup {d} ELSE raced \ {d}

-----------------------------------------------------------------------------
(* send_friend_request *)

\* The recipient has not blocked the sender (else 403) ...
RequestCheckBlock(p, d) ==
    /\ Free(p)
    /\ Reverse(d) \notin blocks
    /\ Begin(p, "check_friends", d, d[1], "absent")
    /\ UNCHANGED <<tables, history>>

\* ... they are not friends (else 409) ...
RequestCheckFriends(p) ==
    /\ At(p, "check_friends")
    /\ IF Pair(h[p].req) \in friends THEN Finish(p) ELSE Continue(p, "read_request")
    /\ UNCHANGED <<tables, history>>

\* ... and no request is pending or accepted (else 409).
RequestRead(p) ==
    /\ At(p, "read_request")
    /\ LET status == req[h[p].req]
       IN  IF status \in {"accepted", "pending"} THEN Finish(p)
           ELSE Begin(p, "write_request", h[p].req, h[p].me, status)
    /\ UNCHANGED <<tables, history>>

\* UPDATE the row that was found, whatever it says by now; or INSERT, which
\* fails on uq_friend_request_sender_recipient if there is a row by now.
RequestWrite(p) ==
    /\ At(p, "write_request")
    /\ LET d == h[p].req
       IN  IF h[p].found = "absent" /\ req[d] # "absent"
           THEN UNCHANGED <<req, agreed, wants>>
           ELSE /\ req' = [req EXCEPT ![d] = "pending"]
                /\ agreed' = agreed \cup {d}
                /\ wants' = wants \cup {d}
    /\ Finish(p)
    /\ UNCHANGED <<friends, convs, blocks, msgs, raced>>

-----------------------------------------------------------------------------
(* handle_request *)

\* Mutant of MayAnswer: anyone the request concerns may accept it.
MayAnswerBoth(action, d, u) == u \in Pair(d)

\* "Only sender can cancel", "Only recipient can accept/decline".
MayAnswer(action, d, u) == IF action = "cancel" THEN u = d[1] ELSE u = d[2]

\* The request is read; it has to be pending (else 409).
AnswerRead(p, action, d, u) ==
    /\ Free(p)
    /\ req[d] = "pending"
    /\ MayAnswer(action, d, u)
    /\ Begin(p, action, d, u, "pending")
    /\ agreed' = IF action = "accept"
                 THEN agreed \cup {<<u, v>> : v \in Pair(d) \ {u}} ELSE agreed
    /\ wants' = IF action = "accept"
                THEN wants \cup {<<u, v>> : v \in Pair(d) \ {u}} ELSE wants
    /\ UNCHANGED <<tables, raced>>

\* Mutant of Accept: the conversation is left to the first message.
AcceptWithoutConversation(p) ==
    /\ At(p, "accept")
    /\ req' = [req EXCEPT ![h[p].req] = "accepted"]
    /\ friends' = friends \cup {Pair(h[p].req)}
    /\ Finish(p)
    /\ UNCHANGED <<convs, blocks, msgs, history>>

\* The status is written whatever it is by now; friendship and conversation
\* are added if they are missing; one commit.
Accept(p) ==
    /\ At(p, "accept")
    /\ req' = [req EXCEPT ![h[p].req] = "accepted"]
    /\ friends' = friends \cup {Pair(h[p].req)}
    /\ convs' = convs \cup {Pair(h[p].req)}
    /\ Finish(p)
    /\ UNCHANGED <<blocks, msgs, history>>

Decline(p) ==
    /\ At(p, "decline")
    /\ req' = [req EXCEPT ![h[p].req] = "declined"]
    /\ Finish(p)
    /\ UNCHANGED <<friends, convs, blocks, msgs, history>>

\* Cancelling an old request is no wish to end a friendship.
Cancel(p) ==
    /\ At(p, "cancel")
    /\ req' = [req EXCEPT ![h[p].req] = "cancelled"]
    /\ IF Pair(h[p].req) \in friends THEN UNCHANGED <<wants, raced>> ELSE Withdraw(h[p].req)
    /\ Finish(p)
    /\ UNCHANGED <<friends, convs, blocks, msgs, agreed>>

-----------------------------------------------------------------------------
(* remove_friend, block_user *)

\* A single DELETE.  It leaves a request that is still pending alone, so
\* that the user's own one goes on offering friendship.
RemoveFriend(p, d) ==
    /\ Free(p)
    /\ friends' = friends \ {Pair(d)}
    /\ IF Pair(d) \in friends /\ req[d] # "pending" THEN Withdraw(d)
       ELSE UNCHANGED <<wants, raced>>
    /\ UNCHANGED <<req, convs, blocks, msgs, h, agreed>>

\* The SELECT on blocks.
BlockRead(p, d) ==
    /\ Free(p)
    /\ Begin(p, "block", d, d[1], IF d \in blocks THEN "present" ELSE "absent")
    /\ UNCHANGED <<tables, history>>

\* Mutant of BlockWrite: the block is recorded, the friendship stays.
BlockWriteOnly(p) ==
    /\ At(p, "block")
    /\ blocks' = blocks \cup {h[p].req}
    /\ Withdraw(h[p].req)
    /\ Finish(p)
    /\ UNCHANGED <<req, friends, convs, msgs, agreed>>

\* INSERT unless the row was found, DELETE the friendship, cancel what is
\* pending.  An INSERT of a row that exists by now raises: nothing is changed.
BlockWrite(p) ==
    /\ At(p, "block")
    /\ LET d == h[p].req
       IN  IF h[p].found = "absent" /\ d \in blocks
           THEN UNCHANGED <<req, friends, blocks, wants, raced>>
           ELSE /\ blocks' = blocks \cup {d}
                /\ friends' = friends \ {Pair(d)}
                /\ req' = [r \in Directed |->
                             IF Pair(r) = Pair(d) /\ req[r] = "pending"
                             THEN "cancelled" ELSE req[r]]
                /\ Withdraw(d)
    /\ Finish(p)
    /\ UNCHANGED <<convs, msgs, agreed>>

-----------------------------------------------------------------------------
(* send_message, up to its commit *)

\* SELECT ... FROM friendships; not friends: 403.
MessageRead(p, d) ==
    /\ Free(p)
    /\ Pair(d) \in friends
    /\ Begin(p, "read_conversation", d, d[1], "absent")
    /\ UNCHANGED <<tables, history>>

MessageReadConversation(p) ==
    /\ At(p, "read_conversation")
    /\ IF Pair(h[p].req) \in convs THEN Continue(p, "insert") ELSE Finish(p)
    /\ UNCHANGED <<tables, history>>

MessageInsert(p) ==
    /\ At(p, "insert")
    /\ msgs' = msgs \cup {h[p].req}
    /\ Finish(p)
    /\ UNCHANGED <<req, friends, convs, blocks, history>>

-----------------------------------------------------------------------------
HandlerNext(p) ==
    \/ \E d \in Directed :
          \/ RequestCheckBlock(p, d)
          \/ RemoveFriend(p, d)
          \/ BlockRead(p, d)
          \/ MessageRead(p, d)
          \/ \E action \in {"accept", "decline", "cancel"}, u \in Users :
                AnswerRead(p, action, d, u)
    \/ RequestCheckFriends(p) \/ RequestRead(p) \/ RequestWrite(p)
    \/ Accept(p) \/ Decline(p) \/ Cancel(p)
    \/ BlockWrite(p)
    \/ MessageReadConversation(p) \/ MessageInsert(p)

Next == \E p \in Handlers : HandlerNext(p)

Spec == Init /\ [][Next]_vars

-----------------------------------------------------------------------------
(* Properties *)

\* The tables hold rows about two different users, and every handler is at a
\* step of one of the endpoints.
TypeOK ==
    /\ req \in [Directed -> Status]
    /\ friends \subseteq {Pair(d) : d \in Directed}
    /\ convs \subseteq {Pair(d) : d \in Directed}
    /\ blocks \subseteq Directed
    /\ msgs \subseteq Directed
    /\ h \in [Handlers -> Handler \cup {None}]
    /\ agreed \subseteq Directed
    /\ wants \subseteq Directed
    /\ raced \subseteq Directed

\* Nobody is brought into contact against his will (R16, anti-spam): friends,
\* a conversation or a message exist only between two users who both asked or
\* accepted, whatever handlers run at the same time.
ContactNeedsConsent ==
    \A d \in Directed :
        Pair(d) \in friends \cup convs \/ d \in msgs => d \in agreed /\ Reverse(d) \in agreed

\* Friends can write to each other: send_message never answers "No
\* conversation exists" to friends, also after any number of removals,
\* blocks and new requests.
FriendsHaveConversation ==
    /\ friends \subseteq convs
    /\ \A p \in Handlers : At(p, "read_conversation") => Pair(h[p].req) \in convs

\* Friends are users who both still want it: a cancelled request, a removal or
\* a block ends the consent until the same user asks or accepts again (a pending
\* request of his own is consent, also one older than a removal).  The only
\* exception is a withdrawal that crossed an accept on its way: handle_request
\* writes the friendship without looking at what was committed meanwhile.
FriendsWant ==
    \A d \in Directed : Pair(d) \in friends => d \in wants \cup raced
=============================================================================
