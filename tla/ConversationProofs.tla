------------------------- MODULE ConversationProofs -------------------------
(***************************************************************************)
(* Proofs about the two modules of a conversation in the client: Unread,   *)
(* for any messages and any number of visits, and History, for any page    *)
(* size and any traffic between the pages.                                 *)
(***************************************************************************)
EXTENDS Unread, History, FiniteSetTheorems, SequenceTheorems, TLAPS

-----------------------------------------------------------------------------
(* Types *)

\* What TypeOK needs of the WebSocket task: the message it works on is in the
\* table of the server, is in the local store once it is saved, and nobody
\* else has saved it before.
TaskInv ==
    /\ opens \in Nat
    /\ cur # None => cur \in Stored
    /\ ws \in {"saved", "routing"} => cur \in saved
    /\ ws = "saving" => cur \notin saved

\* No count, no message, no screen.
LEMMA TypeInit == Init => TypeOK /\ TaskInv
BY DEF Init, TypeOK, TaskInv, Stored, Tasks

\* What the message pump and the WebSocket task do to each other's place in
\* the four steps around the list.
LEMMA ListSteps ==
    ASSUME NEW t \in Tasks,
           RefreshList(t) \/ list_conversations(t) \/ ApplyList(t) \/ ListFails(t)
    PROVE  /\ UNCHANGED <<server, screen, opens, mark, cur, active, saved, shown>>
           /\ \/ /\ ws' = ws
                 /\ ui \in {"idle", "asking", "listing"} /\ ui' \in {"idle", "asking", "listing"}
              \/ /\ ui' = ui
                 /\ ws \in {"idle", "asking", "listing"} /\ ws' \in {"idle", "asking", "listing"}
           /\ ui' = ui \/ screen = 0 \/ ui # "idle"
<1>1. UNCHANGED <<server, screen, opens, mark, cur, active, saved, shown>>
  BY DEF RefreshList, list_conversations, ApplyList, ListFails
<1>2. CASE t = "ui"
  <2>1. ws' = ws
    BY <1>2 DEF RefreshList, list_conversations, ApplyList, ListFails, GoTo
  <2>2. ui \in {"idle", "asking", "listing"} /\ ui' \in {"idle", "asking", "listing"}
    BY <1>2 DEF RefreshList, list_conversations, ApplyList, ListFails, GoTo, At
  <2>3. screen = 0 \/ ui # "idle"
    BY <1>2 DEF RefreshList, list_conversations, ApplyList, ListFails, At
  <2> QED
    BY <1>1, <2>1, <2>2, <2>3
<1>3. CASE t = "ws"
  <2>1. ui' = ui
    BY <1>3 DEF RefreshList, list_conversations, ApplyList, ListFails, GoTo
  <2>2. ws \in {"idle", "asking", "listing"} /\ ws' \in {"idle", "asking", "listing"}
    BY <1>3 DEF RefreshList, list_conversations, ApplyList, ListFails, GoTo, At
  <2> QED
    BY <1>1, <2>1, <2>2
<1> QED
  BY <1>2, <1>3 DEF Tasks

\* A handler that moves on: a message stays in the table once it is there, and
\* only CountMessage puts one there.
LEMMA HandlerMoves ==
    ASSUME TypeOK, NEW h \in Msgs \cup Marks, NEW step \in {"sent", "loaded", "done"},
           handler[h] # "done", handler' = [handler EXCEPT ![h] = step]
    PROVE  /\ handler' \in [Msgs \cup Marks -> {"new", "sent", "loaded", "done"}]
           /\ step = "done" /\ h \in Msgs => Stored' = Stored \cup {h} /\ h \notin Stored
           /\ step # "done" \/ h \in Marks => Stored' = Stored
<1>1. handler' \in [Msgs \cup Marks -> {"new", "sent", "loaded", "done"}]
  BY DEF TypeOK
<1>2. \A m \in Msgs \cup Marks : handler'[m] = IF m = h THEN step ELSE handler[m]
  BY DEF TypeOK
<1>3. step = "done" /\ h \in Msgs => Stored' = Stored \cup {h} /\ h \notin Stored
  BY <1>2 DEF Stored
<1>4. step # "done" \/ h \in Marks => Stored' = Stored
  BY <1>2, HandlersAssumption DEF Stored
<1> QED
  BY <1>1, <1>3, <1>4

\* One case per step of the server and of the two tasks.
LEMMA TypeNext == TypeOK /\ TaskInv /\ [Next]_vars => TypeOK' /\ TaskInv'
<1> SUFFICES ASSUME TypeOK, TaskInv, [Next]_vars PROVE TypeOK' /\ TaskInv'
  OBVIOUS
<1> USE HandlersAssumption
<1>1. CASE UNCHANGED vars
  BY <1>1 DEF vars, server, client, TypeOK, TaskInv, Stored
\* A step of the server: what is in the table stays there.
<1>2. ASSUME unread' \in Nat, loaded' \in [Msgs \cup Marks -> Nat], UNCHANGED client,
             handler' \in [Msgs \cup Marks -> {"new", "sent", "loaded", "done"}],
             Stored \subseteq Stored'
      PROVE  TypeOK' /\ TaskInv'
  BY <1>2 DEF client, TypeOK, TaskInv
<1>3. ASSUME NEW h \in Msgs \cup Marks, Load(h) PROVE TypeOK' /\ TaskInv'
  <2>1. handler[h] # "done" /\ handler' = [handler EXCEPT ![h] = "loaded"]
    BY <1>3 DEF Load
  <2>2. unread' \in Nat /\ loaded' \in [Msgs \cup Marks -> Nat] /\ UNCHANGED client
    BY <1>3 DEF Load, TypeOK
  <2> QED
    BY <1>2, <2>1, <2>2, HandlerMoves
<1>4. ASSUME NEW m \in Msgs, CountMessage(m) PROVE TypeOK' /\ TaskInv'
  <2>1. handler[m] # "done" /\ handler' = [handler EXCEPT ![m] = "done"]
    BY <1>4 DEF CountMessage
  <2>2. unread' \in Nat /\ loaded' \in [Msgs \cup Marks -> Nat] /\ UNCHANGED client
    BY <1>4 DEF CountMessage, TypeOK
  <2> QED
    BY <1>2, <2>1, <2>2, HandlerMoves
<1>5. ASSUME NEW k \in Marks, mark_read(k) PROVE TypeOK' /\ TaskInv'
  <2>1. handler[k] # "done" /\ handler' = [handler EXCEPT ![k] = "done"]
    BY <1>5 DEF mark_read
  <2>2. unread' \in Nat /\ loaded' \in [Msgs \cup Marks -> Nat] /\ UNCHANGED client
    BY <1>5 DEF mark_read, TypeOK
  <2> QED
    BY <1>2, <2>1, <2>2, HandlerMoves
<1>6. ASSUME NEW k \in Marks, SelectConversation(k) PROVE TypeOK' /\ TaskInv'
  <2>1. handler[k] # "done" /\ handler' = [handler EXCEPT ![k] = "sent"]
    BY <1>6 DEF SelectConversation
  <2>2. /\ handler' \in [Msgs \cup Marks -> {"new", "sent", "loaded", "done"}]
        /\ Stored' = Stored
    BY <2>1, HandlerMoves
  <2> QED
    BY <1>6, <2>2 DEF SelectConversation, TypeOK, TaskInv
\* The steps of the tasks leave the server alone.
<1>7. UNCHANGED server => Stored' = Stored
  BY DEF server, Stored
<1>8. CASE reset_unread \/ MarkFails \/ OpenChat \/ ShowHistory \/ CloseChat
  BY <1>7, <1>8
  DEF reset_unread, MarkFails, OpenChat, ShowHistory, CloseChat, server, TypeOK, TaskInv
<1>9. ASSUME NEW m \in Msgs, SaveFetched(m) PROVE TypeOK' /\ TaskInv'
  BY <1>7, <1>9 DEF SaveFetched, server, TypeOK, TaskInv
<1>10. ASSUME NEW m \in Msgs, Receive(m) PROVE TypeOK' /\ TaskInv'
  BY <1>7, <1>10 DEF Receive, server, TypeOK, TaskInv
<1>11. CASE SaveMessage \/ SaveMessageFails \/ upsert_conversation \/ Route
  BY <1>7, <1>11
  DEF SaveMessage, SaveMessageFails, upsert_conversation, Route, server, TypeOK, TaskInv
<1>12. ASSUME NEW t \in Tasks,
              RefreshList(t) \/ list_conversations(t) \/ ApplyList(t) \/ ListFails(t)
       PROVE  TypeOK' /\ TaskInv'
  <2>1. listed' \in [Tasks -> Nat] /\ local' \in Nat
    BY <1>12 DEF RefreshList, list_conversations, ApplyList, ListFails, TypeOK
  <2>2. UNCHANGED <<server, screen, opens, mark, cur, active, saved, shown>>
    BY <1>12, ListSteps
  <2>3. \/ /\ ws' = ws
           /\ ui \in {"idle", "asking", "listing"} /\ ui' \in {"idle", "asking", "listing"}
        \/ /\ ui' = ui
           /\ ws \in {"idle", "asking", "listing"} /\ ws' \in {"idle", "asking", "listing"}
    BY <1>12, ListSteps
  <2> QED
    BY <1>7, <2>1, <2>2, <2>3 DEF server, TypeOK, TaskInv
<1> QED
  BY <1>1, <1>3, <1>4, <1>5, <1>6, <1>8, <1>9, <1>10, <1>11, <1>12 DEF Next

\* Counters, handlers and tasks keep their types, and what is shown is saved
\* and what is saved is stored on the server.
LEMMA TypeTaskCorrect == Spec => [](TypeOK /\ TaskInv)
BY TypeInit, TypeNext, PTL DEF Spec

\* The counters of the server and of the client are natural numbers, and both
\* tasks of the client are at a point of their code.
THEOREM TypeCorrect == Spec => []TypeOK
BY TypeTaskCorrect, PTL

-----------------------------------------------------------------------------
(* The server's counter *)

\* What makes CountIsPlausible inductive: a handler has not loaded more than
\* there are messages either, and there are finitely many.
CountInv ==
    /\ CountIsPlausible
    /\ IsFiniteSet(Stored)
    /\ \A h \in Msgs \cup Marks : loaded[h] <= Cardinality(Stored)

\* Messages are only added, and a commit counts one that is new.
LEMMA CountNext == TypeOK /\ CountInv /\ [Next]_vars => CountInv'
<1> SUFFICES ASSUME TypeOK, CountInv, [Next]_vars PROVE CountInv'
  OBVIOUS
<1> USE HandlersAssumption
<1> DEFINE n == Cardinality(Stored)
<1>1. /\ n \in Nat /\ unread \in Nat /\ unread <= n
      /\ \A h \in Msgs \cup Marks : loaded[h] \in Nat /\ loaded[h] <= n
  BY FS_CardinalityType DEF CountInv, CountIsPlausible, TypeOK
\* Steps after which nobody has counted more than before.
<1>2. ASSUME Stored' = Stored,
             (unread' = unread /\ fresh' = fresh) \/ (unread' = 0 /\ fresh' = {}),
             \A h \in Msgs \cup Marks : loaded'[h] \in {loaded[h], unread}
      PROVE  CountInv'
  BY <1>1, <1>2 DEF CountInv, CountIsPlausible
<1>3. UNCHANGED server => CountInv'
  BY <1>2 DEF server, Stored
<1>4. ASSUME NEW h \in Msgs \cup Marks, Load(h) PROVE CountInv'
  <2>1. handler[h] # "done" /\ handler' = [handler EXCEPT ![h] = "loaded"]
    BY <1>4 DEF Load
  <2>2. Stored' = Stored
    BY <2>1, HandlerMoves
  <2>3. UNCHANGED <<unread, fresh>> /\ loaded' = [loaded EXCEPT ![h] = unread]
    BY <1>4 DEF Load
  <2>4. \A g \in Msgs \cup Marks : loaded'[g] \in {loaded[g], unread}
    BY <2>3 DEF TypeOK
  <2> QED
    BY <1>2, <2>2, <2>3, <2>4
<1>5. ASSUME NEW m \in Msgs, CountMessage(m) PROVE CountInv'
  <2>1. handler[m] # "done" /\ handler' = [handler EXCEPT ![m] = "done"]
    BY <1>5 DEF CountMessage
  <2>2. Stored' = Stored \cup {m} /\ m \notin Stored
    BY <2>1, HandlerMoves
  <2>3. IsFiniteSet(Stored') /\ Cardinality(Stored') = n + 1
    BY <2>2, FS_AddElement DEF CountInv
  <2>4. unread' = loaded[m] + 1 /\ loaded' = loaded
    BY <1>5 DEF CountMessage
  <2> QED
    BY <1>1, <2>3, <2>4 DEF CountInv, CountIsPlausible
<1>6. ASSUME NEW k \in Marks, mark_read(k) PROVE CountInv'
  <2>1. handler[k] # "done" /\ handler' = [handler EXCEPT ![k] = "done"]
    BY <1>6 DEF mark_read
  <2>2. Stored' = Stored
    BY <2>1, HandlerMoves
  <2> QED
    BY <1>2, <1>6, <2>2 DEF mark_read
<1>7. ASSUME NEW k \in Marks, SelectConversation(k) PROVE CountInv'
  <2>1. handler[k] # "done" /\ handler' = [handler EXCEPT ![k] = "sent"]
    BY <1>7 DEF SelectConversation
  <2>2. Stored' = Stored
    BY <2>1, HandlerMoves
  <2> QED
    BY <1>2, <1>7, <2>2 DEF SelectConversation
<1>8. CASE UNCHANGED vars \/ \E t \in Tasks :
               RefreshList(t) \/ list_conversations(t) \/ ApplyList(t) \/ ListFails(t)
  BY <1>3, <1>8, ListSteps DEF vars
<1>9. CASE \/ reset_unread \/ MarkFails \/ OpenChat \/ ShowHistory \/ CloseChat
           \/ SaveMessage \/ SaveMessageFails \/ upsert_conversation \/ Route
           \/ \E m \in Msgs : SaveFetched(m) \/ Receive(m)
  BY <1>3, <1>9
  DEF reset_unread, MarkFails, OpenChat, ShowHistory, CloseChat, SaveMessage,
      SaveMessageFails, upsert_conversation, Route, SaveFetched, Receive
<1> QED
  BY <1>4, <1>5, <1>6, <1>7, <1>8, <1>9 DEF Next

\* The row never forgets that there is something to read and never counts more
\* than there is, however the handlers of send_message and mark_read overwrite
\* each other's counts, for any number of messages and visits.
THEOREM CountIsPlausibleAlways == Spec => []CountIsPlausible
<1>1. Init => CountInv
  <2> SUFFICES ASSUME Init PROVE CountInv
    OBVIOUS
  <2>1. Stored = {}
    BY DEF Init, Stored
  <2>2. IsFiniteSet(Stored) /\ Cardinality(Stored) = 0
    BY <2>1, FS_EmptySet
  <2> QED
    BY <2>2 DEF Init, CountInv, CountIsPlausible
<1>2. CountInv => CountIsPlausible
  BY DEF CountInv
<1> QED
  BY <1>1, <1>2, TypeCorrect, CountNext, PTL DEF Spec

-----------------------------------------------------------------------------
(* The badge in the list *)

\* Messages that wait for the badge, apart from the one the WebSocket task is
\* still working on.
Waiting == saved \ (shown \cup missed \cup {cur})

\* BadgeShown speaks of two tasks at rest; what carries it there:
\*  - a chat on the screen leaves nothing waiting once its history is shown;
\*  - a task that saw a chat before it saved its message will not count it, and
\*    need not: nothing is waiting when it resets the count;
\*  - the count is positive while something waits, from the moment a message is
\*    routed to the next reset, which either another route or a history follows.
BadgeInv ==
    /\ screen # 0 /\ ui # "history" => Waiting = {}
    /\ screen # 0 => ui \in {"idle", "history"}
    /\ ws \in {"saving", "saved", "routing"} /\ active # 0 /\ ui # "history" => Waiting = {}
    /\ ws # "routing" /\ ui \notin {"opening", "history"} /\ Waiting # {} => local >= 1

\* One case per step of the server and of the two tasks.
LEMMA BadgeNext == TypeOK /\ TaskInv /\ BadgeInv /\ [Next]_vars => BadgeInv'
<1> SUFFICES ASSUME TypeOK, TaskInv, BadgeInv, [Next]_vars PROVE BadgeInv'
  OBVIOUS
<1> USE HandlersAssumption
<1>1. ASSUME UNCHANGED client PROVE BadgeInv'
  BY <1>1 DEF client, BadgeInv, Waiting
<1>2. CASE UNCHANGED vars
  BY <1>1, <1>2 DEF vars
<1>3. CASE \/ \E h \in Msgs \cup Marks : Load(h)
           \/ \E m \in Msgs : CountMessage(m)
           \/ \E k \in Marks : mark_read(k)
  BY <1>1, <1>3 DEF Load, CountMessage, mark_read
\* Steps of the pump that leave the messages alone.
<1>4. ASSUME NEW k \in Marks, SelectConversation(k) PROVE BadgeInv'
  <2>1. Waiting' = Waiting
    BY <1>4 DEF SelectConversation, Waiting
  <2> QED
    BY <1>4, <2>1 DEF SelectConversation, BadgeInv
<1>5. CASE reset_unread \/ MarkFails \/ OpenChat \/ CloseChat
  <2>1. Waiting' = Waiting
    BY <1>5 DEF reset_unread, MarkFails, OpenChat, CloseChat, Waiting
  <2> QED
    BY <1>5, <2>1 DEF reset_unread, MarkFails, OpenChat, CloseChat, BadgeInv
<1>6. ASSUME NEW m \in Msgs, SaveFetched(m) PROVE BadgeInv'
  BY <1>6 DEF SaveFetched, BadgeInv
<1>7. CASE ShowHistory
  <2>1. Waiting' = {}
    BY <1>7 DEF ShowHistory, Waiting
  <2> QED
    BY <1>7, <2>1 DEF ShowHistory, BadgeInv
\* Steps of the WebSocket task.
<1>8. ASSUME NEW m \in Msgs, Receive(m) PROVE BadgeInv'
  <2>1. Waiting' = Waiting
    BY <1>8 DEF Receive, TypeOK, Waiting, Stored
  <2> QED
    BY <1>8, <2>1 DEF Receive, BadgeInv
<1>9. CASE SaveMessage
  <2>1. Waiting' = Waiting
    BY <1>9 DEF SaveMessage, Waiting
  <2> QED
    BY <1>9, <2>1 DEF SaveMessage, BadgeInv
<1>10. CASE SaveMessageFails
  <2>1. Waiting' = Waiting
    BY <1>10 DEF SaveMessageFails, Waiting, TypeOK, TaskInv, Stored
  <2> QED
    BY <1>10, <2>1 DEF SaveMessageFails, BadgeInv
<1>11. CASE upsert_conversation
  <2>1. Waiting' = Waiting
    BY <1>11 DEF upsert_conversation, Waiting
  <2> QED
    BY <1>11, <2>1 DEF upsert_conversation, BadgeInv
<1>12. CASE Route
  <2>1. UNCHANGED <<screen, ui>> /\ ws = "routing" /\ ws' = "idle"
    BY <1>12 DEF Route
  <2>2. CASE active = 0 /\ screen = 0
    <3>1. local' >= 1
      BY <1>12, <2>2 DEF Route, TypeOK
    <3> QED
      BY <2>1, <2>2, <3>1 DEF BadgeInv
  <2>3. CASE ~ (active = 0 /\ screen = 0)
    <3>1. Waiting' \subseteq Waiting
      BY <1>12, <2>3 DEF Route, Waiting
    <3>2. active = 0 => local' >= 1
      BY <1>12 DEF Route, TypeOK
    <3>3. active # 0 /\ ui # "history" => Waiting = {}
      BY <2>1 DEF BadgeInv
    <3> QED
      BY <2>1, <3>1, <3>2, <3>3 DEF BadgeInv
  <2> QED
    BY <2>2, <2>3
\* The list.
<1>13. ASSUME NEW t \in Tasks,
              RefreshList(t) \/ list_conversations(t) \/ ApplyList(t) \/ ListFails(t)
       PROVE  BadgeInv'
  <2>1. /\ UNCHANGED <<screen, cur, active, saved, shown>>
        /\ \/ /\ ws' = ws
              /\ ui \in {"idle", "asking", "listing"} /\ ui' \in {"idle", "asking", "listing"}
           \/ /\ ui' = ui
              /\ ws \in {"idle", "asking", "listing"} /\ ws' \in {"idle", "asking", "listing"}
        /\ ui' = ui \/ screen = 0 \/ ui # "idle"
    BY <1>13, ListSteps
  <2>2. \/ UNCHANGED <<local, missed>>
        \/ local' >= 1 /\ missed' = missed
        \/ missed' = missed \cup (saved \ shown)
    BY <1>13 DEF RefreshList, list_conversations, ApplyList, ListFails, TypeOK
  <2>3. Waiting' \subseteq Waiting
    BY <2>1, <2>2 DEF Waiting
  <2>4. local' = local \/ local' >= 1 \/ Waiting' = {}
    BY <2>1, <2>2 DEF Waiting
  <2> QED
    BY <2>1, <2>3, <2>4 DEF BadgeInv
<1> QED
  BY <1>2, <1>3, <1>4, <1>5, <1>6, <1>7, <1>8, <1>9, <1>10, <1>11, <1>12, <1>13 DEF Next

\* When both tasks of the client are at rest, a saved message that no screen has
\* shown is counted in the list, except for the cases BadgeShown names, for any
\* number of messages and visits.
THEOREM BadgeShownAlways == Spec => []BadgeShown
<1>1. Init => BadgeInv
  BY DEF Init, BadgeInv, Waiting
<1>2. TypeOK /\ TaskInv /\ BadgeInv => BadgeShown
  <2> SUFFICES ASSUME TypeOK, TaskInv, BadgeInv, ui = "idle", ws = "idle",
                      saved \ (shown \cup missed) # {}
               PROVE  local >= 1
    BY DEF BadgeShown
  <2>1. cur = None /\ None \notin saved
    BY HandlersAssumption DEF TypeOK, Stored
  <2>2. Waiting # {}
    BY <2>1 DEF Waiting
  <2> QED
    BY <2>2 DEF BadgeInv
<1> QED
  BY <1>1, <1>2, TypeTaskCorrect, BadgeNext, PTL DEF Spec

-----------------------------------------------------------------------------
(* The history of the conversation (module History) *)

\* The message is in a page that was fetched.
InPages(m) == \E i \in 1 .. Len(pages) : m \in pages[i]

\* The message was handed to _store_fetched_history_envelope.
IsStored(m) == \E k \in 1 .. Len(stored) : stored[k] = m

\* Before the sync nothing is fetched, and before the last page nothing is
\* stored.
StartInv ==
    /\ stage = "idle" => pages = <<>> /\ cursor = NoCursor /\ steady = {}
    /\ stage \in {"idle", "fetching"} => stored = <<>>

\* What orders the pages: all that was fetched is as new as the cursor, and each
\* page is newer than every later one.
PageInv ==
    /\ stage = "fetching" =>
         \A i \in 1 .. Len(pages) : \A a \in pages[i] :
            cursor # NoCursor /\ sent_at[a] >= sent_at[cursor]
    /\ \A i, j \in 1 .. Len(pages) : i < j =>
         \A a \in pages[i], b \in pages[j] : sent_at[a] > sent_at[b]

\* What is stored is as old as anything that is still in a page.
StoreInv ==
    \A k \in 1 .. Len(stored) : \A i \in 1 .. Len(pages) : \A b \in pages[i] :
        sent_at[stored[k]] <= sent_at[b] /\ stored[k] # b

\* What makes OldestFirst and the type invariant of History inductive.
OrderInv == HistoryTypeOK /\ OldestFirst /\ StartInv /\ PageInv /\ StoreInv

\* Times can be compared.
LEMMA TimeType ==
    ASSUME HistoryTypeOK, NEW m \in Ids
    PROVE  sent_at[m] \in Nat
BY LimitAssumption DEF HistoryTypeOK

\* Nothing has been fetched.
LEMMA OrderInit == HistoryInit => OrderInv
<1> SUFFICES ASSUME HistoryInit PROVE OrderInv
  OBVIOUS
<1>1. pages = <<>> /\ stored = <<>> /\ Len(pages) = 0 /\ Len(stored) = 0
  BY DEF HistoryInit
<1>2. <<>> \in Seq(SUBSET Ids) /\ <<>> \in Seq(Ids)
  BY EmptySeq
<1>3. HistoryTypeOK
  BY <1>1, <1>2 DEF HistoryInit, HistoryTypeOK
<1>4. OldestFirst /\ StartInv /\ PageInv /\ StoreInv
  BY <1>1 DEF HistoryInit, OldestFirst, StartInv, PageInv, StoreInv
<1> QED
  BY <1>3, <1>4 DEF OrderInv

\* A page that is older than the cursor follows the others.
LEMMA FetchOrder ==
    ASSUME OrderInv, stage = "fetching",
           NEW p \in SUBSET Before(cursor), pages' = Append(pages, p),
           NEW c \in Ids \cup {NoCursor}, cursor' = c,
           stage' = "fetching" => c \in p /\ \A a \in p : sent_at[a] >= sent_at[c],
           stage' \in {"fetching", "storing"},
           UNCHANGED <<sent_at, table, stored>>
    PROVE  OrderInv'
<1>1. HistoryTypeOK /\ StartInv /\ PageInv
  BY DEF OrderInv
<1>2. p \subseteq Ids /\ \A b \in p : cursor # NoCursor => sent_at[b] < sent_at[cursor]
  BY <1>1 DEF Before, HistoryTypeOK
<1> DEFINE n == Len(pages)
<1>3. n \in Nat /\ pages \in Seq(SUBSET Ids)
  BY <1>1, LenProperties DEF HistoryTypeOK
<1>4. /\ pages' \in Seq(SUBSET Ids) /\ Len(pages') = n + 1
      /\ \A i \in 1 .. n : pages'[i] = pages[i]
      /\ pages'[n + 1] = p
  BY <1>2, <1>3, AppendProperties
<1> HIDE DEF n
<1>5. \A i \in 1 .. n : \A a \in pages[i] :
         a \in Ids /\ cursor \in Ids /\ sent_at[a] >= sent_at[cursor]
  <2>1. \A i \in 1 .. n : pages[i] \subseteq Ids
    BY <1>3, ElementOfSeq DEF n
  <2> QED
    BY <1>1, <2>1 DEF PageInv, HistoryTypeOK, n
\* The new page is older than all the others.
<1>6. \A i \in 1 .. n : \A a \in pages[i], b \in p : sent_at[a] > sent_at[b]
  <2> SUFFICES ASSUME NEW i \in 1 .. n, NEW a \in pages[i], NEW b \in p
               PROVE  sent_at[a] > sent_at[b]
    OBVIOUS
  <2>1. a \in Ids /\ cursor \in Ids /\ sent_at[a] >= sent_at[cursor]
    BY <1>5
  <2>2. b \in Ids /\ sent_at[b] < sent_at[cursor]
    BY <1>2, <2>1, LimitAssumption
  <2>3. sent_at[a] \in Nat /\ sent_at[b] \in Nat /\ sent_at[cursor] \in Nat
    BY <1>1, <2>1, <2>2, TimeType
  <2> QED
    BY <2>1, <2>2, <2>3
<1>7. \A i \in 1 .. n : pages[i] \cap p = {}
  <2> SUFFICES ASSUME NEW i \in 1 .. n, NEW a \in pages[i], a \in p
               PROVE  FALSE
    OBVIOUS
  <2>1. sent_at[a] \in Nat /\ sent_at[a] > sent_at[a]
    BY <1>1, <1>5, <1>6, TimeType
  <2> QED
    BY <2>1
<1>8. \A i \in 1 .. n + 1 : i \in 1 .. n \/ i = n + 1
  BY <1>3 DEF n
<1>9. stored = <<>> /\ stored' = <<>> /\ Len(stored') = 0
  BY <1>1 DEF StartInv
<1>10. HistoryTypeOK'
  <2>1. \A i, j \in 1 .. Len(pages') : i # j => pages'[i] \cap pages'[j] = {}
    <3>1. \A i, j \in 1 .. n : i # j => pages[i] \cap pages[j] = {}
      BY <1>1 DEF HistoryTypeOK, n
    <3> QED
      BY <1>4, <1>7, <1>8, <3>1
  <2> QED
    BY <1>1, <1>4, <1>9, <2>1 DEF HistoryTypeOK
<1>11. OldestFirst' /\ StoreInv' /\ StartInv'
  BY <1>9 DEF OldestFirst, StoreInv, StartInv
<1>12. PageInv'
  <2>1. \A i, j \in 1 .. Len(pages') : i < j =>
           \A a \in pages'[i], b \in pages'[j] : sent_at'[a] > sent_at'[b]
    <3> SUFFICES ASSUME NEW i \in 1 .. n + 1, NEW j \in 1 .. n + 1, i < j
                 PROVE  \A a \in pages'[i], b \in pages'[j] : sent_at[a] > sent_at[b]
      BY <1>4
    <3>1. i \in 1 .. n /\ pages'[i] = pages[i]
      BY <1>3, <1>4 DEF n
    <3>2. CASE j \in 1 .. n
      BY <1>1, <1>4, <3>1, <3>2 DEF PageInv, n
    <3>3. CASE j = n + 1
      BY <1>4, <1>6, <3>1, <3>3
    <3> QED
      BY <1>8, <3>2, <3>3
  <2>2. ASSUME stage' = "fetching", NEW i \in 1 .. n + 1, NEW a \in pages'[i]
        PROVE  cursor' # NoCursor /\ sent_at[a] >= sent_at[c]
    <3>1. c \in p /\ c \in Ids /\ \A b \in p : sent_at[b] >= sent_at[c]
      BY <1>2, <2>2
    <3>2. CASE i \in 1 .. n
      <4>1. a \in pages[i] /\ a \in Ids /\ sent_at[a] > sent_at[c]
        BY <1>4, <1>5, <1>6, <2>2, <3>1, <3>2
      <4>2. sent_at[a] \in Nat /\ sent_at[c] \in Nat
        BY <1>1, <3>1, <4>1, TimeType
      <4> QED
        BY <3>1, <4>1, <4>2, LimitAssumption
    <3>3. CASE i = n + 1
      BY <1>4, <2>2, <3>1, <3>3, LimitAssumption
    <3> QED
      BY <1>8, <3>2, <3>3
  <2> QED
    BY <1>4, <2>1, <2>2 DEF PageInv
<1> QED
  BY <1>10, <1>11, <1>12 DEF OrderInv

\* What StoreNext takes out of the pages is as old as all that stays.
LEMMA TakeOldest ==
    ASSUME HistoryTypeOK, PageInv,
           NEW i \in 1 .. Len(pages), NEW m \in Ids,
           OldestPage(i), Last(pages[i], m),
           pages' = [pages EXCEPT ![i] = @ \ {m}]
    PROVE  /\ pages' \in Seq(SUBSET Ids)
           /\ Len(pages') = Len(pages)
           /\ \A j \in 1 .. Len(pages) :
                pages'[j] = IF j = i THEN pages[i] \ {m} ELSE pages[j]
           /\ \A j \in 1 .. Len(pages) : \A b \in pages'[j] :
                b # m /\ sent_at[m] <= sent_at[b]
<1>1. pages \in Seq(SUBSET Ids) /\ Len(pages) \in Nat /\ DOMAIN pages = 1 .. Len(pages)
  BY LenProperties DEF HistoryTypeOK
<1>2. m \in pages[i] /\ \A b \in pages[i] : sent_at[m] <= sent_at[b]
  BY DEF Last
<1>3. pages[i] \ {m} \in SUBSET Ids /\ pages' = [pages EXCEPT ![i] = pages[i] \ {m}]
  BY <1>1, ElementOfSeq
<1>4. /\ pages' \in Seq(SUBSET Ids) /\ Len(pages') = Len(pages)
      /\ \A j \in 1 .. Len(pages) :
           pages'[j] = IF j = i THEN pages[i] \ {m} ELSE pages[j]
  BY <1>1, <1>3, ExceptSeq
<1>5. ASSUME NEW j \in 1 .. Len(pages), NEW b \in pages'[j]
      PROVE  b # m /\ sent_at[m] <= sent_at[b]
  <2>1. CASE j = i
    BY <1>2, <1>4, <1>5, <2>1
  <2>2. CASE j < i
    <3>1. b \in pages[j] /\ b \in Ids /\ sent_at[b] > sent_at[m]
      BY <1>1, <1>2, <1>4, <1>5, <2>2, ElementOfSeq DEF PageInv
    <3>2. sent_at[b] \in Nat /\ sent_at[m] \in Nat
      BY <3>1, TimeType
    <3> QED
      BY <3>1, <3>2
  <2>3. CASE j > i
    <3>1. j \in i + 1 .. Len(pages) /\ pages[j] = {}
      BY <1>1, <2>3 DEF OldestPage
    <3> QED
      BY <1>4, <1>5, <2>3, <3>1
  <2> QED
    BY <1>1, <2>1, <2>2, <2>3
<1> QED
  BY <1>4, <1>5

\* Storing goes from old to new.
LEMMA StoreOrder == ASSUME OrderInv, StoreNext PROVE OrderInv'
<1>1. HistoryTypeOK /\ OldestFirst /\ StartInv /\ PageInv /\ StoreInv
  BY DEF OrderInv
<1>2. PICK i \in 1 .. Len(pages), m \in Ids :
         /\ OldestPage(i)
         /\ Last(pages[i], m)
         /\ stored' = IF m \in Own THEN stored ELSE Append(stored, m)
         /\ pages' = [pages EXCEPT ![i] = @ \ {m}]
  BY DEF StoreNext
<1>3. stage = "storing" /\ UNCHANGED <<sent_at, table, stage, cursor, steady, cuts>>
  BY DEF StoreNext
<1>4. /\ pages' \in Seq(SUBSET Ids) /\ Len(pages') = Len(pages)
      /\ \A j \in 1 .. Len(pages) :
           pages'[j] = IF j = i THEN pages[i] \ {m} ELSE pages[j]
      /\ \A j \in 1 .. Len(pages) : \A b \in pages'[j] : b # m /\ sent_at[m] <= sent_at[b]
  BY <1>1, <1>2, TakeOldest
<1>5. \A j \in 1 .. Len(pages) : pages'[j] \subseteq pages[j]
  BY <1>4
<1>6. m \in pages[i]
  BY <1>2 DEF Last
<1>7. \A k \in 1 .. Len(stored) : sent_at[stored[k]] <= sent_at[m] /\ stored[k] # m
  BY <1>1, <1>6 DEF StoreInv
<1>8. stored \in Seq(Ids) /\ Len(stored) \in Nat
  BY <1>1, LenProperties DEF HistoryTypeOK
<1>9. PageInv' /\ StartInv'
  BY <1>1, <1>3, <1>4, <1>5 DEF PageInv, StartInv
<1>10. \A j, l \in 1 .. Len(pages') : j # l => pages'[j] \cap pages'[l] = {}
  BY <1>1, <1>4, <1>5 DEF HistoryTypeOK
<1>11. CASE m \in Own
  <2>1. stored' = stored
    BY <1>2, <1>11
  <2>2. HistoryTypeOK'
    BY <1>1, <1>3, <1>4, <1>10, <2>1 DEF HistoryTypeOK
  <2>3. OldestFirst' /\ StoreInv'
    BY <1>1, <1>3, <1>4, <1>5, <2>1 DEF OldestFirst, StoreInv
  <2> QED
    BY <1>9, <2>2, <2>3 DEF OrderInv
<1>12. CASE m \notin Own
  <2> DEFINE n == Len(stored)
  <2>1. stored' = Append(stored, m)
    BY <1>2, <1>12
  <2>2. /\ stored' \in Seq(Ids) /\ Len(stored') = n + 1
        /\ \A k \in 1 .. n : stored'[k] = stored[k]
        /\ stored'[n + 1] = m
    BY <1>8, <2>1, AppendProperties
  <2> HIDE DEF n
  <2>3. \A k \in 1 .. n + 1 : k \in 1 .. n \/ k = n + 1
    BY <1>8 DEF n
  <2>4. \A k \in 1 .. n : sent_at[stored'[k]] <= sent_at[m] /\ stored'[k] # m
    BY <1>7, <2>2 DEF n
  <2>5. HistoryTypeOK'
    <3>1. \A k, l \in 1 .. n : k # l => stored[k] # stored[l]
      BY <1>1 DEF HistoryTypeOK, n
    <3>2. \A k, l \in 1 .. Len(stored') : k # l => stored'[k] # stored'[l]
      BY <2>2, <2>3, <2>4, <3>1
    <3> QED
      BY <1>1, <1>3, <1>4, <1>10, <2>2, <3>2 DEF HistoryTypeOK
  <2>6. OldestFirst'
    <3> SUFFICES ASSUME NEW k \in 1 .. n + 1, NEW l \in 1 .. n + 1, k < l
                 PROVE  sent_at[stored'[k]] <= sent_at[stored'[l]]
      BY <1>3, <2>2 DEF OldestFirst
    <3>1. k \in 1 .. n
      BY <1>8 DEF n
    <3>2. CASE l \in 1 .. n
      BY <1>1, <2>2, <3>1, <3>2 DEF OldestFirst, n
    <3>3. CASE l = n + 1
      BY <2>2, <2>4, <3>1, <3>3
    <3> QED
      BY <2>3, <3>2, <3>3
  <2>7. StoreInv'
    <3> SUFFICES ASSUME NEW k \in 1 .. n + 1, NEW j \in 1 .. Len(pages), NEW b \in pages'[j]
                 PROVE  sent_at[stored'[k]] <= sent_at[b] /\ stored'[k] # b
      BY <1>3, <1>4, <2>2 DEF StoreInv
    <3>1. CASE k \in 1 .. n
      BY <1>1, <1>5, <2>2, <3>1 DEF StoreInv, n
    <3>2. CASE k = n + 1
      BY <1>4, <2>2, <3>2
    <3> QED
      BY <2>3, <3>1, <3>2
  <2> QED
    BY <1>9, <2>5, <2>6, <2>7 DEF OrderInv
<1> QED
  BY <1>11, <1>12

\* One case per step of the table and of the sync.
LEMMA OrderNext ==
    OrderInv /\ [HistoryNext]_historyVars => OrderInv'
<1> SUFFICES ASSUME OrderInv, [HistoryNext]_historyVars PROVE OrderInv'
  OBVIOUS
<1>1. HistoryTypeOK /\ OldestFirst /\ StartInv /\ PageInv /\ StoreInv
  BY DEF OrderInv
\* Steps that leave what was fetched alone.
<1>2. ASSUME UNCHANGED <<sent_at, pages, cursor, stored>>, table' \subseteq Ids,
             stage' \in {"idle", "fetching", "storing", "done", "failed"},
             stage' = "idle" => stage = "idle" /\ steady' \subseteq steady,
             stage' = "fetching" => stage \in {"idle", "fetching"}
      PROVE  OrderInv'
  <2>1. HistoryTypeOK' /\ OldestFirst' /\ StoreInv'
    BY <1>1, <1>2 DEF HistoryTypeOK, OldestFirst, StoreInv
  <2>2. StartInv'
    BY <1>1, <1>2 DEF StartInv
  <2>3. stage = "idle" => Len(pages) = 0
    BY <1>1 DEF StartInv
  <2>4. PageInv'
    BY <1>1, <1>2, <2>3 DEF PageInv
  <2> QED
    BY <2>1, <2>2, <2>4 DEF OrderInv
<1>3. CASE UNCHANGED historyVars
  BY <1>1, <1>2, <1>3 DEF historyVars, HistoryTypeOK
<1>4. ASSUME NEW m \in Ids, Insert(m) \/ Delete(m) PROVE OrderInv'
  BY <1>1, <1>2, <1>4 DEF Insert, Delete, HistoryTypeOK
<1>5. CASE StartSync \/ FetchFails \/ EndSync
  BY <1>1, <1>2, <1>5 DEF StartSync, FetchFails, EndSync, HistoryTypeOK
<1>6. CASE FetchPage
  <2>1. PICK p \in SUBSET Before(cursor), m \in Ids :
           /\ Last(p, m) /\ pages' = Append(pages, p) /\ cursor' = m
    BY <1>6 DEF FetchPage
  <2>2. /\ stage = "fetching" /\ stage' = "fetching"
        /\ UNCHANGED <<sent_at, table, stored>>
    BY <1>6 DEF FetchPage
  <2>3. m \in p /\ \A a \in p : sent_at[a] >= sent_at[m]
    <3>1. p \subseteq Ids
      BY <1>1 DEF Before, HistoryTypeOK
    <3>2. \A a \in p : sent_at[a] \in Nat /\ sent_at[m] \in Nat
      BY <1>1, <3>1, TimeType
    <3> QED
      BY <2>1, <3>2 DEF Last
  <2> QED
    BY <2>1, <2>2, <2>3, FetchOrder
<1>7. CASE FetchLastPage
  <2>1. /\ stage = "fetching" /\ stage' = "storing" /\ cursor' = cursor
        /\ pages' = Append(pages, Before(cursor))
        /\ UNCHANGED <<sent_at, table, stored>>
    BY <1>7 DEF FetchLastPage
  <2>2. cursor \in Ids \cup {NoCursor}
    BY <1>1 DEF HistoryTypeOK
  <2> QED
    BY <2>1, <2>2, FetchOrder
<1>8. CASE StoreNext
  BY <1>8, StoreOrder
<1> QED
  BY <1>3, <1>4, <1>5, <1>6, <1>7, <1>8 DEF HistoryNext, Sync

\* Pages and stored messages keep their order.
LEMMA OrderCorrect == HistorySpec => []OrderInv
<1>1. HistoryInit => OrderInv
  BY OrderInit
<1>2. OrderInv /\ [HistoryNext]_historyVars => OrderInv'
  BY OrderNext
<1> QED
  BY <1>1, <1>2, PTL DEF HistorySpec

\* The sync handler and its pages keep their types, no message is in two pages
\* and none is stored twice, for any page size and any table.
THEOREM HistoryTypeCorrect == HistorySpec => []HistoryTypeOK
<1>1. OrderInv => HistoryTypeOK
  BY DEF OrderInv
<1> QED
  BY <1>1, OrderCorrect, PTL

\* _sync_chat_history_from_server stores the messages oldest first, whatever
\* arrives in the table or is deleted from it between two pages.
THEOREM OldestFirstAlways == HistorySpec => []OldestFirst
<1>1. OrderInv => OldestFirst
  BY DEF OrderInv
<1> QED
  BY <1>1, OrderCorrect, PTL

-----------------------------------------------------------------------------
(* What a sync may miss *)

\* What makes MissesOnlyTies inductive: a message that stays in the table is in
\* a page, has the time of a cut, or is still ahead of the cursor; and once the
\* last page is there, it is in a page until it is stored or passed over.
MissInv ==
    /\ steady \subseteq table
    /\ stage = "fetching" => \A m \in steady :
         \/ InPages(m)
         \/ sent_at[m] \in cuts
         \/ cursor # NoCursor => sent_at[m] < sent_at[cursor]
    /\ stage \in {"storing", "done"} => \A m \in steady :
         InPages(m) \/ sent_at[m] \in cuts \/ m \in Own \/ IsStored(m)
    /\ stage = "done" => \A i \in 1 .. Len(pages) : pages[i] = {}

\* A page that was added holds its messages beside those of the others.
LEMMA PageAdded ==
    ASSUME HistoryTypeOK, NEW p \in SUBSET Ids, pages' = Append(pages, p)
    PROVE  \A m : InPages(m) \/ m \in p => InPages(m)'
<1>1. pages \in Seq(SUBSET Ids) /\ Len(pages) \in Nat
  BY LenProperties DEF HistoryTypeOK
<1>2. /\ Len(pages') = Len(pages) + 1
      /\ \A i \in 1 .. Len(pages) : pages'[i] = pages[i]
      /\ pages'[Len(pages) + 1] = p
  BY <1>1, AppendProperties
<1>3. \A i \in 1 .. Len(pages) : i \in 1 .. Len(pages')
  BY <1>1, <1>2
<1>4. Len(pages) + 1 \in 1 .. Len(pages')
  BY <1>1, <1>2
<1> QED
  BY <1>2, <1>3, <1>4 DEF InPages

\* One case per step of the table and of the sync.
LEMMA MissNext ==
    OrderInv /\ MissInv /\ [HistoryNext]_historyVars => MissInv'
<1> SUFFICES ASSUME OrderInv, MissInv, [HistoryNext]_historyVars PROVE MissInv'
  OBVIOUS
<1>1. HistoryTypeOK /\ StartInv /\ PageInv
  BY DEF OrderInv
\* Steps that leave what was fetched alone.
<1>2. ASSUME UNCHANGED <<sent_at, pages, cursor, stored, cuts>>
      PROVE  \A m : (InPages(m)' <=> InPages(m)) /\ (IsStored(m)' <=> IsStored(m))
  BY <1>2 DEF InPages, IsStored
<1>3. CASE UNCHANGED historyVars
  BY <1>2, <1>3 DEF historyVars, MissInv
<1>4. ASSUME NEW m \in Ids, Insert(m) \/ Delete(m) PROVE MissInv'
  <2>1. /\ UNCHANGED <<sent_at, pages, cursor, stored, cuts>> /\ stage' = stage
        /\ steady' \subseteq steady
        /\ steady' \subseteq table'
    BY <1>4 DEF Insert, Delete, MissInv
  <2> QED
    BY <1>2, <2>1 DEF MissInv
<1>5. CASE StartSync
  BY <1>1, <1>5 DEF StartSync, StartInv, MissInv
<1>6. CASE FetchFails
  BY <1>6 DEF FetchFails, MissInv
<1>7. CASE EndSync
  BY <1>2, <1>7 DEF EndSync, MissInv
<1>8. CASE FetchPage
  <2>1. PICK p \in SUBSET Before(cursor), c \in Ids :
           /\ Newest(p, Before(cursor)) /\ Last(p, c)
           /\ pages' = Append(pages, p) /\ cursor' = c /\ cuts' = cuts \cup {sent_at[c]}
    BY <1>8 DEF FetchPage
  <2>2. /\ stage = "fetching" /\ stage' = "fetching"
        /\ UNCHANGED <<sent_at, table, steady>>
    BY <1>8 DEF FetchPage
  <2>3. p \in SUBSET Ids
    BY <1>1 DEF Before, HistoryTypeOK
  <2>4. ASSUME NEW m \in steady
        PROVE  InPages(m)' \/ sent_at[m] \in cuts' \/ sent_at[m] < sent_at[c]
    <3>1. m \in table /\ m \in Ids
      BY <1>1 DEF MissInv, HistoryTypeOK
    <3>2. CASE InPages(m) \/ sent_at[m] \in cuts \/ m \in p
      BY <1>1, <2>1, <2>3, <3>2, PageAdded
    <3>3. CASE m \in Before(cursor) /\ m \notin p
      <4>1. sent_at[c] >= sent_at[m]
        BY <2>1, <3>3 DEF Newest, Last
      <4>2. sent_at[c] \in Nat /\ sent_at[m] \in Nat
        BY <1>1, <3>1, TimeType
      <4>3. sent_at[m] = sent_at[c] \/ sent_at[m] < sent_at[c]
        BY <4>1, <4>2
      <4> QED
        BY <2>1, <4>3
    <3>4. InPages(m) \/ sent_at[m] \in cuts \/ m \in Before(cursor)
      BY <2>2, <3>1 DEF MissInv, Before
    <3> QED
      BY <3>2, <3>3, <3>4
  <2> QED
    BY <2>1, <2>2, <2>4 DEF MissInv
<1>9. CASE FetchLastPage
  <2>1. /\ stage = "fetching" /\ stage' = "storing"
        /\ pages' = Append(pages, Before(cursor))
        /\ UNCHANGED <<sent_at, table, steady, cuts>>
    BY <1>9 DEF FetchLastPage
  <2>2. Before(cursor) \in SUBSET Ids
    BY <1>1 DEF Before, HistoryTypeOK
  <2>3. ASSUME NEW m \in steady PROVE InPages(m)' \/ sent_at[m] \in cuts
    <3>1. m \in table
      BY DEF MissInv
    <3>2. InPages(m) \/ sent_at[m] \in cuts \/ m \in Before(cursor)
      BY <2>1, <3>1 DEF MissInv, Before
    <3> QED
      BY <1>1, <2>1, <2>2, <3>2, PageAdded
  <2> QED
    BY <2>1, <2>3 DEF MissInv
<1>10. CASE StoreNext
  <2>1. PICK i \in 1 .. Len(pages), m \in Ids :
           /\ OldestPage(i)
           /\ Last(pages[i], m)
           /\ stored' = IF m \in Own THEN stored ELSE Append(stored, m)
           /\ pages' = [pages EXCEPT ![i] = @ \ {m}]
    BY <1>10 DEF StoreNext
  <2>2. stage = "storing" /\ stage' = "storing" /\ UNCHANGED <<sent_at, table, steady, cuts>>
    BY <1>10 DEF StoreNext
  <2>3. /\ Len(pages') = Len(pages)
        /\ \A j \in 1 .. Len(pages) :
             pages'[j] = IF j = i THEN pages[i] \ {m} ELSE pages[j]
    BY <1>1, <2>1, TakeOldest
  <2>4. \A n : InPages(n) => InPages(n)' \/ n = m
    BY <2>3 DEF InPages
  <2>5. stored \in Seq(Ids) /\ Len(stored) \in Nat
    BY <1>1, LenProperties DEF HistoryTypeOK
  <2>6. CASE m \in Own
    <3>1. stored' = stored
      BY <2>1, <2>6
    <3> QED
      BY <2>2, <2>4, <2>6, <3>1 DEF MissInv, IsStored
  <2>7. CASE m \notin Own
    <3>1. /\ Len(stored') = Len(stored) + 1
          /\ \A k \in 1 .. Len(stored) : stored'[k] = stored[k]
          /\ stored'[Len(stored) + 1] = m
      BY <2>1, <2>5, <2>7, AppendProperties
    <3>2. /\ \A k \in 1 .. Len(stored) : k \in 1 .. Len(stored')
          /\ Len(stored) + 1 \in 1 .. Len(stored')
      BY <2>5, <3>1
    <3>3. IsStored(m)' /\ \A n : IsStored(n) => IsStored(n)'
      BY <3>1, <3>2 DEF IsStored
    <3> QED
      BY <2>2, <2>4, <3>3 DEF MissInv
  <2> QED
    BY <2>6, <2>7
<1> QED
  BY <1>3, <1>4, <1>5, <1>6, <1>7, <1>8, <1>9, <1>10 DEF HistoryNext, Sync

\* A sync that ends has stored every message of the peer that was in the table
\* all the time, except those of a second at which a page ended, for any page
\* size and any traffic between the pages.
THEOREM MissesOnlyTiesAlways == HistorySpec => []MissesOnlyTies
<1>1. HistoryInit => MissInv
  BY DEF HistoryInit, MissInv
<1>2. OrderInv /\ MissInv /\ [HistoryNext]_historyVars => MissInv'
  BY MissNext
<1>3. MissInv => MissesOnlyTies
  BY DEF MissInv, InPages, IsStored, MissesOnlyTies
<1> QED
  BY <1>1, <1>2, <1>3, OrderCorrect, PTL DEF HistorySpec
=============================================================================
