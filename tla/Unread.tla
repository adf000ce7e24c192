------------------------------- MODULE Unread ------------------------------
(***************************************************************************)
(* The two unread counters of one conversation: the recipient's column of  *)
(* the conversations row on the server, and the unread_count that the      *)
(* recipient's client keeps in local_conversations and shows in its list.  *)
(*                                                                         *)
(* On the server a handler loads the row, and at its commit writes what it *)
(* computed from the loaded value; SQLite runs the SELECT outside the      *)
(* transaction, so handlers interleave between the two.  In the client the *)
(* message pump ("ui") and the WebSocket task ("ws") interleave at their   *)
(* awaits.                                                                 *)
(***************************************************************************)
EXTENDS Naturals, FiniteSets

CONSTANTS Msgs,   \* messages to the recipient, one send_message handler each
          Marks,  \* mark_read handlers: the number of times the user opens it
          None    \* no message, no request

Tasks == {"ui", "ws"}

ASSUME HandlersAssumption == Msgs \cap Marks = {} /\ None \notin Msgs \cup Marks

VARIABLES
    unread,     \* unread_count_a or _b of the row
    handler,    \* where the server's handler of a message or a mark is
    loaded,     \* the count that handler loaded
    local,      \* unread_count in local_conversations
    screen,     \* 0 the list, n the n-th chat screen that was opened
    opens,      \* how many chat screens were opened
    ui,         \* what the message pump is doing
    mark,       \* the mark_read request the pump waits for
    listed,     \* the count in the answer of list_conversations to each task
    ws,         \* where the WebSocket task is
    cur,        \* that message
    active,     \* the screen it saw before it saved the message
    saved,      \* messages in local_messages
    shown,      \* messages that were put on a screen the user had open
    fresh,      \* history: messages committed since the row was last reset
    missed      \* history: messages whose count was dropped in a known way

client == <<local, screen, opens, ui, mark, listed, ws, cur, active, saved, shown, missed>>
server == <<unread, handler, loaded, fresh>>
vars == <<server, client>>

Init ==
    /\ unread = 0
    /\ handler = [h \in Msgs \cup Marks |-> "new"]
    /\ loaded = [h \in Msgs \cup Marks |-> 0]
    /\ local = 0
    /\ screen = 0
    /\ opens = 0
    /\ ui = "idle"
    /\ mark = None
    /\ listed = [t \in Tasks |-> 0]
    /\ ws = "idle"
    /\ cur = None
    /\ active = 0
    /\ saved = {}
    /\ shown = {}
    /\ fresh = {}
    /\ missed = {}

Stored == {m \in Msgs : handler[m] = "done"}

-----------------------------------------------------------------------------
(* The server's handlers *)

\* send_message loads the conversation row, mark_read loads it too.
Load(h) ==
    /\ handler[h] = IF h \in Msgs THEN "new" ELSE "sent"
    /\ handler' = [handler EXCEPT ![h] = "loaded"]
    /\ loaded' = [loaded EXCEPT ![h] = unread]
    /\ UNCHANGED <<unread, fresh, client>>

\* Mutant of CountMessage: the counter of the other participant is incremented.
CountMessageOther(m) ==
    /\ handler[m] = "loaded"
    /\ handler' = [handler EXCEPT ![m] = "done"]
    /\ fresh' = fresh \cup {m}
    /\ UNCHANGED <<unread, loaded, client>>

\* The row of the message and the loaded count plus one are committed together.
CountMessage(m) ==
    /\ handler[m] = "loaded"
    /\ handler' = [handler EXCEPT ![m] = "done"]
    /\ unread' = loaded[m] + 1
    /\ fresh' = fresh \cup {m}
    /\ UNCHANGED <<loaded, client>>

\* mark_read commits 0.  The ORM writes a column only if its value changes, so
\* a handler that loaded 0 leaves the row as it is.
mark_read(k) ==
    /\ handler[k] = "loaded"
    /\ handler' = [handler EXCEPT ![k] = "done"]
    /\ \/ /\ loaded[k] # 0
          /\ unread' = 0
          /\ fresh' = {}
       \/ /\ loaded[k] = 0
          /\ UNCHANGED <<unread, fresh>>
    /\ UNCHANGED <<loaded, client>>

-----------------------------------------------------------------------------
(* The message pump of the client *)

\* The user selects the conversation: POST mark_read, with a timeout.
SelectConversation(k) ==
    /\ ui = "idle"
    /\ screen = 0
    /\ handler[k] = "new"
    /\ handler' = [handler EXCEPT ![k] = "sent"]
    /\ ui' = "marking"
    /\ mark' = k
    /\ UNCHANGED <<unread, loaded, fresh, local, screen, opens, listed, ws, cur,
                   active, saved, shown, missed>>

\* The answer is there and reset_unread follows.
reset_unread ==
    /\ ui = "marking"
    /\ handler[mark] = "done"
    /\ ui' = "opening"
    /\ local' = 0
    /\ UNCHANGED <<server, screen, opens, mark, listed, ws, cur, active, saved, shown,
                   missed>>

\* The request or its answer is lost: the chat opens all the same.
MarkFails ==
    /\ ui = "marking"
    /\ ui' = "opening"
    /\ UNCHANGED <<server, local, screen, opens, mark, listed, ws, cur, active, saved,
                   shown, missed>>

\* A new chat screen is pushed and asks for its history.
OpenChat ==
    /\ ui = "opening"
    /\ ui' = "history"
    /\ screen' = opens + 1
    /\ opens' = opens + 1
    /\ UNCHANGED <<server, local, mark, listed, ws, cur, active, saved, shown, missed>>

\* A message of the fetched history that is new to the client is saved, and the
\* local row is written with an unread count of 0.
SaveFetched(m) ==
    /\ ui = "history"
    /\ m \in Stored \ saved
    /\ cur # m
    /\ saved' = saved \cup {m}
    /\ local' = 0
    /\ UNCHANGED <<server, screen, opens, ui, mark, listed, ws, cur, active, shown, missed>>

\* The history goes to the screen that asked for it, which the user may have
\* closed meanwhile.
ShowHistory ==
    /\ ui = "history"
    /\ ui' = "idle"
    /\ \/ /\ screen = opens
          /\ shown' = shown \cup saved
          /\ UNCHANGED missed
       \/ /\ screen = 0
          /\ missed' = missed \cup (saved \ shown)
          /\ UNCHANGED shown
    /\ UNCHANGED <<server, local, screen, opens, mark, listed, ws, cur, active, saved>>

CloseChat ==
    /\ screen # 0
    /\ screen' = 0
    /\ UNCHANGED <<server, local, opens, ui, mark, listed, ws, cur, active, saved, shown,
                   missed>>

-----------------------------------------------------------------------------
(* The WebSocket task of the client *)

\* A pushed message is decrypted; the active chat is looked up before the save.
Receive(m) ==
    /\ ws = "idle"
    /\ m \in Stored \ saved
    /\ ws' = "saving"
    /\ cur' = m
    /\ active' = screen
    /\ UNCHANGED <<server, local, screen, opens, ui, mark, listed, saved, shown, missed>>

\* Mutant of SaveMessage: the insert fails silently and the message is shown.
SaveMessageSilent ==
    /\ ws = "saving"
    /\ ws' = "saved"
    /\ UNCHANGED <<server, local, screen, opens, ui, mark, listed, cur, active, saved, shown, missed>>

SaveMessage ==
    /\ ws = "saving"
    /\ ws' = "saved"
    /\ saved' = saved \cup {cur}
    /\ UNCHANGED <<server, local, screen, opens, ui, mark, listed, cur, active, shown, missed>>

\* The local store refuses the message: nothing is shown, counted or acknowledged,
\* and the server sends it again at a later connection.
SaveMessageFails ==
    /\ ws = "saving"
    /\ ws' = "idle"
    /\ cur' = None
    /\ UNCHANGED <<server, local, screen, opens, ui, mark, listed, active, saved, shown, missed>>

\* The local row is written with an unread count of 0.
upsert_conversation ==
    /\ ws = "saved"
    /\ ws' = "routing"
    /\ local' = 0
    /\ UNCHANGED <<server, screen, opens, ui, mark, listed, cur, active, saved, shown, missed>>

\* Mutant of Route: the increment comes before the write of 0.
RouteBeforeUpsert ==
    /\ ws = "routing"
    /\ ws' = "idle"
    /\ cur' = None
    /\ local' = 0
    /\ shown' = IF active # 0 /\ active = screen THEN shown \cup {cur} ELSE shown
    /\ missed' = IF active # screen THEN missed \cup {cur} ELSE missed
    /\ UNCHANGED <<server, screen, opens, ui, mark, listed, active, saved>>

\* The message goes to the chat that was active, or is counted if none was.  By
\* now the user may have closed that chat or opened one.
Route ==
    /\ ws = "routing"
    /\ ws' = "idle"
    /\ cur' = None
    /\ local' = IF active = 0 THEN local + 1 ELSE local
    /\ shown' = IF active # 0 /\ active = screen THEN shown \cup {cur} ELSE shown
    /\ missed' = IF active # screen THEN missed \cup {cur} ELSE missed
    /\ UNCHANGED <<server, screen, opens, ui, mark, listed, active, saved>>

-----------------------------------------------------------------------------
(* The list of conversations, which both tasks fetch *)

At(t, stage) == IF t = "ui" THEN ui = stage ELSE ws = stage
GoTo(t, stage) ==
    IF t = "ui" THEN ui' = stage /\ UNCHANGED ws ELSE ws' = stage /\ UNCHANGED ui

\* The message pump asks for the list after a login, or when the user has
\* accepted a friend request; the WebSocket task asks when a friend has accepted
\* one, whatever screen is up.
RefreshList(t) ==
    /\ At(t, "idle")
    /\ t = "ui" => screen = 0
    /\ GoTo(t, "asking")
    /\ UNCHANGED <<server, local, screen, opens, mark, listed, cur, active, saved, shown,
                   missed>>

\* The server reads the row ...
list_conversations(t) ==
    /\ At(t, "asking")
    /\ GoTo(t, "listing")
    /\ listed' = [listed EXCEPT ![t] = unread]
    /\ UNCHANGED <<server, local, screen, opens, mark, cur, active, saved, shown, missed>>

\* ... and the answer overwrites the local count.  An answer of 0 may be older
\* than a message that is counted here, or follow a reset for it.
ApplyList(t) ==
    /\ At(t, "listing")
    /\ GoTo(t, "idle")
    /\ listed' = [listed EXCEPT ![t] = 0]
    /\ local' = listed[t]
    /\ missed' = IF listed[t] = 0 THEN missed \cup (saved \ shown) ELSE missed
    /\ UNCHANGED <<server, screen, opens, mark, cur, active, saved, shown>>

\* The request or its answer is lost.
ListFails(t) ==
    /\ At(t, "asking") \/ At(t, "listing")
    /\ GoTo(t, "idle")
    /\ listed' = [listed EXCEPT ![t] = 0]
    /\ UNCHANGED <<server, local, screen, opens, mark, cur, active, saved, shown, missed>>

Next ==
    \/ \E h \in Msgs \cup Marks : Load(h)
    \/ \E m \in Msgs : CountMessage(m)
    \/ \E k \in Marks : mark_read(k)
    \/ \E k \in Marks : SelectConversation(k)
    \/ reset_unread
    \/ MarkFails
    \/ OpenChat
    \/ \E m \in Msgs : SaveFetched(m)
    \/ ShowHistory
    \/ CloseChat
    \/ \E t \in Tasks :
          RefreshList(t) \/ list_conversations(t) \/ ApplyList(t) \/ ListFails(t)
    \/ \E m \in Msgs : Receive(m)
    \/ SaveMessage
    \/ SaveMessageFails
    \/ upsert_conversation
    \/ Route

Spec == Init /\ [][Next]_vars

-----------------------------------------------------------------------------
(* Properties *)

\* Counters are natural numbers and both tasks are at a point of their code.
TypeOK ==
    /\ unread \in Nat
    /\ local \in Nat
    /\ handler \in [Msgs \cup Marks -> {"new", "sent", "loaded", "done"}]
    /\ loaded \in [Msgs \cup Marks -> Nat]
    /\ screen \in {0, opens}
    /\ ui \in {"idle", "marking", "opening", "history", "asking", "listing"}
    /\ ui = "marking" => mark \in Marks
    /\ ws \in {"idle", "saving", "saved", "routing", "asking", "listing"}
    /\ ws \in {"idle", "asking", "listing"} <=> cur = None
    /\ listed \in [Tasks -> Nat]
    /\ shown \subseteq saved
    /\ saved \subseteq Stored

\* The row never forgets that there is something to read: a message committed
\* after the last reset leaves a count of at least one, and never more than
\* there are messages, however the handlers of send_message and mark_read
\* overwrite each other's counts.
CountIsPlausible == unread <= Cardinality(Stored) /\ (fresh # {} => unread >= 1)

\* When both tasks are at rest, a saved message that no screen has shown is
\* counted in the list, except for the known cases: its chat was closed or
\* opened while it was being saved, its history was loaded for a closed chat,
\* or a list with a count of 0 was applied over it.
BadgeShown ==
    ui = "idle" /\ ws = "idle" /\ saved \ (shown \cup missed) # {} => local >= 1
=============================================================================
