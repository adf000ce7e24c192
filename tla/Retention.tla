------------------------------ MODULE Retention -----------------------------
(***************************************************************************)
(* How long a message lives: the time to live its sender chose, the age    *)
(* cap of the server's cleanup loop (server/main.py), and the sweep of the *)
(* recipient's local store and chat screen (client/state/store.py,         *)
(* client/ui/screens/chat.py), for one direction of one conversation.      *)
(*                                                                         *)
(* The three parties count from different times.  The server never sets    *)
(* expires_at, so only the age since stored_at deletes a row.  A local row *)
(* expires ttl after received_at.  An item on the screen expires ttl after *)
(* the sent_at of the sender's clock.  Ciphertext that the server keeps is *)
(* sent again and again, and only the session knows that it was opened.    *)
(*                                                                         *)
(* Timers fire on time: the clock does not pass a timer that is due.       *)
(***************************************************************************)
EXTENDS Integers, FiniteSets

CONSTANTS
    Msgs,
    Ttls,             \* times to live a user may choose, at least 1
    Skews,            \* how far the sender's clock may be off
    MaxAge,           \* max_message_age_days
    CleanupInterval,  \* ttl_cleanup_interval
    SweepPeriod,      \* the 30 seconds of ChatScreen's timer
    MaxTime,          \* bound: when the clock stops
    MaxOpens,         \* bound: chat screens the user opens
    MaxFaults         \* bound: crashes, failed saves, failed cleanups

ASSUME RetentionAssumption ==
    /\ Ttls \subseteq Nat \ {0}
    /\ Skews \subseteq Int
    /\ MaxAge \in Nat
    /\ CleanupInterval \in Nat \ {0}
    /\ SweepPeriod \in Nat \ {0}
    /\ MaxTime \in Nat /\ MaxOpens \in Nat /\ MaxFaults \in Nat

NoTtl == 0      \* ttl_seconds is None
Never == -1     \* no row yet, or no row
Deleted == -2   \* the server had the row and deleted it

Tasks == {"ws", "ui"}
Idle == [at |-> "idle"]

VARIABLES
    clock,      \* time.time() of server and recipient
    setting,    \* the sender's _ttl_settings entry
    sent,       \* sent_at, ttl_seconds and the clock's error of the envelopes
    storedAt,   \* stored_at of the server's row
    cleanupDue, \* when the cleanup loop wakes up
    misses,     \* history: cleanups that failed since the last one that did not
    up,         \* the recipient is logged in
    known,      \* messages the session in memory would refuse
    knownDisk,  \* messages the session in sessions.json would refuse
    work,       \* the message each task handles, and how far it is
    receivedAt, \* received_at of the local row
    chat,       \* 0, or the n-th chat screen the user opened
    opens,      \* chat screens opened so far
    loading,    \* 0, or the screen whose history is being loaded
    openedAt,   \* when the screen was opened
    sweepDue,   \* when its timer fires
    items,      \* the messages on it
    swept,      \* history: messages whose local row a sweep deleted
    cut,        \* history: saved messages whose handler a crash cut off
    faults

server == <<storedAt, cleanupDue, misses>>
session == <<up, known, knownDisk, work, cut>>
screen == <<chat, opens, loading, openedAt, sweepDue, items>>
local == <<receivedAt, swept>>
sender == <<setting, sent>>
vars == <<clock, sender, server, session, screen, local, faults>>

Init ==
    /\ clock = 0
    /\ setting = NoTtl
    /\ sent = [m \in {} |-> 0]
    /\ storedAt = [m \in Msgs |-> Never]
    /\ cleanupDue = 0
    /\ misses = 0
    /\ up = TRUE
    /\ known = {}
    /\ knownDisk = {}
    /\ work = [t \in Tasks |-> Idle]
    /\ receivedAt = [m \in Msgs |-> Never]
    /\ chat = 0
    /\ opens = 0
    /\ loading = 0
    /\ openedAt = 0
    /\ sweepDue = 0
    /\ items = {}
    /\ swept = {}
    /\ cut = {}
    /\ faults = 0

\* expires_at <= now, a column generated from received_at and ttl_seconds.
RowExpired(m) ==
    /\ receivedAt[m] # Never
    /\ sent[m].ttl # NoTtl
    /\ receivedAt[m] + sent[m].ttl <= clock

\* MessageItem._expires_at <= now, counted from the sender's sent_at.
ItemExpired(m) ==
    /\ sent[m].ttl # NoTtl
    /\ sent[m].sent_at + sent[m].ttl <= clock

\* sweep_expired
SweepStore ==
    /\ receivedAt' = [m \in Msgs |-> IF RowExpired(m) THEN Never ELSE receivedAt[m]]
    /\ swept' = swept \cup {m \in Msgs : RowExpired(m)}

Fault == faults < MaxFaults /\ faults' = faults + 1

-----------------------------------------------------------------------------
(* Time *)

Tick ==
    /\ clock < MaxTime
    /\ clock < cleanupDue
    /\ chat # 0 => clock < sweepDue
    /\ clock' = clock + 1
    /\ UNCHANGED <<sender, server, session, screen, local, faults>>

-----------------------------------------------------------------------------
(* The sender *)

\* The settings screen takes a time to live, or an empty field for none.
SaveTtl(ttl) ==
    /\ DOMAIN sent # Msgs
    /\ setting' = ttl
    /\ UNCHANGED <<clock, sent, server, session, screen, local, faults>>

\* _ttl_settings is not persisted.
SenderRestart ==
    /\ setting # NoTtl
    /\ setting' = NoTtl
    /\ UNCHANGED <<clock, sent, server, session, screen, local, faults>>

\* The envelope is stamped with the sender's clock and the setting.
Build(m, skew) ==
    /\ m \notin DOMAIN sent
    /\ sent' = [n \in DOMAIN sent \cup {m} |->
                  IF n = m THEN [sent_at |-> clock + skew, ttl |-> setting, skew |-> skew]
                  ELSE sent[n]]
    /\ UNCHANGED <<clock, setting, server, session, screen, local, faults>>

-----------------------------------------------------------------------------
(* The server *)

Store(m) ==
    /\ m \in DOMAIN sent
    /\ storedAt[m] = Never
    /\ storedAt' = [storedAt EXCEPT ![m] = clock]
    /\ UNCHANGED <<clock, sender, cleanupDue, misses, session, screen, local, faults>>

\* Mutant of Cleanup: age counts from the cleanup after the one that may delete.
CleanupLate ==
    /\ clock = cleanupDue
    /\ storedAt' = [m \in Msgs |->
                      IF storedAt[m] >= 0 /\ storedAt[m] < clock - MaxAge - CleanupInterval
                      THEN Deleted ELSE storedAt[m]]
    /\ cleanupDue' = clock + CleanupInterval
    /\ misses' = 0
    /\ UNCHANGED <<clock, sender, session, screen, local, faults>>

\* One round of _ttl_cleanup_loop.  expires_at is NULL in every row.
Cleanup ==
    /\ clock = cleanupDue
    /\ storedAt' = [m \in Msgs |->
                      IF storedAt[m] >= 0 /\ storedAt[m] < clock - MaxAge
                      THEN Deleted ELSE storedAt[m]]
    /\ cleanupDue' = clock + CleanupInterval
    /\ misses' = 0
    /\ UNCHANGED <<clock, sender, session, screen, local, faults>>

\* The transaction fails; the error is logged and the loop sleeps as usual.
CleanupFails ==
    /\ clock = cleanupDue
    /\ Fault
    /\ cleanupDue' = clock + CleanupInterval
    /\ misses' = misses + 1
    /\ UNCHANGED <<clock, sender, storedAt, session, screen, local>>

-----------------------------------------------------------------------------
(* The recipient opens and stores a message *)

Step(t, at) == work' = [work EXCEPT ![t].at = at]
Done(t) == work' = [work EXCEPT ![t] = Idle]

\* A push or flush (ws), or the history sync of an opened chat (ui), brings a
\* message that the session has not opened.  active_chat is read now: the chat
\* screen may be covered by the settings.  The sync shows nothing itself.
Receive(t, m) ==
    /\ up /\ work[t] = Idle
    /\ storedAt[m] >= 0
    /\ m \notin known
    /\ t = "ui" => loading # 0
    /\ known' = known \cup {m}
    /\ \E dest \in (IF t = "ws" THEN {0, chat} ELSE {0}) :
           work' = [work EXCEPT ![t] = [at |-> "save", msg |-> m, dest |-> dest]]
    /\ UNCHANGED <<clock, sender, server, up, knownDisk, cut, screen, local, faults>>

\* INSERT OR IGNORE: a row that is there keeps its received_at.
SaveMessage(t) ==
    /\ work[t].at = "save"
    /\ receivedAt' = [receivedAt EXCEPT ![work[t].msg] = IF @ = Never THEN clock ELSE @]
    /\ Step(t, "persist")
    /\ UNCHANGED <<clock, sender, server, up, known, knownDisk, cut, screen, swept, faults>>

\* Mutant of SaveFails: the handler goes on to show the message.
SaveFailsShows(t) ==
    /\ work[t].at = "save"
    /\ Fault
    /\ Step(t, "persist")
    /\ UNCHANGED <<clock, sender, server, up, known, knownDisk, cut, screen, local>>

\* The handler returns: no row, no ACK, and the session has moved on.
SaveFails(t) ==
    /\ work[t].at = "save"
    /\ Fault
    /\ Done(t)
    /\ UNCHANGED <<clock, sender, server, up, known, knownDisk, cut, screen, local>>

\* Mutant of Persist: the session is left to the exit handler to save.
PersistSkipped(t) ==
    /\ work[t].at = "persist"
    /\ IF t = "ws" THEN Step(t, "route") ELSE Done(t)
    /\ UNCHANGED <<clock, sender, server, up, known, knownDisk, cut, screen, local, faults>>

Persist(t) ==
    /\ work[t].at = "persist"
    /\ knownDisk' = known
    /\ IF t = "ws" THEN Step(t, "route") ELSE Done(t)
    /\ UNCHANGED <<clock, sender, server, up, known, cut, screen, local, faults>>

\* add_message on the screen that was active, if the user still has it open.
Route(t) ==
    /\ work[t].at = "route"
    /\ items' = items \cup (IF work[t].dest = chat /\ chat # 0 THEN {work[t].msg} ELSE {})
    /\ Done(t)
    /\ UNCHANGED <<clock, sender, server, up, known, knownDisk, cut, chat, opens,
                   loading, openedAt, sweepDue, local, faults>>

\* A send or a key check saves all sessions.
PersistOther ==
    /\ up /\ knownDisk # known
    /\ knownDisk' = known
    /\ UNCHANGED <<clock, sender, server, up, known, work, cut, screen, local, faults>>

-----------------------------------------------------------------------------
(* The recipient's sessions and chat screen *)

\* The process ends: tasks and screens are gone.
Ends ==
    /\ up
    /\ up' = FALSE
    /\ work' = [t \in Tasks |-> Idle]
    /\ chat' = 0
    /\ loading' = 0
    /\ openedAt' = 0 /\ sweepDue' = 0
    /\ items' = {}
    /\ UNCHANGED <<clock, sender, server, opens, local>>

\* on_unmount saves the sessions.
Quit ==
    /\ Ends
    /\ knownDisk' = known
    /\ UNCHANGED <<known, cut, faults>>

\* The next start loads sessions.json.
Crash ==
    /\ Ends
    /\ Fault
    /\ cut' = cut \cup {work[t].msg : t \in {u \in Tasks : work[u].at = "persist"}}
    /\ known' = knownDisk
    /\ UNCHANGED knownDisk

\* init_store sweeps.
Login ==
    /\ ~up
    /\ up' = TRUE
    /\ SweepStore
    /\ UNCHANGED <<clock, sender, server, known, knownDisk, work, cut, screen, faults>>

\* The message pump that opens a screen is the one that loads a history.
OpenChat ==
    /\ up /\ chat = 0 /\ loading = 0
    /\ opens < MaxOpens
    /\ opens' = opens + 1
    /\ chat' = opens'
    /\ loading' = opens'
    /\ openedAt' = clock
    /\ sweepDue' = clock + SweepPeriod
    /\ UNCHANGED <<clock, sender, server, session, items, local, faults>>

\* The local rows, without the expired ones.
get_messages == {m \in Msgs : receivedAt[m] # Never /\ ~RowExpired(m)}

\* render_history_result clears the list first.
ShowHistory ==
    /\ loading # 0
    /\ work["ui"] = Idle
    /\ loading' = 0
    /\ items' = IF chat = loading THEN get_messages ELSE items
    /\ UNCHANGED <<clock, sender, server, session, chat, opens, openedAt, sweepDue, local, faults>>

\* The timer ends with the screen.
CloseChat ==
    /\ chat # 0
    /\ chat' = 0
    /\ openedAt' = 0 /\ sweepDue' = 0
    /\ items' = {}
    /\ UNCHANGED <<clock, sender, server, session, opens, loading, local, faults>>

\* Mutant of SweepTtl: the store is left to the next login.
SweepTtlItems ==
    /\ chat # 0 /\ clock = sweepDue
    /\ items' = {m \in items : ~ItemExpired(m)}
    /\ sweepDue' = clock + SweepPeriod
    /\ UNCHANGED <<clock, sender, server, session, chat, opens, loading, openedAt, local, faults>>

\* The 30 second timer: the store, then the items of the screen.
SweepTtl ==
    /\ chat # 0 /\ clock = sweepDue
    /\ SweepStore
    /\ items' = {m \in items : ~ItemExpired(m)}
    /\ sweepDue' = clock + SweepPeriod
    /\ UNCHANGED <<clock, sender, server, session, chat, opens, loading, openedAt, faults>>

Next ==
    \/ Tick
    \/ \E ttl \in Ttls \cup {NoTtl} : SaveTtl(ttl)
    \/ SenderRestart
    \/ \E m \in Msgs, skew \in Skews : Build(m, skew)
    \/ \E m \in Msgs : Store(m)
    \/ Cleanup \/ CleanupFails
    \/ \E t \in Tasks, m \in Msgs : Receive(t, m)
    \/ \E t \in Tasks :
          SaveMessage(t) \/ SaveFails(t) \/ Persist(t) \/ Route(t)
    \/ PersistOther
    \/ Quit \/ Crash \/ Login
    \/ OpenChat \/ ShowHistory \/ CloseChat \/ SweepTtl

Spec == Init /\ [][Next]_vars

-----------------------------------------------------------------------------
(* Properties *)

Work == [at : {"save", "persist", "route"}, msg : Msgs, dest : Nat]

\* Types; a task and a screen exist only while the user is logged in, a task
\* handles a message the session has opened, and only messages that were sent
\* are opened, saved or shown.
TypeOK ==
    /\ clock \in Nat
    /\ setting \in Ttls \cup {NoTtl}
    /\ DOMAIN sent \subseteq Msgs
    /\ sent \in [DOMAIN sent -> [sent_at : Int, ttl : Ttls \cup {NoTtl}, skew : Skews]]
    /\ storedAt \in [Msgs -> Nat \cup {Never, Deleted}]
    /\ cleanupDue \in Nat /\ misses \in Nat
    /\ up \in BOOLEAN
    /\ known \subseteq DOMAIN sent /\ knownDisk \subseteq known
    /\ work \in [Tasks -> Work \cup {Idle}]
    /\ \A t \in Tasks : work[t] # Idle => up /\ work[t].msg \in known
    /\ receivedAt \in [Msgs -> Nat \cup {Never}]
    /\ \A m \in Msgs : storedAt[m] # Never \/ receivedAt[m] # Never => m \in DOMAIN sent
    /\ opens \in Nat
    /\ chat \in 0 .. opens /\ loading \in 0 .. opens
    /\ chat # 0 => up
    /\ openedAt \in Nat /\ sweepDue \in Nat
    /\ items \subseteq DOMAIN sent
    /\ swept \subseteq DOMAIN sent /\ cut \subseteq DOMAIN sent
    /\ faults \in Nat

\* A message that a sweep deleted does not come back, although the server still
\* has it and sends it again with every history: except when a crash
\* came between saving the row and saving the session that had opened it.
GoneStaysGone ==
    \A m \in swept : receivedAt[m] # Never => m \in cut

\* While a chat is open, no local row is kept longer than one period of the
\* timer after it expired or the screen was opened.
SweptInTime ==
    \A m \in Msgs :
        chat # 0 /\ receivedAt[m] # Never /\ sent[m].ttl # NoTtl =>
            \/ clock <= receivedAt[m] + sent[m].ttl + SweepPeriod
            \/ clock <= openedAt + SweepPeriod

\* A message on the screen that has not expired there is in the local store,
\* whatever sweeps, failed saves and reopened screens happened, if the sender's
\* clock was not ahead.
ScreenIsStored ==
    \A m \in items : ItemExpired(m) \/ sent[m].skew > 0 \/ receivedAt[m] # Never

\* The server has no row longer than the age cap and one interval, plus one
\* interval for each cleanup in a row that failed.
AgedOutInTime ==
    \A m \in Msgs :
        storedAt[m] >= 0 => clock <= storedAt[m] + MaxAge + CleanupInterval * (1 + misses)
=============================================================================
