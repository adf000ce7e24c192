# A TLA+ verification of Secure-Instant-Messenger

The repository is an end-to-end encrypted instant messenger: a FastAPI server
with a SQLite database and WebSockets (`src/server`), a terminal client with a
ratchet, a replay protector and local encrypted storage (`src/client`), and
shared constants (`src/shared`). This directory holds TLA+ models of the parts
that carry protocol state, the TLC configurations that check them on small
instances, and TLAPS proofs of the most important properties for every value
of the constants. `PROJECT.json` maps each definition to the lines it models.

    tlc -workers 2 -config MCChannel.cfg MCChannel     # one of the runs
    tlapm ChannelProofs.tla                            # one of the proofs

## 1. The system and its parts

**Concurrency.** The server is one asyncio loop. Each HTTP request and each
WebSocket has its own coroutine and database session; they interleave at every
`await`. With aiosqlite a `SELECT` outside a write transaction locks nothing,
`with_for_update()` disappears from the SQL, and the write lock is held from
the first write to the commit. The client is one asyncio loop with two tasks
that matter: the Textual message pump (`ui`: send, open chat, settings; one
handler at a time) and the WebSocket loop (`ws`: pushed and flushed messages).
They share `_sessions`, `_counters` and the local database. Code between two
awaits is one step in every model; every await is a place where the other
task, a crash or a lost answer may come in.

| Component | State | Operations | Module |
|---|---|---|---|
| Ratchet chain, replay protector (`client/crypto/session.py`) | chain index, skipped keys, highest counter, deque of ids | advance, advance_to, try_skipped, check, commit | `Ratchet` |
| Sending (`client/use_cases/send_message.py`) | next counter, send chain, local rows | encrypt, POST, 201/409/timeout, save, persist | `Channel` |
| Receiving (`client/ui/app.py`) | receive chain, replay state, local rows, status | decrypt, save, persist, ACK, refuse | `Channel` |
| Session establishment (`ensure_session`, the bootstrap of the receive paths) | `_sessions`, `_counters`, key material of the first message | initiate, respond, rekey check, restart | `Handshake` |
| Identity key trust (`IdentityKeyCache`, settings) and key publication (`server/api/keys.py`) | cached key, verified, key_changed; published bundle | upload_keys, get_keys, check_and_update, mark_verified | `Trust` |
| Persistence (`client/crypto/storage.py`) | sessions.json, keystore.json | save, load: which fields survive | `Channel`, `Handshake`, `Trust`, `Access` |
| Message intake (`server/api/messages.py`) | messages table with UNIQUE (conversation, sender, counter) | send_message: checks, insert, commit, push | `Channel`, `Delivery`, `Friends` |
| Real-time delivery, offline queue (`server/ws/handler.py`, `server/services/delivery.py`) | `_connections`, delivered_at, sockets | register, flush, push, ACK, disconnect | `Delivery` |
| What delivery promises for each message | status on the server, messages opened | take, open, acknowledge, delete | `Mailbox` (abstract) |
| Client connection (`client/api/client.py`) | connection, login state, token | login, handshake of the first connection, reconnect loop, frames before login | `Delivery`, `Access` |
| Friends, requests, blocks (`server/api/friends.py`) | friend_requests, friendships, conversations, blocks | request, accept, decline, cancel, remove, block | `Friends` |
| Unread counters (`server/api/conversations.py`, `client/state/store.py`) | server's count, local count, screen | send, mark_read, list, open, receive | `Unread` |
| History (`fetch_messages`, `_sync_chat_history_from_server`) | table, cursor, pages | fetch a page, store oldest first | `History` |
| Rate limiting (`server/core/security.py`) | attempts, window_start, locked_until | check_rate_limit | `RateLimit` |
| Accounts and login sessions (`server/api/auth.py`, `client/use_cases/login.py`) | account, sessions, token, keystore | register, login, logout, expiry, crash | `Access` |
| Retention (`server/main.py`, `client/state/store.py`, the chat's timer) | stored_at, received_at, TTL, deadlines | build, store, clean up, save, sweep, show | `Retention` |
| Chat screen (`client/ui/screens/chat.py`, `client/ui/app.py`) | banner, send button, message on its way to the screen | history load, send, arrival, verify, close | `Chat` (on top of `Trust`) |

**How they interact.** A send encrypts with the session of `Handshake`, walks
the chain of `Ratchet`, and posts; the server checks `Friends`, inserts under
the UNIQUE constraint, counts in `Unread`, commits, and pushes through the
registry of `Delivery`. The recipient's `ws` task (or a history sync of its
`ui` task, `History`) opens the envelope, saves the text, persists the session
and acknowledges; the server sets delivered_at and pushes an ACK event to the
sender, who changes a status. A message with key material first passes the
trust decision of `Trust`, and the open chat (`Chat`) tells the user of it;
`Retention` says how long the text stays. `Access` and `RateLimit` are in front of everything.

**What is hard here.** Lost answers to requests that were carried out; retries
that reuse a counter; restarts that wind a session back to what was saved; two
tasks that replace the same session across an await; messages that arrive
twice, late, out of order or before the login is complete; old connections
whose clean-up runs after their successor has registered; handlers that check
a row and write it later; a screen that is told of a change after the state has
moved on; timers that count from different clocks. The list with lines is `hazards` in `PROJECT.json`.

## 2. The models

Each module has its state as `VARIABLES`, one action per step of the code
between two awaits, and history variables only where a property speaks of the
past (marked as history in the declarations).

**`Ratchet`** has the two data structures as values. A chain key is its
position: HKDF is one-way, so the key of position n gives exactly the message
keys from n on. `AdvanceTo` caches the keys it steps over, `TakeKey` pops one;
`Check` and `Commit` are the replay protector with its bounded deque.

**`Channel`** is one direction of one established conversation. The sender is
`execute_send_message`: `pc` says where it is, a request may be handled late
or never, and its answer may be lost; a restart loads `sndDisk`. The server
has the messages table and its UNIQUE constraint. The receiver opens an
envelope in one step (no await in `decrypt_envelope`) in either of two tasks,
then saves, persists and acknowledges in three more, any of which may fail or
be cut off by a restart. `rcv.opened` is what the session knows to be opened
and goes back with it in a restart; `everOpened` is a history that no restart
touches, and `cutOff` the messages whose handler a restart cut off before their
session was on disk. AES-GCM is perfect: with an honest server the tag
verifies exactly when the key of the envelope's position is used.

**`Handshake`** has both clients, both tasks of each, the lookup of a session
before `get_keys` and the assignment after it, and what sessions.json keeps
(not the key material of the first message). Objects have an identity because
a task goes on with the object it looked up. The server's insert and the
client's 201 are two steps, and a request that its client has given up (`late`)
may still be stored. Receiving is one step here; its awaits are in `Channel`.

**`Trust`** has the published key, the cache entry of every session object,
the file, and the settings screen. The history fields `accepted` and `heard`
say which key the user accepted last and which keys were received since.

**`Chat`** extends `Trust` with the open chat: one banner, one send button, the
handler the message pump is in, and a message that was opened and is on its way
to the screen (`note`: between `decrypt_envelope` and `add_message` lies the
await of `save_message`). Every action is an action of `Trust` with its effect
on the screen, or leaves `Trust` alone. All banners but `key_changed` are one
value, since only the priority of `key_changed` matters. The history variable
`crossed` records that a warning was overtaken on its way to the screen.

**`Mailbox`** is the abstract specification of delivery: per message a status
(absent, queued, delivered, deleted) and whether it was opened. `Delivery`
(rows, frames, ACKs with read and write) and `Channel` (requests, sessions,
tasks) each define `MailStatus` and state `ImplementsMailbox`, the refinement.

**`Delivery`** has the row of each message, the registry, the server's handler
of each connection with the snapshot its flush took, frames in flight, and ACK
requests with their read and write. The client is out, logging in (`starting`:
`connect_ws` waits for `auth_ok`, and any failure ends the login and the loop),
past the handshake (`started`) or `ready`; from `started` on `_ws_loop`
reconnects for ever. Its token may expire at any step: the server then refuses
each new connection, and the ACKs and the history sync, while an open
connection goes on.

**`Retention`** has the TTL setting of the sender, `sent_at` with the error of the
sender's clock, the server's row and its cleanup loop, and the recipient: the
session's knowledge in memory and on disk, the stages of the two tasks that
save a message, the local row with `received_at`, and the chat screen with its
items and its timer. Time is explicit and does not pass a timer that is due.

**`Friends`** has every writing endpoint of `friends.py` and the friendship
check of `send_message`, one step per SELECT and one per write transaction.
History variables record who agreed, who still wants, and which withdrawal
crossed an accept.

**`Unread`** has the load and the write of the two server handlers, the client's
list, its chat screen and its `ws` task, for one conversation. Both tasks fetch
the list (after a login or an accepted request; after a pushed acceptance) and
overwrite the local count with an answer that may be old.

**`History`** has the paging loop over a table that changes between pages; the
server turns the cursor into a time in seconds.

**`RateLimit`** has one key: a clock read, the fast path, and the transaction
with the upsert, the lockout and the answer.

**`Access`** has one user name and several devices: handlers that await between
check and insert, answers that are lost, logouts carried out late, expiry,
crashes between the answer and the writing of the keystore.

## 3. The runs

Eight runs pass; four show where the code departs from what a document, a
docstring or a comment of the repository says.

| Run | Bounds | What it checks |
|---|---|---|
| `channel` | window 2, skip 1, two tasks, 3 envelopes, 1 fault | keys erased, replays refused, no key used for two stored rows, delivered means durable, statuses true, nothing refused without a reason, every stored message saved or lost in a named way if rows come again; implements `Mailbox` |
| `delivery` | 1 message, 3 connections (a refused one is used again), any number of logins | nothing falls between flush and push; delivered means opened; a stored message arrives unless it is missed in a named way; implements `Mailbox` |
| `handshake` | 2 clients, both may initiate, 1 send per session object, 1 restart | sessions agree unless both initiated; stored messages are opened if they come again |
| `friends` | 2 users, 2 concurrent handlers | contact needs consent of both; friends have a conversation; friends both want it |
| `trust` (`Chat`) | 3 keys, two tasks, the screens | the flag is true, survives a crash, a verified key is pinned and is the one on the settings screen; the chat raises no false alarm except in the named case |
| `retention` | 1 message, TTL 1, clock exact or ahead by 1, age cap 1, both timers 1, clock to 4, 2 openings, 1 fault | swept messages stay gone; sweep and cleanup keep their deadlines; what the screen shows is stored |
| `conversation` (`Unread`, `History`) | 2 messages, 2 openings, list fetched by both tasks; 4 messages (1 own), 3 seconds, 2 per page | the server's count never forgets; the badge is shown; history is stored oldest first, only ties at a page's end are missed, the loop ends |
| `access` (`Access`, `RateLimit`) | 2 devices, 2 handlers, 2 registrations, 3 logins; 3 handlers, 1 attempt, window 2, clock to 5 | keystore matches the published key; a held token is unrevoked and unshared; at most twice the limit in any window; lockout holds |
| `channel_next_counter` | 3 envelopes, no faults | **violated:** the next counter is free |
| `delivery_registered` | 1 message, 2 connections | **violated:** a connected client is registered |
| `handshake_keys` | 2 clients, 1 send per session object, no restart | **violated:** no two messages share a key |
| `trust_warning` | 3 keys, two tasks, the screens | **violated:** the warning of a changed key remains |

`MCConversation` and `MCAccess` each explore two modules that share no state:
one moves while the other rests in its initial state.

**Why the bounds are enough to be interesting.** In `channel`, three envelopes
against a window of 2 make a message fall behind the window and (with holes
from failed sends) make one lie further ahead than `MAX_SKIP`; two tasks and
one restart reach every crash point between decrypt, save, persist and ACK. The
deque holds twice the window, so it forgets its first id at the fifth message,
beyond this bound (one that held only the window would forget within it, and
fail): that a forgotten id is still refused is what `ChannelProofs` proves for
every window. Three connections let a flush, a
stale disconnect and a fresh registration overlap. Two friends handlers are
the smallest number that race, and each may run any number of requests one
after another. Three keys let a key change, change again and change back. Four
messages with two per page give three page requests, and three times make ties
on and off a page boundary. Three rate-limit handlers are needed for one to
straddle a window that two others open and lock. In `retention` a clock that
runs to 4 with timers of 1 lets a message be stored, received late, expire, be
swept, be fetched again and age out, with a crash, a failed save or a failed
cleanup at any point; two openings put a closed and reopened chat around a
sweep. One send per session object is enough for `handshake`: a client that
restarts or whose session is overwritten sends again with the next object, so
retries, late requests and two messages with one key all occur. Symmetry is
used only for interchangeable handlers, keys and messages; the one run with both
symmetry and liveness is `conversation`, where the permuted values belong to
`Unread` and the liveness is of `History`, which moves only while `Unread` is in
its initial state.

**Fairness.** Users, faults, restarts, lost messages and the network are never
fair. What a run assumes is that asyncio resumes a coroutine whose await has
ended, and that awaits with a timeout end.

- `channel`: weak fairness of a receiving task's next step.
- `delivery`: weak fairness of the server's own coroutines (push, register or
  refuse, flush, disconnect), of the client's handling of frames, its reconnect
  loop (`while True` with a delay), its noticing a dead socket, the end of its
  handshake in success or failure (five seconds) and the end of its login.
- `handshake`: weak fairness of a `ws` task whose `get_keys` has ended in either
  way, and of the step behind its key check.
- `history`: weak fairness of the loop, whose requests end or time out.

**Hypotheses.** The code sends an undelivered message again only in the flush of
a new connection and in the history sync of a chat that the user opens. On a
connection that lasts a message whose handling failed is never repeated, so that
messages come again is not fairness but a hypothesis inside the two properties
that need it: `StoredIsSaved` has `RowsComeAgain`, and `StoredIsOpened` has
`MessagesComeAgain` (and `get_keys` must not fail every time). Without the
hypothesis TLC finds the message that waits for ever. `StoredReaches` needs none:
it is about the first time a message reaches the client.

The type invariants of all modules are theorems. The runs of `Channel`, `Delivery`,
`Friends`, `Trust` and `Retention` do not repeat them; in the other modules the
type invariant also says something about the state (a task holds an object that
exists, no message is in two pages, a lockout is in the row only above the limit,
a socket belongs to a login), and the run checks it.

Deadlock is checked everywhere except in `delivery` and `handshake`, where a
finished instance (all messages handled, connections and sends used up)
legitimately stops, and in their violation runs.

**Properties that admit exceptions.** Several properties name the ways in which
the code loses something, and say that there is no other way: `KeyErased` (a
restart cut the handler off before the session was on disk; the message does not
count as delivered then), `StoredIsSaved` (behind the window; beyond the skip
limit; opened and not saved), `StoredReaches` (the row ages out; no login gets
through; the token has expired and the loop is refused for ever; the client sits
on a connection that the registry lost or that carried the message before the
login was complete), `StoredIsOpened` (both clients initiated; the key material
was lost in a restart; two messages share a key), `FriendsWant` (a withdrawal that
crossed an accept), `BadgeShown` (four interleavings), `MissesOnlyTies` (the
cursor's second), `VerifiedIsPinned` (a bootstrap that overwrites the session),
`AlarmIsTrue` (verified or replaced while the warning was on its way),
`LockoutHolds` (handlers past the fast path), `GoneStaysGone` (a crash between row
and session), `ScreenIsStored` (a sender's clock that is ahead). Each exception is
a behaviour of the code, listed in section 5; for the temporal properties TLC
finds a counterexample as soon as one of them is left out. A hazard that is only
such an exception says so in its note.

## 4. The proofs

Assumptions are those stated by `ASSUME` in the models: window positive, skip
limit, page size and rate limit positive or natural, times and message numbers
natural, exactly two clients in a conversation, messages and marks different,
and `None` (`Null`, `NoCursor`) outside the sets it is compared with. No bound is
needed: the theorems hold for any number of tasks, envelopes, faults, restarts,
connections, messages, users, devices, handlers and keys. Every invariant that a
run checks is stated by a theorem.

Eight proof modules cover all the specifications. `RateLimit` and `History` have
names of their own for what every specification has (`LimitSpec`, `HistorySpec`,
...), so that `AccessProofs` can extend `Access` and `RateLimit`, and
`ConversationProofs` can extend `Unread` and `History`; the two state machines of
such a pair share no variable and no constant.

- **`ChannelProofs`**
  - `TypeCorrect`.
  - `KeyErasedAlways`: `KeyErased` speaks of every message that was ever opened,
    by this process or an earlier one. `KeyInv` says of memory and of disk alike
    that every position the session knows to be opened lies before the chain and
    is not among the skipped keys, and that skipped keys lie before the chain;
    `ErasedDecrypt` shows that decryption keeps it, once, for both. `EverInv`
    relates that to the history: what was ever opened is known to the session in
    memory, or was cut off by a restart and is unknown on disk too. `DurableInv`
    (below) adds that a delivered message is known to the session on disk, so a
    cut-off one is not delivered.
  - `StoredKeysDistinctAlways`: `SenderInv` relates the sender's memory, its
    disk, the envelope it posts, requests in flight and stored rows: the counter
    on disk is the one in memory, every smaller counter is stored, the chain
    index on disk is beyond all those rows although it may lag behind memory,
    and a request still to be handled has a chain index beyond every stored
    row of a smaller counter.
  - `DeliveredIsDurableAlways`, `StatusIsTrueAlways`: `DurableInv` is
    `IdsUnique` (an id names one envelope), `StageInv` (what a task has done at
    each stage, and that it is on disk once it may acknowledge) and `AckInv`
    (every ACK in flight is of a saved and persisted message).
  - `ReplayRefusesOpenedAlways`: the deque forgets ids, so one must show that an id
    is forgotten only after its counter has left the window. `LogInv` says that
    the ids in the deque are the last ones opened, in order, that opened counters
    are distinct and at most the maximum, and that each was inside the window
    when it was opened. `WindowPigeonHole` shows that twice `REPLAY_WINDOW`
    different counters, all opened after a counter c and so all greater than c
    minus the window, cannot all stay below c plus the window: one of them has
    pushed the window past c. `ReplayInv` carries `LogInv` for memory and disk.
  - `RefusedForAReasonAlways`: from `SpentInv`, again for memory and disk: each
    position the chain has passed is cached or was spent on an opened row, and each
    id in the deque is that of an opened row. Rows differ in index (`SenderInv`)
    and id (`IdsUnique`), so neither the ratchet nor the replay protector can refuse
    an unopened row except by the skip limit or by the window.
  - `ImplementsMailboxAlways`, see below.
- **`DeliveryProofs`**: `TypeCorrect`; `RegisteredMissesNothingAlways` (with the
  type invariant it is inductive: register before flush on one side, commit
  before lookup on the other); `DeliveredWasOpenedAlways` from `AckInv`: an ACK
  in any stage is of an opened message.
- **`FriendsProofs`**: `TypeCorrect`; `FriendsHaveConversationAlways`;
  `ContactNeedsConsentAlways` from `ConsentInv`, which adds what requests and
  handlers in flight imply: a row of friend_requests means that its sender agreed,
  and a handler on its way to a friendship, a conversation or a message is
  about two users who both agreed. `FriendsWantAlways` from `WantInv`: the will has
  to be there from the moment `handle_request` reads the request, so a pending row
  shows that its sender has not withdrawn, and a handler about to accept works for
  two users who want it or whose withdrawal is recorded as having crossed it.
- **Refinement.** `ImplementsMailboxAlways` in `DeliveryProofs` and in
  `ChannelProofs`: the initial state maps to an empty mailbox, and every action
  maps to one step of one message or to a stutter. `Delivery` needs
  `PostedInv` (a push, a snapshot and a frame are of a message that was stored)
  and `AckInv`; `Channel` needs `DurableInv` and that ids stay below the bound
  on attempts.
- **`ChatProofs`**
  - About `Trust`: `TypeCorrect`, `FlagIsTrueAlways`, `TrustSurvivesAlways`,
    `VerifiedIsPinnedAlways` (an action property) from one invariant: in every
    object of the heap and in the file the flag is up iff a foreign key was
    heard, and the cached key is the accepted one or a heard one; and the current
    object equals the file. With it `VerifiedIsShown` is inductive
    (`VerifiedIsShownAlways`), because a check leaves a verified key alone and a
    click refreshes the screen in the same step.
  - About `Chat`: `ChatIsTrust` shows that every step of the composition is a step
    of `Trust` or a stutter, so the theorems about `Trust` hold of it.
    `AlarmIsTrueAlways` needs `AlarmInv`: a warning still on its way must be true or crossed as well,
    and a closed chat has no banner and no message on its way to it.
- **`RetentionProofs`**: `TypeCorrect`; `AgedOutInTimeAlways` from `AgeInv`, which
  states the bound of the cleanup that is due next instead of the clock;
  `SweptInTimeAlways` from `SweepInv`, the same for the chat's timer;
  `GoneStaysGoneAlways` from `GoneInv`: a message that has or had a local row is
  known to the session on disk, is about to be, or was cut off; one that is
  about to be saved has no row and had none, unless it was cut off; two tasks
  handle different messages. `ScreenIsStoredAlways` from `ScreenInv`: a message
  is received no earlier than it was sent, up to the error of the clock, so its
  item expires no later than its row, and a task past the save has a stored
  message as the screen has.

- **`HandshakeProofs`**: each action is first shown to be a `Step`: it changes an
  object without touching its key, role and key material, or adds one object of a
  known origin (`Created`: keys asked for, key material of an envelope, disk);
  sessions.json gets what `_sessions` has; an envelope is built with the session in
  `_sessions`. All the rest is about `Step`, whatever the action.
  - `TypeCorrect` from `TypeInv`: a client without a session never had one
    (`ObjectInv`), and a task past an await holds an object that exists and an
    envelope of the right kind (`TaskInv`).
  - `SessionsAgreeAlways`: `SessionsAgree` speaks of two current sessions; what
    carries it is about every object, every envelope and the file. `KeyInv`: a
    session is an initiator's exactly if its key is the client's own, every key in
    use belongs to an object of the client that derived it, and an envelope
    carries a key its sender initiated. `OneInv`: as long as the peer has
    initiated nothing, a client derives one key of its own at most, since it asks
    for keys to send only while it never had a session. So if one side never
    initiated, both sessions come from the other side's first key.
- **`AccessProofs`**
  - `TypeCorrect` and `KeystoreMatchesAlways` from `CallInv`: which device a handler
    works for and whether it still waits, and that a success of `register` that
    can still be read is the account, so a late or lost answer never brings a
    keystore for other keys.
  - `HeldIsUnrevokedAlways` from `HeldInv`: a session is held by one device only from
    the answer of `login` on, and until the device leaves it is neither revoked nor
    about to be revoked by a logout that is still on its way.
  - About `RateLimit`: `LimitTypeCorrect`. `LockoutHoldsAlways` from `LockoutInv`: what
    the fast path has read holds until the transaction, unless a lockout was
    written between the two. `SpanHoldsAlways` from `SpanInv`: granted requests of
    one window have different numbers up to the limit, and two windows begin more
    than a window apart, although handlers with old clock values write last. A
    span of one window meets two windows at most; `SpanBound` maps its requests
    one to one into 1 .. 2 * max_attempts.
- **`ConversationProofs`**
  - About `Unread`: `TypeCorrect`. `CountIsPlausibleAlways` from `CountInv`: what a
    handler has loaded is a plausible count too. `BadgeShownAlways` from `BadgeInv`:
    the property speaks of two tasks at rest, and the invariant says what holds at
    each of their awaits (a chat on the screen leaves nothing waiting once its
    history is shown; a task that saw a chat before it saved need not count; the
    count is positive from the moment a message is routed to the next reset).
  - About `History`: `HistoryTypeCorrect` and `OldestFirstAlways` from `OrderInv`: each
    page is newer than every later one and all of them are as new as the cursor;
    what is stored is as old as anything still in a page. `MissesOnlyTiesAlways`
    from `MissInv`: a message that stays in the table is in a page, has the time of
    a cut, or is still ahead of the cursor.

**Only model-checked.** The liveness properties `StoredIsSaved`, `StoredReaches`,
`StoredIsOpened` and `SyncEnds` need fairness and ENABLED, which are out of the
prover's reach.

## 5. What the models show about the code

Violated by the code (findings in `PROJECT.json`):

1. A lost 201 leaves the counter where it was; the retry has a new id and is
   refused as a replay for ever (`send_message.py:186`; `ARCHITECTURE.md:342`).
2. The clean-up of an old connection takes the new one out of the registry
   (`ws/handler.py:107`, and `:57` in `push_to_user`).
3. Both receiving tasks bootstrap a session from the same first message. If the
   history sync is first, the user sends, and the `ws` task then assigns its own
   new session (`app.py:1282`), the send chain starts again at 0 while the counter
   goes on: two stored messages are encrypted with one key, and the recipient
   refuses the second. `session.py:479` says "Each message gets a unique key".
4. The warning `key_changed` of a verified contact disappears from the open chat
   when a later send or failed save sets its own banner, and a successful send
   turns the send button on again (`app.py:1016`, `:1371`), although
   `docs/plans/2026-03-25-client-ui-security-contract.md:80` wants it to "remain
   visible until explicitly resolved" (and `:236-238` counts it among what must
   survive).

Behaviours the models contain and no run singles out:

- Two users who both send first keep two sessions that never agree, and each
  refuses every message of the other (`send_message.py:63`; the exception in
  `SessionsAgree`; `ARCHITECTURE.md:210` calls the state `ESTABLISHED`).
- The warning `key_changed` does not appear when the message that revealed the
  change is refused, is not saved, or meets no active chat (`app.py:1346`, `:1394`).
- The Enter key sends although the send button is disabled (`chat.py:394`), and
  verifying the key clears the banner and leaves the button disabled until the
  next result (`chat.py:355`).
- A warning that was on its way when the user verified the key is shown after
  the verification (`app.py:1394`).
- `expires_at` of a message is never set on the server (`models/message.py:39`), so
  ciphertext leaves the server by age only; `ARCHITECTURE.md:341` says "Deleted on
  TTL expiry or age cap".
- The screen counts the TTL from `sent_at`, the store from `received_at`: an item
  that has expired on the screen reappears when the chat is opened again before
  its row expires (`chat.py:46`, `store.py:46`).
- The TTL of a conversation is not persisted (`app.py:214`).
- A message that arrives while the history is loaded can be on the screen twice
  (`chat.py:369`; the model has a set of items).
- An answer to a friend request that is stored while the reload of the list
  fails is reported as "Pending request unchanged" (`use_cases/friends.py:82`).
- After a crash between encrypting and persisting, a chain position and thus a
  message key is used again for another plaintext on the wire; only one of the
  two can be stored (`session.py:479`).
- `skipped_keys` is bounded per call and not in total (`session.py:491`, `:514`);
  keys of messages that never arrive stay in sessions.json.
- The window test is `<=` (`session.py:816`), one counter less than
  `ARCHITECTURE.md:300` suggests.
- An ACK is sent once; a repeated message is refused before the ACK, so a lost
  ACK is never repaired and the row stays in the offline queue (`app.py:1427`).
- A message whose handling failed (`get_keys`, a key that does not verify) is not
  asked for again: it waits for a reconnect or for the user to open the chat
  (`app.py:1223`; the hypotheses of section 3).
- An ACK that is pushed before the sender has saved its own row changes nothing,
  and the status stays "sent" (`app.py:1421`).
- A message opened and not persisted before a crash can be opened again, with its
  key (`app.py:1373`; the exception in `KeyErased`).
- A message is stored although the friendship ended after the check
  (`messages.py:145`), and the pending request of the other direction outlives the
  removal of a friend (`friends.py:261`).
- `with_for_update()` locks nothing on SQLite (`ws/handler.py:117`,
  `messages.py:136`).
- Frames that arrive before the login is complete are dropped (`app.py:1201`).
- The key material of the first message is not persisted (`storage.py:260`,
  against `session.py:374`).
- A session created across an await overwrites the other task's, with its
  replay state and its verification (`app.py:1282`; finding 3 is one consequence).
- Two answers to one friend request overwrite each other (`friends.py:190`); a
  block or removal that crosses an accept is followed by a friendship (`:205`).
- A click on the settings screen marks the key that is cached then, which may not
  be the one the screen showed before; the screen is refreshed with the marked
  key in the same step (`app.py:1156`, `:1162`; `VerifiedIsShown`).
- A handler that read the clock before a lockout may reset the window and erase
  the lockout (`security.py:217`).
- Unread counts lose updates; an old list overwrites the badge; the local count
  never exceeds 1 (`app.py:1381`).
- Messages of the second at which a page ends are skipped (`messages.py:306`).
- A comment in `auth.py:118` names `COLLATE NOCASE`; the schema has none.
- A lost 201 of a registration leaves the name taken by keys nobody holds.
- A WebSocket outlives its token, and once it breaks the reconnect loop tries the
  expired token for ever while the screens show a client that is logged in
  (`main.py:216`, `client/api/client.py:408`; `LockedOut` in `StoredReaches`).

## 6. What is not modelled

Cryptographic primitives (perfect), passwords and TOTP (a choice between success
and failure), TLS and certificate pinning, the encryption of the local files,
layout and key bindings, the friends screen, configuration, wire formats,
installation scripts, and the migration of an old local database (a stop between
renaming the table and copying its rows hides them for ever, `store.py:133`).
File writes are atomic: a sessions.json cut short cannot be parsed, the login
fails, and the code has no step that leads out of that state. Clocks are logical,
except in `RateLimit`, `History` and `Retention`. The server is honest; the
models are about correctness.

## 7. Plan

Done: `Ratchet`, `Channel` (core), `Delivery`, `Mailbox` and its two
refinements, `Handshake`, `Friends`, `Trust` with `Chat`, `Unread`, `History`,
`RateLimit`, `Access`, `Retention`, and eight proof modules with a theorem for
every invariant of every run.

Next, in this order:

1. The safety core of the other liveness properties as theorems, as
   `RefusedForAReason` is that of `StoredIsSaved`: that an undelivered message is
   on its way to a connected client unless that is stranded (`Delivery`), and that
   key material in the table can be opened as long as its recipient has initiated
   nothing (`Handshake`).
2. `Handshake` composed with `Trust`: the trust decision inside the bootstrap.
3. The friends screen on top of `Friends`: which answer the user is told of.
