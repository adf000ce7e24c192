------------------------------ MODULE History ------------------------------
(***************************************************************************)
(* Opening a chat fetches the whole history of its conversation from the   *)
(* server, page by page and newest first (fetch_messages), and then stores *)
(* it oldest first (_sync_chat_history_from_server), so that the ratchet   *)
(* sees the messages in order.  The cursor is the id of the last message   *)
(* of a page; the server turns it into that message's sent_at, a time in   *)
(* seconds that the sender's clock chose.  Between two pages the table     *)
(* changes: messages arrive and old ones are deleted.                      *)
(***************************************************************************)
EXTENDS Integers, Sequences, FiniteSetsExt

CONSTANTS Ids,       \* ids of the messages of the conversation
          Own,       \* those the client has sent itself
          Times,     \* values of sent_at
          Limit,     \* messages per page
          NoCursor   \* before_id is not given

ASSUME LimitAssumption ==
    /\ Own \subseteq Ids
    /\ Times \subseteq Nat
    /\ Limit \in Nat \ {0}
    /\ NoCursor \notin Ids

VARIABLES
    sent_at,    \* the time each message carries
    table,      \* the messages in the table
    stage,      \* "idle", "fetching", "storing", "done" or "failed"
    pages,      \* the pages fetched so far
    cursor,     \* before_id of the next request, NoCursor for the first
    stored,     \* messages handed to _store_fetched_history_envelope, in order
    steady,     \* history: messages in the table since the first request
    cuts        \* history: the times at which a page ended

historyVars == <<sent_at, table, stage, pages, cursor, stored, steady, cuts>>

HistoryInit ==
    /\ sent_at \in [Ids -> Times]
    /\ table \in SUBSET Ids
    /\ stage = "idle"
    /\ pages = <<>>
    /\ cursor = NoCursor
    /\ stored = <<>>
    /\ steady = {}
    /\ cuts = {}

-----------------------------------------------------------------------------
(* The table *)

Insert(m) ==
    /\ m \notin table
    /\ table' = table \cup {m}
    /\ UNCHANGED <<sent_at, stage, pages, cursor, stored, steady, cuts>>

\* The cleanup deletes by the server's stored_at, whatever the sender's clock
\* wrote into sent_at.
Delete(m) ==
    /\ m \in table
    /\ table' = table \ {m}
    /\ steady' = steady \ {m}
    /\ UNCHANGED <<sent_at, stage, pages, cursor, stored, cuts>>

-----------------------------------------------------------------------------
(* fetch_messages *)

\* Mutant of Before: the page starts at the cursor instead of after it.
BeforeOrAt(c) == {m \in table : c # NoCursor => sent_at[m] <= sent_at[c]}

\* The WHERE clause of a page.
Before(c) == {m \in table : c # NoCursor => sent_at[m] < sent_at[c]}

\* Mutant of Newest: without ORDER BY the page holds any messages.
NewestUnordered(p, all) ==
    /\ p \subseteq all
    /\ Cardinality(p) = Min({Limit, Cardinality(all)})

\* ORDER BY sent_at DESC LIMIT: the order of messages of one time is open.
Newest(p, all) ==
    /\ p \subseteq all
    /\ Cardinality(p) = Min({Limit, Cardinality(all)})
    /\ \A m \in p, n \in all \ p : sent_at[m] >= sent_at[n]

\* The last message of the page, whose id is next_cursor.
Last(p, m) == m \in p /\ \A n \in p : sent_at[m] <= sent_at[n]

-----------------------------------------------------------------------------
(* _sync_chat_history_from_server *)

StartSync ==
    /\ stage = "idle"
    /\ stage' = "fetching"
    /\ steady' = table
    /\ UNCHANGED <<sent_at, table, pages, cursor, stored, cuts>>

\* A page with more to come: limit + 1 rows were found.
FetchPage ==
    /\ stage = "fetching"
    /\ cursor # NoCursor => cursor \in table
    /\ Cardinality(Before(cursor)) > Limit
    /\ \E p \in SUBSET Before(cursor), m \in Ids :
          /\ Newest(p, Before(cursor))
          /\ Last(p, m)
          /\ pages' = Append(pages, p)
          /\ cursor' = m
          /\ cuts' = cuts \cup {sent_at[m]}
    /\ UNCHANGED <<sent_at, table, stage, stored, steady>>

FetchLastPage ==
    /\ stage = "fetching"
    /\ cursor # NoCursor => cursor \in table
    /\ Cardinality(Before(cursor)) <= Limit
    /\ pages' = Append(pages, Before(cursor))
    /\ stage' = "storing"
    /\ UNCHANGED <<sent_at, table, cursor, stored, steady, cuts>>

\* Mutant of FetchFails: the sync starts again.
FetchFailsRetries ==
    /\ stage = "fetching"
    /\ pages' = <<>>
    /\ cursor' = NoCursor
    /\ UNCHANGED <<sent_at, table, stage, stored, steady, cuts>>

\* 404 for a cursor whose message is gone, any other error, or no network: the
\* pages fetched so far are dropped.
FetchFails ==
    /\ stage = "fetching"
    /\ stage' = "failed"
    /\ UNCHANGED <<sent_at, table, pages, cursor, stored, steady, cuts>>

\* Mutant of OldestPage: the pages are stored in the order they were fetched.
OldestPageFirst(i) == pages[i] # {} /\ \A j \in 1 .. i - 1 : pages[j] = {}

\* reversed(pages)
OldestPage(i) == pages[i] # {} /\ \A j \in i + 1 .. Len(pages) : pages[j] = {}

\* The next message of reversed(page) of the oldest page that is not handled
\* yet: own messages are passed over.
StoreNext ==
    /\ stage = "storing"
    /\ \E i \in 1 .. Len(pages), m \in Ids :
          /\ OldestPage(i)
          /\ Last(pages[i], m)
          /\ stored' = IF m \in Own THEN stored ELSE Append(stored, m)
          /\ pages' = [pages EXCEPT ![i] = @ \ {m}]
    /\ UNCHANGED <<sent_at, table, stage, cursor, steady, cuts>>

EndSync ==
    /\ stage = "storing"
    /\ \A i \in 1 .. Len(pages) : pages[i] = {}
    /\ stage' = "done"
    /\ UNCHANGED <<sent_at, table, pages, cursor, stored, steady, cuts>>

Sync == FetchPage \/ FetchLastPage \/ FetchFails \/ StoreNext \/ EndSync

HistoryNext ==
    \/ \E m \in Ids : Insert(m)
    \/ \E m \in Ids : Delete(m)
    \/ StartSync
    \/ Sync

HistorySpec == HistoryInit /\ [][HistoryNext]_historyVars

\* Every request ends in an answer or a timeout, and the event loop resumes the
\* handler.
FairSpec == HistorySpec /\ WF_historyVars(Sync)

-----------------------------------------------------------------------------
(* Properties *)

\* The handler and its pages have their types, and no message is in two pages
\* or stored twice.
HistoryTypeOK ==
    /\ sent_at \in [Ids -> Times]
    /\ table \subseteq Ids
    /\ stage \in {"idle", "fetching", "storing", "done", "failed"}
    /\ pages \in Seq(SUBSET Ids)
    /\ cursor \in Ids \cup {NoCursor}
    /\ stored \in Seq(Ids)
    /\ \A i, j \in 1 .. Len(pages) : i # j => pages[i] \cap pages[j] = {}
    /\ \A i, j \in 1 .. Len(stored) : i # j => stored[i] # stored[j]

\* The messages are stored oldest first, although they were fetched newest first
\* and the table changed between the pages: the ratchet is asked to go back only
\* among messages of one second, whose order is open.
OldestFirst ==
    \A i, j \in 1 .. Len(stored) : i < j => sent_at[stored[i]] <= sent_at[stored[j]]

\* A sync that ends has stored every message of the peer that was in the table
\* all the time, except messages of the very second at which a page ended: the cursor keeps
\* only the time, so those of that second on the other side of the cut are lost.
MissesOnlyTies ==
    stage = "done" =>
        \A m \in steady \ Own :
            (\E i \in 1 .. Len(stored) : stored[i] = m) \/ sent_at[m] \in cuts

\* The loop ends, whatever arrives or is deleted meanwhile.
SyncEnds == stage = "fetching" ~> stage \in {"done", "failed"}
=============================================================================
