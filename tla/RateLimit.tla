----------------------------- MODULE RateLimit -----------------------------
(***************************************************************************)
(* check_rate_limit of server/core/security.py for one key, such as        *)
(* "login:<ip>", called by several handlers at a time.  A handler reads    *)
(* the clock once, at its start, and then awaits the database: a SELECT    *)
(* (the fast path for a locked key), and a transaction that holds SQLite's *)
(* write lock from the upsert to the commit.  By the time of the           *)
(* transaction its clock value may be old.                                 *)
(***************************************************************************)
EXTENDS Integers, FiniteSets

CONSTANTS
    Callers,       \* handlers that run at the same time
    max_attempts,  \* requests allowed per window
    window,        \* window_seconds
    MaxTime,       \* bound on the clock
    Null           \* no row, and SQL's NULL

\* A row of the table rate_limits.
Row == [attempts : Nat, window_start : Nat, locked_until : Nat \cup {Null}]

ASSUME LimitAssumption ==
    /\ max_attempts \in Nat \ {0}
    /\ window \in Nat \ {0}
    /\ MaxTime \in Nat
    /\ Null \notin Nat \cup Row

VARIABLES
    now,      \* the clock, in seconds
    row,      \* the row of rate_limits, Null before the first request
    stage,    \* where each handler is
    at,       \* the clock value it has read
    raced,    \* history: it was past the fast path when a lockout was written
    granted   \* history: the requests that were allowed, see CheckRateLimit

limitVars == <<now, row, stage, at, raced, granted>>

LimitInit ==
    /\ now = 0
    /\ row = Null
    /\ stage = [h \in Callers |-> "idle"]
    /\ at = [h \in Callers |-> 0]
    /\ raced = [h \in Callers |-> FALSE]
    /\ granted = {}

-----------------------------------------------------------------------------
(* The statements *)

Locked(r, t) == r # Null /\ r.locked_until # Null /\ t < r.locked_until

\* Mutant of Upsert: every attempt moves the start of the window.
UpsertSliding(r, t) ==
    IF r = Null \/ t - r.window_start > window
    THEN [attempts |-> 1, window_start |-> t, locked_until |-> Null]
    ELSE [attempts |-> IF t > r.window_start THEN 1 ELSE r.attempts + 1,
          window_start |-> t,
          locked_until |-> IF t <= r.window_start /\ r.attempts + 1 > max_attempts
                           THEN t + window ELSE Null]

\* Mutant of Upsert: a new window keeps the lockout of the last one.
UpsertKeepsLock(r, t) ==
    IF r = Null \/ t - r.window_start > window
    THEN [attempts |-> 1, window_start |-> t,
          locked_until |-> IF r = Null THEN Null ELSE r.locked_until]
    ELSE [attempts |-> r.attempts + 1,
          window_start |-> r.window_start,
          locked_until |-> IF r.attempts + 1 > max_attempts THEN t + window ELSE Null]

\* INSERT ... ON CONFLICT DO UPDATE: start a new window, or count in this one.
Upsert(r, t) ==
    IF r = Null \/ t - r.window_start > window
    THEN [attempts |-> 1, window_start |-> t, locked_until |-> Null]
    ELSE [attempts |-> r.attempts + 1,
          window_start |-> r.window_start,
          locked_until |-> IF r.attempts + 1 > max_attempts THEN t + window ELSE Null]

\* What the handler makes of the row it reads back.
Allowed(r, t) == ~ Locked(r, t) /\ r.attempts <= max_attempts

-----------------------------------------------------------------------------
(* The steps *)

Tick ==
    /\ now < MaxTime
    /\ now' = now + 1
    /\ UNCHANGED <<row, stage, at, raced, granted>>

\* A request comes in and the handler reads the clock.
StartCheck(h) ==
    /\ stage[h] = "idle"
    /\ stage' = [stage EXCEPT ![h] = "select"]
    /\ at' = [at EXCEPT ![h] = now]
    /\ raced' = [raced EXCEPT ![h] = FALSE]
    /\ UNCHANGED <<now, row, granted>>

\* Mutant of FastPath: the lockout is left to the upsert.
FastPathOpen(h) ==
    /\ stage[h] = "select"
    /\ stage' = [stage EXCEPT ![h] = "upsert"]
    /\ UNCHANGED <<now, row, at, raced, granted>>

\* A locked key is refused without a write.
FastPath(h) ==
    /\ stage[h] = "select"
    /\ stage' = [stage EXCEPT ![h] = IF Locked(row, at[h]) THEN "idle" ELSE "upsert"]
    /\ UNCHANGED <<now, row, at, raced, granted>>

\* The transaction.  A granted request is recorded with its clock value, its
\* window and its number in it, and whether the key was locked for it.
Grant(h) ==
    LET new == Upsert(row, at[h])
    IN  /\ stage[h] = "upsert"
        /\ Allowed(new, at[h])
        /\ row' = new
        /\ stage' = [stage EXCEPT ![h] = "idle"]
        /\ granted' = granted \cup
              {[at |-> at[h], start |-> new.window_start, n |-> new.attempts,
                late |-> Locked(row, at[h]) /\ ~ raced[h]]}
        /\ UNCHANGED <<now, at, raced>>

\* One attempt too many: the row now holds a lockout.
Refuse(h) ==
    LET new == Upsert(row, at[h])
    IN  /\ stage[h] = "upsert"
        /\ ~ Allowed(new, at[h])
        /\ row' = new
        /\ stage' = [stage EXCEPT ![h] = "idle"]
        /\ raced' = [g \in Callers |-> raced[g] \/ (stage[g] = "upsert" /\ g # h)]
        /\ UNCHANGED <<now, at, granted>>

LimitNext ==
    \/ Tick
    \/ \E h \in Callers : StartCheck(h)
    \/ \E h \in Callers : FastPath(h)
    \/ \E h \in Callers : Grant(h)
    \/ \E h \in Callers : Refuse(h)

LimitSpec == LimitInit /\ [][LimitNext]_limitVars

-----------------------------------------------------------------------------
(* Properties *)

\* The row and the handlers have their types, and a lockout is in the row only
\* while the window it ended has more attempts than allowed.
LimitTypeOK ==
    /\ now \in 0 .. MaxTime
    /\ row \in Row \cup {Null}
    /\ row # Null /\ row.locked_until # Null => row.attempts > max_attempts
    /\ stage \in [Callers -> {"idle", "select", "upsert"}]
    /\ at \in [Callers -> 0 .. MaxTime]
    /\ raced \in [Callers -> BOOLEAN]

\* A request that was granted in a window that began after it had read the
\* clock is not counted in a span.
InSpan(g, t) == g.start <= g.at /\ g.at \in t .. t + window

\* At most twice max_attempts requests are granted in any span of window
\* seconds: requests of three windows of check_rate_limit never meet in one.
SpanHolds ==
    \A t \in 0 .. MaxTime :
        Cardinality({g \in granted : InSpan(g, t)}) <= 2 * max_attempts

\* While the key is locked out, the only requests granted are those that had
\* passed the fast path before the lockout was written.
LockoutHolds == \A g \in granted : ~ g.late
=============================================================================
