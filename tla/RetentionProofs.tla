-------------------------- MODULE RetentionProofs ---------------------------
(***************************************************************************)
(* Proofs about module Retention, for every set of messages, times to      *)
(* live, clock errors and periods, and with no bound on time, faults and   *)
(* opened screens.                                                         *)
(***************************************************************************)
EXTENDS Retention, TLAPS

USE DEF sender, server, session, screen, local

\* The steps that do not touch the recipient's tasks or session.
Apart ==
    \/ Tick
    \/ \E ttl \in Ttls \cup {NoTtl} : SaveTtl(ttl)
    \/ SenderRestart
    \/ \E m \in Msgs, skew \in Skews : Build(m, skew)
    \/ \E m \in Msgs : Store(m)
    \/ Cleanup \/ CleanupFails
    \/ OpenChat \/ ShowHistory \/ CloseChat

\* The steps of a task.
Working(t) == SaveMessage(t) \/ SaveFails(t) \/ Persist(t) \/ Route(t)

\* The kinds of steps, in the order in which the proofs take them.
LEMMA NextSplit ==
    ASSUME [Next]_vars
    PROVE  \/ Apart
           \/ \E t \in Tasks, m \in Msgs : Receive(t, m)
           \/ \E t \in Tasks : Working(t)
           \/ PersistOther \/ Quit \/ Crash \/ Login \/ SweepTtl
           \/ UNCHANGED vars
BY DEF Next, Apart, Working

-----------------------------------------------------------------------------
(* Types *)

\* At the start nothing was sent.
LEMMA InitType == Init => TypeOK
BY RetentionAssumption DEF Init, TypeOK, Tasks, Idle, NoTtl, Never, Deleted

\* Sweeping the local store keeps its types.
LEMMA SweepType ==
    ASSUME TypeOK, SweepStore, sent' = sent
    PROVE  /\ receivedAt' \in [Msgs -> Nat \cup {Never}]
           /\ \A m \in Msgs : receivedAt'[m] # Never =>
                 receivedAt'[m] = receivedAt[m] /\ ~ RowExpired(m) /\ m \in DOMAIN sent
           /\ swept' \subseteq DOMAIN sent
BY DEF TypeOK, SweepStore, RowExpired

\* The steps apart from the recipient's session keep the types.
LEMMA ApartType ==
    ASSUME TypeOK, Apart
    PROVE  TypeOK'
<1> USE RetentionAssumption DEF TypeOK
<1>1. CASE Tick
  BY <1>1 DEF Tick
<1>2. ASSUME NEW ttl \in Ttls \cup {NoTtl}, SaveTtl(ttl) PROVE TypeOK'
  BY <1>2 DEF SaveTtl
<1>3. CASE SenderRestart
  BY <1>3 DEF SenderRestart
<1>4. ASSUME NEW m \in Msgs, NEW skew \in Skews, Build(m, skew) PROVE TypeOK'
  <2> DEFINE R == [sent_at : Int, ttl : Ttls \cup {NoTtl}, skew : Skews]
  <2>1. [sent_at |-> clock + skew, ttl |-> setting, skew |-> skew] \in R
    OBVIOUS
  <2>2. /\ DOMAIN sent' = DOMAIN sent \cup {m}
        /\ sent' \in [DOMAIN sent' -> R]
    BY <1>4, <2>1 DEF Build
  <2> QED BY <1>4, <2>2 DEF Build
<1>5. ASSUME NEW m \in Msgs, Store(m) PROVE TypeOK'
  BY <1>5 DEF Store
<1>6. CASE Cleanup
  BY <1>6 DEF Cleanup, Never
<1>7. CASE CleanupFails
  BY <1>7 DEF CleanupFails, Fault
<1>8. CASE OpenChat
  BY <1>8 DEF OpenChat
<1>9. CASE ShowHistory
  <2>1. items' \subseteq DOMAIN sent
    BY <1>9 DEF ShowHistory, get_messages
  <2> QED BY <1>9, <2>1 DEF ShowHistory, get_messages
<1>10. CASE CloseChat
  BY <1>10 DEF CloseChat
<1> QED BY <1>1, <1>2, <1>3, <1>4, <1>5, <1>6, <1>7, <1>8, <1>9, <1>10 DEF Apart

\* A task's step keeps the types.
LEMMA WorkingType ==
    ASSUME TypeOK, NEW t \in Tasks, Working(t)
    PROVE  TypeOK'
<1> USE DEF TypeOK
<1>1. work[t] \in Work /\ work[t] # Idle
  BY DEF Working, SaveMessage, SaveFails, Persist, Route, Idle
<1>2. /\ work[t].msg \in Msgs
      /\ work[t].msg \in known
      /\ work[t].msg \in DOMAIN sent
  BY <1>1 DEF Work
<1>3. ASSUME NEW at \in {"persist", "route"}, Step(t, at)
      PROVE  /\ work' \in [Tasks -> Work \cup {Idle}]
             /\ \A u \in Tasks : work'[u] # Idle => work[u] # Idle /\ work'[u].msg = work[u].msg
  BY <1>1, <1>3 DEF Step, Work
<1>4. ASSUME Done(t)
      PROVE  /\ work' \in [Tasks -> Work \cup {Idle}]
             /\ \A u \in Tasks : work'[u] # Idle => work'[u] = work[u]
  BY <1>4 DEF Done
<1>5. CASE SaveMessage(t)
  BY <1>2, <1>3, <1>5 DEF SaveMessage
<1>6. CASE SaveFails(t)
  BY <1>4, <1>6 DEF SaveFails, Fault
<1>7. CASE Persist(t)
  BY <1>3, <1>4, <1>7 DEF Persist
<1>8. CASE Route(t)
  BY <1>2, <1>4, <1>8 DEF Route
<1> QED BY <1>5, <1>6, <1>7, <1>8 DEF Working

\* The end of the process leaves no task and no screen.
LEMMA EndsType ==
    ASSUME TypeOK, Ends
    PROVE  /\ work' \in [Tasks -> Work \cup {Idle}]
           /\ \A t \in Tasks : work'[t] = Idle
           /\ up' = FALSE
           /\ chat' = 0 /\ openedAt' \in Nat /\ sweepDue' \in Nat
           /\ chat' \in 0 .. opens' /\ loading' \in 0 .. opens'
           /\ items' = {}
           /\ UNCHANGED <<clock, setting, sent, storedAt, cleanupDue, misses, opens,
                          receivedAt, swept>>
BY DEF Ends, TypeOK

\* Every step keeps the types.
LEMMA TypeNext ==
    ASSUME TypeOK, [Next]_vars
    PROVE  TypeOK'
<1>1. ASSUME NEW t \in Tasks, NEW m \in Msgs, Receive(t, m) PROVE TypeOK'
  <2>1. m \in DOMAIN sent
    BY <1>1 DEF Receive, TypeOK, Never
  <2>2. /\ work' \in [Tasks -> Work \cup {Idle}]
        /\ work'[t].msg = m
        /\ \A u \in Tasks : u # t => work'[u] = work[u]
    BY <1>1 DEF Receive, TypeOK, Work
  <2> QED BY <1>1, <2>1, <2>2 DEF Receive, TypeOK
<1>2. CASE PersistOther
  BY <1>2 DEF PersistOther, TypeOK
<1>3. CASE Quit
  <2>1. known' = known /\ knownDisk' = known /\ UNCHANGED <<cut, faults>>
    BY <1>3 DEF Quit
  <2> QED BY <1>3, <2>1, EndsType DEF Quit, TypeOK
<1>4. CASE Crash
  <2>1. \A t \in Tasks : work[t].at = "persist" => work[t] # Idle
    BY DEF Idle
  <2>2. cut' \subseteq DOMAIN sent
    BY <1>4, <2>1 DEF Crash, TypeOK
  <2>3. known' = knownDisk /\ knownDisk' = knownDisk /\ faults' \in Nat
    BY <1>4 DEF Crash, Fault, TypeOK
  <2> QED BY <1>4, <2>2, <2>3, EndsType DEF Crash, TypeOK
<1>5. CASE Login
  BY <1>5, SweepType DEF Login, TypeOK
<1>6. CASE SweepTtl
  BY <1>6, SweepType, RetentionAssumption DEF SweepTtl, TypeOK
<1>7. CASE UNCHANGED vars
  BY <1>7 DEF vars, TypeOK
<1> QED BY <1>1, <1>2, <1>3, <1>4, <1>5, <1>6, <1>7, NextSplit, ApartType, WorkingType

\* The server, the recipient's session and its screen keep their types.
THEOREM TypeCorrect == Spec => []TypeOK
BY InitType, TypeNext, PTL DEF Spec

-----------------------------------------------------------------------------
(* The server's rows *)

\* The next cleanup is near, and comes in time for every row.  The bound of
\* AgedOutInTime is about the clock; a row needs it of the cleanup that is due.
AgeInv ==
    /\ clock <= cleanupDue
    /\ cleanupDue <= clock + CleanupInterval
    /\ \A m \in Msgs :
          storedAt[m] >= 0 =>
              cleanupDue <= storedAt[m] + MaxAge + CleanupInterval * (1 + misses)

\* Intervals add up.
LEMMA Intervals ==
    ASSUME NEW n \in Nat
    PROVE  /\ CleanupInterval * (1 + n) \in Nat
           /\ CleanupInterval * (1 + n) >= CleanupInterval
           /\ CleanupInterval * (1 + (n + 1)) = CleanupInterval * (1 + n) + CleanupInterval
           /\ CleanupInterval * (1 + 0) = CleanupInterval
BY RetentionAssumption

\* Every step keeps AgeInv.
LEMMA AgeNext ==
    ASSUME TypeOK, AgeInv, [Next]_vars
    PROVE  AgeInv'
<1> USE RetentionAssumption DEF TypeOK
<1>1. CASE Tick
  BY <1>1 DEF Tick, AgeInv
<1>2. ASSUME NEW m \in Msgs, Store(m) PROVE AgeInv'
  <2>1. CleanupInterval * (1 + misses) >= CleanupInterval
    BY Intervals
  <2>2. CleanupInterval * (1 + misses) \in Nat
    BY Intervals
  <2> DEFINE span == CleanupInterval * (1 + misses)
  <2>3. span >= CleanupInterval /\ span \in Nat
    BY <2>1, <2>2
  <2>4. \A n \in Msgs : storedAt'[n] = IF n = m THEN clock ELSE storedAt[n]
    BY <1>2 DEF Store
  <2>5. UNCHANGED <<clock, cleanupDue, misses>>
    BY <1>2 DEF Store
  <2>6. \A n \in Msgs : storedAt[n] >= 0 => cleanupDue <= storedAt[n] + MaxAge + span
    BY DEF AgeInv
  <2>7. clock <= cleanupDue /\ cleanupDue <= clock + CleanupInterval
    BY DEF AgeInv
  <2> HIDE DEF span
  <2>8. \A n \in Msgs : storedAt'[n] >= 0 => cleanupDue <= storedAt'[n] + MaxAge + span
    BY <2>3, <2>4, <2>6, <2>7
  <2> QED BY <2>5, <2>7, <2>8 DEF AgeInv, span
<1>3. CASE Cleanup
  <2>1. CleanupInterval * (1 + 0) = CleanupInterval
    BY Intervals
  <2>2. \A n \in Msgs : storedAt'[n] >= 0 => storedAt[n] >= clock - MaxAge /\ storedAt'[n] = storedAt[n]
    <3> SUFFICES ASSUME NEW n \in Msgs, storedAt'[n] >= 0
                 PROVE  storedAt[n] >= clock - MaxAge /\ storedAt'[n] = storedAt[n]
      OBVIOUS
    <3>1. storedAt[n] \in Int /\ clock - MaxAge \in Int
      BY DEF Never, Deleted
    <3>2. storedAt'[n] = IF storedAt[n] >= 0 /\ storedAt[n] < clock - MaxAge
                         THEN Deleted ELSE storedAt[n]
      BY <1>3 DEF Cleanup
    <3> QED BY <3>1, <3>2 DEF Deleted
  <2>3. \A n \in Msgs :
          storedAt'[n] >= 0 => clock + CleanupInterval <= storedAt'[n] + MaxAge + CleanupInterval
    BY <2>2 DEF Never, Deleted
  <2> QED BY <1>3, <2>1, <2>3 DEF Cleanup, AgeInv
<1>4. CASE CleanupFails
  <2> DEFINE span == CleanupInterval * (1 + misses)
             more == CleanupInterval * (1 + (misses + 1))
  <2>1. span \in Nat /\ more = span + CleanupInterval
    BY Intervals
  <2>2. /\ misses' = misses + 1
        /\ cleanupDue = clock
        /\ cleanupDue' = clock + CleanupInterval
        /\ UNCHANGED <<clock, storedAt>>
    BY <1>4 DEF CleanupFails
  <2>3. \A n \in Msgs : storedAt[n] >= 0 => cleanupDue <= storedAt[n] + MaxAge + span
    BY DEF AgeInv
  <2> HIDE DEF span, more
  <2>4. \A n \in Msgs : storedAt[n] >= 0 => cleanupDue' <= storedAt[n] + MaxAge + more
    BY <2>1, <2>2, <2>3 DEF Never, Deleted
  <2> QED BY <2>2, <2>4 DEF AgeInv, more
<1>5. CASE UNCHANGED <<clock, storedAt, cleanupDue, misses>>
  BY <1>5 DEF AgeInv
<1>6. ASSUME \/ Apart
             \/ \E t \in Tasks, m \in Msgs : Receive(t, m)
             \/ \E t \in Tasks : Working(t)
             \/ PersistOther \/ Quit \/ Crash \/ Login \/ SweepTtl
             \/ UNCHANGED vars,
             ~ Tick, ~ (\E m \in Msgs : Store(m)), ~ Cleanup, ~ CleanupFails
      PROVE  UNCHANGED <<clock, storedAt, cleanupDue, misses>>
  BY <1>6 DEF Apart, Working, Receive, SaveMessage, SaveFails, Persist, Route, PersistOther,
     Quit, Crash, Ends, Login, SweepTtl, vars, SaveTtl, SenderRestart, Build, OpenChat,
     ShowHistory, get_messages, CloseChat
<1> QED BY <1>1, <1>2, <1>3, <1>4, <1>5, <1>6, NextSplit

\* No row outlives the age cap by more than the intervals of the cleanups that
\* failed and one more.
THEOREM AgedOutInTimeAlways == Spec => []AgedOutInTime
<1>1. Init => AgeInv
  BY RetentionAssumption DEF Init, AgeInv, Never
<1>2. TypeOK /\ AgeInv /\ [Next]_vars => AgeInv'
  BY AgeNext
<1>3. TypeOK /\ AgeInv => AgedOutInTime
  <2> SUFFICES ASSUME TypeOK, AgeInv, NEW m \in Msgs, storedAt[m] >= 0
               PROVE  clock <= storedAt[m] + MaxAge + CleanupInterval * (1 + misses)
    BY DEF AgedOutInTime
  <2> DEFINE bound == storedAt[m] + MaxAge + CleanupInterval * (1 + misses)
  <2>1. clock <= cleanupDue /\ cleanupDue <= bound
    BY DEF AgeInv
  <2>2. bound \in Int
    BY Intervals, RetentionAssumption DEF TypeOK, Never, Deleted
  <2> HIDE DEF bound
  <2>3. clock <= bound
    BY <2>1, <2>2 DEF TypeOK
  <2> QED BY <2>3 DEF bound
<1> QED BY <1>1, <1>2, <1>3, TypeCorrect, PTL DEF Spec
-----------------------------------------------------------------------------
(* The local rows *)

\* While a chat is open its timer is due within a period, and comes in time for
\* every row.
SweepInv ==
    chat # 0 =>
        /\ clock <= sweepDue
        /\ sweepDue <= clock + SweepPeriod
        /\ \A m \in Msgs :
              receivedAt[m] # Never /\ sent[m].ttl # NoTtl =>
                  \/ sweepDue <= receivedAt[m] + sent[m].ttl + SweepPeriod
                  \/ sweepDue <= openedAt + SweepPeriod

\* A sent message has a time to live that is a number.
LEMMA TtlNat ==
    ASSUME TypeOK, NEW m \in DOMAIN sent
    PROVE  sent[m].ttl \in Nat /\ sent[m].sent_at \in Int /\ sent[m].skew \in Int
BY RetentionAssumption DEF TypeOK, NoTtl

\* Every step keeps SweepInv.
LEMMA SweepNext ==
    ASSUME TypeOK, SweepInv, [Next]_vars
    PROVE  SweepInv'
<1> USE RetentionAssumption
<1>1. CASE Tick
  BY <1>1 DEF Tick, SweepInv, TypeOK
<1>2. ASSUME NEW m \in Msgs, NEW skew \in Skews, Build(m, skew) PROVE SweepInv'
  <2>1. \A n \in Msgs : receivedAt[n] # Never => n \in DOMAIN sent /\ sent'[n] = sent[n]
    BY <1>2 DEF Build, TypeOK
  <2> QED BY <1>2, <2>1 DEF Build, SweepInv
<1>3. ASSUME NEW t \in Tasks, SaveMessage(t) PROVE SweepInv'
  <2> DEFINE m == work[t].msg
  <2>1. m \in DOMAIN sent /\ m \in Msgs
    <3>1. work[t] # Idle
      BY <1>3 DEF SaveMessage, Idle
    <3> QED BY <3>1 DEF TypeOK
  <2>2. sent[m].ttl \in Nat
    BY <2>1, TtlNat
  <2>3. /\ UNCHANGED <<chat, clock, sweepDue, openedAt, sent>>
        /\ receivedAt' = [receivedAt EXCEPT ![m] = IF receivedAt[m] = Never THEN clock
                                                  ELSE receivedAt[m]]
    BY <1>3 DEF SaveMessage
  <2> HIDE DEF m
  <2>4. \A n \in Msgs : n # m => receivedAt'[n] = receivedAt[n]
    BY <2>3 DEF TypeOK
  <2>5. CASE receivedAt[m] # Never
    <3>1. receivedAt' = receivedAt
      BY <2>1, <2>3, <2>5 DEF TypeOK
    <3> QED BY <2>3, <3>1 DEF SweepInv
  <2>6. CASE receivedAt[m] = Never
    <3>1. receivedAt'[m] = clock
      BY <2>1, <2>3, <2>6 DEF TypeOK
    <3> QED BY <2>2, <2>3, <2>4, <3>1 DEF SweepInv, TypeOK
  <2> QED BY <2>5, <2>6
<1>4. CASE Quit \/ Crash
  BY <1>4 DEF Quit, Crash, Ends, SweepInv
<1>5. CASE Login
  <2>1. chat = 0
    BY <1>5 DEF Login, TypeOK
  <2> QED BY <1>5, <2>1 DEF Login, SweepInv
<1>6. CASE SweepTtl
  <2>1. /\ chat' = chat /\ clock' = clock /\ sent' = sent
        /\ sweepDue' = clock + SweepPeriod
    BY <1>6 DEF SweepTtl
  <2>2. \A m \in Msgs : receivedAt'[m] # Never =>
            receivedAt'[m] = receivedAt[m] /\ ~ RowExpired(m) /\ m \in DOMAIN sent
    BY <1>6, <2>1, SweepType DEF SweepTtl
  <2>3. ASSUME NEW m \in Msgs, receivedAt'[m] # Never, sent[m].ttl # NoTtl
        PROVE  sweepDue' <= receivedAt'[m] + sent[m].ttl + SweepPeriod
    <3>1. receivedAt[m] + sent[m].ttl > clock
      BY <2>2, <2>3, TtlNat DEF RowExpired, TypeOK, Never
    <3> QED BY <2>1, <2>2, <2>3, <3>1, TtlNat DEF TypeOK
  <2> QED BY <2>1, <2>3 DEF SweepInv, TypeOK
<1>7. CASE OpenChat
  BY <1>7 DEF OpenChat, SweepInv, TypeOK
<1>8. CASE CloseChat
  BY <1>8 DEF CloseChat, SweepInv
<1>9. CASE UNCHANGED <<chat, clock, sweepDue, openedAt, receivedAt, sent>>
  BY <1>9 DEF SweepInv
<1>10. ASSUME \/ Apart
              \/ \E t \in Tasks, m \in Msgs : Receive(t, m)
              \/ \E t \in Tasks : Working(t)
              \/ PersistOther
              \/ UNCHANGED vars,
              ~ Tick, ~ (\E m \in Msgs, skew \in Skews : Build(m, skew)),
              ~ (\E t \in Tasks : SaveMessage(t)), ~ OpenChat, ~ CloseChat
       PROVE  UNCHANGED <<chat, clock, sweepDue, openedAt, receivedAt, sent>>
  BY <1>10 DEF Apart, Working, Receive, SaveFails, Persist, Route, PersistOther,
     vars, SaveTtl, SenderRestart, Store, Cleanup, CleanupFails, ShowHistory, get_messages
<1> QED BY <1>1, <1>2, <1>3, <1>4, <1>5, <1>6, <1>7, <1>8, <1>9, <1>10, NextSplit

\* While a chat is open, no local row is kept longer than a period of the timer
\* after it expired or the screen was opened.
THEOREM SweptInTimeAlways == Spec => []SweptInTime
<1>1. Init => SweepInv
  BY DEF Init, SweepInv
<1>2. TypeOK /\ SweepInv /\ [Next]_vars => SweepInv'
  BY SweepNext
<1>3. TypeOK /\ SweepInv => SweptInTime
  <2> SUFFICES ASSUME TypeOK, SweepInv, NEW m \in Msgs,
                      chat # 0, receivedAt[m] # Never, sent[m].ttl # NoTtl
               PROVE  \/ clock <= receivedAt[m] + sent[m].ttl + SweepPeriod
                      \/ clock <= openedAt + SweepPeriod
    BY DEF SweptInTime
  <2>1. sent[m].ttl \in Nat
    BY TtlNat DEF TypeOK
  <2> QED BY <2>1, RetentionAssumption DEF SweepInv, TypeOK
<1> QED BY <1>1, <1>2, <1>3, TypeCorrect, PTL DEF Spec
-----------------------------------------------------------------------------
(* Swept messages *)

Persisting(m) == \E t \in Tasks : work[t].at = "persist" /\ work[t].msg = m

\* GoneStaysGone alone is not inductive.  A message that has or had a local row
\* is known to the session on disk, will be in a moment, or was cut off by a
\* crash; a message about to be saved has no row and had none, unless it was cut
\* off; and two tasks handle different messages.
GoneInv ==
    /\ \A m \in Msgs : receivedAt[m] # Never \/ m \in swept =>
          m \in knownDisk \/ m \in cut \/ Persisting(m)
    /\ \A t \in Tasks : work[t].at = "save" /\ work[t].msg \notin cut =>
          work[t].msg \notin swept /\ receivedAt[work[t].msg] = Never
    /\ \A t, u \in Tasks : t # u /\ work[t] # Idle /\ work[u] # Idle =>
          work[t].msg # work[u].msg
    /\ GoneStaysGone

\* A stage other than idle belongs to a message that the session knows.
LEMMA AtWork ==
    ASSUME TypeOK, NEW t \in Tasks, work[t].at # "idle"
    PROVE  /\ work[t] # Idle /\ work[t] \in Work
           /\ work[t].msg \in Msgs /\ work[t].msg \in known
<1>1. work[t] # Idle
  BY DEF Idle
<1>2. work[t] \in Work /\ work[t].msg \in known
  BY <1>1 DEF TypeOK
<1> QED BY <1>1, <1>2 DEF Work

\* A sweep keeps GoneInv: what it deletes had a row, so no task is about to save
\* it.
LEMMA SweepGone ==
    ASSUME TypeOK, GoneInv, SweepStore, UNCHANGED <<work, knownDisk, cut>>
    PROVE  GoneInv'
<1>1. \A m \in Msgs : receivedAt'[m] = IF RowExpired(m) THEN Never ELSE receivedAt[m]
  BY DEF SweepStore
<1>2. \A m \in swept' : m \in swept \/ (m \in Msgs /\ RowExpired(m))
  BY DEF SweepStore
<1>3. \A m \in Msgs : RowExpired(m) => receivedAt[m] # Never
  BY DEF RowExpired
<1>4. swept \subseteq Msgs
  BY DEF TypeOK
<1>5. \A m \in Msgs : (receivedAt[m] # Never \/ m \in swept)' =>
          (m \in knownDisk \/ m \in cut \/ Persisting(m))'
  BY <1>1, <1>2, <1>3 DEF GoneInv, Persisting
<1>6. \A t \in Tasks : (work[t].at = "save" /\ work[t].msg \notin cut)' =>
          (work[t].msg \notin swept /\ receivedAt[work[t].msg] = Never)'
  <2> SUFFICES ASSUME NEW t \in Tasks, work[t].at = "save", work[t].msg \notin cut
               PROVE  work[t].msg \notin swept' /\ receivedAt'[work[t].msg] = Never
    OBVIOUS
  <2>1. work[t].msg \notin swept /\ receivedAt[work[t].msg] = Never /\ work[t].msg \in Msgs
    BY AtWork DEF GoneInv
  <2> QED BY <1>1, <1>2, <1>3, <2>1
<1>7. GoneStaysGone'
  BY <1>1, <1>2, <1>4 DEF GoneInv, GoneStaysGone
<1> QED BY <1>5, <1>6, <1>7 DEF GoneInv

\* Every step keeps GoneInv.
LEMMA GoneNext ==
    ASSUME TypeOK, GoneInv, [Next]_vars
    PROVE  GoneInv'
<1>1. ASSUME NEW t \in Tasks, NEW m \in Msgs, Receive(t, m) PROVE GoneInv'
  <2>1. /\ m \notin known /\ work[t] = Idle
        /\ work'[t].at = "save" /\ work'[t].msg = m
        /\ \A u \in Tasks : u # t => work'[u] = work[u]
        /\ UNCHANGED <<knownDisk, cut, receivedAt, swept>>
    BY <1>1 DEF Receive, TypeOK
  <2>2. \A n \in Msgs : Persisting(n) => n \in known /\ Persisting(n)'
    BY <2>1, AtWork DEF Persisting, Idle
  <2>3. m \in cut \/ (m \notin swept /\ receivedAt[m] = Never)
    BY <2>1, <2>2 DEF GoneInv, TypeOK
  <2>4. \A u \in Tasks : work[u] # Idle => work[u].msg # m
    BY <2>1 DEF TypeOK
  <2> QED BY <2>1, <2>2, <2>3, <2>4 DEF GoneInv, GoneStaysGone
<1>2. ASSUME NEW t \in Tasks, SaveMessage(t) PROVE GoneInv'
  <2> DEFINE m == work[t].msg
  <2>1. m \in Msgs /\ m \in known /\ work[t] # Idle /\ work[t] \in Work /\ work[t].at = "save"
    BY <1>2, AtWork DEF SaveMessage
  <2>2. /\ work'[t].at = "persist" /\ work'[t].msg = m
        /\ \A u \in Tasks : u # t => work'[u] = work[u]
        /\ UNCHANGED <<knownDisk, cut, swept>>
    BY <1>2, <2>1 DEF SaveMessage, Step, TypeOK, Work
  <2>3. \A n \in Msgs : n # m => receivedAt'[n] = receivedAt[n]
    BY <1>2 DEF SaveMessage, TypeOK
  <2> HIDE DEF m
  <2>4. \A n \in Msgs : Persisting(n) \/ n = m => Persisting(n)'
    <3>1. ASSUME NEW u \in Tasks, work[u].at = "persist"
          PROVE  work'[u] = work[u]
      BY <2>1, <2>2, <3>1
    <3> QED BY <2>2, <3>1 DEF Persisting
  <2>5. \A u \in Tasks : u # t /\ work[u] # Idle => work[u].msg # m
    BY <2>1 DEF GoneInv, m
  <2>6. m \in swept => m \in cut
    BY <2>1 DEF GoneInv, m
  <2>7. \A n \in Msgs : (receivedAt[n] # Never \/ n \in swept)' =>
            (n \in knownDisk \/ n \in cut \/ Persisting(n))'
    BY <2>2, <2>3, <2>4 DEF GoneInv
  <2>8. \A u \in Tasks : (work[u].at = "save" /\ work[u].msg \notin cut)' =>
            (work[u].msg \notin swept /\ receivedAt[work[u].msg] = Never)'
    <3> SUFFICES ASSUME NEW u \in Tasks, work'[u].at = "save", work'[u].msg \notin cut
                 PROVE  work'[u].msg \notin swept /\ receivedAt'[work'[u].msg] = Never
      BY <2>2
    <3>1. u # t /\ work'[u] = work[u]
      BY <2>2
    <3>2. work[u].msg \in Msgs /\ work[u] # Idle
      BY <3>1, AtWork
    <3> QED BY <2>3, <2>5, <3>1, <3>2 DEF GoneInv
  <2>9. \A u, v \in Tasks : (u # v /\ work[u] # Idle /\ work[v] # Idle)' =>
            (work[u].msg # work[v].msg)'
    BY <2>1, <2>2, <2>5 DEF GoneInv
  <2>10. GoneStaysGone'
    <3>1. swept \subseteq Msgs
      BY DEF TypeOK
    <3> QED BY <2>2, <2>3, <2>6, <3>1 DEF GoneInv, GoneStaysGone
  <2> QED BY <2>7, <2>8, <2>9, <2>10 DEF GoneInv
<1>3. ASSUME NEW t \in Tasks, SaveFails(t) \/ Persist(t) \/ Route(t) PROVE GoneInv'
  <2>1. /\ \A u \in Tasks : u # t => work'[u] = work[u]
        /\ work'[t] = Idle \/ (work'[t].at = "route" /\ work'[t].msg = work[t].msg)
        /\ work[t] # Idle
    <3>1. work[t] \in Work /\ work[t] # Idle
      BY <1>3, AtWork DEF SaveFails, Persist, Route
    <3> QED BY <1>3, <3>1 DEF SaveFails, Persist, Route, Step, Done, TypeOK, Work
  <2>2. work'[t].at # "save"
    BY <2>1 DEF Idle
  <2>3. /\ UNCHANGED <<cut, receivedAt, swept>>
        /\ knownDisk \subseteq knownDisk'
        /\ work[t].at = "persist" => knownDisk' = known
    BY <1>3 DEF SaveFails, Persist, Route, TypeOK
  <2>4. \A n \in Msgs : Persisting(n) => n \in knownDisk' \/ Persisting(n)'
    BY <2>1, <2>3, AtWork DEF Persisting
  <2> QED BY <2>1, <2>2, <2>3, <2>4 DEF GoneInv, GoneStaysGone
<1>4. CASE PersistOther
  <2>1. \A n \in Msgs : Persisting(n)' <=> Persisting(n)
    BY <1>4 DEF PersistOther, Persisting
  <2> QED BY <1>4, <2>1 DEF PersistOther, GoneInv, GoneStaysGone, TypeOK
<1>5. CASE Quit \/ Crash
  <2>1. /\ \A t \in Tasks : work'[t] = Idle /\ work'[t].at = "idle"
        /\ UNCHANGED <<receivedAt, swept>>
    <3>1. Ends
      BY <1>5 DEF Quit, Crash
    <3>2. \A t \in Tasks : work'[t] = Idle
      BY <3>1, EndsType
    <3> QED BY <3>1, <3>2, EndsType DEF Idle
  <2>2. cut \subseteq cut' /\ knownDisk \subseteq knownDisk'
    BY <1>5 DEF Quit, Crash, TypeOK
  <2>3. \A n \in Msgs : Persisting(n) => n \in knownDisk' \/ n \in cut'
    BY <1>5, AtWork DEF Quit, Crash, Persisting
  <2> QED BY <2>1, <2>2, <2>3 DEF GoneInv, GoneStaysGone
<1>6. CASE Login
  BY <1>6, SweepGone DEF Login
<1>7. CASE SweepTtl
  BY <1>7, SweepGone DEF SweepTtl
<1>8. ASSUME Apart \/ UNCHANGED vars
      PROVE  UNCHANGED <<work, knownDisk, cut, receivedAt, swept>>
  BY <1>8 DEF Apart, vars, Tick, SaveTtl, SenderRestart, Build, Store, Cleanup,
     CleanupFails, OpenChat, ShowHistory, get_messages, CloseChat
<1>9. CASE UNCHANGED <<work, knownDisk, cut, receivedAt, swept>>
  BY <1>9 DEF GoneInv, GoneStaysGone, Persisting
<1> QED BY <1>1, <1>2, <1>3, <1>4, <1>5, <1>6, <1>7, <1>8, <1>9, NextSplit DEF Working

\* A message that a sweep deleted comes back only when a crash cut its handler
\* off between save_message and the saving of the session.
THEOREM GoneStaysGoneAlways == Spec => []GoneStaysGone
<1>1. Init => GoneInv
  BY DEF Init, GoneInv, GoneStaysGone, Idle, Tasks
<1>2. TypeOK /\ GoneInv /\ [Next]_vars => GoneInv'
  BY GoneNext
<1>3. GoneInv => GoneStaysGone
  BY DEF GoneInv
<1> QED BY <1>1, <1>2, <1>3, TypeCorrect, PTL DEF Spec
-----------------------------------------------------------------------------
(* The screen *)

Kept(m) == ItemExpired(m) \/ sent[m].skew > 0 \/ receivedAt[m] # Never

\* With a clock that is not ahead, a message is sent before it is received, so
\* its item expires no later than its row.  A task past the save has a message
\* that is kept in this sense, as the screen has.
ScreenInv ==
    /\ \A m \in DOMAIN sent :
          /\ sent[m].sent_at <= clock + sent[m].skew
          /\ receivedAt[m] # Never => sent[m].sent_at <= receivedAt[m] + sent[m].skew
    /\ \A t \in Tasks : work[t].at \in {"persist", "route"} => Kept(work[t].msg)
    /\ \A m \in items : Kept(m)

\* How any step changes a sent message: never backwards in time, and a row goes
\* away only when it has expired and comes only at the present time.
LEMMA RowStep ==
    ASSUME TypeOK, [Next]_vars, NEW m \in DOMAIN sent
    PROVE  /\ clock' \in {clock, clock + 1}
           /\ m \in DOMAIN sent' /\ sent'[m] = sent[m]
           /\ \/ receivedAt'[m] = receivedAt[m]
              \/ receivedAt'[m] = Never /\ RowExpired(m)
              \/ receivedAt'[m] = clock /\ receivedAt[m] = Never /\ clock' = clock
<1>1. m \in Msgs
  BY DEF TypeOK
<1>2. CASE Apart
  BY <1>2 DEF Apart, Tick, SaveTtl, SenderRestart, Build, Store, Cleanup, CleanupFails,
     OpenChat, ShowHistory, get_messages, CloseChat
<1>3. ASSUME NEW t \in Tasks, SaveMessage(t)
      PROVE  /\ UNCHANGED <<clock, sent>>
             /\ \/ receivedAt'[m] = receivedAt[m]
                \/ receivedAt'[m] = clock /\ receivedAt[m] = Never
  BY <1>1, <1>3 DEF SaveMessage, TypeOK
<1>4. CASE Login \/ SweepTtl
  BY <1>1, <1>4 DEF Login, SweepTtl, SweepStore
<1>5. ASSUME \/ \E t \in Tasks, n \in Msgs : Receive(t, n)
             \/ \E t \in Tasks : SaveFails(t) \/ Persist(t) \/ Route(t)
             \/ PersistOther \/ Quit \/ Crash
             \/ UNCHANGED vars
      PROVE  UNCHANGED <<clock, sent, receivedAt>>
  BY <1>5 DEF Receive, SaveFails, Persist, Route, PersistOther, Quit, Crash, Ends, vars
<1> QED BY <1>2, <1>3, <1>4, <1>5, NextSplit DEF Working

\* What is kept stays kept.
LEMMA KeptStep ==
    ASSUME TypeOK, ScreenInv, [Next]_vars, NEW m \in DOMAIN sent, Kept(m)
    PROVE  Kept(m)'
<1>1. /\ sent[m].ttl \in Nat /\ sent[m].sent_at \in Int /\ sent[m].skew \in Int
      /\ clock \in Nat /\ receivedAt[m] \in Int
  BY TtlNat DEF TypeOK, Never
<1>2. clock' \in {clock, clock + 1} /\ sent'[m] = sent[m]
  BY RowStep
<1>3. CASE ItemExpired(m)
  BY <1>1, <1>2, <1>3 DEF ItemExpired, Kept
<1>4. CASE sent[m].skew > 0
  BY <1>2, <1>4 DEF Kept
<1>5. CASE receivedAt[m] # Never /\ ~ (sent[m].skew > 0)
  <2>1. CASE receivedAt'[m] # Never
    BY <2>1 DEF Kept
  <2>2. CASE receivedAt'[m] = Never
    <3>1. RowExpired(m)
      BY <1>5, <2>2, RowStep
    <3>2. sent[m].sent_at <= receivedAt[m] + sent[m].skew
      BY <1>5 DEF ScreenInv
    <3>3. ItemExpired(m)
      BY <1>1, <1>5, <3>1, <3>2 DEF RowExpired, ItemExpired
    <3> QED BY <1>1, <1>2, <3>3 DEF ItemExpired, Kept
  <2> QED BY <2>1, <2>2
<1> QED BY <1>3, <1>4, <1>5 DEF Kept

\* What a step puts on the screen, or past the save, was kept before or is saved.
LEMMA ScreenNews ==
    ASSUME TypeOK, ScreenInv, [Next]_vars
    PROVE  /\ \A t \in Tasks : work'[t].at \in {"persist", "route"} =>
                 \/ receivedAt'[work'[t].msg] # Never
                 \/ work'[t].msg \in DOMAIN sent /\ Kept(work'[t].msg)
           /\ \A m \in items' : receivedAt'[m] # Never \/ (m \in DOMAIN sent /\ Kept(m))
<1>1. ASSUME NEW t \in Tasks, work[t].at \in {"persist", "route"}
      PROVE  work[t].msg \in DOMAIN sent /\ Kept(work[t].msg)
  BY <1>1, AtWork DEF ScreenInv, TypeOK
<1>2. ASSUME NEW m \in items PROVE m \in DOMAIN sent /\ Kept(m)
  BY <1>2 DEF ScreenInv, TypeOK
<1>3. CASE Apart
  <2>1. work' = work
    BY <1>3 DEF Apart, Tick, SaveTtl, SenderRestart, Build, Store, Cleanup, CleanupFails,
       OpenChat, ShowHistory, get_messages, CloseChat
  <2>2. \A m \in items' : m \in items \/ receivedAt'[m] # Never
    BY <1>3 DEF Apart, Tick, SaveTtl, SenderRestart, Build, Store, Cleanup, CleanupFails,
       OpenChat, ShowHistory, get_messages, CloseChat
  <2>3. \A t \in Tasks : work'[t].at \in {"persist", "route"} =>
            work'[t].msg \in DOMAIN sent /\ Kept(work'[t].msg)
    BY <1>1, <2>1
  <2>4. \A m \in items' : receivedAt'[m] # Never \/ (m \in DOMAIN sent /\ Kept(m))
    BY <1>2, <2>2
  <2> QED BY <2>3, <2>4
<1>4. ASSUME NEW t \in Tasks, NEW m \in Msgs, Receive(t, m)
      PROVE  /\ items' = items
             /\ \A u \in Tasks : work'[u].at = "save" \/ work'[u] = work[u]
  BY <1>4 DEF Receive, TypeOK
<1>5. ASSUME NEW t \in Tasks, SaveMessage(t)
      PROVE  /\ items' = items
             /\ \A u \in Tasks : receivedAt'[work'[u].msg] # Never \/ work'[u] = work[u]
  <2>1. work[t] \in Work /\ work[t].msg \in Msgs
    BY <1>5, AtWork DEF SaveMessage
  <2>2. work'[t].msg = work[t].msg /\ \A u \in Tasks : u # t => work'[u] = work[u]
    BY <1>5, <2>1 DEF SaveMessage, Step, TypeOK, Work
  <2>3. receivedAt'[work[t].msg] # Never
    BY <1>5, <2>1 DEF SaveMessage, TypeOK, Never
  <2> QED BY <1>5, <2>2, <2>3 DEF SaveMessage
<1>6. ASSUME NEW t \in Tasks, SaveFails(t) \/ Persist(t) \/ Route(t)
      PROVE  /\ \A u \in Tasks :
                   \/ work'[u] = work[u]
                   \/ work'[u].at = "idle"
                   \/ work[u].at = "persist" /\ work'[u].msg = work[u].msg
             /\ \A m \in items' :
                   m \in items \/ (work[t].at = "route" /\ m = work[t].msg)
  <2>1. work[t] \in Work
    BY <1>6, AtWork DEF SaveFails, Persist, Route
  <2> QED BY <1>6, <2>1 DEF SaveFails, Persist, Route, Step, Done, TypeOK, Work, Idle
<1>7. ASSUME Quit \/ Crash
      PROVE  items' = {} /\ \A t \in Tasks : work'[t].at = "idle"
  <2>1. Ends
    BY <1>7 DEF Quit, Crash
  <2>2. items' = {} /\ \A t \in Tasks : work'[t] = Idle
    BY <2>1, EndsType
  <2> QED BY <2>2 DEF Idle
<1>8. ASSUME PersistOther \/ Login \/ SweepTtl \/ UNCHANGED vars
      PROVE  items' \subseteq items /\ work' = work
  BY <1>8 DEF PersistOther, Login, SweepTtl, vars
<1>9. ASSUME NEW t \in Tasks, NEW m \in Msgs, Receive(t, m)
      PROVE  /\ \A u \in Tasks : work'[u].at \in {"persist", "route"} => work'[u] = work[u]
             /\ items' = items
  BY <1>4, <1>9
<1> QED BY <1>1, <1>2, <1>3, <1>5, <1>6, <1>7, <1>8, <1>9, NextSplit DEF Working

\* Every step keeps ScreenInv.
LEMMA ScreenNext ==
    ASSUME TypeOK, ScreenInv, [Next]_vars
    PROVE  ScreenInv'
<1>1. TypeOK'
  BY TypeNext
<1>2. \A m \in DOMAIN sent : Kept(m) => Kept(m)'
  BY KeptStep
<1>3. ASSUME NEW m, receivedAt'[m] # Never PROVE Kept(m)'
  BY <1>3 DEF Kept
<1>4. \A t \in Tasks : (work[t].at \in {"persist", "route"} => Kept(work[t].msg))'
  BY <1>2, <1>3, ScreenNews
<1>5. \A m \in items' : Kept(m)'
  BY <1>2, <1>3, ScreenNews
<1>6. ASSUME NEW m \in DOMAIN sent'
      PROVE  (/\ sent[m].sent_at <= clock + sent[m].skew
              /\ receivedAt[m] # Never => sent[m].sent_at <= receivedAt[m] + sent[m].skew)'
  <2>1. CASE m \in DOMAIN sent
    <3>1. /\ clock' \in {clock, clock + 1}
          /\ sent'[m] = sent[m]
          /\ \/ receivedAt'[m] = receivedAt[m]
             \/ receivedAt'[m] = Never
             \/ receivedAt'[m] = clock
      BY <2>1, RowStep
    <3>2. /\ sent[m].sent_at \in Int /\ sent[m].skew \in Int
          /\ clock \in Nat /\ receivedAt[m] \in Int
      BY <2>1, TtlNat DEF TypeOK, Never
    <3>3. /\ sent[m].sent_at <= clock + sent[m].skew
          /\ receivedAt[m] # Never => sent[m].sent_at <= receivedAt[m] + sent[m].skew
      BY <2>1 DEF ScreenInv
    <3> QED BY <3>1, <3>2, <3>3
  <2>2. CASE m \notin DOMAIN sent
    <3>1. PICK n \in Msgs, skew \in Skews : Build(n, skew)
      <4>1. ASSUME ~ (\E n \in Msgs, skew \in Skews : Build(n, skew))
            PROVE  sent' = sent
        BY <4>1 DEF Next, vars, Tick, SaveTtl, SenderRestart, Store, Cleanup, CleanupFails,
           Receive, SaveMessage, SaveFails, Persist, Route, PersistOther, Quit, Crash, Ends,
           Login, OpenChat, ShowHistory, get_messages, CloseChat, SweepTtl
      <4> QED BY <1>6, <2>2, <4>1
    <3>2. /\ sent'[m].sent_at = clock + skew /\ sent'[m].skew = skew
          /\ clock' = clock /\ receivedAt' = receivedAt /\ m \in Msgs
      BY <1>6, <2>2, <3>1 DEF Build
    <3>3. receivedAt[m] = Never
      BY <2>2, <3>2 DEF TypeOK
    <3> QED BY <3>2, <3>3, RetentionAssumption DEF TypeOK
  <2> QED BY <2>1, <2>2
<1> QED BY <1>4, <1>5, <1>6 DEF ScreenInv

\* A message on the screen that has not expired there is in the local store, if
\* the sender's clock was not ahead.
THEOREM ScreenIsStoredAlways == Spec => []ScreenIsStored
<1>1. Init => ScreenInv
  BY DEF Init, ScreenInv, Idle, Tasks
<1>2. TypeOK /\ ScreenInv /\ [Next]_vars => ScreenInv'
  BY ScreenNext
<1>3. ScreenInv => ScreenIsStored
  BY DEF ScreenInv, ScreenIsStored, Kept
<1> QED BY <1>1, <1>2, <1>3, TypeCorrect, PTL DEF Spec
=============================================================================
