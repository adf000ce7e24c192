-------------------------- MODULE HandshakeProofs --------------------------
(***************************************************************************)
(* Proofs about Handshake for any number of messages, sessions and         *)
(* restarts.                                                               *)
(***************************************************************************)
EXTENDS Handshake, FiniteSetTheorems, SequenceTheorems, TLAPS

USE DEF serverVars

-----------------------------------------------------------------------------
(* Objects of the heap *)

Heaps == [Clients -> Seq(Session)]

\* The object n of client c becomes s.
Touched(c, n, s) == heap' = [heap EXCEPT ![c] = [heap[c] EXCEPT ![n] = s]]

\* Client c gets a new object s.
Grown(c, s) == heap' = [heap EXCEPT ![c] = Append(heap[c], s)]

\* An assignment to a field of an object leaves all the others where they are.
LEMMA TouchHeap ==
    ASSUME heap \in Heaps, NEW c \in Clients, NEW n \in 1 .. Len(heap[c]),
           NEW s \in Session, Touched(c, n, s)
    PROVE  /\ heap' \in Heaps
           /\ \A x \in Clients : Len(heap'[x]) = Len(heap[x])
           /\ heap'[c][n] = s
           /\ \A x \in Clients : \A m \in 1 .. Len(heap[x]) :
                 x # c \/ m # n => heap'[x][m] = heap[x][m]
  <1>1. heap[c] \in Seq(Session)
    BY DEF Heaps
  <1>2. /\ [heap[c] EXCEPT ![n] = s] \in Seq(Session)
        /\ Len([heap[c] EXCEPT ![n] = s]) = Len(heap[c])
        /\ \A m \in 1 .. Len(heap[c]) :
              [heap[c] EXCEPT ![n] = s][m] = IF m = n THEN s ELSE heap[c][m]
    BY <1>1, ExceptSeq
  <1>3. /\ heap' \in Heaps
        /\ heap'[c] = [heap[c] EXCEPT ![n] = s]
        /\ \A x \in Clients \ {c} : heap'[x] = heap[x]
    BY <1>2 DEF Touched, Heaps
  <1>. QED  BY <1>2, <1>3

\* A new object comes behind the ones there are.
LEMMA GrowHeap ==
    ASSUME heap \in Heaps, NEW c \in Clients, NEW s \in Session,
           Grown(c, s)
    PROVE  /\ heap' \in Heaps
           /\ Len(heap'[c]) = Len(heap[c]) + 1
           /\ \A x \in Clients \ {c} : heap'[x] = heap[x]
           /\ heap'[c][Len(heap[c]) + 1] = s
           /\ \A m \in 1 .. Len(heap[c]) : heap'[c][m] = heap[c][m]
  <1>1. heap[c] \in Seq(Session)
    BY DEF Heaps
  <1>2. /\ Append(heap[c], s) \in Seq(Session)
        /\ Len(Append(heap[c], s)) = Len(heap[c]) + 1
        /\ Append(heap[c], s)[Len(heap[c]) + 1] = s
        /\ \A m \in 1 .. Len(heap[c]) : Append(heap[c], s)[m] = heap[c][m]
    BY <1>1, AppendProperties
  <1>3. /\ heap' \in Heaps
        /\ heap'[c] = Append(heap[c], s)
        /\ \A x \in Clients \ {c} : heap'[x] = heap[x]
    BY <1>2 DEF Grown, Heaps
  <1>. QED  BY <1>2, <1>3

-----------------------------------------------------------------------------
(* Type correctness *)

Stages == {"idle", "send_keys", "posting", "posted", "boot_keys", "rekey"}

\* A client whose _sessions has no entry never had a session, and what
\* _sessions has was written to disk at least once.
ObjectInv ==
    \A c \in Clients :
        /\ slot[c] \in 0 .. Len(heap[c])
        /\ slot[c] = 0 => heap[c] = <<>>
        /\ disk[c] = None => slot[c] = 0

\* What a task holds at each await.
TaskInv ==
    \A c \in Clients, t \in Tasks :
        /\ ref[c][t] \in 0 .. Len(heap[c])
        /\ stage[c][t] \in {"posting", "posted", "rekey"} =>
              ref[c][t] # 0 /\ cur[c][t] \in Envelope
        /\ stage[c][t] = "boot_keys" =>
              cur[c][t] \in Envelope /\ cur[c][t].eph # None /\ cur[c][t].from # c

Types ==
    /\ heap \in Heaps
    /\ slot \in [Clients -> Nat]
    /\ disk \in [Clients -> Session \cup {None}]
    /\ counter \in [Clients -> Nat \cup {None}]
    /\ stage \in [Clients -> [Tasks -> Stages]]
    /\ cur \in [Clients -> [Tasks -> Envelope \cup {None}]]
    /\ ref \in [Clients -> [Tasks -> Nat]]
    /\ msgs \in SUBSET Envelope
    /\ late \in SUBSET Envelope
    /\ opened \in [Clients -> Seq(Envelope)]
    /\ restarts \in 0 .. MaxRestarts

TypeInv == Types /\ ObjectInv /\ TaskInv

\* No client has a session at first.
LEMMA TypeInit == Init => TypeInv
  <1> SUFFICES ASSUME Init PROVE TypeInv
    OBVIOUS
  <1>1. heap \in Heaps /\ opened \in [Clients -> Seq(Envelope)]
    BY DEF Init, Heaps
  <1>2. \A c \in Clients : Len(heap[c]) = 0
    BY DEF Init
  <1>. QED
    BY <1>1, <1>2, HandshakeAssumption
    DEF Init, TypeInv, Types, ObjectInv, TaskInv, Stages, Tasks

\* A session just derived.
LEMMA NewSessionType ==
    ASSUME NEW key \in Key, NEW initiator \in BOOLEAN
    PROVE  NewSession(key, initiator) \in Session
  BY DEF NewSession, Session

\* The send chain moves on in an object of the same key and role.
LEMMA AdvancedType ==
    ASSUME NEW s \in Session
    PROVE  /\ Advanced(s) \in Session
           /\ Advanced(s).key = s.key
           /\ Advanced(s).initiator = s.initiator
           /\ Advanced(s).eph = s.eph
  BY DEF Advanced, Session

\* What build_and_encrypt makes is an envelope.
LEMMA BuiltType ==
    ASSUME TypeInv, NEW c \in Clients, NEW s \in Session
    PROVE  Built(c, s) \in Envelope
  BY DEF TypeInv, Types, Built, NextCounter, Session, Envelope

\* The step of a task t of client c, from the place where it goes, the
\* envelope and the object it holds there.
LEMMA TaskMoves ==
    ASSUME TypeInv, heap' \in Heaps,
           \A x \in Clients : Len(heap[x]) <= Len(heap'[x]),
           NEW c \in Clients, NEW t \in Tasks, NEW st \in Stages,
           NEW e \in Envelope \cup {None}, NEW r \in 0 .. Len(heap'[c]),
           stage' = [stage EXCEPT ![c][t] = st],
           cur' = [cur EXCEPT ![c][t] = e],
           ref' = [ref EXCEPT ![c][t] = r],
           st \in {"posting", "posted", "rekey"} => r # 0 /\ e \in Envelope,
           st = "boot_keys" => e \in Envelope /\ e.eph # None /\ e.from # c
    PROVE  /\ stage' \in [Clients -> [Tasks -> Stages]]
           /\ cur' \in [Clients -> [Tasks -> Envelope \cup {None}]]
           /\ ref' \in [Clients -> [Tasks -> Nat]]
           /\ TaskInv'
  <1>. \A x \in Clients : Len(heap[x]) \in Nat /\ Len(heap'[x]) \in Nat
    BY DEF TypeInv, Types, Heaps
  <1>1. stage' \in [Clients -> [Tasks -> Stages]]
    BY DEF TypeInv, Types
  <1>2. cur' \in [Clients -> [Tasks -> Envelope \cup {None}]]
    BY DEF TypeInv, Types
  <1>3. ref' \in [Clients -> [Tasks -> Nat]]
    BY DEF TypeInv, Types
  <1>4. ASSUME NEW x \in Clients, NEW y \in Tasks
        PROVE  /\ ref'[x][y] \in 0 .. Len(heap'[x])
               /\ stage'[x][y] \in {"posting", "posted", "rekey"} =>
                     ref'[x][y] # 0 /\ cur'[x][y] \in Envelope
               /\ stage'[x][y] = "boot_keys" =>
                     /\ cur'[x][y] \in Envelope
                     /\ cur'[x][y].eph # None
                     /\ cur'[x][y].from # x
    <2>1. CASE x = c /\ y = t
      <3>1. ref'[x][y] = r /\ stage'[x][y] = st /\ cur'[x][y] = e
        BY <2>1 DEF TypeInv, Types
      <3>. QED  BY <2>1, <3>1
    <2>2. CASE ~ (x = c /\ y = t)
      <3>1. ref'[x][y] = ref[x][y] /\ stage'[x][y] = stage[x][y] /\ cur'[x][y] = cur[x][y]
        BY <2>2 DEF TypeInv, Types
      <3>2. ref[x][y] \in 0 .. Len(heap[x])
        BY DEF TypeInv, TaskInv
      <3>. QED  BY <3>1, <3>2 DEF TypeInv, TaskInv
    <2>. QED  BY <2>1, <2>2
  <1>. QED  BY <1>1, <1>2, <1>3, <1>4 DEF TaskInv

\* Tasks that stay where they are do not mind that the heap grows.
LEMMA TasksStay ==
    ASSUME TypeInv, heap' \in Heaps,
           \A x \in Clients : Len(heap[x]) <= Len(heap'[x]),
           UNCHANGED <<stage, cur, ref>>
    PROVE  /\ stage' \in [Clients -> [Tasks -> Stages]]
           /\ cur' \in [Clients -> [Tasks -> Envelope \cup {None}]]
           /\ ref' \in [Clients -> [Tasks -> Nat]]
           /\ TaskInv'
  <1>. \A x \in Clients : Len(heap[x]) \in Nat /\ Len(heap'[x]) \in Nat
    BY DEF TypeInv, Types, Heaps
  <1>. QED  BY DEF TypeInv, Types, TaskInv

-----------------------------------------------------------------------------
(* What a step of one client does to sessions and envelopes *)

\* Key, role and key material are the same in s and o.
Kept(s, o) == s.key = o.key /\ s.initiator = o.initiator /\ s.eph = o.eph

\* An object changes, but not its key, role and key material.
TouchStep(c) ==
    /\ \E n \in 1 .. Len(heap[c]), s \in Session :
          Touched(c, n, s) /\ Kept(s, heap[c][n])
    /\ UNCHANGED slot

\* Where the session s comes from that client c creates: from the keys it asked
\* for, from the key material of an envelope, or from disk.
Created(c, s) ==
    \/ /\ stage[c]["ui"] = "send_keys"
       /\ stage'[c]["ui"] # "send_keys"
       /\ s.key = <<c, Len(heap[c]) + 1>>
       /\ s.initiator
    \/ \E t \in Tasks :
          /\ stage[c][t] = "boot_keys"
          /\ s.key = cur[c][t].eph
          /\ ~ s.initiator
          /\ ~ s.eph
    \/ /\ stage'[c]["ui"] # "send_keys"
       /\ disk[c] # None
       /\ s.key = disk[c].key
       /\ s.initiator = disk[c].initiator
       /\ ~ s.eph

\* A new object takes the place in _sessions.
GrowStep(c) ==
    /\ \E s \in Session : Grown(c, s) /\ Created(c, s)
    /\ slot' = [slot EXCEPT ![c] = Len(heap[c]) + 1]
    /\ disk'[c] # None

\* sessions.json gets what _sessions has.
DiskStep(c) ==
    \E s \in Session :
        disk' = [disk EXCEPT ![c] = s] /\ Kept(s, heap'[c][slot'[c]])

\* Envelopes come to the server from the sending task, perhaps late, and to a
\* task from the table, or are built with the session that is in _sessions.
MailStep(c) ==
    /\ \A e \in msgs' \cup late' :
          e \in msgs \cup late \/ (stage[c]["ui"] = "posting" /\ e = cur[c]["ui"])
    /\ \A x \in Clients, t \in Tasks :
          \/ cur'[x][t] \in msgs \cup {cur[x][t], None}
          \/ /\ x = c
             /\ cur'[x][t].from = c
             /\ \/ cur'[x][t].eph = None
                \/ /\ slot'[c] # 0
                   /\ heap'[c][slot'[c]].eph
                   /\ cur'[x][t].eph = heap'[c][slot'[c]].key

\* ensure_session asks for keys only if there is no session.
AskStep ==
    \A x \in Clients :
        stage'[x]["ui"] = "send_keys" => stage[x]["ui"] = "send_keys" \/ slot[x] = 0

Step(c) ==
    /\ UNCHANGED <<heap, slot>> \/ TouchStep(c) \/ GrowStep(c)
    /\ UNCHANGED disk \/ (DiskStep(c) /\ slot'[c] # 0)
    /\ MailStep(c)
    /\ AskStep

\* Such a step keeps what ObjectInv says.
LEMMA ObjectMoves ==
    ASSUME TypeInv, NEW c \in Clients,
           UNCHANGED <<heap, slot>> \/ TouchStep(c) \/ GrowStep(c),
           UNCHANGED disk \/ DiskStep(c)
    PROVE  /\ heap' \in Heaps
           /\ slot' \in [Clients -> Nat]
           /\ disk' \in [Clients -> Session \cup {None}]
           /\ ObjectInv'
           /\ \A x \in Clients : Len(heap[x]) <= Len(heap'[x])
  <1>. heap \in Heaps
    BY DEF TypeInv, Types
  <1>. \A x \in Clients : heap[x] \in Seq(Session) /\ Len(heap[x]) \in Nat
    BY DEF Heaps
  <1>1. disk' \in [Clients -> Session \cup {None}]
    BY DEF TypeInv, Types, DiskStep
  <1>2. \A x \in Clients : disk'[x] = None => disk[x] = None
    BY HandshakeAssumption DEF TypeInv, Types, DiskStep
  <1>3. CASE UNCHANGED <<heap, slot>>
    <2>1. \A x \in Clients : Len(heap'[x]) = Len(heap[x])
      BY <1>3
    <2>2. ObjectInv'
      BY <1>2, <1>3 DEF TypeInv, ObjectInv
    <2>. QED  BY <1>1, <1>3, <2>1, <2>2 DEF TypeInv, Types
  <1>4. CASE TouchStep(c)
    <2>1. PICK n \in 1 .. Len(heap[c]), s \in Session : Touched(c, n, s)
      BY <1>4 DEF TouchStep
    <2>2. /\ heap' \in Heaps
          /\ \A x \in Clients : Len(heap'[x]) = Len(heap[x])
      BY <2>1, TouchHeap
    <2>3. slot' = slot
      BY <1>4 DEF TouchStep
    <2>4. ASSUME NEW x \in Clients, slot[x] = 0 PROVE heap'[x] = <<>>
      <3>1. heap[x] = <<>>
        BY <2>4 DEF TypeInv, ObjectInv
      <3>2. heap'[x] \in Seq(Session) /\ Len(heap'[x]) = 0
        BY <3>1, <2>2, EmptySeq DEF Heaps
      <3>. QED  BY <3>2, EmptySeq
    <2>5. ObjectInv'
      BY <1>2, <2>2, <2>3, <2>4 DEF TypeInv, ObjectInv
    <2>6. \A x \in Clients : Len(heap[x]) <= Len(heap'[x])
      BY <2>2
    <2>. QED  BY <1>1, <2>2, <2>3, <2>5, <2>6 DEF TypeInv, Types
  <1>5. CASE GrowStep(c)
    <2>1. PICK s \in Session : Grown(c, s)
      BY <1>5 DEF GrowStep
    <2>2. /\ heap' \in Heaps
          /\ Len(heap'[c]) = Len(heap[c]) + 1
          /\ \A x \in Clients \ {c} : heap'[x] = heap[x]
      BY <2>1, GrowHeap
    <2>3. slot' = [slot EXCEPT ![c] = Len(heap[c]) + 1]
      BY <1>5 DEF GrowStep
    <2>4. /\ slot' \in [Clients -> Nat]
          /\ slot'[c] = Len(heap[c]) + 1
          /\ \A x \in Clients \ {c} : slot'[x] = slot[x]
      BY <2>3 DEF TypeInv, Types
    <2>5. disk'[c] # None
      BY <1>5 DEF GrowStep
    <2>6. \A x \in Clients : Len(heap[x]) <= Len(heap'[x])
      BY <2>2
    <2>7. ASSUME NEW x \in Clients
          PROVE  /\ slot'[x] \in 0 .. Len(heap'[x])
                 /\ slot'[x] = 0 => heap'[x] = <<>>
                 /\ disk'[x] = None => slot'[x] = 0
      <3>1. CASE x = c
        BY <3>1, <2>2, <2>4, <2>5
      <3>2. CASE x # c
        BY <3>2, <1>2, <2>2, <2>4 DEF TypeInv, ObjectInv
      <3>. QED  BY <3>1, <3>2
    <2>. QED  BY <1>1, <2>2, <2>4, <2>6, <2>7 DEF ObjectInv
  <1>. QED  BY <1>3, <1>4, <1>5

\* What is left of the type invariant once objects and tasks are settled.
LEMMA Assemble ==
    ASSUME TypeInv, NEW c \in Clients,
           UNCHANGED <<heap, slot>> \/ TouchStep(c) \/ GrowStep(c),
           UNCHANGED disk \/ DiskStep(c),
           counter' \in [Clients -> Nat \cup {None}],
           stage' \in [Clients -> [Tasks -> Stages]],
           cur' \in [Clients -> [Tasks -> Envelope \cup {None}]],
           ref' \in [Clients -> [Tasks -> Nat]],
           TaskInv',
           msgs' \in SUBSET Envelope,
           late' \in SUBSET Envelope,
           opened' \in [Clients -> Seq(Envelope)],
           restarts' \in 0 .. MaxRestarts
    PROVE  TypeInv'
  BY ObjectMoves DEF TypeInv, Types

\* The task that asks for the peer's keys before it sends.
LEMMA AskType ==
    ASSUME TypeInv, NEW c \in Clients,
           SendWithoutSession(c) \/ EnsureSessionFails(c)
    PROVE  TypeInv' /\ Step(c)
  <1>. USE DEF SendWithoutSession, EnsureSessionFails
  <1>1. PICK st \in {"send_keys", "idle"} :
           /\ stage' = [stage EXCEPT ![c]["ui"] = st]
           /\ st = "send_keys" => slot[c] = 0
    OBVIOUS
  <1>2. UNCHANGED <<heap, slot, disk, counter, cur, ref, opened, msgs, late, restarts>>
    OBVIOUS
  <1>3. stage' \in [Clients -> [Tasks -> Stages]]
    BY <1>1 DEF TypeInv, Types, Stages
  <1>4. \A x \in Clients, t \in Tasks :
           stage'[x][t] = stage[x][t] \/ (x = c /\ t = "ui" /\ stage'[x][t] = st)
    BY <1>1 DEF TypeInv, Types, Tasks
  <1>5. TaskInv'
    BY <1>2, <1>4 DEF TypeInv, TaskInv
  <1>6. TypeInv'
    BY <1>2, <1>3, <1>5 DEF TypeInv, Types, ObjectInv
  <1>7. MailStep(c)
    BY <1>2 DEF MailStep
  <1>8. AskStep
    BY <1>1, <1>4 DEF AskStep, Tasks
  <1>. QED  BY <1>2, <1>6, <1>7, <1>8 DEF Step

\* The task that sends: its envelope is built with the object it holds.
LEMMA PostMail ==
    ASSUME TypeInv, NEW c \in Clients, NEW n \in Nat, NEW s \in Session,
           Post(c, n, s), slot'[c] # 0, Kept(s, heap'[c][slot'[c]]), UNCHANGED <<msgs, late>>
    PROVE  MailStep(c) /\ AskStep
  <1>1. /\ Built(c, s).from = c
        /\ Built(c, s).eph = None \/ (s.eph /\ Built(c, s).eph = s.key)
    BY DEF Built
  <1>2. ASSUME NEW x \in Clients, NEW t \in Tasks
        PROVE  cur'[x][t] = cur[x][t] \/ (x = c /\ cur'[x][t] = Built(c, s))
    BY DEF Post, TypeInv, Types
  <1>3. MailStep(c)
    BY <1>1, <1>2 DEF MailStep, Kept
  <1>4. \A x \in Clients : stage'[x]["ui"] # "send_keys" \/ stage'[x]["ui"] = stage[x]["ui"]
    BY DEF Post, TypeInv, Types, Tasks
  <1>. QED  BY <1>3, <1>4 DEF AskStep

\* The keys arrive and a new session sends.
LEMMA EnsureType ==
    ASSUME TypeInv, NEW c \in Clients, EnsureSession(c)
    PROVE  TypeInv' /\ Step(c)
  <1>. DEFINE n == Len(heap[c]) + 1
              s == NewSession(<<c, n>>, TRUE)
  <1>1. /\ stage[c]["ui"] = "send_keys"
        /\ heap' = [heap EXCEPT ![c] = Append(heap[c], Advanced(s))]
        /\ slot' = [slot EXCEPT ![c] = n]
        /\ disk' = [disk EXCEPT ![c] = s]
        /\ Post(c, n, s)
        /\ UNCHANGED <<counter, opened, msgs, late, restarts>>
    BY DEF EnsureSession
  <1>. heap \in Heaps /\ Len(heap[c]) \in Nat
    BY DEF TypeInv, Types, Heaps
  <1>. n \in Nat /\ n # 0
    OBVIOUS
  <1>2. s \in Session /\ Advanced(s) \in Session /\ Kept(s, Advanced(s))
    BY NewSessionType, AdvancedType DEF Key, Kept
  <1>3. s.key = <<c, n>> /\ s.initiator
    BY DEF NewSession
  <1>. HIDE DEF s
  <1>4. Grown(c, Advanced(s))
    BY <1>1 DEF Grown
  <1>5. heap' \in Heaps /\ heap'[c][n] = Advanced(s) /\ Len(heap'[c]) = n
    BY <1>2, <1>4, GrowHeap
  <1>6. slot'[c] = n /\ disk'[c] = s
    BY <1>1 DEF TypeInv, Types
  <1>7. stage'[c]["ui"] = "posting"
    BY <1>1 DEF Post, TypeInv, Types, Tasks
  <1>8. Created(c, Advanced(s))
    BY <1>1, <1>2, <1>3, <1>7 DEF Created, Kept
  <1>9. GrowStep(c)
    BY <1>1, <1>2, <1>4, <1>6, <1>8, HandshakeAssumption DEF GrowStep
  <1>10. DiskStep(c)
    BY <1>1, <1>2, <1>5, <1>6 DEF DiskStep
  <1>11. MailStep(c) /\ AskStep
    BY <1>1, <1>2, <1>5, <1>6, PostMail
  <1>12. \A x \in Clients : Len(heap[x]) <= Len(heap'[x])
    BY <1>9, <1>10, ObjectMoves
  <1>13. Built(c, s) \in Envelope
    BY <1>2, BuiltType
  <1>14. /\ stage' \in [Clients -> [Tasks -> Stages]]
         /\ cur' \in [Clients -> [Tasks -> Envelope \cup {None}]]
         /\ ref' \in [Clients -> [Tasks -> Nat]]
         /\ TaskInv'
    <2>1. "ui" \in Tasks /\ "posting" \in Stages /\ n \in 0 .. Len(heap'[c])
      BY <1>5 DEF Tasks, Stages
    <2>2. /\ stage' = [stage EXCEPT ![c]["ui"] = "posting"]
          /\ cur' = [cur EXCEPT ![c]["ui"] = Built(c, s)]
          /\ ref' = [ref EXCEPT ![c]["ui"] = n]
      BY <1>1 DEF Post
    <2>. HIDE DEF n
    <2>. QED  BY <1>5, <1>12, <1>13, <2>1, <2>2, TaskMoves
  <1>15. TypeInv'
    BY <1>1, <1>9, <1>10, <1>14, Assemble DEF TypeInv, Types
  <1>. QED  BY <1>6, <1>9, <1>10, <1>11, <1>15 DEF Step

\* A task that is done holds nothing.
LEMMA DoneTasks ==
    ASSUME TypeInv, heap' \in Heaps,
           \A x \in Clients : Len(heap[x]) <= Len(heap'[x]),
           NEW c \in Clients, NEW t \in Tasks, Done(c, t)
    PROVE  /\ stage' \in [Clients -> [Tasks -> Stages]]
           /\ cur' \in [Clients -> [Tasks -> Envelope \cup {None}]]
           /\ ref' \in [Clients -> [Tasks -> Nat]]
           /\ TaskInv'
           /\ \A x \in Clients, y \in Tasks : cur'[x][y] \in {cur[x][y], None}
           /\ AskStep
  <1>1. /\ stage' = [stage EXCEPT ![c][t] = "idle"]
        /\ cur' = [cur EXCEPT ![c][t] = None]
        /\ ref' = [ref EXCEPT ![c][t] = 0]
    BY DEF Done
  <1>2. "idle" \in Stages /\ None \in Envelope \cup {None} /\ 0 \in 0 .. Len(heap'[c])
    BY DEF Stages, Heaps
  <1>3. /\ stage' \in [Clients -> [Tasks -> Stages]]
        /\ cur' \in [Clients -> [Tasks -> Envelope \cup {None}]]
        /\ ref' \in [Clients -> [Tasks -> Nat]]
        /\ TaskInv'
    BY <1>1, <1>2, TaskMoves
  <1>4. \A x \in Clients, y \in Tasks : cur'[x][y] \in {cur[x][y], None}
    BY <1>1 DEF TypeInv, Types
  <1>5. \A x \in Clients : stage'[x]["ui"] # "send_keys" \/ stage'[x]["ui"] = stage[x]["ui"]
    BY <1>1 DEF TypeInv, Types, Tasks
  <1>. QED  BY <1>3, <1>4, <1>5 DEF AskStep

\* What _sessions has is one of the objects.
LEMMA CurrentType ==
    ASSUME TypeInv, NEW c \in Clients, slot[c] # 0
    PROVE  slot[c] \in 1 .. Len(heap[c]) /\ heap[c][slot[c]] \in Session
  <1>1. heap[c] \in Seq(Session)
    BY DEF TypeInv, Types, Heaps
  <1>2. slot[c] \in 1 .. Len(heap[c])
    BY <1>1 DEF TypeInv, ObjectInv
  <1>. QED  BY <1>1, <1>2, ElementOfSeq

\* An object that a task holds exists, so that _sessions has one too.
LEMMA HeldType ==
    ASSUME TypeInv, NEW c \in Clients, NEW t \in Tasks,
           stage[c][t] \in {"posting", "posted", "rekey"}
    PROVE  /\ ref[c][t] \in 1 .. Len(heap[c])
           /\ heap[c][ref[c][t]] \in Session
           /\ cur[c][t] \in Envelope
           /\ slot[c] # 0
  <1>1. heap[c] \in Seq(Session)
    BY DEF TypeInv, Types, Heaps
  <1>2. ref[c][t] \in 1 .. Len(heap[c]) /\ cur[c][t] \in Envelope
    BY <1>1 DEF TypeInv, TaskInv
  <1>3. heap[c] # <<>>
    BY <1>2, EmptySeq
  <1>. QED  BY <1>1, <1>2, <1>3, ElementOfSeq DEF TypeInv, ObjectInv

\* A message with the session there is.
LEMMA SendType ==
    ASSUME TypeInv, NEW c \in Clients, SendWithSession(c)
    PROVE  TypeInv' /\ Step(c)
  <1>. DEFINE n == slot[c]
              s == heap[c][n]
  <1>1. /\ n # 0
        /\ heap' = [heap EXCEPT ![c] = [heap[c] EXCEPT ![n] = Advanced(s)]]
        /\ Post(c, n, s)
        /\ UNCHANGED <<slot, disk, counter, opened, msgs, late, restarts>>
    BY DEF SendWithSession
  <1>. heap \in Heaps
    BY DEF TypeInv, Types
  <1>2. n \in 1 .. Len(heap[c]) /\ s \in Session
    BY <1>1, CurrentType
  <1>3. Advanced(s) \in Session /\ Kept(Advanced(s), s) /\ Kept(s, Advanced(s))
    BY <1>2, AdvancedType DEF Kept
  <1>. HIDE DEF n, s
  <1>4. Touched(c, n, Advanced(s))
    BY <1>1 DEF Touched
  <1>5. TouchStep(c)
    BY <1>1, <1>2, <1>3, <1>4 DEF TouchStep, s
  <1>6. heap' \in Heaps /\ heap'[c][n] = Advanced(s) /\ Len(heap'[c]) = Len(heap[c])
    BY <1>2, <1>3, <1>4, TouchHeap
  <1>7. slot'[c] = n
    BY <1>1 DEF n
  <1>8. n \in Nat /\ n \in 0 .. Len(heap'[c])
    BY <1>2, <1>6 DEF Heaps
  <1>9. MailStep(c) /\ AskStep
    BY <1>1, <1>2, <1>3, <1>6, <1>7, <1>8, PostMail
  <1>10. \A x \in Clients : Len(heap[x]) <= Len(heap'[x])
    BY <1>1, <1>5, ObjectMoves
  <1>11. Built(c, s) \in Envelope
    BY <1>2, BuiltType
  <1>12. /\ stage' \in [Clients -> [Tasks -> Stages]]
         /\ cur' \in [Clients -> [Tasks -> Envelope \cup {None}]]
         /\ ref' \in [Clients -> [Tasks -> Nat]]
         /\ TaskInv'
    <2>1. "ui" \in Tasks /\ "posting" \in Stages
      BY DEF Tasks, Stages
    <2>2. /\ stage' = [stage EXCEPT ![c]["ui"] = "posting"]
          /\ cur' = [cur EXCEPT ![c]["ui"] = Built(c, s)]
          /\ ref' = [ref EXCEPT ![c]["ui"] = n]
      BY <1>1 DEF Post
    <2>. QED  BY <1>1, <1>6, <1>8, <1>10, <1>11, <2>1, <2>2, TaskMoves
  <1>13. TypeInv'
    BY <1>1, <1>5, <1>12, Assemble DEF TypeInv, Types
  <1>. QED  BY <1>1, <1>5, <1>9, <1>13 DEF Step

\* The server takes the message.
LEMMA StorePostType ==
    ASSUME TypeInv, NEW c \in Clients, StorePost(c)
    PROVE  TypeInv' /\ Step(c)
  <1>1. /\ stage[c]["ui"] = "posting"
        /\ msgs' = msgs \cup {cur[c]["ui"]}
        /\ stage' = [stage EXCEPT ![c]["ui"] = "posted"]
        /\ UNCHANGED <<heap, slot, disk, counter, cur, ref, opened, late, restarts>>
    BY DEF StorePost
  <1>. "ui" \in Tasks /\ "posted" \in Stages
    BY DEF Tasks, Stages
  <1>2. ref[c]["ui"] \in 1 .. Len(heap[c]) /\ cur[c]["ui"] \in Envelope
    BY <1>1, HeldType
  <1>3. heap' \in Heaps /\ \A x \in Clients : Len(heap[x]) <= Len(heap'[x])
    BY <1>1 DEF TypeInv, Types, Heaps
  <1>4. ref[c]["ui"] \in 0 .. Len(heap'[c]) /\ ref[c]["ui"] # 0
    BY <1>1, <1>2
  <1>5. /\ cur' = [cur EXCEPT ![c]["ui"] = cur[c]["ui"]]
        /\ ref' = [ref EXCEPT ![c]["ui"] = ref[c]["ui"]]
    BY <1>1 DEF TypeInv, Types
  <1>6. /\ stage' \in [Clients -> [Tasks -> Stages]]
        /\ cur' \in [Clients -> [Tasks -> Envelope \cup {None}]]
        /\ ref' \in [Clients -> [Tasks -> Nat]]
        /\ TaskInv'
    BY <1>1, <1>2, <1>3, <1>4, <1>5, TaskMoves
  <1>7. msgs' \in SUBSET Envelope
    BY <1>1, <1>2 DEF TypeInv, Types
  <1>8. TypeInv'
    BY <1>1, <1>6, <1>7, Assemble DEF TypeInv, Types
  <1>9. MailStep(c)
    BY <1>1 DEF MailStep
  <1>10. \A x \in Clients : stage'[x]["ui"] # "send_keys" \/ stage'[x]["ui"] = stage[x]["ui"]
    BY <1>1 DEF TypeInv, Types
  <1>11. AskStep
    BY <1>10 DEF AskStep
  <1>. QED  BY <1>1, <1>8, <1>9, <1>11 DEF Step

\* A request that was given up is stored late: no client takes part.
LEMMA StoreLateType ==
    ASSUME TypeInv, NEW c \in Clients, NEW e \in late, StoreLate(e)
    PROVE  TypeInv' /\ Step(c)
  <1>1. msgs' = msgs \cup {e} /\ late' = late \ {e} /\ UNCHANGED <<clientVars, restarts>>
    BY DEF StoreLate
  <1>2. UNCHANGED <<heap, slot, disk, counter, stage, cur, ref, opened, restarts>>
    BY <1>1 DEF clientVars
  <1>3. msgs' \in SUBSET Envelope /\ late' \in SUBSET Envelope
    BY <1>1 DEF TypeInv, Types
  <1>4. TypeInv'
    BY <1>2, <1>3 DEF TypeInv, Types, ObjectInv, TaskInv
  <1>5. MailStep(c)
    BY <1>1, <1>2 DEF MailStep
  <1>6. AskStep
    BY <1>2 DEF AskStep
  <1>. QED  BY <1>2, <1>4, <1>5, <1>6 DEF Step

\* The answer arrives and the object's counter moves on.
LEMMA PostSucceedsType ==
    ASSUME TypeInv, NEW c \in Clients, PostSucceeds(c)
    PROVE  TypeInv' /\ Step(c)
  <1>. DEFINE e == cur[c]["ui"]
              n == ref[c]["ui"]
              s == [heap[c][n] EXCEPT !.next = e.counter + 1]
  <1>1. /\ stage[c]["ui"] = "posted"
        /\ counter' = [counter EXCEPT ![c] = e.counter + 1]
        /\ heap' = [heap EXCEPT ![c] = [heap[c] EXCEPT ![n] = s]]
        /\ disk' = [disk EXCEPT ![c] = heap'[c][slot[c]]]
        /\ Done(c, "ui")
        /\ UNCHANGED <<slot, opened, msgs, late, restarts>>
    BY DEF PostSucceeds
  <1>. heap \in Heaps /\ "ui" \in Tasks
    BY DEF TypeInv, Types, Tasks
  <1>2. /\ n \in 1 .. Len(heap[c])
        /\ heap[c][n] \in Session
        /\ e \in Envelope
        /\ slot[c] # 0
    BY <1>1, HeldType
  <1>3. e.counter + 1 \in Nat
    BY <1>2 DEF Envelope
  <1>4. s \in Session /\ Kept(s, heap[c][n])
    BY <1>2, <1>3 DEF Session, Kept
  <1>. HIDE DEF n, s, e
  <1>5. Touched(c, n, s)
    BY <1>1 DEF Touched
  <1>6. TouchStep(c)
    BY <1>1, <1>2, <1>4, <1>5 DEF TouchStep
  <1>7. heap' \in Heaps /\ Len(heap'[c]) = Len(heap[c])
    BY <1>2, <1>4, <1>5, TouchHeap
  <1>8. slot[c] \in 1 .. Len(heap'[c]) /\ slot'[c] = slot[c]
    BY <1>1, <1>2, <1>7, CurrentType
  <1>9. heap'[c][slot[c]] \in Session
    BY <1>7, <1>8, ElementOfSeq DEF Heaps
  <1>10. DiskStep(c)
    BY <1>1, <1>8, <1>9 DEF DiskStep, Kept
  <1>11. \A x \in Clients : Len(heap[x]) <= Len(heap'[x])
    BY <1>6, <1>10, ObjectMoves
  <1>12. /\ stage' \in [Clients -> [Tasks -> Stages]]
         /\ cur' \in [Clients -> [Tasks -> Envelope \cup {None}]]
         /\ ref' \in [Clients -> [Tasks -> Nat]]
         /\ TaskInv'
         /\ \A x \in Clients, y \in Tasks : cur'[x][y] \in {cur[x][y], None}
         /\ AskStep
    BY <1>1, <1>7, <1>11, DoneTasks
  <1>13. counter' \in [Clients -> Nat \cup {None}]
    BY <1>1, <1>2, <1>3 DEF TypeInv, Types
  <1>14. TypeInv'
    BY <1>1, <1>6, <1>10, <1>12, <1>13, Assemble DEF TypeInv, Types
  <1>15. MailStep(c)
    BY <1>1, <1>12 DEF MailStep
  <1>. QED  BY <1>2, <1>6, <1>8, <1>10, <1>12, <1>14, <1>15 DEF Step

\* Steps after which a task is done and the sessions are as they were.
LEMMA FailType ==
    ASSUME TypeInv, NEW c \in Clients, NEW t \in Tasks,
           PostFails(c) \/ BootstrapFails(c, t)
    PROVE  TypeInv' /\ Step(c)
  <1>1. PICK u \in Tasks : Done(c, u)
    BY DEF PostFails, BootstrapFails, Tasks
  <1>2. UNCHANGED <<heap, slot, disk, counter, opened, restarts>>
    BY DEF PostFails, BootstrapFails
  <1>3. \A e \in msgs' \cup late' :
           e \in msgs \cup late \/ (stage[c]["ui"] = "posting" /\ e = cur[c]["ui"])
    BY DEF PostFails, GiveUp, BootstrapFails
  <1>4. msgs' \in SUBSET Envelope /\ late' \in SUBSET Envelope
    <2>1. "ui" \in Tasks
      BY DEF Tasks
    <2>2. stage[c]["ui"] = "posting" => cur[c]["ui"] \in Envelope
      BY <2>1 DEF TypeInv, TaskInv
    <2>. QED  BY <1>3, <2>2 DEF TypeInv, Types
  <1>5. heap' \in Heaps /\ \A x \in Clients : Len(heap[x]) <= Len(heap'[x])
    BY <1>2 DEF TypeInv, Types, Heaps
  <1>6. /\ stage' \in [Clients -> [Tasks -> Stages]]
        /\ cur' \in [Clients -> [Tasks -> Envelope \cup {None}]]
        /\ ref' \in [Clients -> [Tasks -> Nat]]
        /\ TaskInv'
        /\ \A x \in Clients, y \in Tasks : cur'[x][y] \in {cur[x][y], None}
        /\ AskStep
    BY <1>1, <1>5, DoneTasks
  <1>7. TypeInv'
    BY <1>2, <1>4, <1>6, Assemble DEF TypeInv, Types
  <1>8. MailStep(c)
    BY <1>3, <1>6 DEF MailStep
  <1>. QED  BY <1>2, <1>6, <1>7, <1>8 DEF Step

\* decrypt_envelope takes a position of the object's chain, and the sessions go
\* to disk if the envelope was opened.
LEMMA DecryptType ==
    ASSUME TypeInv, NEW c \in Clients, NEW n \in 1 .. Len(heap[c]), NEW e \in Envelope,
           Decrypt(c, n, e), UNCHANGED slot
    PROVE  /\ TouchStep(c)
           /\ UNCHANGED disk \/ DiskStep(c)
           /\ slot[c] # 0
           /\ opened' \in [Clients -> Seq(Envelope)]
  <1>. DEFINE s == [heap[c][n] EXCEPT !.taken = @ \cup {e.index}]
  <1>. heap \in Heaps /\ heap[c] \in Seq(Session)
    BY DEF TypeInv, Types, Heaps
  <1>1. heap' = [heap EXCEPT ![c] = [heap[c] EXCEPT ![n] = s]]
    BY DEF Decrypt
  <1>2. heap[c][n] \in Session /\ e.index \in Nat
    BY ElementOfSeq DEF Envelope
  <1>3. s \in Session /\ Kept(s, heap[c][n])
    BY <1>2 DEF Session, Kept
  <1>. HIDE DEF s
  <1>4. Touched(c, n, s)
    BY <1>1 DEF Touched
  <1>5. TouchStep(c)
    BY <1>3, <1>4 DEF TouchStep
  <1>6. heap' \in Heaps /\ Len(heap'[c]) = Len(heap[c])
    BY <1>3, <1>4, TouchHeap
  <1>7. slot[c] # 0
    <2>1. heap[c] # <<>>
      BY EmptySeq
    <2>. QED  BY <2>1 DEF TypeInv, ObjectInv
  <1>8. slot[c] \in 1 .. Len(heap'[c])
    BY <1>6, <1>7, CurrentType
  <1>9. heap'[c][slot[c]] \in Session
    BY <1>6, <1>8, ElementOfSeq DEF Heaps
  <1>10. UNCHANGED disk \/ DiskStep(c)
    BY <1>9 DEF Decrypt, DiskStep, Kept
  <1>11. opened' \in [Clients -> Seq(Envelope)]
    <2>1. UNCHANGED opened \/ opened' = [opened EXCEPT ![c] = Append(opened[c], e)]
      BY DEF Decrypt
    <2>2. opened \in [Clients -> Seq(Envelope)]
      BY DEF TypeInv, Types
    <2>3. Append(opened[c], e) \in Seq(Envelope)
      BY <2>2, AppendProperties
    <2>. QED  BY <2>1, <2>2, <2>3
  <1>. QED  BY <1>5, <1>7, <1>10, <1>11

\* An envelope is opened at once.
LEMMA ReceiveType ==
    ASSUME TypeInv, NEW c \in Clients, NEW t \in Tasks, NEW e \in msgs, Receive(c, t, e)
    PROVE  TypeInv' /\ Step(c)
  <1>1. /\ slot[c] # 0
        /\ Decrypt(c, slot[c], e)
        /\ UNCHANGED <<slot, counter, stage, cur, ref, msgs, late, restarts>>
    BY DEF Receive
  <1>2. slot[c] \in 1 .. Len(heap[c]) /\ e \in Envelope
    BY <1>1, CurrentType DEF TypeInv, Types
  <1>3. /\ TouchStep(c)
        /\ UNCHANGED disk \/ DiskStep(c)
        /\ opened' \in [Clients -> Seq(Envelope)]
    BY <1>1, <1>2, DecryptType
  <1>4. heap' \in Heaps /\ \A x \in Clients : Len(heap[x]) <= Len(heap'[x])
    BY <1>3, ObjectMoves
  <1>5. /\ stage' \in [Clients -> [Tasks -> Stages]]
        /\ cur' \in [Clients -> [Tasks -> Envelope \cup {None}]]
        /\ ref' \in [Clients -> [Tasks -> Nat]]
        /\ TaskInv'
    BY <1>1, <1>4, TasksStay
  <1>6. TypeInv'
    BY <1>1, <1>3, <1>5, Assemble DEF TypeInv, Types
  <1>7. MailStep(c) /\ AskStep
    BY <1>1 DEF MailStep, AskStep
  <1>. QED  BY <1>1, <1>3, <1>6, <1>7 DEF Step

\* An envelope is opened after the key change check.
LEMMA OpenRekeyedType ==
    ASSUME TypeInv, NEW c \in Clients, OpenRekeyed(c)
    PROVE  TypeInv' /\ Step(c)
  <1>1. /\ stage[c]["ws"] = "rekey"
        /\ Decrypt(c, ref[c]["ws"], cur[c]["ws"])
        /\ Done(c, "ws")
        /\ UNCHANGED <<slot, counter, msgs, late, restarts>>
    BY DEF OpenRekeyed
  <1>. "ws" \in Tasks
    BY DEF Tasks
  <1>2. ref[c]["ws"] \in 1 .. Len(heap[c]) /\ cur[c]["ws"] \in Envelope
    BY <1>1, HeldType
  <1>3. /\ TouchStep(c)
        /\ UNCHANGED disk \/ DiskStep(c)
        /\ slot[c] # 0
        /\ opened' \in [Clients -> Seq(Envelope)]
    BY <1>1, <1>2, DecryptType
  <1>4. heap' \in Heaps /\ \A x \in Clients : Len(heap[x]) <= Len(heap'[x])
    BY <1>3, ObjectMoves
  <1>5. /\ stage' \in [Clients -> [Tasks -> Stages]]
        /\ cur' \in [Clients -> [Tasks -> Envelope \cup {None}]]
        /\ ref' \in [Clients -> [Tasks -> Nat]]
        /\ TaskInv'
        /\ \A x \in Clients, y \in Tasks : cur'[x][y] \in {cur[x][y], None}
        /\ AskStep
    BY <1>1, <1>4, DoneTasks
  <1>6. TypeInv'
    BY <1>1, <1>3, <1>5, Assemble DEF TypeInv, Types
  <1>7. MailStep(c)
    BY <1>1, <1>5 DEF MailStep
  <1>. QED  BY <1>1, <1>3, <1>5, <1>6, <1>7 DEF Step

\* A task takes an envelope from the table and awaits the sender's keys.
LEMMA TakeType ==
    ASSUME TypeInv, NEW c \in Clients, NEW t \in Tasks, NEW e \in msgs,
           ReceiveFirst(c, t, e) \/ ReceiveRekey(c, e)
    PROVE  TypeInv' /\ Step(c)
  <1>. DEFINE u == IF ReceiveFirst(c, t, e) THEN t ELSE "ws"
              st == IF ReceiveFirst(c, t, e) THEN "boot_keys" ELSE "rekey"
              r == IF ReceiveFirst(c, t, e) THEN ref[c][t] ELSE slot[c]
  <1>1. u \in Tasks /\ st \in Stages /\ e \in Envelope
    BY DEF TypeInv, Types, Tasks, Stages
  <1>2. UNCHANGED <<heap, slot, disk, counter, opened, msgs, late, restarts>>
    BY DEF ReceiveFirst, ReceiveRekey
  <1>3. /\ stage' = [stage EXCEPT ![c][u] = st]
        /\ cur' = [cur EXCEPT ![c][u] = e]
    BY DEF ReceiveFirst, ReceiveRekey
  <1>4. ref' = [ref EXCEPT ![c][u] = r]
    <2>1. CASE ReceiveFirst(c, t, e)
      <3>1. ref = [ref EXCEPT ![c][t] = ref[c][t]]
        BY DEF TypeInv, Types
      <3>. QED  BY <2>1, <3>1 DEF ReceiveFirst
    <2>2. CASE ~ ReceiveFirst(c, t, e)
      BY <2>2 DEF ReceiveRekey
    <2>. QED  BY <2>1, <2>2
  <1>5. r \in 0 .. Len(heap'[c])
    BY <1>2 DEF TypeInv, TaskInv, ObjectInv
  <1>6. /\ st \in {"posting", "posted", "rekey"} => r # 0 /\ e \in Envelope
        /\ st = "boot_keys" => e \in Envelope /\ e.eph # None /\ e.from # c
    BY <1>1 DEF ReceiveFirst, ReceiveRekey
  <1>7. st # "send_keys"
    OBVIOUS
  <1>. HIDE DEF u, st, r
  <1>8. heap' \in Heaps /\ \A x \in Clients : Len(heap[x]) <= Len(heap'[x])
    BY <1>2 DEF TypeInv, Types, Heaps
  <1>9. /\ stage' \in [Clients -> [Tasks -> Stages]]
        /\ cur' \in [Clients -> [Tasks -> Envelope \cup {None}]]
        /\ ref' \in [Clients -> [Tasks -> Nat]]
        /\ TaskInv'
    BY <1>1, <1>3, <1>4, <1>5, <1>6, <1>8, TaskMoves
  <1>10. TypeInv'
    BY <1>2, <1>9, Assemble DEF TypeInv, Types
  <1>11. \A x \in Clients, y \in Tasks : cur'[x][y] \in {cur[x][y], e}
    BY <1>1, <1>3 DEF TypeInv, Types
  <1>12. MailStep(c)
    BY <1>2, <1>11 DEF MailStep
  <1>13. \A x \in Clients : stage'[x]["ui"] # "send_keys" \/ stage'[x]["ui"] = stage[x]["ui"]
    BY <1>1, <1>3, <1>7 DEF TypeInv, Types, Tasks
  <1>14. AskStep
    BY <1>13 DEF AskStep
  <1>. QED  BY <1>2, <1>10, <1>12, <1>14 DEF Step

\* All sessions go to disk.
LEMMA PersistType ==
    ASSUME TypeInv, NEW c \in Clients, Persist(c)
    PROVE  TypeInv' /\ Step(c)
  <1>1. /\ slot[c] # 0
        /\ disk' = [disk EXCEPT ![c] = heap[c][slot[c]]]
        /\ UNCHANGED <<heap, slot, counter, stage, cur, ref, opened, msgs, late, restarts>>
    BY DEF Persist
  <1>2. heap[c][slot[c]] \in Session
    BY <1>1, CurrentType
  <1>3. DiskStep(c)
    BY <1>1, <1>2 DEF DiskStep, Kept
  <1>4. TypeInv'
    BY <1>1, <1>3, Assemble DEF TypeInv, Types, TaskInv
  <1>5. MailStep(c) /\ AskStep
    BY <1>1 DEF MailStep, AskStep
  <1>. QED  BY <1>1, <1>3, <1>4, <1>5 DEF Step

\* A responder's session.
LEMMA ResponderType ==
    ASSUME NEW e \in Envelope, e.eph # None
    PROVE  /\ Responder(e) \in Session
           /\ Responder(e).key = e.eph
           /\ ~ Responder(e).initiator
           /\ ~ Responder(e).eph
  <1>1. e.eph \in Key
    BY DEF Envelope
  <1>. QED  BY <1>1, NewSessionType DEF Responder, NewSession

\* The first envelope makes a session in the ws task.
LEMMA BootstrapLiveType ==
    ASSUME TypeInv, NEW c \in Clients, BootstrapLive(c)
    PROVE  TypeInv' /\ Step(c)
  <1>. DEFINE n == Len(heap[c]) + 1
              s == Responder(cur[c]["ws"])
  <1>1. /\ stage[c]["ws"] = "boot_keys"
        /\ heap' = [heap EXCEPT ![c] = Append(heap[c], s)]
        /\ slot' = [slot EXCEPT ![c] = n]
        /\ disk' = [disk EXCEPT ![c] = s]
        /\ stage' = [stage EXCEPT ![c]["ws"] = "rekey"]
        /\ ref' = [ref EXCEPT ![c]["ws"] = n]
        /\ UNCHANGED <<counter, cur, opened, msgs, late, restarts>>
    BY DEF BootstrapLive
  <1>. heap \in Heaps /\ Len(heap[c]) \in Nat /\ "ws" \in Tasks
    BY DEF TypeInv, Types, Heaps, Tasks
  <1>. n \in Nat /\ n # 0
    OBVIOUS
  <1>2. cur[c]["ws"] \in Envelope /\ cur[c]["ws"].eph # None
    BY <1>1 DEF TypeInv, TaskInv
  <1>3. s \in Session /\ s.key = cur[c]["ws"].eph /\ ~ s.initiator /\ ~ s.eph
    BY <1>2, ResponderType
  <1>. HIDE DEF s
  <1>4. Grown(c, s)
    BY <1>1 DEF Grown
  <1>5. heap' \in Heaps /\ heap'[c][n] = s /\ Len(heap'[c]) = n
    BY <1>3, <1>4, GrowHeap
  <1>6. slot'[c] = n /\ disk'[c] = s
    BY <1>1 DEF TypeInv, Types
  <1>7. Created(c, s)
    BY <1>1, <1>3 DEF Created
  <1>8. GrowStep(c)
    BY <1>1, <1>3, <1>4, <1>6, <1>7, HandshakeAssumption DEF GrowStep
  <1>9. DiskStep(c)
    BY <1>1, <1>3, <1>5, <1>6 DEF DiskStep, Kept
  <1>10. \A x \in Clients : Len(heap[x]) <= Len(heap'[x])
    BY <1>8, <1>9, ObjectMoves
  <1>. HIDE DEF n
  <1>11. /\ stage' \in [Clients -> [Tasks -> Stages]]
         /\ cur' \in [Clients -> [Tasks -> Envelope \cup {None}]]
         /\ ref' \in [Clients -> [Tasks -> Nat]]
         /\ TaskInv'
    <2>1. "rekey" \in Stages /\ n \in 0 .. Len(heap'[c])
      BY <1>5 DEF Stages
    <2>2. cur' = [cur EXCEPT ![c]["ws"] = cur[c]["ws"]]
      BY <1>1 DEF TypeInv, Types
    <2>. QED  BY <1>1, <1>2, <1>5, <1>10, <2>1, <2>2, TaskMoves
  <1>12. TypeInv'
    BY <1>1, <1>8, <1>9, <1>11, Assemble DEF TypeInv, Types
  <1>13. \A x \in Clients : stage'[x]["ui"] = stage[x]["ui"]
    BY <1>1 DEF TypeInv, Types, Tasks
  <1>14. MailStep(c) /\ AskStep
    BY <1>1, <1>13 DEF MailStep, AskStep
  <1>. QED  BY <1>6, <1>8, <1>9, <1>12, <1>14 DEF Step

\* The first envelope makes a session in a history sync.
LEMMA BootstrapHistoryType ==
    ASSUME TypeInv, NEW c \in Clients, BootstrapHistory(c)
    PROVE  TypeInv' /\ Step(c)
  <1>. DEFINE n == Len(heap[c]) + 1
              e == cur[c]["ui"]
              o == Responder(e)
              s == IF Opens(o, e) THEN [o EXCEPT !.taken = {e.index}] ELSE o
  <1>1. /\ stage[c]["ui"] = "boot_keys"
        /\ heap' = [heap EXCEPT ![c] = Append(heap[c], s)]
        /\ slot' = [slot EXCEPT ![c] = n]
        /\ disk' = [disk EXCEPT ![c] = s]
        /\ opened' = IF Opens(o, e) THEN [opened EXCEPT ![c] = Append(opened[c], e)]
                     ELSE opened
        /\ Done(c, "ui")
        /\ UNCHANGED <<counter, msgs, late, restarts>>
    BY DEF BootstrapHistory
  <1>. heap \in Heaps /\ Len(heap[c]) \in Nat /\ "ui" \in Tasks
    BY DEF TypeInv, Types, Heaps, Tasks
  <1>. n \in Nat /\ n # 0
    OBVIOUS
  <1>2. e \in Envelope /\ e.eph # None
    BY <1>1 DEF TypeInv, TaskInv
  <1>3. o \in Session /\ o.key = e.eph /\ ~ o.initiator /\ ~ o.eph
    BY <1>2, ResponderType
  <1>4. s \in Session /\ s.key = e.eph /\ ~ s.initiator /\ ~ s.eph
    <2>. HIDE DEF o
    <2>1. e.index \in Nat
      BY <1>2 DEF Envelope
    <2>. QED  BY <1>3, <2>1 DEF Session
  <1>5. opened' \in [Clients -> Seq(Envelope)]
    <2>1. opened \in [Clients -> Seq(Envelope)]
      BY DEF TypeInv, Types
    <2>2. Append(opened[c], e) \in Seq(Envelope)
      BY <1>2, <2>1, AppendProperties
    <2>3. UNCHANGED opened \/ opened' = [opened EXCEPT ![c] = Append(opened[c], e)]
      BY <1>1
    <2>. QED  BY <2>1, <2>2, <2>3
  <1>. HIDE DEF s, o
  <1>6. Grown(c, s)
    BY <1>1 DEF Grown
  <1>7. heap' \in Heaps /\ heap'[c][n] = s /\ Len(heap'[c]) = n
    BY <1>4, <1>6, GrowHeap
  <1>8. slot'[c] = n /\ disk'[c] = s
    BY <1>1 DEF TypeInv, Types
  <1>9. Created(c, s)
    BY <1>1, <1>4 DEF Created
  <1>10. GrowStep(c)
    BY <1>1, <1>4, <1>6, <1>8, <1>9, HandshakeAssumption DEF GrowStep
  <1>11. DiskStep(c)
    BY <1>1, <1>4, <1>7, <1>8 DEF DiskStep, Kept
  <1>12. \A x \in Clients : Len(heap[x]) <= Len(heap'[x])
    BY <1>10, <1>11, ObjectMoves
  <1>13. /\ stage' \in [Clients -> [Tasks -> Stages]]
         /\ cur' \in [Clients -> [Tasks -> Envelope \cup {None}]]
         /\ ref' \in [Clients -> [Tasks -> Nat]]
         /\ TaskInv'
         /\ \A x \in Clients, y \in Tasks : cur'[x][y] \in {cur[x][y], None}
         /\ AskStep
    BY <1>1, <1>7, <1>12, DoneTasks
  <1>14. TypeInv'
    BY <1>1, <1>5, <1>10, <1>11, <1>13, Assemble DEF TypeInv, Types
  <1>15. MailStep(c)
    BY <1>1, <1>13 DEF MailStep
  <1>. QED  BY <1>8, <1>10, <1>11, <1>13, <1>14, <1>15 DEF Step

\* The process starts again with what is on disk.
LEMMA RestartType ==
    ASSUME TypeInv, NEW c \in Clients, Restart(c)
    PROVE  TypeInv' /\ Step(c)
  <1>1. /\ stage' = [stage EXCEPT ![c] = [t \in Tasks |-> "idle"]]
        /\ cur' = [cur EXCEPT ![c] = [t \in Tasks |-> None]]
        /\ ref' = [ref EXCEPT ![c] = [t \in Tasks |-> 0]]
        /\ restarts < MaxRestarts
        /\ restarts' = restarts + 1
        /\ GiveUp(c)
        /\ UNCHANGED <<disk, opened, msgs>>
    BY DEF Restart
  <1>. heap \in Heaps /\ Len(heap[c]) \in Nat
    BY DEF TypeInv, Types, Heaps
  <1>2. restarts' \in 0 .. MaxRestarts
    BY <1>1, HandshakeAssumption DEF TypeInv, Types
  <1>3. stage'[c]["ui"] = "idle"
    BY <1>1 DEF TypeInv, Types, Tasks
  <1>4. (UNCHANGED <<heap, slot>> \/ GrowStep(c)) /\ counter' \in [Clients -> Nat \cup {None}]
    <2>1. CASE disk[c] = None
      <3>1. /\ slot' = [slot EXCEPT ![c] = 0]
            /\ counter' = [counter EXCEPT ![c] = None]
            /\ UNCHANGED heap
        BY <2>1 DEF Restart
      <3>2. slot[c] = 0
        BY <2>1 DEF TypeInv, ObjectInv
      <3>3. slot' = slot
        BY <3>1, <3>2 DEF TypeInv, Types
      <3>. QED  BY <3>1, <3>3 DEF TypeInv, Types
    <2>2. CASE disk[c] # None
      <3>. DEFINE s == [disk[c] EXCEPT !.eph = FALSE]
      <3>1. /\ heap' = [heap EXCEPT ![c] = Append(heap[c], s)]
            /\ slot' = [slot EXCEPT ![c] = Len(heap[c]) + 1]
            /\ counter' = [counter EXCEPT ![c] = disk[c].next]
        BY <2>2 DEF Restart
      <3>2. disk[c] \in Session
        BY <2>2 DEF TypeInv, Types
      <3>3. /\ s \in Session
            /\ s.key = disk[c].key
            /\ s.initiator = disk[c].initiator
            /\ ~ s.eph
            /\ disk[c].next \in Nat
        BY <3>2 DEF Session
      <3>. HIDE DEF s
      <3>4. Created(c, s)
        BY <1>3, <2>2, <3>3 DEF Created
      <3>5. Grown(c, s)
        BY <3>1 DEF Grown
      <3>6. GrowStep(c)
        BY <1>1, <2>2, <3>1, <3>3, <3>4, <3>5 DEF GrowStep
      <3>. QED  BY <3>1, <3>3, <3>6 DEF TypeInv, Types
    <2>. QED  BY <2>1, <2>2
  <1>5. heap' \in Heaps /\ \A x \in Clients : Len(heap[x]) <= Len(heap'[x])
    BY <1>1, <1>4, ObjectMoves
  <1>6. /\ stage' \in [Clients -> [Tasks -> Stages]]
        /\ cur' \in [Clients -> [Tasks -> Envelope \cup {None}]]
        /\ ref' \in [Clients -> [Tasks -> Nat]]
    BY <1>1 DEF TypeInv, Types, Stages
  <1>7. \A x \in Clients, t \in Tasks :
           \/ x = c /\ stage'[x][t] = "idle" /\ cur'[x][t] = None /\ ref'[x][t] = 0
           \/ /\ stage'[x][t] = stage[x][t]
              /\ cur'[x][t] = cur[x][t]
              /\ ref'[x][t] = ref[x][t]
    BY <1>1 DEF TypeInv, Types
  <1>8. TaskInv'
    <2>1. \A x \in Clients : Len(heap[x]) \in Nat /\ Len(heap'[x]) \in Nat
      BY <1>5 DEF Heaps
    <2>. QED  BY <1>5, <1>7, <2>1 DEF TypeInv, TaskInv
  <1>9. TypeInv'
    <2>1. stage[c]["ui"] = "posting" => cur[c]["ui"] \in Envelope
      BY DEF TypeInv, TaskInv, Tasks
    <2>2. late' \in SUBSET Envelope
      BY <1>1, <2>1 DEF GiveUp, TypeInv, Types
    <2>. QED  BY <1>1, <1>2, <1>4, <1>6, <1>8, <2>2, Assemble DEF TypeInv, Types
  <1>10. MailStep(c)
    BY <1>1, <1>7 DEF MailStep, GiveUp
  <1>11. AskStep
    BY <1>7 DEF AskStep, Tasks
  <1>. QED  BY <1>1, <1>4, <1>9, <1>10, <1>11 DEF Step

\* Every step of a client is of this kind, and keeps the types.
LEMMA ClientStep ==
    ASSUME TypeInv, NEW c \in Clients, ClientNext(c)
    PROVE  TypeInv' /\ Step(c)
  BY AskType, EnsureType, SendType, StorePostType, PostSucceedsType, FailType, ReceiveType,
     OpenRekeyedType, TakeType, PersistType, BootstrapLiveType, BootstrapHistoryType,
     RestartType
  DEF ClientNext, Tasks

\* There is a client.
LEMMA SomeClient == Clients # {}
  <1>1. Cardinality(Clients) = 2 /\ Cardinality({}) = 0
    BY HandshakeAssumption, FS_EmptySet
  <1>. QED  BY <1>1

\* Every step is of this kind.
LEMMA NextStep ==
    ASSUME TypeInv, Next
    PROVE  TypeInv' /\ \E c \in Clients : Step(c)
  <1>1. CASE \E c \in Clients : ClientNext(c)
    BY <1>1, ClientStep
  <1>2. CASE \E e \in late : StoreLate(e)
    <2>1. PICK c \in Clients : TRUE
      BY SomeClient
    <2>. QED  BY <1>2, <2>1, StoreLateType
  <1>. QED  BY <1>1, <1>2 DEF Next

\* A step that changes nothing keeps the types.
LEMMA TypeStutter == TypeInv /\ UNCHANGED vars => TypeInv'
  BY DEF TypeInv, Types, ObjectInv, TaskInv, vars, clientVars

\* Every step keeps the types.
LEMMA TypeNext == TypeInv /\ [Next]_vars => TypeInv'
  BY NextStep, TypeStutter

\* The types hold in every state.
LEMMA TypeAlways == Spec => []TypeInv
  BY TypeInit, TypeNext, PTL DEF Spec

\* Sessions, envelopes and tasks keep their types for any number of messages,
\* sessions and restarts, and a task that holds a SessionState object across an
\* await holds one that exists.
THEOREM TypeCorrect == Spec => []TypeOK
  <1>1. TypeInv => TypeOK
    BY DEF TypeInv, Types, ObjectInv, TaskInv, TypeOK, Heaps, Stages
  <1>. QED  BY <1>1, TypeAlways, PTL

-----------------------------------------------------------------------------
(* Agreement of the two sessions *)

\* The key k belongs to an object of the client that derived it as initiator.
Made(k) == \E n \in 1 .. Len(heap[k[1]]) : heap[k[1]][n].key = k

\* A session is an initiator's exactly if the key is the client's own, only
\* an initiator's has key material, and the key was derived by its initiator.
Role(c, s) ==
    /\ s.initiator <=> s.key[1] = c
    /\ s.eph => s.initiator
    /\ Made(s.key)

\* Key material in an envelope is that of a session its sender initiated.
Carries(e) == e.eph # None => e.eph[1] = e.from /\ Made(e.eph)

\* All sessions, in memory and on disk, and all envelopes are of this kind.
KeyInv ==
    /\ \A c \in Clients : \A n \in 1 .. Len(heap[c]) : Role(c, heap[c][n])
    /\ \A c \in Clients : disk[c] # None => Role(c, disk[c])
    /\ \A e \in msgs \cup late : Carries(e)
    /\ \A c \in Clients, t \in Tasks : cur[c][t] # None => Carries(cur[c][t])

\* As long as the peer has initiated nothing, a client derives one key of its
\* own at most: it asks for keys to send only while it never had a session.
OneInv ==
    \A c, d \in Clients :
        c # d /\ ~ Initiated(d) =>
            /\ \A n \in 1 .. Len(heap[c]) :
                  heap[c][n].key[1] = c => heap[c][n].key = <<c, 1>>
            /\ stage[c]["ui"] = "send_keys" => heap[c] = <<>>

\* There is nobody besides two different clients.
LEMMA TwoClients ==
    ASSUME NEW c \in Clients, NEW d \in Clients, c # d, NEW x \in Clients
    PROVE  x = c \/ x = d
  <1>. DEFINE S == Clients \ {c}
              T == S \ {d}
  <1>1. IsFiniteSet(Clients) /\ Cardinality(Clients) = 2
    BY HandshakeAssumption
  <1>2. IsFiniteSet(S) /\ Cardinality(S) = 1
    BY <1>1, FS_RemoveElement
  <1>3. IsFiniteSet(T) /\ Cardinality(T) = 0
    <2>1. d \in S
      OBVIOUS
    <2>. HIDE DEF S
    <2>. QED  BY <1>2, <2>1, FS_RemoveElement
  <1>4. T = {}
    <2>. HIDE DEF T
    <2>. QED  BY <1>3, FS_EmptySet
  <1>. QED  BY <1>4

\* Objects keep key, role and key material; a step adds one object at most.
LEMMA Objects ==
    ASSUME TypeInv, NEW c \in Clients, Step(c)
    PROVE  /\ \A x \in Clients : \A m \in 1 .. Len(heap[x]) :
                 m \in 1 .. Len(heap'[x]) /\ Kept(heap'[x][m], heap[x][m])
           /\ \A x \in Clients : \A m \in 1 .. Len(heap'[x]) :
                 \/ m \in 1 .. Len(heap[x])
                 \/ x = c /\ m = Len(heap[c]) + 1 /\ Created(c, heap'[c][m])
  <1>. heap \in Heaps /\ \A x \in Clients : Len(heap[x]) \in Nat
    BY DEF TypeInv, Types, Heaps
  <1>1. CASE UNCHANGED <<heap, slot>>
    BY <1>1 DEF Kept
  <1>2. CASE TouchStep(c)
    <2>1. PICK n \in 1 .. Len(heap[c]), s \in Session :
             Touched(c, n, s) /\ Kept(s, heap[c][n])
      BY <1>2 DEF TouchStep
    <2>2. /\ \A x \in Clients : Len(heap'[x]) = Len(heap[x])
          /\ heap'[c][n] = s
          /\ \A x \in Clients : \A m \in 1 .. Len(heap[x]) :
                x # c \/ m # n => heap'[x][m] = heap[x][m]
      <3>1. Touched(c, n, s)
        BY <2>1
      <3>. QED  BY <3>1, TouchHeap
    <2>. QED  BY <2>1, <2>2 DEF Kept
  <1>3. CASE GrowStep(c)
    <2>1. PICK s \in Session : Grown(c, s) /\ Created(c, s)
      BY <1>3 DEF GrowStep
    <2>2. /\ Len(heap'[c]) = Len(heap[c]) + 1
          /\ \A x \in Clients \ {c} : heap'[x] = heap[x]
          /\ heap'[c][Len(heap[c]) + 1] = s
          /\ \A m \in 1 .. Len(heap[c]) : heap'[c][m] = heap[c][m]
      <3>1. Grown(c, s)
        BY <2>1
      <3>2. heap'[c][Len(heap[c]) + 1] = s
        BY <3>1, GrowHeap
      <3>3. \A m \in 1 .. Len(heap[c]) : heap'[c][m] = heap[c][m]
        BY <3>1, GrowHeap
      <3>4. /\ Len(heap'[c]) = Len(heap[c]) + 1
            /\ \A x \in Clients \ {c} : heap'[x] = heap[x]
        BY <3>1, GrowHeap
      <3>. QED  BY <3>2, <3>3, <3>4
    <2>3. ASSUME NEW x \in Clients, NEW m \in 1 .. Len(heap[x])
          PROVE  m \in 1 .. Len(heap'[x]) /\ Kept(heap'[x][m], heap[x][m])
      BY <2>2 DEF Kept
    <2>4. ASSUME NEW x \in Clients, NEW m \in 1 .. Len(heap'[x])
          PROVE  \/ m \in 1 .. Len(heap[x])
                 \/ x = c /\ m = Len(heap[c]) + 1 /\ Created(c, heap'[c][m])
      <3>1. CASE x = c /\ m \notin 1 .. Len(heap[c])
        BY <3>1, <2>1, <2>2
      <3>2. CASE x # c
        BY <3>2, <2>2
      <3>. QED  BY <3>1, <3>2
    <2>. QED  BY <2>3, <2>4
  <1>. QED  BY <1>1, <1>2, <1>3 DEF Step

\* A key once derived stays with its object.
LEMMA MadeStays ==
    ASSUME TypeInv, NEW c \in Clients, Step(c), NEW k \in Key, Made(k)
    PROVE  Made(k)'
  <1>1. k[1] \in Clients
    BY DEF Key
  <1>. QED  BY <1>1, Objects DEF Made, Kept

\* A client that has initiated has done so for good.
LEMMA InitiatedStays ==
    ASSUME TypeInv, NEW c \in Clients, Step(c), NEW d \in Clients, Initiated(d)
    PROVE  Initiated(d)'
  BY Objects DEF Initiated, Kept

\* The initial state has no sessions and no envelopes.
LEMMA KeyInit == Init => KeyInv /\ OneInv
  <1> SUFFICES ASSUME Init PROVE KeyInv /\ OneInv
    OBVIOUS
  <1>1. \A c \in Clients : heap[c] = <<>> /\ Len(heap[c]) = 0
    BY DEF Init
  <1>. QED  BY <1>1 DEF Init, KeyInv, OneInv

\* What a client creates has the role that its key gives it.
LEMMA RoleCreated ==
    ASSUME TypeInv, KeyInv, NEW c \in Clients, Step(c),
           NEW m \in 1 .. Len(heap'[c]), heap' \in Heaps,
           m = Len(heap[c]) + 1, NEW s, s = heap'[c][m], Created(c, s)
    PROVE  Role(c, s)'
  <1>1. s \in Session
    BY ElementOfSeq DEF Heaps
  <1>2. s.key \in Key
    BY <1>1 DEF Session
  <1>3. s.initiator \in BOOLEAN /\ s.eph \in BOOLEAN
    BY <1>1 DEF Session
  <1>4. CASE s.key = <<c, Len(heap[c]) + 1>> /\ s.initiator
    <2>1. s.key[1] = c
      BY <1>4
    <2>2. Made(s.key)'
      BY <2>1 DEF Made
    <2>. QED  BY <1>4, <2>1, <2>2 DEF Role
  <1>5. ASSUME NEW t \in Tasks, stage[c][t] = "boot_keys", s.key = cur[c][t].eph,
               ~ s.initiator, ~ s.eph
        PROVE  Role(c, s)'
    <2>1. cur[c][t] \in Envelope /\ cur[c][t].eph # None /\ cur[c][t].from # c
      BY <1>5 DEF TypeInv, TaskInv
    <2>2. cur[c][t] # None
      BY <2>1, HandshakeAssumption
    <2>3. Carries(cur[c][t])
      BY <2>2 DEF KeyInv
    <2>4. s.key[1] # c /\ Made(s.key)
      BY <1>5, <2>1, <2>3 DEF Carries
    <2>5. Made(s.key)'
      BY <1>2, <2>4, MadeStays
    <2>. QED  BY <1>5, <2>4, <2>5 DEF Role
  <1>6. CASE /\ disk[c] # None
             /\ s.key = disk[c].key
             /\ s.initiator = disk[c].initiator
             /\ ~ s.eph
    <2>1. Role(c, disk[c])
      BY <1>6 DEF KeyInv
    <2>2. Made(s.key)
      BY <1>6, <2>1 DEF Role
    <2>3. Made(s.key)'
      BY <1>2, <2>2, MadeStays
    <2>. QED  BY <1>6, <2>1, <2>3 DEF Role
  <1>. QED  BY <1>4, <1>5, <1>6 DEF Created

\* Every step keeps roles and key material in order.
LEMMA KeyStep ==
    ASSUME TypeInv, TypeInv', KeyInv, NEW c \in Clients, Step(c)
    PROVE  KeyInv'
  <1>. heap' \in Heaps /\ \A x \in Clients : Len(heap'[x]) \in Nat
    BY DEF TypeInv, Types, Heaps
  <1>1. ASSUME NEW x \in Clients, NEW m \in 1 .. Len(heap'[x]), NEW s, s = heap'[x][m]
        PROVE  Role(x, s)'
    <2>1. CASE m \in 1 .. Len(heap[x])
      <3>1. Role(x, heap[x][m])
        BY <2>1 DEF KeyInv
      <3>2. Kept(s, heap[x][m])
        BY <1>1, <2>1, Objects
      <3>3. Made(s.key)
        BY <3>1, <3>2 DEF Role, Kept
      <3>4. s.key \in Key
        <4>1. heap'[x] \in Seq(Session)
          BY DEF Heaps
        <4>2. s \in Session
          BY <1>1, <4>1, ElementOfSeq
        <4>. QED  BY <4>2 DEF Session
      <3>5. Made(s.key)'
        BY <3>3, <3>4, MadeStays
      <3>. QED  BY <3>1, <3>2, <3>5 DEF Role, Kept
    <2>2. CASE m \notin 1 .. Len(heap[x])
      <3>1. x = c /\ m = Len(heap[c]) + 1 /\ Created(c, s)
        BY <1>1, <2>2, Objects
      <3>. QED  BY <1>1, <3>1, RoleCreated
    <2>. QED  BY <2>1, <2>2
  <1>2. ASSUME NEW x \in Clients, NEW s, s = disk'[x], s # None
        PROVE  Role(x, s)'
    <2>1. CASE disk'[x] = disk[x]
      <3>1. Role(x, s)
        BY <1>2, <2>1 DEF KeyInv
      <3>2. s.key \in Key
        BY <1>2 DEF TypeInv, Types, Session
      <3>3. Made(s.key)'
        BY <3>1, <3>2, MadeStays DEF Role
      <3>. QED  BY <3>1, <3>3 DEF Role
    <2>2. CASE disk'[x] # disk[x]
      <3>1. DiskStep(c) /\ slot'[c] # 0
        BY <2>2 DEF Step
      <3>2. x = c /\ Kept(s, heap'[c][slot'[c]])
        BY <1>2, <2>2, <3>1 DEF DiskStep, TypeInv, Types
      <3>3. slot'[c] \in 1 .. Len(heap'[c])
        BY <3>1 DEF TypeInv, ObjectInv
      <3>4. PICK o : o = heap'[c][slot'[c]]
        OBVIOUS
      <3>5. Role(c, o)'
        BY <1>1, <3>3, <3>4
      <3>. QED  BY <3>2, <3>4, <3>5 DEF Role, Kept
    <2>. QED  BY <2>1, <2>2
  <1>3. ASSUME NEW e \in Envelope, Carries(e)
        PROVE  Carries(e)'
    <2>1. e.eph # None => e.eph \in Key
      BY DEF Envelope
    <2>. QED  BY <1>3, <2>1, MadeStays DEF Carries
  <1>4. ASSUME NEW e \in msgs' \cup late' PROVE Carries(e)'
    <2>1. e \in msgs \cup late \/ (stage[c]["ui"] = "posting" /\ e = cur[c]["ui"])
      BY <1>4 DEF Step, MailStep
    <2>2. e \in Envelope
      BY <1>4 DEF TypeInv, Types
    <2>3. e # None
      BY <2>2, HandshakeAssumption
    <2>4. Carries(e)
      BY <2>1, <2>3 DEF KeyInv, Tasks
    <2>. QED  BY <1>3, <2>2, <2>4
  <1>5. ASSUME NEW x \in Clients, NEW t \in Tasks, NEW e, e = cur'[x][t], e # None
        PROVE  Carries(e)'
    <2>1. e \in Envelope
      BY <1>5 DEF TypeInv, Types
    <2>2. CASE e \in msgs \cup {cur[x][t], None}
      <3>1. Carries(e)
        BY <1>5, <2>2 DEF KeyInv
      <3>. QED  BY <1>3, <2>1, <3>1
    <2>3. CASE e \notin msgs \cup {cur[x][t], None}
      <3>1. /\ e.from = c
            /\ \/ e.eph = None
               \/ /\ slot'[c] # 0
                  /\ heap'[c][slot'[c]].eph
                  /\ e.eph = heap'[c][slot'[c]].key
        BY <1>5, <2>3 DEF Step, MailStep
      <3>2. CASE e.eph = None
        BY <3>2 DEF Carries
      <3>3. CASE e.eph # None
        <4>1. slot'[c] \in 1 .. Len(heap'[c])
          BY <3>1, <3>3 DEF TypeInv, ObjectInv
        <4>2. PICK o : o = heap'[c][slot'[c]]
          OBVIOUS
        <4>3. Role(c, o)'
          BY <1>1, <4>1, <4>2
        <4>4. o.eph /\ e.eph = o.key
          BY <3>1, <3>3, <4>2
        <4>. QED  BY <3>1, <4>3, <4>4 DEF Role, Carries
      <3>. QED  BY <3>2, <3>3
    <2>. QED  BY <2>2, <2>3
  <1>. QED  BY <1>1, <1>2, <1>4, <1>5 DEF KeyInv

\* A session whose key is the peer's shows that the peer has initiated.
LEMMA PeerInitiated ==
    ASSUME KeyInv, NEW c \in Clients, NEW d \in Clients, c # d, ~ Initiated(d),
           NEW s, Role(c, s), s.key \in Key
    PROVE  s.key[1] = c /\ s.initiator
  <1>1. s.key[1] \in Clients
    BY DEF Key
  <1>2. s.key[1] # d
    BY DEF Role, Made, Initiated
  <1>3. s.key[1] = c
    BY <1>1, <1>2, TwoClients
  <1>. QED  BY <1>3 DEF Role

\* Every step leaves a client with one key of its own at most.
LEMMA OneStep ==
    ASSUME TypeInv, TypeInv', KeyInv, OneInv, NEW c \in Clients, Step(c)
    PROVE  OneInv'
  <1> SUFFICES ASSUME NEW x \in Clients, NEW d \in Clients, x # d, ~ Initiated(d)'
               PROVE  /\ \A n \in 1 .. Len(heap'[x]) :
                            heap'[x][n].key[1] = x => heap'[x][n].key = <<x, 1>>
                      /\ stage'[x]["ui"] = "send_keys" => heap'[x] = <<>>
    BY DEF OneInv
  <1>. heap \in Heaps /\ heap' \in Heaps
    BY DEF TypeInv, Types
  <1>. heap[x] \in Seq(Session) /\ Len(heap[x]) \in Nat
    BY DEF Heaps
  <1>. heap'[x] \in Seq(Session) /\ Len(heap'[x]) \in Nat
    BY DEF Heaps
  <1>1. ~ Initiated(d)
    BY InitiatedStays
  <1>2. /\ \A n \in 1 .. Len(heap[x]) : heap[x][n].key[1] = x => heap[x][n].key = <<x, 1>>
        /\ stage[x]["ui"] = "send_keys" => heap[x] = <<>>
    BY <1>1 DEF OneInv
  <1>3. ASSUME NEW e, Carries(e), e.eph # None PROVE e.from # d
    BY <1>1, <1>3 DEF Carries, Made, Initiated
  \* What is created here is the first session, or one read from disk.
  <1>4. ASSUME NEW s, x = c, Created(c, s)
        PROVE  /\ s.key[1] = x => s.key = <<x, 1>>
               /\ stage'[x]["ui"] # "send_keys"
    <2>1. CASE stage[c]["ui"] = "send_keys" /\ s.key = <<c, Len(heap[c]) + 1>>
               /\ stage'[c]["ui"] # "send_keys"
      <3>1. heap[c] = <<>>
        BY <1>2, <1>4, <2>1
      <3>2. Len(heap[c]) = 0
        BY <3>1, EmptySeq
      <3>. QED  BY <1>4, <2>1, <3>2
    <2>2. ASSUME NEW t \in Tasks, stage[c][t] = "boot_keys" PROVE FALSE
      <3>1. cur[c][t] \in Envelope /\ cur[c][t].eph # None /\ cur[c][t].from # c
        BY <2>2 DEF TypeInv, TaskInv
      <3>2. cur[c][t].eph \in Key /\ cur[c][t].from \in Clients /\ cur[c][t] # None
        BY <3>1, HandshakeAssumption DEF Envelope
      <3>3. Carries(cur[c][t])
        BY <3>2 DEF KeyInv
      <3>4. cur[c][t].from # d
        BY <1>3, <3>1, <3>2, <3>3
      <3>. QED  BY <1>4, <3>1, <3>2, <3>4, TwoClients
    <2>3. CASE disk[c] # None /\ s.key = disk[c].key /\ stage'[c]["ui"] # "send_keys"
      <3>1. Role(c, disk[c]) /\ disk[c].key \in Key
        BY <2>3 DEF KeyInv, TypeInv, Types, Session
      <3>2. s.key[1] = c /\ Made(s.key)
        BY <1>1, <1>4, <2>3, <3>1, PeerInitiated DEF Role
      <3>3. PICK m \in 1 .. Len(heap[c]) : heap[c][m].key = s.key
        BY <3>2 DEF Made
      <3>4. s.key = <<x, 1>>
        BY <1>2, <1>4, <3>2, <3>3
      <3>. QED  BY <1>4, <2>3, <3>4
    <2>. QED  BY <1>4, <2>1, <2>2, <2>3 DEF Created
  <1>5. ASSUME NEW n \in 1 .. Len(heap'[x]), heap'[x][n].key[1] = x
        PROVE  heap'[x][n].key = <<x, 1>>
    <2>1. CASE n \in 1 .. Len(heap[x])
      <3>1. heap'[x][n].key = heap[x][n].key
        BY <2>1, Objects DEF Kept
      <3>. QED  BY <1>2, <1>5, <2>1, <3>1
    <2>2. CASE n \notin 1 .. Len(heap[x])
      <3>1. x = c /\ Created(c, heap'[x][n])
        BY <2>2, Objects
      <3>. QED  BY <1>4, <1>5, <3>1
    <2>. QED  BY <2>1, <2>2
  <1>6. ASSUME stage'[x]["ui"] = "send_keys" PROVE heap'[x] = <<>>
    <2>1. stage[x]["ui"] = "send_keys" \/ slot[x] = 0
      BY <1>6 DEF Step, AskStep
    <2>2. heap[x] = <<>>
      BY <1>2, <2>1 DEF TypeInv, ObjectInv
    <2>3. Len(heap[x]) = 0
      BY <2>2, EmptySeq
    <2>4. ASSUME heap'[x] # <<>> PROVE FALSE
      <3>1. 1 \in 1 .. Len(heap'[x])
        BY <2>4, EmptySeq
      <3>2. 1 \notin 1 .. Len(heap[x])
        BY <2>3
      <3>3. x = c /\ Created(c, heap'[x][1])
        BY <3>1, <3>2, Objects
      <3>. QED  BY <1>4, <1>6, <3>3
    <2>. QED  BY <2>4
  <1>. QED  BY <1>5, <1>6

\* A step that changes nothing keeps keys and roles.
LEMMA KeyStutter == KeyInv /\ OneInv /\ UNCHANGED vars => KeyInv' /\ OneInv'
  BY DEF KeyInv, OneInv, Role, Carries, Made, Initiated, vars, clientVars

\* Every step keeps keys and roles.
LEMMA KeyNext == TypeInv /\ KeyInv /\ OneInv /\ [Next]_vars => KeyInv' /\ OneInv'
  BY NextStep, KeyStep, OneStep, KeyStutter

\* The conjunction of the three parts is an invariant.
LEMMA KeyAlways == Spec => [](TypeInv /\ KeyInv /\ OneInv)
  BY TypeInit, TypeNext, KeyInit, KeyNext, PTL DEF Spec

\* With d's sessions all made from c's first key, the two agree.
LEMMA OneSided ==
    ASSUME TypeInv, KeyInv, OneInv, NEW c \in Clients, NEW d \in Clients, c # d,
           slot[c] # 0, slot[d] # 0, ~ Initiated(d)
    PROVE  /\ Current(c).key = <<c, 1>> /\ Current(c).initiator
           /\ Current(d).key = <<c, 1>> /\ ~ Current(d).initiator
  <1>1. /\ slot[c] \in 1 .. Len(heap[c]) /\ Current(c) \in Session
        /\ slot[d] \in 1 .. Len(heap[d]) /\ Current(d) \in Session
    BY CurrentType DEF Current
  <1>2. Role(c, Current(c)) /\ Role(d, Current(d))
    BY <1>1 DEF KeyInv, Current
  <1>3. Current(c).key \in Key /\ Current(d).key \in Key
    BY <1>1 DEF Session
  <1>4. Current(c).key[1] = c /\ Current(c).initiator
    BY <1>2, <1>3, PeerInitiated
  <1>5. Current(c).key = <<c, 1>>
    BY <1>1, <1>4 DEF OneInv, Current
  <1>6. Current(d).key[1] # d
    BY <1>1 DEF Initiated, Current
  <1>7. Current(d).key[1] = c
    BY <1>3, <1>6, TwoClients DEF Key
  <1>8. PICK n \in 1 .. Len(heap[c]) : heap[c][n].key = Current(d).key
    BY <1>2, <1>7 DEF Role, Made
  <1>9. Current(d).key = <<c, 1>>
    BY <1>7, <1>8 DEF OneInv
  <1>. QED  BY <1>2, <1>4, <1>5, <1>6, <1>9 DEF Role

\* Two sessions agree for any number of messages, sessions and restarts,
\* whatever the other task of ensure_session or of a bootstrap overwrites, unless
\* both clients derived a key of their own.
THEOREM SessionsAgreeAlways == Spec => []SessionsAgree
  <1>1. TypeInv /\ KeyInv /\ OneInv => SessionsAgree
    BY OneSided DEF SessionsAgree, Agree
  <1>. QED  BY <1>1, KeyAlways, PTL
=============================================================================
