--------------------------- MODULE AccessProofs ----------------------------
(***************************************************************************)
(* Proofs about module Access, for any devices, any number of handlers and *)
(* any bounds on registrations and logins, and about module RateLimit, for *)
(* any number of handlers, any limit and any length of the window.         *)
(***************************************************************************)
EXTENDS Access, RateLimit, FiniteSetTheorems, SequenceTheorems, TLAPS

-----------------------------------------------------------------------------
(* Calls and their answers *)

Session == [expired : BOOLEAN, revoked : BOOLEAN]

\* The types of the variables that TypeOK leaves open.
MoreTypes ==
    /\ req \in [Handlers -> [dev : Devices \cup {None}, id : Nat]]
    /\ reply \in [Devices -> Nat \cup {None}]
    /\ socket \in [Devices -> BOOLEAN]
    /\ made \in 0 .. MaxKeys

\* What the device of a call is doing when its answer can still reach it.
Awaited(h) ==
    /\ handler[h] \in {"register", "insert"} => client[req[h].dev] = "registering"
    /\ handler[h] = "login" => client[req[h].dev] = "logging_in"
    /\ handler[h] = "revoke" => client[req[h].dev] = "leaving"

\* The requests the handlers work on.  An answer finds its device in the state
\* it sent the request in, with no other answer there, or the device has given
\* up and does not wait for this handler.
RequestInv ==
    \A h \in Handlers :
        /\ handler[h] # "idle" => req[h].dev \in Devices
        /\ handler[h] # "idle" /\ call[req[h].dev] = h
             => reply[req[h].dev] = None /\ Awaited(h)
        /\ handler[h] \in {"register", "insert"} => req[h].id \in 1 .. MaxKeys
        /\ handler[h] = "revoke" => req[h].id \in 1 .. Len(sessions)

\* The answers that have arrived: a device that is not waiting has none, a
\* success of register is the account, a success of login is a session.
AnswerInv ==
    \A d \in Devices :
        /\ client[d] \in {"out", "starting", "in"} => call[d] = None /\ reply[d] = None
        /\ client[d] = "registering" /\ Success(reply[d]) => reply[d] = account
        /\ client[d] = "logging_in" /\ Success(reply[d]) => reply[d] \in 1 .. Len(sessions)

\* What makes TypeOK inductive.
CallInv == TypeOK /\ MoreTypes /\ RequestInv /\ AnswerInv

\* Nothing is registered, no handler runs, every device is logged out.
LEMMA CallInit == Init => CallInv
<1> SUFFICES ASSUME Init PROVE CallInv
  OBVIOUS
<1> USE AccessAssumption
<1>1. MoreTypes
  BY DEF Init, MoreTypes, NoRequest
<1>2. RequestInv /\ AnswerInv
  BY DEF Init, RequestInv, AnswerInv, Success
<1>3. TypeOK
  BY DEF Init, TypeOK, NoRequest
<1> QED
  BY <1>1, <1>2, <1>3 DEF CallInv

\* A session table with one row changed.
LEMMA SessionChanged ==
    ASSUME sessions \in Seq(Session), NEW s \in 1 .. Len(sessions),
           \/ sessions' = [sessions EXCEPT ![s].revoked = TRUE]
           \/ sessions' = [sessions EXCEPT ![s].expired = TRUE]
    PROVE  /\ sessions' \in Seq(Session)
           /\ Len(sessions') = Len(sessions)
           /\ \A i \in 1 .. Len(sessions) : i # s => sessions'[i] = sessions[i]
           /\ sessions' = [sessions EXCEPT ![s].expired = TRUE]
              => sessions'[s].revoked = sessions[s].revoked
<1>1. sessions[s] \in Session /\ DOMAIN sessions = 1 .. Len(sessions)
  BY ElementOfSeq, LenProperties
<1>2. CASE sessions' = [sessions EXCEPT ![s].revoked = TRUE]
  <2> DEFINE r == [sessions[s] EXCEPT !.revoked = TRUE]
  <2>1. r \in Session
    BY <1>1 DEF Session
  <2>2. sessions' = [sessions EXCEPT ![s] = r]
    BY <1>1, <1>2
  <2> HIDE DEF r
  <2>3. /\ sessions' \in Seq(Session) /\ Len(sessions') = Len(sessions)
        /\ \A i \in 1 .. Len(sessions) : sessions'[i] = IF i = s THEN r ELSE sessions[i]
    BY <2>1, <2>2, ExceptSeq
  <2>4. sessions' = [sessions EXCEPT ![s].expired = TRUE]
        => sessions'[s].revoked = sessions[s].revoked
    BY <1>1 DEF Session
  <2> QED
    BY <2>3, <2>4
<1>3. CASE sessions' = [sessions EXCEPT ![s].expired = TRUE]
  <2> DEFINE r == [sessions[s] EXCEPT !.expired = TRUE]
  <2>1. r \in Session /\ r.revoked = sessions[s].revoked
    BY <1>1 DEF Session
  <2>2. sessions' = [sessions EXCEPT ![s] = r]
    BY <1>1, <1>3
  <2> HIDE DEF r
  <2>3. /\ sessions' \in Seq(Session) /\ Len(sessions') = Len(sessions)
        /\ \A i \in 1 .. Len(sessions) : sessions'[i] = IF i = s THEN r ELSE sessions[i]
    BY <2>1, <2>2, ExceptSeq
  <2> QED
    BY <2>1, <2>3
<1> QED
  BY <1>2, <1>3

\* The answer of a handler keeps CallInv, if it is what its kind of call
\* returns and the tables only grow.
LEMMA AnswerStep ==
    ASSUME CallInv, NEW h \in Handlers, handler[h] # "idle",
           NEW a \in Nat, Answer(h, a),
           UNCHANGED <<keystore, client, call, token, socket, made>>,
           account' \in 1 .. MaxKeys \cup {None},
           account # None => account' = account,
           sessions' \in Seq(Session), Len(sessions) <= Len(sessions'),
           handler[h] = "register" => a = Refused,
           handler[h] = "insert" /\ a # Refused => a = account',
           handler[h] = "login" /\ a # Refused => a \in 1 .. Len(sessions')
    PROVE  CallInv'
<1> USE AccessAssumption
<1> DEFINE d == req[h].dev
<1>1. TypeOK /\ MoreTypes /\ RequestInv /\ AnswerInv
  BY DEF CallInv
<1>2. /\ handler' = [handler EXCEPT ![h] = "idle"]
      /\ req' = [req EXCEPT ![h] = NoRequest]
      /\ reply' = IF call[d] = h THEN [reply EXCEPT ![d] = a] ELSE reply
  BY DEF Answer
<1>3. d \in Devices /\ (call[d] = h => reply[d] = None /\ Awaited(h))
  BY <1>1 DEF RequestInv
<1>4. \A g \in Handlers : g # h => handler'[g] = handler[g] /\ req'[g] = req[g]
  BY <1>1, <1>2 DEF TypeOK, MoreTypes
<1>5. handler'[h] = "idle" /\ req'[h] = NoRequest
  BY <1>1, <1>2 DEF TypeOK, MoreTypes
<1>6. /\ call[d] = h => reply'[d] = a
      /\ \A e \in Devices : e # d \/ call[d] # h => reply'[e] = reply[e]
  BY <1>1, <1>2, <1>3 DEF MoreTypes
<1>7. Len(sessions) \in Nat /\ Len(sessions') \in Nat
  BY <1>1, LenProperties DEF TypeOK, Session
<1>8. MoreTypes'
  <2>1. req' \in [Handlers -> [dev : Devices \cup {None}, id : Nat]]
    BY <1>1, <1>2 DEF MoreTypes, NoRequest
  <2>2. reply' \in [Devices -> Nat \cup {None}]
    BY <1>1, <1>2, <1>3 DEF MoreTypes
  <2>3. socket' \in [Devices -> BOOLEAN] /\ made' \in 0 .. MaxKeys
    BY <1>1 DEF MoreTypes
  <2> QED
    BY <2>1, <2>2, <2>3 DEF MoreTypes
<1>9. RequestInv'
  <2> SUFFICES ASSUME NEW g \in Handlers, handler'[g] # "idle"
               PROVE  /\ req'[g].dev \in Devices
                      /\ call'[req'[g].dev] = g
                           => reply'[req'[g].dev] = None /\ Awaited(g)'
                      /\ handler'[g] \in {"register", "insert"} => req'[g].id \in 1 .. MaxKeys
                      /\ handler'[g] = "revoke" => req'[g].id \in 1 .. Len(sessions')
    BY DEF RequestInv
  <2>1. g # h /\ handler'[g] = handler[g] /\ req'[g] = req[g]
    BY <1>4, <1>5
  <2>2. /\ req[g].dev \in Devices
        /\ call[req[g].dev] = g => reply[req[g].dev] = None /\ Awaited(g)
        /\ handler[g] \in {"register", "insert"} => req[g].id \in 1 .. MaxKeys
        /\ handler[g] = "revoke" => req[g].id \in 1 .. Len(sessions)
    BY <1>1, <2>1 DEF RequestInv
  <2>3. call[req[g].dev] = g => reply'[req[g].dev] = None
    BY <1>6, <2>1, <2>2
  <2> QED
    BY <1>7, <2>1, <2>2, <2>3 DEF Awaited
<1>10. AnswerInv'
  <2> SUFFICES ASSUME NEW e \in Devices
               PROVE  /\ client[e] \in {"out", "starting", "in"}
                           => call[e] = None /\ reply'[e] = None
                      /\ client[e] = "registering" /\ Success(reply'[e]) => reply'[e] = account'
                      /\ client[e] = "logging_in" /\ Success(reply'[e])
                           => reply'[e] \in 1 .. Len(sessions')
    BY DEF AnswerInv, Success
  <2>1. CASE e # d \/ call[d] # h
    BY <1>1, <1>6, <1>7, <2>1 DEF AnswerInv, Success
  <2>2. CASE e = d /\ call[d] = h
    BY <1>1, <1>3, <1>6, <2>2 DEF Awaited, Success, TypeOK
  <2> QED
    BY <2>1, <2>2
<1>11. TypeOK'
  <2>1. \A g \in Handlers : handler'[g] = "idle" <=> req'[g] = NoRequest
    BY <1>1, <1>4, <1>5 DEF TypeOK
  <2>2. handler' \in [Handlers -> {"idle", "register", "insert", "login", "revoke"}]
    BY <1>1, <1>2 DEF TypeOK
  <2>3. token' \in [Devices -> 0 .. Len(sessions')]
    BY <1>1, <1>7 DEF TypeOK
  <2>4. /\ keystore' \in [Devices -> 1 .. MaxKeys \cup {None}]
        /\ client' \in [Devices -> {"out", "registering", "logging_in", "starting", "in", "leaving"}]
        /\ call' \in [Devices -> Handlers \cup {None}]
    BY <1>1 DEF TypeOK
  <2>5. \A e \in Devices : socket'[e] => client'[e] \in {"in", "leaving"}
    BY <1>1 DEF TypeOK
  <2> QED
    BY <2>1, <2>2, <2>3, <2>4, <2>5 DEF TypeOK, Session
<1> QED
  BY <1>8, <1>9, <1>10, <1>11 DEF CallInv

\* The steps of the handlers keep CallInv.
LEMMA ServerCall == ASSUME CallInv, NEW h \in Handlers, ServerNext(h) PROVE CallInv'
<1> USE AccessAssumption
<1>1. TypeOK /\ MoreTypes /\ RequestInv /\ AnswerInv
  BY DEF CallInv
<1>2. Len(sessions) \in Nat /\ sessions \in Seq(Session)
  BY <1>1, LenProperties DEF TypeOK, Session
<1>3. account \in 1 .. MaxKeys \cup {None}
  BY <1>1 DEF TypeOK
<1>5. CASE RegisterCheck(h)
  <2>1. handler[h] = "register" /\ UNCHANGED <<account, sessions>>
    BY <1>5 DEF RegisterCheck
  <2>2. UNCHANGED <<keystore, client, call, token, socket, made>>
    BY <1>5 DEF RegisterCheck
  <2>3. CASE Answer(h, Refused)
    BY <1>2, <1>3, <2>1, <2>2, <2>3, AnswerStep DEF Refused
  <2>4. CASE handler' = [handler EXCEPT ![h] = "insert"] /\ UNCHANGED <<req, reply>>
    <3>1. /\ handler' \in [Handlers -> {"idle", "register", "insert", "login", "revoke"}]
          /\ handler'[h] = "insert"
          /\ \A g \in Handlers : g # h => handler'[g] = handler[g]
      BY <1>1, <2>4 DEF TypeOK
    <3>2. TypeOK'
      <4>1. \A g \in Handlers : handler'[g] = "idle" <=> req'[g] = NoRequest
        BY <1>1, <2>1, <2>4, <3>1 DEF TypeOK
      <4>2. \A e \in Devices : socket'[e] => client'[e] \in {"in", "leaving"}
        BY <1>1, <2>2 DEF TypeOK
      <4>3. /\ account' \in 1 .. MaxKeys \cup {None}
            /\ keystore' \in [Devices -> 1 .. MaxKeys \cup {None}]
            /\ client' \in [Devices -> {"out", "registering", "logging_in", "starting", "in", "leaving"}]
            /\ call' \in [Devices -> Handlers \cup {None}]
            /\ token' \in [Devices -> 0 .. Len(sessions')]
        BY <1>1, <2>1, <2>2 DEF TypeOK
      <4> QED
        BY <1>2, <2>1, <3>1, <4>1, <4>2, <4>3 DEF TypeOK, Session
    <3>3. MoreTypes'
      BY <1>1, <2>2, <2>4 DEF MoreTypes
    <3>4. RequestInv'
      BY <1>1, <2>1, <2>2, <2>4, <3>1 DEF RequestInv, Awaited
    <3>5. AnswerInv'
      BY <1>1, <2>1, <2>2, <2>4 DEF AnswerInv, Success
    <3> QED
      BY <3>2, <3>3, <3>4, <3>5 DEF CallInv
  <2> QED
    BY <1>5, <2>3, <2>4 DEF RegisterCheck
<1>6. CASE RegisterInsert(h)
  <2>1. handler[h] = "insert" /\ sessions' = sessions /\ req[h].id \in 1 .. MaxKeys
    BY <1>1, <1>6 DEF RegisterInsert, RequestInv
  <2>2. UNCHANGED <<keystore, client, call, token, socket, made>>
    BY <1>6 DEF RegisterInsert
  <2>3. CASE account # None /\ Answer(h, Refused) /\ account' = account
    BY <1>2, <1>3, <2>1, <2>2, <2>3, AnswerStep DEF Refused
  <2>4. CASE account = None /\ account' = req[h].id /\ Answer(h, req[h].id)
    BY <1>2, <2>1, <2>2, <2>4, AnswerStep
  <2> QED
    BY <1>6, <2>3, <2>4 DEF RegisterInsert
<1>7. CASE LoginSucceeds(h)
  <2>1. /\ handler[h] = "login" /\ account' = account
        /\ sessions' = Append(sessions, [expired |-> FALSE, revoked |-> FALSE])
        /\ Answer(h, Len(sessions'))
    BY <1>7 DEF LoginSucceeds
  <2>2. UNCHANGED <<keystore, client, call, token, socket, made>>
    BY <1>7 DEF LoginSucceeds
  <2>3. [expired |-> FALSE, revoked |-> FALSE] \in Session
    BY DEF Session
  <2>4. sessions' \in Seq(Session) /\ Len(sessions') = Len(sessions) + 1
    BY <1>2, <2>1, <2>3, AppendProperties
  <2>5. Len(sessions') \in 1 .. Len(sessions') /\ Len(sessions') \in Nat
    BY <1>2, <2>4
  <2> QED
    BY <1>2, <1>3, <2>1, <2>2, <2>4, <2>5, AnswerStep
<1>8. CASE LoginFails(h)
  <2>1. /\ handler[h] = "login" /\ UNCHANGED <<account, sessions>> /\ Answer(h, Refused)
        /\ UNCHANGED <<keystore, client, call, token, socket, made>>
    BY <1>8 DEF LoginFails
  <2> QED
    BY <1>2, <1>3, <2>1, AnswerStep DEF Refused
<1>9. CASE Revoke(h)
  <2>1. /\ handler[h] = "revoke" /\ account' = account
        /\ sessions' = [sessions EXCEPT ![req[h].id].revoked = TRUE]
        /\ Answer(h, req[h].id)
        /\ UNCHANGED <<keystore, client, call, token, socket, made>>
    BY <1>9 DEF Revoke
  <2>2. req[h].id \in 1 .. Len(sessions)
    BY <1>1, <2>1 DEF RequestInv
  <2>3. sessions' \in Seq(Session) /\ Len(sessions') = Len(sessions)
    BY <1>2, <2>1, <2>2, SessionChanged
  <2>4. req[h].id \in Nat /\ Len(sessions) <= Len(sessions')
    BY <1>2, <2>2, <2>3
  <2> QED
    BY <1>3, <2>1, <2>3, <2>4, AnswerStep
<1> QED
  BY <1>5, <1>6, <1>7, <1>8, <1>9 DEF ServerNext

\* A device that ends its call, whatever became of it, keeps CallInv.
LEMMA EndCallStep ==
    ASSUME CallInv, NEW d \in Devices, NEW c \in {"out", "starting", "in"},
           UNCHANGED <<account, sessions, handler, req, made>>,
           client' = [client EXCEPT ![d] = c],
           call' = [call EXCEPT ![d] = None],
           reply' = [reply EXCEPT ![d] = None],
           keystore' \in [Devices -> 1 .. MaxKeys \cup {None}],
           token' \in [Devices -> 0 .. Len(sessions)],
           socket' \in [Devices -> BOOLEAN],
           socket'[d] => c = "in",
           \A e \in Devices : e # d => socket'[e] = socket[e]
    PROVE  CallInv'
<1> USE AccessAssumption
<1>1. TypeOK /\ MoreTypes /\ RequestInv /\ AnswerInv
  BY DEF CallInv
<1>2. /\ client'[d] = c /\ call'[d] = None /\ reply'[d] = None
      /\ \A e \in Devices : e # d => /\ client'[e] = client[e]
                                     /\ call'[e] = call[e] /\ reply'[e] = reply[e]
  BY <1>1 DEF TypeOK, MoreTypes
<1>3. MoreTypes'
  BY <1>1 DEF MoreTypes
<1>4. TypeOK'
  <2>1. \A e \in Devices : socket'[e] => client'[e] \in {"in", "leaving"}
    BY <1>1, <1>2 DEF TypeOK
  <2>2. client' \in [Devices -> {"out", "registering", "logging_in", "starting", "in", "leaving"}]
    BY <1>1 DEF TypeOK
  <2>3. call' \in [Devices -> Handlers \cup {None}]
    BY <1>1 DEF TypeOK
  <2> QED
    BY <1>1, <2>1, <2>2, <2>3 DEF TypeOK
<1>5. RequestInv'
  BY <1>1, <1>2 DEF RequestInv, Awaited
<1>6. AnswerInv'
  BY <1>1, <1>2 DEF AnswerInv, Success
<1> QED
  BY <1>3, <1>4, <1>5, <1>6 DEF CallInv

\* A device that sends a request keeps CallInv: the handler it gets was idle,
\* and the device was not waiting for one.
LEMMA SendStep ==
    ASSUME CallInv, NEW d \in Devices, NEW h \in Handlers, NEW id \in Nat,
           NEW k \in {"register", "login", "revoke"},
           client[d] \in {"out", "in"},
           Send(d, h, id),
           UNCHANGED <<account, sessions, keystore, reply, token, socket>>,
           handler' = [handler EXCEPT ![h] = k],
           client' = [client EXCEPT ![d] = IF k = "register" THEN "registering"
                                           ELSE IF k = "login" THEN "logging_in" ELSE "leaving"],
           socket[d] => k = "revoke",
           made' \in 0 .. MaxKeys,
           k = "register" => id \in 1 .. MaxKeys,
           k = "revoke" => id \in 1 .. Len(sessions)
    PROVE  CallInv'
<1> USE AccessAssumption
<1>1. TypeOK /\ MoreTypes /\ RequestInv /\ AnswerInv
  BY DEF CallInv
<1>2. /\ handler[h] = "idle" /\ call[d] = None /\ reply[d] = None
      /\ call' = [call EXCEPT ![d] = h]
      /\ req' = [req EXCEPT ![h] = [dev |-> d, id |-> id]]
  BY <1>1 DEF Send, AnswerInv
<1>3. /\ handler'[h] = k /\ req'[h] = [dev |-> d, id |-> id]
      /\ \A g \in Handlers : g # h => handler'[g] = handler[g] /\ req'[g] = req[g]
  BY <1>1, <1>2 DEF TypeOK, MoreTypes
<1>4. /\ client'[d] = IF k = "register" THEN "registering"
                      ELSE IF k = "login" THEN "logging_in" ELSE "leaving"
      /\ call'[d] = h
      /\ \A e \in Devices : e # d => client'[e] = client[e] /\ call'[e] = call[e]
  BY <1>1, <1>2 DEF TypeOK
<1>5. MoreTypes'
  <2>1. [dev |-> d, id |-> id] \in [dev : Devices \cup {None}, id : Nat]
    OBVIOUS
  <2>2. req' \in [Handlers -> [dev : Devices \cup {None}, id : Nat]]
    BY <1>1, <1>2, <2>1 DEF MoreTypes
  <2> QED
    BY <1>1, <2>2 DEF MoreTypes
<1>6. TypeOK'
  <2>1. \A e \in Devices : socket'[e] => client'[e] \in {"in", "leaving"}
    BY <1>1, <1>4 DEF TypeOK
  <2>2. client' \in [Devices -> {"out", "registering", "logging_in", "starting", "in", "leaving"}]
    BY <1>1 DEF TypeOK
  <2>3. call' \in [Devices -> Handlers \cup {None}]
    BY <1>1, <1>2 DEF TypeOK
  <2>4. handler' \in [Handlers -> {"idle", "register", "insert", "login", "revoke"}]
    BY <1>1 DEF TypeOK
  <2>5. [dev |-> d, id |-> id] # NoRequest
    BY DEF NoRequest
  <2>6. \A g \in Handlers : handler'[g] = "idle" <=> req'[g] = NoRequest
    BY <1>1, <1>3, <2>5 DEF TypeOK
  <2> QED
    BY <1>1, <2>1, <2>2, <2>3, <2>4, <2>6 DEF TypeOK
<1>7. RequestInv'
  <2> SUFFICES ASSUME NEW g \in Handlers, handler'[g] # "idle"
               PROVE  /\ req'[g].dev \in Devices
                      /\ call'[req'[g].dev] = g
                           => reply'[req'[g].dev] = None /\ Awaited(g)'
                      /\ handler'[g] \in {"register", "insert"} => req'[g].id \in 1 .. MaxKeys
                      /\ handler'[g] = "revoke" => req'[g].id \in 1 .. Len(sessions')
    BY DEF RequestInv
  <2>1. CASE g = h
    BY <1>2, <1>3, <1>4, <2>1 DEF Awaited
  <2>2. CASE g # h
    <3>1. handler'[g] = handler[g] /\ req'[g] = req[g] /\ req[g].dev \in Devices
      BY <1>1, <1>3, <2>2 DEF RequestInv
    <3>2. call'[req[g].dev] = g => req[g].dev # d
      BY <1>4, <2>2
    <3> QED
      BY <1>1, <1>4, <2>2, <3>1, <3>2 DEF RequestInv, Awaited
  <2> QED
    BY <2>1, <2>2
<1>8. AnswerInv'
  BY <1>1, <1>2, <1>4 DEF AnswerInv, Success
<1> QED
  BY <1>5, <1>6, <1>7, <1>8 DEF CallInv

\* The steps of a device keep CallInv.
LEMMA ClientCall == ASSUME CallInv, NEW d \in Devices, ClientNext(d) PROVE CallInv'
<1> USE AccessAssumption
<1>1. TypeOK /\ MoreTypes /\ RequestInv /\ AnswerInv
  BY DEF CallInv
<1>2. Len(sessions) \in Nat
  BY <1>1, LenProperties DEF TypeOK
<1>3. client[d] \in {"starting", "in"}
      => call = [call EXCEPT ![d] = None] /\ reply = [reply EXCEPT ![d] = None]
  BY <1>1 DEF TypeOK, MoreTypes, AnswerInv
<1>4. /\ keystore \in [Devices -> 1 .. MaxKeys \cup {None}]
      /\ token \in [Devices -> 0 .. Len(sessions)]
      /\ socket \in [Devices -> BOOLEAN]
  BY <1>1 DEF TypeOK, MoreTypes
<1>5. socket[d] => client[d] \in {"in", "leaving"}
  BY <1>1 DEF TypeOK
<1>6. ASSUME NEW h \in Handlers, Register(d, h) PROVE CallInv'
  <2>1. made + 1 \in 1 .. MaxKeys /\ made + 1 \in Nat /\ made' \in 0 .. MaxKeys
    BY <1>1, <1>6 DEF Register, MoreTypes
  <2> QED
    BY <1>5, <1>6, <2>1, SendStep DEF Register
<1>7. CASE SaveKeystore(d)
  <2>1. reply[d] = account /\ account \in 1 .. MaxKeys \cup {None}
    BY <1>1, <1>7 DEF SaveKeystore, AnswerInv, TypeOK
  <2>2. keystore' \in [Devices -> 1 .. MaxKeys \cup {None}]
    BY <1>4, <1>7, <2>1 DEF SaveKeystore
  <2>3. ~ socket[d]
    BY <1>5, <1>7 DEF SaveKeystore
  <2> QED
    BY <1>4, <1>7, <2>2, <2>3, EndCallStep DEF SaveKeystore, servers
<1>8. ASSUME NEW h \in Handlers, Login(d, h) PROVE CallInv'
  <2>1. made' \in 0 .. MaxKeys
    BY <1>1, <1>8 DEF Login, MoreTypes
  <2> QED
    BY <1>5, <1>8, <2>1, SendStep DEF Login
<1>9. CASE LoginAnswered(d)
  <2>1. reply[d] \in 1 .. Len(sessions)
    BY <1>1, <1>9 DEF LoginAnswered, AnswerInv
  <2>2. token' \in [Devices -> 0 .. Len(sessions)]
    BY <1>2, <1>4, <1>9, <2>1 DEF LoginAnswered
  <2>3. ~ socket[d]
    BY <1>5, <1>9 DEF LoginAnswered
  <2> QED
    BY <1>4, <1>9, <2>2, <2>3, EndCallStep DEF LoginAnswered, servers
<1>10. CASE GiveUp(d)
  <2>1. ~ socket[d]
    BY <1>5, <1>10 DEF GiveUp
  <2> QED
    BY <1>4, <1>10, <2>1, EndCallStep DEF GiveUp, servers
<1>11. CASE Start(d)
  <2>1. /\ socket' \in [Devices -> BOOLEAN]
        /\ \A e \in Devices : e # d => socket'[e] = socket[e]
    BY <1>4, <1>11 DEF Start
  <2> QED
    BY <1>3, <1>4, <1>11, <2>1, EndCallStep DEF Start, servers
<1>12. CASE StartFails(d)
  <2>1. token' \in [Devices -> 0 .. Len(sessions)]
    BY <1>2, <1>4, <1>12 DEF StartFails
  <2>2. ~ socket[d]
    BY <1>5, <1>12 DEF StartFails
  <2> QED
    BY <1>3, <1>4, <1>12, <2>1, <2>2, EndCallStep DEF StartFails, servers
<1>13. CASE SocketDrops(d) \/ Reconnect(d)
  <2>1. /\ UNCHANGED servers
        /\ UNCHANGED <<keystore, client, call, reply, token, made>>
    BY <1>13 DEF SocketDrops, Reconnect
  <2>2. socket' \in [Devices -> BOOLEAN]
    BY <1>4, <1>13 DEF SocketDrops, Reconnect
  <2>3. \A e \in Devices : socket'[e] => socket[e] \/ client[e] = "in"
    BY <1>4, <1>13 DEF SocketDrops, Reconnect
  <2>4. TypeOK'
    <3>1. \A e \in Devices : socket'[e] => client'[e] \in {"in", "leaving"}
      BY <1>1, <2>1, <2>3 DEF TypeOK
    <3> QED
      BY <1>1, <2>1, <3>1 DEF TypeOK, servers
  <2>5. MoreTypes'
    BY <1>1, <2>1, <2>2 DEF MoreTypes, servers
  <2>6. RequestInv' /\ AnswerInv'
    BY <1>1, <2>1 DEF RequestInv, Awaited, AnswerInv, Success, servers
  <2> QED
    BY <2>4, <2>5, <2>6 DEF CallInv
<1>14. ASSUME NEW h \in Handlers, Logout(d, h) PROVE CallInv'
  <2>1. made' \in 0 .. MaxKeys
    BY <1>1, <1>14 DEF Logout, MoreTypes
  <2>2. token[d] \in 1 .. Len(sessions) /\ token[d] \in Nat
    BY <1>2, <1>4, <1>14 DEF Logout, Valid
  <2> QED
    BY <1>14, <2>1, <2>2, SendStep DEF Logout
<1>15. CASE Leave(d) \/ Crash(d)
  <2>1. token' \in [Devices -> 0 .. Len(sessions)]
    <3>1. token' = [token EXCEPT ![d] = 0]
      BY <1>15 DEF Leave, Crash
    <3> QED
      BY <1>2, <1>4, <3>1
  <2>2. /\ socket' \in [Devices -> BOOLEAN] /\ ~ socket'[d]
        /\ \A e \in Devices : e # d => socket'[e] = socket[e]
    BY <1>4, <1>15 DEF Leave, Crash
  <2> QED
    BY <1>4, <1>15, <2>1, <2>2, EndCallStep DEF Leave, Crash, servers
<1> QED
  BY <1>6, <1>7, <1>8, <1>9, <1>10, <1>11, <1>12, <1>13, <1>14, <1>15 DEF ClientNext

\* A session that expires leaves calls and types alone.
LEMMA ExpireCall ==
    ASSUME CallInv, NEW s \in 1 .. Len(sessions), Expire(s)
    PROVE  CallInv'
<1>1. TypeOK /\ MoreTypes /\ RequestInv /\ AnswerInv
  BY DEF CallInv
<1>2. /\ sessions' = [sessions EXCEPT ![s].expired = TRUE]
      /\ UNCHANGED <<account, handler, req>> /\ UNCHANGED clients
  BY DEF Expire
<1>3. sessions' \in Seq(Session) /\ Len(sessions') = Len(sessions)
  BY <1>1, <1>2, SessionChanged DEF TypeOK, Session
<1>4. TypeOK'
  BY <1>1, <1>2, <1>3 DEF TypeOK, Session, clients
<1>5. MoreTypes'
  BY <1>1, <1>2 DEF MoreTypes, clients
<1>6. RequestInv' /\ AnswerInv'
  BY <1>1, <1>2, <1>3 DEF RequestInv, Awaited, AnswerInv, Success, clients
<1> QED
  BY <1>4, <1>5, <1>6 DEF CallInv

\* Every step keeps CallInv.
LEMMA CallNext == CallInv /\ [Next]_vars => CallInv'
<1> SUFFICES ASSUME CallInv, [Next]_vars PROVE CallInv'
  OBVIOUS
<1>1. CASE UNCHANGED vars
  <2>1. UNCHANGED <<account, sessions, handler, req>> /\ UNCHANGED clients
    BY <1>1 DEF vars, servers
  <2>2. TypeOK'
    BY <2>1 DEF CallInv, TypeOK, clients
  <2>3. MoreTypes'
    BY <2>1 DEF CallInv, MoreTypes, clients
  <2>4. RequestInv' /\ AnswerInv'
    BY <2>1 DEF CallInv, RequestInv, Awaited, AnswerInv, Success, clients
  <2> QED
    BY <2>2, <2>3, <2>4 DEF CallInv
<1> QED
  BY <1>1, ServerCall, ClientCall, ExpireCall DEF Next

\* Calls and answers stay matched, whatever is lost, late or given up.
LEMMA CallCorrect == Spec => []CallInv
BY CallInit, CallNext, PTL DEF Spec

\* The tables of server/api/auth.py, its handlers and the clients keep their
\* types, and a socket belongs to a client that is logged in or on its way out.
THEOREM TypeCorrect == Spec => []TypeOK
<1>1. CallInv => TypeOK
  BY DEF CallInv
<1> QED
  BY <1>1, CallCorrect, PTL

-----------------------------------------------------------------------------
(* The keystore *)

\* Only RegisterInsert writes the account, once; only SaveKeystore writes a
\* keystore, with the answer of a register call.
LEMMA KeystoreNext == CallInv /\ KeystoreMatches /\ [Next]_vars => KeystoreMatches'
<1> SUFFICES ASSUME CallInv, KeystoreMatches, [Next]_vars PROVE KeystoreMatches'
  OBVIOUS
<1> USE AccessAssumption
<1>1. TypeOK /\ AnswerInv
  BY DEF CallInv
<1>2. ASSUME keystore' = keystore, account # None => account' = account
      PROVE  KeystoreMatches'
  BY <1>2 DEF KeystoreMatches
<1>3. CASE UNCHANGED vars
  BY <1>2, <1>3 DEF vars, servers, clients
<1>4. ASSUME NEW s, Expire(s) PROVE KeystoreMatches'
  BY <1>2, <1>4 DEF Expire, clients
<1>5. ASSUME NEW h \in Handlers, ServerNext(h) PROVE KeystoreMatches'
  BY <1>2, <1>5
  DEF ServerNext, RegisterCheck, RegisterInsert, LoginSucceeds, LoginFails, Revoke
<1>6. ASSUME NEW d \in Devices, ClientNext(d) PROVE KeystoreMatches'
  <2>1. CASE SaveKeystore(d)
    <3>1. reply[d] = account /\ account' = account
      BY <1>1, <2>1 DEF SaveKeystore, AnswerInv, servers
    <3>2. \A e \in Devices : keystore'[e] = keystore[e] \/ keystore'[e] = account
      BY <1>1, <2>1, <3>1 DEF SaveKeystore, TypeOK
    <3> QED
      BY <3>1, <3>2 DEF KeystoreMatches
  <2>2. CASE ~ SaveKeystore(d)
    <3>1. keystore' = keystore /\ account' = account
      BY <1>6, <2>2
      DEF ClientNext, Register, Login, LoginAnswered, GiveUp, Start, StartFails,
          SocketDrops, Reconnect, Logout, Leave, Crash, servers
    <3> QED
      BY <1>2, <3>1
  <2> QED
    BY <2>1, <2>2
<1> QED
  BY <1>3, <1>4, <1>5, <1>6 DEF Next

\* The private keys a device has saved are those of the account, for any number
\* of devices that register one name at the same time and give up on answers.
THEOREM KeystoreMatchesAlways == Spec => []KeystoreMatches
<1>1. Init => KeystoreMatches
  BY DEF Init, KeystoreMatches
<1> QED
  BY <1>1, CallCorrect, KeystoreNext, PTL DEF Spec

-----------------------------------------------------------------------------
(* The sessions the clients hold *)

\* The session s is the device's: its token, or the answer to its login.
Holds(d, s) ==
    \/ s # 0 /\ token[d] = s
    \/ client[d] = "logging_in" /\ Success(reply[d]) /\ reply[d] = s

\* No handler is about to revoke the session.
NotRevoking(s) == \A h \in Handlers : handler[h] = "revoke" => req[h].id # s

\* HeldIsUnrevoked is not inductive: a session has to be safe from the answer
\* of login on, and from a logout that is still on its way as well as from one
\* that is done.
HeldInv ==
    /\ \A d \in Devices : token[d] # 0 <=> client[d] \in {"starting", "in", "leaving"}
    /\ \A d, e \in Devices : \A s \in 1 .. Len(sessions) :
          Holds(d, s) /\ Holds(e, s) => d = e
    /\ \A d \in Devices : \A s \in 1 .. Len(sessions) :
          Holds(d, s) /\ client[d] # "leaving" => ~ sessions[s].revoked /\ NotRevoking(s)

\* What a device holds is a session.
LEMMA HeldExists ==
    ASSUME CallInv, NEW d \in Devices, NEW s, Holds(d, s)
    PROVE  s \in 1 .. Len(sessions)
<1>1. token[d] \in 0 .. Len(sessions) /\ Len(sessions) \in Nat
  BY LenProperties DEF CallInv, TypeOK
<1> QED
  BY <1>1 DEF CallInv, AnswerInv, Holds

\* A step keeps HeldInv if a device comes to hold only what nobody else holds,
\* and if what is held by a client that is not leaving stays safe.
LEMMA HeldStep ==
    ASSUME CallInv, CallInv', HeldInv,
           \A d \in Devices : token'[d] # 0 <=> client'[d] \in {"starting", "in", "leaving"},
           \A d \in Devices : \A s \in 1 .. Len(sessions') :
              Holds(d, s)' => \/ Holds(d, s)
                              \/ \A e \in Devices : Holds(e, s)' => e = d,
           \A d \in Devices : \A s \in 1 .. Len(sessions') :
              Holds(d, s)' /\ client'[d] # "leaving"
              => ~ sessions'[s].revoked /\ NotRevoking(s)'
    PROVE  HeldInv'
<1>1. ASSUME NEW d \in Devices, NEW e \in Devices, NEW s \in 1 .. Len(sessions'),
             Holds(d, s)', Holds(e, s)'
      PROVE  d = e
  <2>1. CASE Holds(d, s) /\ Holds(e, s)
    <3>1. s \in 1 .. Len(sessions)
      BY <2>1, HeldExists
    <3> QED
      BY <2>1, <3>1 DEF HeldInv
  <2> QED
    BY <1>1, <2>1
<1> QED
  BY <1>1 DEF HeldInv

\* The steps of the handlers keep HeldInv.
LEMMA ServerHeld ==
    ASSUME CallInv, CallInv', HeldInv, NEW h \in Handlers, ServerNext(h)
    PROVE  HeldInv'
<1> USE AccessAssumption
<1>1. TypeOK /\ MoreTypes /\ RequestInv /\ AnswerInv
  BY DEF CallInv
<1>2. Len(sessions) \in Nat /\ sessions \in Seq(Session)
  BY <1>1, LenProperties DEF TypeOK, Session
<1> DEFINE d == req[h].dev
<1>3. UNCHANGED <<client, call, token>>
  BY DEF ServerNext, RegisterCheck, RegisterInsert, LoginSucceeds, LoginFails, Revoke
<1>4. /\ handler[h] # "idle"
      /\ \A g \in Handlers : handler'[g] = "revoke" => handler[g] = "revoke" /\ req'[g] = req[g]
  BY <1>1
  DEF ServerNext, RegisterCheck, RegisterInsert, LoginSucceeds, LoginFails, Revoke,
      Answer, TypeOK, MoreTypes
<1>5. d \in Devices /\ (call[d] = h => Awaited(h))
  BY <1>1, <1>4 DEF RequestInv
<1>6. \A e \in Devices : token'[e] # 0 <=> client'[e] \in {"starting", "in", "leaving"}
  BY <1>3 DEF HeldInv
\* What an answer other than a token changes of what is held.
<1>7. ASSUME NEW a, Answer(h, a), handler[h] = "login" => a = Refused,
             NEW e \in Devices, NEW s, Holds(e, s)'
      PROVE  Holds(e, s)
  <2>1. reply'[e] = reply[e] \/ (e = d /\ call[d] = h /\ reply'[e] = a)
    BY <1>1, <1>5, <1>7 DEF Answer, MoreTypes
  <2>2. CASE reply'[e] = reply[e]
    BY <1>3, <1>7, <2>2 DEF Holds, Success
  <2>3. CASE e = d /\ call[d] = h /\ reply'[e] = a
    BY <1>1, <1>3, <1>4, <1>5, <1>7, <2>3 DEF Holds, Success, Awaited, TypeOK, Refused
  <2> QED
    BY <2>1, <2>2, <2>3
<1>8. \A s : NotRevoking(s) => NotRevoking(s)'
  BY <1>4 DEF NotRevoking
\* The steps that leave the sessions alone.
<1>9. ASSUME sessions' = sessions,
             \A e \in Devices : \A s \in 1 .. Len(sessions') : Holds(e, s)' => Holds(e, s)
      PROVE  HeldInv'
  <2>1. ASSUME NEW e \in Devices, NEW s \in 1 .. Len(sessions'),
               Holds(e, s)', client'[e] # "leaving"
        PROVE  ~ sessions'[s].revoked /\ NotRevoking(s)'
    BY <1>3, <1>8, <1>9, <2>1 DEF HeldInv
  <2> QED
    BY <1>6, <1>9, <2>1, HeldStep
<1>10. CASE RegisterCheck(h)
  <2>1. sessions' = sessions /\ handler[h] = "register"
    BY <1>10 DEF RegisterCheck
  <2>2. CASE Answer(h, Refused)
    BY <1>7, <1>9, <2>1, <2>2
  <2>3. CASE reply' = reply
    <3>1. \A e \in Devices : \A s : Holds(e, s)' => Holds(e, s)
      BY <1>3, <2>3 DEF Holds, Success
    <3> QED
      BY <1>9, <2>1, <3>1
  <2> QED
    BY <1>10, <2>2, <2>3 DEF RegisterCheck
<1>11. CASE RegisterInsert(h) \/ LoginFails(h)
  <2>1. /\ sessions' = sessions
        /\ \E a : Answer(h, a) /\ (handler[h] = "login" => a = Refused)
    BY <1>11 DEF RegisterInsert, LoginFails
  <2> QED
    BY <1>7, <1>9, <2>1
<1>12. CASE LoginSucceeds(h)
  <2> DEFINE new == [expired |-> FALSE, revoked |-> FALSE]
  <2>1. /\ handler[h] = "login" /\ sessions' = Append(sessions, new)
        /\ Answer(h, Len(sessions'))
    BY <1>12 DEF LoginSucceeds
  <2>2. new \in Session /\ ~ new.revoked
    BY DEF Session
  <2> HIDE DEF new
  <2>3. /\ Len(sessions') = Len(sessions) + 1
        /\ \A i \in 1 .. Len(sessions) : sessions'[i] = sessions[i]
        /\ sessions'[Len(sessions) + 1] = new
    BY <1>2, <2>1, <2>2, AppendProperties
  <2>4. ASSUME NEW e \in Devices, NEW s, Holds(e, s)'
        PROVE  Holds(e, s) \/ (e = d /\ s = Len(sessions) + 1)
    <3>1. reply'[e] = reply[e] \/ (e = d /\ reply'[e] = Len(sessions'))
      BY <1>1, <1>5, <2>1 DEF Answer, MoreTypes
    <3>2. CASE reply'[e] = reply[e]
      BY <1>3, <2>4, <3>2 DEF Holds, Success
    <3>3. CASE e = d /\ reply'[e] = Len(sessions')
      BY <1>3, <2>3, <2>4, <3>3 DEF Holds
    <3> QED
      BY <3>1, <3>2, <3>3
  <2>5. \A e \in Devices : \A s : Holds(e, s) => s \in 1 .. Len(sessions)
    BY HeldExists
  <2>6. \A e \in Devices : \A s \in 1 .. Len(sessions') : Holds(e, s)' =>
           Holds(e, s) \/ \A f \in Devices : Holds(f, s)' => f = e
    BY <1>2, <2>4, <2>5
  <2>7. ASSUME NEW e \in Devices, NEW s \in 1 .. Len(sessions'),
               Holds(e, s)', client'[e] # "leaving"
        PROVE  ~ sessions'[s].revoked /\ NotRevoking(s)'
    <3>1. CASE Holds(e, s)
      <4>1. s \in 1 .. Len(sessions) /\ sessions'[s] = sessions[s]
        BY <2>3, <2>5, <3>1
      <4>2. ~ sessions[s].revoked /\ NotRevoking(s)
        BY <1>3, <2>7, <3>1, <4>1 DEF HeldInv
      <4> QED
        BY <1>8, <4>1, <4>2
    <3>2. CASE s = Len(sessions) + 1
      <4>1. NotRevoking(s)
        BY <1>1, <1>2, <3>2 DEF RequestInv, NotRevoking
      <4> QED
        BY <1>8, <2>2, <2>3, <3>2, <4>1
    <3> QED
      BY <2>4, <2>7, <3>1, <3>2
  <2> QED
    BY <1>6, <2>6, <2>7, HeldStep
<1>13. CASE Revoke(h)
  <2>1. /\ handler[h] = "revoke" /\ sessions' = [sessions EXCEPT ![req[h].id].revoked = TRUE]
        /\ Answer(h, req[h].id)
    BY <1>13 DEF Revoke
  <2>2. req[h].id \in 1 .. Len(sessions)
    BY <1>1, <2>1 DEF RequestInv
  <2>3. /\ Len(sessions') = Len(sessions)
        /\ \A i \in 1 .. Len(sessions) : i # req[h].id => sessions'[i] = sessions[i]
    BY <1>2, <2>1, <2>2, SessionChanged
  <2>4. \A e \in Devices : \A s : Holds(e, s)' => Holds(e, s)
    BY <1>7, <2>1
  <2>5. ASSUME NEW e \in Devices, NEW s \in 1 .. Len(sessions'),
               Holds(e, s)', client'[e] # "leaving"
        PROVE  ~ sessions'[s].revoked /\ NotRevoking(s)'
    <3>1. ~ sessions[s].revoked /\ NotRevoking(s)
      BY <1>3, <2>3, <2>4, <2>5 DEF HeldInv
    <3>2. s # req[h].id
      BY <2>1, <3>1 DEF NotRevoking
    <3> QED
      BY <1>8, <2>3, <3>1, <3>2
  <2> QED
    BY <1>6, <2>4, <2>5, HeldStep
<1> QED
  BY <1>10, <1>11, <1>12, <1>13 DEF ServerNext

\* The steps of a device keep HeldInv.
LEMMA ClientHeld ==
    ASSUME CallInv, CallInv', HeldInv, NEW d \in Devices, ClientNext(d)
    PROVE  HeldInv'
<1> USE AccessAssumption
<1>1. TypeOK /\ MoreTypes /\ RequestInv /\ AnswerInv
  BY DEF CallInv
<1>2. sessions' = sessions
  BY DEF ClientNext, Register, SaveKeystore, Login, LoginAnswered, GiveUp, Start,
         StartFails, SocketDrops, Reconnect, Logout, Leave, Crash, servers
<1>3. \A e \in Devices : e # d =>
         client'[e] = client[e] /\ token'[e] = token[e] /\ reply'[e] = reply[e]
  BY <1>1
  DEF ClientNext, Register, SaveKeystore, Login, LoginAnswered, GiveUp, Start,
      StartFails, SocketDrops, Reconnect, Logout, Leave, Crash, TypeOK, MoreTypes
<1>4. \A e \in Devices : \A s : e # d /\ Holds(e, s)' => Holds(e, s)
  BY <1>3 DEF Holds, Success
\* It is enough to look at the device itself, and at the logouts it begins.
<1>5. ASSUME token'[d] # 0 <=> client'[d] \in {"starting", "in", "leaving"},
             \A s : Holds(d, s)' => Holds(d, s),
             client'[d] # "leaving" => client[d] # "leaving" \/ \A s : ~ Holds(d, s)',
             \A s : NotRevoking(s) => NotRevoking(s)' \/ (Holds(d, s) /\ client'[d] = "leaving")
      PROVE  HeldInv'
  <2>1. \A e \in Devices : \A s : Holds(e, s)' => Holds(e, s)
    BY <1>4, <1>5
  <2>2. \A e \in Devices : token'[e] # 0 <=> client'[e] \in {"starting", "in", "leaving"}
    BY <1>3, <1>5 DEF HeldInv
  <2>3. ASSUME NEW e \in Devices, NEW s \in 1 .. Len(sessions'),
               Holds(e, s)', client'[e] # "leaving"
        PROVE  ~ sessions'[s].revoked /\ NotRevoking(s)'
    <3>1. Holds(e, s) /\ client[e] # "leaving"
      BY <1>3, <1>5, <2>1, <2>3
    <3>2. ~ sessions[s].revoked /\ NotRevoking(s)
      BY <1>2, <3>1 DEF HeldInv
    <3>3. Holds(d, s) => e = d
      BY <1>2, <3>1 DEF HeldInv
    <3> QED
      BY <1>2, <1>5, <2>3, <3>2, <3>3
  <2> QED
    BY <2>1, <2>2, <2>3, HeldStep
\* Steps that send no request leave the logouts alone.
<1>6. UNCHANGED servers => \A s : NotRevoking(s) => NotRevoking(s)'
  BY DEF servers, NotRevoking
<1>7. token[d] # 0 <=> client[d] \in {"starting", "in", "leaving"}
  BY DEF HeldInv
<1>8. client[d] \in {"out", "starting", "in"} => reply[d] = None
  BY <1>1 DEF AnswerInv
<1>9. ASSUME NEW g \in Handlers, Register(d, g) \/ Login(d, g) PROVE HeldInv'
  <2>1. /\ client[d] = "out" /\ client'[d] \in {"registering", "logging_in"}
        /\ UNCHANGED <<token, reply>>
    BY <1>1, <1>9 DEF Register, Login, TypeOK
  <2>2. \A s : Holds(d, s)' => Holds(d, s)
    BY <1>8, <2>1 DEF Holds, Success
  <2>3. \A f \in Handlers : handler'[f] = "revoke" => handler[f] = "revoke" /\ req'[f] = req[f]
    BY <1>1, <1>9 DEF Register, Login, Send, TypeOK, MoreTypes
  <2>4. \A s : NotRevoking(s) => NotRevoking(s)'
    BY <2>3 DEF NotRevoking
  <2> QED
    BY <1>5, <1>7, <2>1, <2>2, <2>4
<1>10. CASE SaveKeystore(d) \/ GiveUp(d)
  <2>1. /\ client[d] \in {"registering", "logging_in"} /\ client'[d] = "out"
        /\ token' = token /\ UNCHANGED servers
    BY <1>1, <1>10 DEF SaveKeystore, GiveUp, TypeOK
  <2>2. \A s : Holds(d, s)' => Holds(d, s)
    BY <2>1 DEF Holds
  <2> QED
    BY <1>5, <1>6, <1>7, <2>1, <2>2
<1>11. CASE LoginAnswered(d)
  <2>1. /\ client[d] = "logging_in" /\ Success(reply[d]) /\ client'[d] = "starting"
        /\ token'[d] = reply[d] /\ UNCHANGED servers
    BY <1>1, <1>11 DEF LoginAnswered, TypeOK
  <2>2. \A s : Holds(d, s)' => Holds(d, s)
    BY <2>1 DEF Holds
  <2>3. token'[d] # 0
    BY <2>1 DEF Success, Refused
  <2> QED
    BY <1>5, <1>6, <2>1, <2>2, <2>3
<1>12. CASE Start(d) \/ SocketDrops(d) \/ Reconnect(d)
  <2>1. /\ client'[d] = client[d] \/ (client[d] = "starting" /\ client'[d] = "in")
        /\ UNCHANGED <<token, reply>> /\ UNCHANGED servers
    BY <1>1, <1>12 DEF Start, SocketDrops, Reconnect, TypeOK
  <2>2. \A s : Holds(d, s)' => Holds(d, s)
    BY <2>1 DEF Holds, Success
  <2> QED
    BY <1>5, <1>6, <1>7, <2>1, <2>2
<1>13. CASE StartFails(d) \/ Leave(d) \/ Crash(d)
  <2>1. client'[d] = "out" /\ token'[d] = 0 /\ UNCHANGED servers
    BY <1>1, <1>13 DEF StartFails, Leave, Crash, TypeOK
  <2>2. \A s : ~ Holds(d, s)'
    BY <2>1 DEF Holds
  <2> QED
    BY <1>5, <1>6, <2>1, <2>2
<1>14. ASSUME NEW g \in Handlers, Logout(d, g) PROVE HeldInv'
  <2>1. /\ client[d] = "in" /\ client'[d] = "leaving" /\ token'[d] = token[d]
        /\ token[d] # 0
    BY <1>1, <1>7, <1>14 DEF Logout, TypeOK
  <2>2. \A s : Holds(d, s)' => Holds(d, s)
    BY <2>1 DEF Holds
  <2>3. \A f \in Handlers : f # g => handler'[f] = handler[f] /\ req'[f] = req[f]
    BY <1>1, <1>14 DEF Logout, Send, TypeOK, MoreTypes
  <2>4. req'[g].id = token[d]
    BY <1>1, <1>14 DEF Logout, Send, MoreTypes
  <2>5. \A s : NotRevoking(s) => NotRevoking(s)' \/ s = token[d]
    BY <2>3, <2>4 DEF NotRevoking
  <2>6. Holds(d, token[d])
    BY <2>1 DEF Holds
  <2> QED
    BY <1>5, <2>1, <2>2, <2>5, <2>6
<1> QED
  BY <1>9, <1>10, <1>11, <1>12, <1>13, <1>14 DEF ClientNext

\* Every step keeps HeldInv.
LEMMA HeldNext == CallInv /\ CallInv' /\ HeldInv /\ [Next]_vars => HeldInv'
<1> SUFFICES ASSUME CallInv, CallInv', HeldInv, [Next]_vars PROVE HeldInv'
  OBVIOUS
<1>1. ASSUME UNCHANGED <<handler, req, client, reply, token>>, Len(sessions') = Len(sessions),
             \A i \in 1 .. Len(sessions) : sessions'[i].revoked = sessions[i].revoked
      PROVE  HeldInv'
  <2>1. \A d \in Devices : \A s : Holds(d, s)' <=> Holds(d, s)
    BY <1>1 DEF Holds, Success
  <2>2. \A s : NotRevoking(s)' <=> NotRevoking(s)
    BY <1>1 DEF NotRevoking
  <2> QED
    BY <1>1, <2>1, <2>2 DEF HeldInv
<1>2. CASE UNCHANGED vars
  BY <1>1, <1>2 DEF vars, servers, clients
<1>3. ASSUME NEW s \in 1 .. Len(sessions), Expire(s) PROVE HeldInv'
  <2>1. sessions \in Seq(Session) /\ sessions' = [sessions EXCEPT ![s].expired = TRUE]
    BY <1>3 DEF CallInv, TypeOK, Session, Expire
  <2>2. UNCHANGED <<handler, req, client, reply, token>>
    BY <1>3 DEF Expire, clients
  <2>3. /\ Len(sessions') = Len(sessions)
        /\ \A i \in 1 .. Len(sessions) : sessions'[i].revoked = sessions[i].revoked
    BY <2>1, SessionChanged
  <2> QED
    BY <1>1, <2>2, <2>3
<1> QED
  BY <1>2, <1>3, ServerHeld, ClientHeld DEF Next

\* A client that is logged in holds a session of its own that nobody revoked,
\* for any number of devices and handlers: a logout that its device gave up on
\* never reaches the session of a later login.
THEOREM HeldIsUnrevokedAlways == Spec => []HeldIsUnrevoked
<1>1. Init => HeldInv
  BY AccessAssumption DEF Init, HeldInv, Holds, Success, NotRevoking
<1>2. CallInv /\ HeldInv => HeldIsUnrevoked
  <2> SUFFICES ASSUME CallInv, HeldInv, NEW d \in Devices, client[d] \in {"starting", "in"}
               PROVE  /\ token[d] # 0
                      /\ ~ sessions[token[d]].revoked
                      /\ \A e \in Devices \ {d} : token[e] # token[d]
    BY DEF HeldIsUnrevoked
  <2>1. token[d] # 0 /\ Holds(d, token[d])
    BY DEF HeldInv, Holds
  <2>2. token[d] \in 1 .. Len(sessions)
    BY <2>1, HeldExists
  <2>3. \A e \in Devices : token[e] = token[d] => Holds(e, token[d])
    BY <2>1 DEF Holds
  <2> QED
    BY <2>1, <2>2, <2>3 DEF HeldInv
<1> QED
  BY <1>1, <1>2, CallCorrect, HeldNext, PTL DEF Spec

-----------------------------------------------------------------------------
(* check_rate_limit (module RateLimit): types *)

\* What the upsert leaves in the row: a new window with one attempt, or one
\* attempt more in a window that t is not past; a lockout exactly when the
\* attempts exceed the limit.
LEMMA UpsertRow ==
    ASSUME NEW r \in Row \cup {Null}, NEW t \in Nat
    PROVE  /\ Upsert(r, t) \in Row
           /\ Upsert(r, t) # Null
           /\ Upsert(r, t).attempts >= 1
           /\ Upsert(r, t).locked_until # Null => Upsert(r, t).attempts > max_attempts
           /\ Upsert(r, t).attempts > max_attempts => Upsert(r, t).locked_until # Null
           /\ t - Upsert(r, t).window_start <= window
           /\ \/ /\ Upsert(r, t).attempts = 1
                 /\ Upsert(r, t).window_start = t
                 /\ r = Null \/ t - r.window_start > window
              \/ /\ r # Null
                 /\ Upsert(r, t).attempts = r.attempts + 1
                 /\ Upsert(r, t).window_start = r.window_start
<1> USE LimitAssumption
<1>1. CASE r = Null \/ t - r.window_start > window
  <2>1. Upsert(r, t) = [attempts |-> 1, window_start |-> t, locked_until |-> Null]
    BY <1>1 DEF Upsert
  <2> QED
    BY <1>1, <2>1 DEF Row
<1>2. CASE ~ (r = Null \/ t - r.window_start > window)
  <2>1. r \in Row /\ r.attempts \in Nat /\ r.window_start \in Nat
    BY <1>2 DEF Row
  <2>2. Upsert(r, t) =
          [attempts |-> r.attempts + 1, window_start |-> r.window_start,
           locked_until |-> IF r.attempts + 1 > max_attempts THEN t + window ELSE Null]
    BY <1>2 DEF Upsert
  <2>3. t + window \in Nat /\ t + window # Null /\ r.attempts + 1 \in Nat
    BY <2>1
  <2> QED
    BY <1>2, <2>1, <2>2, <2>3 DEF Row
<1> QED
  BY <1>1, <1>2

\* The table is empty and no handler runs.
LEMMA LimitTypeInit == LimitInit => LimitTypeOK
BY LimitAssumption DEF LimitInit, LimitTypeOK

\* One case per step of a handler.
LEMMA LimitTypeNext == LimitTypeOK /\ [LimitNext]_limitVars => LimitTypeOK'
<1> SUFFICES ASSUME LimitTypeOK, [LimitNext]_limitVars PROVE LimitTypeOK'
  OBVIOUS
<1> USE LimitAssumption
<1>1. CASE UNCHANGED limitVars
  BY <1>1 DEF limitVars, LimitTypeOK
<1>2. CASE Tick
  BY <1>2 DEF Tick, LimitTypeOK
<1>3. ASSUME NEW h \in Callers, StartCheck(h) PROVE LimitTypeOK'
  BY <1>3 DEF StartCheck, LimitTypeOK
<1>4. ASSUME NEW h \in Callers, FastPath(h) PROVE LimitTypeOK'
  BY <1>4 DEF FastPath, LimitTypeOK
<1>5. ASSUME NEW h \in Callers, Grant(h) \/ Refuse(h) PROVE LimitTypeOK'
  <2>1. at[h] \in Nat /\ row' = Upsert(row, at[h])
    BY <1>5 DEF Grant, Refuse, LimitTypeOK
  <2>2. row' \in Row /\ (row'.locked_until # Null => row'.attempts > max_attempts)
    BY <2>1, UpsertRow DEF LimitTypeOK
  <2>3. raced' \in [Callers -> BOOLEAN]
    BY <1>5 DEF Grant, Refuse, LimitTypeOK
  <2>4. /\ stage' \in [Callers -> {"idle", "select", "upsert"}]
        /\ UNCHANGED <<now, at>>
    BY <1>5 DEF Grant, Refuse, LimitTypeOK
  <2> QED
    BY <2>2, <2>3, <2>4 DEF LimitTypeOK
<1> QED
  BY <1>1, <1>2, <1>3, <1>4, <1>5 DEF LimitNext

\* The row and the handlers of check_rate_limit keep their types, and a lockout
\* is in the row only while its window has more attempts than allowed.
THEOREM LimitTypeCorrect == LimitSpec => []LimitTypeOK
BY LimitTypeInit, LimitTypeNext, PTL DEF LimitSpec

-----------------------------------------------------------------------------
(* check_rate_limit: the lockout *)

\* LockoutHolds is not inductive: what the fast path has read has to hold until
\* the transaction, unless a lockout was written between the two.
LockoutInv ==
    /\ LockoutHolds
    /\ \A h \in Callers : stage[h] = "upsert" /\ ~ raced[h] => ~ Locked(row, at[h])

\* One case per step of a handler.
LEMMA LockoutNext == LimitTypeOK /\ LockoutInv /\ [LimitNext]_limitVars => LockoutInv'
<1> SUFFICES ASSUME LimitTypeOK, LockoutInv, [LimitNext]_limitVars PROVE LockoutInv'
  OBVIOUS
<1>1. CASE UNCHANGED limitVars
  BY <1>1 DEF limitVars, LockoutInv, LockoutHolds, Locked
<1>2. CASE Tick
  BY <1>2 DEF Tick, LockoutInv, LockoutHolds, Locked
<1>3. ASSUME NEW h \in Callers, StartCheck(h) PROVE LockoutInv'
  BY <1>3 DEF StartCheck, LimitTypeOK, LockoutInv, LockoutHolds, Locked
<1>4. ASSUME NEW h \in Callers, FastPath(h) PROVE LockoutInv'
  BY <1>4 DEF FastPath, LimitTypeOK, LockoutInv, LockoutHolds, Locked
<1>5. ASSUME NEW h \in Callers, Grant(h) PROVE LockoutInv'
  <2>1. at[h] \in Nat /\ row' = Upsert(row, at[h])
    BY <1>5, LimitAssumption DEF Grant, LimitTypeOK
  <2>2. row' \in Row /\ row'.attempts <= max_attempts
    BY <1>5, <2>1, UpsertRow DEF Grant, Allowed, LimitTypeOK
  <2>3. row'.locked_until = Null
    <3>1. row'.locked_until # Null => row'.attempts > max_attempts
      BY <2>1, UpsertRow DEF LimitTypeOK
    <3>2. row'.attempts \in Nat /\ max_attempts \in Nat
      BY <2>2, LimitAssumption DEF Row
    <3> QED
      BY <2>2, <3>1, <3>2
  <2>4. \A t : ~ Locked(row', t)
    BY <2>3 DEF Locked
  <2>5. ~ (Locked(row, at[h]) /\ ~ raced[h])
    BY <1>5 DEF Grant, LockoutInv
  <2>6. \A g \in granted' :
          g \in granted \/ g.late = (Locked(row, at[h]) /\ ~ raced[h])
    BY <1>5 DEF Grant
  <2>7. LockoutHolds'
    BY <2>5, <2>6 DEF LockoutInv, LockoutHolds
  <2> QED
    BY <2>4, <2>7 DEF LockoutInv, Locked
<1>6. ASSUME NEW h \in Callers, Refuse(h) PROVE LockoutInv'
  <2>1. \A g \in Callers : stage'[g] = "upsert" => g # h /\ stage[g] = "upsert"
    BY <1>6 DEF Refuse, LimitTypeOK
  <2>2. \A g \in Callers : g # h /\ stage[g] = "upsert" => raced'[g]
    BY <1>6 DEF Refuse
  <2>3. LockoutHolds'
    BY <1>6 DEF Refuse, LockoutInv, LockoutHolds
  <2> QED
    BY <2>1, <2>2, <2>3 DEF LockoutInv
<1> QED
  BY <1>1, <1>2, <1>3, <1>4, <1>5, <1>6 DEF LimitNext

\* While a key is locked out, check_rate_limit grants only requests that had
\* passed its fast path before the lockout was written, for any number of
\* handlers that run at the same time.
THEOREM LockoutHoldsAlways == LimitSpec => []LockoutHolds
<1>1. LimitInit => LockoutInv
  BY DEF LimitInit, LockoutInv, LockoutHolds
<1>2. LockoutInv => LockoutHolds
  BY DEF LockoutInv
<1> QED
  BY <1>1, <1>2, LimitTypeCorrect, LockoutNext, PTL DEF LimitSpec

-----------------------------------------------------------------------------
(* check_rate_limit: the requests of a span *)

\* Where a granted request stands in its window.
Counted(g) ==
    /\ g.start \in Nat
    /\ g.at \in Nat
    /\ g.n \in 1 .. max_attempts
    /\ g.at - g.start <= window

\* A granted request belongs to the window of the row, or to one that began
\* more than a window before it.
Behind(g, r) ==
    \/ g.start = r.window_start /\ g.n <= r.attempts
    \/ r.window_start - g.start > window

\* Two granted requests of one window have different numbers, and two windows
\* begin more than a window apart.
Apart(g, k) ==
    /\ g.start = k.start /\ g.n = k.n => g = k
    /\ g.start < k.start => k.start - g.start > window

\* What makes SpanHolds inductive: the row counts the requests of its own
\* window, and the windows never move closer together.
SpanInv ==
    /\ row = Null => granted = {}
    /\ \A g \in granted : Counted(g) /\ Behind(g, row)
    /\ \A g, k \in granted : Apart(g, k)

\* Only a granted request changes more than the count in the row.
LEMMA SpanNext == LimitTypeOK /\ SpanInv /\ [LimitNext]_limitVars => SpanInv'
<1> SUFFICES ASSUME LimitTypeOK, SpanInv, [LimitNext]_limitVars PROVE SpanInv'
  OBVIOUS
<1> USE LimitAssumption
<1>1. ASSUME UNCHANGED <<row, granted>> PROVE SpanInv'
  BY <1>1 DEF SpanInv
<1>2. ASSUME NEW h \in Callers, Grant(h) \/ Refuse(h) PROVE SpanInv'
  <2> DEFINE new == Upsert(row, at[h])
  <2>1. at[h] \in Nat /\ row \in Row \cup {Null} /\ row' = new
    BY <1>2 DEF Grant, Refuse, LimitTypeOK
  <2>2. /\ row' \in Row /\ row' # Null /\ row'.attempts >= 1
        /\ at[h] - row'.window_start <= window
        /\ \/ /\ row'.attempts = 1
              /\ row'.window_start = at[h]
              /\ row = Null \/ at[h] - row.window_start > window
           \/ /\ row # Null
              /\ row'.attempts = row.attempts + 1
              /\ row'.window_start = row.window_start
    BY <2>1, UpsertRow
  <2>3. row'.attempts \in Nat /\ row'.window_start \in Nat
    BY <2>2 DEF Row
  <2>4. row # Null => row.attempts \in Nat /\ row.window_start \in Nat
    BY <2>1 DEF Row
  \* Every earlier request stays behind the row, and has another number.
  <2>5. ASSUME NEW g \in granted
        PROVE  /\ Counted(g) /\ Behind(g, row')
               /\ g.start <= row'.window_start
               /\ g.start = row'.window_start => g.n < row'.attempts
               /\ g.start < row'.window_start => row'.window_start - g.start > window
    <3>1. row # Null /\ Counted(g) /\ Behind(g, row)
      BY <2>5 DEF SpanInv
    <3> QED
      BY <2>1, <2>2, <2>3, <2>4, <3>1 DEF Counted, Behind
  <2>6. CASE granted' = granted
    BY <2>2, <2>5, <2>6 DEF SpanInv
  <2>7. CASE Grant(h)
    <3>1. PICK k \in granted' :
             /\ granted' = granted \cup {k}
             /\ k.at = at[h] /\ k.start = row'.window_start /\ k.n = row'.attempts
      <4> DEFINE k == [at |-> at[h], start |-> new.window_start, n |-> new.attempts,
                       late |-> Locked(row, at[h]) /\ ~ raced[h]]
      <4>1. granted' = granted \cup {k}
        BY <2>7 DEF Grant
      <4>2. k.at = at[h] /\ k.start = row'.window_start /\ k.n = row'.attempts
        BY <2>1
      <4> HIDE DEF k
      <4> QED
        BY <4>1, <4>2
    <3>2. row'.attempts <= max_attempts
      BY <2>7, <2>1 DEF Grant, Allowed
    <3>3. Counted(k) /\ Behind(k, row')
      BY <2>1, <2>2, <2>3, <3>1, <3>2 DEF Counted, Behind
    <3>4. \A g \in granted : Apart(g, k) /\ Apart(k, g)
      BY <2>3, <2>5, <3>1 DEF Apart, Counted
    <3>5. Apart(k, k)
      BY <2>3, <3>1 DEF Apart
    <3>6. \A g \in granted' : Counted(g) /\ Behind(g, row')
      BY <2>5, <3>1, <3>3
    <3>7. \A g, l \in granted' : Apart(g, l)
      BY <3>1, <3>4, <3>5 DEF SpanInv
    <3> QED
      BY <2>2, <3>6, <3>7 DEF SpanInv
  <2> QED
    BY <1>2, <2>6, <2>7 DEF Refuse
<1> QED
  BY <1>1, <1>2 DEF LimitNext, limitVars, Tick, StartCheck, FastPath

\* The windows of the requests in a span began in the window before it or in
\* it: one in each, since two begin more than a window apart.  So a request is
\* told from the others by its number and by which of the two is its window.
LEMMA SpanBound == ASSUME SpanInv, NEW t \in Nat
                   PROVE  Cardinality({g \in granted : InSpan(g, t)}) <= 2 * max_attempts
<1> DEFINE S == {g \in granted : InSpan(g, t)}
           Place == 1 .. 2 * max_attempts
           f == [g \in S |-> IF g.start <= t THEN g.n ELSE max_attempts + g.n]
<1> USE LimitAssumption
<1>1. ASSUME NEW g \in S
      PROVE  /\ g.start \in Nat /\ g.n \in 1 .. max_attempts
             /\ t - window <= g.start /\ g.start <= t + window
  BY DEF SpanInv, Counted, InSpan
<1>2. f \in [S -> Place]
  BY <1>1
<1>3. ASSUME NEW g \in S, NEW k \in S, f[g] = f[k]
      PROVE  g = k
  <2>1. Apart(g, k) /\ Apart(k, g)
    BY DEF SpanInv
  <2>2. g.n = k.n /\ (g.start <= t <=> k.start <= t)
    BY <1>1, <1>3
  <2>3. g.start = k.start
    BY <1>1, <2>1, <2>2 DEF Apart
  <2> QED
    BY <2>1, <2>2, <2>3 DEF Apart
<1>4. IsFiniteSet(Place) /\ Cardinality(Place) = 2 * max_attempts
  BY FS_Interval
<1>5. f \in Injection(S, Place)
  BY <1>2, <1>3 DEF Injection, IsInjective
<1> HIDE DEF f, S, Place
<1>6. Cardinality(S) <= Cardinality(Place)
  BY <1>4, <1>5, FS_Injection
<1> QED
  BY <1>4, <1>6 DEF S

\* check_rate_limit grants at most twice max_attempts requests in any span of
\* window seconds, for any number of handlers whose clock values are stale by
\* the time they write.
THEOREM SpanHoldsAlways == LimitSpec => []SpanHolds
<1>1. LimitInit => SpanInv
  BY DEF LimitInit, SpanInv
<1>2. SpanInv => SpanHolds
  BY SpanBound, LimitAssumption DEF SpanHolds
<1> QED
  BY <1>1, <1>2, LimitTypeCorrect, SpanNext, PTL DEF LimitSpec
=============================================================================
