----------------------------- MODULE ChatProofs -----------------------------
(***************************************************************************)
(* Proofs about module Trust, for every set of keys and with no bound on   *)
(* the number of sessions, checks and restarts, and about the chat screen  *)
(* of module Chat on top of it.                                            *)
(***************************************************************************)
EXTENDS Chat, TLAPS

-----------------------------------------------------------------------------
(* Identity keys *)

\* An entry whose flag is true to its history.  FlagIsTrue alone is not
\* inductive: a check that finds the cached key again must know that the flag
\* is up if this key is not the accepted one, so the entry has to remember that
\* every key but the accepted one came in by a check.
EntryInv(e) ==
    /\ e.key_changed <=> \E k \in e.heard : k # e.accepted
    /\ e.pub = e.accepted \/ e.pub \in e.heard

HeapInv ==
    /\ \A i \in 1 .. Len(heap) : EntryInv(heap[i])
    /\ disk # None => EntryInv(disk)

Inv == TypeOK /\ HeapInv /\ TrustSurvives

-----------------------------------------------------------------------------
(* The operations of IdentityKeyCache *)

\* Trust on first use makes a consistent entry.
LEMMA FirstUseKeeps ==
    ASSUME NEW k \in Keys
    PROVE  FirstUse(k) \in Entry /\ EntryInv(FirstUse(k))
BY DEF FirstUse, Entry, EntryInv

\* A check keeps an entry consistent, and neither takes a verification back nor
\* replaces a verified key.
LEMMA CheckKeeps ==
    ASSUME NEW e \in Entry, NEW k \in Keys, EntryInv(e)
    PROVE  /\ check_and_update(e, k) \in Entry
           /\ EntryInv(check_and_update(e, k))
           /\ e.verified => /\ check_and_update(e, k).verified
                            /\ check_and_update(e, k).pub = e.pub
<1>1. CASE e.pub = k
  BY <1>1 DEF check_and_update, Hear, Entry, EntryInv
<1>2. CASE e.pub # k
  <2> DEFINE f == check_and_update(e, k)
  <2>1. /\ f \in Entry
        /\ f.key_changed
        /\ f.heard = e.heard \cup {k}
        /\ f.accepted = e.accepted
        /\ f.pub = IF e.verified THEN e.pub ELSE k
        /\ f.verified = e.verified
    <3>1. CASE e.verified
      BY <1>2, <3>1 DEF check_and_update, Hear, Entry
    <3>2. CASE ~ e.verified
      BY <1>2, <3>2 DEF check_and_update, Hear, Entry
    <3> QED BY <3>1, <3>2
  <2> HIDE DEF f
  <2>2. \E j \in f.heard : j # f.accepted
    \* If the key that came in is the accepted one, the cached one is not, and
    \* was heard before.
    <3>1. CASE k = e.accepted
      BY <1>2, <2>1, <3>1 DEF EntryInv
    <3>2. CASE k # e.accepted
      BY <2>1, <3>2
    <3> QED BY <3>1, <3>2
  <2>3. f.pub = f.accepted \/ f.pub \in f.heard
    BY <2>1 DEF EntryInv
  <2>4. EntryInv(f)
    BY <2>1, <2>2, <2>3 DEF EntryInv
  <2> QED BY <2>1, <2>4 DEF f
<1> QED BY <1>1, <1>2

\* A click makes a consistent and verified entry of the same key.
LEMMA MarkKeeps ==
    ASSUME NEW e \in Entry
    PROVE  /\ mark_verified(e) \in Entry
           /\ EntryInv(mark_verified(e))
           /\ mark_verified(e).verified
           /\ mark_verified(e).pub = e.pub
BY DEF mark_verified, Entry, EntryInv

-----------------------------------------------------------------------------
(* The invariant *)

\* No client has a session at the start.
LEMMA InitInv == Init => Inv
BY DEF Init, Inv, TypeOK, HeapInv, TrustSurvives, Tasks

\* Creating a session (Bootstrap) keeps the invariant, whatever the other task
\* has put into _sessions in the meantime.
LEMMA BootstrapInv ==
    ASSUME Inv, NEW t \in Tasks, Bootstrap(t)
    PROVE  Inv'
<1> DEFINE e == FirstUse(fetched[t].key)
<1>1. fetched[t].key \in Keys
  BY DEF Bootstrap, Admitted, Inv, TypeOK, Bundle
<1>2. e \in Entry /\ EntryInv(e)
  BY <1>1, FirstUseKeeps
<1> HIDE DEF e
<1>3. /\ heap' = Append(heap, e)
      /\ slot' = Len(heap')
      /\ disk' = heap'[slot']
  BY DEF Bootstrap, e
<1>4. /\ heap' \in Seq(Entry)
      /\ Len(heap') = Len(heap) + 1
      /\ heap'[Len(heap) + 1] = e
      /\ \A i \in 1 .. Len(heap) : heap'[i] = heap[i]
  BY <1>2, <1>3 DEF Inv, TypeOK
<1>5. Len(heap) \in Nat
  BY DEF Inv, TypeOK
<1>6. TypeOK'
  BY <1>2, <1>3, <1>4, <1>5 DEF Bootstrap, Inv, TypeOK, Tasks
<1>7. HeapInv'
  BY <1>2, <1>3, <1>4, <1>5 DEF Inv, HeapInv
<1>8. TrustSurvives'
  BY <1>3 DEF TrustSurvives
<1> QED BY <1>6, <1>7, <1>8 DEF Inv

\* A check of a key (CheckKey) keeps the invariant, also when it ends in
\* KeyChangeWarning and when it works on an object that _sessions has dropped.
LEMMA CheckKeyInv ==
    ASSUME Inv, CheckKey
    PROVE  Inv'
<1> DEFINE e == check_and_update(heap[ref], fetched["ws"].key)
<1>1. fetched["ws"].key \in Keys
  BY DEF CheckKey, Admitted, Inv, TypeOK, Bundle, Tasks
<1>2. /\ ref \in 1 .. Len(heap)
      /\ slot \in 1 .. Len(heap)
      /\ heap[ref] \in Entry
      /\ EntryInv(heap[ref])
  BY DEF CheckKey, Inv, TypeOK, HeapInv
<1>3. e \in Entry /\ EntryInv(e)
  BY <1>1, <1>2, CheckKeeps
<1>4. heap' = [heap EXCEPT ![ref] = e] /\ disk' = heap'[slot] /\ slot' = slot
  BY DEF CheckKey
<1> HIDE DEF e
<1>5. /\ heap' \in Seq(Entry)
      /\ Len(heap') = Len(heap)
      /\ heap'[ref] = e
      /\ \A i \in 1 .. Len(heap) : i # ref => heap'[i] = heap[i]
  BY <1>2, <1>3, <1>4 DEF Inv, TypeOK
<1>6. TypeOK'
  BY <1>2, <1>3, <1>4, <1>5 DEF CheckKey, Inv, TypeOK, Tasks
<1>7. HeapInv'
  BY <1>2, <1>3, <1>4, <1>5 DEF Inv, HeapInv
<1>8. TrustSurvives'
  BY <1>4 DEF TrustSurvives
<1> QED BY <1>6, <1>7, <1>8 DEF Inv

\* A click on the settings screen (MarkVerified) keeps the invariant.
LEMMA MarkVerifiedInv ==
    ASSUME Inv, MarkVerified
    PROVE  Inv'
<1> DEFINE e == mark_verified(heap[slot])
<1>1. slot \in 1 .. Len(heap) /\ heap[slot] \in Entry
  BY DEF MarkVerified, Inv, TypeOK
<1>2. e \in Entry /\ EntryInv(e)
  BY <1>1, MarkKeeps
<1>3. heap' = [heap EXCEPT ![slot] = e] /\ disk' = heap'[slot] /\ slot' = slot
  BY DEF MarkVerified
<1> HIDE DEF e
<1>4. /\ heap' \in Seq(Entry)
      /\ Len(heap') = Len(heap)
      /\ heap'[slot] = e
      /\ \A i \in 1 .. Len(heap) : i # slot => heap'[i] = heap[i]
  BY <1>1, <1>2, <1>3 DEF Inv, TypeOK
<1>5. heap[slot].pub \in Keys
  BY <1>1 DEF Entry
<1>6. TypeOK'
  BY <1>1, <1>2, <1>3, <1>4, <1>5 DEF MarkVerified, Inv, TypeOK
<1>7. HeapInv'
  BY <1>1, <1>2, <1>3, <1>4 DEF Inv, HeapInv
<1>8. TrustSurvives'
  BY <1>3 DEF TrustSurvives
<1> QED BY <1>6, <1>7, <1>8 DEF Inv

\* A restart keeps the invariant: what it loads is what TrustSurvives and
\* HeapInv say of the disk.
LEMMA RestartInv ==
    ASSUME Inv, Restart
    PROVE  Inv'
<1>1. CASE disk = None
  <2>1. heap' = <<>> /\ slot' = 0 /\ disk' = disk
    BY <1>1 DEF Restart
  <2> QED BY <1>1, <2>1 DEF Restart, Inv, TypeOK, HeapInv, TrustSurvives, Tasks
<1>2. CASE disk # None
  <2>1. heap' = <<disk>> /\ slot' = 1 /\ disk' = disk /\ disk \in Entry
    BY <1>2 DEF Restart, Inv, TypeOK
  <2>2. TypeOK'
    BY <2>1 DEF Restart, Inv, TypeOK, Tasks
  <2>3. HeapInv' /\ TrustSurvives'
    BY <1>2, <2>1 DEF Inv, HeapInv, TrustSurvives
  <2> QED BY <2>2, <2>3 DEF Inv
<1> QED BY <1>1, <1>2

\* The steps that touch no entry keep the invariant.
LEMMA OtherInv ==
    ASSUME Inv,
           \/ \E k \in Keys : upload_keys(k)
           \/ \E t \in Tasks : get_keys(t) \/ StartSession(t) \/ KeysFail(t)
           \/ ReceiveRekey
           \/ OpenSettings
           \/ CloseSettings
           \/ UNCHANGED vars
    PROVE  Inv' /\ UNCHANGED <<heap, slot, disk>>
<1>1. UNCHANGED <<heap, slot, disk>>
  BY DEF upload_keys, get_keys, StartSession, KeysFail, ReceiveRekey, OpenSettings,
         CloseSettings, vars
<1>2. HeapInv' /\ TrustSurvives'
  BY <1>1 DEF Inv, HeapInv, TrustSurvives
<1>3. TypeOK'
  <2>1. ASSUME NEW k \in Keys, upload_keys(k) PROVE TypeOK'
    BY <2>1 DEF upload_keys, Inv, TypeOK, Bundle
  <2>2. ASSUME NEW t \in Tasks, get_keys(t) PROVE TypeOK'
    BY <2>2 DEF get_keys, Inv, TypeOK
  <2>3. ASSUME NEW t \in Tasks, StartSession(t) PROVE TypeOK'
    BY <2>3 DEF StartSession, Inv, TypeOK, Tasks
  <2>4. ASSUME NEW t \in Tasks, KeysFail(t) PROVE TypeOK'
    BY <2>4 DEF KeysFail, Inv, TypeOK, Tasks
  <2>5. CASE ReceiveRekey
    BY <2>5 DEF ReceiveRekey, Inv, TypeOK, Tasks
  <2>6. CASE OpenSettings
    <3>1. ASSUME slot # 0 PROVE heap[slot].pub \in Keys
      <4>1. heap[slot] \in Entry
        BY <3>1 DEF Inv, TypeOK
      <4> QED BY <4>1 DEF Entry
    <3> QED BY <2>6, <3>1 DEF OpenSettings, Inv, TypeOK
  <2>7. CASE CloseSettings
    BY <2>7 DEF CloseSettings, Inv, TypeOK
  <2>8. CASE UNCHANGED vars
    BY <2>8 DEF vars, Inv, TypeOK
  <2> QED BY <2>1, <2>2, <2>3, <2>4, <2>5, <2>6, <2>7, <2>8
<1> QED BY <1>1, <1>2, <1>3 DEF Inv

\* Every step keeps the invariant.
LEMMA NextInv == Inv /\ [Next]_vars => Inv'
BY BootstrapInv, CheckKeyInv, MarkVerifiedInv, RestartInv, OtherInv DEF Next

\* The inductive invariant holds in every reachable state.
LEMMA InvAlways == Spec => []Inv
BY InitInv, NextInv, PTL DEF Spec

-----------------------------------------------------------------------------
(* The theorems *)

\* Bundles, cache entries, tasks and the settings screen keep their types.
THEOREM TypeCorrect == Spec => []TypeOK
<1>1. Inv => TypeOK
  BY DEF Inv
<1> QED BY <1>1, InvAlways, PTL

\* The key_changed flag of IdentityKeyCache is up exactly when a check has
\* received a key other than the one the user last accepted.
THEOREM FlagIsTrueAlways == Spec => []FlagIsTrue
<1>1. Inv => FlagIsTrue
  BY DEF Inv, HeapInv, EntryInv, FlagIsTrue
<1> QED BY <1>1, InvAlways, PTL

\* The trust in _sessions is the trust in sessions.json at every step.
THEOREM TrustSurvivesAlways == Spec => []TrustSurvives
<1>1. Inv => TrustSurvives
  BY DEF Inv
<1> QED BY <1>1, InvAlways, PTL

\* A step that creates no session leaves a verified key verified and the same.
LEMMA PinnedStep ==
    ASSUME Inv, [Next]_vars, Verified, ~ (\E t \in Tasks : Bootstrap(t))
    PROVE  Verified' /\ heap'[slot'].pub = heap[slot].pub
<1>1. slot \in 1 .. Len(heap) /\ heap[slot] \in Entry /\ disk = heap[slot]
  BY DEF Verified, Inv, TypeOK, TrustSurvives
<1>2. CASE CheckKey
  <2>1. /\ fetched["ws"].key \in Keys
        /\ ref \in 1 .. Len(heap)
        /\ heap[ref] \in Entry
        /\ EntryInv(heap[ref])
    BY <1>2 DEF CheckKey, Admitted, Inv, TypeOK, HeapInv, Bundle, Tasks
  <2>2. CASE ref = slot
    <3> DEFINE e == check_and_update(heap[slot], fetched["ws"].key)
    <3>1. e.verified /\ e.pub = heap[slot].pub
      BY <2>1, <2>2, CheckKeeps DEF Verified
    <3>2. heap' = [heap EXCEPT ![slot] = e] /\ slot' = slot
      BY <1>2, <2>2 DEF CheckKey
    <3> HIDE DEF e
    <3>3. heap'[slot] = e
      BY <1>1, <3>2 DEF Inv, TypeOK
    <3> QED BY <3>1, <3>2, <3>3 DEF Verified
  <2>3. CASE ref # slot
    <3>1. heap'[slot] = heap[slot] /\ slot' = slot
      BY <1>1, <1>2, <2>1, <2>3 DEF CheckKey, Inv, TypeOK
    <3> QED BY <3>1 DEF Verified
  <2> QED BY <2>2, <2>3
<1>3. CASE MarkVerified
  <2> DEFINE e == mark_verified(heap[slot])
  <2>1. e.verified /\ e.pub = heap[slot].pub
    BY <1>1, MarkKeeps
  <2>2. heap' = [heap EXCEPT ![slot] = e] /\ slot' = slot
    BY <1>3 DEF MarkVerified
  <2> HIDE DEF e
  <2>3. heap'[slot] = e
    BY <1>1, <2>2 DEF Inv, TypeOK
  <2> QED BY <2>1, <2>2, <2>3 DEF Verified
<1>4. CASE Restart
  <2>1. disk # None
    BY <1>1, NoneAssumption
  <2>2. heap' = <<disk>> /\ slot' = 1
    BY <1>4, <2>1 DEF Restart
  <2> QED BY <1>1, <2>2 DEF Verified
<1>5. CASE UNCHANGED <<heap, slot, disk>>
  BY <1>5 DEF Verified
<1> QED BY <1>2, <1>3, <1>4, <1>5, OtherInv DEF Next

\* A verified key stays verified and stays the same unless a task puts a new
\* session over it: no answer of get_keys and no restart can replace it.
THEOREM VerifiedIsPinnedAlways == Spec => VerifiedIsPinned
<1>1. Inv /\ [Next]_vars
        => [Verified /\ ~ (\E t \in Tasks : Bootstrap(t))
              => Verified' /\ heap'[slot'].pub = heap[slot].pub]_vars
  BY PinnedStep
<1> QED BY <1>1, InvAlways, PTL DEF Spec, VerifiedIsPinned

\* A check leaves the verification of an entry as it is.
LEMMA CheckKeepsVerified ==
    ASSUME NEW e \in Entry, NEW k \in Keys
    PROVE  check_and_update(e, k).verified = e.verified
<1>1. CASE e.pub = k
  BY <1>1 DEF check_and_update, Hear, Entry
<1>2. CASE e.pub # k /\ e.verified
  BY <1>2 DEF check_and_update, Hear, Entry
<1>3. CASE e.pub # k /\ ~ e.verified
  BY <1>3 DEF check_and_update, Hear, Entry
<1> QED BY <1>1, <1>2, <1>3

\* Every step keeps the fingerprint on the settings screen the verified one: the
\* ws task cannot change a verified key, and a click refreshes the screen.
LEMMA ShownNext ==
    ASSUME Inv, VerifiedIsShown, [Next]_vars
    PROVE  VerifiedIsShown'
<1>1. ASSUME NEW t \in Tasks, Bootstrap(t) PROVE VerifiedIsShown'
  <2> DEFINE e == FirstUse(fetched[t].key)
  <2>1. fetched[t].key \in Keys
    BY <1>1 DEF Bootstrap, Admitted, Inv, TypeOK, Bundle
  <2>2. e \in Entry /\ ~ e.verified
    BY <2>1 DEF FirstUse, Entry
  <2>3. heap' = Append(heap, e) /\ slot' = Len(heap')
    BY <1>1 DEF Bootstrap
  <2> HIDE DEF e
  <2>4. heap'[slot'] = e
    BY <2>2, <2>3 DEF Inv, TypeOK
  <2> QED BY <2>2, <2>4 DEF VerifiedIsShown, Verified
<1>2. CASE CheckKey
  <2>1. /\ fetched["ws"].key \in Keys
        /\ ref \in 1 .. Len(heap) /\ heap[ref] \in Entry
        /\ slot \in 1 .. Len(heap)
    BY <1>2 DEF CheckKey, Admitted, Inv, TypeOK, Bundle, Tasks
  <2> DEFINE e == check_and_update(heap[ref], fetched["ws"].key)
  <2>2. heap' = [heap EXCEPT ![ref] = e] /\ slot' = slot /\ shown' = shown
    BY <1>2 DEF CheckKey
  <2>3. e.verified = heap[ref].verified
    BY <2>1, CheckKeepsVerified
  <2> HIDE DEF e
  <2>4. heap'[slot].verified = heap[slot].verified
    BY <2>1, <2>2, <2>3 DEF Inv, TypeOK
  <2>5. CASE ~ Verified
    BY <2>2, <2>4, <2>5 DEF Verified, VerifiedIsShown
  <2>6. CASE Verified
    <3>1. ~ (\E t \in Tasks : Bootstrap(t))
      BY <1>2, <2>1, <2>2 DEF Bootstrap, Inv, TypeOK
    <3>2. heap'[slot'].pub = heap[slot].pub
      BY <2>6, <3>1, PinnedStep
    <3> QED BY <2>2, <2>6, <3>2 DEF VerifiedIsShown
  <2> QED BY <2>5, <2>6
<1>3. CASE MarkVerified
  <2>1. slot \in 1 .. Len(heap) /\ heap[slot] \in Entry
    BY <1>3 DEF MarkVerified, Inv, TypeOK
  <2> DEFINE e == mark_verified(heap[slot])
  <2>2. e.pub = heap[slot].pub
    BY <2>1, MarkKeeps
  <2>3. heap' = [heap EXCEPT ![slot] = e] /\ slot' = slot /\ shown' = heap[slot].pub
    BY <1>3 DEF MarkVerified
  <2> HIDE DEF e
  <2>4. heap'[slot] = e
    BY <2>1, <2>3 DEF Inv, TypeOK
  <2> QED BY <2>2, <2>3, <2>4 DEF VerifiedIsShown
<1>4. CASE Restart \/ CloseSettings
  BY <1>4, KeysAssumption DEF Restart, CloseSettings, VerifiedIsShown
<1>5. CASE OpenSettings
  BY <1>5, KeysAssumption DEF OpenSettings, VerifiedIsShown, Verified
<1>6. CASE UNCHANGED <<heap, slot, shown>>
  BY <1>6 DEF VerifiedIsShown, Verified
<1>7. ASSUME \/ \E k \in Keys : upload_keys(k)
             \/ \E t \in Tasks : get_keys(t) \/ StartSession(t) \/ KeysFail(t)
             \/ ReceiveRekey
             \/ UNCHANGED vars
      PROVE  UNCHANGED <<heap, slot, shown>>
  BY <1>7 DEF upload_keys, get_keys, StartSession, KeysFail, ReceiveRekey, vars
<1> QED BY <1>1, <1>2, <1>3, <1>4, <1>5, <1>6, <1>7 DEF Next

\* The settings screen of a verified contact shows the key that is verified.
THEOREM VerifiedIsShownAlways == Spec => []VerifiedIsShown
<1>1. Init => VerifiedIsShown
  BY DEF Init, VerifiedIsShown, Verified
<1>2. Inv /\ VerifiedIsShown /\ [Next]_vars => VerifiedIsShown'
  BY ShownNext
<1> QED BY <1>1, <1>2, InvAlways, PTL DEF Spec

-----------------------------------------------------------------------------
(* The chat screen *)

\* Every step of the composition is a step of Trust or leaves its state alone.
LEMMA ChatStep == [ChatNext]_<<vars, cvars>> => [Next]_vars
<1>1. ASSUME ChatNext PROVE Next \/ UNCHANGED vars
  <2>1. ASSUME NEW k \in Keys, Publish(k) PROVE Next
    BY <2>1 DEF Publish, Next
  <2>2. ASSUME NEW t \in Tasks, Fetch(t) \/ FindNoSession(t) \/ NoSession(t) \/ NewSession(t)
        PROVE  Next
    BY <2>2 DEF Fetch, FindNoSession, NoSession, NewSession, Next
  <2>3. ASSUME RekeyArrives \/ KeyChecked \/ PushSettings \/ Verify \/ PopSettings \/ ClientRestarts
        PROVE  Next
    BY <2>3 DEF RekeyArrives, KeyChecked, PushSettings, Verify, PopSettings, ClientRestarts, Next
  <2>4. ASSUME CheckSkipped PROVE Next
    BY <2>4 DEF CheckSkipped, Next, Tasks
  <2>5. ASSUME \/ PlainArrives \/ SaveFails \/ ShowMessage \/ OpenChat \/ ShowHistory
               \/ Send \/ SendEnds \/ CloseChat
        PROVE  UNCHANGED vars
    BY <2>5 DEF PlainArrives, SaveFails, ShowMessage, OpenChat, ShowHistory, Send, SendEnds,
                CloseChat
  <2> QED BY <1>1, <2>1, <2>2, <2>3, <2>4, <2>5 DEF ChatNext
<1>2. ASSUME UNCHANGED <<vars, cvars>> PROVE UNCHANGED vars
  BY <1>2
<1> QED BY <1>1, <1>2

\* The chat screen implements Trust: what is proved of Trust holds of the
\* composition.
THEOREM ChatIsTrust == ChatSpec => Spec
<1>1. ChatInit => Init
  BY DEF ChatInit
<1> QED BY <1>1, ChatStep, PTL DEF ChatSpec, Spec

-----------------------------------------------------------------------------
(* The flag of the current session *)

\* The flag is up for the session that a task finds.
Alarmed == slot # 0 /\ heap[slot].key_changed

\* A check raises the flag when the key differs, never lowers it, and leaves the
\* verification alone.
LEMMA CheckFlags ==
    ASSUME NEW e \in Entry, NEW k \in Keys
    PROVE  /\ check_and_update(e, k).key_changed = (e.key_changed \/ e.pub # k)
           /\ check_and_update(e, k).verified = e.verified
<1>1. CASE e.pub = k
  BY <1>1 DEF check_and_update, Hear, Entry
<1>2. CASE e.pub # k /\ e.verified
  BY <1>2 DEF check_and_update, Hear, Entry
<1>3. CASE e.pub # k /\ ~ e.verified
  BY <1>3 DEF check_and_update, Hear, Entry
<1> QED BY <1>1, <1>2, <1>3

\* What a check means for the current session.
LEMMA CheckedSlot ==
    ASSUME Inv, CheckKey
    PROVE  /\ slot' = slot /\ slot # 0
           /\ Alarmed => Alarmed'
           /\ ref = slot /\ heap[ref].pub # fetched["ws"].key => Alarmed'
<1>1. /\ fetched["ws"].key \in Keys
      /\ ref \in 1 .. Len(heap) /\ slot \in 1 .. Len(heap)
      /\ heap[ref] \in Entry /\ heap[slot] \in Entry
  BY DEF CheckKey, Admitted, Inv, TypeOK, Bundle, Tasks
<1> DEFINE e == check_and_update(heap[ref], fetched["ws"].key)
<1>2. heap' = [heap EXCEPT ![ref] = e] /\ slot' = slot
  BY DEF CheckKey
<1>3. /\ e.key_changed = (heap[ref].key_changed \/ heap[ref].pub # fetched["ws"].key)
      /\ e.verified = heap[ref].verified
  BY <1>1, CheckFlags
<1> HIDE DEF e
<1>4. slot # 0
  BY <1>1
<1>5. CASE ref = slot
  <2>1. heap'[slot] = e
    BY <1>1, <1>2, <1>5 DEF Inv, TypeOK
  <2> QED BY <1>2, <1>3, <1>4, <1>5, <2>1 DEF Alarmed
<1>6. CASE ref # slot
  <2>1. heap'[slot] = heap[slot]
    BY <1>1, <1>2, <1>6 DEF Inv, TypeOK
  <2> QED BY <1>2, <1>4, <1>6, <2>1 DEF Alarmed
<1> QED BY <1>5, <1>6

\* The steps that leave the sessions and what the user sees of them alone.
Quiet ==
    \/ \E k \in Keys : Publish(k)
    \/ \E t \in Tasks : Fetch(t) \/ FindNoSession(t) \/ NoSession(t)
    \/ RekeyArrives \/ CheckSkipped \/ PlainArrives
    \/ Send \/ PushSettings \/ PopSettings
    \/ UNCHANGED <<vars, cvars>>

\* A quiet step may bring a message, but none that tells of a changed key.
LEMMA QuietStep ==
    ASSUME Quiet
    PROVE  /\ UNCHANGED <<heap, slot, chat, banner, sendOn, crossed>>
           /\ \/ note' = note
              \/ note' = None
              \/ note'.changed = FALSE /\ (chat = "closed" => ~ note'.active)
<1>1. UNCHANGED <<heap, slot, chat, banner, sendOn, crossed>>
  BY DEF Quiet, Publish, Fetch, FindNoSession, NoSession, RekeyArrives, CheckSkipped,
     PlainArrives, Send, PushSettings, PopSettings, cvars, screen, vars, upload_keys,
     get_keys, StartSession, ReceiveRekey, KeysFail, OpenSettings, CloseSettings
<1>2. ASSUME Opens(FALSE), note' # None
      PROVE  note'.changed = FALSE /\ (chat = "closed" => ~ note'.active)
  BY <1>2 DEF Opens, OnTop
<1>3. note' = note \/ Opens(FALSE)
  BY DEF Quiet, Publish, Fetch, FindNoSession, NoSession, RekeyArrives, CheckSkipped,
     PlainArrives, Send, PushSettings, PopSettings, cvars
<1> QED BY <1>1, <1>2, <1>3

\* The kinds of steps of the composition.
LEMMA ChatSplit ==
    ASSUME [ChatNext]_<<vars, cvars>>
    PROVE  \/ Quiet
           \/ \E t \in Tasks : NewSession(t)
           \/ KeyChecked \/ SaveFails \/ ShowMessage
           \/ OpenChat \/ ShowHistory \/ SendEnds \/ CloseChat \/ Verify \/ ClientRestarts
BY DEF ChatNext, Quiet

-----------------------------------------------------------------------------
(* The warning is true *)

\* A warning on the screen or on its way is true, or was crossed; a screen that
\* is not there has none, and no message is on its way to it.
AlarmInv ==
    /\ chat = "closed" => banner = "none" /\ (note # None => ~ note.active)
    /\ banner = "key_changed" => ~sendOn /\ (crossed \/ Alarmed)
    /\ note # None /\ note.active /\ note.changed => crossed \/ Alarmed

\* Every step keeps AlarmInv.
LEMMA AlarmNext ==
    ASSUME Inv, AlarmInv, [ChatNext]_<<vars, cvars>>
    PROVE  AlarmInv'
<1>1. CASE Quiet
  <2>1. UNCHANGED <<heap, slot, chat, banner, sendOn, crossed>>
    BY <1>1, QuietStep
  <2>2. Alarmed' = Alarmed
    BY <2>1 DEF Alarmed
  <2>3. note' = note \/ note' = None \/ (note'.changed = FALSE /\ (chat = "closed" => ~ note'.active))
    BY <1>1, QuietStep
  <2> QED BY <2>1, <2>2, <2>3 DEF AlarmInv
<1>2. ASSUME NEW t \in Tasks, NewSession(t) PROVE AlarmInv'
  BY <1>2 DEF NewSession, AlarmInv, Alarmed, screen
<1>3. CASE KeyChecked
  <2>1. CheckKey /\ UNCHANGED <<chat, banner, sendOn>>
    BY <1>3 DEF KeyChecked, screen
  <2>2. /\ crossed => crossed'
        /\ ref # slot => crossed'
    BY <1>3 DEF KeyChecked
  <2>3. ASSUME note' # None
        PROVE  /\ note'.changed = (heap[ref].pub # fetched["ws"].key)
               /\ chat = "closed" => ~ note'.active
    BY <1>3, <2>3 DEF KeyChecked, Opens, OnTop
  <2> QED BY <2>1, <2>2, <2>3, CheckedSlot DEF AlarmInv
<1>4. CASE SaveFails
  <2>1. UNCHANGED <<heap, slot, chat, sendOn, crossed>> /\ note' = None
    BY <1>4 DEF SaveFails, vars
  <2>2. CASE note.active
    BY <1>4, <2>1, <2>2 DEF SaveFails, AlarmInv
  <2>3. CASE ~ note.active
    BY <1>4, <2>1, <2>3 DEF SaveFails, AlarmInv, Alarmed
  <2> QED BY <2>2, <2>3
<1>5. CASE ShowMessage
  BY <1>5 DEF ShowMessage, Display, AlarmInv, Alarmed, vars
<1>6. CASE ShowHistory
  <2>1. UNCHANGED <<heap, slot, note>> /\ crossed' = (crossed /\ note # None)
    BY <1>6 DEF ShowHistory, vars
  <2>2. TrustBanner = "key_changed" => Alarmed
    BY DEF TrustBanner, Alarmed
  <2>3. chat = "closed" => chat' = "closed" /\ UNCHANGED <<banner, sendOn>>
    BY <1>6 DEF ShowHistory, Display
  <2>4. ASSUME chat # "closed"
        PROVE  chat' # "closed" /\ (banner' = "key_changed" => ~sendOn' /\ Alarmed)
    <3>1. \A d \in {"none", "other"} : Primary(d, TrustBanner) = "key_changed" => Alarmed
      BY <2>2 DEF Primary
    <3> QED BY <1>6, <2>4, <3>1 DEF ShowHistory, Display
  <2> QED BY <2>1, <2>3, <2>4 DEF AlarmInv, Alarmed
<1>7. CASE SendEnds
  BY <1>7 DEF SendEnds, Display, AlarmInv, Alarmed, vars
<1>8. CASE Verify
  <2>1. UNCHANGED <<chat, note>> /\ banner' # "key_changed" /\ (banner = "none" => banner' = "none")
    BY <1>8 DEF Verify
  <2>2. ASSUME note # None, note.changed PROVE crossed'
    BY <1>8, <2>2 DEF Verify
  <2> QED BY <2>1, <2>2 DEF AlarmInv
<1>9. CASE OpenChat
  BY <1>9 DEF OpenChat, AlarmInv, Alarmed, vars
<1>10. CASE CloseChat
  BY <1>10 DEF CloseChat, NoScreen, AlarmInv
<1>11. CASE ClientRestarts
  BY <1>11 DEF ClientRestarts, NoScreen, AlarmInv
<1> QED BY <1>1, <1>2, <1>3, <1>4, <1>5, <1>6, <1>7, <1>8, <1>9, <1>10, <1>11, ChatSplit

\* The chat warns of a changed key only when the flag is up or the trust changed
\* while the warning was on its way.
THEOREM AlarmIsTrueAlways == ChatSpec => []AlarmIsTrue
<1>1. ChatInit => AlarmInv
  BY DEF ChatInit, AlarmInv
<1>2. Inv /\ AlarmInv /\ [ChatNext]_<<vars, cvars>> => AlarmInv'
  BY AlarmNext
<1>3. AlarmInv => AlarmIsTrue
  BY DEF AlarmInv, AlarmIsTrue, Alarmed
<1> QED BY <1>1, <1>2, <1>3, ChatIsTrust, InvAlways, PTL DEF ChatSpec
=============================================================================
