------------------------------- MODULE Trust -------------------------------
(***************************************************************************)
(* What one client believes of one peer's identity key.  The server keeps  *)
(* the peer's public bundle (server/api/keys.py); the client caches the    *)
(* identity key in the IdentityKeyCache of its session with the peer       *)
(* (client/crypto/session.py), trusts it on first use, compares it at      *)
(* every message with key material, and lets the user mark it as verified  *)
(* on the settings screen (client/ui/app.py).                              *)
(*                                                                         *)
(* Two tasks of the client interleave at their awaits: "ui" is the message *)
(* pump of the application (a send, a history sync, the settings screen),  *)
(* one handler at a time, and "ws" is the WebSocket loop.  Both may create *)
(* the session.  A task that has looked a SessionState up keeps using that *)
(* object, so sessions live in a heap and _sessions[conv_id] is a slot.    *)
(***************************************************************************)
EXTENDS Naturals, Sequences

CONSTANTS Keys,   \* identity keys the peer may publish
          None    \* no entry on disk, no answer

VARIABLES
    published,  \* the peer's row of public_keys
    heap,       \* the cache entries of the SessionState objects of this process
    slot,       \* the object in _sessions, 0 if there is none
    disk,       \* the entry in sessions.json
    stage,      \* where each task is
    fetched,    \* the bundle a task has received from get_keys
    ref,        \* the object the ws task looked up
    shown       \* the settings screen: "closed", "loading", or a fingerprint

vars == <<published, heap, slot, disk, stage, fetched, ref, shown>>

Tasks == {"ui", "ws"}

Bundle == [key : Keys, signed : BOOLEAN]

\* accepted and heard are history: the key the user last accepted (by first
\* use or by a click), and the keys that checks have received since then.
Entry == [pub : Keys, verified : BOOLEAN, key_changed : BOOLEAN,
          accepted : Keys, heard : SUBSET Keys]

ASSUME NoneAssumption == None \notin Entry

\* A fingerprint is told apart from a screen that shows none.
ASSUME KeysAssumption == Keys \cap {"closed", "loading"} = {}

Init ==
    /\ published \in Bundle
    /\ heap = <<>>
    /\ slot = 0
    /\ disk = None
    /\ stage = [t \in Tasks |-> "idle"]
    /\ fetched = [t \in Tasks |-> None]
    /\ ref = 0
    /\ shown = "closed"

-----------------------------------------------------------------------------
(* IdentityKeyCache *)

\* check_and_update of a new cache: trust on first use.
FirstUse(k) ==
    [pub |-> k, verified |-> FALSE, key_changed |-> FALSE,
     accepted |-> k, heard |-> {}]

Hear(e, k) == [e EXCEPT !.heard = @ \cup {k}]

\* Mutant of check_and_update: a verified key is overwritten like any other.
check_and_update_overwrites(e, k) ==
    IF e.pub = k
    THEN Hear(e, k)
    ELSE [Hear(e, k) EXCEPT !.pub = k, !.verified = FALSE, !.key_changed = TRUE]

\* Mutant of check_and_update: the flag goes down when the key matches again.
check_and_update_forgets(e, k) ==
    IF e.pub = k
    THEN [Hear(e, k) EXCEPT !.key_changed = FALSE]
    ELSE IF e.verified
         THEN [Hear(e, k) EXCEPT !.key_changed = TRUE]
         ELSE [Hear(e, k) EXCEPT !.pub = k, !.key_changed = TRUE]

\* A key that differs replaces an unverified one, and only flags a verified one.
check_and_update(e, k) ==
    IF e.pub = k
    THEN Hear(e, k)
    ELSE IF e.verified
         THEN [Hear(e, k) EXCEPT !.key_changed = TRUE]
         ELSE [Hear(e, k) EXCEPT !.pub = k, !.key_changed = TRUE]

\* The handler passes the key that is in the cache.
mark_verified(e) ==
    [e EXCEPT !.verified = TRUE, !.key_changed = FALSE,
              !.accepted = e.pub, !.heard = {}]

-----------------------------------------------------------------------------
(* The server *)

\* The peer uploads a bundle: the server refuses one that is not signed.
upload_keys(k) ==
    /\ published' = [key |-> k, signed |-> TRUE]
    /\ UNCHANGED <<heap, slot, disk, stage, fetched, ref, shown>>

\* The server reads the row; the answer is on its way to the task.
get_keys(t) ==
    /\ stage[t] \in {"boot", "check"}
    /\ fetched[t] = None
    /\ fetched' = [fetched EXCEPT ![t] = published]
    /\ UNCHANGED <<published, heap, slot, disk, stage, ref, shown>>

-----------------------------------------------------------------------------
(* The client's sessions *)

\* A send, a history sync or an incoming first message finds no session.  The
\* chat screen, where sends and syncs start, is hidden by the settings screen.
StartSession(t) ==
    /\ stage[t] = "idle"
    /\ slot = 0
    /\ t = "ui" => shown = "closed"
    /\ stage' = [stage EXCEPT ![t] = "boot"]
    /\ UNCHANGED <<published, heap, slot, disk, fetched, ref, shown>>

\* A message with key material arrives for the session in _sessions.
ReceiveRekey ==
    /\ stage["ws"] = "idle"
    /\ slot # 0
    /\ stage' = [stage EXCEPT !["ws"] = "check"]
    /\ ref' = slot
    /\ UNCHANGED <<published, heap, slot, disk, fetched, shown>>

\* The trust gate: the signature of the bundle holds.  get_keys joins the row
\* with the user that was asked for, so the bundle is bound to the peer.
Admitted(b) == b # None /\ b.signed

\* The request or its answer is lost, or the bundle is refused: a session is not
\* created, and a check is skipped.
KeysFail(t) ==
    /\ stage[t] \in {"boot", "check"}
    /\ stage' = [stage EXCEPT ![t] = "idle"]
    /\ fetched' = [fetched EXCEPT ![t] = None]
    /\ UNCHANGED <<published, heap, slot, disk, ref, shown>>

\* The new session goes into _sessions, whatever is there by now, and to disk.
\* The ws task goes on to the check of the same message, with its own object.
Bootstrap(t) ==
    /\ stage[t] = "boot"
    /\ Admitted(fetched[t])
    /\ heap' = Append(heap, FirstUse(fetched[t].key))
    /\ slot' = Len(heap')
    /\ disk' = heap'[slot']
    /\ stage' = [stage EXCEPT ![t] = IF t = "ws" THEN "check" ELSE "idle"]
    /\ fetched' = [fetched EXCEPT ![t] = None]
    /\ ref' = IF t = "ws" THEN slot' ELSE ref
    /\ UNCHANGED <<published, shown>>

\* Mutant of CheckKey: KeyChangeWarning leaves the handler before the save.
CheckKeyUnsaved ==
    /\ stage["ws"] = "check"
    /\ Admitted(fetched["ws"])
    /\ heap' = [heap EXCEPT ![ref] = check_and_update(@, fetched["ws"].key)]
    /\ disk' = IF heap[ref].verified /\ heap[ref].pub # fetched["ws"].key
               THEN disk
               ELSE heap'[slot]
    /\ stage' = [stage EXCEPT !["ws"] = "idle"]
    /\ fetched' = [fetched EXCEPT !["ws"] = None]
    /\ UNCHANGED <<published, slot, ref, shown>>

\* The ws task compares the key with the object it holds and saves _sessions,
\* also when check_and_update raises KeyChangeWarning.
CheckKey ==
    /\ stage["ws"] = "check"
    /\ Admitted(fetched["ws"])
    /\ heap' = [heap EXCEPT ![ref] = check_and_update(@, fetched["ws"].key)]
    /\ disk' = heap'[slot]
    /\ stage' = [stage EXCEPT !["ws"] = "idle"]
    /\ fetched' = [fetched EXCEPT !["ws"] = None]
    /\ UNCHANGED <<published, slot, ref, shown>>

-----------------------------------------------------------------------------
(* The settings screen *)

\* The fingerprint is asked for once, when the screen is mounted.
OpenSettings ==
    /\ shown = "closed"
    /\ stage["ui"] = "idle"
    /\ shown' = IF slot = 0 THEN "loading" ELSE heap[slot].pub
    /\ UNCHANGED <<published, heap, slot, disk, stage, fetched, ref>>

\* Mutant of MarkVerified: the screen keeps the fingerprint it has.
MarkVerifiedStale ==
    /\ shown # "closed"
    /\ stage["ui"] = "idle"
    /\ slot # 0
    /\ heap' = [heap EXCEPT ![slot] = mark_verified(@)]
    /\ disk' = heap'[slot]
    /\ UNCHANGED <<published, slot, stage, fetched, ref, shown>>

\* The click marks the key that is in the cache now, saves, and refreshes the
\* screen.  Without a session it does nothing.
MarkVerified ==
    /\ shown # "closed"
    /\ stage["ui"] = "idle"
    /\ slot # 0
    /\ heap' = [heap EXCEPT ![slot] = mark_verified(@)]
    /\ disk' = heap'[slot]
    /\ shown' = heap[slot].pub
    /\ UNCHANGED <<published, slot, stage, fetched, ref>>

CloseSettings ==
    /\ shown # "closed"
    /\ shown' = "closed"
    /\ UNCHANGED <<published, heap, slot, disk, stage, fetched, ref>>

\* The client stops at any point and loads sessions.json at the next login.
Restart ==
    /\ heap' = IF disk = None THEN <<>> ELSE <<disk>>
    /\ slot' = Len(heap')
    /\ stage' = [t \in Tasks |-> "idle"]
    /\ fetched' = [t \in Tasks |-> None]
    /\ ref' = 0
    /\ shown' = "closed"
    /\ UNCHANGED <<published, disk>>

Next ==
    \/ \E k \in Keys : upload_keys(k)
    \/ \E t \in Tasks : get_keys(t)
    \/ \E t \in Tasks : StartSession(t)
    \/ ReceiveRekey
    \/ \E t \in Tasks : KeysFail(t)
    \/ \E t \in Tasks : Bootstrap(t)
    \/ CheckKey
    \/ OpenSettings
    \/ MarkVerified
    \/ CloseSettings
    \/ Restart

Spec == Init /\ [][Next]_vars

-----------------------------------------------------------------------------
(* Properties *)

\* Bundles, entries and screens have their types, and a task that checks a key
\* holds an object of this process (the object that session establishment made).
TypeOK ==
    /\ published \in Bundle
    /\ heap \in Seq(Entry)
    /\ slot \in 0 .. Len(heap)
    /\ disk \in Entry \cup {None}
    /\ stage \in [Tasks -> {"idle", "boot", "check"}]
    /\ stage["ui"] # "check"
    /\ fetched \in [Tasks -> Bundle \cup {None}]
    /\ ref \in 0 .. Len(heap)
    /\ stage["ws"] = "check" => ref # 0 /\ slot # 0
    /\ shown \in Keys \cup {"closed", "loading"}

\* key_changed is up exactly when a check has received a key other than the one
\* the user last accepted: no change goes unnoticed, and none is made up, in
\* every session object of the process and over restarts.
FlagIsTrue ==
    \A i \in 1 .. Len(heap) :
        heap[i].key_changed <=> \E k \in heap[i].heard : k # heap[i].accepted

\* The trust in _sessions is the trust on disk, so a crash cannot take back a
\* warning or a verification: every change is saved in the same step, the one
\* that ends in KeyChangeWarning too.
TrustSurvives == slot # 0 => disk = heap[slot]

Verified == slot # 0 /\ heap[slot].verified

\* The settings screen of a verified contact shows the key that is verified,
\* although the ws task may replace the key between the display and the click.
VerifiedIsShown == Verified /\ shown \in Keys => shown = heap[slot].pub

\* A verified key stays verified and stays the same, whatever the server
\* publishes and over restarts, unless a task that found no session before it
\* asked for the keys puts a new session over the verified one.
VerifiedIsPinned ==
    [][Verified /\ ~ (\E t \in Tasks : Bootstrap(t))
           => Verified' /\ heap'[slot'].pub = heap[slot].pub]_vars
=============================================================================
