------------------------------ MODULE Ratchet ------------------------------
(***************************************************************************)
(* The two per-conversation data structures of client/crypto/session.py    *)
(* that decide whether an incoming envelope is opened: the symmetric       *)
(* RatchetChain and the ReplayProtector.  They are plain values here, and  *)
(* the methods are operators from the old value to the new one.            *)
(*                                                                         *)
(* A chain key is abstracted to its position in the chain: HKDF is one     *)
(* way, so holding the chain key of position n gives exactly the message   *)
(* keys n, n+1, ..., and skipped_keys is the set of positions whose        *)
(* message key is cached.                                                  *)
(***************************************************************************)
EXTENDS Integers, Sequences

CONSTANTS
    REPLAY_WINDOW,   \* shared/protocol.py: counters this far behind are refused
    MAX_SKIP         \* shared/protocol.py: keys one advance_to may skip

ASSUME RatchetAssumption ==
    /\ REPLAY_WINDOW \in Nat \ {0}
    /\ MAX_SKIP \in Nat

-----------------------------------------------------------------------------
(* RatchetChain *)

Chain == [index : Nat, skipped_keys : SUBSET Nat]

NewChain == [index |-> 0, skipped_keys |-> {}]

\* advance(): hand out the key at the current position and step over it.
Advance(chain) == [chain EXCEPT !.index = @ + 1]

\* advance_to(target) raises ValueError, before it touches the chain, unless:
CanAdvanceTo(chain, target) ==
    /\ target >= chain.index
    /\ target - chain.index <= MAX_SKIP

\* Mutant of AdvanceTo: the keys stepped over are not cached.
AdvanceToForgets(chain, target) ==
    [ index |-> target + 1, skipped_keys |-> chain.skipped_keys ]

\* advance_to(target): cache the keys stepped over, hand out the target's.
AdvanceTo(chain, target) ==
    [ index        |-> target + 1,
      skipped_keys |-> chain.skipped_keys \cup (chain.index .. (target - 1)) ]

\* try_skipped(index) pops a cached key; decrypt_envelope falls back on
\* advance_to when there is none.
HasKey(chain, index) ==
    index \in chain.skipped_keys \/ CanAdvanceTo(chain, index)

\* Mutant of TakeKey: try_skipped reads the cached key without popping it.
TakeKeyKeeps(chain, index) ==
    IF index \in chain.skipped_keys THEN chain ELSE AdvanceTo(chain, index)

TakeKey(chain, index) ==
    IF index \in chain.skipped_keys
    THEN [chain EXCEPT !.skipped_keys = @ \ {index}]
    ELSE AdvanceTo(chain, index)

-----------------------------------------------------------------------------
(* ReplayProtector *)

\* Mutant of SeenMaxLen: the deque is as long as the window.
SeenMaxLenWindow == REPLAY_WINDOW

\* deque(maxlen = REPLAY_WINDOW * 2)
SeenMaxLen == 2 * REPLAY_WINDOW

NewReplay == [max_counter |-> -1, seen_ids |-> <<>>]

Seen(replay, id) == \E k \in 1 .. Len(replay.seen_ids) : replay.seen_ids[k] = id

\* check(): no ReplayError.
Check(replay, id, counter) ==
    /\ ~ Seen(replay, id)
    /\ counter > replay.max_counter - REPLAY_WINDOW

\* A bounded deque drops its oldest element when it is full.
DequeAppend(queue, id) ==
    IF Len(queue) < SeenMaxLen THEN Append(queue, id) ELSE Append(Tail(queue), id)

Commit(replay, id, counter) ==
    [ max_counter |-> IF counter > replay.max_counter THEN counter
                      ELSE replay.max_counter,
      seen_ids    |-> DequeAppend(replay.seen_ids, id) ]
=============================================================================
