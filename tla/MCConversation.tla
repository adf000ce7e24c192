--------------------------- MODULE MCConversation --------------------------
(***************************************************************************)
(* Unread with a few messages and a few visits to the conversation, and    *)
(* History with small pages and few times, so that messages share a time.  *)
(* The modules share no state, so each is explored while the other rests:  *)
(* History from all its initial states, Unread beside one of them.         *)
(***************************************************************************)
EXTENDS Unread, History, TLC

Resting ==
    /\ HistoryInit
    /\ table = {}
    /\ sent_at = [m \in Ids |-> Min(Times)]

ConversationInit == Init /\ HistoryInit

ConversationNext ==
    \/ Next /\ Resting /\ UNCHANGED historyVars
    \/ HistoryNext /\ Init /\ UNCHANGED vars

ConversationSpec ==
    /\ ConversationInit
    /\ [][ConversationNext]_<<vars, historyVars>>
    /\ WF_historyVars(Sync /\ UNCHANGED vars)

\* The messages and the visits of Unread are interchangeable.  SyncEnds is not
\* affected: while History moves Unread is in its initial state, which every
\* permutation leaves alone, and while Unread moves History rests.
UnreadSymmetry == Permutations(Msgs) \cup Permutations(Marks)
=============================================================================
