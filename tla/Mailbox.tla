------------------------------ MODULE Mailbox ------------------------------
(***************************************************************************)
(* What the messenger promises for each message, with no connection,       *)
(* queue, session, task or request in sight: the server takes a message    *)
(* in, the recipient opens it, the server then counts it as delivered, and *)
(* retention may take it away at any time.  A message that was taken away  *)
(* does not come back, one that was opened stays opened, and delivered     *)
(* means opened first.  Modules Delivery and Channel implement this.       *)
(***************************************************************************)
CONSTANT Msgs

VARIABLES
    status,   \* what the server says of a message
    opened    \* the messages whose text the recipient has

vars == <<status, opened>>

Status == {"absent", "queued", "delivered", "deleted"}

Init ==
    /\ status = [m \in Msgs |-> "absent"]
    /\ opened = {}

Take(m) ==
    /\ status[m] = "absent"
    /\ status' = [status EXCEPT ![m] = "queued"]
    /\ UNCHANGED opened

\* A copy that left the server before the message was deleted may still arrive.
Open(m) ==
    /\ status[m] # "absent"
    /\ m \notin opened
    /\ opened' = opened \cup {m}
    /\ UNCHANGED status

Acknowledge(m) ==
    /\ status[m] = "queued"
    /\ m \in opened
    /\ status' = [status EXCEPT ![m] = "delivered"]
    /\ UNCHANGED opened

Delete(m) ==
    /\ status[m] \in {"queued", "delivered"}
    /\ status' = [status EXCEPT ![m] = "deleted"]
    /\ UNCHANGED opened

Next == \E m \in Msgs : Take(m) \/ Open(m) \/ Acknowledge(m) \/ Delete(m)

Spec == Init /\ [][Next]_vars
=============================================================================
