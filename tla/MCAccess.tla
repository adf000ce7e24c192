------------------------------ MODULE MCAccess -----------------------------
(***************************************************************************)
(* Access for two devices and two handlers, and RateLimit for one key and  *)
(* three handlers.  The modules share no state (Access lets the limit      *)
(* refuse any request), so each is explored while the other rests in its   *)
(* initial state.  Handlers are interchangeable.                           *)
(***************************************************************************)
EXTENDS Access, RateLimit, TLC

AccessOrLimitInit == Init /\ LimitInit

AccessOrLimitNext ==
    \/ Next /\ LimitInit /\ UNCHANGED limitVars
    \/ LimitNext /\ Init /\ UNCHANGED vars

AccessOrLimitSpec == AccessOrLimitInit /\ [][AccessOrLimitNext]_<<vars, limitVars>>

HandlerSymmetry == Permutations(Handlers) \cup Permutations(Callers)
=============================================================================
