----------------------------- MODULE MCFriends -----------------------------
(* Module Friends on small sets of users and concurrent handlers.  The     *)
(* handlers are interchangeable.                                           *)
EXTENDS Friends, TLC

HandlerSymmetry == Permutations(Handlers)
=============================================================================
