------------------------------ MODULE MCTrust ------------------------------
(* Trust and the chat screen with a small set of identity keys. *)
EXTENDS Chat, TLC

KeySymmetry == Permutations(Keys)
=============================================================================
