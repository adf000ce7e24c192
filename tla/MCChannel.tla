----------------------------- MODULE MCChannel -----------------------------
(* Module Channel for small windows, a few envelopes and a few faults.     *)
EXTENDS Channel
=============================================================================
