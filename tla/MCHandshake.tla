---------------------------- MODULE MCHandshake ----------------------------
(* Module Handshake for two clients and a few messages.                    *)
EXTENDS Handshake
=============================================================================
