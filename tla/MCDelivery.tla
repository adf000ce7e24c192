----------------------------- MODULE MCDelivery -----------------------------
(* Module Delivery on small sets of messages and connections.             *)
EXTENDS Delivery
=============================================================================
