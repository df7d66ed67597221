----------------------------- MODULE MCDelivery -----------------------------
(* TLC instances of Delivery: two transcripts, delivered in any order and twice. *)
EXTENDS Delivery
=============================================================================
