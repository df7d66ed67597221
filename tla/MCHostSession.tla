--------------------------- MODULE MCHostSession ---------------------------
(* HostSession for TLC: the client threads are interchangeable. *)
EXTENDS HostSession, TLC

ClientSymmetry == Permutations(Clients)
=============================================================================
