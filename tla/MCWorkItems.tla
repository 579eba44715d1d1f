---------------------------- MODULE MCWorkItems ----------------------------
(* WorkItems for TLC: sessions are interchangeable. *)
EXTENDS WorkItems, TLC

AnySession == Permutations(Sessions)
=============================================================================
