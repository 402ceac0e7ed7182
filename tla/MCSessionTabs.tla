----------------------------- MODULE MCSessionTabs -----------------------------
(* Small instances of SessionTabs: two or three requests, each of any kind. *)
EXTENDS SessionTabs, TLC

CONSTANTS c1, c2, c3

MCCalls == Permutations(Calls)
================================================================================
