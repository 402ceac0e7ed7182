---------------------------- MODULE MCRuntimeLocks ----------------------------
(* A small instance of RuntimeLocks: three mutations of two tabs on one     *)
(* workbook; s1 makes two of them in parallel, or one of the two is a       *)
(* restore of a backup.                                                     *)
EXTENDS RuntimeLocks, TLC

CONSTANTS c1, c2, c3, s1, s2, d1

MCCalls == {c1, c2, c3}
MCSessions == {s1, s2}
MCSessionOf == c1 :> s1 @@ c2 :> s1 @@ c3 :> s2
MCRestoreByS1 == {c2}
MCDocuments == {d1}
==============================================================================
