---------------------------- MODULE MCRecoveryLog ----------------------------
(* Small instances of RecoveryLog, in a log that holds two backups.         *)
EXTENDS RecoveryLog, TLC

CONSTANTS e1, e2, r1, x1, c1, l1, p1, p2

(* A saved workbook whose log is in memory, and nothing fails: two edits, a *)
(* restore, a delete, a clear and overlapping polls.                        *)
MCSound == [saved |-> TRUE, loaded |-> TRUE, faults |-> FALSE, uses |-> {e1, e2, r1, x1, c1, p1, p2}]

(* A workbook that was never saved, a store that loses writes, reloads.     *)
MCFaulty == [saved |-> FALSE, loaded |-> FALSE, faults |-> TRUE, uses |-> {e1, e2, r1, l1, p1}]
MCStarts == {MCSound, MCFaulty}

(* A saved workbook whose log was not read yet.                             *)
MCUnread == {[saved |-> TRUE, loaded |-> FALSE, faults |-> FALSE, uses |-> {e1, l1}]}

MCPolls == Permutations({e1, e2}) \cup Permutations({p1, p2})
==============================================================================
