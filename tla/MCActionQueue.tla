----------------------------- MODULE MCActionQueue -----------------------------
(* Bounds of ActionQueue for TLC: two tabs, two prompts and one or two         *)
(* /compact commands.                                                          *)
EXTENDS ActionQueue

CONSTANTS t1, t2, p1, p2, k1, k2
===============================================================================
