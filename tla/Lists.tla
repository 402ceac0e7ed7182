--------------------------------- MODULE Lists ---------------------------------
(***************************************************************************)
(* The filters of the arrays of the code, in first-order form: the prover  *)
(* cannot instantiate the operator that SelectSeq takes.                   *)
(***************************************************************************)
EXTENDS Integers, Sequences

(* list.filter(item => !gone.has(item)): s but for the items of gone, in    *)
(* their order.                                                             *)
Without(s, gone) ==
  LET left[i \in 0..Len(s)] ==
        IF i = 0 THEN <<>>
        ELSE IF s[i] \in gone THEN left[i - 1] ELSE Append(left[i - 1], s[i])
  IN  left[Len(s)]
================================================================================
