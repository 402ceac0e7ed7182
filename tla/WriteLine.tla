------------------------------ MODULE WriteLine ------------------------------
(***************************************************************************)
(* What the workbook coordinator promises, without its queue, its flags    *)
(* and the life of a tool call: writers of one workbook stand in a line.   *)
(* Only the writer at the head of a line commits, at most once, and each   *)
(* commit is stamped with the next revision of that workbook.  Writers     *)
(* leave in the order in which they came, and everyone gets to leave.      *)
(***************************************************************************)
EXTENDS Integers, Sequences

CONSTANTS Writers, Lines

VARIABLES
  line,      \* the writers of each workbook, the active one at the head
  revision,  \* commits of each workbook so far
  stamp      \* the revision of a writer's commit, 0 before

vars == <<line, revision, stamp>>

InLine(w, k) == \E i \in DOMAIN line[k] : line[k][i] = w

Init ==
  /\ line = [k \in Lines |-> <<>>]
  /\ revision = [k \in Lines |-> 0]
  /\ stamp \in [Writers -> {0}]

Join(w, k) ==
  /\ stamp[w] = 0
  /\ \A l \in Lines : ~ InLine(w, l)
  /\ line' = [line EXCEPT ![k] = Append(@, w)]
  /\ UNCHANGED <<revision, stamp>>

Commit(k) ==
  /\ line[k] # <<>>
  /\ stamp[Head(line[k])] = 0
  /\ revision' = [revision EXCEPT ![k] = @ + 1]
  /\ stamp' = [stamp EXCEPT ![Head(line[k])] = revision[k] + 1]
  /\ UNCHANGED line

Leave(k) ==
  /\ line[k] # <<>>
  /\ line' = [line EXCEPT ![k] = Tail(@)]
  /\ UNCHANGED <<revision, stamp>>

Next == \E k \in Lines : Commit(k) \/ Leave(k) \/ \E w \in Writers : Join(w, k)

Spec == Init /\ [][Next]_vars

FairSpec == Spec /\ \A k \in Lines : WF_vars(Leave(k))
==============================================================================
