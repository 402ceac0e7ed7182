------------------------------ MODULE MCOverlap ------------------------------
(* Two components with writers that may overlap: the coordinator, which puts *)
(* them in line, and the connections, which do not.  They share no state; a  *)
(* behaviour is one of one of them, chosen at the start, and the other one   *)
(* stays as it begins, so that their states add up.                          *)
EXTENDS MCWorkbookCoordinator, Connections

CONSTANTS n1, n2, o1, o2

VARIABLE component

overlapVars == <<component, vars, connVars>>

OverlapInit ==
  /\ component \in {"coordinator", "connections"}
  /\ Init /\ ConnInit
  /\ component = "connections" => mode = "yolo" /\ activeDocument = d1 /\ saved = {}

OverlapNext ==
  /\ UNCHANGED component
  /\ \/ component = "coordinator" /\ Next /\ UNCHANGED connVars
     \/ component = "connections" /\ ConnNext /\ UNCHANGED vars

OverlapSpec == OverlapInit /\ [][OverlapNext]_overlapVars

\* Calls of one session, documents, connections and changes of their records.
MCOverlapSymmetry == MCSymmetry \cup Permutations({n1, n2}) \cup Permutations({o1, o2})
==============================================================================
