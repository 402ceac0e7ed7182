------------------------------ MODULE MCServices ------------------------------
(* Small instances of components that share no state with each other.  A     *)
(* behaviour is one of one of them: which one is chosen at the start, and   *)
(* the others stay as they begin.  The states of the components add up      *)
(* instead of multiplying, and no interleaving of theirs is left out: no    *)
(* action of one reads or writes a variable of another.                     *)
EXTENDS WorkbookContext, ModelChoice, ExtensionManager, PythonWorker, TLC

CONSTANTS a1, a2, b1, b2, w1, x1, x2, y1, y2, y3

\* One extension is stored at the start, another is to be installed.
MCListed == <<x1>>

VARIABLE component

servicesVars == <<component, contextVars, choiceVars, extensionVars, pythonVars>>

ServicesInit ==
  /\ component \in {"context", "choice", "extensions", "python"}
  /\ ContextInit /\ ChoiceInit /\ ExtensionInit /\ PythonInit

ServicesNext ==
  /\ UNCHANGED component
  /\ \/ component = "context" /\ ContextNext /\ UNCHANGED <<choiceVars, extensionVars, pythonVars>>
     \/ component = "choice" /\ ChoiceNext /\ UNCHANGED <<contextVars, extensionVars, pythonVars>>
     \/ component = "extensions" /\ ExtensionNext /\ UNCHANGED <<contextVars, choiceVars, pythonVars>>
     \/ component = "python" /\ PythonNext /\ UNCHANGED <<contextVars, choiceVars, extensionVars>>

ServicesSpec == ServicesInit /\ [][ServicesNext]_servicesVars

\* Every variable of the four components keeps its type.
ServicesTypeOK == ContextTypeOK /\ ChoiceTypeOK /\ ExtensionTypeOK /\ PythonTypeOK

\* Tabs; builds, providers and calls of the manager.
MCServicesSymmetry == Permutations({a1, a2}) \cup Permutations({b1, b2})
===============================================================================
