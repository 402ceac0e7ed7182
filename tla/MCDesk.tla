-------------------------------- MODULE MCDesk --------------------------------
(* Small instances of four components that share no state with each other:  *)
(* a behaviour is one of one of them, as in MCServices.                     *)
EXTENDS ExtensionSandbox, FilesWorkspace, Credentials, StructureBackups, TLC

CONSTANTS
  i1, deactivate,      \* a call of a sandbox
  f1, f2, q1, q2,      \* paths of files, calls of the workspace
  g1, w1, w2, k1, k2,  \* a provider, taskpanes, clicks
  n1, n2, n3, x1       \* names of sheets, a text

MCSignIns == <<g1>>

\* Two sheets, the data of the first too large for a backup of all of it.
MCStarting == <<[id |-> 1, name |-> n1, visible |-> TRUE, rows |-> <<x1, Blank, x1>>],
                [id |-> 2, name |-> n2, visible |-> TRUE, rows |-> <<Blank, x1, Blank>>]>>

MCSpans == {<<1, 1>>, <<2, 2>>}

VARIABLE component

deskVars == <<component, sandboxVars, filesVars, credentialVars, structureVars>>

\* One file in the folder, which has been left there long ago.
MCFilesInit ==
  FilesInit /\ files["native"] = [f \in Paths |-> IF f = f1 THEN Expired ELSE NoFile]

DeskInit ==
  /\ component \in {"sandbox", "files", "credentials", "structure"}
  /\ SandboxInit /\ CredentialInit /\ MCFilesInit /\ StructureInit
  /\ component # "files" => files["workspace"] = [f \in Paths |-> NoFile] /\ tagsLoaded
  /\ component # "credentials" => \A g \in Signable : grants[g] = 0

DeskNext ==
  /\ UNCHANGED component
  /\ \/ component = "sandbox" /\ SandboxNext /\ UNCHANGED <<filesVars, credentialVars, structureVars>>
     \/ component = "files" /\ FilesNext /\ UNCHANGED <<sandboxVars, credentialVars, structureVars>>
     \/ component = "credentials" /\ CredentialNext /\ UNCHANGED <<sandboxVars, filesVars, structureVars>>
     \/ component = "structure" /\ StructureNext /\ UNCHANGED <<sandboxVars, filesVars, credentialVars>>

DeskSpec == DeskInit /\ [][DeskNext]_deskVars

\* Every variable of the four components keeps its type.
DeskTypeOK == SandboxTypeOK /\ FilesTypeOK /\ CredentialTypeOK /\ StructureTypeOK

\* Calls of the workspace.
MCDeskSymmetry == Permutations({q1, q2})
===============================================================================
