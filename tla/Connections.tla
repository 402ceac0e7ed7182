----------------------------- MODULE Connections -----------------------------
(***************************************************************************)
(* The connections of the extensions (connections/manager.ts): their       *)
(* definitions, the one settings document with the record of each          *)
(* connection (connections/store.ts), and the tools that need connections  *)
(* (tools/with-connection-preflight.ts).  That the system prompt follows   *)
(* the records is in RuntimeCapabilities.                                  *)
(*                                                                         *)
(* A change of a record reads the whole document, changes one record and   *)
(* writes the whole document, and changes do not wait for each other.      *)
(***************************************************************************)
EXTENDS Naturals

CONSTANTS Conns,      \* connection ids
          Changes,    \* changes of records that may be under way at once
          NoChange

VARIABLES
  defined,  \* the connections with a registered definition
  stored,   \* per connection: its record in the settings document
  pending,  \* per change: the document it has loaded and changed, or NoChange
  call,     \* where a tool stands that needs every connection
  checked,  \* the connections its preflight has passed, or the one to be marked
  refused,  \* connections so marked whose record was not rewritten since
  undone    \* connections whose record a change of another one has rewritten

connVars == <<defined, stored, pending, call, checked, refused, undone>>

Statuses == {"connected", "missing", "invalid", "error"}
Records == [status : Statuses, secret : BOOLEAN] \* secret: all required ones are there
StoreDocuments == [Conns -> Records]
Pendings == [failure : BOOLEAN, conn : Conns, items : StoreDocuments, overtaken : BOOLEAN]

ASSUME ConnAssumption == NoChange \notin Pendings
Kinds == {"set", "clear", "validated", "invalid", "failure"}

\* No record counts as a missing one without secrets.
NoRecord == [status |-> "missing", secret |-> FALSE]

ConnInit ==
  /\ defined = Conns
  /\ stored = [c \in Conns |-> NoRecord]
  /\ pending = [o \in Changes |-> NoChange]
  /\ call = "off" /\ checked = {}
  /\ refused = {} /\ undone = {}

\* Variant: an error of the last call does not keep a tool off.
EffectiveTried(record) ==
  IF ~record.secret THEN "missing" ELSE IF record.status = "invalid" THEN "invalid" ELSE "connected"

\* resolveEffectiveStatus: a missing secret comes first.
Effective(record) ==
  IF ~record.secret THEN "missing"
  ELSE IF record.status \in {"invalid", "error"} THEN record.status ELSE "connected"

\* getSnapshot, for a connection that is registered.
Usable(c) == c \in defined /\ Effective(stored[c]) = "connected"

-----------------------------------------------------------------------------
(* Definitions: extensions register and unregister; records stay.            *)

Register(c) ==
  /\ c \notin defined
  /\ defined' = defined \cup {c}
  /\ UNCHANGED <<stored, pending, call, checked, refused, undone>>

Unregister(c) ==
  /\ c \in defined
  /\ defined' = defined \ {c}
  /\ UNCHANGED <<stored, pending, call, checked, refused, undone>>

-----------------------------------------------------------------------------
(* mutateConnectionRecord: load, mutate, save.                               *)

\* The mutators of setSecrets and updateSecretsFromHost, clearSecrets,
\* markValidated, markInvalid and markRuntimeAuthFailure.  Secrets that are set
\* may leave a required one empty.
Mutations(kind, record) ==
  CASE kind = "set" -> {[status |-> "connected", secret |-> TRUE], NoRecord}
    [] kind = "clear" -> {NoRecord}
    [] kind = "validated" -> {[record EXCEPT !.status = IF record.secret THEN "connected" ELSE "missing"]}
    [] kind = "invalid" -> {[record EXCEPT !.status = "invalid"]}
    [] kind = "failure" -> {[record EXCEPT !.status = "error"]}

Loaded(o, kind, c, items) ==
  \E record \in Mutations(kind, items[c]) :
    pending' = [pending EXCEPT ![o] = [failure |-> kind = "failure", conn |-> c,
                                       items |-> [items EXCEPT ![c] = record], overtaken |-> FALSE]]

\* Variant: the reader of the display, which takes a failure for an empty
\* document, is used before a change too.
ChangeReading(o) ==
  /\ pending[o] = NoChange
  /\ \E c \in defined, kind \in Kinds \ {"failure"}, items \in {stored, [d \in Conns |-> NoRecord]} :
       Loaded(o, kind, c, items)
  /\ UNCHANGED <<defined, stored, call, checked, refused, undone>>

\* A change the user or the extension asks for: the definition is looked up
\* here and not again, the document is loaded and the record mutated.
Change(o) ==
  /\ pending[o] = NoChange
  /\ \E c \in defined, kind \in Kinds \ {"failure"} : Loaded(o, kind, c, stored)
  /\ UNCHANGED <<defined, stored, call, checked, refused, undone>>

\* The load or the save throws: nothing is stored and nobody is told.
ChangeFails(o) ==
  /\ pending[o] # NoChange
  /\ pending' = [pending EXCEPT ![o] = NoChange]
  /\ UNCHANGED <<defined, stored, call, checked, refused, undone>>

\* saveConnectionStoreDocument.  Changes that have loaded before are overtaken.
\* (A record that comes out as it was need not be stored: ChangeFails.)
Save(o) ==
  /\ pending[o] # NoChange
  /\ LET c == pending[o].conn IN
       /\ stored' = pending[o].items
       /\ undone' = (undone \ {c}) \cup {d \in Conns \ {c} : stored'[d] # stored[d]}
       /\ refused' = IF pending[o].failure THEN refused \cup {c} ELSE refused \ {c}
  /\ pending' = [p \in Changes |->
       IF p = o \/ pending[p] = NoChange THEN NoChange ELSE [pending[p] EXCEPT !.overtaken = TRUE]]
  /\ UNCHANGED <<defined, call, checked>>

-----------------------------------------------------------------------------
(* A tool that needs all connections.                                        *)

CallTool ==
  /\ call = "off"
  /\ call' = "checking"
  /\ UNCHANGED <<defined, stored, pending, checked, refused, undone>>

\* One connection after the other; the first one that is not connected ends
\* the call with an error result.
Preflight(c) ==
  /\ call = "checking" /\ c \notin checked
  /\ IF Usable(c)
       THEN /\ call' = IF checked \cup {c} = Conns THEN "running" ELSE call
            /\ checked' = IF checked \cup {c} = Conns THEN {} ELSE checked \cup {c}
       ELSE call' = "off" /\ checked' = {}
  /\ UNCHANGED <<defined, stored, pending, refused, undone>>

\* The tool is done, or it fails with an authentication failure of c, which is
\* marked before the answer is given.
ToolEnds ==
  /\ call = "running"
  /\ \/ call' = "off" /\ UNCHANGED checked
     \/ \E c \in Conns : call' = "marking" /\ checked' = {c}
  /\ UNCHANGED <<defined, stored, pending, refused, undone>>

\* markRuntimeAuthFailure.  A connection that is not registered any more gets
\* no mark.
Mark(o) ==
  /\ call = "marking" /\ pending[o] = NoChange
  /\ call' = "off" /\ checked' = {}
  /\ \E c \in checked : IF c \in defined THEN Loaded(o, "failure", c, stored) ELSE UNCHANGED pending
  /\ UNCHANGED <<defined, stored, refused, undone>>

ConnNext ==
  \/ \E c \in Conns : Register(c) \/ Unregister(c) \/ Preflight(c)
  \/ \E o \in Changes : Change(o) \/ Save(o) \/ ChangeFails(o) \/ Mark(o)
  \/ CallTool \/ ToolEnds

ConnSpec == ConnInit /\ [][ConnNext]_connVars

-----------------------------------------------------------------------------
(* Properties. *)

\* Every variable keeps its type.
ConnTypeOK ==
  /\ defined \subseteq Conns /\ stored \in StoreDocuments
  /\ pending \in [Changes -> Pendings \cup {NoChange}]
  /\ call \in {"off", "checking", "running", "marking"} /\ checked \subseteq Conns
  /\ refused \subseteq Conns /\ undone \subseteq Conns

\* A change that no other save overtakes touches the record of its own
\* connection only, whatever fails on the way (mutateConnectionRecord).
OwnRecordOnly ==
  [][\A o \in Changes :
       /\ pending[o] # NoChange /\ pending'[o] = NoChange /\ ~pending[o].overtaken
       => \A c \in Conns \ {pending[o].conn} : stored'[c] = stored[c]]_connVars

\* A connection whose secret was refused stays off limits for the tools until
\* its record is rewritten, by a change of it or by one that was overtaken.
RefusedStaysOff == \A c \in refused \ undone : Effective(stored[c]) # "connected"

==============================================================================
