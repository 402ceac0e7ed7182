--------------------------- MODULE WorkbookContext ---------------------------
(***************************************************************************)
(* What an agent is told of the workbook before every model call: the      *)
(* overview of its structure, from a cache that structural writes          *)
(* invalidate (context/blueprint.ts), put in front of the messages by the  *)
(* injector of the tab (taskpane/context-injection.ts).                    *)
(*                                                                         *)
(* Every tab has an injector of its own; the cache is shared by all tabs.  *)
(* An overview is built over several host calls, the injector gives it up  *)
(* after a timeout, and the build goes on by itself, while the tools of    *)
(* this tab and of the others write.  The cells changed since the last     *)
(* call (context/change-tracker.ts) are left out.                          *)
(***************************************************************************)
EXTENDS Naturals

CONSTANTS Agents,       \* the tabs
          Ids,          \* identities of the one open workbook
          Unknown,      \* the key of a workbook without identity
          Builds,       \* buildOverview calls that may be under way at once
          MaxStructure, \* bound on the number of structural changes
          Nothing

ASSUME ContextAssumption ==
  /\ Unknown \notin Ids /\ Nothing \notin Ids \cup {Unknown}
  /\ Nothing \notin Builds /\ MaxStructure \in Nat

Keys == Ids \cup {Unknown}

VARIABLES
  identity,  \* the identity of the workbook at this moment
  structure, \* version of the sheets, headers, tables and names
  overview,  \* per key: the cached overview, or Nothing
  build,     \* per build: the overview under construction, or Nothing
  change,    \* per tab: its structural write, or Nothing
  injection, \* per tab: where its injector stands
  lastKey,   \* per tab: lastInjectedWorkbookId
  current,   \* the tabs whose lastInjectedBlueprintRevision is the revision of
             \* their key at this moment
  belief,    \* per tab: the overview injected last, or Nothing
  told       \* per key: the version the last invalidation announced

cacheVars == <<overview, build, told>>
injectorVars == <<injection, lastKey, current, belief>>
contextVars == <<identity, structure, cacheVars, change, injectorVars>>

Versions == 0 .. MaxStructure

\* An overview and whether an invalidation of its key overlapped its making.
Overviews == [version : Versions, overlapped : BOOLEAN]

\* A build, whose version is Nothing before it has read one, and an injector.
BuildRecords == [key : Keys, version : Versions \cup {Nothing}, overlapped : BOOLEAN]
Injections ==
  [at : {"idle", "waiting", "answered"}, key : Keys \cup {Nothing},
   build : Builds \cup {Nothing}, answer : Overviews \cup {Nothing}]

ASSUME BuildAssumption == Nothing \notin BuildRecords

Idle == [at |-> "idle", key |-> Nothing, build |-> Nothing, answer |-> Nothing]

ContextInit ==
  /\ identity \in Ids
  /\ structure = 0
  /\ overview = [k \in Keys |-> Nothing]
  /\ build = [b \in Builds |-> Nothing]
  /\ change = [t \in Agents |-> Nothing]
  /\ injection = [t \in Agents |-> Idle]
  /\ lastKey = [t \in Agents |-> Nothing]
  /\ current = {}
  /\ belief = [t \in Agents |-> Nothing]
  /\ told = [k \in Keys |-> 0]

\* getWorkbookContext: the identity, or none when the host fails or is slow.
Resolved == {identity, Unknown}

\* bumpRevisionForKey: no tab has noted the new revision.
Bumped(k) == current \ {t \in Agents : lastKey[t] = k}

-----------------------------------------------------------------------------
(* Structural writes of the tools of a tab. *)

\* A tab is between two model calls when its tools run.
StartChange(t) ==
  /\ injection[t] = Idle /\ change[t] = Nothing
  /\ structure < MaxStructure
  /\ \E k \in Resolved : change' = [change EXCEPT ![t] = [key |-> k, made |-> 0]]
  /\ UNCHANGED <<identity, structure, cacheVars, injectorVars>>

\* The write changes the workbook.  When the tool throws after that, nobody
\* is told.
MakeChange(t) ==
  /\ change[t] # Nothing /\ change[t].made = 0 /\ structure < MaxStructure
  /\ structure' = structure + 1
  /\ \/ change' = [change EXCEPT ![t].made = structure']
     \/ change' = [change EXCEPT ![t] = Nothing]
  /\ UNCHANGED <<identity, cacheVars, injectorVars>>

\* onWriteCommitted: invalidateBlueprint of the key the call was made with.
\* Builds under way and answers on their way are not recalled, only marked here.
Announce(t) ==
  /\ change[t] # Nothing /\ change[t].made > 0
  /\ LET k == change[t].key IN
       /\ overview' = [overview EXCEPT ![k] = Nothing]
       /\ current' = Bumped(k)
       /\ told' = [told EXCEPT ![k] = IF @ < change[t].made THEN change[t].made ELSE @]
       /\ build' = [b \in Builds |-> IF build[b] # Nothing /\ build[b].key = k
                                       THEN [build[b] EXCEPT !.overlapped = TRUE] ELSE build[b]]
       /\ injection' = [a \in Agents |-> IF injection[a].answer # Nothing /\ injection[a].key = k
                                           THEN [injection[a] EXCEPT !.answer.overlapped = TRUE]
                                           ELSE injection[a]]
  /\ change' = [change EXCEPT ![t] = Nothing]
  /\ UNCHANGED <<identity, structure, lastKey, belief>>

\* The first save, or a save under another name.
Rename(id) ==
  /\ id # identity
  /\ identity' = id
  /\ UNCHANGED <<structure, cacheVars, change, injectorVars>>

-----------------------------------------------------------------------------
(* getBlueprint. *)

BuildReads(b) ==
  /\ build[b] # Nothing /\ build[b].version = Nothing
  /\ build' = [build EXCEPT ![b].version = structure]
  /\ UNCHANGED <<identity, structure, overview, told, change, injectorVars>>

\* The tabs that wait for build b, if any, get its answer.
Answered(b, answer) ==
  [t \in Agents |-> IF injection[t].build = b
                      THEN [injection[t] EXCEPT !.at = "answered", !.build = Nothing, !.answer = answer]
                      ELSE injection[t]]

BuildEnds(b) ==
  /\ build[b] # Nothing /\ build[b].version # Nothing
  /\ LET o == [version |-> build[b].version, overlapped |-> build[b].overlapped]
         k == build[b].key
     IN  /\ overview' = [overview EXCEPT ![k] = o]
         /\ current' = Bumped(k)
         /\ injection' = Answered(b, o)
  /\ build' = [build EXCEPT ![b] = Nothing]
  /\ UNCHANGED <<identity, structure, told, change, lastKey, belief>>

BuildFails(b) ==
  /\ build[b] # Nothing
  /\ build' = [build EXCEPT ![b] = Nothing]
  /\ injection' = Answered(b, Nothing)
  /\ UNCHANGED <<identity, structure, overview, told, change, lastKey, current, belief>>

-----------------------------------------------------------------------------
(* The injector of a tab. *)

\* decideWorkbookContextRefresh; "bootstrap" adopts what the messages show.
Reason(t, k, inHistory) ==
  CASE lastKey[t] # Nothing /\ lastKey[t] # k -> "workbook_switched"
    [] lastKey[t] = k /\ t \notin current -> "blueprint_invalidated"
    [] ~inHistory -> IF lastKey[t] = Nothing THEN "initial" ELSE "context_missing"
    [] OTHER -> IF lastKey[t] = Nothing THEN "bootstrap" ELSE "none"

Refreshes == {"workbook_switched", "blueprint_invalidated", "initial", "context_missing"}

\* The injector knows the key and decides.  Whether the messages already show
\* an overview is up to the history (a compaction drops it, a restored session
\* brings one).
Decide(t) ==
  /\ injection[t] = Idle /\ change[t] = Nothing
  /\ \E k \in Resolved, inHistory \in BOOLEAN :
       LET reason == Reason(t, k, inHistory) IN
       \/ /\ reason \in Refreshes /\ overview[k] # Nothing
          /\ injection' = [injection EXCEPT ![t] = [at |-> "answered", key |-> k, build |-> Nothing,
                                                    answer |-> overview[k]]]
          /\ UNCHANGED <<lastKey, current, build>>
       \/ /\ reason \in Refreshes /\ overview[k] = Nothing
          /\ \E b \in Builds :
               /\ build[b] = Nothing
               /\ build' = [build EXCEPT ![b] = [key |-> k, version |-> Nothing, overlapped |-> FALSE]]
               /\ injection' = [injection EXCEPT ![t] = [at |-> "waiting", key |-> k, build |-> b,
                                                         answer |-> Nothing]]
          /\ UNCHANGED <<lastKey, current>>
       \/ /\ reason \notin Refreshes
          /\ lastKey' = [lastKey EXCEPT ![t] = k]
          /\ current' = current \cup {t}
          /\ UNCHANGED <<injection, build>>
  /\ UNCHANGED <<identity, structure, overview, told, change, belief>>

\* 2500 ms are over.  The build goes on.
GivesUp(t) ==
  /\ injection[t].at = "waiting"
  /\ injection' = [injection EXCEPT ![t] = Idle]
  /\ UNCHANGED <<identity, structure, cacheVars, change, lastKey, current, belief>>

\* Variant: the tab notes the revision although it has no overview to show.
ReceiveNothingSeen(t) ==
  /\ injection[t].at = "answered"
  /\ belief' = [belief EXCEPT ![t] = IF injection[t].answer = Nothing THEN @ ELSE injection[t].answer]
  /\ lastKey' = [lastKey EXCEPT ![t] = injection[t].key]
  /\ current' = current \cup {t}
  /\ injection' = [injection EXCEPT ![t] = Idle]
  /\ UNCHANGED <<identity, structure, cacheVars, change>>

\* The overview goes into the messages and its revision, as it is now, is noted.
Receive(t) ==
  /\ injection[t].at = "answered"
  /\ IF injection[t].answer = Nothing
       THEN UNCHANGED <<belief, lastKey, current>>
       ELSE /\ belief' = [belief EXCEPT ![t] = injection[t].answer]
            /\ lastKey' = [lastKey EXCEPT ![t] = injection[t].key]
            /\ current' = current \cup {t}
  /\ injection' = [injection EXCEPT ![t] = Idle]
  /\ UNCHANGED <<identity, structure, cacheVars, change>>

ContextNext ==
  \/ \E t \in Agents : StartChange(t) \/ MakeChange(t) \/ Announce(t)
  \/ \E t \in Agents : Decide(t) \/ GivesUp(t) \/ Receive(t)
  \/ \E b \in Builds : BuildReads(b) \/ BuildEnds(b) \/ BuildFails(b)
  \/ \E id \in Ids : Rename(id)

ContextSpec == ContextInit /\ [][ContextNext]_contextVars

-----------------------------------------------------------------------------
(* Properties. *)

\* Every variable keeps its type.
ContextTypeOK ==
  /\ identity \in Ids /\ structure \in Versions
  /\ overview \in [Keys -> Overviews \cup {Nothing}]
  /\ build \in [Builds -> BuildRecords \cup {Nothing}]
  /\ change \in [Agents -> [key : Keys, made : Versions] \cup {Nothing}]
  /\ injection \in [Agents -> Injections]
  /\ lastKey \in [Agents -> Keys \cup {Nothing}]
  /\ current \subseteq Agents
  /\ belief \in [Agents -> Overviews \cup {Nothing}]
  /\ told \in [Keys -> Versions]

\* A cached overview is not older than the last change announced under its key,
\* unless an invalidation overlapped its making: then the old overview is
\* cached after the invalidation (getBlueprint, invalidateBlueprint).
StaleOnlyByOverlap ==
  \A k \in Keys :
    overview[k] # Nothing /\ ~overview[k].overlapped => overview[k].version >= told[k]

\* An injector that takes its overview for current, because the revision has not
\* moved since, is right about every change announced under that key, whatever
\* timeouts, failed builds and fills by other tabs came between
\* (lastInjectedBlueprintRevision), again up to overlaps.
TrustedIsCurrent ==
  \A t \in Agents :
    /\ belief[t] # Nothing
    /\ t \in current
    => belief[t].overlapped \/ belief[t].version >= told[lastKey[t]]

==============================================================================
