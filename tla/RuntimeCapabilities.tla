------------------------- MODULE RuntimeCapabilities -------------------------
(***************************************************************************)
(* The tools and the system prompt of the agents.  They are built from the *)
(* workbook, the extensions, the connections, the skills and the settings, *)
(* and whatever changes one of these asks for a refresh.                   *)
(*                                                                         *)
(* refreshCapabilities of SessionRuntimeManager goes through the           *)
(* registered tabs, one pass at a time.  Two builds do not go through it:  *)
(* the one of a tab that is being created, which is not registered yet,    *)
(* and the one a tab starts by itself when it gets another session.        *)
(***************************************************************************)
EXTENDS Naturals

CONSTANTS Tabs, MaxSource, NoTab, NoBuild

ASSUME CapabilitiesAssumption == MaxSource \in Nat /\ NoBuild \notin Nat /\ NoTab \notin Tabs

VARIABLES
  source,    \* version of everything the capabilities are built from
  tabState,  \* per tab: "none", "creating", "open" or "closed"
  has,       \* per tab: the version its agent has
  own,       \* per tab: what the build of its creation or of its new session
             \* has read, or NoBuild
  wanted,    \* refreshRequested
  visited,   \* the tab the pass refreshes, or NoTab between passes
  toVisit,   \* the tabs the pass refreshes after it
  passRead,  \* what the build of the pass has read, or NoBuild
  late,      \* tabs given an outdated version by a build of their own
  failed     \* tabs whose last refresh failed

passVars == <<wanted, visited, toVisit, passRead>>
capVars == <<source, tabState, has, own, passVars, late, failed>>

Sources == 0 .. MaxSource
OpenTabs == {t \in Tabs : tabState[t] = "open"}

CapInit ==
  /\ source = 0
  /\ tabState = [t \in Tabs |-> "none"]
  /\ has = [t \in Tabs |-> 0]
  /\ own = [t \in Tabs |-> NoBuild]
  /\ wanted = FALSE /\ visited = NoTab /\ toVisit = {} /\ passRead = NoBuild
  /\ late = {} /\ failed = {}

\* The pass goes on with one of the tabs S, in the order of the strip, whatever
\* it is.
VisitNext(S) ==
  /\ visited' \in S
  /\ toVisit' = S \ {visited'}
  /\ passRead' = NoBuild

\* A pass of runCapabilityRefreshes takes the registered tabs, as they are now.
PassBegins ==
  /\ wanted' = FALSE
  /\ IF OpenTabs # {} THEN VisitNext(OpenTabs)
     ELSE visited' = NoTab /\ toVisit' = {} /\ passRead' = NoBuild

\* Variant: a request during a pass is taken to be served by it.
RequestShared == IF visited # NoTab THEN UNCHANGED passVars ELSE PassBegins

\* refreshCapabilities.
Request ==
  IF visited # NoTab THEN wanted' = TRUE /\ UNCHANGED <<visited, toVisit, passRead>>
                     ELSE PassBegins

\* An extension (un)registers a tool, a connection, a skill or a setting changes.
SourceChanges ==
  /\ source < MaxSource
  /\ source' = source + 1
  /\ Request
  /\ UNCHANGED <<tabState, has, own, late, failed>>

\* buildRuntimeCapabilities of the pass reads the sources; its awaits follow.
PassReads ==
  /\ visited # NoTab /\ passRead = NoBuild
  /\ passRead' = source
  /\ UNCHANGED <<source, tabState, has, own, wanted, visited, toVisit, late, failed>>

\* The tab is done: the next one, the next pass, or the end.
NextVisit ==
  IF toVisit # {} THEN VisitNext(toVisit) /\ UNCHANGED wanted
  ELSE IF wanted THEN PassBegins
  ELSE visited' = NoTab /\ passRead' = NoBuild /\ UNCHANGED <<wanted, toVisit>>

\* The agent gets the tools and the prompt if they differ from what it has.
PassApplies ==
  /\ visited # NoTab /\ passRead # NoBuild
  /\ has' = [has EXCEPT ![visited] = passRead]
  /\ late' = late \ {visited} /\ failed' = failed \ {visited}
  /\ NextVisit
  /\ UNCHANGED <<source, tabState, own>>

\* The build throws: a warning, and the next tab.
PassFails ==
  /\ visited # NoTab
  /\ failed' = failed \cup {visited}
  /\ NextVisit
  /\ UNCHANGED <<source, tabState, has, own, late>>

-----------------------------------------------------------------------------
(* buildSessionRuntime: the last build reads the sources before the tab is   *)
(* registered.                                                               *)

Create(t) ==
  /\ tabState[t] = "none"
  /\ tabState' = [tabState EXCEPT ![t] = "creating"]
  /\ own' = [own EXCEPT ![t] = source]
  /\ UNCHANGED <<source, has, passVars, late, failed>>

\* What a build of the tab itself gives to its agent.
OwnApplied(t) ==
  /\ has' = [has EXCEPT ![t] = own[t]]
  /\ late' = IF own[t] = source THEN late \ {t} ELSE late \cup {t}
  /\ own' = [own EXCEPT ![t] = NoBuild]

\* The build throws and there is no tab.
CreateFails(t) ==
  /\ tabState[t] = "creating"
  /\ tabState' = [tabState EXCEPT ![t] = "none"]
  /\ own' = [own EXCEPT ![t] = NoBuild]
  /\ UNCHANGED <<source, passVars, has, late, failed>>

RegisterTab(t) ==
  /\ tabState[t] = "creating"
  /\ tabState' = [tabState EXCEPT ![t] = "open"]
  /\ OwnApplied(t)
  /\ UNCHANGED <<source, passVars, failed>>

\* The tab gets another session and refreshes itself, beside any pass.
SessionChanges(t) ==
  /\ tabState[t] = "open" /\ own[t] = NoBuild
  /\ own' = [own EXCEPT ![t] = source]
  /\ UNCHANGED <<source, tabState, has, passVars, late, failed>>

SessionApplied(t) ==
  /\ tabState[t] = "open" /\ own[t] # NoBuild
  /\ OwnApplied(t)
  /\ failed' = failed \ {t}
  /\ UNCHANGED <<source, tabState, passVars>>

CloseTab(t) ==
  /\ tabState[t] = "open" /\ OpenTabs # {t}
  /\ tabState' = [tabState EXCEPT ![t] = "closed"]
  /\ UNCHANGED <<source, has, own, passVars, late, failed>>

PassStep == PassReads \/ PassApplies \/ PassFails

CapNext ==
  \/ SourceChanges
  \/ PassReads \/ PassApplies \/ PassFails
  \/ \E t \in Tabs : Create(t) \/ CreateFails(t) \/ RegisterTab(t) \/ SessionChanges(t) \/ SessionApplied(t) \/ CloseTab(t)

CapSpec == CapInit /\ [][CapNext]_capVars

\* The awaits of a pass come to an end.
CapFairness == WF_capVars(PassStep)

-----------------------------------------------------------------------------
(* Properties. *)

\* Every variable keeps its type.
CapTypeOK ==
  /\ source \in Sources
  /\ tabState \in [Tabs -> {"none", "creating", "open", "closed"}]
  /\ has \in [Tabs -> Sources] /\ own \in [Tabs -> Sources \cup {NoBuild}]
  /\ wanted \in BOOLEAN /\ passRead \in Sources \cup {NoBuild}
  /\ visited \in Tabs \cup {NoTab} /\ toVisit \subseteq Tabs \ {visited}
  /\ late \subseteq Tabs /\ failed \subseteq Tabs
  /\ visited = NoTab => toVisit = {} /\ passRead = NoBuild /\ ~wanted

\* When the refreshes have come to rest every open tab has what the sources say,
\* unless its last refresh failed or a build of its own was overtaken: requests
\* during a pass start another one (refreshRequested), whatever tabs open,
\* close and change sessions meanwhile.
RestIsCurrent ==
  visited = NoTab => \A t \in OpenTabs \ (late \cup failed) : has[t] = source

==============================================================================
