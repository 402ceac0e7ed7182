--------------------------- MODULE ExtensionManager ---------------------------
(***************************************************************************)
(* The extension manager (extensions/runtime-manager.ts): installing,      *)
(* enabling, disabling, reloading and uninstalling extensions, their       *)
(* activation at start-up, and the refresh that hands the registered tools *)
(* to the agents (SessionRuntimeManager.refreshCapabilities).              *)
(*                                                                         *)
(* Every method of the manager is a chain of awaits over shared maps, and  *)
(* nothing makes one wait for another: the dialogs of the user, the        *)
(* extensions_manager tool of every agent and the start-up interleave.     *)
(* The tool of an extension stands for everything it contributes.          *)
(***************************************************************************)
EXTENDS Integers, Sequences, SequencesExt, FiniteSets

CONSTANTS Extensions, \* ids of entries, installed or yet to be installed
          Listed,     \* the enabled entries stored when the taskpane starts; a call
                      \* may disable one before initialize() comes to it
          Requests,   \* calls of the manager, each made at most once
          Operations, \* the methods that are called
          Boot,       \* initialize()
          MaxDropped, \* bound on the instances that call unregisterTool
          NoInstance

ASSUME ExtensionAssumption ==
  /\ MaxDropped \in Nat
  /\ Listed \in Seq(Extensions) /\ IsInjective(Listed)
  /\ Requests \cap Extensions = {} /\ Boot \notin Requests
  /\ NoInstance \notin Requests \cup Extensions
  /\ Operations \subseteq {"install", "enable", "disable", "reload", "grant", "uninstall"}

Processes == Requests \cup {Boot}

\* One activation is made per call, and one per extension by initialize().
Instances == Requests \cup Extensions

Stages == {"new", "persist", "stop", "settle", "load", "loading", "clear", "store", "next", "done"}

VARIABLES
  entries,    \* this.entries
  enabled,    \* the entries with enabled = true
  activeStates, \* per extension the instance that is its state
  life,       \* per instance: what became of its code
  tool,       \* extensionTools: per extension the instance its tool belongs to
  owners,     \* the instances whose state.toolNames is not empty
  pc,         \* per call: the await it stands at
  op,         \* per call: the method
  subject,    \* per call: the extension it is about
  victim,     \* per call: the instance it cleans up
  index,      \* per call: entryIndex of an uninstall, the loop of initialize()
  ending,     \* the calls that are over after the await they stand at
  requested,  \* refreshRequested
  refresher,  \* the pass of runCapabilityRefreshes
  built,      \* the tools the pass has read
  agentTools, \* the tools the agents have, by instance
  dropped,    \* the instances that have called it; none registers again
  overlapped, \* extensions two calls were about at the same time, or whose entry
              \* went with the uninstall of another one
  changed,    \* instances with toolsChangedDuringActivation, until activated; those
              \* that fail keep the mark when they have dropped their tool before
  displaced,  \* uninstalls during which another one removed its entry
  unsettled   \* extensions left running by a call that set enabled to false and then
              \* failed to store it, until a call stops them

callVars == <<pc, op, subject, victim, index, ending>>
registryVars == <<entries, enabled>>
loadVars == <<activeStates, life, tool, owners, changed, dropped>>
toolPassVars == <<requested, refresher, built, agentTools>>
ghosts == <<overlapped, displaced, unsettled>>
extensionVars == <<callVars, registryVars, loadVars, toolPassVars, ghosts>>

Tools == {tool[e] : e \in Extensions} \ {NoInstance}

ExtensionInit ==
  /\ entries = Listed
  /\ enabled = ToSet(Listed)
  /\ activeStates = [e \in Extensions |-> NoInstance]
  /\ life = [i \in Instances |-> "none"]
  /\ tool = [e \in Extensions |-> NoInstance]
  /\ owners = {}
  /\ pc = [p \in Processes |-> IF p = Boot THEN "next" ELSE "new"]
  /\ op = [p \in Processes |-> "none"]
  /\ subject = [p \in Processes |-> NoInstance]
  /\ victim = [p \in Processes |-> NoInstance]
  /\ index = [p \in Processes |-> 1]
  /\ ending = {}
  /\ requested = FALSE
  /\ refresher = "off"
  /\ built = {}
  /\ agentTools = {}
  /\ overlapped = {} /\ displaced = {} /\ unsettled = {} /\ changed = {} /\ dropped = {}

InFlight(p) == pc[p] \notin {"new", "next", "done"}

\* The instance a call activates.
Instance(p) == IF p = Boot THEN subject[p] ELSE p

ExtensionOf(i) == IF i \in Extensions THEN i ELSE subject[i]

At(p, stage) == pc' = [pc EXCEPT ![p] = stage]

\* Notes, for the properties, that another call about e is under way.
NoteOverlap(p, e) ==
  overlapped' = IF \E q \in Processes \ {p} : InFlight(q) /\ subject[q] = e
                THEN overlapped \cup {e} ELSE overlapped

-----------------------------------------------------------------------------
(* refreshCapabilities: one pass at a time, a call during a pass asks for   *)
(* another one.  A pass reads the registered tools and then hands them to   *)
(* the agents.                                                              *)

\* Variant: a call during a pass shares it.
AskRefreshShared ==
  /\ refresher' = IF refresher = "off" THEN "building" ELSE refresher
  /\ UNCHANGED <<requested, built, agentTools>>

AskRefresh ==
  /\ refresher' = IF refresher = "off" THEN "building" ELSE refresher
  /\ requested' = (refresher # "off")
  /\ UNCHANGED <<built, agentTools>>

RefreshRead ==
  /\ refresher = "building"
  /\ built' = Tools
  /\ refresher' = "built"
  /\ UNCHANGED <<callVars, registryVars, loadVars, requested, agentTools, ghosts>>

RefreshApply ==
  /\ refresher = "built"
  /\ agentTools' = built
  /\ refresher' = IF requested THEN "building" ELSE "off"
  /\ requested' = FALSE
  /\ UNCHANGED <<callVars, registryVars, loadVars, built, ghosts>>

-----------------------------------------------------------------------------
(* The calls. *)

\* The await after a change of an entry: the registry is stored.
CallEnable(p, e) ==
  /\ e \in ToSet(entries) \ enabled
  /\ enabled' = enabled \cup {e}
  /\ At(p, "persist")
  /\ UNCHANGED <<entries, activeStates, life, victim, index, unsettled>>

CallDisable(p, e) ==
  /\ e \in ToSet(entries) \cap enabled
  /\ enabled' = enabled \ {e}
  /\ At(p, "persist")
  /\ UNCHANGED <<entries, activeStates, life, victim, index, unsettled>>

\* setExtensionCapability: the permissions are no part of the model, the reload
\* with them is.
CallGrant(p, e) ==
  /\ e \in ToSet(entries)
  /\ At(p, "persist")
  /\ UNCHANGED <<registryVars, activeStates, life, victim, index, unsettled>>

CallInstall(p, e) ==
  /\ e \notin ToSet(entries)
  /\ e \notin ToSet(Listed) /\ \A q \in Requests : subject[q] # e
  /\ entries' = Append(entries, e)
  /\ enabled' = enabled \cup {e}
  /\ At(p, "persist")
  /\ UNCHANGED <<activeStates, life, victim, index, unsettled>>

\* deactivateEntry: the state leaves activeStates and its code is told to stop.
\* Without a state there is nothing to wait for.
Deactivate(p, e, stage) ==
  /\ unsettled' = unsettled \ {e}
  /\ IF activeStates[e] = NoInstance
       THEN /\ At(p, stage)
            /\ UNCHANGED <<activeStates, life, victim>>
       ELSE /\ At(p, "stop")
            /\ victim' = [victim EXCEPT ![p] = activeStates[e]]
            /\ activeStates' = [activeStates EXCEPT ![e] = NoInstance]
            /\ life' = [life EXCEPT ![activeStates[e]] = "stopping"]

CallReload(p, e) ==
  /\ e \in ToSet(entries)
  /\ Deactivate(p, e, IF e \in enabled THEN "load" ELSE "done")
  /\ UNCHANGED <<entries, enabled, index>>

\* Variant: a place of -1 is not refused.
CallUninstallUnchecked(p, e) ==
  /\ index' = [index EXCEPT ![p] = IF e \in ToSet(entries)
                                   THEN CHOOSE n \in DOMAIN entries : entries[n] = e ELSE 0 - 1]
  /\ Deactivate(p, e, "clear")
  /\ UNCHANGED <<entries, enabled>>

CallUninstall(p, e) ==
  /\ e \in ToSet(entries)
  /\ index' = [index EXCEPT ![p] = CHOOSE n \in DOMAIN entries : entries[n] = e]
  /\ Deactivate(p, e, "clear")
  /\ UNCHANGED <<entries, enabled>>

Call(p, e) ==
  /\ pc[p] = "new"
  /\ \E o \in Operations :
       /\ op' = [op EXCEPT ![p] = o]
       /\ \/ o = "install" /\ CallInstall(p, e)
          \/ o = "enable" /\ CallEnable(p, e)
          \/ o = "disable" /\ CallDisable(p, e)
          \/ o = "reload" /\ CallReload(p, e)
          \/ o = "grant" /\ CallGrant(p, e)
          \/ o = "uninstall" /\ CallUninstall(p, e)
  /\ subject' = [subject EXCEPT ![p] = e]
  /\ NoteOverlap(p, e)
  /\ UNCHANGED <<ending, tool, owners, changed, dropped, toolPassVars, displaced>>

\* initialize() comes to the next entry of the list as it is now.
BootNext ==
  /\ pc[Boot] = "next" /\ index[Boot] <= Len(entries)
  /\ LET e == entries[index[Boot]] IN
     /\ index' = [index EXCEPT ![Boot] = @ + 1]
     /\ IF e \in enabled
          THEN /\ subject' = [subject EXCEPT ![Boot] = e]
               /\ Deactivate(Boot, e, "load")
               /\ NoteOverlap(Boot, e)
          ELSE UNCHANGED <<subject, pc, activeStates, life, victim, overlapped, unsettled>>
  /\ UNCHANGED <<op, ending, registryVars, tool, owners, changed, dropped, toolPassVars, displaced>>

BootEnds ==
  /\ pc[Boot] = "next" /\ index[Boot] > Len(entries)
  /\ At(Boot, "done")
  /\ UNCHANGED <<op, subject, victim, index, ending, registryVars, loadVars, toolPassVars, ghosts>>

\* A call is over; initialize() goes on with the list.
Over(p) == IF p = Boot THEN "next" ELSE "done"

\* The locals of a call that is over are forgotten.
Forget(p) ==
  /\ op' = [op EXCEPT ![p] = IF pc'[p] = "done" THEN "none" ELSE @]
  /\ index' = [index EXCEPT ![p] = IF pc'[p] = "done" THEN 1 ELSE @]

\* Variant: the registry is stored and the extension is left running.
PersistedRunning(p) ==
  /\ pc[p] = "persist"
  /\ IF op[p] = "disable"
     THEN At(p, "done") /\ UNCHANGED <<activeStates, life, victim, unsettled>>
     ELSE Deactivate(p, subject[p], "load")
  /\ Forget(p)
  /\ UNCHANGED <<subject, ending, registryVars, tool, owners, changed, dropped, toolPassVars, overlapped, displaced>>

\* The registry is stored; activateEntry begins with a deactivateEntry too.  For
\* a changed permission an enabled extension that is still there is reloaded.
Persisted(p) ==
  /\ pc[p] = "persist"
  /\ IF op[p] = "grant" /\ subject[p] \notin enabled \cap ToSet(entries)
       THEN At(p, "done") /\ UNCHANGED <<activeStates, life, victim, unsettled>>
       ELSE Deactivate(p, subject[p], IF op[p] = "disable" THEN "done" ELSE "load")
  /\ Forget(p)
  /\ UNCHANGED <<subject, ending, registryVars, tool, owners, changed, dropped, toolPassVars, overlapped, displaced>>

\* The registry is not stored and the call throws.  Its change of the entry stays,
\* and what was to follow does not: the extension goes on as it was.
PersistFails(p) ==
  /\ pc[p] = "persist"
  /\ At(p, "done")
  /\ unsettled' = IF op[p] = "disable" THEN unsettled \cup {subject[p]} ELSE unsettled
  /\ Forget(p)
  /\ UNCHANGED <<subject, victim, ending, registryVars, loadVars, toolPassVars, overlapped, displaced>>

-----------------------------------------------------------------------------
(* The code of an extension. *)

\* cleanupState of instance i once its code has stopped: its tool goes, and
\* also the tool of a later instance of the same extension, whose name it is.
RemoveTool(p, i, e, after) ==
  /\ owners' = owners \ {i}
  /\ IF i \in owners /\ tool[e] # NoInstance
       THEN /\ tool' = [tool EXCEPT ![e] = NoInstance]
            /\ AskRefresh
            /\ At(p, "settle")
       ELSE /\ At(p, after)
            /\ UNCHANGED <<tool, toolPassVars>>

\* What a call does after the clean-up.
AfterCleanUp(p) ==
  CASE p \in ending -> Over(p)
    [] p \notin ending /\ op[p] = "uninstall" -> "clear"
    [] p \notin ending /\ op[p] = "disable" -> "done"
    [] p \notin ending /\ op[p] \in {"reload", "grant"} /\ subject[p] \notin enabled -> "done"
    [] OTHER -> "load"

\* handle.deactivate() is over.
Stopped(p) ==
  /\ pc[p] = "stop"
  /\ life' = [life EXCEPT ![victim[p]] = "gone"]
  /\ RemoveTool(p, victim[p], subject[p], AfterCleanUp(p))
  /\ victim' = [victim EXCEPT ![p] = NoInstance]
  /\ Forget(p)
  /\ UNCHANGED <<subject, ending, registryVars, activeStates, changed, dropped, ghosts>>

\* handle.deactivate() rejects: the clean-up goes on and then throws.
StopFails(p) ==
  /\ pc[p] = "stop"
  /\ life' = [life EXCEPT ![victim[p]] = "gone"]
  /\ RemoveTool(p, victim[p], subject[p], Over(p))
  /\ ending' = IF pc'[p] = "settle" THEN ending \cup {p} ELSE ending
  /\ victim' = [victim EXCEPT ![p] = NoInstance]
  /\ Forget(p)
  /\ UNCHANGED <<subject, registryVars, activeStates, changed, dropped, ghosts>>

\* The refresh the clean-up asked for is done.
Settled(p) ==
  /\ pc[p] = "settle" /\ refresher = "off"
  /\ At(p, AfterCleanUp(p))
  /\ ending' = ending \ {p}
  /\ Forget(p)
  /\ UNCHANGED <<subject, victim, registryVars, loadVars, toolPassVars, ghosts>>

\* activateEntry: loadExtensionFromSource or activateInSandbox.
LoadStarts(p) ==
  /\ pc[p] = "load"
  /\ life' = [life EXCEPT ![Instance(p)] = "loading"]
  /\ At(p, "loading")
  /\ UNCHANGED <<op, subject, victim, index, ending, registryVars, activeStates, tool, owners, changed, dropped, toolPassVars, ghosts>>

\* registerTool, by code that is being activated or has been.  The name is the
\* extension's: another instance of it may have it and loses it.
RegisterTool(i) ==
  /\ life[i] \in {"loading", "live"} /\ i \notin owners \cup dropped
  /\ owners' = owners \cup {i}
  /\ tool' = [tool EXCEPT ![ExtensionOf(i)] = i]
  /\ IF life[i] = "live" THEN AskRefresh /\ UNCHANGED changed
                         ELSE changed' = changed \cup {i} /\ UNCHANGED toolPassVars
  /\ UNCHANGED <<callVars, registryVars, activeStates, life, dropped, ghosts>>

\* unregisterTool, which goes by the name of the tool.
UnregisterTool(i) ==
  /\ life[i] \in {"loading", "live"} /\ i \in owners
  /\ Cardinality(dropped) < MaxDropped /\ dropped' = dropped \cup {i}
  /\ tool[ExtensionOf(i)] # NoInstance
  /\ owners' = owners \ {i}
  /\ tool' = [tool EXCEPT ![ExtensionOf(i)] = NoInstance]
  /\ IF life[i] = "live" THEN AskRefresh ELSE UNCHANGED toolPassVars
  /\ UNCHANGED <<callVars, registryVars, activeStates, life, changed, ghosts>>

\* The extension is active; the agents are to get what it registered.
LoadOk(p) ==
  /\ pc[p] = "loading"
  /\ activeStates' = [activeStates EXCEPT ![subject[p]] = Instance(p)]
  /\ life' = [life EXCEPT ![Instance(p)] = "live"]
  /\ changed' = changed \ {Instance(p)}
  /\ IF Instance(p) \in changed
       THEN AskRefresh /\ ending' = ending \cup {p} /\ At(p, "settle")
       ELSE UNCHANGED <<ending, toolPassVars>> /\ At(p, Over(p))
  /\ Forget(p)
  /\ UNCHANGED <<subject, victim, registryVars, tool, owners, dropped, ghosts>>

LoadFails(p) ==
  /\ pc[p] = "loading"
  /\ life' = [life EXCEPT ![Instance(p)] = "gone"]
  /\ changed' = IF Instance(p) \in owners THEN changed \ {Instance(p)} ELSE changed
  /\ RemoveTool(p, Instance(p), subject[p], Over(p))
  /\ ending' = IF pc'[p] = "settle" THEN ending \cup {p} ELSE ending
  /\ Forget(p)
  /\ UNCHANGED <<subject, victim, registryVars, activeStates, dropped, ghosts>>

\* Notes, for the properties, the other uninstalls that have found their place,
\* and an entry that goes although it is not the one to be uninstalled.
NoteRemoval(p) ==
  /\ displaced' = (displaced \cup {q \in Requests : op[q] = "uninstall" /\ InFlight(q)}) \ {p}
  /\ overlapped' = overlapped \cup (ToSet(entries) \ (ToSet(entries') \cup {subject[p]}))

\* Variant: a place that counts from nought.
ClearedNext(p) ==
  /\ pc[p] = "clear"
  /\ entries' = IF index[p] + 1 \in DOMAIN entries THEN RemoveAt(entries, index[p] + 1) ELSE entries
  /\ NoteRemoval(p)
  /\ At(p, "store")
  /\ Forget(p)
  /\ UNCHANGED <<subject, victim, ending, enabled, loadVars, toolPassVars, unsettled>>

\* uninstallExtension after clearExtensionStorage: the entry at the place found
\* when the call began goes.
Cleared(p) ==
  /\ pc[p] = "clear"
  /\ entries' = IF index[p] \in DOMAIN entries THEN RemoveAt(entries, index[p]) ELSE entries
  /\ NoteRemoval(p)
  /\ At(p, "store")
  /\ Forget(p)
  /\ UNCHANGED <<subject, victim, ending, enabled, loadVars, toolPassVars, unsettled>>

\* clearExtensionStorage rejects: the entry stays, its code is gone.
ClearFails(p) ==
  /\ pc[p] = "clear"
  /\ At(p, "done")
  /\ Forget(p)
  /\ UNCHANGED <<subject, victim, ending, registryVars, loadVars, toolPassVars, ghosts>>

\* The registry without the entry is stored, or is not and the call throws.
Uninstalled(p) ==
  /\ pc[p] = "store"
  /\ At(p, "done")
  /\ Forget(p)
  /\ UNCHANGED <<subject, victim, ending, registryVars, loadVars, toolPassVars, ghosts>>

CallStep(p) ==
  Persisted(p) \/ PersistFails(p) \/ Stopped(p) \/ StopFails(p) \/ Settled(p) \/ LoadStarts(p)
    \/ LoadOk(p) \/ LoadFails(p) \/ Cleared(p) \/ ClearFails(p) \/ Uninstalled(p)

ExtensionNext ==
  \/ \E p \in Requests, e \in Extensions : Call(p, e)
  \/ BootNext \/ BootEnds
  \/ \E p \in Processes : CallStep(p)
  \/ \E i \in Instances : RegisterTool(i) \/ UnregisterTool(i)
  \/ RefreshRead \/ RefreshApply

ExtensionSpec == ExtensionInit /\ [][ExtensionNext]_extensionVars

-----------------------------------------------------------------------------
(* Properties. *)

MaybeInstance == Instances \cup {NoInstance}

ExtensionTypeOK ==
  /\ entries \in Seq(Extensions) /\ IsInjective(entries)
  /\ enabled \subseteq Extensions
  /\ activeStates \in [Extensions -> MaybeInstance]
  /\ life \in [Instances -> {"none", "loading", "live", "stopping", "gone"}]
  /\ tool \in [Extensions -> MaybeInstance]
  /\ owners \subseteq Instances
  /\ pc \in [Processes -> Stages]
  /\ op \in [Processes -> Operations \cup {"none"}]
  /\ subject \in [Processes -> Extensions \cup {NoInstance}]
  /\ victim \in [Processes -> MaybeInstance]
  /\ index \in [Processes -> Nat]
  /\ ending \subseteq Processes
  /\ requested \in BOOLEAN /\ (requested => refresher # "off")
  /\ refresher \in {"off", "building", "built"}
  /\ built \subseteq Instances /\ agentTools \subseteq Instances
  /\ overlapped \subseteq Extensions /\ changed \subseteq Instances /\ dropped \subseteq Instances /\ displaced \subseteq Requests
  /\ unsettled \subseteq Extensions

Running(e) == {i \in Instances : life[i] \in {"loading", "live", "stopping"} /\ ExtensionOf(i) = e}

\* The code of an extension never runs twice at the same time, as long as no
\* two calls are about it at the same time: a reload and an activation wait for
\* the old instance to stop.
OneInstanceRuns ==
  \A e \in Extensions \ overlapped : Cardinality(Running(e)) <= 1

\* Under the same condition an extension that is disabled or uninstalled, with no
\* call about it under way, runs no code and leaves no tool behind.  An extension
\* whose disabling could not be stored is the exception: the entry says that it is
\* off, and it runs on until a call stops it.
DisabledIsOff ==
  \A e \in Extensions \ (overlapped \cup unsettled \cup (enabled \cap ToSet(entries))) :
    (\A p \in Processes : subject[p] = e => ~InFlight(p)) => Running(e) = {} /\ tool[e] = NoInstance

\* What runs is what the user has enabled: one instance of it at most, and
\* nothing of an extension that is off.
RunsAsEnabled == OneInstanceRuns /\ DisabledIsOff

\* An uninstall removes its own entry and no other, whatever is installed,
\* enabled and started at the same time, unless another uninstall removed one in
\* between: then the place it found at its beginning is stale.
UninstallRemovesOwn ==
  [][\A p \in Requests \ displaced :
       op[p] = "uninstall" /\ pc[p] = "clear" /\ pc'[p] = "store"
       => ToSet(entries') = ToSet(entries) \ {subject[p]}]_extensionVars

\* Whatever overlaps: when no pass of the refresh is under way and no extension
\* is being activated, the agents have exactly the registered tools, but for an
\* activation that drops its tool and then fails: nobody refreshes after it.
AgentsHaveTheTools ==
  refresher = "off" /\ (\A i \in Instances : life[i] # "loading")
  => {i \in agentTools : \A j \in changed : ExtensionOf(i) # ExtensionOf(j)}
       = {tool[e] : e \in Extensions \ {ExtensionOf(j) : j \in changed}} \ {NoInstance}
==============================================================================
