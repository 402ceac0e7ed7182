------------------------------ MODULE ModelChoice ------------------------------
(***************************************************************************)
(* Which model the tabs use when providers come and go.  Every published   *)
(* snapshot (ModelRefresh) is reconciled with the tabs: a tab whose        *)
(* provider is gone gets the default model, and a tab whose model has      *)
(* changed in the catalogue gets the new form of it.  Working tabs are     *)
(* left alone, and the reconciliation is repeated after the end of a run.  *)
(***************************************************************************)
CONSTANTS Windows,   \* the tabs
          Providers,
          NoModel    \* of a tab that is not there yet

ASSUME ChoiceAssumption == NoModel \notin Providers

VARIABLES
  offered,  \* the providers of the registry at this moment
  listed,   \* availableProviders of the snapshot
  chosen,   \* per tab: the provider of its model
  outdated, \* the tabs whose model the catalogues have in another form
  work,     \* per tab: "none", "creating", "free", "running" or "compacting"
  timers,   \* tabs whose run has ended and whose reconciliation is to come
  unrefreshed, \* the registry changed and nothing was published since
  passedBy  \* tabs that the last reconciliation left with a provider that is not
            \* listed because they were compacting or being created, or had their
            \* model renewed; or that were given such a provider since

choiceVars == <<offered, listed, chosen, outdated, work, timers, unrefreshed, passedBy>>

Free == {t \in Windows : work[t] = "free"}
Registered == {t \in Windows : work[t] \notin {"none", "creating"}}

ChoiceInit ==
  /\ offered = {} /\ listed = {}
  /\ chosen = [t \in Windows |-> NoModel] /\ outdated = {}
  /\ work = [t \in Windows |-> "none"]
  /\ timers = {} /\ unrefreshed = FALSE /\ passedBy = {}

\* resolveRuntimeModelSwap: the model of a tab whose provider is not listed is
\* replaced by the default model, if there is one.
Swapped(t, providers, default) ==
  IF chosen[t] \notin providers /\ default \in providers THEN default ELSE chosen[t]

\* reconcileRuntimeModels, with the snapshot and the default model of it.  The
\* catalogues know the models of providers that are not listed too: a free tab
\* is given the new form of its model, if there is one, and otherwise another
\* model, if it has to have one.
Reconcile(providers) ==
  \E default \in (IF providers = {} THEN Providers ELSE providers) :
    /\ chosen' = [t \in Windows |-> IF t \in Free \ outdated THEN Swapped(t, providers, default) ELSE chosen[t]]
    /\ outdated' = outdated \ Free
    /\ passedBy' = (passedBy \ Free) \cup {t \in Windows : work[t] \in {"compacting", "creating"}}
                     \cup {t \in Free \cap outdated : chosen[t] \notin providers}

-----------------------------------------------------------------------------
(* Providers.  A login or an extension adds one, a logout or the unloading of *)
(* an extension removes one, at any time.                                     *)

ProviderComes(p) ==
  /\ p \notin offered
  /\ offered' = offered \cup {p} /\ unrefreshed' = TRUE
  /\ UNCHANGED <<listed, chosen, outdated, work, timers, passedBy>>

ProviderGoes(p) ==
  /\ p \in offered
  /\ offered' = offered \ {p} /\ unrefreshed' = TRUE
  /\ UNCHANGED <<listed, chosen, outdated, work, timers, passedBy>>

\* A catalogue is read again, or a provider is defined anew: the models of some
\* tabs have another form now.
CatalogChanges ==
  /\ outdated' \in SUBSET {t \in Windows : work[t] # "none"}
  /\ unrefreshed' = TRUE
  /\ UNCHANGED <<offered, listed, chosen, work, timers, passedBy>>

\* publish.
PublishSnapshot ==
  /\ unrefreshed
  /\ listed' = offered /\ unrefreshed' = FALSE
  /\ Reconcile(offered)
  /\ UNCHANGED <<offered, work, timers>>

-----------------------------------------------------------------------------
(* Tabs. *)

\* createRuntime takes the model of the tab in front, or the default model,
\* and waits for the tools before the tab is registered.
CreateWindow(t) ==
  /\ work[t] = "none"
  /\ \E p \in Providers :
       /\ \/ /\ Registered = {} /\ (listed # {} => p \in listed)
             /\ UNCHANGED outdated
          \/ \E u \in Registered :
               /\ p = chosen[u]
               /\ outdated' = IF u \in outdated THEN outdated \cup {t} ELSE outdated
       /\ chosen' = [chosen EXCEPT ![t] = p]
       /\ passedBy' = IF p \in listed THEN passedBy ELSE passedBy \cup {t}
  /\ work' = [work EXCEPT ![t] = "creating"]
  /\ UNCHANGED <<offered, listed, timers, unrefreshed>>

WindowReady(t) ==
  /\ work[t] = "creating"
  /\ work' = [work EXCEPT ![t] = "free"]
  /\ UNCHANGED <<offered, listed, chosen, outdated, timers, unrefreshed, passedBy>>

\* The user picks a model of the dialog, which may show one that has gone or
\* changed.
\* Working tabs refuse (selectModel).
Choose(t, p) ==
  /\ t \in Free
  /\ chosen' = [chosen EXCEPT ![t] = p]
  /\ outdated' \in {outdated \ {t}, outdated \cup {t}}
  /\ passedBy' = IF p \in listed THEN passedBy \ {t} ELSE passedBy \cup {t}
  /\ UNCHANGED <<offered, listed, work, timers, unrefreshed>>

\* A prompt or a /compact is taken from the queue.
Work(t, kind) ==
  /\ t \in Free
  /\ work' = [work EXCEPT ![t] = kind]
  /\ UNCHANGED <<offered, listed, chosen, outdated, timers, unrefreshed, passedBy>>

\* Variant: a run that ends has the tabs reconciled at once, while its queue
\* still counts as working.
RunEndsAtOnce(t) ==
  /\ work[t] = "running"
  /\ \E next \in {"free", "running", "compacting"} : work' = [work EXCEPT ![t] = next]
  /\ Reconcile(listed)
  /\ UNCHANGED <<offered, listed, timers, unrefreshed>>

\* agent_end.  The queue goes on with the next prompt, with a compaction, or
\* becomes free, before the timer.
AgentEnds(t) ==
  /\ work[t] = "running"
  /\ \E next \in {"free", "running", "compacting"} : work' = [work EXCEPT ![t] = next]
  /\ timers' = timers \cup {t}
  /\ UNCHANGED <<offered, listed, chosen, outdated, unrefreshed, passedBy>>

\* The timer of the tab: reconcileRuntimes, with the last snapshot.
Timer(t) ==
  /\ t \in timers
  /\ timers' = timers \ {t}
  /\ Reconcile(listed)
  /\ UNCHANGED <<offered, listed, work, unrefreshed>>

\* A compaction is not a run: nothing is reconciled after it.
CompactionEnds(t) ==
  /\ work[t] = "compacting"
  /\ \E next \in {"free", "running"} : work' = [work EXCEPT ![t] = next]
  /\ UNCHANGED <<offered, listed, chosen, outdated, timers, unrefreshed, passedBy>>

ChoiceNext ==
  \/ PublishSnapshot \/ CatalogChanges
  \/ \E p \in Providers : ProviderComes(p) \/ ProviderGoes(p)
  \/ \E t \in Windows :
       \/ CreateWindow(t) \/ WindowReady(t) \/ AgentEnds(t) \/ Timer(t) \/ CompactionEnds(t)
       \/ \E p \in Providers : Choose(t, p)
       \/ \E kind \in {"running", "compacting"} : Work(t, kind)

ChoiceSpec == ChoiceInit /\ [][ChoiceNext]_choiceVars

-----------------------------------------------------------------------------
(* Properties. *)

ChoiceTypeOK ==
  /\ offered \subseteq Providers /\ listed \subseteq Providers
  /\ chosen \in [Windows -> Providers \cup {NoModel}]
  /\ \A t \in Windows : chosen[t] = NoModel <=> work[t] = "none"
  /\ outdated \subseteq {t \in Windows : work[t] # "none"}
  /\ work \in [Windows -> {"none", "creating", "free", "running", "compacting"}]
  /\ timers \subseteq Windows /\ unrefreshed \in BOOLEAN /\ passedBy \subseteq Windows

AtRest == ~unrefreshed /\ timers = {} /\ listed # {}

\* When nothing is left to publish or to reconcile, a free tab has a model of a
\* listed provider, unless the last reconciliation met it in a compaction or in
\* the making, or renewed its model and looked no further.
FreeTabsUsable == AtRest => \A t \in Free \ passedBy : chosen[t] \in listed

===============================================================================
