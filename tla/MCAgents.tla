-------------------------------- MODULE MCAgents --------------------------------
(* Small instances of three components around the agents, which share no    *)
(* state: the queues (two tabs, two prompts, a /compact), the refreshes of  *)
(* the tools and those of the model catalogues.  A behaviour is one of one  *)
(* of them, chosen at the start; the others stay as they begin (compare     *)
(* MCServices).                                                             *)
EXTENDS ActionQueue, RuntimeCapabilities, ModelRefresh

CONSTANTS t1, t2, p1, p2, k1

VARIABLE component

agentsVars == <<component, vars, capVars, modelVars>>

AgentsInit ==
  /\ component \in {"queue", "capabilities", "models"}
  /\ Init /\ CapInit /\ ModelInit
  /\ component # "queue" => active = t1

AgentsNext ==
  /\ UNCHANGED component
  /\ \/ component = "queue" /\ Next /\ UNCHANGED <<capVars, modelVars>>
     \/ component = "capabilities" /\ CapNext /\ UNCHANGED <<vars, modelVars>>
     \/ component = "models" /\ ModelNext /\ UNCHANGED <<vars, capVars>>

\* Each component with its own fairness: an action of a component that was not
\* chosen is never enabled.
AgentsFairness ==
  /\ \A r \in Runtimes :
       /\ WF_agentsVars(component = "queue" /\ LoopStep(r) /\ UNCHANGED <<component, capVars, modelVars>>)
       /\ WF_agentsVars(component = "queue" /\ CompactEnds(r) /\ UNCHANGED <<component, capVars, modelVars>>)
       /\ WF_agentsVars(component = "queue" /\ MidTurnEnds(r) /\ UNCHANGED <<component, capVars, modelVars>>)
       /\ SF_agentsVars(component = "queue" /\ RunEnds(r) /\ UNCHANGED <<component, capVars, modelVars>>)
  /\ WF_agentsVars(component = "capabilities" /\ PassStep /\ UNCHANGED <<component, vars, modelVars>>)
  /\ WF_agentsVars(component = "models" /\ RefreshStep /\ UNCHANGED <<component, vars, capVars>>)

AgentsSpec == AgentsInit /\ [][AgentsNext]_agentsVars /\ AgentsFairness

\* Every variable of the three components keeps its type.
AgentsTypeOK == TypeOK /\ CapTypeOK /\ ModelTypeOK

\* The passes over the tabs come to an end (runCapabilityRefreshes), and the
\* refreshes of the catalogues come to rest again and again, unless settings are
\* re-read for ever (runRefreshes, requestRefresh).
RefreshesEnd ==
  /\ visited # NoTab ~> visited = NoTab
  /\ <>[]~requestedSync => []<>(phase = "idle")
=================================================================================
