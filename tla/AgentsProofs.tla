----------------------------- MODULE AgentsProofs -----------------------------
(***************************************************************************)
(* The components around the agents, for any tabs, prompts, commands,      *)
(* providers and versions.                                                 *)
(*                                                                         *)
(* ActionQueue: an agent runs only for its own queue, the compactions of a *)
(* queue never drop a prompt of its own agent, and what a closed tab had   *)
(* queued never starts.                                                    *)
(*                                                                         *)
(* RuntimeCapabilities: RestIsCurrent speaks of the end of the passes      *)
(* only.  Its strengthening says what is promised to a tab that is behind  *)
(* while they go on: another pass is asked for, or this one still comes to *)
(* the tab, or it is at the tab and what it has read, if anything, is what *)
(* the sources say.                                                        *)
(*                                                                         *)
(* ModelRefresh: what is published was read from the settings and the      *)
(* catalogues of the pass that publishes it, or another pass is asked for. *)
(***************************************************************************)
EXTENDS MCAgents, ListTheorems

-----------------------------------------------------------------------------
(* ActionQueue *)

-----------------------------------------------------------------------------
(* Types, and the prompt in hand of a queue that makes room for it *)

Types ==
  /\ step \in [Runtimes -> Steps]
  /\ current \in [Runtimes -> Prompts \cup {None}]
  /\ compacting \in [Runtimes -> Compactions \cup {None}]
  /\ midTurn \in [Runtimes -> Compactions \cup {None}]
  /\ closed \in [Runtimes -> BOOLEAN]
  /\ streaming \in [Runtimes -> BOOLEAN]
  /\ transcript \in [Runtimes -> SUBSET Prompts]
  /\ tail \in [Runtimes -> Tails]
  /\ rewritten \in [Runtimes -> BOOLEAN]
  /\ active \in Open
  /\ foreign \subseteq Runtimes
  /\ \A r \in Runtimes : step[r] = "fitting" => current[r] \in Prompts

LEMMA SnapshotType ==
  ASSUME Types, NEW r \in Runtimes
  PROVE  Snapshot(r) \in Compactions
BY DEF Types, Snapshot, Compactions

LEMMA OnwardType ==
  ASSUME NEW r \in Runtimes
  PROVE  Onward(r) \in {"off", "waiting"} /\ Started(r) \in {"waiting", step[r]}
BY DEF Onward, Started

LEMMA RewriteType ==
  ASSUME Types, NEW c \in Compactions, Rewrite(c)
  PROVE  /\ transcript' \in [Runtimes -> SUBSET Prompts]
         /\ tail' \in [Runtimes -> Tails]
         /\ rewritten' \in [Runtimes -> BOOLEAN]
<1>1. c.of \in Runtimes /\ c.seen \in SUBSET Prompts /\ c.tail \in Tails
  BY DEF Compactions
<1> QED
  BY <1>1 DEF Rewrite, Types

LEMMA InitType == Init => Types
BY DEF Init, Types, Open, Steps, Tails, Actions

LEMMA NextType == Types /\ [Next]_vars => Types'
<1> SUFFICES ASSUME Types, [Next]_vars PROVE Types'
  OBVIOUS
<1> USE DEF queueVars, agentVars
<1>1. ASSUME NEW a \in Actions, Enter(a) PROVE Types'
  <2>1. active \in Runtimes
    BY DEF Types, Open
  <2>2. Started(active) \in Steps
    BY <2>1, OnwardType DEF Types, Steps
  <2> QED
    BY <1>1, <2>1, <2>2, OnwardType DEF Enter, Types, Open
<1>2. CASE DrainToAbort
  BY <1>2 DEF DrainToAbort, Types, Open
<1>3. CASE DrainToEdit
  <2>1. active \in Runtimes
    BY DEF Types, Open
  <2>2. /\ \/ UNCHANGED step
           \/ step' = [step EXCEPT ![active] = Started(active)]
        /\ UNCHANGED <<current, closed, agentVars, compacting, midTurn, active>>
    BY <1>3 DEF DrainToEdit
  <2> QED
    BY <2>1, <2>2, OnwardType DEF Types, Steps, Open
<1>4. ASSUME NEW r \in Runtimes, TakeCommand(r) PROVE Types'
  <2>1. Snapshot(active) \in Compactions
    BY SnapshotType DEF Types, Open
  <2> QED
    BY <1>4, <2>1 DEF TakeCommand, Types, Steps, Open
<1>5. ASSUME NEW r \in Runtimes, TakePrompt(r) PROVE Types'
  <2>1. Snapshot(r) \in Compactions
    BY SnapshotType
  <2>2. current' = [current EXCEPT ![r] = Head(actions[r])] /\ Head(actions[r]) \in Prompts
    BY <1>5 DEF TakePrompt
  <2> QED
    BY <1>5, <2>1, <2>2 DEF TakePrompt, Types, Steps, Open
<1>6. ASSUME NEW r \in Runtimes, TakeNothing(r) PROVE Types'
  BY <1>6 DEF TakeNothing, Types, Steps, Open
<1>7. ASSUME NEW r \in Runtimes, StartPrompt(r) PROVE Types'
  BY <1>7 DEF StartPrompt, Prompted, Types, Steps, Tails, Open
<1>8. ASSUME NEW r \in Runtimes, DropPrompt(r) PROVE Types'
  BY <1>8 DEF DropPrompt, Types, Steps, Open
<1>9. ASSUME NEW r \in Runtimes, RunDone(r) PROVE Types'
  BY <1>9, OnwardType DEF RunDone, Types, Steps, Open
<1>10. ASSUME NEW r \in Runtimes, RecoveryStarts(r) PROVE Types'
  <2>1. [Snapshot(r) EXCEPT !.tail = "other"] \in Compactions
    BY SnapshotType DEF Compactions, Tails
  <2> QED
    BY <1>10, <2>1 DEF RecoveryStarts, Types, Steps, Tails, Open
<1>11. ASSUME NEW r \in Runtimes, RecoveryGivesUp(r) PROVE Types'
  BY <1>11, OnwardType DEF RecoveryGivesUp, Types, Steps, Tails, Open
<1>12. ASSUME NEW r \in Runtimes, Retry(r) PROVE Types'
  BY <1>12 DEF Retry, Types, Steps, Open
<1>13. ASSUME NEW r \in Runtimes, RetryDone(r) PROVE Types'
  BY <1>13, OnwardType DEF RetryDone, Types, Steps, Open
<1>14. ASSUME NEW r \in Runtimes, CompactEnds(r) PROVE Types'
  <2>1. compacting[r] \in Compactions /\ Rewrite(compacting[r])
    BY <1>14 DEF CompactEnds, Types
  <2>2. compacting[r].of \in Runtimes
    BY <2>1 DEF Compactions
  <2> QED
    BY <1>14, <2>1, <2>2, RewriteType, OnwardType DEF CompactEnds, Types, Steps, Open
<1>15. ASSUME NEW r \in Runtimes, CompactThrows(r) PROVE Types'
  BY <1>15 DEF CompactThrows, Types, Steps, Open
<1>16. ASSUME NEW r \in Runtimes, MidTurnStarts(r) PROVE Types'
  BY <1>16, SnapshotType DEF MidTurnStarts, Types, Open
<1>17. ASSUME NEW r \in Runtimes, MidTurnEnds(r) PROVE Types'
  <2>1. midTurn[r] \in Compactions /\ Rewrite(midTurn[r])
    BY <1>17 DEF MidTurnEnds, Types
  <2> QED
    BY <1>17, <2>1, RewriteType DEF MidTurnEnds, Types, Open
<1>18. ASSUME NEW r \in Runtimes, RunEnds(r) PROVE Types'
  BY <1>18 DEF RunEnds, Types, Open
<1>19. ASSUME NEW r \in Runtimes, Switch(r) PROVE Types'
  BY <1>19 DEF Switch, Types, Open
<1>20. ASSUME NEW r \in Runtimes, Close(r) PROVE Types'
  <2>1. active' \in Open \ {r}
    BY <1>20 DEF Close, Types
  <2>2. closed' = [closed EXCEPT ![r] = TRUE]
    BY <1>20 DEF Close
  <2>3. active' \in Open'
    BY <2>1, <2>2 DEF Open, Types
  <2> QED
    BY <1>20, <2>2, <2>3 DEF Close, Types
<1>21. ASSUME NEW r \in Runtimes, Refresh(r) PROVE Types'
  BY <1>21 DEF Refresh, Types, Tails, Open
<1>22. CASE UNCHANGED vars
  BY <1>22 DEF vars, Types, Open
<1> QED
  BY <1>1, <1>2, <1>3, <1>4, <1>5, <1>6, <1>7, <1>8, <1>9, <1>10, <1>11, <1>12, <1>13,
     <1>14, <1>15, <1>16, <1>17, <1>18, <1>19, <1>20, <1>21, <1>22 DEF Next, LoopStep

-----------------------------------------------------------------------------
(* The queued actions *)

(* Only the user queues, the loop takes and the drains leave out.            *)
ActionsType ==
  /\ actions \in [Runtimes -> Seq(Actions)]
  /\ entered \subseteq Actions
  /\ rejected \in [Runtimes -> BOOLEAN]

LEMMA NextActions == Types /\ ActionsType /\ [Next]_vars => ActionsType'
<1> SUFFICES ASSUME Types, ActionsType, [Next]_vars PROVE ActionsType'
  OBVIOUS
<1> USE DEF queueVars, agentVars
<1>0. active \in Runtimes
  BY DEF Types, Open
<1>1. ASSUME NEW a \in Actions, Enter(a) PROVE ActionsType'
  <2>1. Append(actions[active], a) \in Seq(Actions)
    BY <1>0 DEF ActionsType
  <2> QED BY <1>0, <1>1, <2>1 DEF Enter, ActionsType
<1>2. CASE DrainToAbort
  BY <1>0, <1>2 DEF DrainToAbort, ActionsType
<1>3. CASE DrainToEdit
  <2> DEFINE commands == Without(actions[active], Prompts)
  <2>1. actions[active] \in Seq(Actions)
    BY <1>0 DEF ActionsType
  <2>2. commands \in Seq(Actions)
    BY <2>1, WithoutLeaves
  <2>3. /\ actions' = [actions EXCEPT ![active] = commands]
        /\ UNCHANGED rejected \/ rejected' = [rejected EXCEPT ![active] = FALSE]
        /\ UNCHANGED entered
    BY <1>3 DEF DrainToEdit
  <2> HIDE DEF commands
  <2> QED BY <1>0, <2>2, <2>3 DEF ActionsType
<1>4. ASSUME NEW r \in Runtimes, TakeCommand(r) \/ TakePrompt(r) PROVE ActionsType'
  <2>1. actions[r] \in Seq(Actions) /\ actions[r] # <<>>
    BY <1>4 DEF TakeCommand, TakePrompt, ActionsType
  <2>2. Tail(actions[r]) \in Seq(Actions)
    BY <2>1, ItemsOf
  <2>3. actions' = [actions EXCEPT ![r] = Tail(actions[r])] /\ UNCHANGED <<entered, rejected>>
    BY <1>4 DEF TakeCommand, TakePrompt
  <2> QED BY <2>2, <2>3 DEF ActionsType
<1>5. ASSUME NEW r \in Runtimes, TakeNothing(r) \/ StartPrompt(r) \/ DropPrompt(r) \/ RunDone(r) PROVE ActionsType'
  BY <1>5 DEF TakeNothing, StartPrompt, Prompted, DropPrompt, RunDone, ActionsType
<1>6. ASSUME NEW r \in Runtimes, RecoveryStarts(r) \/ RecoveryGivesUp(r) \/ Retry(r) \/ RetryDone(r) PROVE ActionsType'
  BY <1>6 DEF RecoveryStarts, RecoveryGivesUp, Retry, RetryDone, ActionsType
<1>7. ASSUME NEW r \in Runtimes, CompactEnds(r) \/ CompactThrows(r) PROVE ActionsType'
  BY <1>7 DEF CompactEnds, CompactThrows, ActionsType
<1>8. ASSUME NEW r \in Runtimes, MidTurnStarts(r) \/ MidTurnEnds(r) \/ RunEnds(r) PROVE ActionsType'
  BY <1>8 DEF MidTurnStarts, MidTurnEnds, RunEnds, ActionsType
<1>9. ASSUME NEW r \in Runtimes, Switch(r) \/ Refresh(r) PROVE ActionsType'
  BY <1>9 DEF Switch, Refresh, ActionsType
<1>10. ASSUME NEW r \in Runtimes, Close(r) PROVE ActionsType'
  BY <1>10 DEF Close, ActionsType
<1>11. CASE UNCHANGED vars
  BY <1>11 DEF vars, ActionsType
<1> QED
  BY <1>1, <1>2, <1>3, <1>4, <1>5, <1>6, <1>7, <1>8, <1>9, <1>10, <1>11 DEF Next, LoopStep

(* Every variable of the queues keeps its type, whatever is entered, drained *)
(* and compacted (createActionQueue).                                        *)
THEOREM QueueTypesHold == Spec => []TypeOK
<1>1. Init => Types /\ ActionsType
  <2>1. Init => ActionsType
    BY DEF Init, ActionsType
  <2> QED BY <2>1, InitType
<1>2. Types /\ ActionsType /\ [Next]_vars => (Types /\ ActionsType)'
  BY NextType, NextActions
<1>3. Types /\ ActionsType => TypeOK
  BY DEF Types, ActionsType, TypeOK
<1> QED
  BY <1>1, <1>2, <1>3, PTL DEF Spec

-----------------------------------------------------------------------------
(* An agent runs only for its own queue *)

LEMMA NextOwner == Types /\ LoopOwnsAgent /\ [Next]_vars => LoopOwnsAgent'
<1> SUFFICES ASSUME Types, LoopOwnsAgent, [Next]_vars PROVE LoopOwnsAgent'
  OBVIOUS
<1> USE DEF queueVars, agentVars, LoopOwnsAgent, Types
<1>1. ASSUME NEW a \in Actions, Enter(a) PROVE LoopOwnsAgent'
  <2>1. active \in Runtimes
    BY DEF Open
  <2> QED
    BY <1>1, <2>1 DEF Enter, Started
<1>2. CASE DrainToAbort
  BY <1>2 DEF DrainToAbort
<1>3. CASE DrainToEdit
  <2>1. active \in Runtimes
    BY DEF Open
  <2>2. /\ \/ UNCHANGED step
           \/ step' = [step EXCEPT ![active] = Started(active)]
        /\ UNCHANGED <<streaming, midTurn>>
    BY <1>3 DEF DrainToEdit
  <2> QED
    BY <2>1, <2>2 DEF Started
<1>4. ASSUME NEW r \in Runtimes, LoopStep(r) PROVE LoopOwnsAgent'
  <2>1. ASSUME TakeCommand(r) \/ TakePrompt(r) \/ TakeNothing(r) PROVE LoopOwnsAgent'
    BY <2>1 DEF TakeCommand, TakePrompt, TakeNothing
  <2>2. ASSUME StartPrompt(r) \/ DropPrompt(r) \/ RunDone(r) PROVE LoopOwnsAgent'
    BY <2>2 DEF StartPrompt, Prompted, DropPrompt, RunDone
  <2>3. ASSUME RecoveryStarts(r) \/ RecoveryGivesUp(r) PROVE LoopOwnsAgent'
    BY <2>3 DEF RecoveryStarts, RecoveryGivesUp
  <2>4. ASSUME Retry(r) \/ RetryDone(r) PROVE LoopOwnsAgent'
    BY <2>4 DEF Retry, RetryDone
  <2> QED
    BY <1>4, <2>1, <2>2, <2>3, <2>4 DEF LoopStep
<1>5. ASSUME NEW r \in Runtimes, CompactEnds(r) PROVE LoopOwnsAgent'
  BY <1>5 DEF CompactEnds, Onward
<1>6. ASSUME NEW r \in Runtimes, CompactThrows(r) PROVE LoopOwnsAgent'
  BY <1>6 DEF CompactThrows
<1>7. ASSUME NEW r \in Runtimes, MidTurnStarts(r) PROVE LoopOwnsAgent'
  BY <1>7 DEF MidTurnStarts
<1>8. ASSUME NEW r \in Runtimes, MidTurnEnds(r) PROVE LoopOwnsAgent'
  BY <1>8 DEF MidTurnEnds
<1>9. ASSUME NEW r \in Runtimes, RunEnds(r) PROVE LoopOwnsAgent'
  BY <1>9 DEF RunEnds
<1>10. ASSUME NEW r \in Runtimes, Switch(r) \/ Close(r) \/ Refresh(r) PROVE LoopOwnsAgent'
  BY <1>10 DEF Switch, Close, Refresh
<1>11. CASE UNCHANGED vars
  BY <1>11 DEF vars
<1> QED
  BY <1>1, <1>2, <1>3, <1>4, <1>5, <1>6, <1>7, <1>8, <1>9, <1>10, <1>11 DEF Next

\* agent.prompt and agent.continue are called on idle agents only, for any number
\* of tabs (LoopOwnsAgent; the running flag and waitForIdle of process()).
THEOREM AgentsHaveOneOwner == Spec => []LoopOwnsAgent
<1>1. Init => Types /\ LoopOwnsAgent
  BY InitType DEF Init, LoopOwnsAgent
<1>2. Types /\ LoopOwnsAgent /\ [Next]_vars => (Types /\ LoopOwnsAgent)'
  BY NextType, NextOwner
<1> QED
  BY <1>1, <1>2, PTL DEF Spec

-----------------------------------------------------------------------------
(* Compactions keep the prompts of their own agent *)

\* A compaction that a queue, or the run of its agent, waits for has seen every
\* prompt of that agent; only a /compact command rewrites another agent.
SeenAll ==
  \A r \in Runtimes :
    /\ compacting[r] # None =>
         /\ step[r] \in {"command", "fitting", "retrying"}
         /\ compacting[r].of # r => step[r] = "command"
         /\ compacting[r].of = r /\ r \notin foreign => transcript[r] \subseteq compacting[r].seen
    /\ midTurn[r] # None =>
         /\ midTurn[r].of = r
         /\ r \notin foreign => transcript[r] \subseteq midTurn[r].seen

\* The inductive invariant.
QueueInv == Types /\ LoopOwnsAgent /\ SeenAll

\* What a step does to the prompts.
Kept == \A r \in Runtimes \ foreign' : transcript[r] \subseteq transcript'[r]

LEMMA NextSeen == QueueInv /\ [Next]_vars => SeenAll' /\ Kept
<1> SUFFICES ASSUME QueueInv, [Next]_vars PROVE SeenAll' /\ Kept
  OBVIOUS
<1> USE DEF queueVars, agentVars, QueueInv, LoopOwnsAgent, Types, SeenAll, Kept
<1>1. ASSUME NEW a \in Actions, Enter(a) PROVE SeenAll' /\ Kept
  <2>1. active \in Runtimes
    BY DEF Open
  <2> QED
    BY <1>1, <2>1 DEF Enter, Started
<1>2. CASE DrainToAbort
  BY <1>2 DEF DrainToAbort
<1>3. CASE DrainToEdit
  <2>1. active \in Runtimes
    BY DEF Open
  <2>2. /\ \/ UNCHANGED step
           \/ step' = [step EXCEPT ![active] = Started(active)]
        /\ UNCHANGED <<agentVars, compacting, midTurn>>
    BY <1>3 DEF DrainToEdit
  <2> QED
    BY <2>1, <2>2 DEF Started
<1>4. ASSUME NEW r \in Runtimes, TakeCommand(r) PROVE SeenAll' /\ Kept
  <2>1. active \in Runtimes /\ Snapshot(active).of = active /\ Snapshot(active).seen = transcript[active]
    BY DEF Open, Snapshot
  <2> QED
    BY <1>4, <2>1 DEF TakeCommand
<1>5. ASSUME NEW r \in Runtimes, TakePrompt(r) PROVE SeenAll' /\ Kept
  <2>1. Snapshot(r).of = r /\ Snapshot(r).seen = transcript[r]
    BY DEF Snapshot
  <2> QED
    BY <1>5, <2>1 DEF TakePrompt
<1>6. ASSUME NEW r \in Runtimes, TakeNothing(r) \/ DropPrompt(r) \/ RunDone(r) \/ RetryDone(r)
      PROVE SeenAll' /\ Kept
  BY <1>6 DEF TakeNothing, DropPrompt, RunDone, RetryDone
<1>7. ASSUME NEW r \in Runtimes, StartPrompt(r) PROVE SeenAll' /\ Kept
  BY <1>7 DEF StartPrompt, Prompted
<1>8. ASSUME NEW r \in Runtimes, RecoveryStarts(r) PROVE SeenAll' /\ Kept
  <2> DEFINE c == [Snapshot(r) EXCEPT !.tail = "other"]
  <2>1. c.of = r /\ c.seen = transcript[r]
    BY DEF Snapshot
  <2>2. /\ compacting' = [compacting EXCEPT ![r] = c]
        /\ step' = [step EXCEPT ![r] = "retrying"]
        /\ UNCHANGED <<transcript, foreign, midTurn>>
    BY <1>8 DEF RecoveryStarts
  <2> HIDE DEF c
  <2> QED
    BY <2>1, <2>2
<1>9. ASSUME NEW r \in Runtimes, RecoveryGivesUp(r) \/ Retry(r) PROVE SeenAll' /\ Kept
  BY <1>9 DEF RecoveryGivesUp, Retry
<1>10. ASSUME NEW r \in Runtimes, CompactEnds(r) PROVE SeenAll' /\ Kept
  <2> DEFINE c == compacting[r]
  <2>1. c \in Compactions /\ c.of \in Runtimes
    BY <1>10 DEF CompactEnds, Compactions
  <2>2. /\ \/ transcript' = [transcript EXCEPT ![c.of] = c.seen]
           \/ transcript' = transcript
        /\ compacting' = [compacting EXCEPT ![r] = None]
        /\ midTurn' = midTurn
        /\ foreign' = IF step[r] = "command" THEN foreign \cup ({c.of} \ {r}) ELSE foreign
    BY <1>10 DEF CompactEnds, Rewrite
  <2>3. \A q \in Runtimes \ {r} : step'[q] = step[q] /\ compacting'[q] = compacting[q]
    BY <1>10 DEF CompactEnds
  <2>4. midTurn[r] = None
    BY <1>10 DEF CompactEnds
  <2>5. CASE c.of = r
    <3>1. foreign' = foreign
      BY <2>2, <2>5
    <3>2. r \notin foreign' => transcript[r] \subseteq c.seen
      BY <1>10, <2>5, <3>1 DEF CompactEnds
    <3>3. Kept
      BY <2>2, <2>5, <3>1, <3>2
    <3>4. \A q \in Runtimes \ {r} : transcript'[q] = transcript[q]
      BY <2>2, <2>5
    <3>5. compacting'[r] = None /\ midTurn'[r] = None
      BY <2>2, <2>4
    <3> HIDE DEF c
    <3>6. SeenAll'
      BY <2>2, <2>3, <3>1, <3>4, <3>5
    <3> QED
      BY <3>3, <3>6
  <2>6. CASE c.of # r
    <3>1. c.of \in foreign' /\ foreign \subseteq foreign'
      BY <1>10, <2>2, <2>6 DEF CompactEnds
    <3>2. \A q \in Runtimes \ foreign' : transcript'[q] = transcript[q]
      BY <2>2, <3>1
    <3> QED
      BY <2>2, <2>3, <3>1, <3>2
  <2> QED
    BY <2>5, <2>6
<1>11. ASSUME NEW r \in Runtimes, CompactThrows(r) PROVE SeenAll' /\ Kept
  BY <1>11 DEF CompactThrows
<1>12. ASSUME NEW r \in Runtimes, MidTurnStarts(r) PROVE SeenAll' /\ Kept
  <2>1. Snapshot(r).of = r /\ Snapshot(r).seen = transcript[r]
    BY DEF Snapshot
  <2> QED
    BY <1>12, <2>1 DEF MidTurnStarts
<1>13. ASSUME NEW r \in Runtimes, MidTurnEnds(r) PROVE SeenAll' /\ Kept
  <2> DEFINE c == midTurn[r]
  <2>1. c.of = r /\ compacting[r] = None
    BY <1>13 DEF MidTurnEnds
  <2>2. /\ \/ transcript' = [transcript EXCEPT ![r] = c.seen]
           \/ transcript' = transcript
        /\ midTurn' = [midTurn EXCEPT ![r] = None]
        /\ UNCHANGED <<compacting, foreign, step>>
    BY <1>13, <2>1 DEF MidTurnEnds, Rewrite
  <2> QED
    BY <2>1, <2>2, <1>13 DEF MidTurnEnds
<1>14. ASSUME NEW r \in Runtimes, RunEnds(r) PROVE SeenAll' /\ Kept
  BY <1>14 DEF RunEnds
<1>15. ASSUME NEW r \in Runtimes, Switch(r) \/ Close(r) \/ Refresh(r) PROVE SeenAll' /\ Kept
  BY <1>15 DEF Switch, Close, Refresh
<1>16. CASE UNCHANGED vars
  BY <1>16 DEF vars
<1> QED
  BY <1>1, <1>2, <1>3, <1>4, <1>5, <1>6, <1>7, <1>8, <1>9, <1>10, <1>11, <1>12, <1>13,
     <1>14, <1>15, <1>16 DEF Next, LoopStep

\* An agent that no /compact of another tab has rewritten keeps every prompt, for
\* any number of tabs and prompts (PromptsKept; the awaits of process()).
THEOREM PromptsSurvive == Spec => PromptsKept
<1>1. Init => QueueInv
  BY InitType DEF Init, QueueInv, LoopOwnsAgent, SeenAll
<1>2. QueueInv /\ [Next]_vars => QueueInv'
  BY NextType, NextOwner, NextSeen DEF QueueInv
<1>3. QueueInv /\ [Next]_vars => [\A r \in Runtimes \ foreign' : transcript[r] \subseteq transcript'[r]]_vars
  BY NextSeen DEF Kept
<1> QED
  BY <1>1, <1>2, <1>3, PTL DEF Spec, PromptsKept

-----------------------------------------------------------------------------
(* A closed tab *)

LEMMA NextStart ==
  QueueInv /\ [Next]_vars =>
    \A r \in Runtimes : closed[r] /\ ~streaming[r] /\ streaming'[r] => step[r] = "retrying"
<1> SUFFICES ASSUME QueueInv, [Next]_vars, NEW q \in Runtimes, closed[q], ~streaming[q], streaming'[q]
             PROVE  step[q] = "retrying"
  OBVIOUS
<1> USE DEF queueVars, agentVars, QueueInv, Types
<1>1. PICK r \in Runtimes : StartPrompt(r) \/ Retry(r) \/ RunEnds(r)
  <2>1. streaming' # streaming
    OBVIOUS
  <2> QED
    BY <2>1 DEF Next, LoopStep, Enter, DrainToAbort, DrainToEdit, TakeCommand, TakePrompt, TakeNothing,
       DropPrompt, RunDone, RecoveryStarts, RecoveryGivesUp, RetryDone, CompactEnds, CompactThrows,
       MidTurnStarts, MidTurnEnds, Switch, Close, Refresh, vars
<1>2. CASE StartPrompt(r)
  BY <1>2 DEF StartPrompt, Prompted
<1>3. CASE Retry(r)
  BY <1>3 DEF Retry
<1>4. CASE RunEnds(r)
  BY <1>4 DEF RunEnds
<1> QED
  BY <1>1, <1>2, <1>3, <1>4

\* Of a closed tab only the retry after an overflow may start a run, for any
\* number of tabs (ClosedTabStartsNoPrompt; the checks of closed in process()).
THEOREM ClosedTabsRest == Spec => ClosedTabStartsNoPrompt
<1>1. Init => QueueInv
  BY InitType DEF Init, QueueInv, LoopOwnsAgent, SeenAll
<1>2. QueueInv /\ [Next]_vars => QueueInv'
  BY NextType, NextOwner, NextSeen DEF QueueInv
<1>3. QueueInv /\ [Next]_vars =>
        [\A r \in Runtimes : closed[r] /\ ~streaming[r] /\ streaming'[r] => step[r] = "retrying"]_vars
  BY NextStart
<1> QED
  BY <1>1, <1>2, <1>3, PTL DEF Spec, ClosedTabStartsNoPrompt

-----------------------------------------------------------------------------
(* RuntimeCapabilities *)

\* A pass that has read something outdated has been asked for another one.
OutdatedIsWanted == passRead \notin {NoBuild, source} => wanted

\* A tab that is behind will be visited.
BehindIsVisited ==
  \A t \in OpenTabs \ (late \cup failed) :
    has[t] # source
    => /\ visited # NoTab
       /\ wanted \/ t \in toVisit \/ (t = visited /\ passRead \in {NoBuild, source})

\* The build of a tab that is being created has read something.
CreatingHasRead == \A t \in Tabs : tabState[t] = "creating" => own[t] # NoBuild

CapInv == CapTypeOK /\ OutdatedIsWanted /\ BehindIsVisited /\ CreatingHasRead

PassTypeOK ==
  /\ wanted \in BOOLEAN /\ passRead \in Sources \cup {NoBuild}
  /\ visited \in Tabs \cup {NoTab} /\ toVisit \subseteq Tabs \ {visited}
  /\ visited = NoTab => toVisit = {} /\ passRead = NoBuild /\ ~wanted

\* A visit that begins has its tab before it.
LEMMA VisitCovers ==
  ASSUME NEW S, S \subseteq Tabs, VisitNext(S)
  PROVE  /\ visited' \in Tabs /\ visited' # NoTab /\ toVisit' \subseteq Tabs \ {visited'}
         /\ passRead' = NoBuild
         /\ \A t \in S : t \in toVisit' \/ t = visited'
  BY CapabilitiesAssumption DEF VisitNext

\* A pass that begins has all open tabs before it.
LEMMA PassCovers ==
  ASSUME PassBegins
  PROVE  /\ PassTypeOK' /\ ~wanted' /\ passRead' = NoBuild
         /\ \A t \in OpenTabs : visited' # NoTab /\ (t \in toVisit' \/ t = visited')
<1>1. OpenTabs \subseteq Tabs
  BY DEF OpenTabs
<1>2. CASE OpenTabs # {}
  BY <1>1, <1>2, VisitCovers DEF PassBegins, PassTypeOK
<1>3. CASE OpenTabs = {}
  BY <1>3 DEF PassBegins, PassTypeOK
<1> QED BY <1>2, <1>3

\* What was still to be done when the pass leaves a tab is still to be done.
LEMMA NextVisitCovers ==
  ASSUME PassTypeOK, visited # NoTab, NextVisit
  PROVE  /\ PassTypeOK' /\ passRead' = NoBuild
         /\ \A t \in OpenTabs : wanted \/ t \in toVisit =>
              visited' # NoTab /\ (wanted' \/ t \in toVisit' \/ t = visited')
<1>1. CASE toVisit # {}
  <2>1. VisitNext(toVisit) /\ wanted' = wanted /\ toVisit \subseteq Tabs
    BY <1>1 DEF NextVisit, PassTypeOK
  <2>2. /\ visited' \in Tabs /\ visited' # NoTab /\ toVisit' \subseteq Tabs \ {visited'}
        /\ passRead' = NoBuild
        /\ \A t \in toVisit : t \in toVisit' \/ t = visited'
    BY <2>1, VisitCovers
  <2> QED BY <2>1, <2>2 DEF PassTypeOK
<1>2. CASE toVisit = {} /\ wanted
  BY <1>2, PassCovers DEF NextVisit
<1>3. CASE toVisit = {} /\ ~wanted
  BY <1>3 DEF NextVisit, PassTypeOK
<1> QED BY <1>1, <1>2, <1>3

\* The type invariant is that of the passes and the rest.
LEMMA TypeIsOfPasses ==
  CapTypeOK <=> /\ PassTypeOK
                /\ source \in Sources
                /\ tabState \in [Tabs -> {"none", "creating", "open", "closed"}]
                /\ has \in [Tabs -> Sources] /\ own \in [Tabs -> Sources \cup {NoBuild}]
                /\ late \subseteq Tabs /\ failed \subseteq Tabs
  BY DEF CapTypeOK, PassTypeOK

\* No tab is open at the start.
LEMMA InitEstablishesInv == CapInit => CapInv
<1> SUFFICES ASSUME CapInit PROVE CapInv
  OBVIOUS
<1>1. 0 \in Sources
  BY CapabilitiesAssumption DEF Sources
<1>2. CapTypeOK
  BY <1>1 DEF CapInit, CapTypeOK
<1>3. OpenTabs = {} /\ CreatingHasRead
  BY DEF CapInit, OpenTabs, CreatingHasRead
<1> QED BY <1>2, <1>3 DEF CapInit, CapInv, OutdatedIsWanted, BehindIsVisited

\* A change of the sources asks for a pass, or for another one.
LEMMA SourceChangesKeepsInv ==
  ASSUME CapInv, SourceChanges
  PROVE  CapInv'
<1> USE DEF CapInv
<1>1. source \in Nat /\ source' = source + 1 /\ source' \in Sources /\ Sources \subseteq Nat
  BY CapabilitiesAssumption DEF SourceChanges, CapTypeOK, Sources
<1>2. UNCHANGED <<tabState, has, own, late, failed>> /\ OpenTabs' = OpenTabs
  BY DEF SourceChanges, OpenTabs
<1>3. CASE visited # NoTab
  <2>1. wanted' = TRUE /\ UNCHANGED <<visited, toVisit, passRead>>
    BY <1>3 DEF SourceChanges, Request
  <2>2. CapTypeOK'
    BY <1>1, <1>2, <1>3, <2>1 DEF CapTypeOK, Sources
  <2> QED BY <1>2, <1>3, <2>1, <2>2 DEF OutdatedIsWanted, BehindIsVisited, CreatingHasRead
<1>4. CASE visited = NoTab
  <2>1. PassBegins
    BY <1>4 DEF SourceChanges, Request
  <2>2. /\ PassTypeOK' /\ ~wanted' /\ passRead' = NoBuild
        /\ \A t \in OpenTabs : visited' # NoTab /\ (t \in toVisit' \/ t = visited')
    BY <2>1, PassCovers
  <2>3. CapTypeOK'
    BY <1>1, <1>2, <2>2 DEF CapTypeOK, PassTypeOK, Sources
  <2> QED BY <1>2, <2>2, <2>3 DEF OutdatedIsWanted, BehindIsVisited, CreatingHasRead
<1> QED BY <1>3, <1>4

\* The agent gets what the pass has read; when that is outdated, another pass
\* was asked for.
LEMMA PassAppliesKeepsInv ==
  ASSUME CapInv, PassApplies
  PROVE  CapInv'
<1> USE DEF CapInv
<1>1. /\ visited # NoTab /\ visited \in Tabs /\ passRead \in Sources /\ PassTypeOK
      /\ has' = [has EXCEPT ![visited] = passRead]
      /\ late' = late \ {visited} /\ failed' = failed \ {visited}
      /\ UNCHANGED <<source, tabState, own>> /\ OpenTabs' = OpenTabs
  BY DEF PassApplies, CapTypeOK, PassTypeOK, OpenTabs
<1>2. /\ PassTypeOK' /\ passRead' = NoBuild
      /\ \A t \in OpenTabs : wanted \/ t \in toVisit =>
           visited' # NoTab /\ (wanted' \/ t \in toVisit' \/ t = visited')
  BY <1>1, NextVisitCovers DEF PassApplies
<1>3. CapTypeOK'
  BY <1>1, <1>2 DEF CapTypeOK, PassTypeOK, Sources
<1>4. BehindIsVisited'
  <2> SUFFICES ASSUME NEW t \in OpenTabs, t \notin late', t \notin failed', has'[t] # source
               PROVE  wanted \/ t \in toVisit
    BY <1>1, <1>2 DEF BehindIsVisited
  <2>1. CASE t = visited
    BY <2>1, <1>1 DEF CapTypeOK, OutdatedIsWanted, PassApplies
  <2>2. CASE t # visited
    <3>1. t \notin late \cup failed /\ has[t] # source
      BY <2>2, <1>1 DEF CapTypeOK, OpenTabs
    <3> QED BY <2>2, <3>1 DEF BehindIsVisited
  <2> QED BY <2>1, <2>2
<1> QED BY <1>1, <1>2, <1>3, <1>4 DEF OutdatedIsWanted, CreatingHasRead

\* A tab whose build throws is left out, and nothing else is forgotten.
LEMMA PassFailsKeepsInv ==
  ASSUME CapInv, PassFails
  PROVE  CapInv'
<1> USE DEF CapInv
<1>1. /\ visited # NoTab /\ visited \in Tabs /\ PassTypeOK
      /\ failed' = failed \cup {visited}
      /\ UNCHANGED <<source, tabState, has, own, late>> /\ OpenTabs' = OpenTabs
  BY DEF PassFails, CapTypeOK, PassTypeOK, OpenTabs
<1>2. /\ PassTypeOK' /\ passRead' = NoBuild
      /\ \A t \in OpenTabs : wanted \/ t \in toVisit =>
           visited' # NoTab /\ (wanted' \/ t \in toVisit' \/ t = visited')
  BY <1>1, NextVisitCovers DEF PassFails
<1>3. CapTypeOK'
  BY <1>1, <1>2 DEF CapTypeOK, PassTypeOK, Sources
<1>4. BehindIsVisited'
  <2> SUFFICES ASSUME NEW t \in OpenTabs, t \notin late, t \notin failed, t # visited, has[t] # source
               PROVE  wanted \/ t \in toVisit
    BY <1>1, <1>2 DEF BehindIsVisited
  <2> QED BY DEF BehindIsVisited
<1> QED BY <1>1, <1>2, <1>3, <1>4 DEF OutdatedIsWanted, CreatingHasRead

\* A build of the tab itself gives it what the sources say, or the tab is late.
LEMMA OwnAppliedKeepsInv ==
  ASSUME CapInv, NEW t \in Tabs, own[t] # NoBuild, OwnApplied(t), UNCHANGED <<source, passVars>>,
         failed' = failed \/ failed' = failed \ {t},
         tabState' = tabState \/ tabState' = [tabState EXCEPT ![t] = "open"], tabState'[t] = "open"
  PROVE  CapInv'
<1> USE DEF CapInv
<1>1. own[t] \in Sources /\ has' = [has EXCEPT ![t] = own[t]] /\ own' = [own EXCEPT ![t] = NoBuild]
  BY DEF CapTypeOK, OwnApplied
<1>2. late' = (IF own[t] = source THEN late \ {t} ELSE late \cup {t}) /\ UNCHANGED <<wanted, visited, toVisit, passRead>>
  BY DEF OwnApplied, passVars
<1>3. CapTypeOK'
  BY <1>1, <1>2 DEF CapTypeOK, Sources
<1>4. BehindIsVisited'
  <2> SUFFICES ASSUME NEW u \in OpenTabs', u \notin late', u \notin failed', has'[u] # source
               PROVE  /\ visited # NoTab
                      /\ wanted \/ u \in toVisit \/ (u = visited /\ passRead \in {NoBuild, source})
    BY <1>2 DEF BehindIsVisited
  <2>1. u # t
    BY <1>1, <1>2 DEF CapTypeOK
  <2>2. u \in OpenTabs \ (late \cup failed) /\ has[u] # source
    BY <2>1, <1>1, <1>2 DEF CapTypeOK, OpenTabs
  <2> QED BY <2>2 DEF BehindIsVisited
<1>5. CreatingHasRead'
  BY <1>1 DEF CreatingHasRead, CapTypeOK
<1> QED BY <1>2, <1>3, <1>4, <1>5 DEF OutdatedIsWanted

\* Every step keeps the invariant.
LEMMA StepKeepsInv == CapInv /\ [CapNext]_capVars => CapInv'
<1> SUFFICES ASSUME CapInv, [CapNext]_capVars PROVE CapInv'
  OBVIOUS
<1> USE DEF CapInv
<1>1. CASE SourceChanges
  BY <1>1, SourceChangesKeepsInv
<1>2. CASE PassReads
  BY <1>2 DEF PassReads, CapTypeOK, OutdatedIsWanted, BehindIsVisited, CreatingHasRead, OpenTabs
<1>3. CASE PassApplies
  BY <1>3, PassAppliesKeepsInv
<1>4. CASE PassFails
  BY <1>4, PassFailsKeepsInv
<1>5. ASSUME NEW t \in Tabs, Create(t) PROVE CapInv'
  <2>1. source \in Sources /\ NoBuild # source
    BY CapabilitiesAssumption DEF CapTypeOK, Sources
  <2>2. CapTypeOK'
    BY <1>5, <2>1 DEF Create, CapTypeOK, passVars
  <2>3. OpenTabs' = OpenTabs
    BY <1>5 DEF Create, OpenTabs, CapTypeOK
  <2> QED BY <1>5, <2>1, <2>2, <2>3 DEF Create, CapTypeOK, OutdatedIsWanted, BehindIsVisited, CreatingHasRead, passVars
<1>6. ASSUME NEW t \in Tabs, CreateFails(t) PROVE CapInv'
  <2>1. CapTypeOK'
    BY <1>6 DEF CreateFails, CapTypeOK, passVars
  <2>2. OpenTabs' = OpenTabs
    BY <1>6 DEF CreateFails, OpenTabs, CapTypeOK
  <2> QED BY <1>6, <2>1, <2>2 DEF CreateFails, CapTypeOK, OutdatedIsWanted, BehindIsVisited, CreatingHasRead, passVars
<1>7. ASSUME NEW t \in Tabs, RegisterTab(t) PROVE CapInv'
  BY <1>7, OwnAppliedKeepsInv DEF RegisterTab, CreatingHasRead, CapTypeOK
<1>8. ASSUME NEW t \in Tabs, SessionChanges(t) PROVE CapInv'
  <2>1. source \in Sources /\ NoBuild # source
    BY CapabilitiesAssumption DEF CapTypeOK, Sources
  <2> QED BY <1>8, <2>1 DEF SessionChanges, CapTypeOK, OutdatedIsWanted, BehindIsVisited, CreatingHasRead, passVars, OpenTabs
<1>9. ASSUME NEW t \in Tabs, SessionApplied(t) PROVE CapInv'
  BY <1>9, OwnAppliedKeepsInv DEF SessionApplied, CapTypeOK
<1>10. ASSUME NEW t \in Tabs, CloseTab(t) PROVE CapInv'
  <2>1. CapTypeOK'
    BY <1>10 DEF CloseTab, CapTypeOK, passVars
  <2>2. OpenTabs' \subseteq OpenTabs
    BY <1>10 DEF CloseTab, OpenTabs, CapTypeOK
  <2> QED BY <1>10, <2>1, <2>2 DEF CloseTab, CapTypeOK, OutdatedIsWanted, BehindIsVisited, CreatingHasRead, passVars
<1>11. CASE UNCHANGED capVars
  BY <1>11 DEF capVars, passVars, CapTypeOK, OutdatedIsWanted, BehindIsVisited, CreatingHasRead, OpenTabs
<1> QED BY <1>1, <1>2, <1>3, <1>4, <1>5, <1>6, <1>7, <1>8, <1>9, <1>10, <1>11 DEF CapNext

\* Every variable keeps its type (refreshCapabilities, buildSessionRuntime).
THEOREM CapTypesHold == CapSpec => []CapTypeOK
<1>1. CapInv => CapTypeOK
  BY DEF CapInv
<1> QED BY <1>1, InitEstablishesInv, StepKeepsInv, PTL DEF CapSpec

\* When the refreshes have come to rest, open tabs have what the sources say, but
\* for those whose last refresh failed or whose own build was overtaken.
THEOREM RestHolds == CapSpec => []RestIsCurrent
<1>1. CapInv => RestIsCurrent
  BY DEF CapInv, BehindIsVisited, RestIsCurrent
<1> QED BY <1>1, InitEstablishesInv, StepKeepsInv, PTL DEF CapSpec

-----------------------------------------------------------------------------
(* ModelRefresh *)

(* What is read is a version of the settings while a pass loads, and of the *)
(* catalogues while it fetches.                                             *)
ReadsInRange ==
  /\ phase = "loading" => read \in (0 .. MaxConfig) \cup {Unread}
  /\ phase = "fetching" => read \in (0 .. MaxRemote) \cup {Unread}

(* What the model runtime has is published but for the pass that is about it. *)
SnapshotFollows ==
  /\ phase \notin {"fetching", "publishing"} => snapshot.config = synced
  /\ phase # "publishing" => snapshot.remote = fetched

(* A change of the settings that is not given up is asked for, about to be  *)
(* read, or in hand.                                                        *)
ConfigOnItsWay ==
  "config" \notin givenUp =>
    /\ phase \in {"idle", "ending", "failed"} => ~requestedSync /\ synced = config
    /\ phase = "loading" /\ ~requestedSync => read \in {Unread, config}
    /\ phase \in {"fetching", "publishing"} /\ ~requestedSync => synced = config

(* The same of the catalogues, once startup has asked for them.             *)
RemoteOnItsWay ==
  "remote" \notin givenUp /\ startup \in {"late", "done"} =>
    /\ phase \in {"idle", "ending", "failed"} => ~requestedNetwork
    /\ ~requestedNetwork /\ ~(activeNetwork /\ phase \in {"loading", "fetching"}) => fetched = remote
    /\ phase = "fetching" /\ activeNetwork /\ ~requestedNetwork => read \in {Unread, remote}

ModelInv == ModelTypeOK /\ ReadsInRange /\ SnapshotFollows /\ ConfigOnItsWay /\ RemoteOnItsWay

LEMMA ModelInitial == ModelInit => ModelInv
<1> SUFFICES ASSUME ModelInit PROVE ModelInv
  OBVIOUS
<1>1. 0 \in 0 .. MaxConfig /\ 0 \in 0 .. MaxRemote
  BY ModelRefreshAssumption
<1>2. ModelTypeOK
  BY <1>1 DEF ModelInit, NothingPublished, ModelTypeOK
<1>3. ReadsInRange /\ SnapshotFollows /\ ConfigOnItsWay /\ RemoteOnItsWay
  BY DEF ModelInit, NothingPublished, ReadsInRange, SnapshotFollows, ConfigOnItsWay, RemoteOnItsWay
<1> QED BY <1>2, <1>3 DEF ModelInv

(* Everything about a request but the change that it is made for.  A change  *)
(* of the settings asks for a sync; one of the catalogues for the network.   *)
LEMMA RequestKeeps ==
  ASSUME ModelInv, NEW sync \in BOOLEAN, NEW network \in BOOLEAN, RequestRefresh(sync, network),
         config' \in 0 .. MaxConfig, remote' \in 0 .. MaxRemote,
         startup' \in {"loading", "cached", "waiting", "late", "done"},
         credentials' \in {"restoring", "restored", "failed"},
         config' = config \/ sync,
         network \/ (remote' = remote /\ (startup' \in {"late", "done"} => startup \in {"late", "done"}))
  PROVE  ModelInv'
<1> DEFINE askSync == requestedSync \/ sync
           askNetwork == requestedNetwork \/ (network /\ (~activeNetwork \/ askSync))
<1> USE ModelRefreshAssumption DEF ModelInv
<1>1. CASE phase = "idle"
  <2>1. PassStarts(askSync, askNetwork) /\ UNCHANGED <<synced, fetched, snapshot>>
    BY <1>1 DEF RequestRefresh
  <2>2. askSync \in BOOLEAN /\ askNetwork \in BOOLEAN /\ (network => askNetwork)
    BY <1>1 DEF ModelTypeOK
  <2> HIDE DEF askSync, askNetwork
  <2>3. ModelTypeOK' /\ ReadsInRange' /\ SnapshotFollows'
    BY <1>1, <2>1, <2>2 DEF PassStarts, ModelTypeOK, ReadsInRange, SnapshotFollows
  <2>4. ConfigOnItsWay'
    BY <1>1, <2>1, <2>2 DEF PassStarts, ModelTypeOK, ConfigOnItsWay, askSync
  <2>5. RemoteOnItsWay'
    BY <1>1, <2>1, <2>2 DEF PassStarts, ModelTypeOK, RemoteOnItsWay, askNetwork
  <2> QED BY <2>3, <2>4, <2>5
<1>2. CASE phase # "idle"
  <2>1. /\ requestedSync' = askSync /\ requestedNetwork' = askNetwork
        /\ givenUp' = givenUp \cup (IF network /\ (~askNetwork \/ LoopOver) THEN {"remote"} ELSE {})
                              \cup (IF sync /\ LoopOver THEN {"config"} ELSE {})
        /\ UNCHANGED refreshVars
    BY <1>2 DEF RequestRefresh
  <2>2. ModelTypeOK' /\ ReadsInRange' /\ SnapshotFollows'
    BY <1>2, <2>1 DEF refreshVars, ModelTypeOK, ReadsInRange, SnapshotFollows
  <2>3. ConfigOnItsWay'
    BY <1>2, <2>1 DEF refreshVars, ModelTypeOK, ConfigOnItsWay, LoopOver
  <2>4. RemoteOnItsWay'
    BY <1>2, <2>1 DEF refreshVars, ModelTypeOK, RemoteOnItsWay, LoopOver
  <2> QED BY <2>2, <2>3, <2>4
<1> QED BY <1>1, <1>2

LEMMA ModelStep == ModelInv /\ [ModelNext]_modelVars => ModelInv'
<1> SUFFICES ASSUME ModelInv, [ModelNext]_modelVars PROVE ModelInv'
  OBVIOUS
<1>a. ModelTypeOK /\ ReadsInRange /\ SnapshotFollows /\ ConfigOnItsWay /\ RemoteOnItsWay
  BY DEF ModelInv
<1>1. CASE SaveProvider
  <2>1. config' \in 0 .. MaxConfig /\ remote' \in 0 .. MaxRemote /\ UNCHANGED startupVars
    BY <1>a, <1>1, ModelRefreshAssumption DEF SaveProvider, ModelTypeOK
  <2> QED BY <1>1, <1>a, <2>1, RequestKeeps DEF SaveProvider, startupVars, ModelTypeOK
<1>2. CASE ChangeRemote
  <2>1. config' \in 0 .. MaxConfig /\ remote' \in 0 .. MaxRemote /\ UNCHANGED startupVars
    BY <1>a, <1>2, ModelRefreshAssumption DEF ChangeRemote, ModelTypeOK
  <2> QED BY <1>2, <1>a, <2>1, RequestKeeps DEF ChangeRemote, startupVars, ModelTypeOK
<1>3. CASE OpenSelector \/ StartupLoads
  <2>1. /\ RequestRefresh(TRUE, FALSE) /\ UNCHANGED <<config, remote, credentials>>
        /\ startup' \in {"cached", startup}
    BY <1>3 DEF OpenSelector, StartupLoads, startupVars
  <2> QED BY <1>a, <2>1, RequestKeeps DEF ModelTypeOK
<1>4. CASE StartupDiscovers
  BY <1>4, <1>a, RequestKeeps DEF StartupDiscovers, ModelTypeOK
<1>5. CASE Restored
  <2>1. config' \in 0 .. MaxConfig /\ remote' \in 0 .. MaxRemote /\ credentials' = "restored"
    BY <1>a, <1>5, ModelRefreshAssumption DEF Restored, ModelTypeOK
  <2>2. CASE startup = "late"
    BY <1>5, <1>a, <2>1, <2>2, RequestKeeps DEF Restored, ModelTypeOK
  <2>3. CASE startup # "late"
    BY <1>5, <1>a, <2>1, <2>3
    DEF Restored, requestVars, refreshVars, ModelInv, ModelTypeOK, ReadsInRange, SnapshotFollows, ConfigOnItsWay, RemoteOnItsWay
  <2> QED BY <2>2, <2>3
<1>6. CASE RestoreFails
  BY <1>6, <1>a
  DEF RestoreFails, requestVars, refreshVars, ModelInv, ModelTypeOK, ReadsInRange, SnapshotFollows, ConfigOnItsWay, RemoteOnItsWay
<1>b. config \in Nat /\ remote \in Nat /\ (0 .. MaxConfig) \subseteq Nat /\ (0 .. MaxRemote) \subseteq Nat
  BY <1>a, ModelRefreshAssumption DEF ModelTypeOK
<1>7. CASE ReadProviders \/ Sync
  <2>1. ModelTypeOK' /\ ReadsInRange'
    BY <1>7, <1>a, <1>b DEF ReadProviders, Sync, requestVars, startupVars, ModelTypeOK, ReadsInRange
  <2>2. SnapshotFollows' /\ ConfigOnItsWay' /\ RemoteOnItsWay'
    BY <1>7, <1>a DEF ReadProviders, Sync, requestVars, startupVars, ModelTypeOK, SnapshotFollows, ConfigOnItsWay, RemoteOnItsWay
  <2> QED BY <2>1, <2>2 DEF ModelInv
<1>8. CASE PassThrows
  BY <1>8, <1>a, ModelRefreshAssumption
  DEF PassThrows, requestVars, startupVars, ModelInv, ModelTypeOK, ReadsInRange, SnapshotFollows, ConfigOnItsWay, RemoteOnItsWay
<1>9. CASE Ask \/ Fetched
  <2>1. ModelTypeOK' /\ ReadsInRange'
    BY <1>9, <1>a, <1>b DEF Ask, Fetched, requestVars, startupVars, ModelTypeOK, ReadsInRange
  <2>2. SnapshotFollows' /\ ConfigOnItsWay' /\ RemoteOnItsWay'
    BY <1>9, <1>a DEF Ask, Fetched, requestVars, startupVars, ModelTypeOK, SnapshotFollows, ConfigOnItsWay, RemoteOnItsWay
  <2> QED BY <2>1, <2>2 DEF ModelInv
<1>10. CASE Publish
  <2>1. CASE Again(requestedSync, requestedNetwork)
    <3>1. PassStarts(requestedSync, requestedNetwork)
      BY <1>10, <2>1 DEF Publish
    <3> QED BY <1>10, <1>a, <2>1, <3>1, ModelRefreshAssumption
        DEF Publish, PassStarts, Again, startupVars, ModelInv, ModelTypeOK, ReadsInRange, SnapshotFollows, ConfigOnItsWay, RemoteOnItsWay
  <2>2. CASE ~Again(requestedSync, requestedNetwork)
    BY <1>10, <1>a, <2>2, ModelRefreshAssumption
    DEF Publish, Again, requestVars, startupVars, ModelInv, ModelTypeOK, ReadsInRange, SnapshotFollows, ConfigOnItsWay, RemoteOnItsWay
  <2> QED BY <2>1, <2>2
<1>11. CASE PassEnds
  BY <1>11, <1>a
  DEF PassEnds, LoopOver, StartupGoesOn, requestVars, ModelInv, ModelTypeOK, ReadsInRange, SnapshotFollows, ConfigOnItsWay, RemoteOnItsWay
<1>12. CASE UNCHANGED modelVars
  BY <1>12, <1>a
  DEF modelVars, requestVars, refreshVars, startupVars, ModelInv, ModelTypeOK, ReadsInRange, SnapshotFollows, ConfigOnItsWay, RemoteOnItsWay
<1> QED BY <1>1, <1>2, <1>3, <1>4, <1>5, <1>6, <1>7, <1>8, <1>9, <1>10, <1>11, <1>12 DEF ModelNext

(* Every variable of the catalogue refreshes keeps its type: the lists in    *)
(* memory are those of some read of the settings and of some answer of the   *)
(* gateways (runRefreshes, requestRefresh).                                  *)
THEOREM ModelTypesHold == ModelSpec => []ModelTypeOK
<1>1. ModelInv => ModelTypeOK
  BY DEF ModelInv
<1> QED BY <1>1, ModelInitial, ModelStep, PTL DEF ModelSpec

(* When the refreshes rest, what was published holds the settings and what   *)
(* the providers fetch, but for what a pass gave up, for any number of       *)
(* requests between the awaits of one (runRefreshes, requestRefresh).        *)
THEOREM PublishedHolds == ModelSpec => []PublishesCurrent
<1>1. ModelInv => PublishesCurrent
  BY DEF ModelInv, SnapshotFollows, ConfigOnItsWay, RemoteOnItsWay, PublishesCurrent, Rests
<1> QED BY <1>1, ModelInitial, ModelStep, PTL DEF ModelSpec

-----------------------------------------------------------------------------
(* The three together *)

(* A behaviour of the components around the agents is one of each of them.   *)
THEOREM AgentsTogether == AgentsSpec => Spec /\ CapSpec /\ ModelSpec
<1>1. AgentsInit => Init /\ CapInit /\ ModelInit
  BY DEF AgentsInit
<1>2. [AgentsNext]_agentsVars => [Next]_vars
  BY DEF AgentsNext, agentsVars
<1>3. [AgentsNext]_agentsVars => [CapNext]_capVars
  BY DEF AgentsNext, agentsVars
<1>4. [AgentsNext]_agentsVars => [ModelNext]_modelVars
  BY DEF AgentsNext, agentsVars
<1> QED BY <1>1, <1>2, <1>3, <1>4, PTL DEF AgentsSpec, Spec, CapSpec, ModelSpec

(* Every variable of the queues and of the two refreshes keeps its type.     *)
THEOREM AgentsTypesHold == AgentsSpec => []AgentsTypeOK
BY AgentsTogether, QueueTypesHold, CapTypesHold, ModelTypesHold, PTL DEF AgentsTypeOK
===============================================================================
