----------------------------- MODULE ActionQueue -----------------------------
(***************************************************************************)
(* The ordered queue of prompts and /compact commands that every tab keeps *)
(* in front of its agent (taskpane/action-queue.ts), the compaction that   *)
(* rewrites the messages of an agent (runCompactCommand), and the agents,  *)
(* which run one prompt at a time.                                         *)
(*                                                                         *)
(* A compaction reads the messages, waits for the summary and then writes  *)
(* the whole list again, so whatever was appended meanwhile is gone.  The  *)
(* compactions a queue decides on by itself rewrite the agent of the       *)
(* queue; the /compact command rewrites the agent of the tab that is in    *)
(* front when the queue reaches it.                                        *)
(***************************************************************************)
EXTENDS Lists, SequencesExt, FiniteSets

CONSTANTS Runtimes,  \* the tabs
          Prompts,   \* texts the user sends, each at most once
          Commands,  \* /compact commands the user enters, each at most once
          None

Actions == Prompts \cup Commands

Steps == {"off", "waiting", "command", "fitting", "prompting", "retrying", "continuing"}

Tails == {"other", "failure"}

VARIABLES
  actions,    \* per tab: the queued actions
  step,       \* per tab: where process() stands; "off" is running = false
  current,    \* per tab: the prompt process() has shifted off the queue
  compacting, \* per tab: the compaction process() waits for
  midTurn,    \* per tab: the compaction the run of its agent waits for
  closed,     \* per tab: shutdown was called
  streaming,  \* per agent: state.isStreaming
  transcript, \* per agent: the prompts in state.messages, archived ones included
  tail,       \* per agent: whether the last message is an overflow failure
  rewritten,  \* per agent: state.messages is another array than the one
              \* recoverFromContextOverflow compares with
  active,     \* the tab in front
  entered,    \* the actions the user has entered
  foreign,    \* the agents a /compact of another tab has rewritten
  rejected    \* per tab: the last thing process() did was to throw

queueVars == <<actions, step, current, closed, entered, rejected>>
agentVars == <<streaming, transcript, tail, rewritten, foreign>>
vars == <<queueVars, agentVars, compacting, midTurn, active>>

Open == {r \in Runtimes : ~closed[r]}

\* A compaction in progress: the agent it rewrites and the messages it has read.
Compactions == [of : Runtimes, seen : SUBSET Prompts, tail : Tails]

Init ==
  /\ actions = [r \in Runtimes |-> <<>>]
  /\ step = [r \in Runtimes |-> "off"]
  /\ current = [r \in Runtimes |-> None]
  /\ compacting = [r \in Runtimes |-> None]
  /\ midTurn = [r \in Runtimes |-> None]
  /\ closed = [r \in Runtimes |-> FALSE]
  /\ streaming = [r \in Runtimes |-> FALSE]
  /\ transcript = [r \in Runtimes |-> {}]
  /\ tail = [r \in Runtimes |-> "other"]
  /\ rewritten = [r \in Runtimes |-> FALSE]
  /\ active \in Runtimes
  /\ entered = {}
  /\ foreign = {}
  /\ rejected = [r \in Runtimes |-> FALSE]

-----------------------------------------------------------------------------
(* Compaction. *)

Snapshot(r) == [of |-> r, seen |-> transcript[r], tail |-> tail[r]]

\* The end of a compaction: the messages it read, shortened, replace the list,
\* or the list stays as it is (too few messages, no key, no summary).
Rewrite(c) ==
  \/ /\ transcript' = [transcript EXCEPT ![c.of] = c.seen]
     /\ tail' = [tail EXCEPT ![c.of] = c.tail]
     /\ rewritten' = [rewritten EXCEPT ![c.of] = TRUE]
  \/ UNCHANGED <<transcript, tail, rewritten>>

\* Between two turns of a run the agent asks the queue whether to compact.
MidTurnStarts(r) ==
  /\ streaming[r] /\ ~closed[r] /\ midTurn[r] = None
  /\ midTurn' = [midTurn EXCEPT ![r] = Snapshot(r)]
  /\ UNCHANGED <<queueVars, agentVars, compacting, active>>

MidTurnEnds(r) ==
  /\ midTurn[r] # None
  /\ Rewrite(midTurn[r])
  /\ midTurn' = [midTurn EXCEPT ![r] = None]
  /\ UNCHANGED <<queueVars, streaming, foreign, compacting, active>>

-----------------------------------------------------------------------------
(* The loop of process(). *)

\* The condition of the loop.
Onward(r) == IF closed[r] \/ actions[r] = <<>> THEN "off" ELSE "waiting"

\* Variant: process() starts again although it is running.
StartedTwice(r) == "waiting"

\* process() after a push: a call that finds the loop running returns.
Started(r) == IF step[r] = "off" THEN "waiting" ELSE step[r]

\* The agent is idle and a command is next.  Its target is the active agent.
TakeCommand(r) ==
  /\ step[r] = "waiting" /\ ~streaming[r] /\ ~closed[r]
  /\ actions[r] # <<>> /\ Head(actions[r]) \in Commands
  /\ actions' = [actions EXCEPT ![r] = Tail(@)]
  /\ step' = [step EXCEPT ![r] = "command"]
  /\ compacting' = [compacting EXCEPT ![r] = Snapshot(active)]
  /\ UNCHANGED <<agentVars, current, midTurn, closed, active, entered, rejected>>

\* The agent is idle and a prompt is next: compact its messages first if they
\* leave no room for it.
TakePrompt(r) ==
  /\ step[r] = "waiting" /\ ~streaming[r] /\ ~closed[r]
  /\ actions[r] # <<>> /\ Head(actions[r]) \in Prompts
  /\ actions' = [actions EXCEPT ![r] = Tail(@)]
  /\ step' = [step EXCEPT ![r] = "fitting"]
  /\ current' = [current EXCEPT ![r] = Head(actions[r])]
  /\ \/ compacting' = [compacting EXCEPT ![r] = Snapshot(r)]
     \/ UNCHANGED compacting
  /\ UNCHANGED <<agentVars, midTurn, closed, active, entered, rejected>>

\* The queue was drained or shut down while the loop waited.
TakeNothing(r) ==
  /\ step[r] = "waiting" /\ ~streaming[r]
  /\ closed[r] \/ actions[r] = <<>>
  /\ step' = [step EXCEPT ![r] = "off"]
  /\ UNCHANGED <<actions, current, closed, entered, rejected, agentVars, compacting, midTurn, active>>

\* The compaction process() waits for ends; after a command the loop goes on.
CompactEnds(r) ==
  /\ compacting[r] # None
  /\ Rewrite(compacting[r])
  /\ compacting' = [compacting EXCEPT ![r] = None]
  /\ step' = [step EXCEPT ![r] = IF @ = "command" THEN Onward(r) ELSE @]
  /\ foreign' = IF step[r] = "command" THEN foreign \cup ({compacting[r].of} \ {r}) ELSE foreign
  /\ UNCHANGED <<actions, current, closed, entered, rejected, streaming, midTurn, active>>

\* Variant: the running flag is not reset when the compaction throws.
CompactThrowsRunning(r) ==
  /\ compacting[r] # None /\ step[r] \in {"command", "fitting"}
  /\ compacting' = [compacting EXCEPT ![r] = None]
  /\ step' = [step EXCEPT ![r] = "command"]
  /\ current' = [current EXCEPT ![r] = None]
  /\ rejected' = [rejected EXCEPT ![r] = TRUE]
  /\ UNCHANGED <<actions, closed, entered, agentVars, midTurn, active>>

\* The compaction throws (the lookup of the key is outside its try).  The loop
\* ends with actions still queued; only the recovery catches the exception.
CompactThrows(r) ==
  /\ compacting[r] # None /\ step[r] \in {"command", "fitting"}
  /\ compacting' = [compacting EXCEPT ![r] = None]
  /\ step' = [step EXCEPT ![r] = "off"]
  /\ current' = [current EXCEPT ![r] = None]
  /\ rejected' = [rejected EXCEPT ![r] = TRUE]
  /\ UNCHANGED <<actions, closed, entered, agentVars, midTurn, active>>

\* What agent.prompt changes.
Prompted(r) ==
  /\ step' = [step EXCEPT ![r] = "prompting"]
  /\ streaming' = [streaming EXCEPT ![r] = TRUE]
  /\ transcript' = [transcript EXCEPT ![r] = @ \cup {current[r]}]
  /\ tail' = [tail EXCEPT ![r] = "other"]
  /\ current' = [current EXCEPT ![r] = None]
  /\ UNCHANGED <<actions, closed, entered, rejected, rewritten, foreign, compacting, midTurn, active>>

\* Variant: the prompt does not wait for the compaction.
StartPromptUnawaited(r) ==
  /\ step[r] = "fitting" /\ ~closed[r]
  /\ Prompted(r)

\* Variant: closed is not looked at again after the compaction.
StartPromptUnchecked(r) ==
  /\ step[r] = "fitting" /\ compacting[r] = None
  /\ Prompted(r)

\* agent.prompt, unless the tab was closed during the compaction.
StartPrompt(r) ==
  /\ step[r] = "fitting" /\ compacting[r] = None
  /\ ~closed[r]
  /\ Prompted(r)

DropPrompt(r) ==
  /\ step[r] = "fitting" /\ compacting[r] = None
  /\ closed[r]
  /\ step' = [step EXCEPT ![r] = "off"]
  /\ current' = [current EXCEPT ![r] = None]
  /\ UNCHANGED <<actions, closed, entered, rejected, agentVars, compacting, midTurn, active>>

\* The run ends: answered, failed, aborted by the user, or with a prompt that
\* overflows the context of the model.
RunEnds(r) ==
  /\ streaming[r] /\ midTurn[r] = None
  /\ streaming' = [streaming EXCEPT ![r] = FALSE]
  /\ \E t \in Tails : tail' = [tail EXCEPT ![r] = t]
  /\ UNCHANGED <<queueVars, transcript, rewritten, foreign, compacting, midTurn, active>>

\* agent.prompt has returned and the last message is no overflow failure.
RunDone(r) ==
  /\ step[r] = "prompting" /\ ~streaming[r]
  /\ closed[r] \/ tail[r] # "failure"
  /\ step' = [step EXCEPT ![r] = Onward(r)]
  /\ UNCHANGED <<actions, current, closed, entered, rejected, agentVars, compacting, midTurn, active>>

\* recoverFromContextOverflow: drop the failure and compact.
RecoveryStarts(r) ==
  /\ step[r] = "prompting" /\ ~streaming[r]
  /\ ~closed[r] /\ tail[r] = "failure"
  /\ tail' = [tail EXCEPT ![r] = "other"]
  /\ rewritten' = [rewritten EXCEPT ![r] = FALSE]
  /\ compacting' = [compacting EXCEPT ![r] = [Snapshot(r) EXCEPT !.tail = "other"]]
  /\ step' = [step EXCEPT ![r] = "retrying"]
  /\ UNCHANGED <<actions, current, closed, entered, rejected, streaming, transcript, foreign, midTurn, active>>

\* Nothing was compacted: the failure goes back to the end of the messages.
RecoveryGivesUp(r) ==
  /\ step[r] = "retrying" /\ compacting[r] = None
  /\ ~rewritten[r] \/ tail[r] = "failure"
  /\ tail' = [tail EXCEPT ![r] = "failure"]
  /\ step' = [step EXCEPT ![r] = Onward(r)]
  /\ UNCHANGED <<actions, current, closed, entered, rejected, streaming, transcript, rewritten,
                 foreign, compacting, midTurn, active>>

\* agent.continue, whether or not the tab was closed during the compaction.
Retry(r) ==
  /\ step[r] = "retrying" /\ compacting[r] = None
  /\ rewritten[r] /\ tail[r] # "failure"
  /\ step' = [step EXCEPT ![r] = "continuing"]
  /\ streaming' = [streaming EXCEPT ![r] = TRUE]
  /\ UNCHANGED <<actions, current, closed, entered, rejected, transcript, tail, rewritten,
                 foreign, compacting, midTurn, active>>

RetryDone(r) ==
  /\ step[r] = "continuing" /\ ~streaming[r]
  /\ step' = [step EXCEPT ![r] = Onward(r)]
  /\ UNCHANGED <<actions, current, closed, entered, rejected, agentVars, compacting, midTurn, active>>

LoopStep(r) ==
  \/ TakeCommand(r) \/ TakePrompt(r) \/ TakeNothing(r)
  \/ StartPrompt(r) \/ DropPrompt(r) \/ RunDone(r)
  \/ RecoveryStarts(r) \/ RecoveryGivesUp(r) \/ Retry(r) \/ RetryDone(r)

-----------------------------------------------------------------------------
(* The user and the rest of the task pane. *)

\* enqueuePrompt and enqueueCommand of the tab in front.
Enter(a) ==
  /\ a \notin entered
  /\ entered' = entered \cup {a}
  /\ actions' = [actions EXCEPT ![active] = Append(@, a)]
  /\ step' = [step EXCEPT ![active] = Started(active)]
  /\ rejected' = [rejected EXCEPT ![active] = FALSE]
  /\ UNCHANGED <<current, closed, agentVars, compacting, midTurn, active>>

\* Escape during a run: the queued prompts go back to the editor, the queued
\* commands are dropped and the run is aborted (RunEnds).
DrainToAbort ==
  /\ streaming[active] /\ actions[active] # <<>>
  /\ actions' = [actions EXCEPT ![active] = <<>>]
  /\ UNCHANGED <<step, current, closed, entered, rejected, agentVars, compacting, midTurn, active>>

\* The restore shortcut: the queued prompts go back to the editor and the
\* commands are queued again.
DrainToEdit ==
  LET commands == Without(actions[active], Prompts)
  IN  /\ actions[active] # commands
      /\ actions' = [actions EXCEPT ![active] = commands]
      /\ IF commands = <<>>
           THEN UNCHANGED <<step, rejected>>
           ELSE /\ step' = [step EXCEPT ![active] = Started(active)]
                /\ rejected' = [rejected EXCEPT ![active] = FALSE]
      /\ UNCHANGED <<current, closed, entered, agentVars, compacting, midTurn, active>>

Switch(r) ==
  /\ r \in Open \ {active}
  /\ active' = r
  /\ UNCHANGED <<queueVars, agentVars, compacting, midTurn>>

\* Variant: the closed tab stays the one in front.
CloseInFront(r) ==
  /\ r \in Open
  /\ Open # {r}
  /\ closed' = [closed EXCEPT ![r] = TRUE]
  /\ actions' = [actions EXCEPT ![r] = <<>>]
  /\ UNCHANGED <<active, step, current, entered, rejected, agentVars, compacting, midTurn>>

\* dispose: shutdown of the queue and abort of the agent.  The confirmation and
\* the save before it are in SessionTabs; the last tab is never left closed.
Close(r) ==
  /\ r \in Open
  /\ Open # {r}
  /\ closed' = [closed EXCEPT ![r] = TRUE]
  /\ actions' = [actions EXCEPT ![r] = <<>>]
  /\ IF active = r THEN active' \in Open \ {r} ELSE UNCHANGED active
  /\ UNCHANGED <<step, current, entered, rejected, agentVars, compacting, midTurn>>

\* refreshRuntimeCapabilities replaces the list by one that ends in a new
\* system message.
Refresh(r) ==
  /\ r \in Open
  /\ tail' = [tail EXCEPT ![r] = "other"]
  /\ rewritten' = [rewritten EXCEPT ![r] = TRUE]
  /\ UNCHANGED <<queueVars, streaming, transcript, foreign, compacting, midTurn, active>>

Next ==
  \/ \E a \in Actions : Enter(a)
  \/ DrainToAbort \/ DrainToEdit
  \/ \E r \in Runtimes :
       \/ LoopStep(r)
       \/ CompactEnds(r) \/ CompactThrows(r)
       \/ MidTurnStarts(r) \/ MidTurnEnds(r) \/ RunEnds(r)
       \/ Switch(r) \/ Close(r) \/ Refresh(r)

Spec == Init /\ [][Next]_vars

\* The loop is a chain of promises that JavaScript runs when they settle.  A
\* provider answers or fails, so a compaction ends and a run has finitely many
\* turns.  The user does what they like.
Fairness ==
  \A r \in Runtimes :
    /\ WF_vars(LoopStep(r))
    /\ WF_vars(CompactEnds(r))
    /\ WF_vars(MidTurnEnds(r))
    /\ SF_vars(RunEnds(r))

FairSpec == Spec /\ Fairness

-----------------------------------------------------------------------------
(* Properties. *)

\* Every variable keeps its type.
TypeOK ==
  /\ actions \in [Runtimes -> Seq(Actions)]
  /\ step \in [Runtimes -> Steps]
  /\ current \in [Runtimes -> Prompts \cup {None}]
  /\ compacting \in [Runtimes -> Compactions \cup {None}]
  /\ midTurn \in [Runtimes -> Compactions \cup {None}]
  /\ closed \in [Runtimes -> BOOLEAN]
  /\ streaming \in [Runtimes -> BOOLEAN]
  /\ transcript \in [Runtimes -> SUBSET Prompts]
  /\ tail \in [Runtimes -> Tails]
  /\ rewritten \in [Runtimes -> BOOLEAN]
  /\ active \in Open
  /\ entered \subseteq Actions /\ foreign \subseteq Runtimes
  /\ rejected \in [Runtimes -> BOOLEAN]
  /\ \A r \in Runtimes : step[r] = "fitting" => current[r] \in Prompts

\* An agent runs only while its own queue waits for the run, so agent.prompt and
\* agent.continue are never called on a running agent, where they throw, and no
\* compaction a queue starts for its own agent overlaps a run
\* (the running flag and waitForIdle of process()).
LoopOwnsAgent ==
  \A r \in Runtimes :
    /\ streaming[r] => step[r] \in {"prompting", "continuing"}
    /\ midTurn[r] # None => streaming[r]

\* An agent that no /compact of another tab has rewritten keeps its prompts: the
\* compactions of its own queue, before a prompt, between turns, after an
\* overflow and by its own /compact, never run while a prompt is added.
PromptsKept == [][\A r \in Runtimes \ foreign' : transcript[r] \subseteq transcript'[r]]_vars

\* No compaction takes a prompt out of the messages of an agent
\* (action-queue.ts: "Without a queue, user input can be lost when compaction
\* rewrites the message list").
NoPromptLost == [][\A r \in Runtimes : transcript[r] \subseteq transcript'[r]]_vars

\* A prompt still queued, or on its way through a compaction, when its tab is
\* closed never starts a run (the checks of closed between the awaits).  The
\* retry after an overflow has no such check and may start one.
ClosedTabStartsNoPrompt ==
  [][\A r \in Runtimes :
       closed[r] /\ ~streaming[r] /\ streaming'[r] => step[r] = "retrying"]_vars

\* Queued actions are all run, drained or dropped with their tab, unless one of
\* them throws; then the next action entered gets the queue going again.
QueueDrains == \A r \in Runtimes : actions[r] # <<>> ~> (actions[r] = <<>> \/ rejected[r])

==============================================================================
