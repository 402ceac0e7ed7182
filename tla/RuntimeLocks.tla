----------------------------- MODULE RuntimeLocks -----------------------------
(***************************************************************************)
(* The tabs of the taskpane on top of the write coordinator.  The taskpane *)
(* subscribes to coordinator events and paints them on the tab of the      *)
(* session that made the call (src/src/taskpane/init.ts), and the close    *)
(* dialog reads that lock state before it closes a tab.                    *)
(*                                                                         *)
(* One tab per session.  A coordinator step emits its events inside the    *)
(* step, so the lock state changes in the same step.                       *)
(***************************************************************************)
EXTENDS WorkbookCoordinator

CONSTANTS
  OneCallAtATime,  \* sessions whose agent runs tool calls one by one
  LongSessions     \* sessions whose context may grow too long for the model

ASSUME LocksAssumption ==
  /\ Sessions # {}
  /\ OneCallAtATime \subseteq Sessions
  /\ LongSessions \subseteq Sessions

VARIABLES
  lockState,  \* per session: runtime.lockState
  tab,        \* per session: where the tab is on its way to being closed
  retry,      \* per session: where the retry after a context overflow stands
  madeClosed  \* the calls made by the agent of a closed tab

tabVars == <<lockState, tab, retry, madeClosed>>
lockVars == <<vars, tabVars>>

LockStates == {"idle", "waiting_for_lock", "holding_lock"}
TabStates == {"open", "confirming", "saving", "closed"}
RetryStates == {"none", "compacting", "running"}

Open == {s \in Sessions : tab[s] # "closed"}

LInit ==
  /\ Init
  /\ lockState = [s \in Sessions |-> "idle"]
  /\ tab = [s \in Sessions |-> "open"]
  /\ retry = [s \in Sessions |-> "none"]
  /\ madeClosed = {}

(* Mutant of LockFor: a failed or completed write does not reset the tab. *)
LockForUnreset(p) == IF p = "queued" THEN "waiting_for_lock" ELSE "holding_lock"

(* The lock state the last event about a call leaves behind. *)
LockFor(p) == CASE p = "queued"  -> "waiting_for_lock"
                [] p = "writing" -> "holding_lock"
                [] p = "settled" -> "idle"

(***************************************************************************)
(* The subscriber: at most one call is queued, started or settled in a     *)
(* step, and the tab of its session takes the new state, unless            *)
(* findRuntimeBySessionId no longer finds that tab.                        *)
(***************************************************************************)
EventAbout(c) == pc'[c] # pc[c] /\ pc'[c] \in {"queued", "writing", "settled"}

PaintLocks ==
  lockState' = [s \in Sessions |->
    IF s \in Open /\ \E c \in Calls : SessionOf[c] = s /\ EventAbout(c)
    THEN LockFor(pc'[CHOOSE c \in Calls : SessionOf[c] = s /\ EventAbout(c)])
    ELSE lockState[s]]

(* An agent makes a call, some agents one at a time: the agent of an open   *)
(* tab, unless it waits for a compaction, and that of a closed one while    *)
(* its run is being retried.  The user restores a backup in the name of an  *)
(* open tab's session.                                                      *)
MayCall(c) ==
  LET s == SessionOf[c] IN
  IF c \in Restores
  THEN s \in Open
  ELSE /\ IF s \in Open THEN retry[s] # "compacting" ELSE retry[s] = "running"
       /\ s \in OneCallAtATime => InFlight(s) = {}

LCallStep(c) ==
  /\ pc[c] = "new" => MayCall(c)
  /\ CallStep(c)
  /\ PaintLocks
  /\ madeClosed' = IF pc[c] = "new" /\ SessionOf[c] \notin Open THEN madeClosed \cup {c} ELSE madeClosed
  /\ UNCHANGED <<tab, retry>>

LSurroundings ==
  /\ Surroundings
  /\ UNCHANGED tabVars

(* agent.abort(): fires the signal of the calls in flight, if there are any. *)
AbortAgent(s) == IF InFlight(s) = {} THEN UNCHANGED vars ELSE Abort(s)

-----------------------------------------------------------------------------
(* recoverFromContextOverflow (compaction/overflow-recovery.ts), which the  *)
(* action queue of the tab awaits after a run.                              *)

(* The run of an open tab ended because the context was too long: no call   *)
(* of it is left, and a compaction begins.                                  *)
Overflow(s) ==
  /\ s \in Open \cap LongSessions /\ InFlight(s) = {}
  /\ retry[s] = "none"
  /\ retry' = [retry EXCEPT ![s] = "compacting"]
  /\ UNCHANGED <<vars, lockState, tab, madeClosed>>

(* The compaction is over.  agent.continue() runs the agent again, without  *)
(* a look at the tab, which may be closed by now; or there was nothing to   *)
(* compact.  In an open tab the new run is like any other.                  *)
CompactionOver(s) ==
  /\ retry[s] = "compacting"
  /\ \E next \in {"none", "running"} :
       /\ next = "running" => s \notin Open
       /\ retry' = [retry EXCEPT ![s] = next]
  /\ UNCHANGED <<vars, lockState, tab, madeClosed>>

RetryStep(s) == Overflow(s) \/ CompactionOver(s)

-----------------------------------------------------------------------------
(* closeRuntimeWithRecovery, one action per await. *)

(***************************************************************************)
(* Refused for the last tab and for a tab that shows holding_lock.  A      *)
(* streaming agent asks for confirmation; an agent may stream without a    *)
(* tool call in flight.                                                    *)
(***************************************************************************)
RequestClose(s) ==
  /\ tab[s] = "open"
  /\ Cardinality(Open) > 1
  /\ lockState[s] # "holding_lock"
  /\ \E next \in {"confirming", "saving"} :
       /\ InFlight(s) # {} => next = "confirming"
       /\ tab' = [tab EXCEPT ![s] = next]
  /\ UNCHANGED <<vars, lockState, retry, madeClosed>>

(* "Stop and close": the agent is aborted, the session is saved. *)
ConfirmClose(s) ==
  /\ tab[s] = "confirming"
  /\ tab' = [tab EXCEPT ![s] = "saving"]
  /\ AbortAgent(s)
  /\ UNCHANGED <<lockState, retry, madeClosed>>

DeclineClose(s) ==
  /\ tab[s] = "confirming"
  /\ tab' = [tab EXCEPT ![s] = "open"]
  /\ UNCHANGED <<vars, lockState, retry, madeClosed>>

(* Mutant of FinishClose: dispose() does not abort the agent. *)
FinishCloseWithoutAbort(s) ==
  /\ tab[s] = "saving"
  /\ tab' = [tab EXCEPT ![s] = IF Cardinality(Open) > 1 THEN "closed" ELSE "open"]
  /\ UNCHANGED <<vars, lockState, retry, madeClosed>>

(***************************************************************************)
(* saveSession and resolveWorkbookId have answered.  The manager keeps the *)
(* last tab; otherwise it disposes of the runtime, which aborts its agent. *)
(* Nothing is checked again.                                               *)
(***************************************************************************)
FinishClose(s) ==
  /\ tab[s] = "saving"
  /\ IF Cardinality(Open) > 1
     THEN tab' = [tab EXCEPT ![s] = "closed"] /\ AbortAgent(s)
     ELSE tab' = [tab EXCEPT ![s] = "open"] /\ UNCHANGED vars
  /\ UNCHANGED <<lockState, retry, madeClosed>>

-----------------------------------------------------------------------------
CloseStep(s) ==
  RequestClose(s) \/ ConfirmClose(s) \/ DeclineClose(s) \/ FinishClose(s)

LNext ==
  \/ \E c \in Calls : LCallStep(c)
  \/ LSurroundings
  \/ \E s \in Sessions : CloseStep(s) \/ RetryStep(s)

LSpec == LInit /\ [][LNext]_lockVars

(* As in WorkbookCoordinator; the storage behind a close answers too. *)
LFairness ==
  /\ \A c \in Calls : WF_lockVars(Progress(c) /\ LCallStep(c))
  /\ \A s \in Sessions : WF_lockVars(FinishClose(s))

LFairSpec == LSpec /\ LFairness

-----------------------------------------------------------------------------
(* Every variable has its type, and some tab is always open.                *)
LTypeOK ==
  /\ TypeOK
  /\ lockState \in [Sessions -> LockStates]
  /\ tab \in [Sessions -> TabStates]
  /\ retry \in [Sessions -> RetryStates]
  /\ madeClosed \subseteq Calls
  /\ Open # {}

CallsAt(s, p) == {c \in Calls : SessionOf[c] = s /\ pc[c] = p}

(* Sessions that have at most one write with the coordinator at a time. *)
Orderly == {s \in OneCallAtATime : \A c \in Restores : SessionOf[c] # s}

(* The tab of such a session shows exactly what the coordinator does for    *)
(* it: holding while a mutation runs, waiting while one is queued, idle     *)
(* otherwise; whatever fails, is aborted or happens in other tabs.          *)
LockStateExact ==
  \A s \in Open \cap Orderly :
    lockState[s] = IF CallsAt(s, "writing") # {} THEN "holding_lock"
                   ELSE IF CallsAt(s, "queued") # {} THEN "waiting_for_lock"
                   ELSE "idle"

(* A close leaves no write behind: what the agent had under way in any      *)
(* await, and what stays in the queue of the coordinator, never starts once *)
(* the tab is closed.  The calls of an agent that an overflow set going     *)
(* again after the close are named: nothing stops those.                    *)
CloseLeavesNoWrite ==
  [][\A c \in Calls \ (Restores \cup madeClosed) :
       (pc[c] # "writing" /\ pc'[c] = "writing") => SessionOf[c] \in Open]_lockVars

(* No tab disappears under a running write of its session: "close action    *)
(* disabled until write completes".                                         *)
NoCloseUnderWrite ==
  [][\A s \in Open : tab'[s] = "closed" => CallsAt(s, "writing") = {}]_lockVars
==============================================================================
