------------------------- MODULE WorkbookCoordinator -------------------------
(***************************************************************************)
(* The write coordinator of the workbook (src/src/workbook/coordinator.ts) *)
(* under the tool wrapper that feeds it                                    *)
(* (src/src/tools/with-workbook-coordinator.ts).                           *)
(*                                                                         *)
(* A tool call of an agent session resolves the identity of the workbook   *)
(* the host shows, checks the execution mode, asks the user in Confirm     *)
(* ("safe") mode, and then runs: a read at once, a mutation through the    *)
(* FIFO queue of its workbook key.  A step of the model is one run of the  *)
(* JavaScript event loop between two awaits; everything the code does in   *)
(* such a run, nested calls included, is one action.                       *)
(***************************************************************************)
EXTENDS Integers, Sequences, FiniteSets

CONSTANTS
  Calls,              \* tool calls, each made once
  Sessions,           \* agent sessions
  SessionOf,          \* the session that makes a call
  Mutating,           \* the calls getToolExecutionMode classifies "mutate"
  Restores,           \* mutations the user makes: restoring a backup
  Documents,          \* the physical workbooks the host can show
  Unknown,            \* the key "workbook:unknown"
  NoCall, NoDocument, \* null
  MaxIdentityChanges  \* bound on first saves and workbook switches

ASSUME CoordinatorAssumption ==
  /\ SessionOf \in [Calls -> Sessions]
  /\ Mutating \subseteq Calls
  /\ Restores \subseteq Mutating
  /\ Unknown \notin Documents
  /\ NoCall \notin Calls
  /\ NoDocument \notin Documents
  /\ MaxIdentityChanges \in Nat

VARIABLES
  pc,               \* where each call is
  key,              \* the coordinator key a call captured
  actsOn,           \* the document the tool of a running mutation works on
  result,           \* the revision runWrite resolved with; 0 when it did not
  aborted,          \* calls whose abort signal has fired
  mode,             \* execution mode: "yolo" (Auto) or "safe" (Confirm)
  activeDocument,   \* the workbook the host shows
  saved,            \* documents that have a path, hence an identity
  identityChanges,
  running, activeWrite, queue, revision  \* WorkbookQueueState, per key

callVars == <<pc, key, actsOn, result, aborted>>
hostVars == <<activeDocument, saved, identityChanges>>
stateVars == <<running, activeWrite, queue, revision>>
vars == <<callVars, mode, hostVars, stateVars>>

Keys == Documents \cup {Unknown}

PCs == {"new", "resolving", "checking", "approving", "queued", "writing",
        "settled", "committed", "reading", "done", "failed"}

Settled == {"done", "failed"}

(***************************************************************************)
(* The identity the host reports: a hash of the path once the workbook     *)
(* has one, null before, which the wrapper turns into Unknown.             *)
(***************************************************************************)
WorkbookId(d) == IF d \in saved THEN d ELSE Unknown

Init ==
  /\ pc = [c \in Calls |-> "new"]
  /\ key = [c \in Calls |-> Unknown]
  /\ result = [c \in Calls |-> 0]
  /\ aborted = {}
  /\ mode \in {"yolo", "safe"}
  /\ activeDocument \in Documents
  /\ actsOn = [c \in Calls |-> NoDocument]
  /\ saved \in SUBSET Documents
  /\ identityChanges = 0
  /\ running = [k \in Keys |-> FALSE]
  /\ activeWrite = [k \in Keys |-> NoCall]
  /\ queue = [k \in Keys |-> <<>>]
  /\ revision = [k \in Keys |-> 0]

-----------------------------------------------------------------------------
(* The queue of one key. *)

(***************************************************************************)
(* processQueue(k) when running[k] is false, with the queue q and the call *)
(* states p it finds.  execute() runs synchronously into fn, whose first   *)
(* act is throwIfAborted: an aborted call settles at once as failed.       *)
(***************************************************************************)
ProcessQueue(k, q, p) ==
  IF q = <<>>
  THEN /\ running' = [running EXCEPT ![k] = FALSE]
       /\ activeWrite' = [activeWrite EXCEPT ![k] = NoCall]
       /\ queue' = [queue EXCEPT ![k] = q]
       /\ pc' = p
       /\ UNCHANGED actsOn
  ELSE LET next == Head(q) IN
       /\ running' = [running EXCEPT ![k] = TRUE]
       /\ activeWrite' = [activeWrite EXCEPT ![k] = next]
       /\ queue' = [queue EXCEPT ![k] = Tail(q)]
       /\ IF next \in aborted
          THEN /\ pc' = [p EXCEPT ![next] = "settled"]
               /\ UNCHANGED actsOn
          ELSE /\ pc' = [p EXCEPT ![next] = "writing"]
               /\ actsOn' = [actsOn EXCEPT ![next] = activeDocument]

(* Mutant of RunWrite: processQueue does not return while another runs. *)
RunWriteUnguarded(c, k) ==
  ProcessQueue(k, Append(queue[k], c), [pc EXCEPT ![c] = "queued"])

(* Mutant of RunWrite: the operation is put at the front of the queue. *)
RunWriteAtFront(c, k) ==
  LET q == <<c>> \o queue[k]
      p == [pc EXCEPT ![c] = "queued"]
  IN  IF running[k]
      THEN /\ queue' = [queue EXCEPT ![k] = q]
           /\ pc' = p
           /\ UNCHANGED <<running, activeWrite, actsOn>>
      ELSE ProcessQueue(k, q, p)

(* runWrite: push the operation; processQueue returns while another runs. *)
RunWrite(c, k) ==
  LET q == Append(queue[k], c)
      p == [pc EXCEPT ![c] = "queued"]
  IN  IF running[k]
      THEN /\ queue' = [queue EXCEPT ![k] = q]
           /\ pc' = p
           /\ UNCHANGED <<running, activeWrite, actsOn>>
      ELSE ProcessQueue(k, q, p)

-----------------------------------------------------------------------------
(* One tool call. *)

(* A tool call or a restore runs up to its await of the workbook identity. *)
Invoke(c) ==
  /\ pc[c] = "new"
  /\ pc' = [pc EXCEPT ![c] = "resolving"]
  /\ UNCHANGED <<key, actsOn, result, aborted, mode, hostVars, stateVars>>

(***************************************************************************)
(* getWorkbookId() answers: the key is captured here and never again.  A   *)
(* read starts in the same run, a mutation goes on to await the mode.      *)
(***************************************************************************)
Resolve(c) ==
  /\ pc[c] = "resolving"
  /\ c \notin Restores
  /\ key' = [key EXCEPT ![c] = WorkbookId(activeDocument)]
  /\ pc' = [pc EXCEPT ![c] = CASE c \in aborted  -> "failed"
                               [] c \in Mutating -> "checking"
                               [] OTHER          -> "reading"]
  /\ UNCHANGED <<actsOn, result, aborted, mode, hostVars, stateVars>>

(* The restore of a backup from the user interface goes straight to runWrite. *)
ResolveRestore(c) ==
  /\ pc[c] = "resolving"
  /\ c \in Restores
  /\ key' = [key EXCEPT ![c] = WorkbookId(activeDocument)]
  /\ RunWrite(c, WorkbookId(activeDocument))
  /\ UNCHANGED <<result, aborted, mode, hostVars, revision>>

(* A read settles; it never waits for a write. *)
ReadEnd(c) ==
  /\ pc[c] = "reading"
  /\ \E end \in Settled : pc' = [pc EXCEPT ![c] = end]
  /\ UNCHANGED <<key, actsOn, result, aborted, mode, hostVars, stateVars>>

(* throwIfAborted after the approval, and then runWrite. *)
PassGate(c) ==
  IF c \in aborted
  THEN /\ pc' = [pc EXCEPT ![c] = "failed"]
       /\ UNCHANGED <<running, activeWrite, queue, actsOn>>
  ELSE RunWrite(c, key[c])

(* getExecutionMode() answers "yolo": no approval is asked. *)
CheckYolo(c) ==
  /\ pc[c] = "checking"
  /\ mode # "safe"
  /\ PassGate(c)
  /\ UNCHANGED <<key, result, aborted, mode, hostVars, revision>>

(* getExecutionMode() answers "safe": the approval dialog opens. *)
CheckSafe(c) ==
  /\ pc[c] = "checking"
  /\ mode = "safe"
  /\ pc' = [pc EXCEPT ![c] = "approving"]
  /\ UNCHANGED <<key, actsOn, result, aborted, mode, hostVars, stateVars>>

Approve(c) ==
  /\ pc[c] = "approving"
  /\ PassGate(c)
  /\ UNCHANGED <<key, result, aborted, mode, hostVars, revision>>

(* The user declines, or the dialog itself rejects. *)
Deny(c) ==
  /\ pc[c] = "approving"
  /\ pc' = [pc EXCEPT ![c] = "failed"]
  /\ UNCHANGED <<key, actsOn, result, aborted, mode, hostVars, stateVars>>

(* The tool of the active write returns: the revision is bumped and given out. *)
WriteOk(c) ==
  /\ pc[c] = "writing"
  /\ revision' = [revision EXCEPT ![key[c]] = @ + 1]
  /\ result' = [result EXCEPT ![c] = revision[key[c]] + 1]
  /\ pc' = [pc EXCEPT ![c] = "settled"]
  /\ actsOn' = [actsOn EXCEPT ![c] = NoDocument]
  /\ UNCHANGED <<key, aborted, mode, hostVars, running, activeWrite, queue>>

(* The tool of the active write throws. *)
WriteFail(c) ==
  /\ pc[c] = "writing"
  /\ pc' = [pc EXCEPT ![c] = "settled"]
  /\ actsOn' = [actsOn EXCEPT ![c] = NoDocument]
  /\ UNCHANGED <<key, result, aborted, mode, hostVars, stateVars>>

(* Mutant of Finally: the slot is released and the next write not started. *)
FinallyWithoutNext(c) ==
  /\ pc[c] = "settled"
  /\ running' = [running EXCEPT ![key[c]] = FALSE]
  /\ activeWrite' = [activeWrite EXCEPT ![key[c]] = NoCall]
  /\ pc' = [pc EXCEPT ![c] = IF result[c] = 0 THEN "failed" ELSE "committed"]
  /\ UNCHANGED <<key, actsOn, result, aborted, mode, hostVars, queue, revision>>

(***************************************************************************)
(* The finally block of processQueue, a microtask after execute() settled: *)
(* running is still true until here.  It starts the next write.            *)
(***************************************************************************)
Finally(c) ==
  /\ pc[c] = "settled"
  /\ ProcessQueue(key[c], queue[key[c]],
                  [pc EXCEPT ![c] = IF result[c] = 0 THEN "failed" ELSE "committed"])
  /\ UNCHANGED <<key, result, aborted, mode, hostVars, revision>>

(* The caller resumes after runWrite; the wrapper tells its observer. *)
Notify(c) ==
  /\ pc[c] = "committed"
  /\ pc' = [pc EXCEPT ![c] = "done"]
  /\ UNCHANGED <<key, actsOn, result, aborted, mode, hostVars, stateVars>>

-----------------------------------------------------------------------------
(* The surroundings. *)

(* The tool calls of a session's agent that have started and not settled. *)
InFlight(s) == {c \in Calls \ Restores : SessionOf[c] = s /\ pc[c] \notin Settled \cup {"new"}}

(* The user aborts a turn: the signal of every call in flight fires. *)
Abort(s) ==
  /\ InFlight(s) # {}
  /\ aborted' = aborted \cup InFlight(s)
  /\ UNCHANGED <<pc, key, actsOn, result, mode, hostVars, stateVars>>

(* The execution mode controller applies a new mode. *)
SetMode(m) ==
  /\ mode # m
  /\ mode' = m
  /\ UNCHANGED <<callVars, hostVars, stateVars>>

(* The first save of a workbook gives it an identity. *)
FirstSave ==
  /\ activeDocument \notin saved
  /\ identityChanges < MaxIdentityChanges
  /\ saved' = saved \cup {activeDocument}
  /\ identityChanges' = identityChanges + 1
  /\ UNCHANGED <<callVars, mode, activeDocument, stateVars>>

(* WPS: the add-in follows ActiveWorkbook, which the user may change. *)
SwitchWorkbook(d) ==
  /\ activeDocument # d
  /\ identityChanges < MaxIdentityChanges
  /\ activeDocument' = d
  /\ identityChanges' = identityChanges + 1
  /\ UNCHANGED <<callVars, mode, saved, stateVars>>

-----------------------------------------------------------------------------
CallStep(c) ==
  \/ Invoke(c) \/ Resolve(c) \/ ResolveRestore(c) \/ ReadEnd(c)
  \/ CheckYolo(c) \/ CheckSafe(c) \/ Approve(c) \/ Deny(c)
  \/ WriteOk(c) \/ WriteFail(c) \/ Finally(c) \/ Notify(c)

Surroundings ==
  \/ \E s \in Sessions : Abort(s)
  \/ \E m \in {"yolo", "safe"} : SetMode(m)
  \/ FirstSave
  \/ \E d \in Documents : SwitchWorkbook(d)

Next == (\E c \in Calls : CallStep(c)) \/ Surroundings

Spec == Init /\ [][Next]_vars

(***************************************************************************)
(* Promises of the host and of the stores resolve, a started tool settles, *)
(* microtasks run.  The model, the user who approves, aborts, saves or     *)
(* switches, and the agent that makes calls promise nothing.               *)
(***************************************************************************)
Progress(c) ==
  \/ Resolve(c) \/ ResolveRestore(c) \/ ReadEnd(c) \/ CheckYolo(c) \/ CheckSafe(c)
  \/ WriteOk(c) \/ WriteFail(c) \/ Finally(c) \/ Notify(c)

Fairness == \A c \in Calls : WF_vars(Progress(c))

FairSpec == Spec /\ Fairness

-----------------------------------------------------------------------------
(* The calls that hold the write slot of their key: from start to finally. *)
Holding(k) == {c \in Calls : key[c] = k /\ pc[c] \in {"writing", "settled"}}

TypeOK ==
  /\ pc \in [Calls -> PCs]
  /\ key \in [Calls -> Keys]
  /\ actsOn \in [Calls -> Documents \cup {NoDocument}]
  /\ result \in [Calls -> Nat]
  /\ aborted \in SUBSET Calls
  /\ mode \in {"yolo", "safe"}
  /\ activeDocument \in Documents
  /\ saved \in SUBSET Documents
  /\ identityChanges \in 0..MaxIdentityChanges
  /\ running \in [Keys -> BOOLEAN]
  /\ activeWrite \in [Keys -> Calls \cup {NoCall}]
  /\ queue \in [Keys -> Seq(Calls)]
  /\ revision \in [Keys -> Nat]

(* The write slot of each key is kept by exactly one call, the one          *)
(* activeWrite names, from its start to its finally block; the queue of a   *)
(* key holds, once each, queued calls that captured that key; nothing is    *)
(* queued at a free slot.                                                   *)
SlotsTaken ==
  \A k \in Keys : running[k] =>
    /\ activeWrite[k] \in Calls
    /\ key[activeWrite[k]] = k
    /\ pc[activeWrite[k]] \in {"writing", "settled"}

SlotsFree ==
  \A k \in Keys : ~ running[k] => activeWrite[k] = NoCall /\ queue[k] = <<>>

HoldersActive ==
  \A c \in Calls : pc[c] \in {"writing", "settled"} =>
    running[key[c]] /\ activeWrite[key[c]] = c

SortedQueue(q, k, p, m) ==
  \A i \in 1..Len(q) :
    /\ p[q[i]] = "queued"
    /\ m[q[i]] = k
    /\ \A j \in 1..Len(q) : q[i] = q[j] => i = j

QueuesSorted == \A k \in Keys : SortedQueue(queue[k], k, pc, key)

SlotInv == SlotsTaken /\ SlotsFree /\ HoldersActive /\ QueuesSorted

(* "Serialized workbook mutation": two mutations that captured the same     *)
(* workbook key never run at the same time, whatever is aborted, fails or   *)
(* changes identity meanwhile.                                              *)
SerializedMutation ==
  \A c, d \in Calls :
    (c # d /\ pc[c] = "writing" /\ pc[d] = "writing") => key[c] # key[d]

(* No lost wakeup: whenever writes wait in a queue, the slot of that queue  *)
(* is taken by a write whose finally block is still to come and will start  *)
(* the next one.                                                            *)
NoStrandedWrite ==
  \A k \in Keys : queue[k] # <<>> =>
    /\ running[k]
    /\ activeWrite[k] \in Holding(k)

(* Revisions number the commits: the revisions runWrite has given out for a *)
(* key are 1..revision, each to one call, in spite of failures, aborts and  *)
(* commits whose caller has not resumed yet.                                *)
RevisionsNumberCommits ==
  \A k \in Keys :
    LET committed == {c \in Calls : key[c] = k /\ result[c] > 0} IN
    /\ {result[c] : c \in committed} = 1..revision[k]
    /\ Cardinality(committed) = revision[k]

(* A mutation whose abort signal fires while it is resolving, being         *)
(* approved or queued never starts to execute its tool.                     *)
AbortedNeverStarts ==
  [][\A c \in Calls :
       (pc[c] # "writing" /\ pc'[c] = "writing") => c \notin aborted]_vars

(* Writers on one physical workbook exclude each other, which is what       *)
(* coordinator.ts:4 says of workbook mutation.                              *)
OneWriterPerDocument ==
  \A c, d \in Calls :
    (c # d /\ pc[c] = "writing" /\ pc[d] = "writing") => actsOn[c] # actsOn[d]

(* Every write that enters a queue leaves it and its caller hears of it,    *)
(* although other calls may wait for the user's approval for ever.          *)
QueuedWritesSettle == \A c \in Calls : pc[c] = "queued" ~> pc[c] \in Settled

-----------------------------------------------------------------------------
(* The refinement: the line of a key is its active write, then its queue. *)
LineOf(k) == IF running[k] THEN <<activeWrite[k]>> \o queue[k] ELSE queue[k]

Line == INSTANCE WriteLine WITH
          Writers <- Calls, Lines <- Keys,
          line <- [k \in Keys |-> LineOf(k)],
          revision <- revision, stamp <- result

(* The coordinator implements the abstract line of writers: it serves each  *)
(* workbook key first come first served, only the active write commits, and *)
(* no write waits for ever.                                                 *)
ServesInLine == Line!FairSpec
==============================================================================
