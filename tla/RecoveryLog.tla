----------------------------- MODULE RecoveryLog -----------------------------
(***************************************************************************)
(* The backups ("checkpoints") a taskpane takes of workbook mutations:     *)
(* WorkbookRecoveryLog (src/src/workbook/recovery-log.ts) over its settings*)
(* store, the scope a backup is filed under (recovery-scope.ts) and the    *)
(* monitor that drops backups when the workbook is saved                   *)
(* (save-boundary-monitor.ts).                                             *)
(*                                                                         *)
(* A step runs from one answer of the host or the store to the next await  *)
(* that leaves the event loop; microtasks between them belong to the step. *)
(* IndexedDB orders the transactions of a store by their creation: a write *)
(* takes effect when it is issued, a read sees the store as of its issue   *)
(* and reads are answered in the order of their issue.                     *)
(***************************************************************************)
EXTENDS Integers, Sequences, SequencesExt, FiniteSets, Lists

CONSTANTS
  Edits,      \* mutations of the workbook, each appends its backup
  Restores,   \* restores of a backup, each appends a rollback backup
  Deletes, Clears, Lists,  \* the other uses of the log, each made once
  Polls,      \* runs of checkOnce that may overlap
  Token,      \* the scope of the never-saved document: its token
  Path,       \* the scope of the saved document: the hash of its path
  None,       \* null
  Starts,     \* how things may be at the start
  MaxEntries, \* MAX_RECOVERY_ENTRIES
  MaxReloads  \* bound on reloads of the taskpane

Writers == Edits \cup Restores
Ops == Writers \cup Deletes \cup Clears \cup Lists
Processes == Ops \cup Polls
Scopes == {Token, Path}

ASSUME RecoveryAssumption ==
  /\ Edits \cap Restores = {} /\ Writers \cap (Deletes \cup Clears \cup Lists) = {}
  /\ Deletes \cap (Clears \cup Lists) = {} /\ Clears \cap Lists = {}
  /\ Ops \cap Polls = {}
  /\ Token # Path /\ None \notin Scopes \cup Processes
  /\ Starts \subseteq [saved : BOOLEAN, loaded : BOOLEAN, faults : BOOLEAN, uses : SUBSET Processes]
  /\ MaxEntries \in Nat \ {0} /\ MaxReloads \in Nat

VARIABLES
  hasPath, hasToken, dirty,  \* the workbook, its document settings, isDirty
  unsaved,      \* the mutations done since the last save
  loaded, snapshots,         \* the log: newest first
  disk,         \* the persisted payload
  reads,        \* reads of the store in flight, in order
  pc,           \* where each process is
  payload,      \* what the read of a process saw
  scope,        \* the scope a process resolved
  target,       \* the backup a restore or a delete is about
  todo,         \* the scopes a poll has still to clear
  lastDirty, lastObserved,   \* the monitor
  faults,       \* the store may lose writes and the taskpane may be reloaded
  reloads

workbook == <<hasPath, hasToken, dirty, unsaved>>
log == <<loaded, snapshots, disk>>
monitor == <<lastDirty, lastObserved>>
weather == <<faults, reloads>>
vars == <<workbook, log, reads, pc, payload, scope, target, todo, monitor,
          weather>>

Backup == [id : Writers, scope : Scopes]
Ids(s) == {s[i].id : i \in DOMAIN s}

(* The workbook has a path, the log is in memory, the store is faulty, and  *)
(* the uses that will be made.                                              *)
StartsAs(start) ==
  /\ hasPath = start.saved /\ loaded = start.loaded /\ faults = start.faults
  /\ pc = [x \in Processes |->
             IF x \notin start.uses THEN "done" ELSE IF x \in Polls THEN "idle" ELSE "new"]

Init ==
  /\ \E start \in Starts : StartsAs(start)
  /\ hasToken = FALSE
  /\ dirty \in BOOLEAN
  /\ unsaved = {}
  /\ snapshots = <<>> /\ disk = <<>>
  /\ reads = <<>>
  /\ payload = [x \in Processes |-> <<>>]
  /\ scope = [x \in Processes |-> None]
  /\ target = [x \in Restores \cup Deletes |-> None]
  /\ todo = [x \in Polls |-> <<>>]
  /\ lastDirty = [w \in Scopes |-> "unknown"] /\ lastObserved = None
  /\ reloads = 0

-----------------------------------------------------------------------------
(* resolveForRead: the path once there is one, else the token if it exists. *)
CurrentScope == IF hasPath THEN Path ELSE IF hasToken THEN Token ELSE None

(* Mutant of Truncated: one entry too many is kept. *)
TruncatedLate(s) == SubSeq(s, 1, IF Len(s) > MaxEntries THEN MaxEntries + 1 ELSE Len(s))

(* Mutant of Truncated: a full log loses one backup more. *)
TruncatedShort(s) ==
  SubSeq(s, 1, IF Len(s) > MaxEntries THEN MaxEntries - 1 ELSE Len(s))

Truncated(s) == SubSeq(s, 1, IF Len(s) > MaxEntries THEN MaxEntries ELSE Len(s))

(* persist: the payload is the memory as it is now; a failure is swallowed. *)
Persist(s) == disk' \in {s} \cup (IF faults THEN {disk} ELSE {})

(* What an operation that found the log in memory as s leaves behind. *)
Keep(s) == snapshots' = s /\ UNCHANGED disk
Replace(s) == snapshots' = s /\ Persist(s)

Goto(x, state) == pc' = [pc EXCEPT ![x] = state]
End(x) == Goto(x, IF x \in Polls THEN "idle" ELSE "done")

(* appendSnapshot under scope w. *)
Place(x, w, s) ==
  /\ Replace(Truncated(<<[id |-> x, scope |-> w]>> \o s))
  /\ End(x)

(* resolveForAppend, then the append; a document without a token gets one. *)
Append_(x, s) ==
  IF CurrentScope # None
  THEN Place(x, CurrentScope, s) /\ UNCHANGED <<hasToken, scope>>
  ELSE /\ hasToken' = TRUE
       /\ Keep(s)
       /\ Goto(x, "tokening")
       /\ UNCHANGED scope

(* restore: the backup must exist and belong to the workbook in front. *)
Restore(x, s) ==
  /\ Keep(s)
  /\ scope' = [scope EXCEPT ![x] = CurrentScope]
  /\ IF \E i \in DOMAIN s : s[i].id = target[x] /\ s[i].scope = CurrentScope
     THEN Goto(x, "applying")
     ELSE End(x)
  /\ UNCHANGED hasToken

(* Mutant of Delete: the shorter log is not persisted. *)
DeleteInMemory(x, s) ==
  /\ Keep(Without(s, {[id |-> target[x], scope |-> CurrentScope]}))
  /\ End(x)
  /\ UNCHANGED <<hasToken, scope>>

Delete(x, s) ==
  LET left == Without(s, {[id |-> target[x], scope |-> CurrentScope]})
  IN  /\ IF left = s THEN Keep(s) ELSE Replace(left)
      /\ End(x)
      /\ UNCHANGED <<hasToken, scope>>

(* clearForWorkbook(w). *)
ClearScope(w, s) ==
  LET left == Without(s, [id : Writers, scope : {w}])
  IN  IF left = s THEN Keep(s) ELSE Replace(left)

(* clearForCurrentWorkbook resolves the scope before the log is loaded. *)
Clear(x, s) ==
  /\ ClearScope(IF pc[x] = "loading" THEN scope[x] ELSE CurrentScope, s)
  /\ End(x)
  /\ UNCHANGED <<hasToken, scope>>

(* A poll clears its scopes in turn and waits for the persist in between. *)
ClearInTurn(x, s) ==
  LET Held(w) == \E i \in DOMAIN s : s[i].scope = w
      first == Head(todo'[x])
      more == Len(todo'[x]) = 2 /\ Held(first)
  IN  /\ ClearScope(IF Held(first) \/ Len(todo'[x]) = 1 THEN first ELSE todo'[x][2], s)
      /\ IF more THEN Goto(x, "clearing") ELSE End(x)
      /\ UNCHANGED <<hasToken, scope>>

(* An operation once ensureLoaded has returned with s in memory. *)
Proceed(x, s) ==
  /\ x \in Edits => Append_(x, s)
  /\ x \in Restores => Restore(x, s)
  /\ x \in Deletes => Delete(x, s)
  /\ x \in Clears => Clear(x, s)
  /\ x \in Polls => ClearInTurn(x, s)
  /\ x \in Lists => Keep(s) /\ End(x) /\ UNCHANGED <<hasToken, scope>>

(***************************************************************************)
(* ensureLoaded: go on at once when the log is in memory, else read the    *)
(* store.  Every operation that finds the log not loaded makes a read.     *)
(***************************************************************************)
EnsureLoaded(x) ==
  IF loaded
  THEN /\ Proceed(x, snapshots)
       /\ UNCHANGED <<loaded, reads, payload>>
  ELSE /\ reads' = Append(reads, x)
       /\ payload' = [payload EXCEPT ![x] = disk]
       /\ Goto(x, "loading")
       /\ scope' = [scope EXCEPT ![x] = IF x \in Clears THEN CurrentScope ELSE @]
       /\ UNCHANGED <<hasToken, log>>

(* The store answers the oldest read: the answer becomes the memory. *)
Loaded(x) ==
  /\ reads # <<>> /\ Head(reads) = x
  /\ reads' = Tail(reads)
  /\ loaded' = TRUE
  /\ todo' = todo
  /\ Proceed(x, payload[x])
  /\ payload' = [payload EXCEPT ![x] = <<>>]
  /\ UNCHANGED <<hasPath, dirty, unsaved, target, monitor, weather>>

(* The read fails: an append goes without a backup, the others throw. *)
LoadFails(x) ==
  /\ reads # <<>> /\ Head(reads) = x
  /\ reads' = Tail(reads)
  /\ payload' = [payload EXCEPT ![x] = <<>>]
  /\ End(x)
  /\ UNCHANGED <<workbook, log, scope, target, todo, monitor, weather>>

-----------------------------------------------------------------------------
(* Operations on the log. *)

(* The write coordinator runs mutations and restores one at a time. *)
Serial == \A x \in Writers : pc[x] \in {"new", "done"}

(* The host has changed the workbook; the audit entry is awaited next. *)
HostEdit(x) ==
  /\ x \in Edits /\ pc[x] = "new" /\ Serial
  /\ dirty' = TRUE
  /\ unsaved' = unsaved \cup {x}
  /\ Goto(x, "edited")
  /\ UNCHANGED <<hasPath, hasToken, log, reads, payload, scope, target, todo,
                 monitor, weather>>

AppendBackup(x) ==
  /\ x \in Edits /\ pc[x] = "edited"
  /\ todo' = todo
  /\ EnsureLoaded(x)
  /\ UNCHANGED <<hasPath, dirty, unsaved, target, monitor, weather>>

(* saveAsync answers: the token is durable, or it is removed again. *)
TokenSaved(x) ==
  /\ pc[x] = "tokening"
  /\ \/ Place(x, Token, snapshots) /\ UNCHANGED hasToken
     \/ hasToken' = FALSE /\ Keep(snapshots) /\ End(x)
  /\ UNCHANGED <<hasPath, dirty, unsaved, loaded, reads, payload, scope, target, todo,
                 monitor, weather>>

(* A restore or a delete names a backup the user has seen. *)
Request(x) ==
  /\ x \in Restores \cup Deletes /\ pc[x] = "new"
  /\ x \in Restores => Serial
  /\ \E id \in Ids(snapshots) \cup Ids(disk) : target' = [target EXCEPT ![x] = id]
  /\ Goto(x, "requested")
  /\ UNCHANGED <<workbook, log, reads, payload, scope, todo, monitor, weather>>

RestoreOrDelete(x) ==
  /\ x \in Restores \cup Deletes /\ pc[x] = "requested"
  /\ todo' = todo
  /\ EnsureLoaded(x)
  /\ UNCHANGED <<hasPath, dirty, unsaved, target, monitor, weather>>

(* The host writes the backup into the workbook, or cannot. *)
HostApply(x) ==
  /\ pc[x] = "applying"
  /\ \/ dirty' = TRUE /\ unsaved' = unsaved \cup {x} /\ Goto(x, "applied")
     \/ End(x) /\ UNCHANGED <<dirty, unsaved>>
  /\ UNCHANGED <<hasPath, hasToken, log, reads, payload, scope, target, todo,
                 monitor, weather>>

(* Mutant of RestoreEnd: the scope is resolved once more for the rollback. *)
RestoreEndResolved(x) ==
  /\ pc[x] = "applied"
  /\ Place(x, CurrentScope, snapshots)
  /\ UNCHANGED <<workbook, loaded, reads, payload, scope, target, todo,
                 monitor, weather>>

(* The rollback backup is appended under the scope the restore resolved. *)
RestoreEnd(x) ==
  /\ pc[x] = "applied"
  /\ Place(x, scope[x], snapshots)
  /\ UNCHANGED <<workbook, loaded, reads, payload, scope, target, todo,
                 monitor, weather>>

(* clearForCurrentWorkbook and listForCurrentWorkbook give up without a     *)
(* scope, before they load the log.                                         *)
ClearOrList(x) ==
  /\ x \in Clears \cup Lists /\ pc[x] = "new"
  /\ CurrentScope # None
  /\ todo' = todo
  /\ EnsureLoaded(x)
  /\ UNCHANGED <<hasPath, dirty, unsaved, target, monitor, weather>>

-----------------------------------------------------------------------------
(* The save boundary. *)

(* A tick of the interval: it does not ask whether another poll is running. *)
PollStart(x) ==
  /\ x \in Polls /\ pc[x] = "idle" /\ CurrentScope # None
  /\ scope' = [scope EXCEPT ![x] = CurrentScope]
  /\ Goto(x, "reading")
  /\ UNCHANGED <<workbook, log, reads, payload, target, todo, monitor, weather>>

(* The host cannot say whether the workbook is dirty. *)
PollUnknown(x) ==
  /\ pc[x] = "reading"
  /\ End(x)
  /\ UNCHANGED <<workbook, log, reads, payload, scope, target, todo, monitor, weather>>

(* Mutant of SavePassed: a workbook seen dirty counts as saved at once. *)
SavePassedEarly(previous, isDirty) == previous = "dirty" \/ ~ isDirty

(* Mutant of SavePassed: only the first answer counts. *)
SavePassedFirst(previous, isDirty) == previous = "unknown" /\ ~ isDirty

(* The workbook went from dirty to clean, or is clean when first seen. *)
SavePassed(previous, isDirty) == previous \in {"dirty", "unknown"} /\ ~ isDirty

(* The host answers isDirty; what to clear follows from the answers so far. *)
PollRead(x) ==
  LET id == scope[x]
      firstSave == lastObserved = Token /\ id = Path
  IN  /\ pc[x] = "reading"
      /\ lastObserved' = id
      /\ lastDirty' = [w \in Scopes |-> CASE w = id -> IF dirty THEN "dirty" ELSE "clean"
                                          [] w # id /\ firstSave -> "unknown"
                                          [] OTHER -> lastDirty[w]]
      /\ todo' = [todo EXCEPT ![x] =
                    (IF SavePassed(lastDirty[id], dirty) THEN <<id>> ELSE <<>>)
                    \o (IF firstSave THEN <<Token>> ELSE <<>>)]
      /\ IF todo'[x] = <<>>
         THEN End(x) /\ UNCHANGED <<hasToken, log, reads, payload, scope>>
         ELSE EnsureLoaded(x)
      /\ UNCHANGED <<hasPath, dirty, unsaved, target, weather>>

(* The persist of the first clear has answered: the second one follows. *)
PollClear(x) ==
  /\ pc[x] = "clearing"
  /\ todo' = [todo EXCEPT ![x] = Tail(@)]
  /\ ClearScope(todo'[x][1], snapshots)
  /\ End(x)
  /\ UNCHANGED <<workbook, loaded, reads, payload, scope, target, monitor, weather>>

-----------------------------------------------------------------------------
(* The surroundings. *)

UserEdit ==
  /\ ~ dirty /\ dirty' = TRUE
  /\ UNCHANGED <<hasPath, hasToken, unsaved, log, reads, pc, payload, scope, target, todo,
                 monitor, weather>>

(* The first save gives the document its path. *)
SaveWorkbook ==
  /\ dirty \/ ~ hasPath
  /\ dirty' = FALSE /\ hasPath' = TRUE /\ unsaved' = {}
  /\ UNCHANGED <<hasToken, log, reads, pc, payload, scope, target, todo, monitor, weather>>

(***************************************************************************)
(* The taskpane is reloaded: memory and everything in flight are lost.  A  *)
(* token on its way to the document may or may not have arrived.           *)
(***************************************************************************)
Reload ==
  /\ faults /\ reloads < MaxReloads
  /\ reloads' = reloads + 1
  /\ loaded' = FALSE /\ snapshots' = <<>> /\ reads' = <<>>
  /\ hasToken' \in {hasToken} \cup (IF \E x \in Edits : pc[x] = "tokening" THEN {FALSE} ELSE {})
  /\ pc' = [x \in Processes |-> CASE pc[x] = "new" -> "new"
                                  [] x \in Polls /\ pc[x] # "done" -> "idle"
                                  [] OTHER -> "done"]
  /\ payload' = [x \in Processes |-> <<>>]
  /\ todo' = [x \in Polls |-> <<>>]
  /\ lastDirty' = [w \in Scopes |-> "unknown"] /\ lastObserved' = None
  /\ UNCHANGED <<hasPath, dirty, unsaved, disk, scope, target, faults>>

-----------------------------------------------------------------------------
OpStep(x) ==
  \/ HostEdit(x) \/ AppendBackup(x) \/ TokenSaved(x)
  \/ Request(x) \/ RestoreOrDelete(x) \/ HostApply(x) \/ RestoreEnd(x)
  \/ ClearOrList(x) \/ Loaded(x) \/ LoadFails(x)

PollStep(x) ==
  PollStart(x) \/ PollUnknown(x) \/ PollRead(x) \/ PollClear(x) \/ Loaded(x) \/ LoadFails(x)

Next ==
  \/ \E x \in Ops : OpStep(x)
  \/ \E x \in Polls : PollStep(x)
  \/ UserEdit \/ SaveWorkbook \/ Reload

Spec == Init /\ [][Next]_vars

(***************************************************************************)
(* The store and the host answer, the interval keeps ticking, and a host   *)
(* that knows isDirty does not fail to tell it for ever.                   *)
(***************************************************************************)
Fairness ==
  /\ \A x \in Ops : WF_vars(AppendBackup(x) \/ TokenSaved(x) \/ RestoreOrDelete(x)
                            \/ HostApply(x) \/ RestoreEnd(x) \/ Loaded(x))
  /\ \A x \in Polls : WF_vars(PollStart(x)) /\ SF_vars(PollRead(x))
                      /\ WF_vars(PollClear(x) \/ Loaded(x))

FairSpec == Spec /\ Fairness

-----------------------------------------------------------------------------
OpStates == {"new", "edited", "requested", "loading", "tokening", "applying", "applied", "done"}
PollStates == {"idle", "reading", "loading", "clearing", "done"}

TypeOK ==
  /\ {hasPath, hasToken, dirty, loaded} \subseteq BOOLEAN
  /\ unsaved \subseteq Writers
  /\ {snapshots, disk} \subseteq BoundedSeq(Backup, MaxEntries)
  /\ reads \in Seq(Processes)
  /\ pc \in [Processes -> OpStates \cup PollStates]
  /\ (\A x \in Ops : pc[x] \in OpStates) /\ (\A x \in Polls : pc[x] \in PollStates)
  /\ payload \in [Processes -> BoundedSeq(Backup, MaxEntries)]
  /\ scope \in [Processes -> Scopes \cup {None}]
  /\ target \in [Restores \cup Deletes -> Writers \cup {None}]
  /\ todo \in [Polls -> Seq(Scopes)]
  /\ lastDirty \in [Scopes -> {"unknown", "dirty", "clean"}]
  /\ lastObserved \in Scopes \cup {None}
  /\ faults \in BOOLEAN /\ reloads \in 0..MaxReloads

Moved(x) == pc'[x] # pc[x]

(* In a taskpane that is not reloaded a backup leaves the log only by a     *)
(* delete of just that backup, by a clear of everything filed under its     *)
(* scope, or as the oldest of a full log that takes a new one in; users are *)
(* promised they "can revert Pi's changes".                                 *)
BackupsKept ==
  [][LET lost == Ids(snapshots) \ Ids(snapshots') IN
     lost # {} /\ ~ faults =>
       \/ \E x \in Deletes : Moved(x) /\ lost = {target[x]}
       \/ \E x \in Clears \cup Polls, w \in Scopes :
            /\ Moved(x)
            /\ lost = {snapshots[i].id : i \in {j \in DOMAIN snapshots : snapshots[j].scope = w}}
       \/ \E x \in Writers :
            /\ Moved(x) /\ snapshots'[1].id = x
            /\ Len(snapshots) = MaxEntries /\ lost = {snapshots[MaxEntries].id}]_vars

(* The store holds the log the user sees, so a reload loses nothing, unless *)
(* it has lost a write.                                                     *)
LogOnDisk == loaded /\ ~ faults => disk = snapshots

(* The save boundary never takes the backup of a mutation that no save has  *)
(* covered: "a backup made after save survives the next poll".  Stated for  *)
(* a store that takes every write and a taskpane that is not reloaded.      *)
UnsavedKept ==
  [][\A x \in Polls :
       Moved(x) /\ ~ faults
       => (Ids(snapshots) \ Ids(snapshots')) \cap unsaved = {}]_vars

(* The rollback backup of a restore is filed with the backup it undoes,     *)
(* although the workbook may get its path while the restore is applied.     *)
RollbackBesideOriginal ==
  \A i, j \in DOMAIN snapshots :
    (snapshots[i].id \in Restores /\ snapshots[j].id = target[snapshots[i].id])
      => snapshots[i].scope = snapshots[j].scope

(* Once a poll has seen the workbook dirty, a later save clears the backups,*)
(* unless the workbook is changed again first (or the store loses writes).  *)
SeenSaveClears ==
  (loaded /\ ~ faults /\ lastDirty[Path] = "dirty" /\ ~ dirty)
    ~> (dirty \/ \A i \in DOMAIN snapshots : snapshots[i].scope # Path)
==============================================================================
