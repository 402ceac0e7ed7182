--------------------------- MODULE RecoveryLogProofs ---------------------------
(***************************************************************************)
(* RecoveryLog, for any operations, polls, starts and limit.               *)
(*                                                                         *)
(* 1. What the limit of the log cuts off (ListTheorems says what its       *)
(*    filters leave).                                                      *)
(* 2. Shape: the types, who waits for a read, and what a process has       *)
(*    settled before it comes to where it is.                              *)
(* 3. Filing: a backup is filed once, under one scope, when its writer is  *)
(*    done; RollbackBesideOriginal rests on it, for every backup the log   *)
(*    can come to hold again: in memory, in the store, or in an answer on  *)
(*    its way.                                                             *)
(* 4. InStep: in a taskpane that has read its log and whose store loses    *)
(*    nothing, memory and store hold the same log.  The invariant adds     *)
(*    that no read is in flight: an answer that came late would put an     *)
(*    older log into the memory, which is what happens when several        *)
(*    operations find the log not loaded.                                  *)
(* 5. What such a taskpane can lose (BackupsKept, UnsavedKept).            *)
(***************************************************************************)
EXTENDS RecoveryLog, ListTheorems

-----------------------------------------------------------------------------
(* 2. The types (Shape), 3. Filing.                                        *)

(* A backup the log can come to hold again: in memory, in the store, or in  *)
(* an answer of the store on its way.                                       *)
Backups == ToSet(snapshots) \cup ToSet(disk) \cup UNION {ToSet(payload[x]) : x \in Processes}

(* Every read in flight is awaited by the process that made it.             *)
ReadsAwaited ==
  /\ \A i \in DOMAIN reads : pc[reads[i]] = "loading"
  /\ \A i, j \in DOMAIN reads : reads[i] = reads[j] => i = j

(* What a process has settled before it comes to where it is.               *)
Stages ==
  \A x \in Processes :
    /\ pc[x] = "tokening" => x \in Edits
    /\ pc[x] \in {"applying", "applied"} => x \in Restores /\ scope[x] \in Scopes
    /\ pc[x] = "reading" => scope[x] \in Scopes
    /\ pc[x] = "clearing" => todo[x] # <<>>

Shape == TypeOK /\ ReadsAwaited /\ Stages

Short == BoundedSeq(Backup, MaxEntries)

LEMMA ShortSeq ==
  ASSUME NEW s
  PROVE  s \in Short <=> s \in Seq(Backup) /\ Len(s) <= MaxEntries
<1>1. MaxEntries \in Nat
  BY RecoveryAssumption
<1>2. ASSUME s \in Short PROVE s \in Seq(Backup) /\ Len(s) <= MaxEntries
  BY <1>1, <1>2 DEF Short, BoundedSeq, SeqOf
<1>3. ASSUME s \in Seq(Backup), Len(s) <= MaxEntries PROVE s \in Short
  <2>1. s \in [1..Len(s) -> Backup] /\ Len(s) \in 0..MaxEntries
    BY <1>1, <1>3
  <2> QED BY <2>1 DEF Short, BoundedSeq, SeqOf
<1> QED BY <1>2, <1>3

LEMMA EmptyShort == <<>> \in Short
<1>1. <<>> \in Seq(Backup) /\ Len(<<>>) = 0 /\ 0 <= MaxEntries
  BY RecoveryAssumption
<1> QED BY <1>1, ShortSeq

LEMMA IdsAre ==
  ASSUME NEW s \in Short
  PROVE  /\ Ids(s) = {b.id : b \in ToSet(s)} /\ Ids(s) \subseteq Writers
         /\ ToSet(s) \subseteq Backup
<1>1. s \in Seq(Backup)
  BY ShortSeq
<1>2. ToSet(s) \subseteq Backup
  BY <1>1 DEF ToSet
<1>3. Ids(s) = {b.id : b \in ToSet(s)}
  BY DEF Ids, ToSet
<1>4. \A b \in Backup : b.id \in Writers
  BY DEF Backup
<1> QED BY <1>2, <1>3, <1>4

(* A log that is shortened is still a log, of the newest backups.           *)
LEMMA TruncatedFits ==
  ASSUME NEW s \in Seq(Backup)
  PROVE  /\ Truncated(s) \in Short
         /\ ToSet(Truncated(s)) \subseteq ToSet(s)
         /\ Len(Truncated(s)) = IF Len(s) > MaxEntries THEN MaxEntries ELSE Len(s)
         /\ \A i \in DOMAIN Truncated(s) : i \in DOMAIN s /\ Truncated(s)[i] = s[i]
<1> DEFINE n == IF Len(s) > MaxEntries THEN MaxEntries ELSE Len(s)
<1>1. n \in Nat /\ n <= Len(s) /\ n <= MaxEntries /\ Len(s) \in Nat
  BY RecoveryAssumption
<1>2. Truncated(s) = [i \in 1..n |-> s[i]]
  BY <1>1 DEF Truncated
<1> HIDE DEF n
<1>3. Truncated(s) \in Seq(Backup) /\ Len(Truncated(s)) = n /\ DOMAIN Truncated(s) = 1..n
  BY <1>1, <1>2
<1>4. \A i \in 1..n : i \in DOMAIN s /\ Truncated(s)[i] = s[i]
  BY <1>1, <1>2
<1> QED BY <1>1, <1>3, <1>4, ShortSeq DEF ToSet, n

LEMMA WithoutFits ==
  ASSUME NEW s \in Short, NEW gone
  PROVE  Without(s, gone) \in Short /\ ToSet(Without(s, gone)) = ToSet(s) \ gone
BY WithoutLeaves, ShortSeq, RecoveryAssumption

LEMMA PutFits ==
  ASSUME NEW b \in Backup, NEW s \in Short
  PROVE  /\ Truncated(<<b>> \o s) \in Short
         /\ ToSet(Truncated(<<b>> \o s)) \subseteq {b} \cup ToSet(s)
<1>1. s \in Seq(Backup)
  BY ShortSeq
<1>2. <<b>> \o s \in Seq(Backup) /\ ToSet(<<b>> \o s) \subseteq {b} \cup ToSet(s)
  BY <1>1 DEF ToSet
<1> QED BY <1>2, TruncatedFits

(* The log after an operation that found it as s: new is what it took in.   *)
LogFrom(s, new) ==
  /\ snapshots' \in Short /\ disk' \in Short
  /\ ToSet(snapshots') \subseteq ToSet(s) \cup new
  /\ ToSet(disk') \subseteq ToSet(s) \cup ToSet(disk) \cup new

LEMMA KeepLog ==
  ASSUME NEW s \in Short, disk \in Short, Keep(s)
  PROVE  LogFrom(s, {})
BY DEF Keep, LogFrom

LEMMA ReplaceLog ==
  ASSUME NEW s \in Short, NEW left \in Short, NEW new, disk \in Short,
         ToSet(left) \subseteq ToSet(s) \cup new, Replace(left)
  PROVE  LogFrom(s, new)
BY DEF Replace, Persist, LogFrom

LEMMA FilterLog ==
  ASSUME NEW s \in Short, NEW gone, disk \in Short,
         IF Without(s, gone) = s THEN Keep(s) ELSE Replace(Without(s, gone))
  PROVE  LogFrom(s, {})
<1>1. Without(s, gone) \in Short /\ ToSet(Without(s, gone)) \subseteq ToSet(s)
  BY WithoutFits
<1>2. CASE Without(s, gone) = s
  BY <1>2, KeepLog
<1>3. CASE Without(s, gone) # s
  BY <1>1, <1>3, ReplaceLog
<1> QED BY <1>2, <1>3

LEMMA ClearScopeLog ==
  ASSUME NEW s \in Short, NEW w, disk \in Short, ClearScope(w, s)
  PROVE  LogFrom(s, {})
BY FilterLog DEF ClearScope

LEMMA PlaceLog ==
  ASSUME NEW x \in Writers, NEW w \in Scopes, NEW s \in Short, disk \in Short, Place(x, w, s)
  PROVE  LogFrom(s, {[id |-> x, scope |-> w]}) /\ pc' = [pc EXCEPT ![x] = "done"]
<1> DEFINE b == [id |-> x, scope |-> w]
<1>1. b \in Backup
  BY DEF Backup
<1>2. pc' = [pc EXCEPT ![x] = "done"]
  BY RecoveryAssumption DEF Place, End, Goto, Ops
<1>3. Replace(Truncated(<<b>> \o s))
  BY DEF Place
<1> HIDE DEF b
<1>4. LogFrom(s, {b})
  BY <1>1, <1>3, PutFits, ReplaceLog
<1> QED BY <1>2, <1>4 DEF b

(* What an operation that goes on with the log s leaves: it goes to st, and *)
(* a backup it takes in is its own, taken when it ends.                     *)
Goes(x, s, st, new) ==
  /\ LogFrom(s, new)
  /\ hasToken' \in BOOLEAN
  /\ pc' = [pc EXCEPT ![x] = st]
  /\ \/ scope' = scope
     \/ x \in Restores /\ scope' = [scope EXCEPT ![x] = CurrentScope]
  /\ st \in {"done", "idle", "tokening", "applying", "clearing"}
  /\ st = "done" => x \in Ops
  /\ st = "idle" => x \in Polls
  /\ st = "tokening" => x \in Edits
  /\ st = "applying" => /\ x \in Restores /\ CurrentScope \in Scopes
                       /\ scope' = [scope EXCEPT ![x] = CurrentScope]
                       /\ \E b \in ToSet(s) : b.id = target[x] /\ b.scope = CurrentScope
  /\ st = "clearing" => x \in Polls /\ todo'[x] # <<>>
  /\ \/ new = {}
     \/ x \in Edits /\ st = "done" /\ \E w \in Scopes : new = {[id |-> x, scope |-> w]}

LEMMA Proceeds ==
  ASSUME TypeOK, NEW x \in Processes, NEW s \in Short, Proceed(x, s)
  PROVE  \E st, new : Goes(x, s, st, new)
<1>1. disk \in Short /\ hasToken \in BOOLEAN /\ Path \in Scopes /\ Token \in Scopes /\ s \in Seq(Backup)
  BY ShortSeq DEF TypeOK, Scopes, Short
<1>2. CurrentScope \in Scopes \cup {None} /\ None \notin Scopes
  BY <1>1, RecoveryAssumption DEF CurrentScope
<1>3. CASE x \in Edits
  <2>1. Append_(x, s) /\ x \in Writers /\ x \in Ops
    BY <1>3 DEF Proceed, Writers, Ops
  <2>2. CASE CurrentScope # None
    <3>1. Place(x, CurrentScope, s) /\ UNCHANGED <<hasToken, scope>> /\ CurrentScope \in Scopes
      BY <1>2, <2>1, <2>2 DEF Append_
    <3>2. Goes(x, s, "done", {[id |-> x, scope |-> CurrentScope]})
      BY <1>1, <1>3, <2>1, <3>1, PlaceLog DEF Goes
    <3> QED BY <3>2
  <2>3. CASE CurrentScope = None
    <3>1. Keep(s) /\ hasToken' = TRUE /\ scope' = scope /\ pc' = [pc EXCEPT ![x] = "tokening"]
      BY <2>1, <2>3 DEF Append_, Goto
    <3>2. Goes(x, s, "tokening", {})
      BY <1>1, <1>3, <3>1, KeepLog DEF Goes
    <3> QED BY <3>2
  <2> QED BY <2>2, <2>3
<1>4. CASE x \in Restores
  <2>1. Restore(x, s) /\ x \in Ops /\ x \notin Polls
    BY <1>4, RecoveryAssumption DEF Proceed, Writers, Ops
  <2>2. LogFrom(s, {}) /\ hasToken' \in BOOLEAN /\ scope' = [scope EXCEPT ![x] = CurrentScope]
    BY <1>1, <2>1, KeepLog DEF Restore
  <2>3. CASE \E i \in DOMAIN s : s[i].id = target[x] /\ s[i].scope = CurrentScope
    <3>1. pc' = [pc EXCEPT ![x] = "applying"]
      BY <2>1, <2>3 DEF Restore, Goto
    <3>2. \E b \in ToSet(s) : b.id = target[x] /\ b.scope = CurrentScope
      BY <2>3 DEF ToSet
    <3>3. CurrentScope \in Scopes
      <4>1. PICK i \in DOMAIN s : s[i].scope = CurrentScope
        BY <2>3
      <4>2. s[i] \in Backup
        BY <1>1
      <4> QED BY <4>1, <4>2 DEF Backup
    <3>4. Goes(x, s, "applying", {})
      BY <1>4, <2>2, <3>1, <3>2, <3>3 DEF Goes
    <3> QED BY <3>4
  <2>4. CASE ~ \E i \in DOMAIN s : s[i].id = target[x] /\ s[i].scope = CurrentScope
    <3>1. pc' = [pc EXCEPT ![x] = "done"]
      BY <2>1, <2>4 DEF Restore, End, Goto
    <3>2. Goes(x, s, "done", {})
      BY <1>4, <2>1, <2>2, <3>1 DEF Goes
    <3> QED BY <3>2
  <2> QED BY <2>3, <2>4
<1>5. CASE x \in Deletes \cup Clears \cup Lists
  <2>1. x \in Ops /\ x \notin Polls /\ x \notin Edits /\ x \notin Restores
    BY <1>5, RecoveryAssumption DEF Writers, Ops
  <2>2. LogFrom(s, {})
    <3>1. CASE x \in Deletes
      BY <1>1, <3>1, FilterLog DEF Proceed, Delete
    <3>2. CASE x \in Clears
      BY <1>1, <3>2, ClearScopeLog DEF Proceed, Clear
    <3>3. CASE x \in Lists
      BY <1>1, <3>3, KeepLog DEF Proceed
    <3> QED BY <1>5, <3>1, <3>2, <3>3
  <2>3. End(x) /\ UNCHANGED <<hasToken, scope>>
    BY <1>5 DEF Proceed, Delete, Clear
  <2>4. Goes(x, s, "done", {})
    BY <1>1, <2>1, <2>2, <2>3 DEF Goes, End, Goto
  <2> QED BY <2>4
<1>6. CASE x \in Polls
  <2>1. ClearInTurn(x, s)
    BY <1>6 DEF Proceed
  <2>2. LogFrom(s, {}) /\ UNCHANGED <<hasToken, scope>>
    BY <1>1, <2>1, ClearScopeLog DEF ClearInTurn
  <2>3. \/ End(x)
        \/ Goto(x, "clearing") /\ Len(todo'[x]) = 2
    BY <2>1 DEF ClearInTurn
  <2>4. CASE End(x)
    <3>1. Goes(x, s, "idle", {})
      BY <1>1, <1>6, <2>2, <2>4 DEF Goes, End, Goto
    <3> QED BY <3>1
  <2>5. CASE Goto(x, "clearing") /\ Len(todo'[x]) = 2
    <3>1. todo'[x] # <<>>
      <4>1. Len(<<>>) # 2
        OBVIOUS
      <4> QED BY <2>5, <4>1, Zenon
    <3>2. Goes(x, s, "clearing", {})
      BY <1>1, <1>6, <2>2, <2>5, <3>1 DEF Goes, Goto
    <3> QED BY <3>2
  <2> QED BY <2>3, <2>4, <2>5
<1> QED BY <1>3, <1>4, <1>5, <1>6 DEF Processes, Ops, Writers

(* One process moves to st: the stages and the reads stay in order.         *)
LEMMA MoveKeepsOrder ==
  ASSUME Shape, NEW x \in Processes, NEW st, pc' = [pc EXCEPT ![x] = st],
         x \in Ops => st \in OpStates, x \in Polls => st \in PollStates,
         \A y \in Processes : y # x => scope'[y] = scope[y],
         \A y \in Polls : y # x => todo'[y] = todo[y],
         st = "tokening" => x \in Edits,
         st \in {"applying", "applied"} => x \in Restores /\ scope'[x] \in Scopes,
         st = "reading" => scope'[x] \in Scopes,
         st = "clearing" => todo'[x] # <<>>,
         \/ reads' = reads /\ pc[x] # "loading"
         \/ reads # <<>> /\ x = Head(reads) /\ reads' = Tail(reads)
         \/ reads' = Append(reads, x) /\ pc[x] # "loading" /\ st = "loading"
  PROVE  /\ pc' \in [Processes -> OpStates \cup PollStates]
         /\ (\A y \in Ops : pc'[y] \in OpStates) /\ (\A y \in Polls : pc'[y] \in PollStates)
         /\ reads' \in Seq(Processes) /\ ReadsAwaited' /\ Stages'
<1>1. /\ pc \in [Processes -> OpStates \cup PollStates] /\ reads \in Seq(Processes)
      /\ (\A y \in Ops : pc[y] \in OpStates) /\ (\A y \in Polls : pc[y] \in PollStates)
  BY DEF Shape, TypeOK
<1>2. Ops \subseteq Processes /\ Polls \subseteq Processes /\ Processes = Ops \cup Polls
  BY DEF Processes
<1>3. /\ pc' \in [Processes -> OpStates \cup PollStates]
      /\ (\A y \in Ops : pc'[y] \in OpStates) /\ (\A y \in Polls : pc'[y] \in PollStates)
  BY <1>1, <1>2
<1>4. pc'[x] = st /\ \A y \in Processes : y # x => pc'[y] = pc[y]
  BY <1>1
<1>5. Stages'
  <2> SUFFICES ASSUME NEW y \in Processes
               PROVE  /\ pc'[y] = "tokening" => y \in Edits
                      /\ pc'[y] \in {"applying", "applied"} => y \in Restores /\ scope'[y] \in Scopes
                      /\ pc'[y] = "reading" => scope'[y] \in Scopes
                      /\ pc'[y] = "clearing" => todo'[y] # <<>>
    BY DEF Stages
  <2>1. CASE y = x
    BY <1>4, <2>1
  <2>2. CASE y # x
    <3>1. pc'[y] = "clearing" => y \in Polls
      BY <1>2, <1>3 DEF OpStates
    <3>2. /\ pc[y] = "tokening" => y \in Edits
          /\ pc[y] \in {"applying", "applied"} => y \in Restores /\ scope[y] \in Scopes
          /\ pc[y] = "reading" => scope[y] \in Scopes
          /\ pc[y] = "clearing" => todo[y] # <<>>
      BY DEF Shape, Stages
    <3> QED BY <1>4, <2>2, <3>1, <3>2
  <2> QED BY <2>1, <2>2
<1>6. /\ \A i \in DOMAIN reads : pc[reads[i]] = "loading" /\ reads[i] \in Processes
      /\ \A i, j \in DOMAIN reads : reads[i] = reads[j] => i = j
  BY <1>1 DEF Shape, ReadsAwaited
<1>7. CASE reads' = reads /\ pc[x] # "loading"
  BY <1>1, <1>3, <1>4, <1>5, <1>6, <1>7 DEF ReadsAwaited
<1>8. CASE reads # <<>> /\ x = Head(reads) /\ reads' = Tail(reads)
  <2>1. reads' \in Seq(Processes) /\ x = reads[1] /\ 1 \in DOMAIN reads
    BY <1>1, <1>8
  <2>2. \A i \in DOMAIN reads' : i + 1 \in DOMAIN reads /\ reads'[i] = reads[i + 1] /\ i + 1 # 1
    BY <1>1, <1>8
  <2>3. \A i \in DOMAIN reads' : reads'[i] # x
    BY <1>6, <2>1, <2>2
  <2>4. \A i, j \in DOMAIN reads' : reads'[i] = reads'[j] => i = j
    <3> SUFFICES ASSUME NEW i \in DOMAIN reads', NEW j \in DOMAIN reads', reads'[i] = reads'[j] PROVE i = j
      OBVIOUS
    <3>1. i + 1 = j + 1
      BY <1>6, <2>2
    <3> QED BY <2>1, <3>1
  <2>5. \A i \in DOMAIN reads' : pc'[reads'[i]] = "loading"
    BY <1>4, <1>6, <2>2, <2>3
  <2> QED BY <1>3, <1>5, <2>1, <2>4, <2>5 DEF ReadsAwaited
<1>9. CASE reads' = Append(reads, x) /\ pc[x] # "loading" /\ st = "loading"
  <2>1. /\ reads' \in Seq(Processes) /\ DOMAIN reads' = 1..(Len(reads) + 1) /\ Len(reads) \in Nat
        /\ reads'[Len(reads) + 1] = x /\ DOMAIN reads = 1..Len(reads)
        /\ \A i \in 1..Len(reads) : reads'[i] = reads[i]
    BY <1>1, <1>9
  <2>2. \A i \in DOMAIN reads : reads[i] # x
    BY <1>6, <1>9
  <2>3. DOMAIN reads' = DOMAIN reads \cup {Len(reads) + 1}
    <3> DEFINE n == Len(reads)
    <3>1. n \in Nat => 1..(n + 1) = (1..n) \cup {n + 1}
      OBVIOUS
    <3> QED BY <2>1, <3>1
  <2>4. \A i, j \in DOMAIN reads' : reads'[i] = reads'[j] => i = j
    BY <1>6, <2>1, <2>2, <2>3
  <2>5. ASSUME NEW i \in DOMAIN reads' PROVE pc'[reads'[i]] = "loading"
    <3>1. CASE i \in DOMAIN reads
      <4>1. reads'[i] = reads[i] /\ reads[i] # x /\ reads[i] \in Processes /\ pc[reads[i]] = "loading"
        BY <1>6, <2>1, <2>2, <3>1
      <4> QED BY <1>4, <4>1
    <3>2. CASE i = Len(reads) + 1
      BY <1>4, <1>9, <2>1, <3>2
    <3> QED BY <2>3, <3>1, <3>2
  <2> QED BY <1>3, <1>5, <2>1, <2>4, <2>5 DEF ReadsAwaited
<1> QED BY <1>7, <1>8, <1>9

(* What of the types a step of one process leaves to be shown.              *)
Rest ==
  /\ {hasPath, hasToken, dirty, loaded} \subseteq BOOLEAN
  /\ unsaved \subseteq Writers
  /\ snapshots \in Short /\ disk \in Short
  /\ payload \in [Processes -> Short]
  /\ scope \in [Processes -> Scopes \cup {None}]
  /\ target \in [Restores \cup Deletes -> Writers \cup {None}]
  /\ todo \in [Polls -> Seq(Scopes)]
  /\ lastDirty \in [Scopes -> {"unknown", "dirty", "clean"}]
  /\ lastObserved \in Scopes \cup {None}
  /\ faults \in BOOLEAN /\ reloads \in 0..MaxReloads

LEMMA ShapeIs ==
  Shape <=> /\ Rest /\ reads \in Seq(Processes)
            /\ pc \in [Processes -> OpStates \cup PollStates]
            /\ (\A y \in Ops : pc[y] \in OpStates) /\ (\A y \in Polls : pc[y] \in PollStates)
            /\ ReadsAwaited /\ Stages
BY DEF Shape, TypeOK, Rest, Short

LEMMA ShapeIsNext ==
  Shape' <=> /\ Rest' /\ reads' \in Seq(Processes)
             /\ pc' \in [Processes -> OpStates \cup PollStates]
             /\ (\A y \in Ops : pc'[y] \in OpStates) /\ (\A y \in Polls : pc'[y] \in PollStates)
             /\ ReadsAwaited' /\ Stages'
BY DEF Shape, TypeOK, Rest, Short

LEMMA EnsureShape ==
  ASSUME Shape, NEW x \in Processes, EnsureLoaded(x), pc[x] # "loading",
         todo' \in [Polls -> Seq(Scopes)], \A y \in Polls : y # x => todo'[y] = todo[y],
         lastDirty' \in [Scopes -> {"unknown", "dirty", "clean"}],
         lastObserved' \in Scopes \cup {None},
         UNCHANGED <<hasPath, dirty, unsaved, target, faults, reloads>>
  PROVE  Shape'
<1>1. Rest
  BY ShapeIs
<1>2. CurrentScope \in Scopes \cup {None}
  BY DEF CurrentScope, Scopes
<1>3. CASE loaded
  <2>1. Proceed(x, snapshots) /\ UNCHANGED <<loaded, reads, payload>>
    BY <1>3 DEF EnsureLoaded
  <2>2. PICK st, new : Goes(x, snapshots, st, new)
    BY <1>1, <2>1, Proceeds DEF Rest, Shape
  <2>3. Rest'
    BY <1>1, <1>2, <2>1, <2>2 DEF Rest, Goes, LogFrom
  <2>4. /\ pc' \in [Processes -> OpStates \cup PollStates]
        /\ (\A y \in Ops : pc'[y] \in OpStates) /\ (\A y \in Polls : pc'[y] \in PollStates)
        /\ reads' \in Seq(Processes) /\ ReadsAwaited' /\ Stages'
    <3>1. /\ x \in Ops => st \in OpStates
          /\ x \in Polls => st \in PollStates
      BY <2>2, RecoveryAssumption DEF Goes, OpStates, PollStates, Ops, Writers
    <3>2. \A y \in Processes : y # x => scope'[y] = scope[y]
      BY <1>1, <2>2 DEF Goes, Rest
    <3>3. /\ st = "tokening" => x \in Edits
          /\ st \in {"applying", "applied"} => x \in Restores /\ scope'[x] \in Scopes
          /\ st # "reading"
          /\ st = "clearing" => todo'[x] # <<>>
      BY <1>1, <2>2 DEF Goes, Rest
    <3>4. pc' = [pc EXCEPT ![x] = st]
      BY <2>2 DEF Goes
    <3> QED BY <2>1, <3>1, <3>2, <3>3, <3>4, MoveKeepsOrder
  <2> QED BY <2>3, <2>4, ShapeIsNext
<1>4. CASE ~ loaded
  <2>1. /\ reads' = Append(reads, x) /\ payload' = [payload EXCEPT ![x] = disk]
        /\ pc' = [pc EXCEPT ![x] = "loading"]
        /\ scope' = [scope EXCEPT ![x] = IF x \in Clears THEN CurrentScope ELSE @]
        /\ UNCHANGED <<hasToken, loaded, snapshots, disk>>
    BY <1>4 DEF EnsureLoaded, Goto, log
  <2>3. Rest'
    BY <1>1, <1>2, <2>1 DEF Rest
  <2>4. /\ pc' \in [Processes -> OpStates \cup PollStates]
        /\ (\A y \in Ops : pc'[y] \in OpStates) /\ (\A y \in Polls : pc'[y] \in PollStates)
        /\ reads' \in Seq(Processes) /\ ReadsAwaited' /\ Stages'
    <3>1. "loading" \in OpStates /\ "loading" \in PollStates
      BY DEF OpStates, PollStates
    <3>2. \A y \in Processes : y # x => scope'[y] = scope[y]
      BY <1>1, <2>1 DEF Rest
    <3> QED BY <2>1, <3>1, <3>2, MoveKeepsOrder
  <2> QED BY <2>3, <2>4, ShapeIsNext
<1> QED BY <1>3, <1>4

LEMMA LoadedShape ==
  ASSUME Shape, NEW x \in Processes, Loaded(x)
  PROVE  Shape'
<1>1. Rest
  BY ShapeIs
<1>2. CurrentScope \in Scopes \cup {None}
  BY DEF CurrentScope, Scopes
<1>3. /\ reads # <<>> /\ x = Head(reads) /\ reads' = Tail(reads) /\ loaded' = TRUE /\ todo' = todo
      /\ Proceed(x, payload[x]) /\ payload' = [payload EXCEPT ![x] = <<>>]
      /\ UNCHANGED <<hasPath, dirty, unsaved, target, lastDirty, lastObserved, faults, reloads>>
  BY DEF Loaded, monitor, weather
<1>4. payload[x] \in Short
  BY <1>1 DEF Rest
<1>5. PICK st, new : Goes(x, payload[x], st, new)
  BY <1>3, <1>4, Proceeds DEF Shape
<1>6. <<>> \in Short
  BY EmptyShort
<1>7. Rest'
  BY <1>1, <1>2, <1>3, <1>5, <1>6 DEF Rest, Goes, LogFrom
<1>8. /\ pc' \in [Processes -> OpStates \cup PollStates]
      /\ (\A y \in Ops : pc'[y] \in OpStates) /\ (\A y \in Polls : pc'[y] \in PollStates)
      /\ reads' \in Seq(Processes) /\ ReadsAwaited' /\ Stages'
  <2>1. /\ x \in Ops => st \in OpStates
        /\ x \in Polls => st \in PollStates
    BY <1>5, RecoveryAssumption DEF Goes, OpStates, PollStates, Ops, Writers
  <2>2. \A y \in Processes : y # x => scope'[y] = scope[y]
    BY <1>1, <1>5 DEF Goes, Rest
  <2>3. /\ st = "tokening" => x \in Edits
        /\ st \in {"applying", "applied"} => x \in Restores /\ scope'[x] \in Scopes
        /\ st # "reading"
        /\ st = "clearing" => todo'[x] # <<>>
    BY <1>1, <1>5 DEF Goes, Rest
  <2>4. pc' = [pc EXCEPT ![x] = st]
    BY <1>5 DEF Goes
  <2> QED BY <1>3, <2>1, <2>2, <2>3, <2>4, MoveKeepsOrder
<1> QED BY <1>7, <1>8, ShapeIsNext

(* The other steps of an operation.                                         *)
LEMMA OpShape ==
  ASSUME Shape, NEW x \in Ops, OpStep(x)
  PROVE  Shape'
<1>1. Rest /\ x \in Processes /\ x \notin Polls
  BY ShapeIs, RecoveryAssumption DEF Processes
<1>2. \A y \in Processes : pc[y] = "tokening" => y \in Edits
  BY DEF Shape, Stages
<1>3. \A y \in Processes : pc[y] \in {"applying", "applied"} => y \in Restores /\ scope[y] \in Scopes
  BY DEF Shape, Stages
<1>4. {"edited", "requested", "applied", "done"} \subseteq OpStates
  BY DEF OpStates
<1>5. ASSUME Rest', NEW st \in {"edited", "requested", "applied", "done"}, pc' = [pc EXCEPT ![x] = st],
             UNCHANGED <<scope, todo>>, st = "applied" => pc[x] = "applying",
             \/ reads' = reads /\ pc[x] # "loading"
             \/ reads # <<>> /\ x = Head(reads) /\ reads' = Tail(reads)
      PROVE  Shape'
  <2>1. /\ pc' \in [Processes -> OpStates \cup PollStates]
        /\ (\A y \in Ops : pc'[y] \in OpStates) /\ (\A y \in Polls : pc'[y] \in PollStates)
        /\ reads' \in Seq(Processes) /\ ReadsAwaited' /\ Stages'
    <3>1. x \in Ops => st \in OpStates
      BY <1>4, <1>5
    <3>2. /\ st # "tokening" /\ st # "reading" /\ st # "clearing" /\ st # "loading"
          /\ st \in {"applying", "applied"} => x \in Restores /\ scope'[x] \in Scopes
      BY <1>1, <1>3, <1>5
    <3> QED BY <1>1, <1>5, <3>1, <3>2, MoveKeepsOrder
  <2> QED BY <1>5, <2>1, ShapeIsNext
<1>6. CASE HostEdit(x)
  <2>1. Rest'
    BY <1>1, <1>6 DEF HostEdit, Rest, log, monitor, weather, Writers
  <2> QED BY <1>5, <1>6, <2>1 DEF HostEdit, Goto
<1>7. CASE AppendBackup(x) \/ RestoreOrDelete(x) \/ ClearOrList(x)
  <2>1. /\ EnsureLoaded(x) /\ pc[x] # "loading" /\ todo' = todo
        /\ UNCHANGED <<hasPath, dirty, unsaved, target, lastDirty, lastObserved, faults, reloads>>
    BY <1>7 DEF AppendBackup, RestoreOrDelete, ClearOrList, monitor, weather
  <2> QED BY <1>1, <2>1, EnsureShape DEF Rest
<1>8. CASE TokenSaved(x)
  <2>1. pc[x] = "tokening" /\ x \in Edits /\ x \in Writers /\ Token \in Scopes
    BY <1>1, <1>2, <1>8 DEF TokenSaved, Writers, Scopes
  <2>2. UNCHANGED <<hasPath, dirty, unsaved, loaded, reads, payload, scope, target, todo,
                    lastDirty, lastObserved, faults, reloads>>
    BY <1>8 DEF TokenSaved, monitor, weather
  <2>3. /\ pc' = [pc EXCEPT ![x] = "done"] /\ hasToken' \in BOOLEAN
        /\ snapshots' \in Short /\ disk' \in Short
    <3>1. CASE Place(x, Token, snapshots) /\ UNCHANGED hasToken
      BY <1>1, <2>1, <3>1, PlaceLog DEF Rest, LogFrom
    <3>2. CASE hasToken' = FALSE /\ Keep(snapshots) /\ End(x)
      BY <1>1, <3>2 DEF Rest, Keep, End, Goto
    <3> QED BY <1>8, <3>1, <3>2 DEF TokenSaved
  <2>4. Rest'
    BY <1>1, <2>2, <2>3 DEF Rest
  <2> QED BY <1>5, <2>1, <2>2, <2>3, <2>4
<1>9. CASE Request(x)
  <2>1. PICK id \in Ids(snapshots) \cup Ids(disk) : target' = [target EXCEPT ![x] = id]
    BY <1>9 DEF Request
  <2>2. id \in Writers
    <3>1. snapshots \in Short /\ disk \in Short
      BY <1>1 DEF Rest
    <3> QED BY <2>1, <3>1, IdsAre
  <2>3. Rest'
    BY <1>1, <1>9, <2>1, <2>2 DEF Request, Rest, workbook, log, monitor, weather
  <2> QED BY <1>5, <1>9, <2>3 DEF Request, Goto
<1>10. CASE HostApply(x)
  <2>1. PICK st \in {"applied", "done"} : pc' = [pc EXCEPT ![x] = st]
    BY <1>1, <1>10 DEF HostApply, Goto, End
  <2>2. Rest'
    BY <1>1, <1>3, <1>10 DEF HostApply, Rest, Writers, log, monitor, weather
  <2> QED BY <1>5, <1>10, <2>1, <2>2 DEF HostApply
<1>11. CASE RestoreEnd(x)
  <2>1. pc[x] = "applied" /\ x \in Writers /\ scope[x] \in Scopes /\ Place(x, scope[x], snapshots)
    BY <1>1, <1>3, <1>11 DEF RestoreEnd, Writers
  <2>2. pc' = [pc EXCEPT ![x] = "done"] /\ snapshots' \in Short /\ disk' \in Short
    BY <1>1, <2>1, PlaceLog DEF Rest, LogFrom
  <2>3. Rest'
    BY <1>1, <1>11, <2>2 DEF RestoreEnd, Rest, workbook, monitor, weather
  <2> QED BY <1>5, <1>11, <2>1, <2>2, <2>3 DEF RestoreEnd
<1>12. CASE Loaded(x)
  BY <1>1, <1>12, LoadedShape
<1>13. CASE LoadFails(x)
  <2>1. pc' = [pc EXCEPT ![x] = "done"]
    BY <1>1, <1>13 DEF LoadFails, End, Goto
  <2>2. <<>> \in Short
    BY EmptyShort
  <2>3. Rest'
    BY <1>1, <1>13, <2>2 DEF LoadFails, Rest, workbook, log, monitor, weather
  <2> QED BY <1>5, <1>13, <2>1, <2>3 DEF LoadFails
<1> QED BY <1>6, <1>7, <1>8, <1>9, <1>10, <1>11, <1>12, <1>13 DEF OpStep

LEMMA PollShape ==
  ASSUME Shape, NEW x \in Polls, PollStep(x)
  PROVE  Shape'
<1>1. Rest /\ x \in Processes /\ x \notin Ops
  BY ShapeIs, RecoveryAssumption DEF Processes
<1>2. {"idle", "reading"} \subseteq PollStates
  BY DEF PollStates
<1>3. ASSUME Rest', NEW st \in {"idle", "reading"}, pc' = [pc EXCEPT ![x] = st],
             \A y \in Processes : y # x => scope'[y] = scope[y],
             \A y \in Polls : y # x => todo'[y] = todo[y],
             st = "reading" => scope'[x] \in Scopes,
             \/ reads' = reads /\ pc[x] # "loading"
             \/ reads # <<>> /\ x = Head(reads) /\ reads' = Tail(reads)
      PROVE  Shape'
  <2>1. /\ pc' \in [Processes -> OpStates \cup PollStates]
        /\ (\A y \in Ops : pc'[y] \in OpStates) /\ (\A y \in Polls : pc'[y] \in PollStates)
        /\ reads' \in Seq(Processes) /\ ReadsAwaited' /\ Stages'
    <3>1. x \in Polls => st \in PollStates
      BY <1>2, <1>3
    <3>2. st # "tokening" /\ st \notin {"applying", "applied"} /\ st # "clearing" /\ st # "loading"
      BY <1>3
    <3> QED BY <1>1, <1>3, <3>1, <3>2, MoveKeepsOrder
  <2> QED BY <1>3, <2>1, ShapeIsNext
<1>4. CASE PollStart(x)
  <2>1. /\ pc[x] = "idle" /\ CurrentScope \in Scopes /\ scope' = [scope EXCEPT ![x] = CurrentScope]
        /\ pc' = [pc EXCEPT ![x] = "reading"]
        /\ UNCHANGED <<workbook, log, reads, payload, target, todo, monitor, weather>>
    BY <1>4 DEF PollStart, Goto, CurrentScope, Scopes
  <2>2. Rest'
    BY <1>1, <2>1 DEF Rest, workbook, log, monitor, weather
  <2>3. scope'[x] \in Scopes /\ \A y \in Processes : y # x => scope'[y] = scope[y]
    BY <1>1, <2>1 DEF Rest
  <2> QED BY <1>3, <2>1, <2>2, <2>3
<1>5. CASE PollUnknown(x)
  <2>1. /\ pc[x] = "reading" /\ pc' = [pc EXCEPT ![x] = "idle"]
        /\ UNCHANGED <<workbook, log, reads, payload, scope, target, todo, monitor, weather>>
    BY <1>5 DEF PollUnknown, Goto, End
  <2>2. Rest'
    BY <1>1, <2>1 DEF Rest, workbook, log, monitor, weather
  <2> QED BY <1>3, <2>1, <2>2
<1>6. CASE PollRead(x)
  <2> DEFINE id == scope[x]
             firstSave == lastObserved = Token /\ id = Path
             due == (IF SavePassed(lastDirty[id], dirty) THEN <<id>> ELSE <<>>)
                    \o (IF firstSave THEN <<Token>> ELSE <<>>)
  <2>1. /\ pc[x] = "reading" /\ lastObserved' = id
        /\ lastDirty' = [w \in Scopes |-> CASE w = id -> IF dirty THEN "dirty" ELSE "clean"
                                            [] w # id /\ firstSave -> "unknown"
                                            [] OTHER -> lastDirty[w]]
        /\ todo' = [todo EXCEPT ![x] = due]
        /\ UNCHANGED <<hasPath, dirty, unsaved, target, weather>>
    BY <1>6 DEF PollRead
  <2>2. \/ EnsureLoaded(x)
        \/ End(x) /\ UNCHANGED <<hasToken, log, reads, payload, scope>>
    BY <1>6 DEF PollRead
  <2>3. id \in Scopes /\ Token \in Scopes
    BY <1>1, <2>1 DEF Shape, Stages, Scopes
  <2>4. due \in Seq(Scopes)
    BY <2>3
  <2>5. lastDirty' \in [Scopes -> {"unknown", "dirty", "clean"}]
    <3>1. lastDirty \in [Scopes -> {"unknown", "dirty", "clean"}] /\ dirty \in BOOLEAN
      BY <1>1 DEF Rest
    <3> HIDE DEF firstSave, id
    <3> QED BY <2>1, <3>1
  <2> HIDE DEF due, firstSave
  <2>6. todo' \in [Polls -> Seq(Scopes)] /\ \A y \in Polls : y # x => todo'[y] = todo[y]
    BY <1>1, <2>1, <2>4 DEF Rest
  <2>7. CASE EnsureLoaded(x)
    BY <1>1, <2>1, <2>3, <2>5, <2>6, <2>7, EnsureShape DEF weather
  <2>8. CASE End(x) /\ UNCHANGED <<hasToken, log, reads, payload, scope>>
    <3>1. pc' = [pc EXCEPT ![x] = "idle"]
      BY <2>8 DEF End, Goto
    <3>2. Rest'
      BY <1>1, <2>1, <2>3, <2>5, <2>6, <2>8 DEF Rest, log, weather
    <3> QED BY <1>3, <2>1, <2>6, <2>8, <3>1, <3>2
  <2> QED BY <2>2, <2>7, <2>8
<1>7. CASE PollClear(x)
  <2>1. /\ pc[x] = "clearing" /\ pc' = [pc EXCEPT ![x] = "idle"]
        /\ todo' = [todo EXCEPT ![x] = Tail(@)] /\ ClearScope(todo'[x][1], snapshots)
        /\ UNCHANGED <<workbook, loaded, reads, payload, scope, target, monitor, weather>>
    BY <1>7 DEF PollClear, Goto, End
  <2>2. todo[x] # <<>> /\ todo[x] \in Seq(Scopes)
    BY <1>1, <2>1 DEF Shape, Stages, Rest
  <2>3. Tail(todo[x]) \in Seq(Scopes)
    BY <2>2
  <2>4. snapshots' \in Short /\ disk' \in Short
    BY <1>1, <2>1, ClearScopeLog DEF LogFrom, Rest
  <2>5. todo' \in [Polls -> Seq(Scopes)] /\ \A y \in Polls : y # x => todo'[y] = todo[y]
    BY <1>1, <2>1, <2>3 DEF Rest
  <2>6. Rest'
    BY <1>1, <2>1, <2>4, <2>5 DEF Rest, workbook, monitor, weather
  <2> QED BY <1>3, <2>1, <2>5, <2>6
<1>8. CASE Loaded(x)
  BY <1>1, <1>8, LoadedShape
<1>9. CASE LoadFails(x)
  <2>1. pc' = [pc EXCEPT ![x] = "idle"]
    BY <1>9 DEF LoadFails, End, Goto
  <2>2. Rest'
    BY <1>1, <1>9, EmptyShort DEF LoadFails, Rest, workbook, log, monitor, weather
  <2> QED BY <1>3, <1>9, <2>1, <2>2 DEF LoadFails
<1> QED BY <1>4, <1>5, <1>6, <1>7, <1>8, <1>9 DEF PollStep

LEMMA ReloadShape == Shape /\ Reload => Shape'
<1> SUFFICES ASSUME Shape, Reload PROVE Shape'
  OBVIOUS
<1>1. /\ Rest /\ pc \in [Processes -> OpStates \cup PollStates]
      /\ (\A y \in Ops : pc[y] \in OpStates) /\ (\A y \in Polls : pc[y] \in PollStates)
  BY ShapeIs
<1>2. /\ pc' = [x \in Processes |-> CASE pc[x] = "new" -> "new"
                                     [] x \in Polls /\ pc[x] # "done" -> "idle"
                                     [] OTHER -> "done"]
      /\ reads' = <<>>
  BY DEF Reload
<1>3. ASSUME NEW x \in Processes
      PROVE  \/ pc'[x] = "new" /\ pc[x] = "new"
             \/ pc'[x] = "idle" /\ x \in Polls
             \/ pc'[x] = "done"
  BY <1>2
<1>4. Ops \subseteq Processes /\ Polls \subseteq Processes /\ Ops \cap Polls = {}
  BY RecoveryAssumption DEF Processes
<1>5. /\ pc' \in [Processes -> OpStates \cup PollStates]
      /\ (\A y \in Ops : pc'[y] \in OpStates) /\ (\A y \in Polls : pc'[y] \in PollStates)
  <2>1. "new" \in OpStates /\ "done" \in OpStates /\ "idle" \in PollStates /\ "done" \in PollStates
        /\ "new" \notin PollStates
    BY DEF OpStates, PollStates
  <2>2. ASSUME NEW y \in Ops PROVE pc'[y] \in OpStates
    <3>1. y \in Processes /\ y \notin Polls
      BY <1>4
    <3> QED BY <1>3, <2>1, <3>1
  <2>3. ASSUME NEW y \in Polls PROVE pc'[y] \in PollStates
    <3>1. y \in Processes /\ pc[y] \in PollStates
      BY <1>1, <1>4
    <3> QED BY <1>3, <2>1, <3>1
  <2>4. ASSUME NEW x \in Processes PROVE pc'[x] \in OpStates \cup PollStates
    BY <1>3, <2>1
  <2> QED BY <1>2, <2>2, <2>3, <2>4
<1>6. reads' \in Seq(Processes) /\ ReadsAwaited'
  BY <1>2 DEF ReadsAwaited
<1>7. Stages'
  <2> SUFFICES ASSUME NEW x \in Processes
               PROVE  pc'[x] \notin {"tokening", "applying", "applied", "reading", "clearing"}
    BY DEF Stages
  <2> QED BY <1>3
<1>8. <<>> \in Short /\ <<>> \in Seq(Scopes) /\ reloads' \in 0..MaxReloads
  BY <1>1, EmptyShort, RecoveryAssumption DEF Reload, Rest
<1>9. Rest'
  BY <1>1, <1>8 DEF Reload, Rest
<1> QED BY <1>5, <1>6, <1>7, <1>9, ShapeIsNext

LEMMA ShapeStep == Shape /\ [Next]_vars => Shape'
<1> SUFFICES ASSUME Shape, [Next]_vars PROVE Shape'
  OBVIOUS
<1>1. CASE UserEdit \/ SaveWorkbook
  <2>1. /\ hasPath' \in BOOLEAN /\ dirty' \in BOOLEAN /\ unsaved' \subseteq Writers
        /\ UNCHANGED <<hasToken, log, reads, pc, payload, scope, target, todo, monitor, weather>>
    BY <1>1 DEF UserEdit, SaveWorkbook, Shape, TypeOK
  <2>2. Rest /\ Stages /\ ReadsAwaited
    BY ShapeIs
  <2>3. Rest'
    BY <2>1, <2>2 DEF Rest, log, monitor, weather
  <2>4. Stages' /\ ReadsAwaited'
    BY <2>1, <2>2 DEF Stages, ReadsAwaited
  <2> QED BY <2>1, <2>3, <2>4, ShapeIs, ShapeIsNext
<1>2. CASE UNCHANGED vars
  <2>1. Rest /\ Stages /\ ReadsAwaited
    BY ShapeIs
  <2>2. UNCHANGED <<workbook, log, reads, pc, payload, scope, target, todo, monitor, weather>>
    BY <1>2 DEF vars
  <2>3. Rest'
    BY <2>1, <2>2 DEF Rest, workbook, log, monitor, weather
  <2>4. Stages' /\ ReadsAwaited'
    BY <2>1, <2>2 DEF Stages, ReadsAwaited
  <2> QED BY <2>2, <2>3, <2>4, ShapeIs, ShapeIsNext
<1> QED BY <1>1, <1>2, OpShape, PollShape, ReloadShape DEF Next

(* A backup is filed once, under one scope, when its writer is done.        *)
FiledOnce == \A b, c \in Backups : b.id = c.id => b.scope = c.scope
FiledWhenDone == \A b \in Backups : pc[b.id] = "done"

(* The backup a restore is about is not written again.                      *)
TargetDone == \A x \in Restores : target[x] # None => pc[target[x]] = "done"

(* While a restore is applied, its scope is that of the backup it is about. *)
Applying(x) == pc[x] \in {"applying", "applied"}
ScopeFits ==
  \A x \in Restores, b \in Backups : Applying(x) /\ b.id = target[x] => b.scope = scope[x]

(* RollbackBesideOriginal, for all backups and not only those in memory.    *)
Beside ==
  \A b, c \in Backups : b.id \in Restores /\ c.id = target[b.id] => b.scope = c.scope

Filing == FiledOnce /\ FiledWhenDone /\ TargetDone /\ ScopeFits /\ Beside

LEMMA BackupsTyped ==
  ASSUME Shape
  PROVE  Backups \subseteq Backup
<1>1. snapshots \in Short /\ disk \in Short /\ \A x \in Processes : payload[x] \in Short
  BY DEF Shape, TypeOK, Short
<1> QED BY <1>1, IdsAre DEF Backups

(* What a step does that files nothing: a restore comes to name a backup    *)
(* there is, or is applied under the scope of the backup it names.          *)
StaysDone == \A y \in Processes : pc[y] = "done" => pc'[y] = "done"
NamesBackup ==
  \A y \in Restores : \/ target'[y] = target[y]
                      \/ pc[y] = "new" /\ \E b \in Backups : target'[y] = b.id
FitsBackup ==
  \A y \in Restores : (pc'[y] \in {"applying", "applied"}) =>
     /\ target'[y] = target[y]
     /\ \/ Applying(y) /\ scope'[y] = scope[y]
        \/ \E b \in Backups : b.id = target[y] /\ b.scope = scope'[y]

LEMMA FilingStays ==
  ASSUME Shape, Filing, Backups' \subseteq Backups,
         StaysDone, NamesBackup, FitsBackup
  PROVE  Filing'
<1>1. Backups \subseteq Backup /\ \A b \in Backup : b.id \in Writers
  BY BackupsTyped DEF Backup
<1>2. Writers \subseteq Processes /\ Restores \subseteq Writers /\ None \notin Processes
  BY RecoveryAssumption DEF Processes, Ops, Writers
<1>3. \A y \in Restores : target[y] # None => target[y] \in Processes
  BY <1>2 DEF Shape, TypeOK
<1>4. FiledOnce'
  BY DEF Filing, FiledOnce
<1>5. FiledWhenDone'
  <2> SUFFICES ASSUME NEW b \in Backups' PROVE pc'[b.id] = "done"
    BY DEF FiledWhenDone
  <2>1. b \in Backups /\ b.id \in Processes
    BY <1>1, <1>2
  <2> QED BY <2>1 DEF Filing, FiledWhenDone, StaysDone
<1>6. TargetDone'
  <2> SUFFICES ASSUME NEW y \in Restores, target'[y] # None PROVE pc'[target'[y]] = "done"
    BY DEF TargetDone
  <2>1. CASE target'[y] = target[y]
    <3>1. target[y] \in Processes /\ pc[target[y]] = "done"
      BY <1>3, <2>1 DEF Filing, TargetDone
    <3> QED BY <2>1, <3>1 DEF StaysDone
  <2>2. CASE \E b \in Backups : target'[y] = b.id
    <3>1. PICK b \in Backups : target'[y] = b.id
      BY <2>2
    <3>2. b.id \in Processes /\ pc[b.id] = "done"
      BY <1>1, <1>2 DEF Filing, FiledWhenDone
    <3> QED BY <3>1, <3>2 DEF StaysDone
  <2> QED BY <2>1, <2>2 DEF NamesBackup
<1>7. ScopeFits'
  <2> SUFFICES ASSUME NEW y \in Restores, NEW b \in Backups', pc'[y] \in {"applying", "applied"}, b.id = target'[y]
               PROVE  b.scope = scope'[y]
    BY DEF ScopeFits, Applying
  <2>1. b \in Backups
    OBVIOUS
  <2>2. CASE Applying(y) /\ scope'[y] = scope[y] /\ target'[y] = target[y]
    BY <2>1, <2>2 DEF Filing, ScopeFits
  <2>3. CASE target'[y] = target[y] /\ \E c \in Backups : c.id = target[y] /\ c.scope = scope'[y]
    BY <2>1, <2>3 DEF Filing, FiledOnce
  <2> QED BY <2>2, <2>3 DEF FitsBackup
<1>8. Beside'
  <2> SUFFICES ASSUME NEW b \in Backups', NEW c \in Backups', b.id \in Restores, c.id = target'[b.id]
               PROVE  b.scope = c.scope
    BY DEF Beside
  <2>1. b \in Backups /\ c \in Backups /\ pc[b.id] = "done"
    BY DEF Filing, FiledWhenDone
  <2>2. target'[b.id] = target[b.id]
    BY <2>1 DEF NamesBackup
  <2> QED BY <2>1, <2>2 DEF Filing, Beside
<1> QED BY <1>4, <1>5, <1>6, <1>7, <1>8 DEF Filing

(* A step that files the backup of x and ends it.                           *)
LEMMA FilingTakes ==
  ASSUME Shape, Filing, NEW x \in Writers, NEW w \in Scopes,
         Backups' \subseteq Backups \cup {[id |-> x, scope |-> w]},
         pc' = [pc EXCEPT ![x] = "done"], pc[x] # "done", UNCHANGED <<scope, target>>,
         x \in Restores => Applying(x) /\ w = scope[x]
  PROVE  Filing'
<1> DEFINE new == [id |-> x, scope |-> w]
<1>1. Backups \subseteq Backup /\ \A b \in Backup : b.id \in Writers
  BY BackupsTyped DEF Backup
<1>2. Writers \subseteq Processes /\ Restores \subseteq Writers /\ None \notin Processes
  BY RecoveryAssumption DEF Processes, Ops, Writers
<1>3. \A y \in Restores : target[y] # None => target[y] \in Processes
  BY <1>2 DEF Shape, TypeOK
<1>4. /\ pc'[x] = "done" /\ \A y \in Processes : y # x => pc'[y] = pc[y]
      /\ \A y \in Processes : pc[y] = "done" => pc'[y] = "done"
  BY <1>2 DEF Shape, TypeOK
<1>5. \A b \in Backups : b.id # x
  BY DEF Filing, FiledWhenDone
<1>6. \A b \in Backups' : b \in Backups \/ b = new
  OBVIOUS
<1>7. new.id = x /\ new.scope = w
  OBVIOUS
<1>8. \A y \in Restores : target[y] # x
  BY <1>2, <1>3 DEF Filing, TargetDone
<1> HIDE DEF new
<1>9. FiledOnce'
  BY <1>5, <1>6, <1>7 DEF Filing, FiledOnce
<1>10. FiledWhenDone'
  <2> SUFFICES ASSUME NEW b \in Backups' PROVE pc'[b.id] = "done"
    BY DEF FiledWhenDone
  <2>1. CASE b \in Backups
    BY <1>1, <1>2, <1>4, <2>1 DEF Filing, FiledWhenDone
  <2> QED BY <1>4, <1>6, <1>7, <2>1
<1>11. TargetDone'
  BY <1>3, <1>4 DEF Filing, TargetDone
<1>12. ScopeFits'
  <2> SUFFICES ASSUME NEW y \in Restores, NEW b \in Backups', pc'[y] \in {"applying", "applied"}, b.id = target[y]
               PROVE  b.scope = scope[y]
    BY DEF ScopeFits, Applying
  <2>1. b \in Backups
    BY <1>6, <1>7, <1>8
  <2>2. Applying(y)
    <3>1. y # x
      BY <1>4
    <3> QED BY <1>2, <1>4, <3>1 DEF Applying
  <2> QED BY <2>1, <2>2 DEF Filing, ScopeFits
<1>13. Beside'
  <2> SUFFICES ASSUME NEW b \in Backups', NEW c \in Backups', b.id \in Restores, c.id = target[b.id]
               PROVE  b.scope = c.scope
    BY DEF Beside
  <2>1. c \in Backups
    BY <1>6, <1>7, <1>8
  <2>2. CASE b \in Backups
    BY <2>1, <2>2 DEF Filing, Beside
  <2>3. CASE b = new
    <3>1. x \in Restores /\ Applying(x) /\ w = scope[x] /\ c.id = target[x]
      BY <1>7, <2>3
    <3>2. c.scope = scope[x]
      BY <2>1, <3>1 DEF Filing, ScopeFits
    <3> QED BY <1>7, <2>3, <3>1, <3>2
  <2> QED BY <1>6, <2>2, <2>3
<1> QED BY <1>9, <1>10, <1>11, <1>12, <1>13 DEF Filing

(* An operation that goes on with a log of backups there were.              *)
LEMMA FilingGoes ==
  ASSUME Shape, Filing, NEW x \in Processes, pc[x] \notin {"done", "applying", "applied"},
         NEW s \in Short, ToSet(s) \subseteq Backups, NEW st, NEW new, Goes(x, s, st, new),
         target' = target, \A y \in Processes : ToSet(payload'[y]) \subseteq Backups
  PROVE  Filing'
<1>1. pc \in [Processes -> OpStates \cup PollStates] /\ scope \in [Processes -> Scopes \cup {None}]
  BY DEF Shape, TypeOK
<1>2. Backups' \subseteq Backups \cup new
  BY DEF Goes, LogFrom, Backups
<1>3. pc' = [pc EXCEPT ![x] = st] /\ (scope' = scope \/ scope' = [scope EXCEPT ![x] = CurrentScope])
  BY DEF Goes
<1>4. Restores \subseteq Processes /\ Edits \subseteq Writers /\ Edits \cap Restores = {}
  BY RecoveryAssumption DEF Processes, Ops, Writers
<1>5. CASE new = {}
  <2>1. StaysDone
    BY <1>1, <1>3 DEF StaysDone
  <2>2. ASSUME NEW y \in Restores, pc'[y] \in {"applying", "applied"}
        PROVE  \/ Applying(y) /\ scope'[y] = scope[y]
               \/ \E b \in Backups : b.id = target[y] /\ b.scope = scope'[y]
    <3>1. CASE y = x
      <4>1. st = "applying"
        BY <1>1, <1>3, <2>2, <3>1 DEF Goes
      <4>2. /\ scope' = [scope EXCEPT ![x] = CurrentScope]
            /\ \E b \in ToSet(s) : b.id = target[x] /\ b.scope = CurrentScope
        BY <4>1 DEF Goes
      <4>3. scope'[x] = CurrentScope
        BY <1>1, <4>2
      <4> QED BY <3>1, <4>2, <4>3
    <3>2. CASE y # x
      BY <1>1, <1>3, <1>4, <2>2, <3>2 DEF Applying
    <3> QED BY <3>1, <3>2
  <2>3. FitsBackup
    BY <2>2 DEF FitsBackup
  <2>4. NamesBackup
    BY DEF NamesBackup
  <2>5. Backups' \subseteq Backups
    BY <1>2, <1>5
  <2> QED BY <2>1, <2>3, <2>4, <2>5, FilingStays
<1>6. CASE x \in Edits /\ st = "done" /\ \E w \in Scopes : new = {[id |-> x, scope |-> w]}
  <2>1. PICK w \in Scopes : new = {[id |-> x, scope |-> w]}
    BY <1>6
  <2>2. scope' = scope /\ x \in Writers /\ x \notin Restores
    BY <1>4, <1>6 DEF Goes
  <2> QED BY <1>2, <1>3, <1>6, <2>1, <2>2, FilingTakes
<1> QED BY <1>5, <1>6 DEF Goes

LEMMA FilingEnsure ==
  ASSUME Shape, Filing, NEW x \in Processes, EnsureLoaded(x), target' = target,
         pc[x] \notin {"done", "applying", "applied"}
  PROVE  Filing'
<1>1. /\ pc \in [Processes -> OpStates \cup PollStates] /\ scope \in [Processes -> Scopes \cup {None}]
      /\ payload \in [Processes -> Short] /\ snapshots \in Short
  BY DEF Shape, TypeOK, Short
<1>2. CASE loaded
  <2>1. Proceed(x, snapshots) /\ payload' = payload
    BY <1>2 DEF EnsureLoaded
  <2>2. PICK st, new : Goes(x, snapshots, st, new)
    BY <1>1, <2>1, Proceeds DEF Shape
  <2>3. ToSet(snapshots) \subseteq Backups /\ \A y \in Processes : ToSet(payload'[y]) \subseteq Backups
    BY <2>1 DEF Backups
  <2> QED BY <1>1, <2>2, <2>3, FilingGoes
<1>3. CASE ~ loaded
  <2>1. /\ payload' = [payload EXCEPT ![x] = disk] /\ pc' = [pc EXCEPT ![x] = "loading"]
        /\ scope' = [scope EXCEPT ![x] = IF x \in Clears THEN CurrentScope ELSE @]
        /\ UNCHANGED <<snapshots, disk>>
    BY <1>3 DEF EnsureLoaded, Goto, log
  <2>2. Backups' \subseteq Backups
    BY <1>1, <2>1 DEF Backups
  <2>3. \A y \in Processes : y # x => pc'[y] = pc[y] /\ scope'[y] = scope[y]
    BY <1>1, <2>1
  <2>4. pc'[x] = "loading" /\ Restores \subseteq Processes
    BY <1>1, <2>1 DEF Processes, Ops, Writers
  <2>5. StaysDone
    BY <2>3 DEF StaysDone
  <2>6. FitsBackup
    BY <2>3, <2>4 DEF Applying, FitsBackup
  <2>7. NamesBackup
    BY DEF NamesBackup
  <2> QED BY <2>2, <2>5, <2>6, <2>7, FilingStays
<1> QED BY <1>2, <1>3

(* A process that goes to st, and files nothing.                            *)
LEMMA FilingMoves ==
  ASSUME Shape, Filing, NEW x \in Processes, NEW st, pc' = [pc EXCEPT ![x] = st],
         Backups' \subseteq Backups, pc[x] # "done", st # "applying",
         st = "applied" => pc[x] = "applying" /\ scope'[x] = scope[x],
         \A y \in Processes : y # x => scope'[y] = scope[y],
         \A y \in Restores : y # x \/ st = "applied" => target'[y] = target[y],
         NamesBackup
  PROVE  Filing'
<1>1. pc \in [Processes -> OpStates \cup PollStates]
  BY DEF Shape, TypeOK
<1>2. pc'[x] = st /\ \A y \in Processes : y # x => pc'[y] = pc[y]
  BY <1>1
<1>3. StaysDone
  BY <1>2 DEF StaysDone
<1>4. FitsBackup
  <2> SUFFICES ASSUME NEW y \in Restores, pc'[y] \in {"applying", "applied"}
               PROVE  Applying(y) /\ scope'[y] = scope[y] /\ target'[y] = target[y]
    BY DEF FitsBackup
  <2>1. y \in Processes
    BY DEF Processes, Ops, Writers
  <2>2. CASE y = x
    BY <1>2, <2>2 DEF Applying
  <2>3. CASE y # x
    BY <1>2, <2>1, <2>3 DEF Applying
  <2> QED BY <2>2, <2>3
<1> QED BY <1>3, <1>4, FilingStays

LEMMA FilingStep == Shape /\ Filing /\ [Next]_vars => Filing'
<1> SUFFICES ASSUME Shape, Filing, [Next]_vars PROVE Filing'
  OBVIOUS
<1>1. /\ pc \in [Processes -> OpStates \cup PollStates] /\ scope \in [Processes -> Scopes \cup {None}]
      /\ payload \in [Processes -> Short] /\ snapshots \in Short /\ disk \in Short
      /\ target \in [Restores \cup Deletes -> Writers \cup {None}]
  BY DEF Shape, TypeOK, Short
<1>2. ToSet(<<>>) = {}
  BY DEF ToSet
<1>3. target' = target => NamesBackup
  BY DEF NamesBackup
<1>4. Restores \subseteq Processes
  BY DEF Processes, Ops, Writers
<1>5. ASSUME NEW x \in Processes, Loaded(x) PROVE Filing'
  <2>1. /\ reads # <<>> /\ x = Head(reads) /\ target' = target
        /\ Proceed(x, payload[x]) /\ payload' = [payload EXCEPT ![x] = <<>>]
    BY <1>5 DEF Loaded
  <2>2. pc[x] = "loading"
    <3>1. reads \in Seq(Processes)
      BY DEF Shape, TypeOK
    <3>2. 1 \in DOMAIN reads /\ x = reads[1]
      BY <2>1, <3>1
    <3> QED BY <3>2 DEF Shape, ReadsAwaited
  <2>3. payload[x] \in Short /\ ToSet(payload[x]) \subseteq Backups
    BY <1>1 DEF Backups
  <2>4. PICK st, new : Goes(x, payload[x], st, new)
    BY <2>1, <2>3, Proceeds DEF Shape
  <2>5. \A y \in Processes : ToSet(payload'[y]) \subseteq Backups
    BY <1>1, <1>2, <2>1 DEF Backups
  <2> QED BY <2>1, <2>2, <2>3, <2>4, <2>5, FilingGoes
<1>6. ASSUME NEW x \in Processes, LoadFails(x) PROVE Filing'
  <2>1. /\ reads # <<>> /\ x = Head(reads) /\ payload' = [payload EXCEPT ![x] = <<>>] /\ End(x)
        /\ UNCHANGED <<log, scope, target>>
    BY <1>6 DEF LoadFails
  <2>2. pc[x] = "loading"
    <3>1. reads \in Seq(Processes)
      BY DEF Shape, TypeOK
    <3>2. 1 \in DOMAIN reads /\ x = reads[1]
      BY <2>1, <3>1
    <3> QED BY <3>2 DEF Shape, ReadsAwaited
  <2>3. Backups' \subseteq Backups
    <3>1. \A y \in Processes : ToSet(payload'[y]) \subseteq ToSet(payload[y])
      BY <1>1, <1>2, <2>1
    <3> QED BY <2>1, <3>1 DEF Backups, log
  <2>4. PICK st \in {"idle", "done"} : pc' = [pc EXCEPT ![x] = st]
    BY <2>1 DEF End, Goto
  <2> QED BY <1>3, <2>1, <2>2, <2>3, <2>4, FilingMoves
<1>7. ASSUME NEW x \in Ops, OpStep(x) PROVE Filing'
  <2>1. x \in Processes /\ x \notin Polls /\ End(x) = (pc' = [pc EXCEPT ![x] = "done"])
    BY RecoveryAssumption DEF Processes, End, Goto
  <2>2. CASE HostEdit(x)
    <3>1. /\ pc[x] = "new" /\ pc' = [pc EXCEPT ![x] = "edited"] /\ UNCHANGED <<log, payload, scope, target>>
      BY <2>2 DEF HostEdit, Goto
    <3>2. Backups' \subseteq Backups
      BY <3>1 DEF Backups, log
    <3> QED BY <1>3, <2>1, <3>1, <3>2, FilingMoves
  <2>3. CASE AppendBackup(x) \/ RestoreOrDelete(x) \/ ClearOrList(x)
    <3>1. pc[x] \notin {"done", "applying", "applied"} /\ EnsureLoaded(x) /\ target' = target
      BY <2>3 DEF AppendBackup, RestoreOrDelete, ClearOrList
    <3> QED BY <2>1, <3>1, FilingEnsure
  <2>4. CASE TokenSaved(x)
    <3>1. /\ pc[x] = "tokening" /\ x \in Edits /\ x \in Writers /\ Token \in Scopes /\ x \notin Restores
          /\ UNCHANGED <<payload, scope, target>>
      BY <2>1, <2>4, RecoveryAssumption DEF TokenSaved, Shape, Stages, Scopes, Writers
    <3>2. CASE Place(x, Token, snapshots)
      <4>1. LogFrom(snapshots, {[id |-> x, scope |-> Token]}) /\ pc' = [pc EXCEPT ![x] = "done"]
        BY <1>1, <3>1, <3>2, PlaceLog
      <4>2. Backups' \subseteq Backups \cup {[id |-> x, scope |-> Token]}
        BY <3>1, <4>1 DEF Backups, LogFrom
      <4> QED BY <3>1, <4>1, <4>2, FilingTakes
    <3>3. CASE Keep(snapshots) /\ End(x)
      <4>1. Backups' \subseteq Backups
        BY <3>1, <3>3 DEF Backups, Keep
      <4> QED BY <1>3, <2>1, <3>1, <3>3, <4>1, FilingMoves
    <3> QED BY <2>4, <3>2, <3>3 DEF TokenSaved
  <2>5. CASE Request(x)
    <3>1. /\ pc[x] = "new" /\ pc' = [pc EXCEPT ![x] = "requested"] /\ UNCHANGED <<log, payload, scope>>
      BY <2>5 DEF Request, Goto
    <3>2. PICK id \in Ids(snapshots) \cup Ids(disk) : target' = [target EXCEPT ![x] = id]
      BY <2>5 DEF Request
    <3>3. \E b \in Backups : id = b.id
      BY <1>1, <3>2, IdsAre DEF Backups
    <3>4. \A y \in Restores : (y # x => target'[y] = target[y]) /\ (y = x => target'[y] = id)
      BY <1>1, <3>2
    <3>5. NamesBackup
      BY <3>1, <3>3, <3>4 DEF NamesBackup
    <3>6. Backups' \subseteq Backups
      BY <3>1 DEF Backups, log
    <3>7. \A y \in Restores : y # x \/ "requested" = "applied" => target'[y] = target[y]
      BY <3>4
    <3>8. \A y \in Processes : y # x => scope'[y] = scope[y]
      BY <3>1
    <3> HIDE DEF NamesBackup
    <3> QED BY <2>1, <3>1, <3>5, <3>6, <3>7, <3>8, FilingMoves
  <2>6. CASE HostApply(x)
    <3>1. PICK st \in {"applied", "done"} : pc' = [pc EXCEPT ![x] = st]
      BY <2>1, <2>6 DEF HostApply, Goto
    <3>2. pc[x] = "applying" /\ UNCHANGED <<log, payload, scope, target>>
      BY <2>6 DEF HostApply
    <3>3. Backups' \subseteq Backups
      BY <3>2 DEF Backups, log
    <3> QED BY <1>3, <2>1, <3>1, <3>2, <3>3, FilingMoves
  <2>7. CASE RestoreEnd(x)
    <3>1. /\ pc[x] = "applied" /\ x \in Writers /\ scope[x] \in Scopes /\ Place(x, scope[x], snapshots)
          /\ UNCHANGED <<payload, scope, target>>
      BY <2>1, <2>7 DEF RestoreEnd, Shape, Stages, Writers
    <3>2. LogFrom(snapshots, {[id |-> x, scope |-> scope[x]]}) /\ pc' = [pc EXCEPT ![x] = "done"]
      BY <1>1, <3>1, PlaceLog
    <3>3. Backups' \subseteq Backups \cup {[id |-> x, scope |-> scope[x]]}
      BY <3>1, <3>2 DEF Backups, LogFrom
    <3>4. Applying(x) /\ pc[x] # "done"
      BY <3>1 DEF Applying
    <3> QED BY <3>1, <3>2, <3>3, <3>4, FilingTakes
  <2> QED BY <1>5, <1>6, <1>7, <2>1, <2>2, <2>3, <2>4, <2>5, <2>6, <2>7 DEF OpStep
<1>8. ASSUME NEW x \in Polls, PollStep(x) PROVE Filing'
  <2>1. x \in Processes /\ End(x) = (pc' = [pc EXCEPT ![x] = "idle"])
    BY DEF Processes, End, Goto
  <2>2. CASE PollStart(x)
    <3>1. /\ pc[x] = "idle" /\ pc' = [pc EXCEPT ![x] = "reading"]
          /\ scope' = [scope EXCEPT ![x] = CurrentScope] /\ UNCHANGED <<log, payload, target>>
      BY <2>2 DEF PollStart, Goto
    <3>2. Backups' \subseteq Backups
      BY <3>1 DEF Backups, log
    <3>3. \A y \in Processes : y # x => scope'[y] = scope[y]
      BY <1>1, <3>1
    <3> QED BY <1>3, <2>1, <3>1, <3>2, <3>3, FilingMoves
  <2>3. CASE PollUnknown(x)
    <3>1. /\ pc[x] = "reading" /\ pc' = [pc EXCEPT ![x] = "idle"] /\ UNCHANGED <<log, payload, scope, target>>
      BY <2>1, <2>3 DEF PollUnknown
    <3>2. Backups' \subseteq Backups
      BY <3>1 DEF Backups, log
    <3> QED BY <1>3, <2>1, <3>1, <3>2, FilingMoves
  <2>4. CASE PollRead(x)
    <3>1. /\ pc[x] = "reading" /\ target' = target
          /\ EnsureLoaded(x) \/ (End(x) /\ UNCHANGED <<hasToken, log, reads, payload, scope>>)
      BY <2>4 DEF PollRead
    <3>2. CASE EnsureLoaded(x)
      BY <2>1, <3>1, <3>2, FilingEnsure
    <3>3. CASE End(x) /\ UNCHANGED <<hasToken, log, reads, payload, scope>>
      <4>1. Backups' \subseteq Backups
        BY <3>3 DEF Backups, log
      <4> QED BY <1>3, <2>1, <3>1, <3>3, <4>1, FilingMoves
    <3> QED BY <3>1, <3>2, <3>3
  <2>5. CASE PollClear(x)
    <3>1. /\ pc[x] = "clearing" /\ pc' = [pc EXCEPT ![x] = "idle"]
          /\ ClearScope(todo'[x][1], snapshots) /\ UNCHANGED <<payload, scope, target>>
      BY <2>1, <2>5 DEF PollClear
    <3>2. LogFrom(snapshots, {})
      BY <1>1, <3>1, ClearScopeLog
    <3>3. Backups' \subseteq Backups
      BY <3>1, <3>2 DEF Backups, LogFrom
    <3> QED BY <1>3, <2>1, <3>1, <3>3, FilingMoves
  <2> QED BY <1>5, <1>6, <1>8, <2>1, <2>2, <2>3, <2>4, <2>5 DEF PollStep
<1>9. CASE Reload
  <2>1. /\ UNCHANGED <<disk, scope, target>> /\ snapshots' = <<>>
        /\ payload' = [x \in Processes |-> <<>>]
        /\ pc' = [x \in Processes |-> CASE pc[x] = "new" -> "new"
                                     [] x \in Polls /\ pc[x] # "done" -> "idle"
                                     [] OTHER -> "done"]
    BY <1>9 DEF Reload
  <2>2. Backups' \subseteq Backups
    BY <1>2, <2>1 DEF Backups
  <2>3. ASSUME NEW y \in Processes
        PROVE  (pc[y] = "done" => pc'[y] = "done") /\ pc'[y] \notin {"applying", "applied"}
    BY <2>1
  <2>4. StaysDone
    BY <2>3 DEF StaysDone
  <2>5. FitsBackup
    <3> SUFFICES ASSUME NEW y \in Restores PROVE pc'[y] \notin {"applying", "applied"}
      BY DEF FitsBackup
    <3> QED BY <1>4, <2>3
  <2> QED BY <1>3, <2>1, <2>2, <2>4, <2>5, FilingStays
<1>10. CASE UserEdit \/ SaveWorkbook \/ UNCHANGED vars
  <2>1. UNCHANGED <<log, payload, pc, scope, target>>
    BY <1>10 DEF UserEdit, SaveWorkbook, vars
  <2>2. Backups' \subseteq Backups
    BY <2>1 DEF Backups, log
  <2>3. StaysDone /\ FitsBackup
    BY <2>1 DEF StaysDone, FitsBackup, Applying
  <2> QED BY <1>3, <2>1, <2>2, <2>3, FilingStays
<1> QED BY <1>7, <1>8, <1>9, <1>10 DEF Next

LEMMA RecoveryInitial == Init => Shape /\ Filing
<1> SUFFICES ASSUME Init PROVE Shape /\ Filing
  OBVIOUS
<1>1. PICK start \in Starts : StartsAs(start)
  BY DEF Init
<1>2. start \in [saved : BOOLEAN, loaded : BOOLEAN, faults : BOOLEAN, uses : SUBSET Processes]
  BY RecoveryAssumption
<1>3. /\ pc \in [Processes -> {"done", "idle", "new"}]
      /\ \A x \in Polls : pc[x] \in {"done", "idle"}
      /\ \A x \in Ops : pc[x] \in {"done", "new"}
      /\ {hasPath, loaded, faults} \subseteq BOOLEAN
  BY <1>1, <1>2, RecoveryAssumption DEF StartsAs, Processes
<1>4. Ops \subseteq Processes /\ Polls \subseteq Processes
  BY DEF Processes
<1>5. Rest
  <2>1. 0 \in 0..MaxReloads /\ Restores \cup Deletes \subseteq Processes /\ <<>> \in Seq(Scopes)
    BY RecoveryAssumption DEF Processes, Ops, Writers
  <2>2. /\ payload \in [Processes -> Short] /\ scope \in [Processes -> Scopes \cup {None}]
        /\ target \in [Restores \cup Deletes -> Writers \cup {None}]
    BY EmptyShort DEF Init
  <2>3. todo \in [Polls -> Seq(Scopes)] /\ lastDirty \in [Scopes -> {"unknown", "dirty", "clean"}]
    BY <2>1 DEF Init
  <2> QED BY <1>3, <2>1, <2>2, <2>3, EmptyShort DEF Init, Rest
<1>6. /\ pc \in [Processes -> OpStates \cup PollStates]
      /\ (\A y \in Ops : pc[y] \in OpStates) /\ (\A y \in Polls : pc[y] \in PollStates)
  BY <1>3, <1>4 DEF OpStates, PollStates
<1>7. reads \in Seq(Processes) /\ ReadsAwaited
  BY DEF Init, ReadsAwaited
<1>8. Stages
  BY <1>3 DEF Stages
<1>9. Backups = {}
  BY DEF Init, Backups, ToSet
<1>10. Filing
  <2>1. TargetDone
    BY DEF Init, TargetDone
  <2>2. \A b \in Backups : FALSE
    BY <1>9
  <2> QED BY <2>1, <2>2 DEF Filing, FiledOnce, FiledWhenDone, ScopeFits, Beside
<1> QED BY <1>5, <1>6, <1>7, <1>8, <1>10, ShapeIs

LEMMA RecoveryAlways == Spec => [](Shape /\ Filing)
<1>1. Shape /\ Filing /\ [Next]_vars => (Shape /\ Filing)'
  BY ShapeStep, FilingStep
<1> QED BY <1>1, RecoveryInitial, PTL DEF Spec

(* Every variable of the log has its type (WorkbookRecoveryLog).            *)
THEOREM RecoveryTypesHold == Spec => []TypeOK
<1>1. Shape => TypeOK
  BY DEF Shape
<1> QED BY <1>1, RecoveryAlways, PTL

(* The rollback backup of a restore is filed with the backup it undoes      *)
(* (restore in recovery-log.ts keeps the scope it resolved first).          *)
THEOREM RollbackHolds == Spec => []RollbackBesideOriginal
<1>1. Filing => RollbackBesideOriginal
  <2>1. \A i \in DOMAIN snapshots : snapshots[i] \in Backups
    BY DEF Backups, ToSet
  <2> QED BY <2>1 DEF Filing, Beside, RollbackBesideOriginal
<1> QED BY <1>1, RecoveryAlways, PTL

-----------------------------------------------------------------------------
(* 4. Memory and store.                                                    *)

(* Memory and store agree, and no older log is on its way.                  *)
InStep == ~ faults => loaded /\ reads = <<>> /\ disk = snapshots

(* With a sound store a change of the log reaches memory and store.         *)
LEMMA ReplaceInStep ==
  ASSUME NEW s, Replace(s), ~ faults
  PROVE  disk' = snapshots'
  BY DEF Replace, Persist

LEMMA ClearInStep ==
  ASSUME NEW w, ClearScope(w, snapshots), ~ faults, disk = snapshots
  PROVE  disk' = snapshots'
<1> DEFINE left == Without(snapshots, [id : Writers, scope : {w}])
<1>1. CASE left = snapshots
  BY <1>1 DEF ClearScope, Keep
<1>2. CASE left # snapshots
  BY <1>2, ReplaceInStep DEF ClearScope
<1> QED BY <1>1, <1>2

LEMMA AppendInStep ==
  ASSUME NEW x, Append_(x, snapshots), ~ faults, disk = snapshots
  PROVE  disk' = snapshots'
<1>1. CASE CurrentScope # None
  BY <1>1, ReplaceInStep DEF Append_, Place
<1>2. CASE CurrentScope = None
  BY <1>2 DEF Append_, Keep
<1> QED BY <1>1, <1>2

LEMMA DeleteInStep ==
  ASSUME NEW x, Delete(x, snapshots), ~ faults, disk = snapshots
  PROVE  disk' = snapshots'
<1> DEFINE left == Without(snapshots, {[id |-> target[x], scope |-> CurrentScope]})
<1>1. CASE left = snapshots
  BY <1>1 DEF Delete, Keep
<1>2. CASE left # snapshots
  BY <1>2, ReplaceInStep DEF Delete
<1> QED BY <1>1, <1>2

(* An operation that finds the log in memory.                               *)
LEMMA ProceedInStep ==
  ASSUME NEW x \in Processes, Proceed(x, snapshots), ~ faults, disk = snapshots
  PROVE  disk' = snapshots'
<1>1. CASE x \in Edits
  BY <1>1, AppendInStep DEF Proceed
<1>2. CASE x \in Restores
  BY <1>2 DEF Proceed, Restore, Keep
<1>3. CASE x \in Deletes
  BY <1>3, DeleteInStep DEF Proceed
<1>4. CASE x \in Clears
  <2>1. PICK w : ClearScope(w, snapshots)
    BY <1>4 DEF Proceed, Clear
  <2> QED BY <2>1, ClearInStep
<1>5. CASE x \in Polls
  <2>1. PICK w : ClearScope(w, snapshots)
    BY <1>5 DEF Proceed, ClearInTurn
  <2> QED BY <2>1, ClearInStep
<1>6. CASE x \in Lists
  BY <1>6 DEF Proceed, Keep
<1> QED BY <1>1, <1>2, <1>3, <1>4, <1>5, <1>6 DEF Processes, Ops, Writers

(* With the log in memory no operation reads the store.                     *)
LEMMA EnsureInStep ==
  ASSUME NEW x \in Processes, EnsureLoaded(x), ~ faults, loaded, disk = snapshots
  PROVE  loaded' /\ reads' = reads /\ disk' = snapshots'
<1>1. Proceed(x, snapshots) /\ UNCHANGED <<loaded, reads>>
  BY DEF EnsureLoaded
<1> QED BY <1>1, ProceedInStep

LEMMA StepInStep == InStep /\ [Next]_vars => InStep'
<1> SUFFICES ASSUME InStep, [Next]_vars, ~ faults' PROVE loaded' /\ reads' = <<>> /\ disk' = snapshots'
  BY DEF InStep
<1>1. ~ faults
  BY DEF Next, OpStep, PollStep, HostEdit, AppendBackup, TokenSaved, Request, RestoreOrDelete, HostApply,
         RestoreEnd, ClearOrList, Loaded, LoadFails, PollStart, PollUnknown, PollRead, PollClear,
         UserEdit, SaveWorkbook, Reload, weather, vars
<1>2. loaded /\ reads = <<>> /\ disk = snapshots
  BY <1>1 DEF InStep
<1>3. CASE UNCHANGED <<log, reads>>
  BY <1>2, <1>3 DEF log
<1>4. ASSUME NEW x \in Ops, OpStep(x) PROVE loaded' /\ reads' = <<>> /\ disk' = snapshots'
  <2>1. x \in Processes
    BY DEF Processes
  <2>2. CASE AppendBackup(x) \/ RestoreOrDelete(x) \/ ClearOrList(x)
    BY <1>1, <1>2, <2>1, <2>2, EnsureInStep DEF AppendBackup, RestoreOrDelete, ClearOrList
  <2>3. CASE TokenSaved(x)
    <3>1. CASE Place(x, Token, snapshots)
      BY <1>1, <1>2, <2>3, <3>1, ReplaceInStep DEF TokenSaved, Place
    <3>2. CASE Keep(snapshots)
      BY <1>2, <2>3, <3>2 DEF TokenSaved, Keep
    <3> QED BY <2>3, <3>1, <3>2 DEF TokenSaved
  <2>4. CASE RestoreEnd(x)
    BY <1>1, <1>2, <2>4, ReplaceInStep DEF RestoreEnd, Place
  <2>5. CASE HostEdit(x) \/ Request(x) \/ HostApply(x)
    BY <1>3, <2>5 DEF HostEdit, Request, HostApply
  <2>6. CASE Loaded(x) \/ LoadFails(x)
    BY <1>2, <2>6 DEF Loaded, LoadFails
  <2> QED BY <1>4, <2>2, <2>3, <2>4, <2>5, <2>6 DEF OpStep
<1>5. ASSUME NEW x \in Polls, PollStep(x) PROVE loaded' /\ reads' = <<>> /\ disk' = snapshots'
  <2>1. x \in Processes
    BY DEF Processes
  <2>2. CASE PollStart(x) \/ PollUnknown(x)
    BY <1>3, <2>2 DEF PollStart, PollUnknown
  <2>3. CASE PollRead(x)
    <3>1. UNCHANGED <<log, reads>> \/ EnsureLoaded(x)
      BY <2>3 DEF PollRead
    <3> QED BY <1>1, <1>2, <1>3, <2>1, <3>1, EnsureInStep
  <2>4. CASE PollClear(x)
    <3>1. PICK w : ClearScope(w, snapshots)
      BY <2>4 DEF PollClear
    <3> QED BY <1>1, <1>2, <2>4, <3>1, ClearInStep DEF PollClear
  <2>5. CASE Loaded(x) \/ LoadFails(x)
    BY <1>2, <2>5 DEF Loaded, LoadFails
  <2> QED BY <1>5, <2>2, <2>3, <2>4, <2>5 DEF PollStep
<1>6. CASE UserEdit \/ SaveWorkbook
  BY <1>3, <1>6 DEF UserEdit, SaveWorkbook
<1>7. CASE Reload
  BY <1>1, <1>7 DEF Reload
<1>8. CASE UNCHANGED vars
  BY <1>3, <1>8 DEF vars
<1> QED BY <1>4, <1>5, <1>6, <1>7, <1>8 DEF Next

(* The store holds the log the user sees, if a taskpane whose store is      *)
(* sound has its log in memory to begin with (persist, ensureLoaded).       *)
THEOREM StoreHoldsLog ==
  ASSUME \A start \in Starts : start.faults \/ start.loaded
  PROVE  Spec => []LogOnDisk
<1>1. Init => InStep
  BY DEF Init, StartsAs, InStep
<1>2. InStep => LogOnDisk
  BY DEF InStep, LogOnDisk
<1> QED BY <1>1, <1>2, StepInStep, PTL DEF Spec

-----------------------------------------------------------------------------
(* 5. What can be lost.                                                    *)

(* What a clear of the scope w loses is what was filed under it.            *)
LEMMA ClearLoses ==
  ASSUME Shape, Filing, NEW w, ClearScope(w, snapshots),
         Ids(snapshots) \ Ids(snapshots') # {}
  PROVE  /\ w \in Scopes
         /\ Ids(snapshots) \ Ids(snapshots')
              = {snapshots[i].id : i \in {j \in DOMAIN snapshots : snapshots[j].scope = w}}
<1> DEFINE left == Without(snapshots, [id : Writers, scope : {w}])
<1>1. snapshots \in Short /\ ToSet(snapshots) \subseteq Backups
  BY DEF Shape, TypeOK, Short, Backups
<1>2. left \in Short /\ ToSet(left) = ToSet(snapshots) \ [id : Writers, scope : {w}]
  BY <1>1, WithoutFits
<1>3. snapshots' = left
  BY DEF ClearScope, Keep, Replace
<1> HIDE DEF left
<1>4. /\ Ids(snapshots) = {b.id : b \in ToSet(snapshots)} /\ ToSet(snapshots) \subseteq Backup
      /\ Ids(left) = {b.id : b \in ToSet(left)}
  BY <1>1, <1>2, IdsAre
<1>5. \A b \in Backup : b \in [id : Writers, scope : {w}] <=> b.scope = w
  BY DEF Backup
<1>6. \A b, c \in ToSet(snapshots) : b.id = c.id => b.scope = c.scope
  BY <1>1 DEF Filing, FiledOnce
<1>7. Ids(snapshots) \ Ids(left) = {b.id : b \in {c \in ToSet(snapshots) : c.scope = w}}
  <2>1. ASSUME NEW b \in ToSet(snapshots), b.scope = w PROVE b.id \notin Ids(left)
    BY <1>2, <1>4, <1>5, <1>6, <2>1
  <2>2. ASSUME NEW b \in ToSet(snapshots), b.scope # w PROVE b.id \in Ids(left)
    BY <1>2, <1>4, <1>5, <2>2
  <2> QED BY <1>4, <2>1, <2>2
<1>8. {b.id : b \in {c \in ToSet(snapshots) : c.scope = w}}
        = {snapshots[i].id : i \in {j \in DOMAIN snapshots : snapshots[j].scope = w}}
  BY DEF ToSet
<1>9. w \in Scopes
  <2>1. PICK b \in ToSet(snapshots) : b.scope = w
    BY <1>3, <1>7
  <2> QED BY <1>4, <2>1 DEF Backup
<1> QED BY <1>3, <1>7, <1>8, <1>9

LEMMA DeleteLoses ==
  ASSUME Shape, NEW x \in Deletes, Delete(x, snapshots),
         Ids(snapshots) \ Ids(snapshots') # {}
  PROVE  Ids(snapshots) \ Ids(snapshots') = {target[x]}
<1> DEFINE gone == {[id |-> target[x], scope |-> CurrentScope]}
           left == Without(snapshots, gone)
<1>1. snapshots \in Short
  BY DEF Shape, TypeOK, Short
<1>2. left \in Short /\ ToSet(left) = ToSet(snapshots) \ gone
  BY <1>1, WithoutFits
<1>3. snapshots' = left
  BY DEF Delete, Keep, Replace
<1> HIDE DEF left
<1>4. Ids(snapshots) = {b.id : b \in ToSet(snapshots)} /\ Ids(left) = {b.id : b \in ToSet(left)}
  BY <1>1, <1>2, IdsAre
<1>5. \A b \in gone : b.id = target[x]
  OBVIOUS
<1> HIDE DEF gone
<1>6. Ids(snapshots) \ Ids(left) \subseteq {target[x]}
  BY <1>2, <1>4, <1>5
<1> QED BY <1>3, <1>6

(* A backup that is taken in displaces the oldest of a full log.            *)
LEMMA PlaceLoses ==
  ASSUME Shape, NEW x \in Writers, NEW w \in Scopes, Place(x, w, snapshots),
         Ids(snapshots) \ Ids(snapshots') # {}
  PROVE  /\ snapshots'[1].id = x /\ Len(snapshots) = MaxEntries
         /\ Ids(snapshots) \ Ids(snapshots') = {snapshots[MaxEntries].id}
<1> DEFINE b == [id |-> x, scope |-> w]
           more == <<b>> \o snapshots
<1>1. snapshots \in Short /\ b \in Backup /\ MaxEntries \in Nat \ {0}
  BY RecoveryAssumption DEF Shape, TypeOK, Short, Backup
<1>2. snapshots' = Truncated(more)
  BY DEF Place, Replace
<1>3. snapshots \in Seq(Backup) /\ Len(snapshots) \in 0..MaxEntries
  BY <1>1, ShortSeq
<1>4. b.id = x
  OBVIOUS
<1> HIDE DEF b
<1>5. /\ more \in Seq(Backup) /\ Len(more) = Len(snapshots) + 1 /\ more[1] = b
      /\ \A i \in 1..Len(snapshots) : more[i + 1] = snapshots[i]
  BY <1>1, <1>3
<1> HIDE DEF more
<1>6. /\ Truncated(more) \in Short
      /\ Len(Truncated(more)) = IF Len(more) > MaxEntries THEN MaxEntries ELSE Len(more)
      /\ \A i \in DOMAIN Truncated(more) : Truncated(more)[i] = more[i]
  BY <1>5, TruncatedFits
<1>7. snapshots' \in Seq(Backup)
  BY <1>2, <1>6, ShortSeq
<1>8. snapshots'[1].id = x
  BY <1>1, <1>2, <1>3, <1>4, <1>5, <1>6, <1>7
<1>9. ASSUME NEW i \in 1..Len(snapshots), i + 1 <= Len(snapshots')
      PROVE  snapshots[i].id \in Ids(snapshots')
  <2>1. i + 1 \in DOMAIN snapshots' /\ snapshots'[i + 1] = snapshots[i]
    <3>1. i + 1 \in DOMAIN snapshots'
      BY <1>3, <1>7, <1>9
    <3>2. snapshots'[i + 1] = more[i + 1]
      BY <1>2, <1>6, <3>1
    <3> QED BY <1>5, <3>1, <3>2
  <2> QED BY <2>1 DEF Ids
<1>10. Ids(snapshots) = {snapshots[i].id : i \in 1..Len(snapshots)}
  BY <1>3 DEF Ids
<1>11. Len(snapshots) = MaxEntries
  <2>1. PICK i \in 1..Len(snapshots) : ~ i + 1 <= Len(snapshots')
    BY <1>9, <1>10
  <2> QED BY <1>1, <1>2, <1>3, <1>5, <1>6, <2>1
<1>12. Len(snapshots') = MaxEntries
  BY <1>1, <1>2, <1>5, <1>6, <1>11
<1>13. Ids(snapshots) \ Ids(snapshots') \subseteq {snapshots[MaxEntries].id}
  <2>1. ASSUME NEW i \in 1..Len(snapshots), i # MaxEntries PROVE snapshots[i].id \in Ids(snapshots')
    <3>1. i + 1 <= Len(snapshots')
      BY <1>1, <1>11, <1>12, <2>1
    <3> QED BY <1>9, <3>1
  <2> QED BY <1>10, <2>1
<1> QED BY <1>8, <1>11, <1>13

(* The cause of a loss, as BackupsKept has it.                              *)
LossExplained ==
  LET lost == Ids(snapshots) \ Ids(snapshots') IN
  lost # {} /\ ~ faults =>
    \/ \E x \in Deletes : Moved(x) /\ lost = {target[x]}
    \/ \E x \in Clears \cup Polls, w \in Scopes :
         /\ Moved(x)
         /\ lost = {snapshots[i].id : i \in {j \in DOMAIN snapshots : snapshots[j].scope = w}}
    \/ \E x \in Writers :
         /\ Moved(x) /\ snapshots'[1].id = x
         /\ Len(snapshots) = MaxEntries /\ lost = {snapshots[MaxEntries].id}

LEMMA SameLog ==
  ASSUME snapshots' = snapshots
  PROVE  LossExplained
BY DEF LossExplained

LEMMA PlaceExplained ==
  ASSUME Shape, NEW x \in Writers, NEW w \in Scopes, Place(x, w, snapshots), Moved(x)
  PROVE  LossExplained
BY PlaceLoses DEF LossExplained

LEMMA ClearExplained ==
  ASSUME Shape, Filing, NEW x \in Clears \cup Polls, NEW w, ClearScope(w, snapshots), Moved(x)
  PROVE  LossExplained
BY ClearLoses DEF LossExplained

LEMMA ProceedExplained ==
  ASSUME Shape, Filing, NEW x \in Processes, Proceed(x, snapshots), pc[x] \notin {"done", "idle", "clearing"}
  PROVE  LossExplained
<1>1. pc \in [Processes -> OpStates \cup PollStates]
  BY DEF Shape, TypeOK
<1>2. ASSUME End(x) PROVE Moved(x)
  BY <1>1, <1>2 DEF End, Goto, Moved
<1>3. CASE x \in Edits
  <2>1. CASE CurrentScope # None
    <3>1. x \in Writers /\ CurrentScope \in Scopes
      BY <1>3, <2>1 DEF Writers, CurrentScope, Scopes
    <3>2. Place(x, CurrentScope, snapshots) /\ End(x)
      BY <1>3, <2>1 DEF Proceed, Append_, Place
    <3> QED BY <1>2, <3>1, <3>2, PlaceExplained
  <2>2. CASE CurrentScope = None
    BY <1>3, <2>2, SameLog DEF Proceed, Append_, Keep
  <2> QED BY <2>1, <2>2
<1>4. CASE x \in Restores
  BY <1>4, SameLog DEF Proceed, Restore, Keep
<1>5. CASE x \in Deletes
  <2>1. Delete(x, snapshots) /\ Moved(x)
    BY <1>2, <1>5 DEF Proceed, Delete
  <2> QED BY <1>5, <2>1, DeleteLoses DEF LossExplained
<1>6. CASE x \in Clears
  <2>1. PICK w : ClearScope(w, snapshots) /\ Moved(x)
    BY <1>2, <1>6 DEF Proceed, Clear
  <2> QED BY <1>6, <2>1, ClearExplained
<1>7. CASE x \in Polls
  <2>1. PICK w : ClearScope(w, snapshots)
    BY <1>7 DEF Proceed, ClearInTurn
  <2>2. End(x) \/ Goto(x, "clearing")
    BY <1>7 DEF Proceed, ClearInTurn
  <2>3. Moved(x)
    BY <1>1, <1>2, <2>2 DEF Goto, Moved
  <2> QED BY <1>7, <2>1, <2>3, ClearExplained
<1>8. CASE x \in Lists
  BY <1>8, SameLog DEF Proceed, Keep
<1> QED BY <1>3, <1>4, <1>5, <1>6, <1>7, <1>8 DEF Processes, Ops, Writers

LEMMA LossStep ==
  ASSUME Shape, Filing, InStep, [Next]_vars
  PROVE  LossExplained
<1> SUFFICES ASSUME ~ faults PROVE LossExplained
  BY DEF LossExplained
<1>1. loaded /\ reads = <<>>
  BY DEF InStep
<1>2. pc \in [Processes -> OpStates \cup PollStates]
  BY DEF Shape, TypeOK
<1>3. ASSUME NEW x \in Processes, EnsureLoaded(x), pc[x] \notin {"done", "idle", "clearing"} PROVE LossExplained
  BY <1>1, <1>3, ProceedExplained DEF EnsureLoaded
<1>4. ASSUME NEW x \in Ops, OpStep(x) PROVE LossExplained
  <2>1. x \in Processes /\ x \notin Polls
    BY RecoveryAssumption DEF Processes
  <2>2. CASE HostEdit(x) \/ Request(x) \/ HostApply(x)
    BY <2>2, SameLog DEF HostEdit, Request, HostApply, log
  <2>3. CASE AppendBackup(x) \/ RestoreOrDelete(x) \/ ClearOrList(x)
    BY <1>3, <2>1, <2>3 DEF AppendBackup, RestoreOrDelete, ClearOrList
  <2>4. CASE TokenSaved(x)
    <3>1. CASE Place(x, Token, snapshots)
      <4>1. x \in Writers /\ Token \in Scopes /\ pc[x] = "tokening"
        BY <2>1, <2>4 DEF TokenSaved, Shape, Stages, Scopes, Writers
      <4>2. Moved(x)
        BY <1>2, <2>1, <3>1, <4>1 DEF Place, End, Goto, Moved
      <4> QED BY <3>1, <4>1, <4>2, PlaceExplained
    <3>2. CASE Keep(snapshots)
      BY <3>2, SameLog DEF Keep
    <3> QED BY <2>4, <3>1, <3>2 DEF TokenSaved
  <2>5. CASE RestoreEnd(x)
    <3>1. x \in Writers /\ scope[x] \in Scopes /\ pc[x] = "applied" /\ Place(x, scope[x], snapshots)
      BY <2>1, <2>5 DEF RestoreEnd, Shape, Stages, Writers
    <3>2. Moved(x)
      BY <1>2, <2>1, <3>1 DEF Place, End, Goto, Moved
    <3> QED BY <3>1, <3>2, PlaceExplained
  <2>6. CASE Loaded(x) \/ LoadFails(x)
    BY <1>1, <2>6 DEF Loaded, LoadFails
  <2> QED BY <1>4, <2>2, <2>3, <2>4, <2>5, <2>6 DEF OpStep
<1>5. ASSUME NEW x \in Polls, PollStep(x) PROVE LossExplained
  <2>1. x \in Processes
    BY DEF Processes
  <2>2. CASE PollStart(x) \/ PollUnknown(x)
    BY <2>2, SameLog DEF PollStart, PollUnknown, log
  <2>3. CASE PollRead(x)
    <3>1. pc[x] = "reading" /\ (EnsureLoaded(x) \/ UNCHANGED log)
      BY <2>3 DEF PollRead
    <3> QED BY <1>3, <2>1, <3>1, SameLog DEF log
  <2>4. CASE PollClear(x)
    <3>1. PICK w : ClearScope(w, snapshots)
      BY <2>4 DEF PollClear
    <3>2. Moved(x)
      BY <1>2, <2>1, <2>4 DEF PollClear, End, Goto, Moved
    <3> QED BY <3>1, <3>2, ClearExplained
  <2>5. CASE Loaded(x) \/ LoadFails(x)
    BY <1>1, <2>5 DEF Loaded, LoadFails
  <2> QED BY <1>5, <2>2, <2>3, <2>4, <2>5 DEF PollStep
<1>6. CASE Reload
  BY <1>6 DEF Reload
<1>7. CASE UserEdit \/ SaveWorkbook \/ UNCHANGED vars
  BY <1>7, SameLog DEF UserEdit, SaveWorkbook, vars, log
<1> QED BY <1>4, <1>5, <1>6, <1>7 DEF Next

(* With a sound store and the log in memory to begin with, a backup leaves  *)
(* the log only by its own delete, by a clear of its scope or as the oldest *)
(* of a full log (deleteSnapshot, clearForWorkbook, appendSnapshot).        *)
THEOREM KeptHolds ==
  ASSUME \A start \in Starts : start.faults \/ start.loaded
  PROVE  Spec => BackupsKept
<1>1. Init => InStep
  BY DEF Init, StartsAs, InStep
<1>2. Shape /\ Filing /\ InStep /\ [Next]_vars => [LossExplained]_vars
  BY LossStep
<1>3. Spec => [][LossExplained]_vars
  BY <1>1, <1>2, StepInStep, RecoveryAlways, PTL DEF Spec
<1>4. [][LossExplained]_vars => BackupsKept
  BY DEF LossExplained, BackupsKept
<1> QED BY <1>3, <1>4

(* With a sound store and a document that has its path, a poll only ever    *)
(* clears the scope of the path, at once, when it finds the workbook clean. *)
OnePath ==
  ~ faults =>
    /\ hasPath /\ lastObserved # Token
    /\ unsaved # {} => dirty
    /\ \A x \in Polls : scope[x] # Token /\ pc[x] # "clearing"

(* What a poll may lose, as UnsavedKept has it.                             *)
PollsSpareUnsaved ==
  \A x \in Polls :
    Moved(x) /\ ~ faults => (Ids(snapshots) \ Ids(snapshots')) \cap unsaved = {}

(* A step of an operation moves no poll.                                    *)
LEMMA OpSpares ==
  ASSUME Shape, InStep, OnePath, ~ faults, NEW x \in Ops, OpStep(x)
  PROVE  OnePath' /\ \A y \in Polls : ~ Moved(y)
<1>1. /\ loaded /\ reads = <<>> /\ hasPath /\ lastObserved # Token
      /\ unsaved # {} => dirty
      /\ \A y \in Polls : scope[y] # Token /\ pc[y] # "clearing"
  BY DEF InStep, OnePath
<1>2. x \in Processes /\ \A y \in Polls : y # x /\ y \in Processes
  BY RecoveryAssumption DEF Processes
<1>3. /\ pc \in [Processes -> OpStates \cup PollStates] /\ scope \in [Processes -> Scopes \cup {None}]
      /\ disk \in Short /\ snapshots \in Short
  BY DEF Shape, TypeOK, Short
<1>4. ASSUME NEW st, pc' = [pc EXCEPT ![x] = st],
             scope' = scope \/ scope' = [scope EXCEPT ![x] = CurrentScope]
      PROVE  \A y \in Polls : pc'[y] = pc[y] /\ scope'[y] = scope[y]
  BY <1>2, <1>3, <1>4
<1>5. ASSUME NEW st, pc' = [pc EXCEPT ![x] = st],
             scope' = scope \/ scope' = [scope EXCEPT ![x] = CurrentScope],
             hasPath' /\ lastObserved' # Token, unsaved' # {} => dirty'
      PROVE  OnePath' /\ \A y \in Polls : ~ Moved(y)
  BY <1>1, <1>4, <1>5 DEF OnePath, Moved
<1>6. CASE HostEdit(x)
  BY <1>1, <1>5, <1>6 DEF HostEdit, Goto, monitor
<1>7. CASE AppendBackup(x) \/ RestoreOrDelete(x) \/ ClearOrList(x)
  <2>1. EnsureLoaded(x) /\ UNCHANGED <<hasPath, dirty, unsaved, lastObserved>>
    BY <1>7 DEF AppendBackup, RestoreOrDelete, ClearOrList, monitor
  <2>2. Proceed(x, snapshots)
    BY <1>1, <2>1 DEF EnsureLoaded
  <2>3. PICK st, new : Goes(x, snapshots, st, new)
    BY <1>2, <1>3, <2>2, Proceeds DEF Shape
  <2>4. pc' = [pc EXCEPT ![x] = st] /\ (scope' = scope \/ scope' = [scope EXCEPT ![x] = CurrentScope])
    BY <2>3 DEF Goes
  <2> QED BY <1>1, <1>5, <2>1, <2>4
<1>8. CASE TokenSaved(x) \/ RestoreEnd(x)
  <2>1. pc' = [pc EXCEPT ![x] = "done"]
    BY <1>2, <1>8 DEF TokenSaved, RestoreEnd, Place, End, Goto
  <2>2. UNCHANGED <<hasPath, dirty, unsaved, lastObserved, scope>>
    BY <1>8 DEF TokenSaved, RestoreEnd, workbook, monitor
  <2> QED BY <1>1, <1>5, <2>1, <2>2
<1>9. CASE Request(x)
  BY <1>1, <1>5, <1>9 DEF Request, Goto, workbook, monitor
<1>10. CASE HostApply(x)
  <2>1. PICK st : pc' = [pc EXCEPT ![x] = st]
    BY <1>10 DEF HostApply, End, Goto
  <2> QED BY <1>1, <1>5, <1>10, <2>1 DEF HostApply, monitor
<1>11. CASE Loaded(x) \/ LoadFails(x)
  BY <1>1, <1>11 DEF Loaded, LoadFails
<1> QED BY <1>6, <1>7, <1>8, <1>9, <1>10, <1>11 DEF OpStep

LEMMA PollSpares ==
  ASSUME Shape, InStep, OnePath, ~ faults, NEW x \in Polls, PollStep(x)
  PROVE  OnePath' /\ PollsSpareUnsaved
<1>1. /\ loaded /\ reads = <<>> /\ hasPath /\ lastObserved # Token
      /\ unsaved # {} => dirty
      /\ \A y \in Polls : scope[y] # Token /\ pc[y] # "clearing"
  BY DEF InStep, OnePath
<1>2. x \in Processes /\ Polls \subseteq Processes /\ x \notin Ops
  BY RecoveryAssumption DEF Processes
<1>3. pc \in [Processes -> OpStates \cup PollStates] /\ scope \in [Processes -> Scopes \cup {None}]
  BY DEF Shape, TypeOK
<1>4. ASSUME NEW st, pc' = [pc EXCEPT ![x] = st], st # "clearing",
             scope' = scope \/ scope' = [scope EXCEPT ![x] = Path],
             hasPath' /\ lastObserved' # Token, unsaved' # {} => dirty'
      PROVE  OnePath'
  <2>1. \A y \in Polls : scope'[y] # Token /\ pc'[y] # "clearing"
    BY <1>1, <1>2, <1>3, <1>4, RecoveryAssumption
  <2> QED BY <1>4, <2>1 DEF OnePath
<1>5. ASSUME snapshots' = snapshots PROVE PollsSpareUnsaved
  BY <1>5 DEF PollsSpareUnsaved
<1>6. CASE PollStart(x)
  <2>1. CurrentScope = Path
    BY <1>1 DEF CurrentScope
  <2>2. /\ pc' = [pc EXCEPT ![x] = "reading"] /\ scope' = [scope EXCEPT ![x] = Path]
        /\ UNCHANGED <<hasPath, dirty, unsaved, lastObserved, snapshots>>
    BY <1>6, <2>1 DEF PollStart, Goto, workbook, log, monitor
  <2> QED BY <1>1, <1>4, <1>5, <2>2
<1>7. CASE PollUnknown(x)
  <2>1. /\ pc' = [pc EXCEPT ![x] = "idle"]
        /\ UNCHANGED <<scope, hasPath, dirty, unsaved, lastObserved, snapshots>>
    BY <1>7 DEF PollUnknown, End, Goto, workbook, log, monitor
  <2> QED BY <1>1, <1>4, <1>5, <2>1
<1>8. CASE PollRead(x)
  <2>1. /\ lastObserved' = scope[x] /\ UNCHANGED <<hasPath, dirty, unsaved>>
        /\ todo' = [todo EXCEPT ![x] = IF SavePassed(lastDirty[scope[x]], dirty) THEN <<scope[x]>> ELSE <<>>]
    <3>1. \A s \in Seq(Scopes) : s \o <<>> = s
      OBVIOUS
    <3>2. pc[x] = "reading" /\ scope[x] \in Scopes
      BY <1>2, <1>8 DEF PollRead, Shape, Stages
    <3>3. (IF SavePassed(lastDirty[scope[x]], dirty) THEN <<scope[x]>> ELSE <<>>) \in Seq(Scopes)
      BY <3>2
    <3> QED BY <1>1, <1>8, <3>1, <3>3 DEF PollRead
  <2>2. todo'[x] = IF SavePassed(lastDirty[scope[x]], dirty) THEN <<scope[x]>> ELSE <<>>
    BY <2>1 DEF Shape, TypeOK
  <2>3. lastObserved' # Token
    BY <1>1, <2>1
  <2>4. CASE todo'[x] = <<>>
    <3>1. End(x) /\ UNCHANGED <<log, scope>>
      BY <1>8, <2>4 DEF PollRead
    <3>2. pc' = [pc EXCEPT ![x] = "idle"] /\ snapshots' = snapshots
      BY <3>1 DEF End, Goto, log
    <3> QED BY <1>1, <1>4, <1>5, <2>1, <2>3, <3>1, <3>2
  <2>5. CASE todo'[x] # <<>>
    <3>1. Proceed(x, snapshots)
      BY <1>1, <1>8, <2>5 DEF PollRead, EnsureLoaded
    <3>2. Len(todo'[x]) # 2 /\ ~ dirty
      BY <2>2, <2>5 DEF SavePassed
    <3>3. End(x) /\ scope' = scope
      BY <3>1, <3>2 DEF Proceed, ClearInTurn
    <3>4. pc' = [pc EXCEPT ![x] = "idle"] /\ unsaved = {}
      BY <1>1, <3>2, <3>3 DEF End, Goto
    <3>5. OnePath'
      BY <1>1, <1>4, <2>1, <2>3, <3>3, <3>4
    <3>6. PollsSpareUnsaved
      BY <3>4 DEF PollsSpareUnsaved
    <3> QED BY <3>5, <3>6
  <2> QED BY <2>4, <2>5
<1>9. CASE PollClear(x) \/ Loaded(x) \/ LoadFails(x)
  BY <1>1, <1>9 DEF PollClear, Loaded, LoadFails
<1> QED BY <1>6, <1>7, <1>8, <1>9 DEF PollStep

LEMMA SpareStep ==
  ASSUME Shape, InStep, OnePath, [Next]_vars
  PROVE  OnePath' /\ PollsSpareUnsaved
<1>1. faults' = faults
  BY DEF Next, OpStep, PollStep, HostEdit, AppendBackup, TokenSaved, Request, RestoreOrDelete, HostApply,
         RestoreEnd, ClearOrList, Loaded, LoadFails, PollStart, PollUnknown, PollRead, PollClear,
         UserEdit, SaveWorkbook, Reload, weather, vars
<1>2. CASE faults
  BY <1>1, <1>2 DEF OnePath, PollsSpareUnsaved
<1>3. CASE ~ faults
  <2>1. ASSUME NEW x \in Ops, OpStep(x) PROVE OnePath' /\ PollsSpareUnsaved
    BY <1>3, <2>1, OpSpares DEF PollsSpareUnsaved
  <2>2. CASE UserEdit \/ SaveWorkbook \/ UNCHANGED vars
    <3>1. UNCHANGED <<log, pc, scope, monitor>>
      BY <2>2 DEF UserEdit, SaveWorkbook, vars
    <3>2. hasPath' /\ (unsaved' # {} => dirty')
      BY <1>3, <2>2 DEF UserEdit, SaveWorkbook, vars, OnePath, workbook
    <3> QED BY <1>3, <3>1, <3>2 DEF OnePath, PollsSpareUnsaved, Moved, monitor
  <2>3. ~ Reload
    BY <1>3 DEF Reload
  <2> QED BY <1>3, <2>1, <2>2, <2>3, PollSpares DEF Next
<1> QED BY <1>2, <1>3

(* With a sound store, the log in memory and a document that has its path,  *)
(* no poll takes the backup of a mutation that no save has covered (the     *)
(* save boundary monitor: checkOnce).                                       *)
THEOREM UnsavedHolds ==
  ASSUME \A start \in Starts : start.faults \/ (start.loaded /\ start.saved)
  PROVE  Spec => UnsavedKept
<1>1. Init => InStep /\ OnePath
  <2> SUFFICES ASSUME Init PROVE InStep /\ OnePath
    OBVIOUS
  <2>1. PICK start \in Starts : StartsAs(start)
    BY DEF Init
  <2>2. \A x \in Polls : scope[x] = None /\ pc[x] # "clearing"
    BY <2>1 DEF Init, StartsAs, Processes
  <2> QED BY <2>1, <2>2, RecoveryAssumption DEF Init, StartsAs, InStep, OnePath, Scopes
<1>2. Shape /\ InStep /\ OnePath /\ [Next]_vars => OnePath' /\ [PollsSpareUnsaved]_vars
  BY SpareStep
<1>3. Spec => [][PollsSpareUnsaved]_vars
  BY <1>1, <1>2, StepInStep, RecoveryAlways, PTL DEF Spec
<1>4. [][PollsSpareUnsaved]_vars => UnsavedKept
  BY DEF PollsSpareUnsaved, UnsavedKept
<1> QED BY <1>3, <1>4
==============================================================================
