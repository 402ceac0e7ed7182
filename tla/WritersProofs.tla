------------------------------ MODULE WritersProofs ------------------------------
(***************************************************************************)
(* The two components with writers that may overlap, for any calls,        *)
(* sessions, documents, connections and changes under way.                 *)
(*                                                                         *)
(* WorkbookCoordinator: type correctness, the discipline of the write      *)
(* slots and queues, and from it that mutations of one key exclude each    *)
(* other and that no queued write is stranded.                             *)
(*                                                                         *)
(* RuntimeLocks, for any tabs on that coordinator: they only watch it,     *)
(* make its calls and abort them, so every behaviour of theirs is one of   *)
(* the coordinator, whose theorems hold here too.  From these and from two *)
(* invariants of the tabs follow that a close leaves no write behind that  *)
(* starts later, and that the tab of a session with one call at a time     *)
(* shows what the coordinator does for it.                                 *)
(*                                                                         *)
(* Connections: the invariant says what a change that is under way holds.  *)
(* While no save overtakes it, its document differs from the stored one in *)
(* the record of its own connection only; and the change that marks a      *)
(* refused secret holds an error in that record, whatever was saved since. *)
(* So the record of a refused connection is an error until a save rewrites *)
(* it.                                                                     *)
(***************************************************************************)
EXTENDS RuntimeLocks, Connections, SequenceTheorems, FiniteSetTheorems, TLAPS

-----------------------------------------------------------------------------
(* Type correctness *)

(* processQueue keeps the types of the queue state and of the call states. *)
LEMMA ProcessQueueType ==
  ASSUME TypeOK, NEW k \in Keys, NEW q \in Seq(Calls), NEW p \in [Calls -> PCs],
         ProcessQueue(k, q, p)
  PROVE  /\ running' \in [Keys -> BOOLEAN]
         /\ activeWrite' \in [Keys -> Calls \cup {NoCall}]
         /\ queue' \in [Keys -> Seq(Calls)]
         /\ pc' \in [Calls -> PCs]
         /\ actsOn' \in [Calls -> Documents \cup {NoDocument}]
<1>1. CASE q = <<>>
  BY <1>1 DEF ProcessQueue, TypeOK
<1>2. CASE q # <<>>
  <2>1. Head(q) \in Calls /\ Tail(q) \in Seq(Calls)
    BY <1>2, HeadTailProperties
  <2>2. PICK x \in {"settled", "writing"} : pc' = [p EXCEPT ![Head(q)] = x]
    BY <1>2 DEF ProcessQueue
  <2>3. pc' \in [Calls -> PCs]
    BY <2>2 DEF PCs
  <2>4. activeDocument \in Documents
    BY DEF TypeOK
  <2>5. actsOn' \in [Calls -> Documents \cup {NoDocument}]
    BY <1>2, <2>4 DEF ProcessQueue, TypeOK
  <2> QED
    BY <1>2, <2>1, <2>3, <2>5 DEF ProcessQueue, TypeOK
<1> QED
  BY <1>1, <1>2

(* runWrite keeps the types, whether the write starts or waits. *)
LEMMA RunWriteType ==
  ASSUME TypeOK, NEW c \in Calls, NEW k \in Keys, RunWrite(c, k)
  PROVE  /\ running' \in [Keys -> BOOLEAN]
         /\ activeWrite' \in [Keys -> Calls \cup {NoCall}]
         /\ queue' \in [Keys -> Seq(Calls)]
         /\ pc' \in [Calls -> PCs]
         /\ actsOn' \in [Calls -> Documents \cup {NoDocument}]
<1> DEFINE q == Append(queue[k], c)
           p == [pc EXCEPT ![c] = "queued"]
<1>1. q \in Seq(Calls)
  BY DEF TypeOK
<1>2. p \in [Calls -> PCs]
  BY DEF TypeOK, PCs
<1>3. CASE running[k]
  BY <1>1, <1>2, <1>3 DEF RunWrite, TypeOK
<1>4. CASE ~ running[k]
  <2>1. ProcessQueue(k, q, p)
    BY <1>4 DEF RunWrite
  <2> HIDE DEF q, p
  <2> QED
    BY <1>1, <1>2, <2>1, ProcessQueueType
<1> QED
  BY <1>3, <1>4

LEMMA PassGateType ==
  ASSUME TypeOK, NEW c \in Calls, PassGate(c)
  PROVE  /\ running' \in [Keys -> BOOLEAN]
         /\ activeWrite' \in [Keys -> Calls \cup {NoCall}]
         /\ queue' \in [Keys -> Seq(Calls)]
         /\ pc' \in [Calls -> PCs]
         /\ actsOn' \in [Calls -> Documents \cup {NoDocument}]
<1>1. CASE c \in aborted
  BY <1>1 DEF PassGate, TypeOK, PCs
<1>2. CASE c \notin aborted
  BY <1>2, RunWriteType DEF PassGate, TypeOK
<1> QED
  BY <1>1, <1>2

LEMMA InitType == Init => TypeOK
  BY CoordinatorAssumption DEF Init, TypeOK, PCs, Keys

LEMMA NextType == TypeOK /\ [Next]_vars => TypeOK'
<1> SUFFICES ASSUME TypeOK, [Next]_vars PROVE TypeOK'
  OBVIOUS
<1> USE CoordinatorAssumption
<1>1. ASSUME NEW c \in Calls, Invoke(c) PROVE TypeOK'
  BY <1>1 DEF Invoke, TypeOK, PCs, hostVars, stateVars
<1>2. ASSUME NEW c \in Calls, Resolve(c) PROVE TypeOK'
  <2>1. WorkbookId(activeDocument) \in Keys
    BY DEF WorkbookId, TypeOK, Keys
  <2>2. key' \in [Calls -> Keys]
    BY <1>2, <2>1 DEF Resolve, TypeOK
  <2>3. pc' \in [Calls -> PCs]
    BY <1>2 DEF Resolve, TypeOK, PCs
  <2> QED
    BY <1>2, <2>2, <2>3 DEF Resolve, TypeOK, hostVars, stateVars
<1>17. ASSUME NEW c \in Calls, ResolveRestore(c) PROVE TypeOK'
  <2>1. WorkbookId(activeDocument) \in Keys
    BY DEF WorkbookId, TypeOK, Keys
  <2>2. key' \in [Calls -> Keys]
    BY <1>17, <2>1 DEF ResolveRestore, TypeOK
  <2> QED
    BY <1>17, <2>1, <2>2, RunWriteType DEF ResolveRestore, TypeOK, hostVars
<1>3. ASSUME NEW c \in Calls, ReadEnd(c) PROVE TypeOK'
  BY <1>3 DEF ReadEnd, TypeOK, PCs, Settled, hostVars, stateVars
<1>4. ASSUME NEW c \in Calls, CheckYolo(c) PROVE TypeOK'
  BY <1>4, PassGateType DEF CheckYolo, TypeOK, hostVars
<1>5. ASSUME NEW c \in Calls, CheckSafe(c) PROVE TypeOK'
  BY <1>5 DEF CheckSafe, TypeOK, PCs, hostVars, stateVars
<1>6. ASSUME NEW c \in Calls, Approve(c) PROVE TypeOK'
  BY <1>6, PassGateType DEF Approve, TypeOK, hostVars
<1>7. ASSUME NEW c \in Calls, Deny(c) PROVE TypeOK'
  BY <1>7 DEF Deny, TypeOK, PCs, hostVars, stateVars
<1>8. ASSUME NEW c \in Calls, WriteOk(c) PROVE TypeOK'
  BY <1>8 DEF WriteOk, TypeOK, PCs, hostVars
<1>9. ASSUME NEW c \in Calls, WriteFail(c) PROVE TypeOK'
  BY <1>9 DEF WriteFail, TypeOK, PCs, hostVars, stateVars
<1>10. ASSUME NEW c \in Calls, Finally(c) PROVE TypeOK'
  <2>1. key[c] \in Keys /\ queue[key[c]] \in Seq(Calls)
    BY DEF TypeOK
  <2>2. [pc EXCEPT ![c] = IF result[c] = 0 THEN "failed" ELSE "committed"]
          \in [Calls -> PCs]
    BY DEF TypeOK, PCs
  <2>3. /\ running' \in [Keys -> BOOLEAN]
        /\ activeWrite' \in [Keys -> Calls \cup {NoCall}]
        /\ queue' \in [Keys -> Seq(Calls)]
        /\ pc' \in [Calls -> PCs]
        /\ actsOn' \in [Calls -> Documents \cup {NoDocument}]
    BY <1>10, <2>1, <2>2, ProcessQueueType DEF Finally
  <2> QED
    BY <1>10, <2>3 DEF Finally, TypeOK, hostVars
<1>11. ASSUME NEW c \in Calls, Notify(c) PROVE TypeOK'
  BY <1>11 DEF Notify, TypeOK, PCs, hostVars, stateVars
<1>12. ASSUME NEW s \in Sessions, Abort(s) PROVE TypeOK'
  BY <1>12 DEF Abort, InFlight, TypeOK, hostVars, stateVars
<1>13. ASSUME NEW m \in {"yolo", "safe"}, SetMode(m) PROVE TypeOK'
  BY <1>13 DEF SetMode, TypeOK, callVars, hostVars, stateVars
<1>14. CASE FirstSave
  BY <1>14 DEF FirstSave, TypeOK, callVars, stateVars
<1>15. ASSUME NEW d \in Documents, SwitchWorkbook(d) PROVE TypeOK'
  BY <1>15 DEF SwitchWorkbook, TypeOK, callVars, stateVars
<1>16. CASE UNCHANGED vars
  BY <1>16 DEF TypeOK, vars, callVars, hostVars, stateVars
<1> QED
  BY <1>1, <1>2, <1>3, <1>4, <1>5, <1>6, <1>7, <1>8, <1>9, <1>10, <1>11, <1>12,
     <1>13, <1>14, <1>15, <1>16, <1>17 DEF Next, CallStep, Surroundings

(* Every variable of the coordinator, the wrapper and the host keeps its    *)
(* type, whatever the calls, sessions and documents.                        *)
THEOREM TypeCorrect == Spec => []TypeOK
<1> QED
  BY InitType, NextType, PTL DEF Spec

-----------------------------------------------------------------------------
(* The discipline of the write slots *)

(* A sorted queue stays sorted when calls outside it change. *)
LEMMA SortedFrame ==
  ASSUME NEW q \in Seq(Calls), NEW k, NEW p, NEW m, NEW p2, NEW m2,
         SortedQueue(q, k, p, m),
         \A c \in Calls : p[c] = "queued" => p2[c] = "queued" /\ m2[c] = m[c]
  PROVE  SortedQueue(q, k, p2, m2)
<1> SUFFICES ASSUME NEW i \in 1..Len(q)
             PROVE  /\ p2[q[i]] = "queued"
                    /\ m2[q[i]] = k
                    /\ \A j \in 1..Len(q) : q[i] = q[j] => i = j
  BY DEF SortedQueue
<1>1. q[i] \in Calls
  BY ElementOfSeq
<1> QED
  BY <1>1 DEF SortedQueue

(* processQueue takes the head of a sorted queue: the rest is sorted, the   *)
(* head is not in it.                                                       *)
LEMMA SortedTail ==
  ASSUME NEW q \in Seq(Calls), q # <<>>, NEW k, NEW p, NEW m,
         SortedQueue(q, k, p, m)
  PROVE  /\ Head(q) \in Calls
         /\ p[Head(q)] = "queued"
         /\ m[Head(q)] = k
         /\ Tail(q) \in Seq(Calls)
         /\ \A p2 : (\A c \in Calls \ {Head(q)} : p2[c] = p[c])
                       => SortedQueue(Tail(q), k, p2, m)
<1>1. /\ Head(q) \in Calls
      /\ Head(q) = q[1]
      /\ Len(q) \in Nat /\ Len(q) >= 1
      /\ Tail(q) \in Seq(Calls)
      /\ Len(Tail(q)) = Len(q) - 1
      /\ \A i \in 1..Len(Tail(q)) : Tail(q)[i] = q[i + 1]
  BY HeadTailProperties, EmptySeq
<1>2. p[Head(q)] = "queued" /\ m[Head(q)] = k
  BY <1>1 DEF SortedQueue
<1>3. ASSUME NEW p2, \A c \in Calls \ {Head(q)} : p2[c] = p[c],
             NEW i \in 1..Len(Tail(q))
      PROVE  /\ p2[Tail(q)[i]] = "queued"
             /\ m[Tail(q)[i]] = k
             /\ \A j \in 1..Len(Tail(q)) : Tail(q)[i] = Tail(q)[j] => i = j
  <2>1. /\ i + 1 \in 1..Len(q) /\ Tail(q)[i] = q[i + 1] /\ i + 1 # 1
        /\ \A j \in 1..Len(Tail(q)) : j + 1 \in 1..Len(q) /\ Tail(q)[j] = q[j + 1]
    BY <1>1
  <2>2. q[i + 1] # Head(q) /\ q[i + 1] \in Calls
    BY <1>1, <2>1, ElementOfSeq DEF SortedQueue
  <2> QED
    BY <1>3, <2>1, <2>2 DEF SortedQueue
<1> QED
  BY <1>1, <1>2, <1>3 DEF SortedQueue

(* runWrite appends a call that is not queued yet. *)
LEMMA SortedAppend ==
  ASSUME NEW q \in Seq(Calls), NEW c \in Calls, NEW k, NEW p, NEW m, NEW p2, NEW m2,
         SortedQueue(q, k, p, m), p[c] # "queued",
         p2[c] = "queued", m2[c] = k,
         \A d \in Calls \ {c} : p2[d] = p[d] /\ m2[d] = m[d]
  PROVE  SortedQueue(Append(q, c), k, p2, m2)
<1> DEFINE r == Append(q, c)
<1>1. /\ Len(q) \in Nat
      /\ Len(r) = Len(q) + 1
      /\ \A i \in 1..Len(q) : r[i] = q[i]
      /\ r[Len(q) + 1] = c
  BY AppendProperties
<1>2. \A i \in 1..Len(q) : q[i] \in Calls /\ q[i] # c
  BY ElementOfSeq DEF SortedQueue
<1>3. SUFFICES ASSUME NEW i \in 1..Len(r)
               PROVE  /\ p2[r[i]] = "queued"
                      /\ m2[r[i]] = k
                      /\ \A j \in 1..Len(r) : r[i] = r[j] => i = j
  BY DEF SortedQueue
<1> HIDE DEF r
<1>4. CASE i \in 1..Len(q)
  BY <1>1, <1>2, <1>4 DEF SortedQueue
<1>5. CASE i = Len(q) + 1
  BY <1>1, <1>2, <1>5
<1> QED
  BY <1>1, <1>4, <1>5

(* The slots as processQueue finds them at k, which nobody holds, with the  *)
(* queue q: the other slots are in order, and q is sorted.  p and m stand   *)
(* for the call states it finds and the keys the calls have then.           *)
Handover(k, q, p, m) ==
  /\ \A l \in Keys \ {k} : running[l] =>
       /\ activeWrite[l] \in Calls
       /\ m[activeWrite[l]] = l
       /\ p[activeWrite[l]] \in {"writing", "settled"}
  /\ \A l \in Keys \ {k} : ~ running[l] =>
       activeWrite[l] = NoCall /\ queue[l] = <<>>
  /\ \A c \in Calls : p[c] \in {"writing", "settled"} =>
       m[c] # k /\ running[m[c]] /\ activeWrite[m[c]] = c
  /\ SortedQueue(q, k, p, m)
  /\ \A l \in Keys \ {k} : SortedQueue(queue[l], l, p, m)

(* processQueue hands the free slot to the head of the queue, or leaves it  *)
(* free when the queue is empty.                                            *)
LEMMA ProcessQueueSlot ==
  ASSUME TypeOK,
         NEW k \in Keys, NEW q \in Seq(Calls),
         NEW p \in [Calls -> PCs], NEW m \in [Calls -> Keys],
         Handover(k, q, p, m), ProcessQueue(k, q, p), key' = m
  PROVE  SlotInv'
<1> USE DEF Handover
<1>1. CASE q = <<>>
  <2>1. /\ running' = [running EXCEPT ![k] = FALSE]
        /\ activeWrite' = [activeWrite EXCEPT ![k] = NoCall]
        /\ queue' = [queue EXCEPT ![k] = q]
        /\ pc' = p
    BY <1>1 DEF ProcessQueue
  <2>2. SlotsTaken'
    BY <2>1 DEF SlotsTaken, TypeOK
  <2>3. SlotsFree'
    BY <1>1, <2>1 DEF SlotsFree, TypeOK
  <2>4. HoldersActive'
    BY <2>1 DEF HoldersActive, TypeOK
  <2>5. \A l \in Keys : SortedQueue(queue'[l], l, p, m)
    <3>1. queue'[k] = q /\ \A l \in Keys \ {k} : queue'[l] = queue[l]
      BY <2>1 DEF TypeOK
    <3> QED
      BY <3>1
  <2>6. QueuesSorted'
    BY <2>1, <2>5 DEF QueuesSorted
  <2> QED
    BY <2>2, <2>3, <2>4, <2>6 DEF SlotInv
<1>2. CASE q # <<>>
  <2> DEFINE next == Head(q)
  <2>1. PICK x \in {"writing", "settled"} : pc' = [p EXCEPT ![next] = x]
    BY <1>2 DEF ProcessQueue
  <2>2. /\ running' = [running EXCEPT ![k] = TRUE]
        /\ activeWrite' = [activeWrite EXCEPT ![k] = next]
        /\ queue' = [queue EXCEPT ![k] = Tail(q)]
    BY <1>2 DEF ProcessQueue
  <2>3. next \in Calls /\ p[next] = "queued" /\ m[next] = k
    BY <1>2, SortedTail
  <2> HIDE DEF next
  <2>4. \A c \in Calls \ {next} : pc'[c] = p[c]
    BY <2>1
  <2>5. pc'[next] \in {"writing", "settled"}
    BY <2>1, <2>3
  <2>6. SlotsTaken'
    <3> SUFFICES ASSUME NEW l \in Keys, running'[l]
                 PROVE  /\ activeWrite'[l] \in Calls
                        /\ m[activeWrite'[l]] = l
                        /\ pc'[activeWrite'[l]] \in {"writing", "settled"}
      BY DEF SlotsTaken
    <3>1. CASE l = k
      <4>1. activeWrite'[l] = next
        BY <2>2, <3>1 DEF TypeOK
      <4> QED
        BY <2>3, <2>5, <3>1, <4>1
    <3>2. CASE l # k
      <4>1. running[l] /\ activeWrite'[l] = activeWrite[l]
        BY <2>2, <3>2 DEF TypeOK
      <4>2. /\ activeWrite[l] \in Calls
            /\ m[activeWrite[l]] = l
            /\ p[activeWrite[l]] \in {"writing", "settled"}
        BY <3>2, <4>1
      <4> QED
        BY <2>3, <2>4, <4>1, <4>2
    <3> QED
      BY <3>1, <3>2
  <2>7. SlotsFree'
    BY <2>2 DEF SlotsFree, TypeOK
  <2>8. HoldersActive'
    BY <2>2, <2>3, <2>4 DEF HoldersActive, TypeOK
  <2>9. \A l \in Keys : SortedQueue(queue'[l], l, pc', m)
    <3>1. queue'[k] = Tail(q) /\ \A l \in Keys \ {k} : queue'[l] = queue[l]
      BY <2>2 DEF TypeOK
    <3>2. SortedQueue(Tail(q), k, pc', m)
      BY <1>2, <2>4, SortedTail DEF next
    <3>3. ASSUME NEW l \in Keys \ {k} PROVE SortedQueue(queue[l], l, pc', m)
      <4>1. SortedQueue(queue[l], l, p, m) /\ queue[l] \in Seq(Calls)
        BY DEF TypeOK
      <4>2. SUFFICES ASSUME NEW i \in 1..Len(queue[l])
                     PROVE  pc'[queue[l][i]] = "queued"
        BY <4>1 DEF SortedQueue
      <4>3. /\ queue[l][i] \in Calls
            /\ p[queue[l][i]] = "queued"
            /\ m[queue[l][i]] = l
        BY <4>1, ElementOfSeq DEF SortedQueue
      <4> QED
        BY <2>3, <2>4, <4>3
    <3> QED
      BY <3>1, <3>2, <3>3
  <2>10. QueuesSorted'
    BY <2>9 DEF QueuesSorted
  <2> QED
    BY <2>6, <2>7, <2>8, <2>10 DEF SlotInv
<1> QED
  BY <1>1, <1>2

(* runWrite, at a free slot or behind a running write, by a call that is    *)
(* neither queued nor holding a slot.                                       *)
LEMMA RunWriteSlot ==
  ASSUME TypeOK, SlotInv, NEW c \in Calls,
         pc[c] \in {"resolving", "checking", "approving"},
         NEW k \in Keys, key' = [key EXCEPT ![c] = k], RunWrite(c, k)
  PROVE  SlotInv'
<1> DEFINE q == Append(queue[k], c)
           p == [pc EXCEPT ![c] = "queued"]
           m == [key EXCEPT ![c] = k]
<1>1. /\ queue[k] \in Seq(Calls)
      /\ q \in Seq(Calls)
  BY DEF TypeOK
<1>2. /\ p \in [Calls -> PCs]
      /\ p[c] = "queued"
      /\ \A d \in Calls \ {c} : p[d] = pc[d]
      /\ m \in [Calls -> Keys]
      /\ m[c] = k
      /\ \A d \in Calls \ {c} : m[d] = key[d]
  BY DEF TypeOK, PCs
<1>3. key' = m
  OBVIOUS
<1> HIDE DEF p, m
<1>4. SortedQueue(q, k, p, m)
  <2>1. SortedQueue(queue[k], k, pc, key) /\ pc[c] # "queued"
    BY DEF SlotInv, QueuesSorted
  <2> DEFINE s == queue[k]
  <2>2. /\ s \in Seq(Calls) /\ SortedQueue(s, k, pc, key) /\ pc[c] # "queued"
        /\ p[c] = "queued" /\ m[c] = k
        /\ \A d \in Calls \ {c} : p[d] = pc[d] /\ m[d] = key[d]
    BY <1>1, <1>2, <2>1
  <2> HIDE DEF s
  <2>3. SortedQueue(Append(s, c), k, p, m)
    BY <2>2, SortedAppend
  <2> QED
    BY <2>3 DEF s
<1>5. ASSUME NEW l \in Keys \ {k} PROVE SortedQueue(queue[l], l, p, m)
  <2>1. queue[l] \in Seq(Calls) /\ SortedQueue(queue[l], l, pc, key)
    BY DEF SlotInv, QueuesSorted, TypeOK
  <2>2. \A d \in Calls : pc[d] = "queued" => p[d] = "queued" /\ m[d] = key[d]
    BY <1>2
  <2> QED
    BY <2>1, <2>2, SortedFrame
<1> HIDE DEF q
<1>6. \A l \in Keys : running[l] =>
        /\ activeWrite[l] \in Calls
        /\ m[activeWrite[l]] = l
        /\ p[activeWrite[l]] \in {"writing", "settled"}
  BY <1>2 DEF SlotInv, SlotsTaken
<1>7. \A l \in Keys : ~ running[l] =>
        activeWrite[l] = NoCall /\ queue[l] = <<>>
  BY DEF SlotInv, SlotsFree
<1>8. \A d \in Calls : p[d] \in {"writing", "settled"} =>
        running[m[d]] /\ activeWrite[m[d]] = d
  BY <1>2 DEF SlotInv, HoldersActive
<1>9. CASE running[k]
  <2>1. /\ queue' = [queue EXCEPT ![k] = q]
        /\ pc' = p
        /\ UNCHANGED <<running, activeWrite>>
    BY <1>9 DEF RunWrite, p, q
  <2>2. SlotsTaken'
    BY <1>3, <1>6, <2>1 DEF SlotsTaken
  <2>3. SlotsFree'
    BY <1>7, <1>9, <2>1 DEF SlotsFree, TypeOK
  <2>4. HoldersActive'
    BY <1>3, <1>8, <2>1 DEF HoldersActive
  <2>5. \A l \in Keys : SortedQueue(queue'[l], l, p, m)
    <3>1. queue'[k] = q /\ \A l \in Keys \ {k} : queue'[l] = queue[l]
      BY <1>1, <2>1 DEF TypeOK
    <3> QED
      BY <1>4, <1>5, <3>1
  <2>6. QueuesSorted'
    BY <1>3, <2>1, <2>5 DEF QueuesSorted
  <2> QED
    BY <2>2, <2>3, <2>4, <2>6 DEF SlotInv
<1>10. CASE ~ running[k]
  <2>1. ProcessQueue(k, q, p)
    BY <1>10 DEF RunWrite, p, q
  <2>2. \A d \in Calls : p[d] \in {"writing", "settled"} =>
          m[d] # k /\ running[m[d]] /\ activeWrite[m[d]] = d
    BY <1>8, <1>10
  <2>3. Handover(k, q, p, m)
    BY <1>4, <1>5, <1>6, <1>7, <2>2 DEF Handover
  <2> QED
    BY <1>1, <1>2, <1>3, <2>1, <2>3, ProcessQueueSlot
<1> QED
  BY <1>9, <1>10

(* A call that is neither queued nor holding a slot may move on, and its    *)
(* key be captured, without touching any slot.                              *)
LEMMA OutsideSlot ==
  ASSUME TypeOK, SlotInv, NEW c \in Calls, NEW x \in PCs,
         pc[c] \notin {"queued", "writing", "settled"},
         x \notin {"queued", "writing", "settled"},
         pc' = [pc EXCEPT ![c] = x],
         \A d \in Calls \ {c} : key'[d] = key[d],
         UNCHANGED <<running, activeWrite, queue>>
  PROVE  SlotInv'
<1>1. \A d \in Calls \ {c} : pc'[d] = pc[d]
  BY DEF TypeOK
<1>2. pc'[c] \notin {"queued", "writing", "settled"}
  BY DEF TypeOK
<1>3. SlotsTaken'
  BY <1>1, <1>2 DEF SlotInv, SlotsTaken
<1>4. SlotsFree'
  BY DEF SlotInv, SlotsFree
<1>5. HoldersActive'
  BY <1>1, <1>2 DEF SlotInv, HoldersActive
<1>6. ASSUME NEW k \in Keys PROVE SortedQueue(queue[k], k, pc', key')
  <2> SUFFICES ASSUME NEW i \in 1..Len(queue[k])
               PROVE  /\ pc'[queue[k][i]] = "queued"
                      /\ key'[queue[k][i]] = k
                      /\ \A j \in 1..Len(queue[k]) :
                           queue[k][i] = queue[k][j] => i = j
    BY DEF SortedQueue
  <2>1. queue[k] \in Seq(Calls) /\ SortedQueue(queue[k], k, pc, key)
    BY DEF SlotInv, QueuesSorted, TypeOK
  <2>2. /\ queue[k][i] \in Calls
        /\ pc[queue[k][i]] = "queued"
        /\ key[queue[k][i]] = k
        /\ \A j \in 1..Len(queue[k]) : queue[k][i] = queue[k][j] => i = j
    BY <2>1, ElementOfSeq DEF SortedQueue
  <2> QED
    BY <1>1, <2>2
<1>7. QueuesSorted'
  BY <1>6 DEF QueuesSorted
<1> QED
  BY <1>3, <1>4, <1>5, <1>7 DEF SlotInv

(* The tool of the active write returns or throws: its call keeps the slot. *)
LEMMA SettleSlot ==
  ASSUME TypeOK, SlotInv, NEW c \in Calls,
         pc[c] = "writing", pc' = [pc EXCEPT ![c] = "settled"],
         UNCHANGED <<key, running, activeWrite, queue>>
  PROVE  SlotInv'
<1>1. pc'[c] = "settled" /\ \A d \in Calls \ {c} : pc'[d] = pc[d]
  BY DEF TypeOK
<1>2. SlotsTaken'
  BY <1>1 DEF SlotInv, SlotsTaken
<1>3. SlotsFree'
  BY DEF SlotInv, SlotsFree
<1>4. HoldersActive'
  BY <1>1 DEF SlotInv, HoldersActive
<1>5. ASSUME NEW k \in Keys PROVE SortedQueue(queue[k], k, pc', key)
  <2>1. queue[k] \in Seq(Calls) /\ SortedQueue(queue[k], k, pc, key)
    BY DEF SlotInv, QueuesSorted, TypeOK
  <2>2. \A d \in Calls : pc[d] = "queued" => pc'[d] = "queued" /\ key[d] = key[d]
    BY <1>1
  <2> QED
    BY <2>1, <2>2, SortedFrame
<1>6. QueuesSorted'
  BY <1>5 DEF QueuesSorted
<1> QED
  BY <1>2, <1>3, <1>4, <1>6 DEF SlotInv

(* The finally block passes the slot on or leaves it free. *)
LEMMA FinallySlot ==
  ASSUME TypeOK, SlotInv, NEW c \in Calls, Finally(c)
  PROVE  SlotInv'
<1> DEFINE k == key[c]
           p == [pc EXCEPT ![c] = IF result[c] = 0 THEN "failed" ELSE "committed"]
<1>1. /\ k \in Keys
      /\ queue[k] \in Seq(Calls)
      /\ p \in [Calls -> PCs]
      /\ p[c] \in {"failed", "committed"}
      /\ \A d \in Calls \ {c} : p[d] = pc[d]
  BY DEF TypeOK, PCs
<1>2. /\ pc[c] = "settled"
      /\ ProcessQueue(k, queue[k], p)
      /\ UNCHANGED key
  BY DEF Finally
<1>3. running[k] /\ activeWrite[k] = c
  BY <1>2 DEF SlotInv, HoldersActive
<1> HIDE DEF p
<1>4. /\ \A l \in Keys \ {k} : running[l] =>
            /\ activeWrite[l] \in Calls
            /\ key[activeWrite[l]] = l
            /\ p[activeWrite[l]] \in {"writing", "settled"}
      /\ \A l \in Keys \ {k} : ~ running[l] =>
            activeWrite[l] = NoCall /\ queue[l] = <<>>
  BY <1>1 DEF SlotInv, SlotsTaken, SlotsFree
<1>5. \A d \in Calls : p[d] \in {"writing", "settled"} =>
        key[d] # k /\ running[key[d]] /\ activeWrite[key[d]] = d
  BY <1>1, <1>3 DEF SlotInv, HoldersActive
<1>6. \A l \in Keys : SortedQueue(queue[l], l, p, key)
  BY <1>1, <1>2, SortedFrame DEF SlotInv, QueuesSorted, TypeOK
<1>7. key \in [Calls -> Keys] /\ key' = key
  BY <1>2 DEF TypeOK
<1>8. Handover(k, queue[k], p, key)
  BY <1>1, <1>4, <1>5, <1>6 DEF Handover
<1> HIDE DEF k
<1> QED
  BY <1>1, <1>2, <1>7, <1>8, ProcessQueueSlot

LEMMA InitSlot == Init => SlotInv
  BY CoordinatorAssumption
  DEF Init, SlotInv, SlotsTaken, SlotsFree, HoldersActive, QueuesSorted, SortedQueue

LEMMA PassGateSlot ==
  ASSUME TypeOK, SlotInv, NEW c \in Calls,
         pc[c] \in {"checking", "approving"}, PassGate(c), UNCHANGED key
  PROVE  SlotInv'
<1>1. CASE c \in aborted
  BY <1>1, OutsideSlot DEF PassGate, PCs
<1>2. CASE c \notin aborted
  <2>1. key[c] \in Keys /\ key' = [key EXCEPT ![c] = key[c]]
    BY DEF TypeOK
  <2> QED
    BY <1>2, <2>1, RunWriteSlot DEF PassGate
<1> QED
  BY <1>1, <1>2

LEMMA NextSlot == TypeOK /\ SlotInv /\ [Next]_vars => SlotInv'
<1> SUFFICES ASSUME TypeOK, SlotInv, [Next]_vars PROVE SlotInv'
  OBVIOUS
<1>1. ASSUME NEW c \in Calls, Invoke(c) PROVE SlotInv'
  BY <1>1, OutsideSlot DEF Invoke, PCs, stateVars
<1>2. ASSUME NEW c \in Calls, Resolve(c) PROVE SlotInv'
  <2>1. PICK x \in {"failed", "checking", "reading"} : pc' = [pc EXCEPT ![c] = x]
    <3> DEFINE x == CASE c \in aborted  -> "failed"
                      [] c \in Mutating -> "checking"
                      [] OTHER          -> "reading"
    <3>1. x \in {"failed", "checking", "reading"}
      BY Zenon
    <3>2. pc' = [pc EXCEPT ![c] = x]
      BY <1>2 DEF Resolve
    <3> QED
      BY <3>1, <3>2
  <2>2. \A d \in Calls \ {c} : key'[d] = key[d]
    BY <1>2 DEF Resolve, TypeOK
  <2>3. pc[c] = "resolving" /\ UNCHANGED <<running, activeWrite, queue>>
    BY <1>2 DEF Resolve, stateVars
  <2> QED
    BY <2>1, <2>2, <2>3, OutsideSlot DEF PCs
<1>15. ASSUME NEW c \in Calls, ResolveRestore(c) PROVE SlotInv'
  <2>1. WorkbookId(activeDocument) \in Keys
    BY DEF WorkbookId, TypeOK, Keys
  <2> QED
    BY <1>15, <2>1, RunWriteSlot DEF ResolveRestore
<1>3. ASSUME NEW c \in Calls, ReadEnd(c) PROVE SlotInv'
  BY <1>3, OutsideSlot DEF ReadEnd, PCs, Settled, stateVars
<1>4. ASSUME NEW c \in Calls, CheckYolo(c) PROVE SlotInv'
  BY <1>4, PassGateSlot DEF CheckYolo
<1>5. ASSUME NEW c \in Calls, CheckSafe(c) PROVE SlotInv'
  BY <1>5, OutsideSlot DEF CheckSafe, PCs, stateVars
<1>6. ASSUME NEW c \in Calls, Approve(c) PROVE SlotInv'
  BY <1>6, PassGateSlot DEF Approve
<1>7. ASSUME NEW c \in Calls, Deny(c) PROVE SlotInv'
  BY <1>7, OutsideSlot DEF Deny, PCs, stateVars
<1>8. ASSUME NEW c \in Calls, WriteOk(c) PROVE SlotInv'
  BY <1>8, SettleSlot DEF WriteOk
<1>9. ASSUME NEW c \in Calls, WriteFail(c) PROVE SlotInv'
  BY <1>9, SettleSlot DEF WriteFail, stateVars
<1>10. ASSUME NEW c \in Calls, Finally(c) PROVE SlotInv'
  BY <1>10, FinallySlot
<1>11. ASSUME NEW c \in Calls, Notify(c) PROVE SlotInv'
  BY <1>11, OutsideSlot DEF Notify, PCs, stateVars
<1>12. CASE UNCHANGED <<pc, key, running, activeWrite, queue>>
  BY <1>12 DEF SlotInv, SlotsTaken, SlotsFree, HoldersActive, QueuesSorted
<1>13. CASE Surroundings
  BY <1>12, <1>13
  DEF Surroundings, Abort, SetMode, FirstSave, SwitchWorkbook, callVars, stateVars
<1>14. CASE UNCHANGED vars
  BY <1>12, <1>14 DEF vars, callVars, stateVars
<1> QED
  BY <1>1, <1>2, <1>3, <1>4, <1>5, <1>6, <1>7, <1>8, <1>9, <1>10, <1>11, <1>13, <1>14,
     <1>15 DEF Next, CallStep

(* At every moment the slot of a key is kept by the one call activeWrite    *)
(* names, and its queue holds only queued calls of that key, once each.     *)
THEOREM SlotsKept == Spec => []SlotInv
<1>1. TypeOK /\ SlotInv /\ [Next]_vars => TypeOK' /\ SlotInv'
  BY NextType, NextSlot
<1> QED
  BY InitType, InitSlot, <1>1, PTL DEF Spec

(* Mutations that captured the same workbook key never run together.        *)
THEOREM MutationsSerialized == Spec => []SerializedMutation
<1>1. SlotInv => SerializedMutation
  BY DEF SlotInv, HoldersActive, SerializedMutation
<1> QED
  BY <1>1, SlotsKept, PTL

(* A waiting write always has somebody ahead of it whose finally block will *)
(* start the next one.                                                      *)
THEOREM NoWriteStranded == Spec => []NoStrandedWrite
<1>1. SlotInv => NoStrandedWrite
  BY DEF SlotInv, SlotsTaken, SlotsFree, NoStrandedWrite, Holding
<1> QED
  BY <1>1, SlotsKept, PTL

-----------------------------------------------------------------------------
(* How calls move *)

(* The step moves calls from the states p only by starting queued ones,     *)
(* which write unless they are aborted.                                     *)
StartsFrom(p) ==
  \A d \in Calls :
    \/ pc'[d] = p[d]
    \/ /\ p[d] = "queued"
       /\ pc'[d] = IF d \in aborted THEN "settled" ELSE "writing"

LEMMA ProcessQueueStarts ==
  ASSUME NEW k \in Keys, NEW q \in Seq(Calls), NEW p \in [Calls -> PCs],
         q # <<>> => p[Head(q)] = "queued", ProcessQueue(k, q, p)
  PROVE  StartsFrom(p)
<1>1. CASE q = <<>>
  BY <1>1 DEF ProcessQueue, StartsFrom
<1>2. CASE q # <<>>
  <2>1. Head(q) \in Calls
    BY <1>2, HeadTailProperties
  <2>2. pc' = [p EXCEPT ![Head(q)] = IF Head(q) \in aborted THEN "settled" ELSE "writing"]
    BY <1>2 DEF ProcessQueue
  <2> QED
    BY <1>2, <2>1, <2>2 DEF StartsFrom
<1> QED
  BY <1>1, <1>2

LEMMA RunWriteStarts ==
  ASSUME TypeOK, SlotInv, NEW c \in Calls, NEW k \in Keys, RunWrite(c, k)
  PROVE  StartsFrom([pc EXCEPT ![c] = "queued"])
<1> DEFINE q == Append(queue[k], c)
           p == [pc EXCEPT ![c] = "queued"]
<1>1. p \in [Calls -> PCs] /\ p[c] = "queued" /\ q \in Seq(Calls)
  BY DEF TypeOK, PCs
<1>2. CASE running[k]
  BY <1>2 DEF RunWrite, StartsFrom
<1>3. CASE ~ running[k]
  <2>1. ProcessQueue(k, q, p)
    BY <1>3 DEF RunWrite
  <2>2. Head(q) = c
    BY <1>3 DEF SlotInv, SlotsFree
  <2> HIDE DEF p, q
  <2> QED
    BY <1>1, <2>1, <2>2, ProcessQueueStarts DEF p
<1> QED
  BY <1>2, <1>3

(* Where a call goes in a step of its own, whose key is unchanged unless    *)
(* the call resolves it.                                                    *)
OwnMove(c) ==
  /\ pc[c] \notin {"queued", "done", "failed"}
  /\ pc'[c] # "new"
  /\ pc[c] = "new" => pc'[c] = "resolving"
  /\ pc[c] = "writing" => pc'[c] = "settled"
  /\ pc[c] = "settled" => pc'[c] = IF result[c] = 0 THEN "failed" ELSE "committed"
  /\ pc[c] = "committed" => pc'[c] = "done"
  /\ pc[c] # "resolving" => key' = key
  /\ pc'[c] = "writing" => c \notin aborted

(* Where the others go meanwhile: a finally block starts the next write.    *)
OthersMove(c) ==
  \A d \in Calls \ {c} :
    /\ key'[d] = key[d]
    /\ \/ pc'[d] = pc[d]
       \/ pc[d] = "queued" /\ pc'[d] = IF d \in aborted THEN "settled" ELSE "writing"

(* A call on its own passes no queue. *)
LEMMA AloneMoves ==
  ASSUME TypeOK, NEW c \in Calls, NEW x \in PCs \ {"new", "writing"},
         pc[c] \notin {"new", "queued", "done", "failed", "writing", "settled", "committed"},
         pc' = [pc EXCEPT ![c] = x], \A d \in Calls \ {c} : key'[d] = key[d],
         pc[c] # "resolving" => key' = key
  PROVE  OwnMove(c) /\ OthersMove(c)
<1>1. pc'[c] = x /\ \A d \in Calls \ {c} : pc'[d] = pc[d]
  BY DEF TypeOK
<1> QED BY <1>1 DEF OwnMove, OthersMove

(* A call that runs its write keeps the places of the others. *)
LEMMA StartMoves ==
  ASSUME TypeOK, SlotInv, NEW c \in Calls, NEW k \in Keys, RunWrite(c, k),
         pc[c] \in {"resolving", "checking", "approving"},
         \A d \in Calls \ {c} : key'[d] = key[d], pc[c] # "resolving" => key' = key
  PROVE  OwnMove(c) /\ OthersMove(c)
<1> DEFINE p == [pc EXCEPT ![c] = "queued"]
<1>1. p[c] = "queued" /\ \A d \in Calls \ {c} : p[d] = pc[d]
  BY DEF TypeOK
<1>2. StartsFrom(p)
  BY RunWriteStarts
<1> HIDE DEF p
<1> QED BY <1>1, <1>2 DEF StartsFrom, OwnMove, OthersMove

LEMMA GateMoves ==
  ASSUME TypeOK, SlotInv, NEW c \in Calls, PassGate(c),
         pc[c] \in {"checking", "approving"}, UNCHANGED key
  PROVE  OwnMove(c) /\ OthersMove(c)
<1>1. CASE c \in aborted
  BY <1>1, AloneMoves DEF PassGate, PCs
<1>2. CASE c \notin aborted
  BY <1>2, StartMoves DEF PassGate, TypeOK
<1> QED BY <1>1, <1>2

(* The moves of every step of a call. *)
LEMMA CallMoves ==
  ASSUME TypeOK, SlotInv, NEW c \in Calls, CallStep(c)
  PROVE  OwnMove(c) /\ OthersMove(c) /\ UNCHANGED aborted
<1>1. CASE Invoke(c)
  BY <1>1 DEF Invoke, OwnMove, OthersMove, TypeOK
<1>2. CASE Resolve(c)
  <2> DEFINE x == CASE c \in aborted  -> "failed"
                    [] c \in Mutating -> "checking"
                    [] OTHER          -> "reading"
  <2>1. x \in {"failed", "checking", "reading"}
    BY Zenon
  <2>2. pc' = [pc EXCEPT ![c] = x] /\ pc[c] = "resolving" /\ UNCHANGED aborted
    BY <1>2 DEF Resolve
  <2>3. \A d \in Calls \ {c} : key'[d] = key[d]
    BY <1>2 DEF Resolve, TypeOK
  <2> HIDE DEF x
  <2> QED BY <2>1, <2>2, <2>3, AloneMoves DEF PCs
<1>3. CASE ResolveRestore(c)
  <2>1. WorkbookId(activeDocument) \in Keys
    BY DEF WorkbookId, TypeOK, Keys
  <2>2. \A d \in Calls \ {c} : key'[d] = key[d]
    BY <1>3 DEF ResolveRestore, TypeOK
  <2> QED BY <1>3, <2>1, <2>2, StartMoves DEF ResolveRestore
<1>4. CASE ReadEnd(c)
  BY <1>4, AloneMoves DEF ReadEnd, PCs, Settled
<1>5. CASE CheckYolo(c)
  BY <1>5, GateMoves DEF CheckYolo
<1>6. CASE CheckSafe(c)
  BY <1>6, AloneMoves DEF CheckSafe, PCs
<1>7. CASE Approve(c)
  BY <1>7, GateMoves DEF Approve
<1>8. CASE Deny(c)
  BY <1>8, AloneMoves DEF Deny, PCs
<1>9. CASE WriteOk(c) \/ WriteFail(c)
  BY <1>9 DEF WriteOk, WriteFail, OwnMove, OthersMove, TypeOK
<1>10. CASE Finally(c)
  <2> DEFINE p == [pc EXCEPT ![c] = IF result[c] = 0 THEN "failed" ELSE "committed"]
             q == queue[key[c]]
  <2>1. /\ p \in [Calls -> PCs] /\ p[c] = IF result[c] = 0 THEN "failed" ELSE "committed"
        /\ \A d \in Calls \ {c} : p[d] = pc[d]
        /\ key[c] \in Keys /\ q \in Seq(Calls)
    BY DEF TypeOK, PCs
  <2>2. /\ ProcessQueue(key[c], q, p) /\ pc[c] = "settled"
        /\ UNCHANGED <<key, result, aborted>>
    BY <1>10 DEF Finally
  <2>3. SortedQueue(q, key[c], pc, key)
    BY <2>1 DEF SlotInv, QueuesSorted
  <2> HIDE DEF p, q
  <2>4. q # <<>> => p[Head(q)] = "queued"
    BY <2>1, <2>2, <2>3, SortedTail
  <2>5. StartsFrom(p)
    BY <2>1, <2>2, <2>4, ProcessQueueStarts
  <2> QED BY <2>1, <2>2, <2>5 DEF StartsFrom, OwnMove, OthersMove
<1>11. CASE Notify(c)
  BY <1>11 DEF Notify, OwnMove, OthersMove, TypeOK
<1> QED BY <1>1, <1>2, <1>3, <1>4, <1>5, <1>6, <1>7, <1>8, <1>9, <1>10, <1>11 DEF CallStep

(* A call that is aborted before it writes never writes.                    *)
THEOREM AbortedCallsRest == Spec => AbortedNeverStarts
<1> DEFINE Start == \A c \in Calls : (pc[c] # "writing" /\ pc'[c] = "writing") => c \notin aborted
<1>1. TypeOK /\ SlotInv /\ [Next]_vars => [Start]_vars
  <2> SUFFICES ASSUME TypeOK, SlotInv, [Next]_vars,
                      NEW c \in Calls, pc[c] # "writing", pc'[c] = "writing"
               PROVE  c \notin aborted
    OBVIOUS
  <2>1. ASSUME NEW d \in Calls, CallStep(d) PROVE c \notin aborted
    BY <2>1, CallMoves DEF OwnMove, OthersMove
  <2>2. CASE Surroundings
    BY <2>2 DEF Surroundings, Abort, SetMode, FirstSave, SwitchWorkbook, callVars
  <2>3. CASE UNCHANGED vars
    BY <2>3 DEF vars, callVars
  <2> QED BY <2>1, <2>2, <2>3 DEF Next
<1> QED
  BY <1>1, TypeCorrect, SlotsKept, PTL DEF Spec, AbortedNeverStarts

-----------------------------------------------------------------------------
(* The revisions *)

Committed(k) == {c \in Calls : key[c] = k /\ result[c] > 0}

(* Only a call whose write has settled has a revision. *)
SettledFirst == \A c \in Calls : result[c] # 0 => pc[c] \in {"settled", "committed", "done"}

CommitsCounted ==
  \A k \in Keys :
    /\ IsFiniteSet(Committed(k)) /\ Cardinality(Committed(k)) = revision[k]
    /\ {result[c] : c \in Committed(k)} = 1..revision[k]

RevisionInv == SettledFirst /\ CommitsCounted

LEMMA InitRevision == Init => RevisionInv
<1> SUFFICES ASSUME Init PROVE RevisionInv
  OBVIOUS
<1>1. ASSUME NEW k \in Keys PROVE Committed(k) = {} /\ revision[k] = 0
  BY <1>1 DEF Init, Committed
<1>2. CommitsCounted
  BY <1>1, FS_EmptySet DEF CommitsCounted
<1> QED BY <1>2 DEF Init, RevisionInv, SettledFirst

(* The call that commits was not counted yet and gets the next number.      *)
LEMMA WriteOkCounts ==
  ASSUME TypeOK, RevisionInv, NEW c \in Calls, WriteOk(c)
  PROVE  CommitsCounted'
<1> DEFINE k == key[c]
           n == revision[k] + 1
<1>1. /\ result[c] = 0 /\ k \in Keys /\ revision[k] \in Nat /\ n \in Nat \ {0}
      /\ key' = key /\ result' = [result EXCEPT ![c] = n] /\ revision' = [revision EXCEPT ![k] = n]
  <2>1. pc[c] = "writing" /\ k \in Keys /\ revision[k] \in Nat
    BY DEF WriteOk, TypeOK
  <2>2. result[c] = 0
    BY <2>1 DEF RevisionInv, SettledFirst
  <2>3. /\ key' = key /\ result' = [result EXCEPT ![c] = n]
        /\ revision' = [revision EXCEPT ![k] = n]
    BY DEF WriteOk
  <2> QED BY <2>1, <2>2, <2>3
<1>2. /\ result'[c] = n /\ \A d \in Calls \ {c} : result'[d] = result[d]
      /\ revision'[k] = n /\ \A l \in Keys \ {k} : revision'[l] = revision[l]
  BY <1>1 DEF TypeOK
<1> SUFFICES ASSUME NEW l \in Keys
             PROVE  /\ IsFiniteSet(Committed(l)') /\ Cardinality(Committed(l)') = revision'[l]
                    /\ {result'[d] : d \in Committed(l)'} = 1..revision'[l]
  BY DEF CommitsCounted
<1>3. /\ IsFiniteSet(Committed(l)) /\ Cardinality(Committed(l)) = revision[l]
      /\ {result[d] : d \in Committed(l)} = 1..revision[l]
  BY DEF RevisionInv, CommitsCounted
<1>4. CASE l = k
  <2>1. Committed(l)' = Committed(l) \cup {c} /\ c \notin Committed(l)
    BY <1>1, <1>2, <1>4 DEF Committed
  <2>2. IsFiniteSet(Committed(l)') /\ Cardinality(Committed(l)') = revision'[l]
    BY <1>2, <1>3, <1>4, <2>1, FS_AddElement
  <2>3. {result'[d] : d \in Committed(l)'} = {result[d] : d \in Committed(l)} \cup {n}
    <3>1. \A d \in Committed(l) : result'[d] = result[d]
      BY <1>2, <2>1 DEF Committed
    <3> HIDE DEF n
    <3> QED BY <1>2, <2>1, <3>1
  <2>4. (1..revision[k]) \cup {n} = 1..n
    BY <1>1
  <2> QED BY <1>2, <1>3, <1>4, <2>2, <2>3, <2>4
<1>5. CASE l # k
  <2>1. \A d \in Calls : key[d] = l => result'[d] = result[d]
    BY <1>2, <1>5
  <2>2. Committed(l)' = Committed(l)
    BY <1>1, <2>1 DEF Committed
  <2>3. {result'[d] : d \in Committed(l)'} = {result[d] : d \in Committed(l)}
    BY <2>1, <2>2 DEF Committed
  <2> QED BY <1>2, <1>3, <1>5, <2>2, <2>3
<1> QED BY <1>4, <1>5

(* What does not commit moves no counted call to another key.               *)
LEMMA OthersKeepCount ==
  ASSUME TypeOK, RevisionInv, UNCHANGED <<result, revision>>,
         \A c \in Calls : result[c] # 0 => key'[c] = key[c]
  PROVE  CommitsCounted'
<1>1. ASSUME NEW k \in Keys PROVE Committed(k)' = Committed(k)
  <2>1. \A c \in Calls : result[c] > 0 => key'[c] = key[c]
    BY DEF TypeOK
  <2>2. \A c \in Calls : result'[c] > 0 /\ key'[c] = k <=> result[c] > 0 /\ key[c] = k
    BY <2>1
  <2> QED BY <2>2 DEF Committed
<1> QED BY <1>1 DEF RevisionInv, CommitsCounted

LEMMA NextRevision == TypeOK /\ SlotInv /\ RevisionInv /\ [Next]_vars => RevisionInv'
<1> SUFFICES ASSUME TypeOK, SlotInv, RevisionInv, [Next]_vars PROVE RevisionInv'
  OBVIOUS
<1>1. ASSUME NEW c \in Calls, WriteOk(c) PROVE RevisionInv'
  <2>1. SettledFirst'
    BY <1>1 DEF WriteOk, RevisionInv, SettledFirst, TypeOK
  <2> QED BY <1>1, <2>1, WriteOkCounts DEF RevisionInv
<1>2. ASSUME NEW c \in Calls, CallStep(c), ~ WriteOk(c) PROVE RevisionInv'
  <2>1. UNCHANGED <<result, revision>>
    BY <1>2 DEF CallStep, Invoke, Resolve, ResolveRestore, ReadEnd, CheckYolo, CheckSafe, Approve, Deny,
                WriteFail, Finally, Notify, stateVars
  <2>2. OwnMove(c) /\ OthersMove(c)
    BY <1>2, CallMoves
  <2>3. SettledFirst'
    BY <2>1, <2>2 DEF OwnMove, OthersMove, RevisionInv, SettledFirst
  <2>4. \A d \in Calls : result[d] # 0 => key'[d] = key[d]
    BY <2>2 DEF OwnMove, OthersMove, RevisionInv, SettledFirst
  <2>5. CommitsCounted'
    BY <2>1, <2>4, OthersKeepCount
  <2> QED BY <2>3, <2>5 DEF RevisionInv
<1>3. CASE UNCHANGED <<pc, key, result, revision>>
  <2>1. SettledFirst'
    BY <1>3 DEF RevisionInv, SettledFirst
  <2>2. CommitsCounted'
    BY <1>3, OthersKeepCount
  <2> QED BY <2>1, <2>2 DEF RevisionInv
<1>4. CASE Surroundings \/ UNCHANGED vars
  BY <1>3, <1>4
  DEF Surroundings, Abort, SetMode, FirstSave, SwitchWorkbook, vars, callVars, stateVars
<1> QED BY <1>1, <1>2, <1>4 DEF Next

(* The revisions given out for a key are 1..revision, each to one call.     *)
THEOREM RevisionsCount == Spec => []RevisionsNumberCommits
<1>1. RevisionInv => RevisionsNumberCommits
  BY DEF RevisionInv, CommitsCounted, Committed, RevisionsNumberCommits
<1> QED
  BY <1>1, TypeCorrect, SlotsKept, InitRevision, NextRevision, PTL DEF Spec

-----------------------------------------------------------------------------
(* The refinement *)

LEMMA ConsProperties ==
  ASSUME NEW S, NEW a \in S, NEW q \in Seq(S)
  PROVE  /\ <<a>> \o q \in Seq(S) /\ <<a>> \o q # <<>>
         /\ Head(<<a>> \o q) = a /\ Tail(<<a>> \o q) = q
         /\ \A i \in DOMAIN (<<a>> \o q) : (<<a>> \o q)[i] = a \/ \E j \in 1..Len(q) : (<<a>> \o q)[i] = q[j]
<1> DEFINE s == <<a>> \o q
<1>1. /\ <<a>> \in Seq(S) /\ Len(<<a>>) = 1 /\ <<a>>[1] = a /\ Len(q) \in Nat
  BY LenProperties
<1>2. /\ s \in Seq(S) /\ Len(s) = 1 + Len(q)
      /\ \A i \in 1..(1 + Len(q)) : s[i] = IF i <= 1 THEN <<a>>[i] ELSE q[i - 1]
  BY <1>1, ConcatProperties
<1> HIDE DEF s
<1>3. s # <<>> /\ Head(s) = s[1] /\ s[1] = a
  BY <1>1, <1>2, EmptySeq
<1>4. Tail(s) = q
  <2>1. /\ Tail(s) \in Seq(S) /\ Len(Tail(s)) = Len(q)
        /\ \A i \in 1..Len(Tail(s)) : Tail(s)[i] = s[i + 1]
    BY <1>1, <1>2, <1>3, HeadTailProperties
  <2>2. \A i \in 1..Len(Tail(s)) : Tail(s)[i] = q[i]
    BY <1>1, <1>2, <2>1
  <2> QED BY <2>1, <2>2, SeqEqual
<1>5. \A i \in DOMAIN s : s[i] = a \/ \E j \in 1..Len(q) : s[i] = q[j]
  <2>1. DOMAIN s = 1..(1 + Len(q))
    BY <1>2, LenProperties
  <2>2. ASSUME NEW i \in 2..(1 + Len(q)) PROVE s[i] = q[i - 1] /\ i - 1 \in 1..Len(q)
    BY <1>1, <1>2
  <2> QED BY <1>1, <1>3, <2>1, <2>2
<1> QED BY <1>2, <1>3, <1>4, <1>5 DEF s

LEMMA HeadTailTogether ==
  ASSUME NEW S, NEW q \in Seq(S), q # <<>>
  PROVE  <<Head(q)>> \o Tail(q) = q
<1>1. Len(q) \in Nat /\ Len(q) >= 1 /\ Head(q) = q[1]
  BY EmptySeq
<1>2. SubSeq(q, 1, Len(q)) = <<q[1]>> \o SubSeq(q, 2, Len(q))
  <2>1. 1 \in 1..Len(q) /\ Len(q) \in 1..Len(q) /\ 1 + 1 = 2
    BY <1>1
  <2> QED BY <2>1, SubSeqRecursiveFirst
<1> QED BY <1>1, <1>2, SubSeqFull, TailIsSubSeq

LEMMA ConsAppend ==
  ASSUME NEW S, NEW a \in S, NEW q \in Seq(S), NEW c \in S
  PROVE  <<a>> \o Append(q, c) = Append(<<a>> \o q, c)
<1>1. <<a>> \in Seq(S) /\ <<c>> \in Seq(S) /\ <<a>> \o q \in Seq(S)
  BY ConsProperties
<1> QED BY <1>1, AppendIsConcat, ConcatAssociative

(* Where nothing is queued, started or passed on, the lines stay.           *)
LEMMA LinesStay ==
  ASSUME UNCHANGED <<running, activeWrite, queue, revision, result>>
  PROVE  UNCHANGED Line!vars
  BY DEF Line!vars, LineOf

(* processQueue puts the queue it finds into line.                          *)
LEMMA ProcessQueueLines ==
  ASSUME TypeOK, NEW k \in Keys, NEW q \in Seq(Calls), NEW p, ProcessQueue(k, q, p)
  PROVE  \A l \in Keys : LineOf(l)' = IF l = k THEN q ELSE LineOf(l)
<1>1. /\ running \in [Keys -> BOOLEAN] /\ queue \in [Keys -> Seq(Calls)]
      /\ activeWrite \in [Keys -> Calls \cup {NoCall}]
  BY DEF TypeOK
<1>2. CASE q = <<>>
  BY <1>1, <1>2 DEF ProcessQueue, LineOf
<1>3. CASE q # <<>>
  <2>1. <<Head(q)>> \o Tail(q) = q
    BY <1>3, HeadTailTogether
  <2>2. /\ running' = [running EXCEPT ![k] = TRUE]
        /\ activeWrite' = [activeWrite EXCEPT ![k] = Head(q)]
        /\ queue' = [queue EXCEPT ![k] = Tail(q)]
    BY <1>3 DEF ProcessQueue
  <2> QED BY <1>1, <2>1, <2>2 DEF LineOf
<1> QED BY <1>2, <1>3

(* Who stands in a line is queued or holds its slot.                        *)
LEMMA InLineWaits ==
  ASSUME TypeOK, SlotInv, NEW c \in Calls, NEW l \in Keys, Line!InLine(c, l)
  PROVE  pc[c] \in {"queued", "writing", "settled"}
<1>1. PICK i \in DOMAIN LineOf(l) : LineOf(l)[i] = c
  BY DEF Line!InLine
<1>2. queue[l] \in Seq(Calls) /\ SortedQueue(queue[l], l, pc, key)
  BY DEF TypeOK, SlotInv, QueuesSorted
<1>3. CASE running[l]
  <2>1. activeWrite[l] \in Calls /\ pc[activeWrite[l]] \in {"writing", "settled"}
    BY <1>3 DEF SlotInv, SlotsTaken
  <2>2. c = activeWrite[l] \/ \E j \in 1..Len(queue[l]) : c = queue[l][j]
    BY <1>1, <1>2, <1>3, <2>1, ConsProperties DEF LineOf
  <2> QED BY <1>2, <2>1, <2>2 DEF SortedQueue
<1>4. CASE ~ running[l]
  BY <1>1, <1>2, <1>4, LenProperties DEF LineOf, SortedQueue
<1> QED BY <1>3, <1>4

(* runWrite puts a call that stands in no line and has committed nothing at *)
(* the end of one.                                                          *)
LEMMA RunWriteJoins ==
  ASSUME TypeOK, SlotInv, RevisionInv, NEW c \in Calls, NEW k \in Keys, RunWrite(c, k),
         pc[c] \in {"resolving", "checking", "approving"}, UNCHANGED <<result, revision>>
  PROVE  Line!Join(c, k)
<1>1. result[c] = 0 /\ \A l \in Keys : ~ Line!InLine(c, l)
  BY InLineWaits DEF RevisionInv, SettledFirst
<1>2. queue[k] \in Seq(Calls) /\ queue \in [Keys -> Seq(Calls)]
  BY DEF TypeOK
<1>3. \A l \in Keys : LineOf(l)' = IF l = k THEN Append(LineOf(k), c) ELSE LineOf(l)
  <2>1. CASE running[k]
    <3>1. activeWrite[k] \in Calls
      BY <2>1 DEF SlotInv, SlotsTaken
    <3>2. queue' = [queue EXCEPT ![k] = Append(queue[k], c)] /\ UNCHANGED <<running, activeWrite>>
      BY <2>1 DEF RunWrite
    <3>3. <<activeWrite[k]>> \o Append(queue[k], c) = Append(<<activeWrite[k]>> \o queue[k], c)
      BY <1>2, <3>1, ConsAppend
    <3> QED BY <1>2, <2>1, <3>2, <3>3 DEF LineOf
  <2>2. CASE ~ running[k]
    <3>1. ProcessQueue(k, Append(queue[k], c), [pc EXCEPT ![c] = "queued"])
      BY <2>2 DEF RunWrite
    <3>2. Append(queue[k], c) \in Seq(Calls)
      BY <1>2
    <3> QED BY <2>2, <3>1, <3>2, ProcessQueueLines DEF LineOf
  <2> QED BY <2>1, <2>2
<1> QED BY <1>1, <1>3 DEF Line!Join

(* The active write of a key is the head of its line.                       *)
LEMMA HolderHeads ==
  ASSUME TypeOK, SlotInv, NEW c \in Calls, pc[c] \in {"writing", "settled"}
  PROVE  /\ key[c] \in Keys /\ LineOf(key[c]) # <<>>
         /\ Head(LineOf(key[c])) = c /\ Tail(LineOf(key[c])) = queue[key[c]]
<1>1. key[c] \in Keys /\ running[key[c]] /\ activeWrite[key[c]] = c /\ queue[key[c]] \in Seq(Calls)
  BY DEF SlotInv, HoldersActive, TypeOK
<1>2. LineOf(key[c]) = <<c>> \o queue[key[c]]
  BY <1>1 DEF LineOf
<1> QED BY <1>1, <1>2, ConsProperties

(* Every step of the coordinator serves a line or leaves the lines alone.   *)
LEMMA StepServes ==
  ASSUME TypeOK, SlotInv, RevisionInv, [Next]_vars
  PROVE  [Line!Next]_(Line!vars)
<1>1. ASSUME NEW c \in Calls, WriteOk(c) PROVE Line!Next
  <2>1. key[c] \in Keys /\ LineOf(key[c]) # <<>> /\ Head(LineOf(key[c])) = c
    BY <1>1, HolderHeads DEF WriteOk
  <2>2. result[c] = 0
    BY <1>1 DEF WriteOk, RevisionInv, SettledFirst
  <2>3. \A l \in Keys : LineOf(l)' = LineOf(l)
    BY <1>1 DEF WriteOk, LineOf
  <2>4. Line!Commit(key[c])
    BY <1>1, <2>1, <2>2, <2>3 DEF WriteOk, Line!Commit
  <2> QED BY <2>1, <2>4 DEF Line!Next
<1>2. ASSUME NEW c \in Calls, Finally(c) PROVE Line!Next
  <2>1. /\ key[c] \in Keys /\ queue[key[c]] \in Seq(Calls)
        /\ LineOf(key[c]) # <<>> /\ Tail(LineOf(key[c])) = queue[key[c]]
    BY <1>2, HolderHeads DEF Finally, TypeOK
  <2>2. \A l \in Keys : LineOf(l)' = IF l = key[c] THEN Tail(LineOf(l)) ELSE LineOf(l)
    BY <1>2, <2>1, ProcessQueueLines DEF Finally
  <2>3. Line!Leave(key[c])
    BY <1>2, <2>1, <2>2 DEF Finally, Line!Leave
  <2> QED BY <2>1, <2>3 DEF Line!Next
<1>3. ASSUME NEW c \in Calls, NEW k \in Keys, Line!Join(c, k) PROVE Line!Next
  BY <1>3 DEF Line!Next
<1>4. ASSUME NEW c \in Calls, ResolveRestore(c) PROVE Line!Next
  <2>1. WorkbookId(activeDocument) \in Keys
    BY DEF WorkbookId, TypeOK, Keys
  <2> QED BY <1>3, <1>4, <2>1, RunWriteJoins DEF ResolveRestore
<1>5. ASSUME NEW c \in Calls, PassGate(c), pc[c] \in {"checking", "approving"},
             UNCHANGED <<result, revision>>
      PROVE  [Line!Next]_(Line!vars)
  <2>1. key[c] \in Keys
    BY DEF TypeOK
  <2>2. CASE c \in aborted
    BY <1>5, <2>2, LinesStay DEF PassGate
  <2>3. CASE c \notin aborted
    BY <1>3, <1>5, <2>1, <2>3, RunWriteJoins DEF PassGate
  <2> QED BY <2>2, <2>3
<1>6. ASSUME NEW c \in Calls,
             Invoke(c) \/ Resolve(c) \/ ReadEnd(c) \/ CheckSafe(c) \/ Deny(c) \/ WriteFail(c) \/ Notify(c)
      PROVE  UNCHANGED Line!vars
  BY <1>6, LinesStay DEF Invoke, Resolve, ReadEnd, CheckSafe, Deny, WriteFail, Notify, stateVars
<1>7. CASE Surroundings \/ UNCHANGED vars
  BY <1>7, LinesStay
  DEF Surroundings, Abort, SetMode, FirstSave, SwitchWorkbook, vars, callVars, stateVars
<1>8. ASSUME NEW c \in Calls, CheckYolo(c) \/ Approve(c) PROVE [Line!Next]_(Line!vars)
  BY <1>5, <1>8 DEF CheckYolo, Approve
<1> QED BY <1>1, <1>2, <1>4, <1>6, <1>7, <1>8 DEF Next, CallStep

(* The coordinator implements the line of writers: whoever commits heads    *)
(* the line of its key, and the writers leave in the order they came.       *)
THEOREM CoordinatorKeepsLine == Spec => Line!Spec
<1>1. Init => Line!Init
  BY DEF Init, Line!Init, LineOf
<1> QED
  BY <1>1, StepServes, TypeCorrect, SlotsKept, InitRevision, NextRevision, PTL DEF Spec, Line!Spec

-----------------------------------------------------------------------------
(* RuntimeLocks *)

(* A step of the tabs is one of the coordinator, or leaves it alone.        *)
LEMMA TabsStepAsCoordinator == [LNext]_lockVars => [Next]_vars
<1> SUFFICES ASSUME [LNext]_lockVars PROVE [Next]_vars
  OBVIOUS
<1>1. ASSUME NEW s \in Sessions, CloseStep(s) PROVE [Next]_vars
  BY <1>1 DEF CloseStep, RequestClose, ConfirmClose, DeclineClose, FinishClose, AbortAgent,
              Next, Surroundings
<1>2. CASE \E c \in Calls : LCallStep(c)
  BY <1>2 DEF LCallStep, Next
<1>3. CASE LSurroundings
  BY <1>3 DEF LSurroundings, Next
<1>4. ASSUME NEW s \in Sessions, RetryStep(s) PROVE [Next]_vars
  BY <1>4 DEF RetryStep, Overflow, CompactionOver
<1>5. CASE UNCHANGED lockVars
  BY <1>5 DEF lockVars
<1> QED BY <1>1, <1>2, <1>3, <1>4, <1>5 DEF LNext

(* The coordinator under the tabs is the coordinator: what is proved of it  *)
(* holds whatever the tabs do.                                              *)
THEOREM TabsImplementCoordinator == LSpec => Spec
<1>1. LInit => Init
  BY DEF LInit
<1> QED BY <1>1, TabsStepAsCoordinator, PTL DEF LSpec, Spec

LEMMA CoordinatorInvariants == LSpec => [](TypeOK /\ SlotInv)
  BY TabsImplementCoordinator, TypeCorrect, SlotsKept, PTL

-----------------------------------------------------------------------------
(* Type correctness *)

LEMMA PaintType ==
  ASSUME LTypeOK, pc' \in [Calls -> PCs], PaintLocks
  PROVE  lockState' \in [Sessions -> LockStates]
<1> SUFFICES ASSUME NEW s \in Sessions PROVE lockState'[s] \in LockStates
  BY DEF PaintLocks
<1>1. CASE s \in Open /\ \E c \in Calls : SessionOf[c] = s /\ EventAbout(c)
  <2> DEFINE e == CHOOSE c \in Calls : SessionOf[c] = s /\ EventAbout(c)
  <2>1. e \in Calls /\ EventAbout(e)
    BY <1>1
  <2>2. lockState'[s] = LockFor(pc'[e])
    BY <1>1 DEF PaintLocks
  <2> HIDE DEF e
  <2> QED BY <2>1, <2>2 DEF EventAbout, LockFor, LockStates
<1>2. CASE ~ (s \in Open /\ \E c \in Calls : SessionOf[c] = s /\ EventAbout(c))
  <2>1. lockState'[s] = lockState[s]
    BY <1>2 DEF PaintLocks
  <2> QED BY <2>1 DEF LTypeOK
<1> QED BY <1>1, <1>2

(* The manager keeps the last tab.                                          *)
LEMMA LastTabStays ==
  ASSUME LTypeOK, NEW s \in Sessions, CloseStep(s)
  PROVE  Open' # {}
<1>1. CASE tab'[s] = "closed" /\ tab[s] # "closed"
  <2>1. Cardinality(Open) > 1 /\ tab' = [tab EXCEPT ![s] = "closed"]
    <3>1. FinishClose(s)
      BY <1>1 DEF CloseStep, RequestClose, ConfirmClose, DeclineClose, LTypeOK
    <3> QED BY <1>1, <3>1 DEF FinishClose, LTypeOK
  <2>2. Open # {s}
    <3>1. Cardinality({s}) = 1
      BY FS_Singleton, Zenon
    <3>2. ~ (1 > 1)
      OBVIOUS
    <3> QED BY <2>1, <3>1, <3>2, Zenon
  <2>3. s \in Open
    BY <1>1 DEF Open
  <2>4. PICK r \in Open : r # s
    BY <2>2, <2>3
  <2> QED BY <2>1, <2>4 DEF Open, LTypeOK
<1>2. CASE ~(tab'[s] = "closed" /\ tab[s] # "closed")
  <2>1. \A r \in Sessions \ {s} : tab'[r] = tab[r]
    BY DEF CloseStep, RequestClose, ConfirmClose, DeclineClose, FinishClose, LTypeOK
  <2>2. Open \subseteq Open'
    BY <1>2, <2>1 DEF Open
  <2> QED BY <2>2 DEF LTypeOK
<1> QED BY <1>1, <1>2

LEMMA TabsStepType == LTypeOK /\ [LNext]_lockVars => LTypeOK'
<1> SUFFICES ASSUME LTypeOK, [LNext]_lockVars PROVE LTypeOK'
  OBVIOUS
<1>1. TypeOK'
  BY TabsStepAsCoordinator, NextType DEF LTypeOK
<1>2. ASSUME NEW c \in Calls, LCallStep(c) PROVE LTypeOK'
  <2>1. lockState' \in [Sessions -> LockStates]
    BY <1>1, <1>2, PaintType DEF LCallStep, TypeOK
  <2>2. madeClosed' \subseteq Calls /\ UNCHANGED <<tab, retry>>
    BY <1>2 DEF LCallStep, LTypeOK
  <2> QED BY <1>1, <2>1, <2>2 DEF LTypeOK, Open
<1>3. ASSUME NEW s \in Sessions, CloseStep(s) PROVE LTypeOK'
  <2>1. tab' \in [Sessions -> TabStates] /\ UNCHANGED <<lockState, retry, madeClosed>>
    BY <1>3 DEF CloseStep, RequestClose, ConfirmClose, DeclineClose, FinishClose, LTypeOK, TabStates
  <2> QED BY <1>1, <1>3, <2>1, LastTabStays DEF LTypeOK
<1>4. ASSUME NEW s \in Sessions, RetryStep(s) PROVE LTypeOK'
  <2>1. retry' \in [Sessions -> RetryStates] /\ UNCHANGED <<lockState, tab, madeClosed>>
    BY <1>4 DEF RetryStep, Overflow, CompactionOver, LTypeOK, RetryStates
  <2> QED BY <1>1, <2>1 DEF LTypeOK, Open
<1>5. CASE UNCHANGED tabVars
  BY <1>1, <1>5 DEF LTypeOK, Open, tabVars
<1> QED BY <1>2, <1>3, <1>4, <1>5 DEF LNext, LSurroundings, lockVars

(* Every variable of the coordinator and of the tabs keeps its type, and    *)
(* some tab stays open whatever is closed (closeRuntime).                   *)
THEOREM LocksTypesHold == LSpec => []LTypeOK
<1>1. LInit => LTypeOK
  BY InitType, LocksAssumption DEF LInit, LTypeOK, LockStates, TabStates, RetryStates, Open
<1> QED BY <1>1, TabsStepType, PTL DEF LSpec

-----------------------------------------------------------------------------
(* How calls move under the tabs *)

Flying(c) == pc[c] \notin Settled \cup {"new"}

(* A call is made when its session may, and noted when its tab is closed;   *)
(* the others move as in the coordinator and stay aborted once they are.    *)
MovesUnderTabs ==
  \A c \in Calls :
    /\ c \in aborted => c \in aborted'
    /\ c \in madeClosed => c \in madeClosed'
    /\ Flying(c)' =>
         \/ Flying(c)
         \/ pc[c] = "new" /\ MayCall(c) /\ UNCHANGED tab /\ (SessionOf[c] \in Open \/ c \in madeClosed')
    /\ pc[c] # "writing" /\ pc'[c] = "writing" => Flying(c) /\ c \notin aborted

LEMMA CallsMoveUnderTabs ==
  ASSUME TypeOK, SlotInv, [LNext]_lockVars
  PROVE  MovesUnderTabs
<1>1. ASSUME NEW c \in Calls, LCallStep(c) PROVE MovesUnderTabs
  <2>1. OwnMove(c) /\ OthersMove(c) /\ UNCHANGED <<aborted, tab>> /\ (pc[c] = "new" => MayCall(c))
    BY <1>1, CallMoves DEF LCallStep
  <2>2. /\ madeClosed \subseteq madeClosed'
        /\ pc[c] = "new" => SessionOf[c] \in Open \/ c \in madeClosed'
    BY <1>1 DEF LCallStep
  <2> QED BY <2>1, <2>2 DEF OwnMove, OthersMove, MovesUnderTabs, Flying, Settled
<1>2. CASE UNCHANGED <<pc, madeClosed>> /\ aborted \subseteq aborted'
  BY <1>2 DEF MovesUnderTabs, Flying
<1>3. ASSUME NEW s \in Sessions, CloseStep(s) PROVE MovesUnderTabs
  BY <1>2, <1>3 DEF CloseStep, RequestClose, ConfirmClose, DeclineClose, FinishClose, AbortAgent, Abort,
                    vars, callVars
<1>4. CASE LSurroundings
  BY <1>2, <1>4 DEF LSurroundings, Surroundings, Abort, SetMode, FirstSave, SwitchWorkbook, callVars, tabVars
<1>5. ASSUME NEW s \in Sessions, RetryStep(s) PROVE MovesUnderTabs
  BY <1>2, <1>5 DEF RetryStep, Overflow, CompactionOver, vars, callVars
<1>6. CASE UNCHANGED lockVars
  BY <1>2, <1>6 DEF lockVars, vars, callVars, tabVars
<1> QED BY <1>1, <1>3, <1>4, <1>5, <1>6 DEF LNext

-----------------------------------------------------------------------------
(* Closed tabs *)

(* The calls a closed tab left under way are aborted: those its agent made  *)
(* before the close.                                                        *)
ClosedAborted ==
  \A c \in Calls \ (Restores \cup madeClosed) : SessionOf[c] \notin Open /\ Flying(c) => c \in aborted

(* A tab that closes in a step aborts what it has under way.                *)
LEMMA CloseAborts ==
  ASSUME LTypeOK, [LNext]_lockVars, NEW s \in Open, s \notin Open'
  PROVE  UNCHANGED pc /\ \A c \in InFlight(s) : c \in aborted'
<1>1. PICK r \in Sessions : FinishClose(r) /\ tab' = [tab EXCEPT ![r] = "closed"] /\ AbortAgent(r)
  <2>1. tab' # tab
    BY DEF Open, LTypeOK
  <2>2. PICK r \in Sessions : CloseStep(r)
    BY <2>1 DEF LNext, LCallStep, LSurroundings, RetryStep, Overflow, CompactionOver, lockVars, tabVars
  <2>3. FinishClose(r) /\ tab' = [tab EXCEPT ![r] = "closed"]
    BY <2>2 DEF CloseStep, RequestClose, ConfirmClose, DeclineClose, FinishClose, Open, LTypeOK
  <2> QED BY <2>3 DEF FinishClose, LTypeOK
<1>2. r = s
  BY <1>1 DEF Open, LTypeOK
<1> QED BY <1>1, <1>2 DEF AbortAgent, Abort, vars, callVars

LEMMA NextClosed == LTypeOK /\ SlotInv /\ ClosedAborted /\ [LNext]_lockVars => ClosedAborted'
<1> SUFFICES ASSUME LTypeOK, SlotInv, ClosedAborted, [LNext]_lockVars,
                    NEW c \in Calls \ (Restores \cup madeClosed'), SessionOf[c] \notin Open', Flying(c)'
             PROVE  c \in aborted'
  BY DEF ClosedAborted
<1>1. MovesUnderTabs
  BY CallsMoveUnderTabs DEF LTypeOK
<1>2. CASE SessionOf[c] \notin Open
  BY <1>1, <1>2 DEF MovesUnderTabs, ClosedAborted
<1>3. CASE SessionOf[c] \in Open
  <2>1. UNCHANGED pc /\ \A d \in InFlight(SessionOf[c]) : d \in aborted'
    BY <1>3, CloseAborts
  <2> QED BY <2>1 DEF InFlight, Flying
<1> QED BY <1>2, <1>3

(* A write that a closed tab left under way never starts; only the calls    *)
(* of an agent that an overflow set going again after the close may write   *)
(* (closeRuntimeWithRecovery, recoverFromContextOverflow).                  *)
THEOREM ClosesLeaveNoWrite == LSpec => CloseLeavesNoWrite
<1> DEFINE Start == \A c \in Calls \ (Restores \cup madeClosed) :
                      (pc[c] # "writing" /\ pc'[c] = "writing") => SessionOf[c] \in Open
<1>1. LInit => ClosedAborted
  BY DEF LInit, Init, ClosedAborted, Flying
<1>2. LTypeOK /\ SlotInv /\ ClosedAborted /\ [LNext]_lockVars => [Start]_lockVars
  <2> SUFFICES ASSUME LTypeOK, SlotInv, ClosedAborted, [LNext]_lockVars PROVE Start
    OBVIOUS
  <2>1. MovesUnderTabs
    BY CallsMoveUnderTabs DEF LTypeOK
  <2> QED BY <2>1 DEF MovesUnderTabs, ClosedAborted
<1> QED
  BY <1>1, <1>2, NextClosed, LocksTypesHold, CoordinatorInvariants, PTL DEF LSpec, CloseLeavesNoWrite
-----------------------------------------------------------------------------
(* What the tabs show *)

(* An orderly session has one call under way at most.                       *)
OneFlies ==
  \A c, d \in Calls :
    SessionOf[c] = SessionOf[d] /\ SessionOf[c] \in Orderly /\ Flying(c) /\ Flying(d) => c = d

LEMMA NextFlies == TypeOK /\ SlotInv /\ OneFlies /\ [LNext]_lockVars => OneFlies'
<1> SUFFICES ASSUME TypeOK, SlotInv, OneFlies, [LNext]_lockVars,
                    NEW c \in Calls, NEW d \in Calls, SessionOf[c] = SessionOf[d],
                    SessionOf[c] \in Orderly, Flying(c)', Flying(d)', c # d
             PROVE  FALSE
  BY DEF OneFlies, Orderly
<1>1. c \notin Restores /\ d \notin Restores /\ SessionOf[c] \in OneCallAtATime
  BY CoordinatorAssumption DEF Orderly
<1>2. MovesUnderTabs
  BY CallsMoveUnderTabs
<1>3. CASE Flying(c) /\ Flying(d)
  BY <1>3 DEF OneFlies
<1>4. ASSUME NEW a \in Calls \ Restores, NEW b \in Calls \ Restores, a # b,
             SessionOf[a] = SessionOf[b], SessionOf[a] \in OneCallAtATime,
             pc[a] = "new", Flying(a)', Flying(b)'
      PROVE  FALSE
  <2>1. MayCall(a)
    BY <1>2, <1>4 DEF MovesUnderTabs, Flying
  <2>2. ~ Flying(b)
    BY <1>4, <2>1 DEF MayCall, InFlight, Flying
  <2>3. pc[b] = "new"
    BY <1>2, <1>4, <2>2 DEF MovesUnderTabs
  <2>4. pc'[a] # "new" /\ pc'[b] # "new"
    BY <1>4 DEF Flying
  <2>5. PICK e \in Calls : LCallStep(e)
    BY <1>4, <2>3, <2>4 DEF LNext, LSurroundings, Surroundings, CloseStep, RequestClose, ConfirmClose,
          DeclineClose, FinishClose, AbortAgent, Abort, SetMode, FirstSave, SwitchWorkbook,
          RetryStep, Overflow, CompactionOver, lockVars, vars, callVars
  <2>6. OthersMove(e)
    BY <2>5, CallMoves DEF LCallStep
  <2> QED BY <1>4, <2>3, <2>4, <2>6 DEF OthersMove
<1> QED BY <1>1, <1>2, <1>3, <1>4 DEF MovesUnderTabs

(* What the tab of an orderly session has to show.                          *)
Shown(s) ==
  IF CallsAt(s, "writing") # {} THEN "holding_lock"
  ELSE IF CallsAt(s, "queued") # {} THEN "waiting_for_lock"
  ELSE "idle"

(* A call reaches and leaves the queue and the write only with an event.    *)
LEMMA EventsTell ==
  ASSUME TypeOK, SlotInv, NEW c \in Calls, LCallStep(c), NEW d \in Calls, ~ EventAbout(d)
  PROVE  \A p \in {"queued", "writing"} : pc'[d] = p <=> pc[d] = p
<1>1. OwnMove(c) /\ OthersMove(c)
  BY CallMoves DEF LCallStep
<1> QED BY <1>1 DEF OwnMove, OthersMove, EventAbout

LEMMA NextShown ==
  LTypeOK /\ SlotInv /\ OneFlies /\ LockStateExact /\ [LNext]_lockVars => LockStateExact'
<1> SUFFICES ASSUME LTypeOK, SlotInv, OneFlies, LockStateExact, [LNext]_lockVars,
                    NEW s \in Open' \cap Orderly
             PROVE  lockState'[s] = Shown(s)'
  BY DEF LockStateExact, Shown, Orderly
<1>1. s \in Open /\ s \in Sessions
  BY DEF Open, LTypeOK, LNext, LCallStep, LSurroundings, CloseStep, RequestClose, ConfirmClose,
         DeclineClose, FinishClose, RetryStep, Overflow, CompactionOver, lockVars, tabVars
<1>2. lockState[s] = Shown(s)
  BY <1>1 DEF LockStateExact, Shown
<1>3. ASSUME NEW c \in Calls, LCallStep(c) PROVE lockState'[s] = Shown(s)'
  <2>1. CASE \E d \in Calls : SessionOf[d] = s /\ EventAbout(d)
    <3> DEFINE e == CHOOSE d \in Calls : SessionOf[d] = s /\ EventAbout(d)
    <3>1. e \in Calls /\ SessionOf[e] = s /\ EventAbout(e)
      BY <2>1
    <3>2. lockState'[s] = LockFor(pc'[e])
      BY <1>1, <1>3, <2>1 DEF LCallStep, PaintLocks
    <3> HIDE DEF e
    <3>3. OneFlies'
      BY NextFlies DEF LTypeOK
    <3>4. \A d \in Calls : SessionOf[d] = s /\ pc'[d] \in {"queued", "writing"} => d = e
      BY <3>1, <3>3 DEF OneFlies, Orderly, Flying, Settled, EventAbout
    <3>5. CASE pc'[e] = "queued"
      BY <3>1, <3>2, <3>4, <3>5 DEF LockFor, Shown, CallsAt
    <3>6. CASE pc'[e] = "writing"
      BY <3>1, <3>2, <3>4, <3>6 DEF LockFor, Shown, CallsAt
    <3>7. CASE pc'[e] = "settled"
      BY <3>1, <3>2, <3>4, <3>7 DEF LockFor, Shown, CallsAt
    <3> QED BY <3>1, <3>5, <3>6, <3>7 DEF EventAbout
  <2>2. CASE ~ \E d \in Calls : SessionOf[d] = s /\ EventAbout(d)
    <3>1. lockState'[s] = lockState[s]
      BY <1>1, <1>3, <2>2 DEF LCallStep, PaintLocks
    <3>2. \A d \in Calls, p \in {"queued", "writing"} : SessionOf[d] = s => (pc'[d] = p <=> pc[d] = p)
      BY <1>3, <2>2, EventsTell DEF LTypeOK
    <3>3. CallsAt(s, "queued")' = CallsAt(s, "queued") /\ CallsAt(s, "writing")' = CallsAt(s, "writing")
      BY <3>2 DEF CallsAt
    <3> QED BY <1>2, <3>1, <3>3 DEF Shown
  <2> QED BY <2>1, <2>2
<1>4. CASE UNCHANGED <<pc, lockState>>
  BY <1>2, <1>4 DEF Shown, CallsAt
<1>5. CASE LSurroundings \/ (\E r \in Sessions : CloseStep(r) \/ RetryStep(r)) \/ UNCHANGED lockVars
  BY <1>4, <1>5 DEF LSurroundings, Surroundings, CloseStep, RequestClose, ConfirmClose, DeclineClose,
        FinishClose, AbortAgent, Abort, SetMode, FirstSave, SwitchWorkbook, RetryStep, Overflow,
        CompactionOver, lockVars, tabVars, vars, callVars
<1> QED BY <1>3, <1>5 DEF LNext

(* The tab of a session with one call at a time shows what the coordinator  *)
(* does for it.                                                             *)
THEOREM LocksExact == LSpec => []LockStateExact
<1>1. LInit => OneFlies /\ LockStateExact
  BY DEF LInit, Init, OneFlies, Flying, LockStateExact, CallsAt, Orderly, Open
<1> QED
  BY <1>1, NextFlies, NextShown, LocksTypesHold, CoordinatorInvariants, PTL DEF LSpec

-----------------------------------------------------------------------------
(* Connections *)

\* The document of a change that is not overtaken is the stored one, but for its
\* own record.
OthersAsStored ==
  \A o \in Changes :
    pending[o] # NoChange /\ ~pending[o].overtaken
    => \A c \in Conns \ {pending[o].conn} : pending[o].items[c] = stored[c]

\* The mark of a refused secret is an error.
FailuresAreErrors ==
  \A o \in Changes :
    pending[o] # NoChange /\ pending[o].failure => pending[o].items[pending[o].conn].status = "error"

\* The record of a refused connection is an error, unless it was rewritten.
RefusedAreErrors == \A c \in refused \ undone : stored[c].status = "error"

ConnInv == ConnTypeOK /\ OthersAsStored /\ FailuresAreErrors /\ RefusedAreErrors

\* A mutation of a record yields records; a failure yields an error.
LEMMA MutationsAreRecords ==
  ASSUME NEW kind \in Kinds, NEW r \in Records, NEW s \in Mutations(kind, r)
  PROVE  s \in Records /\ (kind = "failure" => s.status = "error")
<1>0. NoRecord \in Records /\ [status |-> "connected", secret |-> TRUE] \in Records
  BY DEF Records, Statuses, NoRecord
<1>1. CASE kind = "set"
  <2>1. s \in {[status |-> "connected", secret |-> TRUE], NoRecord}
    BY <1>1 DEF Mutations
  <2> QED BY <1>0, <1>1, <2>1
<1>2. CASE kind = "clear"
  <2>1. s = NoRecord
    BY <1>2 DEF Mutations
  <2> QED BY <1>0, <1>2, <2>1
<1>3. CASE kind = "validated"
  <2>1. s = [r EXCEPT !.status = IF r.secret THEN "connected" ELSE "missing"]
    BY <1>3 DEF Mutations
  <2> QED BY <1>3, <2>1 DEF Records, Statuses
<1>4. CASE kind = "invalid"
  <2>1. s = [r EXCEPT !.status = "invalid"]
    BY <1>4 DEF Mutations
  <2> QED BY <1>4, <2>1 DEF Records, Statuses
<1>5. CASE kind = "failure"
  <2>1. s = [r EXCEPT !.status = "error"]
    BY <1>5 DEF Mutations
  <2> QED BY <1>5, <2>1 DEF Records, Statuses
<1> QED BY <1>1, <1>2, <1>3, <1>4, <1>5 DEF Kinds

\* What a change has after its load: the stored document but for its record.
LEMMA LoadedHoldsStored ==
  ASSUME ConnInv, NEW o \in Changes, NEW kind \in Kinds, NEW c \in Conns,
         Loaded(o, kind, c, stored), UNCHANGED <<stored, refused, undone>>
  PROVE  /\ pending' \in [Changes -> Pendings \cup {NoChange}]
         /\ OthersAsStored' /\ FailuresAreErrors' /\ RefusedAreErrors'
<1> USE DEF ConnInv
<1>1. PICK r \in Mutations(kind, stored[c]) :
        pending' = [pending EXCEPT ![o] = [failure |-> kind = "failure", conn |-> c,
                      items |-> [stored EXCEPT ![c] = r], overtaken |-> FALSE]]
  BY DEF Loaded
<1>2. stored \in StoreDocuments /\ stored[c] \in Records
  BY DEF ConnTypeOK, StoreDocuments
<1>3. r \in Records /\ (kind = "failure" => r.status = "error")
  BY <1>2, MutationsAreRecords
<1>4. [stored EXCEPT ![c] = r] \in StoreDocuments
  BY <1>2, <1>3 DEF StoreDocuments
<1> DEFINE p == [failure |-> kind = "failure", conn |-> c, items |-> [stored EXCEPT ![c] = r], overtaken |-> FALSE]
<1>5. p \in Pendings
  BY <1>4 DEF Pendings
<1>6. pending' = [pending EXCEPT ![o] = p] /\ pending \in [Changes -> Pendings \cup {NoChange}]
  BY <1>1 DEF ConnTypeOK
<1>7. \A q \in Changes : pending'[q] = IF q = o THEN p ELSE pending[q]
  BY <1>6
<1>8. p.conn = c /\ p.items = [stored EXCEPT ![c] = r] /\ (p.failure => r.status = "error")
  BY <1>3
<1> HIDE DEF p
<1>9. OthersAsStored'
  <2> SUFFICES ASSUME NEW q \in Changes, pending'[q] # NoChange, ~pending'[q].overtaken,
                      NEW d \in Conns \ {pending'[q].conn}
               PROVE  pending'[q].items[d] = stored'[d]
    BY DEF OthersAsStored
  <2>1. CASE q = o
    BY <2>1, <1>7, <1>8, <1>2 DEF StoreDocuments
  <2>2. CASE q # o
    BY <2>2, <1>7 DEF OthersAsStored
  <2> QED BY <2>1, <2>2
<1>10. FailuresAreErrors'
  <2> SUFFICES ASSUME NEW q \in Changes, pending'[q] # NoChange, pending'[q].failure
               PROVE  pending'[q].items[pending'[q].conn].status = "error"
    BY DEF FailuresAreErrors
  <2>1. CASE q = o
    BY <2>1, <1>7, <1>8, <1>2 DEF StoreDocuments
  <2>2. CASE q # o
    BY <2>2, <1>7 DEF FailuresAreErrors
  <2> QED BY <2>1, <2>2
<1>11. RefusedAreErrors'
  BY DEF RefusedAreErrors
<1> QED BY <1>5, <1>6, <1>9, <1>10, <1>11

\* A save makes the document of its change the stored one; every other change
\* is overtaken.
LEMMA SaveKeepsInv ==
  ASSUME ConnInv, NEW o \in Changes, Save(o)
  PROVE  ConnInv'
<1> USE DEF ConnInv
<1> DEFINE c == pending[o].conn
<1>1. pending[o] \in Pendings /\ pending \in [Changes -> Pendings \cup {NoChange}]
  BY DEF Save, ConnTypeOK
<1>2. c \in Conns /\ pending[o].items \in StoreDocuments
  BY <1>1 DEF Pendings
<1>3. \A q \in Changes : pending'[q] = NoChange
                         \/ /\ pending[q] \in Pendings /\ pending[q] # NoChange
                            /\ pending'[q] = [pending[q] EXCEPT !.overtaken = TRUE]
  BY <1>1 DEF Save
<1>4. \A q \in Changes : pending[q] \in Pendings =>
        /\ [pending[q] EXCEPT !.overtaken = TRUE] \in Pendings
        /\ [pending[q] EXCEPT !.overtaken = TRUE].overtaken
        /\ [pending[q] EXCEPT !.overtaken = TRUE].failure = pending[q].failure
        /\ [pending[q] EXCEPT !.overtaken = TRUE].conn = pending[q].conn
        /\ [pending[q] EXCEPT !.overtaken = TRUE].items = pending[q].items
  BY DEF Pendings
<1>5. pending' \in [Changes -> Pendings \cup {NoChange}]
  BY <1>1, <1>4 DEF Save
<1>6. /\ stored' = pending[o].items
      /\ undone' = (undone \ {c}) \cup {d \in Conns \ {c} : stored'[d] # stored[d]}
      /\ refused' = IF pending[o].failure THEN refused \cup {c} ELSE refused \ {c}
  BY DEF Save
<1>7. ConnTypeOK'
  BY <1>2, <1>5, <1>6 DEF ConnTypeOK, Save
<1>8. OthersAsStored'
  BY <1>3, <1>4 DEF OthersAsStored
<1>9. FailuresAreErrors'
  <2> SUFFICES ASSUME NEW q \in Changes, pending'[q] # NoChange, pending'[q].failure
               PROVE  pending'[q].items[pending'[q].conn].status = "error"
    BY DEF FailuresAreErrors
  <2>1. pending[q] \in Pendings /\ pending[q] # NoChange /\ pending'[q] = [pending[q] EXCEPT !.overtaken = TRUE]
    BY <1>3
  <2>2. /\ pending'[q].failure = pending[q].failure /\ pending'[q].conn = pending[q].conn
        /\ pending'[q].items = pending[q].items
    BY <2>1, <1>4
  <2> QED BY <2>1, <2>2 DEF FailuresAreErrors
<1>10. RefusedAreErrors'
  <2> SUFFICES ASSUME NEW d \in refused' \ undone' PROVE stored'[d].status = "error"
    BY DEF RefusedAreErrors
  <2>1. CASE d = c
    BY <2>1, <1>6 DEF FailuresAreErrors, Save
  <2>2. CASE d # c
    <3>1. d \in refused \ undone /\ d \in Conns
      BY <2>2, <1>6 DEF ConnTypeOK
    <3>2. stored'[d] = stored[d]
      BY <2>2, <3>1, <1>6
    <3> QED BY <3>1, <3>2 DEF RefusedAreErrors
  <2> QED BY <2>1, <2>2
<1> QED BY <1>7, <1>8, <1>9, <1>10

\* A step that touches neither the records nor the changes.
LEMMA OtherStepsKeepInv ==
  ASSUME ConnInv, ConnTypeOK', UNCHANGED <<stored, pending, refused, undone>>
  PROVE  ConnInv'
  BY DEF ConnInv, OthersAsStored, FailuresAreErrors, RefusedAreErrors

\* The records and the changes hold together from the start.
LEMMA InitEstablishesInv == ConnInit => ConnInv
<1> SUFFICES ASSUME ConnInit PROVE ConnInv
  OBVIOUS
<1>1. NoRecord \in Records
  BY DEF NoRecord, Records, Statuses
<1>2. ConnTypeOK
  BY <1>1 DEF ConnInit, ConnTypeOK, StoreDocuments
<1> QED BY <1>2 DEF ConnInit, ConnInv, OthersAsStored, FailuresAreErrors, RefusedAreErrors

\* Every step keeps the invariant.
LEMMA StepKeepsInv == ConnInv /\ [ConnNext]_connVars => ConnInv'
<1> SUFFICES ASSUME ConnInv, [ConnNext]_connVars PROVE ConnInv'
  OBVIOUS
<1> USE DEF ConnInv
<1>1. CASE \E c \in Conns : Register(c) \/ Unregister(c) \/ Preflight(c)
  <2>1. ConnTypeOK' /\ UNCHANGED <<stored, pending, refused, undone>>
    BY <1>1 DEF ConnTypeOK, Register, Unregister, Preflight
  <2> QED BY <2>1, OtherStepsKeepInv
<1>2. CASE CallTool \/ ToolEnds
  <2>1. ConnTypeOK' /\ UNCHANGED <<stored, pending, refused, undone>>
    BY <1>2 DEF ConnTypeOK, CallTool, ToolEnds
  <2> QED BY <2>1, OtherStepsKeepInv
<1>3. ASSUME NEW o \in Changes, Change(o) PROVE ConnInv'
  <2>1. PICK c \in Conns, kind \in Kinds : Loaded(o, kind, c, stored)
    BY <1>3 DEF Change, ConnTypeOK
  <2>2. UNCHANGED <<stored, refused, undone, defined, call, checked>>
    BY <1>3 DEF Change
  <2> QED BY <2>1, <2>2, LoadedHoldsStored DEF ConnTypeOK
<1>4. ASSUME NEW o \in Changes, Save(o) PROVE ConnInv'
  BY <1>4, SaveKeepsInv
<1>5. ASSUME NEW o \in Changes, ChangeFails(o) PROVE ConnInv'
  BY <1>5 DEF ChangeFails, ConnTypeOK, OthersAsStored, FailuresAreErrors, RefusedAreErrors
<1>6. ASSUME NEW o \in Changes, Mark(o) PROVE ConnInv'
  <2>1. UNCHANGED <<stored, refused, undone, defined>> /\ call' = "off" /\ checked' = {}
    BY <1>6 DEF Mark
  <2>2. PICK c \in checked : IF c \in defined THEN Loaded(o, "failure", c, stored) ELSE UNCHANGED pending
    BY <1>6 DEF Mark
  <2>3. CASE c \in defined
    BY <2>1, <2>2, <2>3, LoadedHoldsStored DEF ConnTypeOK, Kinds
  <2>4. CASE c \notin defined
    BY <2>1, <2>2, <2>4, OtherStepsKeepInv DEF ConnTypeOK
  <2> QED BY <2>3, <2>4
<1>7. CASE UNCHANGED connVars
  BY <1>7, OtherStepsKeepInv DEF connVars, ConnTypeOK
<1> QED BY <1>1, <1>2, <1>3, <1>4, <1>5, <1>6, <1>7 DEF ConnNext

\* The invariant holds throughout.
THEOREM ConnInvHolds == ConnSpec => []ConnInv
  BY InitEstablishesInv, StepKeepsInv, PTL DEF ConnSpec

\* Every variable keeps its type (connections/manager.ts).
THEOREM ConnTypesHold == ConnSpec => []ConnTypeOK
<1>1. ConnInv => ConnTypeOK
  BY DEF ConnInv
<1> QED BY <1>1, ConnInvHolds, PTL

\* A refused connection stays off limits until its record is rewritten
\* (markRuntimeAuthFailure, resolveEffectiveStatus).
THEOREM RefusedHolds == ConnSpec => []RefusedStaysOff
<1>1. ConnInv => RefusedStaysOff
  <2> SUFFICES ASSUME ConnInv, NEW c \in refused \ undone PROVE Effective(stored[c]) # "connected"
    BY DEF RefusedStaysOff
  <2> QED BY DEF ConnInv, RefusedAreErrors, Effective
<1> QED BY <1>1, ConnInvHolds, PTL

\* A change that is not overtaken touches its own record only
\* (mutateConnectionRecord).
THEOREM OwnRecordHolds == ConnSpec => OwnRecordOnly
<1> DEFINE Own ==
      \A o \in Changes :
        /\ pending[o] # NoChange /\ pending'[o] = NoChange /\ ~pending[o].overtaken
        => \A c \in Conns \ {pending[o].conn} : stored'[c] = stored[c]
<1>1. ConnInv /\ [ConnNext]_connVars => [Own]_connVars
  <2> SUFFICES ASSUME ConnInv, ConnNext, NEW o \in Changes,
                      pending[o] # NoChange, pending'[o] = NoChange, ~pending[o].overtaken,
                      NEW c \in Conns \ {pending[o].conn}
               PROVE  stored'[c] = stored[c]
    OBVIOUS
  <2>1. CASE UNCHANGED stored
    BY <2>1
  <2>2. ASSUME NEW p \in Changes, Save(p) PROVE stored'[c] = stored[c]
    <3>1. CASE p = o
      BY <3>1, <2>2 DEF ConnInv, OthersAsStored, Save
    <3>2. CASE p # o
      <4>1. pending[o] \in Pendings
        BY DEF ConnInv, ConnTypeOK
      <4>2. [pending[o] EXCEPT !.overtaken = TRUE] \in Pendings
        BY <4>1 DEF Pendings
      <4>3. pending'[o] = [pending[o] EXCEPT !.overtaken = TRUE]
        BY <3>2, <2>2 DEF Save
      <4> QED BY <4>2, <4>3, ConnAssumption
    <3> QED BY <3>1, <3>2
  <2>3. UNCHANGED stored \/ \E p \in Changes : Save(p)
    BY DEF ConnNext, Register, Unregister, Preflight, CallTool, ToolEnds, Change, ChangeFails, Mark
  <2> QED BY <2>1, <2>2, <2>3
<1> QED BY <1>1, ConnInvHolds, PTL DEF ConnSpec, OwnRecordOnly
==================================================================================
