--------------------------- MODULE SessionTabsProofs ---------------------------
(***************************************************************************)
(* The tabs and their sessions, for any number of tabs, requests, messages *)
(* and reloads, and any lengths of the strip, the stack of closed tabs and *)
(* the queue of layouts.                                                   *)
(*                                                                         *)
(* A save writes the whole conversation of a tab under its session, so     *)
(* whoever saves must have all that is stored.  SessionsInv says who may   *)
(* still save or will show a session: the tabs of it, a call that has read *)
(* it for a tab (its copy is still what the store has), and a call that    *)
(* asks the user about a tab another call has closed meanwhile.  A session *)
(* has one such holder, or it is marked as shared.  A close that has saved *)
(* and waits for the answer is the last part: what it promised to keep     *)
(* stays stored, whoever has the session next.                             *)
(***************************************************************************)
EXTENDS SessionTabs, ListTheorems

(* ---- 1. Types ---------------------------------------------------------- *)

Layouts == {l \in [sessions : Seq(Sessions), active : Sessions] : l.active \in ToSet(l.sessions)}

StripTypes ==
  /\ created \in Runtimes /\ order \in Seq(1..created) /\ order # <<>> /\ IsInjective(order)
  /\ active \in Opened(order)

Unmade == Runtimes \ (1..created)

(* A runtime that is not made yet has nothing, and nobody has its session.  *)
RuntimeTypes ==
  /\ session \in [Runtimes -> Sessions]
  /\ \A r \in 1..created : session[r] \in 1..created
  /\ \A r \in Unmade : session[r] = r /\ chat[r] = {} /\ disk[r] = {}
  /\ streaming \subseteq Opened(order) /\ answered \subseteq 1..created
  /\ stored \subseteq 1..created
  /\ recentlyClosed \in Seq(1..created) /\ Len(recentlyClosed) <= MaxClosed

Said == {m \in Messages : m[2] <= sent}

MessageTypes ==
  /\ sent \in 0..MaxMessages
  /\ chat \in [Runtimes -> SUBSET Said] /\ disk \in [Sessions -> SUBSET Said]
  /\ data \in [Calls -> SUBSET Said]

CallTypes ==
  /\ pc \in [Calls -> {"new", "confirming", "saving", "linking", "creating", "done"} \cup Loading]
  /\ todo \in [Calls -> Seq(1..created)] /\ item \in [Calls -> 1..created \cup {None}]
  /\ \A c \in Calls : pc[c] \in {"confirming", "saving"} => todo[c] # <<>>
  /\ \A c \in Calls : pc[c] \in Loading \cup {"creating"} => item[c] # None

LayoutTypes ==
  /\ pending \in Seq(Layouts) /\ layout \in Layouts
  /\ reloads \in 0..MaxReloads /\ shared \subseteq Sessions

TabsTypes == StripTypes /\ RuntimeTypes /\ MessageTypes /\ CallTypes /\ LayoutTypes

(* The strip after a close. *)
LEMMA StripAfterIs ==
  ASSUME StripTypes, NEW r \in Opened(order), Len(order) > 1
  PROVE  /\ StripAfter(r) \in Seq(1..created) /\ StripAfter(r) # <<>>
         /\ IsInjective(StripAfter(r))
         /\ Opened(StripAfter(r)) = Opened(order) \ {r}
         /\ FrontAfter(r) \in Opened(StripAfter(r))
<1> DEFINE s == StripAfter(r)
<1>1. \E j \in DOMAIN order : order[j] = r
  BY DEF Opened, ToSet
<1>2. Place(r) \in DOMAIN order /\ order[Place(r)] = r
  BY <1>1, Zenon DEF Place
<1>3. Place(r) \in 1..Len(order) /\ Len(order) \in Nat
  BY <1>2 DEF StripTypes
<1>4. /\ s \in Seq(1..created) /\ Len(s) = Len(order) - 1 /\ IsInjective(s)
      /\ ToSet(s) = ToSet(order) \ {r}
  BY <1>2, <1>3, RemoveAtLeaves DEF StripTypes, StripAfter
<1>5. s # <<>>
  BY <1>3, <1>4
<1>6. CASE active # r
  BY <1>4, <1>5, <1>6 DEF FrontAfter, Opened, StripTypes
<1>7. CASE active = r
  <2> DEFINE i == IF Place(r) > 1 THEN Place(r) - 1 ELSE 1
  <2>1. i \in 1..Len(s)
    BY <1>3, <1>4
  <2>2. FrontAfter(r) = s[i]
    BY <1>7 DEF FrontAfter
  <2> HIDE DEF s, i
  <2>3. s[i] \in ToSet(s)
    BY <2>1, <1>4 DEF ToSet
  <2> QED BY <1>4, <1>5, <2>2, <2>3 DEF Opened, s
<1> QED BY <1>4, <1>5, <1>6, <1>7 DEF Opened

(* A tab is registered at the end of the strip. *)
LEMMA RegisterTypes ==
  ASSUME StripTypes, NEW front, Register(front)
  PROVE  /\ created' = created + 1 /\ created + 1 \in Runtimes /\ created \in Nat
         /\ order' \in Seq(1..created') /\ order' # <<>> /\ IsInjective(order')
         /\ Opened(order') = Opened(order) \cup {created + 1}
         /\ created + 1 \notin Opened(order) /\ Opened(order) \subseteq 1..created
         /\ active' = front
<1>1. created' = created + 1 /\ created + 1 \in Runtimes /\ created \in Nat
  BY TabsAssumption DEF Register, TabsAssumption, StripTypes, Runtimes
<1>2. order \in Seq(1..(created + 1)) /\ ToSet(order) \subseteq 1..created /\ created + 1 \in 1..(created + 1)
  BY <1>1 DEF StripTypes, ToSet
<1>3. created + 1 \notin ToSet(order)
  BY <1>1, <1>2
<1>4. order' = Append(order, created + 1)
  BY DEF Register
<1>5. /\ order' \in Seq(1..(created + 1)) /\ IsInjective(order')
      /\ ToSet(order') = ToSet(order) \cup {created + 1}
  BY <1>2, <1>3, <1>4, AppendAdds DEF StripTypes
<1>6. order' # <<>>
  BY <1>2, <1>4
<1> QED BY <1>1, <1>2, <1>3, <1>5, <1>6 DEF Opened, Register

(* The tabs of a restored strip. *)
LEMMA RestoredStrip ==
  ASSUME TabsTypes, NEW n, n = Len(layout.sessions), created + n <= MaxRuntimes,
         NEW front,
         front = CHOOSE r \in (created + 1)..(created + n) :
                   /\ layout.sessions[r - created] = layout.active
                   /\ \A q \in (created + 1)..(created + n) :
                        layout.sessions[q - created] = layout.active => r <= q
  PROVE  /\ n \in Nat \ {0} /\ created \in Nat \ {0} /\ created + n \in Runtimes
         /\ [i \in 1..n |-> created + i] \in Seq(1..(created + n))
         /\ [i \in 1..n |-> created + i] # <<>>
         /\ IsInjective([i \in 1..n |-> created + i])
         /\ ToSet([i \in 1..n |-> created + i]) = (created + 1)..(created + n)
         /\ front \in (created + 1)..(created + n)
         /\ \A r \in (created + 1)..(created + n) : layout.sessions[r - created] \in Sessions
<1> DEFINE t == [i \in 1..n |-> created + i]
           fresh == (created + 1)..(created + n)
           Fits == {r \in fresh : layout.sessions[r - created] = layout.active}
<1>1. layout.sessions \in Seq(Sessions) /\ layout.active \in ToSet(layout.sessions)
  BY DEF TabsTypes, LayoutTypes, Layouts
<1>2. n \in Nat /\ created \in Nat \ {0} /\ created \in Int
  BY <1>1 DEF TabsTypes, StripTypes, Runtimes
<1>3. PICK i \in 1..n : layout.sessions[i] = layout.active
  BY <1>1 DEF ToSet
<1>4. n \in Nat \ {0} /\ created + n \in Runtimes
  BY <1>2, <1>3, TabsAssumption DEF Runtimes, TabsAssumption
<1>5. t \in Seq(1..(created + n)) /\ DOMAIN t = 1..n /\ t # <<>>
  <2>1. t \in [1..n -> 1..(created + n)] /\ DOMAIN t = 1..n
    BY <1>2
  <2>2. 1 \in DOMAIN t
    BY <1>4
  <2> QED BY <1>4, <2>1, <2>2
<1>6. IsInjective(t)
  BY <1>2, <1>5 DEF IsInjective
<1>7. ToSet(t) = fresh
  <2>1. \A r \in fresh : r - created \in 1..n /\ created + (r - created) = r
    BY <1>2
  <2>2. \A k \in 1..n : t[k] \in fresh
    BY <1>2
  <2>3. \A r \in fresh : \E k \in 1..n : t[k] = r
    BY <2>1
  <2>4. DOMAIN t = 1..n
    BY <1>5
  <2> HIDE DEF t, fresh
  <2> QED BY <2>2, <2>3, <2>4 DEF ToSet
<1>8. created + i \in Fits
  <2>1. created + i \in fresh /\ (created + i) - created = i
    BY <1>2, <1>3
  <2> QED BY <1>3, <2>1
<1>9. Fits \in SUBSET Nat /\ Fits # {}
  <2>1. fresh \subseteq Nat
    BY <1>2
  <2> QED BY <1>8, <2>1
<1>10. PICK r \in Fits : \A q \in Fits : ~ q < r
  BY <1>9, LeastNumber
<1>11. \A q \in fresh : layout.sessions[q - created] = layout.active => r <= q
  <2> SUFFICES ASSUME NEW q \in fresh, layout.sessions[q - created] = layout.active PROVE r <= q
    OBVIOUS
  <2>1. q \in Fits /\ q \in Nat /\ r \in Nat
    BY <1>9
  <2>2. ~ q < r
    BY <1>10, <2>1
  <2> HIDE DEF Fits
  <2> QED BY <2>1, <2>2
<1>12. front \in fresh
  <2>1. r \in fresh /\ layout.sessions[r - created] = layout.active
    BY <1>10
  <2> QED BY <1>11, <2>1, Zenon
<1>13. ASSUME NEW q \in fresh PROVE layout.sessions[q - created] \in Sessions
  <2>1. q - created \in 1..n
    BY <1>2
  <2> QED BY <1>1, <2>1
<1> QED BY <1>2, <1>4, <1>5, <1>6, <1>7, <1>12, <1>13

(* The types of the strip are kept. *)
LEMMA StripKept ==
  ASSUME TabsTypes, Next
  PROVE  StripTypes'
<1> USE DEF TabsTypes
<1>1. CASE UNCHANGED <<order, active, created>>
  BY <1>1 DEF StripTypes, Opened
<1>2. ASSUME NEW front, Register(front), front \in Opened(order')
      PROVE  StripTypes'
  BY <1>2, RegisterTypes DEF StripTypes, Opened
<1>3. Opened(order) # {} /\ active \in Opened(order)
  BY DEF StripTypes
<1>4. ASSUME NEW c \in Calls, CloseDeclined(c) PROVE StripTypes'
  BY <1>4 DEF CloseDeclined, FrontAtEnd, StripTypes, Opened
<1>5. ASSUME NEW c \in Calls, CloseFinish(c) PROVE StripTypes'
  <2> DEFINE r == todo[c][1]
             closes == r \in Opened(order) /\ Len(order) > 1
             strip == IF closes THEN StripAfter(r) ELSE order
             front == IF closes THEN FrontAfter(r) ELSE active
  <2>1. order' = strip /\ active' = FrontAtEnd(c, strip, front) /\ created' = created
    BY <1>5 DEF CloseFinish
  <2>2. strip \in Seq(1..created) /\ strip # <<>> /\ IsInjective(strip) /\ front \in Opened(strip)
    BY StripAfterIs DEF StripTypes
  <2> HIDE DEF strip, front
  <2> QED BY <2>1, <2>2 DEF StripTypes, FrontAtEnd, Opened
<1>6. ASSUME Reload PROVE StripTypes'
  <2> DEFINE n == Len(layout.sessions)
             fresh == (created + 1)..(created + n)
             front == CHOOSE r \in fresh :
                        /\ layout.sessions[r - created] = layout.active
                        /\ \A q \in fresh : layout.sessions[q - created] = layout.active => r <= q
  <2>1. /\ created + n <= MaxRuntimes /\ created' = created + n
        /\ order' = [i \in 1..n |-> created + i] /\ active' = front
    BY <1>6, Zenon DEF Reload
  <2>2. /\ created + n \in Runtimes /\ created \in Nat \ {0} /\ n \in Nat \ {0}
        /\ order' \in Seq(1..(created + n)) /\ order' # <<>> /\ IsInjective(order')
        /\ ToSet(order') = fresh /\ front \in fresh
    BY <2>1, RestoredStrip
  <2> HIDE DEF front, fresh, n
  <2> QED BY <2>1, <2>2 DEF StripTypes, Opened
<1>7. ASSUME NEW c \in Calls, CallStep(c) PROVE StripTypes'
  <2>1. CASE CloseRequest(c)
    BY <2>1, <1>1 DEF CloseRequest, tabs
  <2>2. CASE CloseOthersRequest(c)
    BY <2>2, <1>1 DEF CloseOthersRequest, tabs
  <2>3. CASE CloseConfirmed(c)
    BY <2>3, <1>1 DEF CloseConfirmed, tabs
  <2>4. CASE ReopenRequest(c) \/ ResumeRequest(c) \/ LoadFails(c)
    BY <2>4, <1>1 DEF ReopenRequest, ResumeRequest, LoadFails, tabs
  <2>5. CASE ReplaceLoaded(c) \/ ReplaceRefused(c) \/ Linked(c) \/ ForkRequest(c)
    BY <2>5, <1>1 DEF ReplaceLoaded, ReplaceRefused, Linked, ForkRequest, tabs
  <2>6. CASE OpenLoaded(c)
    BY <2>6, <1>2, <1>3, RegisterTypes DEF OpenLoaded
  <2>7. CASE ForkCreated(c)
    <3>1. Register(created + 1)
      BY <2>7 DEF ForkCreated
    <3> QED BY <3>1, <1>2, RegisterTypes
  <2> QED BY <1>4, <1>5, <1>7, <2>1, <2>2, <2>3, <2>4, <2>5, <2>6, <2>7 DEF CallStep
<1>8. CASE TabStep
  <2>1. ASSUME NEW r \in Runtimes, Send(r) \/ Answer(r) PROVE StripTypes'
    BY <2>1, <1>1 DEF Send, Answer, tabs
  <2>2. ASSUME NEW r \in Runtimes, Switch(r) PROVE StripTypes'
    BY <2>2 DEF Switch, StripTypes, Opened
  <2>3. ASSUME NEW i \in Runtimes, Move(i) PROVE StripTypes'
    <3>1. i \in 1..Len(order) /\ i + 1 \in 1..Len(order) /\ i # i + 1
      BY <2>3 DEF Move, StripTypes
    <3>2. /\ order' \in Seq(1..created) /\ ToSet(order') = ToSet(order) /\ IsInjective(order')
      BY <2>3, <3>1, SwapKeeps DEF Move, StripTypes
    <3>3. order' # <<>>
      BY <3>2, <1>3, ItemsOf DEF Opened, StripTypes
    <3> QED BY <2>3, <3>2, <3>3 DEF Move, StripTypes, Opened
  <2>4. CASE NewTab
    <3>1. Register(created + 1)
      BY <2>4 DEF NewTab
    <3> QED BY <3>1, <1>2, RegisterTypes
  <2>5. CASE LayoutWrite
    BY <2>5, <1>1 DEF LayoutWrite, tabs
  <2> QED BY <1>6, <1>8, <2>1, <2>2, <2>3, <2>4, <2>5 DEF TabStep
<1> QED BY <1>7, <1>8 DEF Next

(* The tabs of the strip are runtimes made so far. *)
LEMMA OpenedMade ==
  ASSUME StripTypes PROVE Opened(order) \subseteq 1..created /\ 1..created \subseteq Runtimes /\ created \in Nat
BY TabsAssumption DEF StripTypes, Opened, ToSet, Runtimes, TabsAssumption

(* The runtimes made so far are runtimes. *)
LEMMA UpTo ==
  ASSUME NEW k \in Runtimes PROVE 1..k \subseteq Runtimes /\ k \in Nat \ {0}
BY TabsAssumption DEF Runtimes, TabsAssumption

(* What was closed recently are sessions of runtimes made so far. *)
LEMMA ClosedMade ==
  ASSUME TabsTypes, NEW i \in DOMAIN recentlyClosed PROVE recentlyClosed[i] \in 1..created
<1>1. recentlyClosed \in Seq(1..created)
  BY DEF TabsTypes, RuntimeTypes
<1>2. ToSet(recentlyClosed) \subseteq 1..created
  BY <1>1, ItemsOf
<1> QED BY <1>2 DEF ToSet

(* A save puts what a runtime says in the store under its own session. *)
LEMMA SaveTypes ==
  ASSUME TabsTypes, NEW r \in 1..created, NEW m \in SUBSET Messages, Save(r, m)
  PROVE  /\ stored' \subseteq 1..created
         /\ \A q \in Unmade : disk'[q] = disk[q]
         /\ disk' = [disk EXCEPT ![session[r]] = m] /\ session[r] \in 1..created
<1>1. session[r] \in 1..created /\ session[r] \notin Unmade
  BY DEF TabsTypes, RuntimeTypes, Unmade
<1>2. disk' = [disk EXCEPT ![session[r]] = m] /\ stored' = stored \cup {session[r]}
  BY DEF Save
<1>3. \A q \in Unmade : disk'[q] = disk[q]
  BY <1>1, <1>2 DEF TabsTypes, MessageTypes, Unmade, Sessions
<1> QED BY <1>1, <1>2, <1>3 DEF TabsTypes, RuntimeTypes

(* The tabs a call has left to close are tabs it was asked to close. *)
LEMMA LeftTypes ==
  ASSUME TabsTypes, NEW c \in Calls, pc[c] \in {"confirming", "saving"}, NEW strip
  PROVE  /\ LeftToClose(c, strip) \in Seq(1..created)
         /\ Opened(LeftToClose(c, strip)) \subseteq Opened(strip)
         /\ Len(LeftToClose(c, strip)) < Len(todo[c])
         /\ todo[c][1] \in 1..created
<1>1. todo[c] \in Seq(1..created) /\ todo[c] # <<>>
  BY DEF TabsTypes, CallTypes
<1>2. /\ Tail(todo[c]) \in Seq(1..created) /\ Len(Tail(todo[c])) < Len(todo[c])
      /\ todo[c][1] \in 1..created /\ Len(todo[c]) \in Nat \ {0}
  <2> DEFINE s == todo[c]
  <2>1. /\ ToSet(s) \subseteq 1..created /\ Len(s) \in Nat /\ s[1] \in ToSet(s)
        /\ Len(s) # 0 /\ Len(Tail(s)) = Len(s) - 1 /\ Tail(s) \in Seq(1..created)
    BY <1>1, ItemsOf
  <2> HIDE DEF s
  <2>2. Len(Tail(s)) < Len(s)
    BY <2>1
  <2> QED BY <2>1, <2>2 DEF s
<1> DEFINE left == Without(Tail(todo[c]), Runtimes \ Opened(strip))
<1>3. /\ left \in Seq(1..created) /\ Len(left) <= Len(Tail(todo[c]))
      /\ ToSet(left) = ToSet(Tail(todo[c])) \ (Runtimes \ Opened(strip))
  BY <1>2, WithoutLeaves
<1>4. ToSet(Tail(todo[c])) \subseteq Runtimes
  <2>1. 1..created \subseteq Runtimes
    BY OpenedMade DEF TabsTypes
  <2>2. ToSet(Tail(todo[c])) \subseteq 1..created
    BY <1>2, ItemsOf
  <2> QED BY <2>1, <2>2
<1>5. Len(left) < Len(todo[c])
  <2>1. Len(left) \in Nat /\ Len(Tail(todo[c])) \in Nat
    BY <1>2, <1>3
  <2> HIDE DEF left
  <2> QED BY <1>2, <1>3, <2>1
<1>6. ToSet(left) \subseteq Opened(strip)
  BY <1>3, <1>4
<1>7. ToSet(<<>>) = {} /\ <<>> \in Seq(1..created) /\ Len(<<>>) = 0
  BY DEF ToSet
<1>8. LeftToClose(c, strip) = IF Len(strip) > 1 THEN left ELSE <<>>
  BY DEF LeftToClose
<1> HIDE DEF left
<1>9. CASE LeftToClose(c, strip) = left
  BY <1>2, <1>3, <1>5, <1>6, <1>9 DEF Opened
<1>10. CASE LeftToClose(c, strip) = <<>>
  BY <1>2, <1>7, <1>10 DEF Opened
<1> QED BY <1>8, <1>9, <1>10

(* Calls stay well formed when one of them goes on. *)
LEMMA CallGoesOn ==
  ASSUME TabsTypes, NEW c \in Calls, StripTypes',
         1..created \subseteq 1..created',
         NEW state \in {"new", "confirming", "saving", "linking", "creating", "done"} \cup Loading,
         NEW more \in Seq(1..created'), NEW thing \in (1..created') \cup {None},
         state \in {"confirming", "saving"} => more # <<>>,
         state \in Loading \cup {"creating"} => thing # None,
         pc' = [pc EXCEPT ![c] = state], todo' = [todo EXCEPT ![c] = more],
         item' = [item EXCEPT ![c] = thing]
  PROVE  CallTypes'
<1> USE DEF TabsTypes, CallTypes
<1>1. pc' \in [Calls -> {"new", "confirming", "saving", "linking", "creating", "done"} \cup Loading]
  OBVIOUS
<1>2. todo' \in [Calls -> Seq(1..created')]
  <2>1. Seq(1..created) \subseteq Seq(1..created')
    BY ListsOfMore
  <2> QED BY <2>1
<1>3. item' \in [Calls -> (1..created') \cup {None}]
  OBVIOUS
<1>4. \A d \in Calls : pc'[d] \in {"confirming", "saving"} => todo'[d] # <<>>
  OBVIOUS
<1>5. \A d \in Calls : pc'[d] \in Loading \cup {"creating"} => item'[d] # None
  OBVIOUS
<1> QED BY <1>1, <1>2, <1>3, <1>4, <1>5 DEF Loading

(* The next tab to close is asked about or saved. *)
LEMMA CloseNextTypes ==
  ASSUME TabsTypes, StripTypes', created' = created, NEW c \in Calls,
         NEW left \in Seq(1..created), NEW kept \in (1..created) \cup {None}, CloseNext(c, left, kept)
  PROVE  /\ CallTypes'
         /\ stored' \subseteq 1..created
         /\ \A q \in Unmade : disk'[q] = disk[q]
         /\ disk' \in [Sessions -> SUBSET Said] /\ data' \in [Calls -> SUBSET Said]
<1>0. 1..created \subseteq Runtimes
  BY OpenedMade DEF TabsTypes
<1>1. CASE left = <<>>
  <2>1. Done(c) /\ UNCHANGED store
    BY <1>1 DEF CloseNext
  <2>2. CallTypes'
    <3>1. <<>> \in Seq(1..created')
      OBVIOUS
    <3> QED BY <2>1, <3>1, CallGoesOn DEF Done, Become, Loading
  <2> QED BY <2>1, <2>2 DEF Done, store, TabsTypes, MessageTypes, RuntimeTypes
<1>2. CASE left # <<>>
  <2>1. todo' = [todo EXCEPT ![c] = left] /\ item' = [item EXCEPT ![c] = kept] /\ left[1] \in 1..created
    <3>1. left[1] \in 1..created
      BY <1>2, ItemsOf
    <3> QED BY <1>2, <3>1 DEF CloseNext
  <2>2. CASE left[1] \in streaming
    <3>1. Become(c, "confirming") /\ UNCHANGED <<store, data>>
      BY <1>2, <2>2 DEF CloseNext
    <3>2. CallTypes'
      BY <1>2, <2>1, <3>1, CallGoesOn DEF Become, Loading
    <3> QED BY <3>1, <3>2 DEF store, TabsTypes, MessageTypes, RuntimeTypes
  <2>3. CASE left[1] \notin streaming
    <3>1. SaveToClose(c, left[1])
      BY <1>2, <2>3 DEF CloseNext
    <3>2. CallTypes'
      BY <1>2, <2>1, <3>1, CallGoesOn DEF SaveToClose, Become, Loading
    <3>3. chat[left[1]] \subseteq Said /\ Said \subseteq Messages
      BY <1>0, <2>1 DEF TabsTypes, MessageTypes, Said
    <3>4. Save(left[1], chat[left[1]]) /\ data' = [data EXCEPT ![c] = chat[left[1]]]
      BY <3>1 DEF SaveToClose
    <3>5. /\ stored' \subseteq 1..created /\ \A q \in Unmade : disk'[q] = disk[q]
          /\ disk' = [disk EXCEPT ![session[left[1]]] = chat[left[1]]]
      BY <2>1, <3>3, <3>4, SaveTypes
    <3>6. disk' \in [Sessions -> SUBSET Said] /\ data' \in [Calls -> SUBSET Said]
      BY <3>3, <3>4, <3>5 DEF TabsTypes, MessageTypes
    <3> QED BY <3>2, <3>5, <3>6
  <2> QED BY <2>2, <2>3
<1> QED BY <1>1, <1>2

CallStates == {"new", "confirming", "saving", "linking", "creating", "done"} \cup Loading

(* A call that ends leaves the others as they are. *)
LEMMA DoneTypes ==
  ASSUME TabsTypes, StripTypes', 1..created \subseteq 1..created', NEW c \in Calls, Done(c)
  PROVE  CallTypes' /\ \A T : data \in [Calls -> SUBSET T] => data' \in [Calls -> SUBSET T]
<1>1. <<>> \in Seq(1..created')
  OBVIOUS
<1>2. CallTypes'
  BY <1>1, CallGoesOn DEF Done, Become, Loading
<1> QED BY <1>2 DEF Done

(* The types of the calls are kept. *)
LEMMA CallsKept ==
  ASSUME TabsTypes, StripTypes', Next
  PROVE  CallTypes'
<1> USE DEF TabsTypes
<1>0. 1..created \subseteq Runtimes /\ Opened(order) \subseteq 1..created /\ created \in Nat
  BY OpenedMade
<1>1. CASE UNCHANGED <<pc, todo, item, created>>
  BY <1>1 DEF CallTypes
<1>2. ASSUME NEW front, Register(front) PROVE 1..created \subseteq 1..created'
  BY <1>2, RegisterTypes
<1>3. ASSUME NEW c \in Calls, CallStep(c) PROVE CallTypes'
  <2>0. /\ todo[c] \in Seq(1..created) /\ item[c] \in (1..created) \cup {None}
        /\ pc[c] \in CallStates
        /\ pc[c] \in {"confirming", "saving"} => todo[c] # <<>>
    BY DEF CallTypes, CallStates
  <2>1. CASE CloseRequest(c)
    <3>1. PICK r \in Opened(order) : CloseNext(c, <<r>>, None)
      BY <2>1 DEF CloseRequest
    <3>2. <<r>> \in Seq(1..created) /\ created' = created
      BY <1>0, <2>1 DEF CloseRequest, tabs
    <3> QED BY <3>1, <3>2, CloseNextTypes
  <2>2. CASE CloseOthersRequest(c)
    <3>1. PICK r \in Opened(order) : CloseNext(c, Without(order, {r}), r)
      BY <2>2 DEF CloseOthersRequest
    <3>2. Without(order, {r}) \in Seq(1..created) /\ created' = created
      BY <2>2, WithoutLeaves DEF CloseOthersRequest, tabs, StripTypes
    <3>3. r \in 1..created
      BY <1>0
    <3> QED BY <3>1, <3>2, <3>3, CloseNextTypes
  <2>3. CASE CloseConfirmed(c)
    <3>1. /\ pc' = [pc EXCEPT ![c] = "saving"] /\ todo' = todo /\ item' = item
          /\ created' = created /\ pc[c] = "confirming"
      BY <2>3 DEF CloseConfirmed, SaveToClose, Become, tabs
    <3>2. todo' = [todo EXCEPT ![c] = todo[c]] /\ item' = [item EXCEPT ![c] = item[c]]
      BY <3>1 DEF CallTypes
    <3> QED BY <2>0, <3>1, <3>2, CallGoesOn DEF Loading
  <2>4. CASE CloseDeclined(c)
    <3>1. CloseNext(c, LeftToClose(c, order), item[c]) /\ created' = created /\ pc[c] = "confirming"
      BY <2>4 DEF CloseDeclined
    <3> QED BY <2>0, <3>1, CloseNextTypes, LeftTypes
  <2>5. CASE CloseFinish(c)
    <3> DEFINE r == todo[c][1]
               strip == IF r \in Opened(order) /\ Len(order) > 1 THEN StripAfter(r) ELSE order
    <3>1. CloseNext(c, LeftToClose(c, strip), item[c]) /\ created' = created /\ pc[c] = "saving"
      BY <2>5 DEF CloseFinish
    <3> QED BY <2>0, <3>1, CloseNextTypes, LeftTypes
  <2>6. CASE ReopenRequest(c)
    <3>1. PICK i \in DOMAIN recentlyClosed :
            IF recentlyClosed[i] \in stored THEN Load(c, recentlyClosed[i], "reopening") ELSE Done(c)
      BY <2>6 DEF ReopenRequest
    <3>2. recentlyClosed[i] \in 1..created /\ created' = created
      BY <2>6, ClosedMade DEF ReopenRequest, tabs
    <3>3. CASE Load(c, recentlyClosed[i], "reopening")
      <4>1. todo' = [todo EXCEPT ![c] = todo[c]]
        BY <3>3 DEF Load, CallTypes
      <4>2. recentlyClosed[i] # None
        BY <1>0, <3>2, TabsAssumption DEF TabsAssumption
      <4> QED BY <2>0, <3>2, <3>3, <4>1, <4>2, CallGoesOn DEF Load, Become, Loading
    <3>4. CASE Done(c)
      BY <3>2, <3>4, DoneTypes
    <3> QED BY <3>1, <3>3, <3>4
  <2>7. CASE ResumeRequest(c)
    <3>1. PICK s \in stored, purpose \in {"resuming", "replacing"} : Load(c, s, purpose)
      BY <2>7 DEF ResumeRequest
    <3>2. s \in 1..created /\ created' = created /\ s # None
      BY <1>0, <2>7, TabsAssumption DEF ResumeRequest, tabs, RuntimeTypes, TabsAssumption
    <3>3. todo' = [todo EXCEPT ![c] = todo[c]]
      BY <3>1 DEF Load, CallTypes
    <3> QED BY <2>0, <3>1, <3>2, <3>3, CallGoesOn DEF Load, Become, Loading
  <2>8. CASE LoadFails(c) \/ ReplaceRefused(c) \/ Linked(c)
    <3>1. Done(c) /\ created' = created
      BY <2>8 DEF LoadFails, ReplaceRefused, Linked, tabs
    <3> QED BY <3>1, DoneTypes
  <2>9. CASE OpenLoaded(c) \/ ReplaceLoaded(c)
    <3>1. 1..created \subseteq 1..created'
      BY <1>2, <2>9 DEF OpenLoaded, ReplaceLoaded
    <3>2. pc' = [pc EXCEPT ![c] = "linking"] /\ todo' = todo /\ item' = item
      BY <2>9 DEF OpenLoaded, ReplaceLoaded, Apply, Become
    <3>3. todo' = [todo EXCEPT ![c] = todo[c]] /\ item' = [item EXCEPT ![c] = item[c]]
      BY <3>2 DEF CallTypes
    <3>4. todo[c] \in Seq(1..created') /\ item[c] \in (1..created') \cup {None}
      BY <2>0, <3>1, ListsOfMore
    <3> QED BY <3>1, <3>2, <3>3, <3>4, CallGoesOn DEF Loading
  <2>10. CASE ForkRequest(c)
    <3>1. PICK r \in Opened(order) : item' = [item EXCEPT ![c] = r]
      BY <2>10 DEF ForkRequest
    <3>2. r \in 1..created /\ r # None
      BY <1>0, TabsAssumption DEF TabsAssumption
    <3>3. todo' = [todo EXCEPT ![c] = todo[c]] /\ created' = created /\ pc' = [pc EXCEPT ![c] = "creating"]
      BY <2>10 DEF ForkRequest, CallTypes, Become, tabs
    <3> QED BY <2>0, <3>1, <3>2, <3>3, CallGoesOn DEF Loading
  <2>11. CASE ForkCreated(c)
    <3>1. Done(c) /\ 1..created \subseteq 1..created'
      BY <1>2, <2>11 DEF ForkCreated
    <3> QED BY <3>1, DoneTypes
  <2> QED BY <1>3, <2>1, <2>2, <2>3, <2>4, <2>5, <2>6, <2>7, <2>8, <2>9, <2>10, <2>11 DEF CallStep
<1>4. CASE TabStep
  <2>1. CASE NewTab
    <3>1. UNCHANGED <<pc, todo, item>> /\ 1..created \subseteq 1..created'
      BY <1>2, <2>1 DEF NewTab, calls
    <3>2. Seq(1..created) \subseteq Seq(1..created')
      BY <3>1, ListsOfMore
    <3> QED BY <3>1, <3>2 DEF CallTypes
  <2>2. CASE Reload
    <3>1. /\ pc' = [c \in Calls |-> IF pc[c] = "new" THEN "new" ELSE "done"]
          /\ todo' = [c \in Calls |-> <<>>] /\ item' = [c \in Calls |-> None]
      BY <2>2 DEF Reload
    <3>2. <<>> \in Seq(1..created')
      OBVIOUS
    <3> QED BY <3>1, <3>2 DEF CallTypes, Loading
  <2>3. ASSUME NEW r \in Runtimes, Send(r) \/ Answer(r) \/ Switch(r) PROVE CallTypes'
    BY <2>3, <1>1 DEF Send, Answer, Switch, tabs, calls
  <2>4. ASSUME NEW i \in Runtimes, Move(i) PROVE CallTypes'
    BY <2>4, <1>1 DEF Move, calls
  <2>5. CASE LayoutWrite
    BY <2>5, <1>1 DEF LayoutWrite, tabs, calls
  <2> QED BY <1>4, <2>1, <2>2, <2>3, <2>4, <2>5 DEF TabStep
<1> QED BY <1>3, <1>4 DEF Next

Spoken == <<sent, chat, disk, data>>

(* The types of what is said are kept. *)
LEMMA MessagesTyped ==
  ASSUME TabsTypes, StripTypes', Next
  PROVE  MessageTypes'
<1> USE DEF TabsTypes
<1>0. /\ 1..created \subseteq Runtimes /\ Opened(order) \subseteq 1..created /\ created \in Nat
      /\ Said \subseteq Messages /\ chat \in [Runtimes -> SUBSET Said]
      /\ sent \in Nat
  BY OpenedMade DEF Said, MessageTypes
<1>1. CASE UNCHANGED Spoken
  BY <1>1 DEF MessageTypes, Said, Spoken
<1>2. ASSUME NEW x \in SUBSET Said, NEW s \in Sessions, disk' = [disk EXCEPT ![s] = x]
      PROVE  disk' \in [Sessions -> SUBSET Said]
  BY <1>2 DEF MessageTypes
<1>3. ASSUME sent' = sent, chat' \in [Runtimes -> SUBSET Said], disk' \in [Sessions -> SUBSET Said],
             data' \in [Calls -> SUBSET Said]
      PROVE  MessageTypes'
  BY <1>3 DEF MessageTypes, Said
<1>4. ASSUME NEW c \in Calls, CallStep(c) PROVE MessageTypes'
  <2>1. CASE CloseRequest(c)
    <3>1. PICK r \in Opened(order) : CloseNext(c, <<r>>, None)
      BY <2>1 DEF CloseRequest
    <3>2. <<r>> \in Seq(1..created) /\ created' = created /\ chat' = chat /\ sent' = sent
      BY <1>0, <2>1 DEF CloseRequest, tabs, talk
    <3> QED BY <1>0, <1>3, <3>1, <3>2, CloseNextTypes
  <2>2. CASE CloseOthersRequest(c)
    <3>1. PICK r \in Opened(order) : CloseNext(c, Without(order, {r}), r)
      BY <2>2 DEF CloseOthersRequest
    <3>2. Without(order, {r}) \in Seq(1..created) /\ created' = created /\ chat' = chat /\ sent' = sent
      BY <2>2, WithoutLeaves DEF CloseOthersRequest, tabs, StripTypes, talk
    <3>3. r \in 1..created
      BY <1>0
    <3> QED BY <1>0, <1>3, <3>1, <3>2, <3>3, CloseNextTypes
  <2>3. CASE CloseConfirmed(c)
    <3>1. /\ Save(todo[c][1], chat[todo[c][1]]) /\ pc[c] = "confirming"
          /\ data' = [data EXCEPT ![c] = chat[todo[c][1]]] /\ sent' = sent /\ chat' = chat
      BY <2>3 DEF CloseConfirmed, SaveToClose, talk
    <3>2. todo[c][1] \in 1..created
      BY <3>1, LeftTypes
    <3>3. chat[todo[c][1]] \in SUBSET Said
      BY <1>0, <3>2
    <3>4. disk' = [disk EXCEPT ![session[todo[c][1]]] = chat[todo[c][1]]] /\ session[todo[c][1]] \in 1..created
      BY <1>0, <3>1, <3>2, <3>3, SaveTypes
    <3>5. data' \in [Calls -> SUBSET Said]
      BY <3>1, <3>3 DEF MessageTypes
    <3> QED BY <1>0, <1>2, <1>3, <3>1, <3>3, <3>4, <3>5 DEF Sessions
  <2>4. CASE CloseDeclined(c)
    <3>1. /\ CloseNext(c, LeftToClose(c, order), item[c]) /\ created' = created /\ pc[c] = "confirming"
          /\ chat' = chat /\ sent' = sent
      BY <2>4 DEF CloseDeclined, talk
    <3> QED BY <1>0, <1>3, <3>1, CloseNextTypes, LeftTypes DEF CallTypes
  <2>5. CASE CloseFinish(c)
    <3> DEFINE r == todo[c][1]
               strip == IF r \in Opened(order) /\ Len(order) > 1 THEN StripAfter(r) ELSE order
    <3>1. /\ CloseNext(c, LeftToClose(c, strip), item[c]) /\ created' = created /\ pc[c] = "saving"
          /\ chat' = chat /\ sent' = sent
      BY <2>5 DEF CloseFinish
    <3> QED BY <1>0, <1>3, <3>1, CloseNextTypes, LeftTypes DEF CallTypes
  <2>6. ASSUME NEW s, NEW purpose, Load(c, s, purpose), s \in 1..created
        PROVE  data' \in [Calls -> SUBSET Said]
    BY <1>0, <2>6 DEF Load, MessageTypes, Sessions
  <2>7. ASSUME Done(c) PROVE data' \in [Calls -> SUBSET Said]
    BY <2>7 DEF Done, MessageTypes
  <2>8. CASE ReopenRequest(c)
    <3>1. PICK i \in DOMAIN recentlyClosed :
            IF recentlyClosed[i] \in stored THEN Load(c, recentlyClosed[i], "reopening") ELSE Done(c)
      BY <2>8 DEF ReopenRequest
    <3>2. recentlyClosed[i] \in 1..created
      BY ClosedMade
    <3> QED BY <1>0, <1>3, <2>6, <2>7, <2>8, <3>1, <3>2 DEF ReopenRequest, talk, store, MessageTypes
  <2>9. CASE ResumeRequest(c)
    <3>1. PICK s \in stored, purpose \in {"resuming", "replacing"} : Load(c, s, purpose)
      BY <2>9 DEF ResumeRequest
    <3>2. s \in 1..created
      BY DEF RuntimeTypes
    <3> QED BY <1>0, <1>3, <2>6, <2>9, <3>1, <3>2 DEF ResumeRequest, talk, store, MessageTypes
  <2>10. CASE LoadFails(c) \/ ReplaceRefused(c) \/ Linked(c)
    BY <1>0, <1>3, <2>7, <2>10 DEF LoadFails, ReplaceRefused, Linked, talk, store, MessageTypes
  <2>11. CASE OpenLoaded(c) \/ ReplaceLoaded(c)
    <3>1. PICK r : /\ chat' = [chat EXCEPT ![r] = data[c]] /\ sent' = sent /\ disk' = disk /\ data' = data
      BY <2>11 DEF OpenLoaded, ReplaceLoaded, Apply, store
    <3>2. chat' \in [Runtimes -> SUBSET Said]
      BY <1>0, <3>1 DEF MessageTypes
    <3> QED BY <1>3, <3>1, <3>2 DEF MessageTypes
  <2>12. CASE ForkRequest(c)
    BY <1>1, <2>12 DEF ForkRequest, talk, store, Spoken
  <2>13. CASE ForkCreated(c)
    <3>1. /\ pc[c] = "creating" /\ Register(created + 1) /\ Save(created + 1, chat[item[c]])
          /\ chat' = [chat EXCEPT ![created + 1] = chat[item[c]]] /\ sent' = sent
      BY <2>13 DEF ForkCreated
    <3>2. item[c] \in Runtimes /\ created + 1 \in Runtimes
      BY <1>0, <3>1, RegisterTypes DEF CallTypes
    <3>3. chat[item[c]] \in SUBSET Said /\ session[created + 1] \in Sessions
      BY <1>0, <3>2 DEF RuntimeTypes, Sessions
    <3>4. disk' = [disk EXCEPT ![session[created + 1]] = chat[item[c]]]
      BY <3>1 DEF Save
    <3>5. chat' \in [Runtimes -> SUBSET Said]
      BY <1>0, <3>1, <3>3
    <3>6. Done(c)
      BY <2>13 DEF ForkCreated
    <3> QED BY <1>2, <1>3, <2>7, <3>1, <3>3, <3>4, <3>5, <3>6
  <2> QED BY <1>4, <2>1, <2>2, <2>3, <2>4, <2>5, <2>8, <2>9, <2>10, <2>11, <2>12, <2>13 DEF CallStep
<1>5. CASE TabStep
  <2>1. ASSUME NEW r \in Runtimes, Send(r) \/ Answer(r) PROVE MessageTypes'
    <3> DEFINE who == IF Send(r) THEN "user" ELSE "assistant"
               m == chat[r] \cup {<<who, sent + 1>>}
    <3>1. /\ sent' = sent + 1 /\ sent < MaxMessages /\ r \in Opened(order)
          /\ chat' = [chat EXCEPT ![r] = m]
          /\ Save(r, m) \/ UNCHANGED store
          /\ data' = data
      <4>1. CASE Send(r)
        BY <2>1, <4>1 DEF Send, calls
      <4>2. CASE ~ Send(r)
        BY <2>1, <4>2 DEF Answer, calls, RuntimeTypes
      <4> QED BY <4>1, <4>2
    <3>2. /\ sent + 1 \in 1..MaxMessages /\ who \in {"user", "assistant"}
      BY <1>0, <3>1, TabsAssumption DEF TabsAssumption
    <3> HIDE DEF who
    <3>3. <<who, sent + 1>> \in Said'
      BY <3>1, <3>2 DEF Said, Messages
    <3>4. Said \subseteq Said'
      BY <1>0, <3>1 DEF Said, Messages
    <3>5. m \in SUBSET Said'
      BY <1>0, <3>3, <3>4
    <3> HIDE DEF m
    <3>6. disk' = disk \/ disk' = [disk EXCEPT ![session[r]] = m]
      BY <3>1 DEF Save, store
    <3>7. disk' \in [Sessions -> SUBSET Said'] /\ chat' \in [Runtimes -> SUBSET Said']
      BY <3>1, <3>4, <3>5, <3>6 DEF MessageTypes, Sessions
    <3>8. data' \in [Calls -> SUBSET Said']
      BY <3>1, <3>4 DEF MessageTypes
    <3> QED BY <3>1, <3>2, <3>7, <3>8 DEF MessageTypes
  <2>2. CASE Reload
    <3> DEFINE n == Len(layout.sessions)
               Was(r) == layout.sessions[r - created]
               fresh == (created + 1)..(created + n)
               known == {r \in fresh : Was(r) \in stored}
    <3>1. /\ chat' = [r \in Runtimes |-> IF r \in known THEN disk[Was(r)] ELSE {}]
          /\ data' = [c \in Calls |-> {}] /\ sent' = sent /\ disk' = disk
      BY <2>2 DEF Reload
    <3>2. \A r \in known : Was(r) \in Sessions
      BY <1>0 DEF RuntimeTypes, Sessions
    <3> HIDE DEF known, Was
    <3>3. chat' \in [Runtimes -> SUBSET Said] /\ data' \in [Calls -> SUBSET Said]
      BY <3>1, <3>2 DEF MessageTypes
    <3> QED BY <1>3, <3>1, <3>3 DEF MessageTypes
  <2>3. ASSUME NEW r \in Runtimes, Switch(r) PROVE MessageTypes'
    BY <2>3, <1>1 DEF Switch, talk, store, calls, Spoken
  <2>4. ASSUME NEW i \in Runtimes, Move(i) PROVE MessageTypes'
    BY <2>4, <1>1 DEF Move, talk, store, calls, Spoken
  <2>5. CASE NewTab \/ LayoutWrite
    BY <2>5, <1>1 DEF NewTab, LayoutWrite, talk, store, calls, Spoken
  <2> QED BY <1>5, <2>1, <2>2, <2>3, <2>4, <2>5 DEF TabStep
<1> QED BY <1>4, <1>5 DEF Next

(* RecentlyClosedStack.push *)
LEMMA PushTypes ==
  ASSUME TabsTypes, NEW s \in 1..created
  PROVE  Push(s) \in Seq(1..created) /\ Len(Push(s)) <= MaxClosed
<1> DEFINE all == <<s>> \o recentlyClosed
           n == IF Len(recentlyClosed) < MaxClosed THEN Len(recentlyClosed) + 1 ELSE MaxClosed
<1>1. recentlyClosed \in Seq(1..created) /\ Len(recentlyClosed) <= MaxClosed
  BY DEF TabsTypes, RuntimeTypes
<1>2. all \in Seq(1..created) /\ Len(all) = Len(recentlyClosed) + 1
  BY <1>1
<1>3. n \in Nat /\ n <= MaxClosed /\ n <= Len(all)
  BY <1>1, <1>2, TabsAssumption DEF TabsAssumption
<1>4. Push(s) = SubSeq(all, 1, n)
  BY DEF Push
<1> HIDE DEF all, n
<1>5. \A i \in 1..n : all[i] \in 1..created
  <2>1. Len(all) \in Nat
    BY <1>2, ItemsOf
  <2>2. 1..n \subseteq 1..Len(all)
    BY <1>3, <2>1
  <2>3. \A i \in 1..Len(all) : all[i] \in 1..created
    BY <1>2, ItemAt
  <2> QED BY <2>2, <2>3
<1>6. SubSeq(all, 1, n) \in Seq(1..created) /\ Len(SubSeq(all, 1, n)) = n
  BY <1>2, <1>3, <1>5, SubSeqProperties
<1> QED BY <1>3, <1>4, <1>6

(* What a step leaves alone keeps its type. *)
LEMMA RuntimesUnmoved ==
  ASSUME TabsTypes, created' = created, session' = session, chat' = chat, answered' = answered,
         \A q \in Unmade : disk'[q] = disk[q], stored' \subseteq 1..created,
         streaming' \subseteq Opened(order'),
         recentlyClosed' \in Seq(1..created), Len(recentlyClosed') <= MaxClosed
  PROVE  RuntimeTypes'
BY DEF TabsTypes, RuntimeTypes, Unmade, Opened

(* The same for a step that saves nothing. *)
LEMMA RuntimesAtRest ==
  ASSUME TabsTypes, created' = created, session' = session, chat' = chat, answered' = answered,
         disk' = disk, stored' = stored, streaming' = streaming, Opened(order') = Opened(order),
         recentlyClosed' \in Seq(1..created), Len(recentlyClosed') <= MaxClosed
  PROVE  RuntimeTypes'
BY RuntimesUnmoved DEF TabsTypes, RuntimeTypes

(* The types of the sessions are kept. *)
LEMMA RuntimesKept ==
  ASSUME TabsTypes, StripTypes', Next
  PROVE  RuntimeTypes'
<1> USE DEF TabsTypes
<1>0. /\ 1..created \subseteq Runtimes /\ Opened(order) \subseteq 1..created /\ created \in Nat
      /\ created \in Runtimes /\ active \in 1..created
      /\ streaming \subseteq Opened(order) /\ stored \subseteq 1..created
      /\ recentlyClosed \in Seq(1..created) /\ Len(recentlyClosed) <= MaxClosed
      /\ session \in [Runtimes -> Sessions] /\ answered \subseteq 1..created
      /\ chat \in [Runtimes -> SUBSET Said] /\ disk \in [Sessions -> SUBSET Said]
  BY OpenedMade DEF RuntimeTypes, StripTypes, MessageTypes
<1>1. ASSUME NEW c \in Calls, CallStep(c) PROVE RuntimeTypes'
  <2>1. CASE CloseRequest(c)
    <3>1. PICK r \in Opened(order) : CloseNext(c, <<r>>, None)
      BY <2>1 DEF CloseRequest
    <3>2. <<r>> \in Seq(1..created)
      BY <1>0
    <3>3. UNCHANGED tabs /\ UNCHANGED talk /\ UNCHANGED recentlyClosed
      BY <2>1 DEF CloseRequest
    <3>4. stored' \subseteq 1..created /\ \A q \in Unmade : disk'[q] = disk[q]
      BY <3>1, <3>2, <3>3, CloseNextTypes DEF tabs
    <3> QED BY <1>0, <3>3, <3>4, RuntimesUnmoved DEF tabs, talk
  <2>2. CASE CloseOthersRequest(c)
    <3>1. PICK r \in Opened(order) : CloseNext(c, Without(order, {r}), r)
      BY <2>2 DEF CloseOthersRequest
    <3>2. Without(order, {r}) \in Seq(1..created) /\ r \in 1..created
      BY <1>0, WithoutLeaves DEF StripTypes
    <3>3. UNCHANGED tabs /\ UNCHANGED talk /\ UNCHANGED recentlyClosed
      BY <2>2 DEF CloseOthersRequest
    <3>4. stored' \subseteq 1..created /\ \A q \in Unmade : disk'[q] = disk[q]
      BY <3>1, <3>2, <3>3, CloseNextTypes DEF tabs
    <3> QED BY <1>0, <3>3, <3>4, RuntimesUnmoved DEF tabs, talk
  <2>3. CASE CloseConfirmed(c)
    <3>1. /\ Save(todo[c][1], chat[todo[c][1]]) /\ pc[c] = "confirming"
          /\ UNCHANGED tabs /\ UNCHANGED talk /\ UNCHANGED recentlyClosed
      BY <2>3 DEF CloseConfirmed, SaveToClose
    <3>2. todo[c][1] \in 1..created
      BY <3>1, LeftTypes
    <3>3. chat[todo[c][1]] \in SUBSET Messages
      BY <1>0, <3>2 DEF Said
    <3>4. stored' \subseteq 1..created /\ \A q \in Unmade : disk'[q] = disk[q]
      BY <3>1, <3>2, <3>3, SaveTypes
    <3> QED BY <1>0, <3>1, <3>4, RuntimesUnmoved DEF tabs, talk
  <2>4. CASE CloseDeclined(c)
    <3>1. /\ CloseNext(c, LeftToClose(c, order), item[c]) /\ pc[c] = "confirming"
          /\ UNCHANGED <<order, created, session>> /\ UNCHANGED talk /\ UNCHANGED recentlyClosed
      BY <2>4 DEF CloseDeclined
    <3>2. stored' \subseteq 1..created /\ \A q \in Unmade : disk'[q] = disk[q]
      BY <3>1, CloseNextTypes, LeftTypes DEF CallTypes
    <3> QED BY <1>0, <3>1, <3>2, RuntimesUnmoved DEF talk
  <2>5. CASE CloseFinish(c)
    <3> DEFINE r == todo[c][1]
               closes == r \in Opened(order) /\ Len(order) > 1
               strip == IF closes THEN StripAfter(r) ELSE order
    <3>1. /\ CloseNext(c, LeftToClose(c, strip), item[c]) /\ pc[c] = "saving" /\ order' = strip
          /\ UNCHANGED <<created, session, chat, answered>> /\ recentlyClosed' = Push(session[r])
          /\ streaming' = IF closes THEN streaming \ {r} ELSE streaming
      BY <2>5 DEF CloseFinish
    <3>2. stored' \subseteq 1..created /\ \A q \in Unmade : disk'[q] = disk[q]
      BY <3>1, CloseNextTypes, LeftTypes DEF CallTypes
    <3>3. streaming' \subseteq Opened(order')
      <4>1. CASE closes
        BY <1>0, <3>1, <4>1, StripAfterIs
      <4>2. CASE ~ closes
        BY <1>0, <3>1, <4>2
      <4> QED BY <4>1, <4>2
    <3>4. session[r] \in 1..created
      BY <3>1, LeftTypes DEF RuntimeTypes
    <3> QED BY <3>1, <3>2, <3>3, <3>4, PushTypes, RuntimesUnmoved
  <2>6. CASE ReopenRequest(c)
    <3>1. PICK i \in DOMAIN recentlyClosed : recentlyClosed' = RemoveAt(recentlyClosed, i)
      BY <2>6 DEF ReopenRequest
    <3>2. i \in 1..Len(recentlyClosed) /\ Len(recentlyClosed) \in Nat
      BY <1>0
    <3>3. recentlyClosed' \in Seq(1..created) /\ Len(recentlyClosed') = Len(recentlyClosed) - 1
      BY <1>0, <3>1, <3>2, RemoveAtIs
    <3>4. Len(recentlyClosed') <= MaxClosed
      BY <1>0, <3>2, <3>3, TabsAssumption DEF TabsAssumption
    <3> QED BY <2>6, <3>3, <3>4, RuntimesAtRest DEF ReopenRequest, tabs, talk, store
  <2>7. CASE ResumeRequest(c) \/ ReplaceRefused(c) \/ Linked(c) \/ ForkRequest(c)
    BY <1>0, <2>7, RuntimesAtRest DEF ResumeRequest, ReplaceRefused, Linked, ForkRequest, tabs, talk, store
  <2>8. CASE LoadFails(c)
    <3>1. recentlyClosed' = IF pc[c] = "reopening" THEN Push(item[c]) ELSE recentlyClosed
      BY <2>8 DEF LoadFails
    <3>2. pc[c] \in Loading => item[c] \in 1..created
      BY DEF CallTypes
    <3>3. recentlyClosed' \in Seq(1..created) /\ Len(recentlyClosed') <= MaxClosed
      BY <1>0, <2>8, <3>1, <3>2, PushTypes DEF LoadFails
    <3> QED BY <2>8, <3>3, RuntimesAtRest DEF LoadFails, tabs, talk, store
  <2>9. ASSUME NEW r \in 1..created', Apply(r, c), item[c] \in 1..created, pc[c] \in Loading,
               created' \in Runtimes, 1..created \subseteq 1..created', created' \in Nat,
               Opened(order) \subseteq Opened(order'), r = created + 1 => created' = created + 1,
               r \in (1..created) \cup {created + 1}
        PROVE  RuntimeTypes'
    <3>1. /\ session' = [session EXCEPT ![r] = item[c]] /\ chat' = [chat EXCEPT ![r] = data[c]]
          /\ answered' \subseteq answered \cup {r} /\ streaming' = streaming
          /\ recentlyClosed' = recentlyClosed /\ stored' = stored /\ disk' = disk
      BY <2>9 DEF Apply, store
    <3>2. r \in Runtimes /\ 1..created' \subseteq Runtimes
      BY <2>9, UpTo
    <3>3. session' \in [Runtimes -> Sessions]
      BY <1>0, <2>9, <3>1 DEF Sessions
    <3>4. \A q \in 1..created' : session'[q] \in 1..created'
      <4> SUFFICES ASSUME NEW q \in 1..created' PROVE session'[q] \in 1..created'
        OBVIOUS
      <4>1. CASE q = r
        BY <1>0, <2>9, <3>1, <3>2, <4>1
      <4>2. CASE q # r /\ q \in 1..created
        BY <1>0, <2>9, <3>1, <3>2, <4>2 DEF RuntimeTypes
      <4>3. CASE q # r /\ q \notin 1..created
        BY <1>0, <2>9, <3>1, <3>2, <4>3 DEF RuntimeTypes, Unmade
      <4> QED BY <4>1, <4>2, <4>3
    <3>5. ASSUME NEW q \in Unmade' PROVE session'[q] = q /\ chat'[q] = {} /\ disk'[q] = {}
      <4>1. q \in Unmade /\ q # r
        BY <2>9 DEF Unmade
      <4> QED BY <1>0, <3>1, <4>1 DEF RuntimeTypes, Unmade
    <3>6. answered' \subseteq 1..created' /\ stored' \subseteq 1..created'
      BY <1>0, <2>9, <3>1
    <3>7. recentlyClosed' \in Seq(1..created')
      BY <1>0, <2>9, <3>1, ListsOfMore
    <3> QED BY <1>0, <2>9, <3>1, <3>3, <3>4, <3>5, <3>6, <3>7 DEF RuntimeTypes, Opened
  <2>10. pc[c] \in Loading => item[c] \in 1..created
    BY DEF CallTypes
  <2>11. CASE OpenLoaded(c)
    <3>1. Register(created + 1) /\ Apply(created + 1, c) /\ pc[c] \in Loading
      BY <2>11 DEF OpenLoaded, Loading
    <3>2. /\ created' = created + 1 /\ created' \in Runtimes /\ created + 1 \in 1..created'
          /\ 1..created \subseteq 1..created' /\ Opened(order) \subseteq Opened(order') /\ created' \in Nat
      BY <1>0, <3>1, RegisterTypes
    <3> QED BY <2>9, <2>10, <3>1, <3>2
  <2>12. CASE ReplaceLoaded(c)
    <3>1. UNCHANGED <<order, created>> /\ Apply(active, c) /\ pc[c] \in Loading
      BY <2>12 DEF ReplaceLoaded, Loading
    <3>2. active \in 1..created' /\ active # created + 1
      BY <1>0, <3>1
    <3> QED BY <1>0, <2>9, <2>10, <3>1, <3>2
  <2>13. CASE ForkCreated(c)
    <3>1. /\ Register(created + 1) /\ Save(created + 1, chat[item[c]]) /\ session' = session
          /\ chat' = [chat EXCEPT ![created + 1] = chat[item[c]]]
          /\ UNCHANGED <<answered, streaming, recentlyClosed>>
      BY <2>13 DEF ForkCreated
    <3>2. /\ created' = created + 1 /\ created + 1 \in Runtimes
          /\ 1..created \subseteq 1..created' /\ Opened(order) \subseteq Opened(order')
          /\ 1..created' = 1..created \cup {created + 1} /\ created + 1 \in Unmade
      <4>1. /\ created' = created + 1 /\ created + 1 \in Runtimes
            /\ Opened(order) \subseteq Opened(order')
        BY <3>1, RegisterTypes
      <4> QED BY <1>0, <4>1 DEF Unmade
    <3>3. session[created + 1] = created + 1
      BY <3>2 DEF RuntimeTypes
    <3>4. stored' = stored \cup {created + 1} /\ disk' = [disk EXCEPT ![created + 1] = chat[item[c]]]
      BY <3>1, <3>3 DEF Save
    <3>5. ASSUME NEW q \in Unmade' PROVE session'[q] = q /\ chat'[q] = {} /\ disk'[q] = {}
      <4>1. q \in Unmade /\ q # created + 1 /\ q \in Runtimes
        BY <3>2 DEF Unmade
      <4> QED BY <1>0, <3>1, <3>4, <4>1 DEF RuntimeTypes, Sessions
    <3>6. recentlyClosed' \in Seq(1..created')
      BY <1>0, <3>1, <3>2, ListsOfMore
    <3>7. \A q \in 1..created' : session'[q] \in 1..created'
      BY <3>1, <3>2, <3>3 DEF RuntimeTypes
    <3>8. answered' \subseteq 1..created' /\ stored' \subseteq 1..created' /\ streaming' \subseteq Opened(order')
      BY <1>0, <3>1, <3>2, <3>4
    <3> QED BY <1>0, <3>1, <3>5, <3>6, <3>7, <3>8 DEF RuntimeTypes, Opened
  <2> QED BY <1>1, <2>1, <2>2, <2>3, <2>4, <2>5, <2>6, <2>7, <2>8, <2>11, <2>12, <2>13 DEF CallStep
<1>2. CASE TabStep
  <2>1. ASSUME NEW r \in Runtimes, Send(r) \/ Answer(r) PROVE RuntimeTypes'
    <3>1. PICK m : /\ chat' = [chat EXCEPT ![r] = m]
                   /\ Save(r, m) \/ UNCHANGED store
      BY <2>1 DEF Send, Answer
    <3>2. /\ UNCHANGED tabs /\ UNCHANGED recentlyClosed /\ r \in Opened(order)
          /\ streaming' \subseteq streaming \cup {r} /\ answered' \subseteq answered \cup {r}
      BY <1>0, <2>1 DEF Send, Answer
    <3>3. r \in 1..created /\ session[r] \in 1..created
      BY <1>0, <3>2 DEF RuntimeTypes
    <3>4. stored' \subseteq 1..created /\ (disk' = disk \/ disk' = [disk EXCEPT ![session[r]] = m])
      BY <1>0, <3>1, <3>3 DEF Save, store
    <3>5. ASSUME NEW q \in Unmade PROVE chat'[q] = {} /\ disk'[q] = {}
      <4>1. q # r /\ q # session[r] /\ q \in Runtimes /\ q \in Sessions
        BY <3>3 DEF Unmade, Sessions
      <4>2. chat[q] = {} /\ disk[q] = {}
        BY DEF RuntimeTypes
      <4>3. chat'[q] = chat[q]
        BY <1>0, <3>1, <4>1
      <4>4. disk'[q] = disk[q]
        BY <1>0, <3>4, <4>1
      <4> QED BY <4>2, <4>3, <4>4
    <3> QED BY <1>0, <3>2, <3>3, <3>4, <3>5 DEF RuntimeTypes, Unmade, tabs, Opened
  <2>2. CASE NewTab
    <3>1. /\ Register(created + 1) /\ session' = session /\ chat' = chat /\ disk' = disk /\ stored' = stored
          /\ UNCHANGED <<answered, streaming, recentlyClosed>>
      BY <2>2 DEF NewTab, talk, store
    <3>2. /\ created' = created + 1 /\ created + 1 \in Runtimes
          /\ 1..created \subseteq 1..created' /\ Opened(order) \subseteq Opened(order')
          /\ 1..created' = 1..created \cup {created + 1} /\ created + 1 \in Unmade
          /\ Unmade' \subseteq Unmade
      BY <1>0, <3>1, RegisterTypes DEF Unmade
    <3>3. recentlyClosed' \in Seq(1..created')
      BY <1>0, <3>1, <3>2, ListsOfMore
    <3>4. \A q \in 1..created' : session'[q] \in 1..created'
      BY <3>1, <3>2 DEF RuntimeTypes
    <3>5. \A q \in Unmade' : session'[q] = q /\ chat'[q] = {} /\ disk'[q] = {}
      BY <3>1, <3>2 DEF RuntimeTypes
    <3>6. answered' \subseteq 1..created' /\ stored' \subseteq 1..created' /\ streaming' \subseteq Opened(order')
      BY <1>0, <3>1, <3>2
    <3> QED BY <1>0, <3>1, <3>3, <3>4, <3>5, <3>6 DEF RuntimeTypes, Opened
  <2>3. CASE Reload
    <3> DEFINE n == Len(layout.sessions)
               Was(r) == layout.sessions[r - created]
               fresh == (created + 1)..(created + n)
               known == {r \in fresh : Was(r) \in stored}
               front == CHOOSE r \in fresh :
                        /\ Was(r) = layout.active
                        /\ \A q \in fresh : Was(q) = layout.active => r <= q
    <3>1. /\ created + n <= MaxRuntimes /\ created' = created + n
          /\ session' = [r \in Runtimes |-> IF r \in known THEN Was(r) ELSE r]
          /\ chat' = [r \in Runtimes |-> IF r \in known THEN disk[Was(r)] ELSE {}]
          /\ answered' = {r \in known : HasAssistant(disk[Was(r)])}
          /\ stored' = stored \cup (fresh \ known) /\ streaming' = {} /\ recentlyClosed' = <<>>
          /\ disk' = disk
      BY <2>3 DEF Reload
    <3>2. n \in Nat \ {0} /\ created + n \in Runtimes /\ \A r \in fresh : Was(r) \in Sessions
      BY <3>1, RestoredStrip
    <3> HIDE DEF n, Was
    <3>3. /\ 1..created \subseteq 1..created' /\ known \subseteq fresh /\ fresh \subseteq 1..created'
          /\ \A r \in known : Was(r) \in stored
      BY <1>0, <3>1, <3>2
    <3>4. \A q \in Unmade' : q \in Unmade /\ q \notin fresh /\ q \in Runtimes
      BY <1>0, <3>1, <3>2 DEF Unmade
    <3>5. \A q \in Unmade' : session'[q] = q /\ chat'[q] = {} /\ disk'[q] = {}
      BY <3>1, <3>3, <3>4 DEF RuntimeTypes
    <3>6. 1..created' \subseteq Runtimes
      BY <3>1, <3>2, UpTo
    <3> HIDE DEF known, fresh
    <3>7. session' \in [Runtimes -> Sessions] /\ \A q \in 1..created' : session'[q] \in 1..created'
      BY <1>0, <3>1, <3>2, <3>3, <3>6 DEF Sessions
    <3>8. answered' \subseteq 1..created' /\ stored' \subseteq 1..created' /\ streaming' \subseteq Opened(order')
      BY <1>0, <3>1, <3>3
    <3>9. recentlyClosed' \in Seq(1..created') /\ Len(recentlyClosed') <= MaxClosed
      BY <3>1, TabsAssumption DEF TabsAssumption
    <3> QED BY <3>5, <3>7, <3>8, <3>9 DEF RuntimeTypes, Opened
  <2>4. ASSUME NEW r \in Runtimes, Switch(r) PROVE RuntimeTypes'
    BY <1>0, <2>4, RuntimesAtRest DEF Switch, talk, store
  <2>5. ASSUME NEW i \in Runtimes, Move(i) PROVE RuntimeTypes'
    <3>1. i \in 1..Len(order) /\ i + 1 \in 1..Len(order) /\ i # i + 1
      BY <2>5 DEF Move, StripTypes
    <3>2. Opened(order') = Opened(order)
      BY <2>5, <3>1, SwapKeeps DEF Move, StripTypes, Opened
    <3> QED BY <1>0, <2>5, <3>2, RuntimesAtRest DEF Move, talk, store
  <2>6. CASE LayoutWrite
    BY <1>0, <2>6, RuntimesAtRest DEF LayoutWrite, tabs, talk, store
  <2> QED BY <1>2, <2>1, <2>2, <2>3, <2>4, <2>5, <2>6 DEF TabStep
<1> QED BY <1>1, <1>2 DEF Next

(* ---- 2. The layout ------------------------------------------------------ *)

(* The layout the store will have once the queue is written. *)
LastLayout == IF pending = <<>> THEN layout ELSE Last(pending)

LayoutInv ==
  (\A c \in Calls : pc[c] # "linking") => LastLayout = Layout(order, active, session)

(* snapshotRuntimeTabLayout *)
LEMMA LayoutIs ==
  ASSUME NEW strip \in Seq(Runtimes), NEW front \in ToSet(strip), NEW of \in [Runtimes -> Sessions]
  PROVE  Layout(strip, front, of) \in Layouts
<1> DEFINE ids == [i \in DOMAIN strip |-> of[strip[i]]]
<1>1. DOMAIN strip = 1..Len(strip) /\ Len(strip) \in Nat /\ ToSet(strip) \subseteq Runtimes
  BY ItemsOf
<1>2. \A i \in DOMAIN strip : of[strip[i]] \in Sessions
  BY <1>1 DEF ToSet
<1>3. ids \in Seq(Sessions)
  BY <1>1, <1>2
<1>4. of[front] \in ToSet(ids) /\ of[front] \in Sessions
  BY <1>1 DEF ToSet
<1> QED BY <1>3, <1>4 DEF Layout, Layouts

(* persist(layout): the layout to come is the snapshot. *)
LEMMA QueueIs ==
  ASSUME NEW queue \in Seq(Layouts), NEW snap \in Layouts
  PROVE  /\ Queue(queue, snap) \in Seq(Layouts)
         /\ (IF Queue(queue, snap) = <<>> THEN layout ELSE Last(Queue(queue, snap))) = snap
<1>1. CASE snap = (IF queue = <<>> THEN layout ELSE Last(queue))
  BY <1>1 DEF Queue
<1>2. CASE snap # (IF queue = <<>> THEN layout ELSE Last(queue))
  <2>1. Queue(queue, snap) = Append(queue, snap)
    BY <1>2 DEF Queue
  <2>2. /\ Append(queue, snap) \in Seq(Layouts) /\ Append(queue, snap) # <<>>
        /\ Last(Append(queue, snap)) = snap
    BY DEF Last
  <2> QED BY <2>1, <2>2
<1> QED BY <1>1, <1>2

(* An announced change is queued. *)
LEMMA EmitIs ==
  ASSUME TabsTypes, StripTypes', RuntimeTypes', Emit
  PROVE  /\ pending' \in Seq(Layouts) /\ layout' \in Layouts
         /\ LastLayout' = Layout(order, active, session)'
<1>1. order' \in Seq(Runtimes) /\ active' \in ToSet(order') /\ session' \in [Runtimes -> Sessions]
  <2>1. 1..created' \subseteq Runtimes
    BY UpTo DEF StripTypes
  <2> QED BY <2>1, ListsOfMore DEF StripTypes, RuntimeTypes, Opened
<1>2. Layout(order', active', session') \in Layouts
  BY <1>1, LayoutIs
<1>3. /\ Queue(pending, Layout(order', active', session')) \in Seq(Layouts)
      /\ (IF Queue(pending, Layout(order', active', session')) = <<>> THEN layout
          ELSE Last(Queue(pending, Layout(order', active', session'))))
         = Layout(order', active', session')
  BY <1>2, QueueIs DEF TabsTypes, LayoutTypes
<1>4. pending' = Queue(pending, Layout(order', active', session')) /\ layout' = layout
  BY DEF Emit
<1>5. Layout(order, active, session)' = Layout(order', active', session')
  BY DEF Layout
<1> QED BY <1>3, <1>4, <1>5 DEF TabsTypes, LayoutTypes, LastLayout

(* The types of the layouts are kept. *)
LEMMA LayoutsKept ==
  ASSUME TabsTypes, StripTypes', RuntimeTypes', Next
  PROVE  LayoutTypes'
<1> USE DEF TabsTypes
<1>0. pending \in Seq(Layouts) /\ layout \in Layouts /\ reloads \in 0..MaxReloads /\ shared \subseteq Sessions
  BY DEF LayoutTypes
<1>1. ASSUME UNCHANGED <<pending, layout, reloads>>, shared' \subseteq Sessions PROVE LayoutTypes'
  BY <1>0, <1>1 DEF LayoutTypes
<1>2. ASSUME Emit, reloads' = reloads, shared' \subseteq Sessions PROVE LayoutTypes'
  BY <1>0, <1>2, EmitIs DEF LayoutTypes
<1>3. NoteSharing => shared' \subseteq Sessions
  BY <1>0 DEF NoteSharing
<1>4. ASSUME NEW c \in Calls, CallStep(c) PROVE LayoutTypes'
  <2>1. CASE CloseRequest(c) \/ CloseOthersRequest(c) \/ CloseConfirmed(c)
    BY <1>0, <1>1, <2>1 DEF CloseRequest, CloseOthersRequest, CloseConfirmed, saved
  <2>2. CASE CloseDeclined(c) \/ CloseFinish(c) \/ Linked(c) \/ ForkCreated(c)
    BY <1>0, <1>2, <1>3, <2>2 DEF CloseDeclined, CloseFinish, Linked, ForkCreated
  <2>3. CASE ReopenRequest(c) \/ ResumeRequest(c) \/ LoadFails(c)
    BY <1>0, <1>1, <1>3, <2>3 DEF ReopenRequest, ResumeRequest, LoadFails, saved
  <2>4. CASE ReplaceLoaded(c) \/ ReplaceRefused(c) \/ ForkRequest(c)
    BY <1>0, <1>1, <1>3, <2>4 DEF ReplaceLoaded, ReplaceRefused, ForkRequest, Apply, saved
  <2>5. CASE OpenLoaded(c)
    <3>1. order' \in Seq(Runtimes) /\ active' \in ToSet(order') /\ session \in [Runtimes -> Sessions]
      <4>1. 1..created' \subseteq Runtimes
        BY UpTo DEF StripTypes
      <4> QED BY <4>1, ListsOfMore DEF StripTypes, RuntimeTypes, Opened
    <3>2. pending' \in Seq(Layouts)
      BY <1>0, <2>5, <3>1, LayoutIs, QueueIs DEF OpenLoaded
    <3> QED BY <1>0, <1>3, <2>5, <3>2 DEF OpenLoaded, Apply, LayoutTypes
  <2> QED BY <1>4, <2>1, <2>2, <2>3, <2>4, <2>5 DEF CallStep
<1>5. CASE TabStep
  <2>1. ASSUME NEW r \in Runtimes, Send(r) \/ Answer(r) PROVE LayoutTypes'
    BY <1>0, <1>1, <2>1 DEF Send, Answer, saved
  <2>2. ASSUME NEW r \in Runtimes, Switch(r) PROVE LayoutTypes'
    BY <1>0, <1>2, <2>2 DEF Switch
  <2>3. ASSUME NEW i \in Runtimes, Move(i) PROVE LayoutTypes'
    BY <1>0, <1>2, <2>3 DEF Move
  <2>4. CASE NewTab
    BY <1>0, <1>2, <2>4 DEF NewTab
  <2>5. CASE LayoutWrite
    <3>1. Head(pending) \in Layouts /\ Tail(pending) \in Seq(Layouts)
      BY <1>0, <2>5, ItemsOf DEF LayoutWrite
    <3> QED BY <1>0, <2>5, <3>1 DEF LayoutWrite, LayoutTypes
  <2>6. CASE Reload
    <3>1. /\ pending' = Queue(<<>>, Layout(order', active', session')) /\ layout' = layout
          /\ reloads < MaxReloads /\ reloads' = reloads + 1 /\ NoteSharing
      BY <2>6, Zenon DEF Reload
    <3>2. order' \in Seq(Runtimes) /\ active' \in ToSet(order') /\ session' \in [Runtimes -> Sessions]
      <4>1. 1..created' \subseteq Runtimes
        BY UpTo DEF StripTypes
      <4> QED BY <4>1, ListsOfMore DEF StripTypes, RuntimeTypes, Opened
    <3>3. pending' \in Seq(Layouts)
      <4>1. <<>> \in Seq(Layouts)
        OBVIOUS
      <4> QED BY <3>1, <3>2, <4>1, LayoutIs, QueueIs
    <3>4. reloads' \in 0..MaxReloads
      BY <1>0, <3>1, TabsAssumption DEF TabsAssumption
    <3> QED BY <1>0, <1>3, <3>1, <3>3, <3>4 DEF LayoutTypes
  <2> QED BY <1>5, <2>1, <2>2, <2>3, <2>4, <2>5, <2>6 DEF TabStep
<1> QED BY <1>4, <1>5 DEF Next

LEMMA TabsTypesStart ==
  Init => TabsTypes
<1> SUFFICES ASSUME Init PROVE TabsTypes
  OBVIOUS
<1> USE DEF Init
<1>0. 1 \in Runtimes /\ 1..1 = {1} /\ MaxClosed \in Nat /\ MaxReloads \in Nat /\ MaxMessages \in Nat
  BY TabsAssumption DEF TabsAssumption, Runtimes
<1>1. StripTypes
  BY <1>0 DEF StripTypes, Opened, ToSet, IsInjective
<1>2. RuntimeTypes
  BY <1>0 DEF RuntimeTypes, Unmade, Sessions
<1>3. MessageTypes
  BY <1>0 DEF MessageTypes
<1>4. CallTypes
  BY DEF CallTypes, Loading
<1>5. LayoutTypes
  <2>1. <<1>> \in Seq(Sessions) /\ 1 \in ToSet(<<1>>)
    BY <1>0 DEF Sessions, ToSet
  <2> QED BY <1>0, <2>1 DEF LayoutTypes, Layouts, Sessions
<1> QED BY <1>1, <1>2, <1>3, <1>4, <1>5 DEF TabsTypes

LEMMA TabsTypesKept ==
  TabsTypes /\ [Next]_vars => TabsTypes'
<1> SUFFICES ASSUME TabsTypes, [Next]_vars PROVE TabsTypes'
  OBVIOUS
<1>1. CASE Next
  BY <1>1, StripKept, CallsKept, MessagesTyped, RuntimesKept, LayoutsKept DEF TabsTypes
<1>2. CASE UNCHANGED vars
  BY <1>2 DEF vars, tabs, talk, store, calls, saved, TabsTypes, StripTypes, RuntimeTypes, MessageTypes,
    CallTypes, LayoutTypes, Unmade, Said, Opened
<1> QED BY <1>1, <1>2

(* The types, with what they rest on: what is not made yet has no messages,  *)
(* and the requests stay well formed.                                       *)
THEOREM TabsInvHolds == Spec => []TabsTypes
BY TabsTypesStart, TabsTypesKept, PTL DEF Spec

(* Every variable of the tabs keeps its type: there is always a tab, and one *)
(* of the strip in front, whatever is closed meanwhile.                     *)
THEOREM TabsTypesHold == Spec => []TypeOK
<1>1. TabsTypes => TypeOK
  <2> SUFFICES ASSUME TabsTypes PROVE TypeOK
    OBVIOUS
  <2> USE DEF TabsTypes
  <2>1. 1..created \subseteq Runtimes /\ Opened(order) \subseteq 1..created
    BY OpenedMade
  <2>2. order \in Seq(Runtimes)
    BY <2>1, ListsOfMore DEF StripTypes
  <2>9. \A i, j \in DOMAIN order : i # j => order[i] # order[j]
    BY DEF StripTypes, IsInjective
  <2>3. Said \subseteq Messages
    BY DEF Said
  <2>4. /\ chat \in [Runtimes -> SUBSET Messages] /\ disk \in [Sessions -> SUBSET Messages]
        /\ data \in [Calls -> SUBSET Messages]
    <3>1. SUBSET Said \subseteq SUBSET Messages
      BY <2>3
    <3> QED BY <3>1 DEF MessageTypes
  <2>5. todo \in [Calls -> Seq(Runtimes)] /\ item \in [Calls -> Runtimes \cup {None}]
    BY <2>1, ListsOfMore DEF CallTypes
  <2>6. recentlyClosed \in BoundedSeq(Sessions, MaxClosed)
    <3> DEFINE n == Len(recentlyClosed)
    <3>1. recentlyClosed \in Seq(Runtimes)
      <4>1. recentlyClosed \in Seq(1..created) /\ Seq(1..created) \subseteq Seq(Runtimes)
        BY <2>1, ListsOfMore DEF RuntimeTypes
      <4> QED BY <4>1
    <3>2. recentlyClosed \in [1..n -> Sessions] /\ n \in 0..MaxClosed
      <4>1. n \in Nat
        BY <3>1, ItemsOf
      <4>2. n <= MaxClosed /\ MaxClosed \in Nat
        BY TabsAssumption DEF RuntimeTypes, TabsAssumption
      <4> QED BY <3>1, <4>1, <4>2 DEF Sessions
    <3> HIDE DEF n
    <3>3. \E m \in 0..MaxClosed : recentlyClosed \in [1..m -> Sessions]
      BY <3>2
    <3> QED BY <3>3 DEF BoundedSeq, SeqOf
  <2>7. ASSUME NEW l \in ToSet(pending) \cup {layout} PROVE l.active \in ToSet(l.sessions)
    <3>1. ToSet(pending) \subseteq Layouts /\ layout \in Layouts
      BY ItemsOf DEF LayoutTypes
    <3> QED BY <3>1 DEF Layouts
  <2>8. answered \subseteq Runtimes /\ streaming \subseteq Opened(order) /\ stored \subseteq Sessions
    BY <2>1 DEF RuntimeTypes, Sessions
  <2> QED BY <2>1, <2>2, <2>4, <2>5, <2>6, <2>7, <2>8, <2>9 DEF TypeOK, StripTypes, RuntimeTypes, MessageTypes,
       CallTypes, LayoutTypes
<1> QED BY <1>1, TabsInvHolds, PTL

(* A step that moves no tab and no session leaves the layout to come alone. *)
LEMMA LayoutUnmoved ==
  ASSUME TabsTypes, LayoutInv,
         UNCHANGED <<order, active, session, pending, layout>>,
         \A c \in Calls : pc[c] = "linking" => pc'[c] = "linking"
  PROVE  LayoutInv'
<1>1. LastLayout' = LastLayout /\ Layout(order, active, session)' = Layout(order, active, session)
  BY DEF LastLayout, Layout
<1> QED BY <1>1 DEF LayoutInv

(* A step that announces nothing moves nothing, or its call is still linking. *)
LEMMA LayoutKept ==
  ASSUME TabsTypes, TabsTypes', LayoutInv, Next
  PROVE  LayoutInv'
<1> USE DEF TabsTypes
<1>1. Emit => LayoutInv'
  BY EmitIs DEF LayoutInv
<1>2. \A c \in Calls : pc'[c] = "linking" => LayoutInv'
  BY DEF LayoutInv
<1>3. pc \in [Calls -> CallStates]
  BY DEF CallTypes, CallStates
<1>4. ASSUME NEW c \in Calls, NEW state, pc' = [pc EXCEPT ![c] = state], pc[c] # "linking"
      PROVE  \A d \in Calls : pc[d] = "linking" => pc'[d] = "linking"
  BY <1>3, <1>4
<1>5. ASSUME NEW c \in Calls, pc[c] # "linking", NEW left, NEW kept, CloseNext(c, left, kept)
      PROVE  \A d \in Calls : pc[d] = "linking" => pc'[d] = "linking"
  <2>1. \E state : pc' = [pc EXCEPT ![c] = state]
    BY <1>5 DEF CloseNext, Done, SaveToClose, Become
  <2> QED BY <1>4, <1>5, <2>1
<1>6. ASSUME NEW c \in Calls, CallStep(c) PROVE LayoutInv'
  <2>1. CASE CloseRequest(c) \/ CloseOthersRequest(c)
    <3>1. pc[c] # "linking" /\ UNCHANGED <<order, active, session, pending, layout>>
      BY <2>1 DEF CloseRequest, CloseOthersRequest, tabs, saved
    <3>2. \E left, kept : CloseNext(c, left, kept)
      BY <2>1 DEF CloseRequest, CloseOthersRequest
    <3> QED BY <1>5, <3>1, <3>2, LayoutUnmoved
  <2>2. CASE CloseConfirmed(c)
    BY <1>4, <2>2, LayoutUnmoved DEF CloseConfirmed, SaveToClose, Become, tabs, saved
  <2>3. CASE CloseDeclined(c) \/ CloseFinish(c) \/ Linked(c) \/ ForkCreated(c)
    BY <1>1, <2>3 DEF CloseDeclined, CloseFinish, Linked, ForkCreated
  <2>4. CASE ReopenRequest(c)
    <3>1. \E state : pc' = [pc EXCEPT ![c] = state]
      BY <2>4 DEF ReopenRequest, Load, Done, Become
    <3> QED BY <1>4, <2>4, <3>1, LayoutUnmoved DEF ReopenRequest, tabs, saved
  <2>5. CASE ResumeRequest(c)
    <3>1. \E state : pc' = [pc EXCEPT ![c] = state]
      BY <2>5 DEF ResumeRequest, Load, Become
    <3> QED BY <1>4, <2>5, <3>1, LayoutUnmoved DEF ResumeRequest, tabs, saved
  <2>6. CASE LoadFails(c) \/ ReplaceRefused(c) \/ ForkRequest(c)
    <3>1. \E state : pc' = [pc EXCEPT ![c] = state]
      BY <2>6 DEF LoadFails, ReplaceRefused, ForkRequest, Done, Become
    <3>2. pc[c] # "linking"
      BY <2>6 DEF LoadFails, ReplaceRefused, ForkRequest, Loading
    <3> QED BY <1>4, <2>6, <3>1, <3>2, LayoutUnmoved DEF LoadFails, ReplaceRefused, ForkRequest, tabs, saved
  <2>7. CASE OpenLoaded(c) \/ ReplaceLoaded(c)
    <3>1. pc'[c] = "linking"
      BY <1>3, <2>7 DEF OpenLoaded, ReplaceLoaded, Apply, Become
    <3> QED BY <1>2, <3>1
  <2> QED BY <1>6, <2>1, <2>2, <2>3, <2>4, <2>5, <2>6, <2>7 DEF CallStep
<1>7. CASE TabStep
  <2>1. ASSUME NEW r \in Runtimes, Send(r) \/ Answer(r) PROVE LayoutInv'
    BY <2>1, LayoutUnmoved DEF Send, Answer, tabs, calls, saved
  <2>2. ASSUME NEW r \in Runtimes, Switch(r) PROVE LayoutInv'
    BY <1>1, <2>2 DEF Switch
  <2>3. ASSUME NEW i \in Runtimes, Move(i) PROVE LayoutInv'
    BY <1>1, <2>3 DEF Move
  <2>4. CASE NewTab
    BY <1>1, <2>4 DEF NewTab
  <2>5. CASE LayoutWrite
    <3>1. pending \in Seq(Layouts) /\ pending # <<>> /\ layout' = Head(pending) /\ pending' = Tail(pending)
      BY <2>5 DEF LayoutWrite, LayoutTypes
    <3>2. LastLayout' = LastLayout
      <4>1. Last(pending) = IF Tail(pending) = <<>> THEN Head(pending) ELSE Last(Tail(pending))
        BY <3>1, LastOfTail
      <4> QED BY <3>1, <4>1 DEF LastLayout
    <3>3. UNCHANGED <<order, active, session, pc>>
      BY <2>5 DEF LayoutWrite, tabs, calls
    <3> QED BY <3>2, <3>3 DEF LayoutInv, Layout
  <2>6. CASE Reload
    <3>1. pending' = Queue(<<>>, Layout(order', active', session')) /\ layout' = layout
      BY <2>6, Zenon DEF Reload
    <3>2. order' \in Seq(Runtimes) /\ active' \in ToSet(order') /\ session' \in [Runtimes -> Sessions]
      <4>1. 1..created' \subseteq Runtimes
        BY UpTo DEF StripTypes
      <4> QED BY <4>1, ListsOfMore DEF StripTypes, RuntimeTypes, Opened
    <3>3. <<>> \in Seq(Layouts)
      OBVIOUS
    <3>4. (IF pending' = <<>> THEN layout ELSE Last(pending')) = Layout(order', active', session')
      BY <3>1, <3>2, <3>3, LayoutIs, QueueIs
    <3> QED BY <3>1, <3>4 DEF LayoutInv, LastLayout, Layout
  <2> QED BY <1>7, <2>1, <2>2, <2>3, <2>4, <2>5, <2>6 DEF TabStep
<1> QED BY <1>6, <1>7 DEF Next

(* For any tabs, calls and queues: once the queued layouts are written and   *)
(* no session is changing, the settings store has the strip the user sees   *)
(* (createTabLayoutPersistence, and the listeners of the manager).          *)
THEOREM LayoutHolds == Spec => []LayoutCatchesUp
<1>1. Init => LayoutInv
  <2> SUFFICES ASSUME Init PROVE LayoutInv
    OBVIOUS
  <2>1. 1 \in Runtimes
    BY TabsAssumption DEF TabsAssumption, Runtimes
  <2>2. [i \in DOMAIN <<1>> |-> [r \in Runtimes |-> r][<<1>>[i]]] = <<1>>
    BY <2>1
  <2> QED BY <2>1, <2>2 DEF Init, LayoutInv, LastLayout, Layout
<1>2. TabsTypes /\ TabsTypes' /\ LayoutInv /\ [Next]_vars => LayoutInv'
  <2> SUFFICES ASSUME TabsTypes, TabsTypes', LayoutInv, [Next]_vars PROVE LayoutInv'
    OBVIOUS
  <2>1. CASE UNCHANGED vars
    BY <2>1, LayoutUnmoved DEF vars, tabs, calls, saved
  <2> QED BY <2>1, LayoutKept
<1>3. LayoutInv => LayoutCatchesUp
  BY DEF LayoutInv, LastLayout, LayoutCatchesUp
<1> QED BY <1>1, <1>2, <1>3, TabsInvHolds, PTL DEF Spec

(* ---- 3. What is in the store -------------------------------------------- *)

(* A session has one holder, or it is marked as shared. *)
Alone == \A s \in Sessions \ shared : \A g, h \in Holders(s) : g = h

Gone(c) == pc[c] = "confirming" /\ todo[c][1] \notin Opened(order)

(* A tab has all its session has in the store, and an idle one no more.     *)
OfTab(r) ==
  session[r] \notin shared =>
    /\ disk[session[r]] \subseteq chat[r]
    /\ r \notin streaming => chat[r] \subseteq disk[session[r]]

(* What was read for a call is still what the store has.                    *)
OfLoad(c) == pc[c] \in Loading /\ item[c] \notin shared => data[c] = disk[item[c]]

(* A tab another call has closed while the user is asked.                   *)
OfGone(c) ==
  Gone(c) /\ session[todo[c][1]] \notin shared
    => disk[session[todo[c][1]]] \subseteq chat[todo[c][1]]

(* What a close saves stays saved until the tab goes. *)
Kept(c) == IF todo[c][1] \in answered THEN chat[todo[c][1]] ELSE data[c] \cap chat[todo[c][1]]
OfClose(c) ==
  pc[c] = "saving" /\ session[todo[c][1]] \notin shared
    => Kept(c) \subseteq disk[session[todo[c][1]]]

SessionsInv ==
  /\ Alone
  /\ \A r \in Opened(order) : OfTab(r)
  /\ \A c \in Calls : OfLoad(c) /\ OfGone(c) /\ OfClose(c)

(* The store loses nothing. *)
Grows == shared \subseteq shared' /\ \A s \in Sessions \ shared : disk[s] \subseteq disk'[s]

(* The three kinds of holders of a session. *)
LEMMA HoldersOf ==
  ASSUME NEW s
  PROVE  /\ \A r \in Opened(order) : session[r] = s => <<"tab", r>> \in Holders(s)
         /\ \A c \in Calls : pc[c] \in Loading /\ item[c] = s => <<"call", c>> \in Holders(s)
         /\ \A c \in Calls : Gone(c) /\ session[todo[c][1]] = s => <<"call", c>> \in Holders(s)
BY DEF Holders, Gone

(* Nobody else holds the session of a holder. *)
LEMMA HeldAlone ==
  ASSUME TabsTypes, Alone, NEW s \in Sessions \ shared
  PROVE  /\ \A r, q \in Opened(order) : session[r] = s /\ session[q] = s => r = q
         /\ \A r \in Opened(order), c \in Calls :
              ~ (session[r] = s /\ pc[c] \in Loading /\ item[c] = s)
         /\ \A r \in Opened(order), c \in Calls :
              ~ (session[r] = s /\ Gone(c) /\ session[todo[c][1]] = s)
         /\ \A c, d \in Calls :
              ~ (pc[c] \in Loading /\ item[c] = s /\ Gone(d) /\ session[todo[d][1]] = s)
         /\ \A c, d \in Calls :
              Gone(c) /\ session[todo[c][1]] = s /\ Gone(d) /\ session[todo[d][1]] = s => c = d
<1>0. \A g, h \in Holders(s) : g = h
  BY DEF Alone
<1>1. \A r, q \in Opened(order) : session[r] = s /\ session[q] = s => r = q
  BY <1>0, HoldersOf
<1>2. \A r \in Opened(order), c \in Calls : ~ (session[r] = s /\ pc[c] \in Loading /\ item[c] = s)
  <2> SUFFICES ASSUME NEW r \in Opened(order), NEW c \in Calls, session[r] = s, pc[c] \in Loading, item[c] = s
               PROVE  FALSE
    OBVIOUS
  <2>1. <<"tab", r>> = <<"call", c>>
    BY <1>0, HoldersOf
  <2> QED BY <2>1
<1>3. \A r \in Opened(order), c \in Calls : ~ (session[r] = s /\ Gone(c) /\ session[todo[c][1]] = s)
  <2> SUFFICES ASSUME NEW r \in Opened(order), NEW c \in Calls, session[r] = s, Gone(c), session[todo[c][1]] = s
               PROVE  FALSE
    OBVIOUS
  <2>1. <<"tab", r>> = <<"call", c>>
    BY <1>0, HoldersOf
  <2> QED BY <2>1
<1>4. \A c, d \in Calls :
        Gone(c) /\ session[todo[c][1]] = s /\ Gone(d) /\ session[todo[d][1]] = s => c = d
  BY <1>0, HoldersOf
<1>5. \A c, d \in Calls : ~ (pc[c] \in Loading /\ item[c] = s /\ Gone(d) /\ session[todo[d][1]] = s)
  <2> SUFFICES ASSUME NEW c \in Calls, NEW d \in Calls, pc[c] \in Loading, item[c] = s, Gone(d),
                      session[todo[d][1]] = s
               PROVE  FALSE
    OBVIOUS
  <2>1. c = d
    BY <1>0, HoldersOf
  <2> QED BY <2>1 DEF Gone, Loading
<1> QED BY <1>1, <1>2, <1>3, <1>4, <1>5

(* Sharing that is noted leaves the other sessions with one holder. *)
LEMMA NotedAlone ==
  ASSUME NoteSharing PROVE Alone' /\ shared \subseteq shared'
<1>1. shared' = shared \cup {s \in Sessions : \E g, h \in Holders(s)' : g # h}
  BY DEF NoteSharing
<1>2. shared \subseteq shared'
  BY <1>1
<1>3. \A s \in Sessions : s \notin shared' => \A g, h \in Holders(s)' : g = h
  BY <1>1
<1> QED BY <1>2, <1>3 DEF Alone, Sessions, Runtimes

(* Who lets go of a session does not share it. *)
LEMMA LetGo ==
  ASSUME Alone, Opened(order') \subseteq Opened(order), session' = session, shared' = shared,
         \A d \in Calls : pc'[d] \in Loading => pc[d] \in Loading /\ item'[d] = item[d],
         \A d \in Calls : Gone(d)' => Gone(d) /\ todo'[d] = todo[d]
  PROVE  Alone'
<1>1. ASSUME NEW s PROVE Holders(s)' \subseteq Holders(s)
  <2>1. \A r \in Opened(order)' : session'[r] = s => <<"tab", r>> \in Holders(s)
    BY HoldersOf DEF Opened
  <2>2. \A d \in Calls : pc'[d] \in Loading /\ item'[d] = s => <<"call", d>> \in Holders(s)
    BY HoldersOf
  <2>3. ASSUME NEW d \in Calls, pc'[d] = "confirming", todo'[d][1] \notin Opened(order)', session'[todo'[d][1]] = s
        PROVE  <<"call", d>> \in Holders(s)
    <3>1. Gone(d)'
      BY <2>3 DEF Gone
    <3>2. Gone(d) /\ todo'[d] = todo[d]
      BY <3>1
    <3> QED BY <2>3, <3>2, HoldersOf
  <2> QED BY <2>1, <2>2, <2>3 DEF Holders, Loading
<1> QED BY <1>1 DEF Alone, Sessions, Runtimes

(* A holder saves what it has: its session grows, and no other holder has    *)
(* the session.                                                             *)
Saver(r) == r \in Opened(order) \/ \E c \in Calls : Gone(c) /\ todo[c][1] = r

LEMMA SaverSaves ==
  ASSUME TabsTypes, SessionsInv, NEW r \in 1..created, Saver(r), NEW m, chat[r] \subseteq m,
         disk' = [disk EXCEPT ![session[r]] = m]
  PROVE  /\ \A s \in Sessions \ shared : disk[s] \subseteq disk'[s]
         /\ disk'[session[r]] = m
         /\ \A q \in Opened(order) : q # r /\ session[q] \notin shared => disk'[session[q]] = disk[session[q]]
         /\ \A d \in Calls : pc[d] \in Loading /\ item[d] \notin shared => disk'[item[d]] = disk[item[d]]
         /\ \A d \in Calls : Gone(d) /\ todo[d][1] # r /\ session[todo[d][1]] \notin shared
                               => disk'[session[todo[d][1]]] = disk[session[todo[d][1]]]
<1>0. /\ session[r] \in Sessions /\ disk \in [Sessions -> SUBSET Said]
      /\ Opened(order) \subseteq Runtimes /\ session \in [Runtimes -> Sessions]
  <2>1. Opened(order) \subseteq 1..created /\ 1..created \subseteq Runtimes
    BY OpenedMade DEF TabsTypes
  <2> QED BY <2>1 DEF TabsTypes, RuntimeTypes, MessageTypes
<1>1. disk'[session[r]] = m /\ \A s \in Sessions : s # session[r] => disk'[s] = disk[s]
  BY <1>0
<1>2. ASSUME NEW s \in Sessions, s \notin shared, s = session[r]
      PROVE  /\ disk[s] \subseteq chat[r]
             /\ \A q \in Opened(order) : q # r => session[q] # s
             /\ \A d \in Calls : pc[d] \in Loading => item[d] # s
             /\ \A d \in Calls : Gone(d) /\ todo[d][1] # r => session[todo[d][1]] # s
  <2>0. s \in Sessions \ shared
    BY <1>2
  <2>1. CASE r \in Opened(order)
    <3>1. disk[s] \subseteq chat[r]
      BY <1>2, <2>1 DEF SessionsInv, OfTab
    <3> QED BY <1>2, <2>0, <2>1, <3>1, HeldAlone DEF SessionsInv
  <2>2. ASSUME NEW c \in Calls, Gone(c), todo[c][1] = r
        PROVE  /\ disk[s] \subseteq chat[r]
               /\ \A q \in Opened(order) : q # r => session[q] # s
               /\ \A d \in Calls : pc[d] \in Loading => item[d] # s
               /\ \A d \in Calls : Gone(d) /\ todo[d][1] # r => session[todo[d][1]] # s
    <3>1. disk[s] \subseteq chat[r]
      BY <1>2, <2>2 DEF SessionsInv, OfGone
    <3> QED BY <1>2, <2>0, <2>2, <3>1, HeldAlone DEF SessionsInv
  <2> QED BY <2>1, <2>2 DEF Saver
<1>3. \A s \in Sessions \ shared : disk[s] \subseteq disk'[s]
  BY <1>1, <1>2
<1>4. \A q \in Opened(order) : q # r /\ session[q] \notin shared => disk'[session[q]] = disk[session[q]]
  BY <1>0, <1>1, <1>2
<1>5. ASSUME NEW d \in Calls, pc[d] \in Loading, item[d] \notin shared PROVE disk'[item[d]] = disk[item[d]]
  <2>1. item[d] \in Sessions
    <3>1. item[d] \in 1..created
      BY <1>5 DEF TabsTypes, CallTypes
    <3> QED BY <3>1, OpenedMade DEF TabsTypes, Sessions
  <2> QED BY <1>1, <1>2, <1>5, <2>1
<1>6. ASSUME NEW d \in Calls, Gone(d), todo[d][1] # r, session[todo[d][1]] \notin shared
      PROVE  disk'[session[todo[d][1]]] = disk[session[todo[d][1]]]
  <2>1. session[todo[d][1]] \in Sessions
    <3>1. todo[d][1] \in 1..created
      BY <1>6, LeftTypes DEF Gone
    <3>2. todo[d][1] \in Runtimes
      BY <3>1, OpenedMade DEF TabsTypes
    <3> QED BY <1>0, <3>2
  <2> QED BY <1>1, <1>2, <1>6, <2>1
<1> QED BY <1>1, <1>3, <1>4, <1>5, <1>6

(* The other calls are where they were. *)
OthersWait(c) ==
  \A d \in Calls \ {c} : pc'[d] = pc[d] /\ todo'[d] = todo[d] /\ item'[d] = item[d] /\ data'[d] = data[d]

(* A step that writes the state of one call leaves the others. *)
LEMMA OneCallMoves ==
  ASSUME TabsTypes, NEW c \in Calls,
         \/ \E x : pc' = [pc EXCEPT ![c] = x]
         \/ pc' = pc,
         \/ \E x : todo' = [todo EXCEPT ![c] = x]
         \/ todo' = todo,
         \/ \E x : item' = [item EXCEPT ![c] = x]
         \/ item' = item,
         \/ \E x : data' = [data EXCEPT ![c] = x]
         \/ data' = data
  PROVE  OthersWait(c)
BY DEF TabsTypes, CallTypes, MessageTypes, OthersWait

(* A step towards a close, or one that ends a call: at most one tab or one   *)
(* call saves what it has.                                                  *)
LEMMA CloseStep ==
  ASSUME TabsTypes, SessionsInv, NEW c \in Calls, OthersWait(c),
         UNCHANGED <<session, chat, answered>>,
         Opened(order') \subseteq Opened(order),
         Opened(order') \ streaming' \subseteq Opened(order) \ streaming,
         shared \subseteq shared', Alone',
         pc'[c] \notin Loading, pc'[c] = "confirming" => todo'[c][1] \in Opened(order'),
         \/ disk' = disk /\ pc'[c] # "saving"
         \/ \E r \in 1..created : /\ Saver(r) /\ disk' = [disk EXCEPT ![session[r]] = chat[r]]
                                  /\ pc'[c] = "saving" => todo'[c][1] = r
  PROVE  SessionsInv' /\ Grows
<1> DEFINE Saves(r) == /\ Saver(r) /\ disk' = [disk EXCEPT ![session[r]] = chat[r]]
                       /\ pc'[c] = "saving" => todo'[c][1] = r
<1>0. (disk' = disk /\ pc'[c] # "saving") \/ \E r \in 1..created : Saves(r)
  OBVIOUS
<1>9. ASSUME NEW r \in 1..created, Saves(r)
      PROVE  /\ \A s \in Sessions \ shared : disk[s] \subseteq disk'[s]
             /\ disk'[session[r]] = chat[r]
             /\ \A q \in Opened(order) :
                  q # r /\ session[q] \notin shared => disk'[session[q]] = disk[session[q]]
             /\ \A d \in Calls :
                  pc[d] \in Loading /\ item[d] \notin shared => disk'[item[d]] = disk[item[d]]
             /\ \A d \in Calls : Gone(d) /\ todo[d][1] # r /\ session[todo[d][1]] \notin shared
                  => disk'[session[todo[d][1]]] = disk[session[todo[d][1]]]
             /\ pc'[c] = "saving" => todo'[c][1] = r
  <2>1. chat[r] \subseteq chat[r]
    OBVIOUS
  <2> QED BY <1>9, <2>1, SaverSaves DEF Saves
<1> HIDE DEF Saves
<1>1. ASSUME disk' = disk, pc'[c] # "saving" PROVE Grows
  BY <1>1 DEF Grows
<1>2. ASSUME NEW r \in 1..created, Saves(r) PROVE Grows
  BY <1>2, <1>9 DEF Grows
<1>3. Grows
  BY <1>0, <1>1, <1>2
<1>4. ASSUME NEW q \in Opened(order') PROVE OfTab(q)'
  <2>1. q \in Opened(order) /\ OfTab(q) /\ (q \notin streaming' => q \notin streaming)
    BY DEF SessionsInv
  <2>2. CASE disk' = disk
    BY <2>1, <2>2 DEF OfTab
  <2>3. ASSUME NEW r \in 1..created, Saves(r) PROVE OfTab(q)'
    <3>1. CASE q = r
      <4>1. disk'[session[q]] = chat[q]
        BY <2>3, <3>1, <1>9
      <4> QED BY <4>1 DEF OfTab
    <3>2. CASE q # r
      <4>1. session[q] \notin shared => disk'[session[q]] = disk[session[q]]
        BY <2>1, <2>3, <3>2, <1>9
      <4> QED BY <2>1, <4>1 DEF OfTab
    <3> QED BY <3>1, <3>2
  <2> QED BY <1>0, <2>2, <2>3
<1>5. ASSUME NEW d \in Calls PROVE OfLoad(d)'
  <2> SUFFICES ASSUME pc'[d] \in Loading, item'[d] \notin shared' PROVE data'[d] = disk'[item'[d]]
    BY DEF OfLoad, Loading
  <2>1. /\ d # c /\ pc[d] \in Loading /\ item'[d] = item[d] /\ data'[d] = data[d]
        /\ item[d] \notin shared /\ data[d] = disk[item[d]]
    BY DEF OthersWait, SessionsInv, OfLoad
  <2>2. disk'[item[d]] = disk[item[d]]
    <3>1. ASSUME NEW r \in 1..created, Saves(r) PROVE disk'[item[d]] = disk[item[d]]
      BY <2>1, <3>1, <1>9
    <3> QED BY <1>0, <3>1
  <2> QED BY <2>1, <2>2
<1>6. ASSUME NEW d \in Calls PROVE OfGone(d)'
  <2> DEFINE q == todo[d][1]
  <2> SUFFICES ASSUME pc'[d] = "confirming", todo'[d][1] \notin Opened(order'),
                      session[todo'[d][1]] \notin shared'
               PROVE  disk'[session[todo'[d][1]]] \subseteq chat[todo'[d][1]]
    BY DEF OfGone, Gone, Opened
  <2>1. d # c /\ pc[d] = "confirming" /\ todo'[d] = todo[d] /\ session[q] \notin shared
    BY DEF OthersWait
  <2>2. disk[session[q]] \subseteq chat[q]
    <3>1. CASE q \in Opened(order)
      BY <2>1, <3>1 DEF SessionsInv, OfTab
    <3>2. CASE q \notin Opened(order)
      BY <2>1, <3>2 DEF SessionsInv, OfGone, Gone
    <3> QED BY <3>1, <3>2
  <2>3. ASSUME NEW r \in 1..created, Saves(r) PROVE disk'[session[q]] \subseteq chat[q]
    <3>1. CASE q = r
      BY <2>3, <3>1, <1>9
    <3>2. CASE q # r /\ q \in Opened(order)
      <4>1. disk'[session[q]] = disk[session[q]]
        BY <2>1, <2>3, <3>2, <1>9
      <4> QED BY <2>2, <4>1
    <3>3. CASE q # r /\ q \notin Opened(order)
      <4>1. Gone(d)
        BY <2>1, <3>3 DEF Gone
      <4>2. disk'[session[q]] = disk[session[q]]
        BY <2>1, <2>3, <3>3, <4>1, <1>9
      <4> QED BY <2>2, <4>2
    <3> QED BY <3>1, <3>2, <3>3
  <2> QED BY <1>0, <2>1, <2>2, <2>3
<1>7. ASSUME NEW d \in Calls PROVE OfClose(d)'
  <2> DEFINE q == todo[d][1]
  <2>1. CASE d # c
    <3> SUFFICES ASSUME pc'[d] = "saving", session[todo'[d][1]] \notin shared'
                 PROVE  Kept(d)' \subseteq disk'[session[todo'[d][1]]]
      BY DEF OfClose
    <3>1. pc[d] = "saving" /\ todo'[d] = todo[d] /\ data'[d] = data[d] /\ session[q] \notin shared
      BY <2>1 DEF OthersWait
    <3>2. Kept(d) \subseteq disk[session[q]] /\ Kept(d)' = Kept(d)
      BY <3>1 DEF SessionsInv, OfClose, Kept
    <3>3. session[q] \in Sessions
      <4>1. q \in 1..created
        BY <3>1, LeftTypes
      <4> QED BY <4>1, UpTo DEF TabsTypes, StripTypes, RuntimeTypes
    <3>4. disk[session[q]] \subseteq disk'[session[q]]
      BY <1>3, <3>1, <3>3 DEF Grows
    <3> QED BY <3>1, <3>2, <3>4
  <2>2. CASE d = c
    <3> SUFFICES ASSUME pc'[c] = "saving" PROVE OfClose(d)'
      BY <2>2 DEF OfClose
    <3>1. PICK r \in 1..created : Saves(r)
      BY <1>0
    <3>2. todo'[c][1] = r /\ disk'[session[r]] = chat[r]
      BY <3>1, <1>9
    <3>3. Kept(d)' \subseteq chat[r]
      BY <2>2, <3>2 DEF Kept
    <3> QED BY <2>2, <3>2, <3>3 DEF OfClose
  <2> QED BY <2>1, <2>2
<1>8. \A q \in Opened(order)' : OfTab(q)'
  BY <1>4 DEF Opened
<1> QED BY <1>3, <1>5, <1>6, <1>7, <1>8 DEF SessionsInv

(* The sessions of tabs and calls are of runtimes made so far. *)
LEMMA SessionsMade ==
  ASSUME TabsTypes PROVE /\ \A r \in Runtimes : session[r] \in Sessions
                         /\ \A c \in Calls : pc[c] \in {"confirming", "saving"} =>
                              todo[c][1] \in 1..created /\ session[todo[c][1]] \in 1..created
                         /\ \A c \in Calls : pc[c] \in Loading => item[c] \in 1..created
                         /\ 1..created \subseteq Sessions /\ Opened(order) \subseteq 1..created
<1>1. ASSUME NEW c \in Calls, pc[c] \in {"confirming", "saving"}
      PROVE  todo[c][1] \in 1..created /\ session[todo[c][1]] \in 1..created
  <2>1. todo[c][1] \in 1..created
    BY <1>1, LeftTypes
  <2> QED BY <2>1 DEF TabsTypes, RuntimeTypes
<1> QED BY <1>1, OpenedMade DEF TabsTypes, RuntimeTypes, CallTypes, Sessions

(* A session is read for a call. *)
LEMMA LoadStep ==
  ASSUME TabsTypes, SessionsInv, NEW c \in Calls, OthersWait(c), NEW s, NEW purpose \in Loading,
         UNCHANGED <<order, session, chat, answered, streaming, disk>>,
         Load(c, s, purpose), shared \subseteq shared', Alone'
  PROVE  SessionsInv' /\ Grows
<1>1. pc'[c] = purpose /\ item'[c] = s /\ data'[c] = disk[s]
  BY DEF Load, Become, TabsTypes, CallTypes, MessageTypes
<1>2. Grows
  BY DEF Grows
<1>3. \A q \in Opened(order)' : OfTab(q)'
  BY DEF SessionsInv, OfTab, Opened
<1>4. ASSUME NEW d \in Calls PROVE OfLoad(d)' /\ OfGone(d)' /\ OfClose(d)'
  <2>1. CASE d = c
    BY <1>1, <2>1 DEF OfLoad, OfGone, OfClose, Gone, Loading
  <2>2. CASE d # c
    <3>1. pc'[d] = pc[d] /\ todo'[d] = todo[d] /\ item'[d] = item[d] /\ data'[d] = data[d]
      BY <2>2 DEF OthersWait
    <3> QED BY <3>1 DEF SessionsInv, OfLoad, OfGone, OfClose, Gone, Kept, Opened
  <2> QED BY <2>1, <2>2
<1> QED BY <1>2, <1>3, <1>4 DEF SessionsInv

(* The loaded session goes into a tab, a new one or the one in front. *)
LEMMA ApplyStep ==
  ASSUME TabsTypes, SessionsInv, NEW c \in Calls, NEW r \in Runtimes, Apply(r, c), pc[c] \in Loading,
         OthersWait(c), Opened(order') = Opened(order) \cup {r}, Alone', shared \subseteq shared'
  PROVE  SessionsInv' /\ Grows
<1>0. /\ session'[r] = item[c] /\ chat'[r] = data[c] /\ disk' = disk /\ streaming' = streaming
      /\ \A q \in Runtimes : q # r => session'[q] = session[q] /\ chat'[q] = chat[q]
      /\ \A q \in Runtimes : q # r => (q \in answered' <=> q \in answered)
      /\ pc'[c] = "linking"
  BY DEF Apply, store, Become, TabsTypes, RuntimeTypes, MessageTypes, CallTypes
<1>1. item[c] \notin shared' => data[c] = disk[item[c]]
  BY DEF SessionsInv, OfLoad
<1>2. Grows
  BY <1>0 DEF Grows
<1>3. ASSUME NEW q \in Opened(order)' PROVE OfTab(q)'
  <2>1. CASE q = r
    BY <1>0, <1>1, <2>1 DEF OfTab
  <2>2. CASE q # r
    <3>1. q \in Opened(order) /\ q \in Runtimes
      BY <2>2, SessionsMade DEF Opened, Sessions
    <3> QED BY <1>0, <2>2, <3>1 DEF SessionsInv, OfTab
  <2> QED BY <2>1, <2>2
<1>4. ASSUME NEW d \in Calls PROVE OfLoad(d)' /\ OfGone(d)' /\ OfClose(d)'
  <2>1. CASE d = c
    BY <1>0, <2>1 DEF OfLoad, OfGone, OfClose, Gone, Loading
  <2>2. CASE d # c
    <3> DEFINE q == todo[d][1]
    <3>1. pc'[d] = pc[d] /\ todo'[d] = todo[d] /\ item'[d] = item[d] /\ data'[d] = data[d]
      BY <2>2 DEF OthersWait
    <3>2. OfLoad(d)'
      BY <1>0, <3>1 DEF SessionsInv, OfLoad
    <3>3. pc[d] \in {"confirming", "saving"} => q \in Runtimes
      BY SessionsMade DEF Sessions
    <3>4. OfGone(d)'
      <4> SUFFICES ASSUME pc[d] = "confirming", q \notin Opened(order)', session'[q] \notin shared'
                   PROVE  disk[session'[q]] \subseteq chat'[q]
        BY <1>0, <3>1 DEF OfGone, Gone
      <4>1. q \in Runtimes /\ q # r /\ q \notin Opened(order)
        BY <3>3 DEF Opened
      <4>2. session'[q] = session[q] /\ chat'[q] = chat[q] /\ session[q] \notin shared
        BY <1>0, <4>1
      <4> QED BY <4>1, <4>2 DEF SessionsInv, OfGone, Gone
    <3>5. OfClose(d)'
      <4> SUFFICES ASSUME pc[d] = "saving", session'[q] \notin shared'
                   PROVE  Kept(d)' \subseteq disk[session'[q]]
        BY <1>0, <3>1 DEF OfClose
      <4>1. CASE q = r
        <5>1. Kept(d)' \subseteq chat'[q]
          BY <3>1 DEF Kept
        <5> QED BY <1>0, <1>1, <4>1, <5>1
      <4>2. CASE q # r
        <5>1. Kept(d)' = Kept(d) /\ session'[q] = session[q]
          BY <1>0, <3>1, <3>3, <4>2 DEF Kept
        <5> QED BY <5>1 DEF SessionsInv, OfClose
      <4> QED BY <4>1, <4>2
    <3> QED BY <3>2, <3>4, <3>5
  <2> QED BY <2>1, <2>2
<1> QED BY <1>2, <1>3, <1>4 DEF SessionsInv

(* A new tab has a session nobody holds; a copy is saved at once. *)
LEMMA NewStep ==
  ASSUME TabsTypes, SessionsInv, NEW front, Register(front), NEW m,
         UNCHANGED <<session, answered, streaming, shared>>,
         \A r \in 1..created : chat'[r] = chat[r],
         chat'[created + 1] = m, disk'[created + 1] = m,
         \A s \in Sessions : s # created + 1 => disk'[s] = disk[s],
         \A c \in Calls : /\ pc'[c] \in {"confirming", "saving"} \cup Loading
                             => /\ pc'[c] = pc[c] /\ todo'[c] = todo[c]
                                /\ item'[c] = item[c] /\ data'[c] = data[c]
  PROVE  SessionsInv' /\ Grows
<1> DEFINE n == created + 1
<1>0. /\ n \in Runtimes /\ n \notin 1..created /\ Opened(order') = Opened(order) \cup {n}
      /\ n \in Unmade /\ session[n] = n /\ disk[n] = {}
  <2>1. /\ created + 1 \in Runtimes /\ created \in Nat
        /\ Opened(order') = Opened(order) \cup {created + 1}
    BY RegisterTypes DEF TabsTypes
  <2>2. n \in Unmade /\ n \notin 1..created
    BY <2>1 DEF Unmade
  <2> QED BY <2>1, <2>2 DEF TabsTypes, RuntimeTypes
<1> HIDE DEF n
<1>1. Grows
  BY <1>0 DEF Grows, n
<1>2. /\ \A r \in 1..created : session[r] \in 1..created /\ session[r] # n
      /\ \A c \in Calls : pc[c] \in {"confirming", "saving"} =>
                              todo[c][1] \in 1..created /\ session[todo[c][1]] \in 1..created
      /\ \A c \in Calls : pc[c] \in Loading => item[c] \in 1..created
      /\ 1..created \subseteq Sessions /\ Opened(order) \subseteq 1..created
  BY <1>0, SessionsMade DEF TabsTypes, RuntimeTypes
<1>3. ASSUME NEW s, s # n PROVE Holders(s)' \subseteq Holders(s)
  <2>1. \A r \in Opened(order)' : session'[r] = s => <<"tab", r>> \in Holders(s)
    BY <1>0, <1>3, HoldersOf DEF Opened
  <2>2. \A d \in Calls : pc'[d] \in Loading /\ item'[d] = s => <<"call", d>> \in Holders(s)
    BY HoldersOf
  <2>3. ASSUME NEW d \in Calls, pc'[d] = "confirming", todo'[d][1] \notin Opened(order)', session'[todo'[d][1]] = s
        PROVE  <<"call", d>> \in Holders(s)
    <3>1. pc[d] = "confirming" /\ todo[d][1] \notin Opened(order) /\ session[todo[d][1]] = s
      BY <1>0, <2>3 DEF Opened
    <3> QED BY <3>1, HoldersOf DEF Gone
  <2> QED BY <2>1, <2>2, <2>3 DEF Holders, Loading
<1>4. ASSUME NEW s, s = n PROVE Holders(s)' \subseteq {<<"tab", n>>}
  <2>1. \A r \in Opened(order)' : session'[r] = s => r = n
    BY <1>0, <1>2, <1>4 DEF Opened
  <2>2. \A d \in Calls : pc'[d] \in Loading => item'[d] # s
    BY <1>0, <1>2, <1>4
  <2>3. \A d \in Calls : pc'[d] = "confirming" => session'[todo'[d][1]] # s
    BY <1>0, <1>2, <1>4
  <2> QED BY <2>1, <2>2, <2>3 DEF Holders, Loading
<1>5. Alone'
  <2>1. ASSUME NEW s \in Sessions, s \notin shared' PROVE \A g, h \in Holders(s)' : g = h
    <3>1. CASE s = n
      BY <1>4, <3>1
    <3>2. CASE s # n
      <4>1. \A g, h \in Holders(s) : g = h
        BY <2>1 DEF SessionsInv, Alone
      <4> QED BY <1>3, <3>2, <4>1
    <3> QED BY <3>1, <3>2
  <2> QED BY <2>1 DEF Alone, Sessions, Runtimes
<1>6. ASSUME NEW q \in Opened(order)' PROVE OfTab(q)'
  <2>1. CASE q = n
    BY <1>0, <2>1 DEF OfTab, n
  <2>2. CASE q # n
    <3>1. q \in Opened(order) /\ q \in 1..created /\ session[q] \in Sessions /\ session[q] # n
      BY <1>0, <1>2, <2>2 DEF Opened
    <3>2. chat'[q] = chat[q] /\ disk'[session[q]] = disk[session[q]]
      BY <3>1 DEF n
    <3> QED BY <3>1, <3>2 DEF SessionsInv, OfTab
  <2> QED BY <2>1, <2>2
<1>7. \A s \in 1..created : disk'[s] = disk[s]
  BY <1>0, <1>2 DEF n
<1>8. ASSUME NEW d \in Calls PROVE OfLoad(d)' /\ OfGone(d)' /\ OfClose(d)'
  <2> DEFINE q == todo[d][1]
  <2>1. OfLoad(d)'
    <3> SUFFICES ASSUME pc'[d] \in Loading, item'[d] \notin shared' PROVE data'[d] = disk'[item'[d]]
      BY DEF OfLoad, Loading
    <3>1. pc[d] \in Loading /\ item'[d] = item[d] /\ data'[d] = data[d]
      OBVIOUS
    <3>2. item[d] \in 1..created
      BY <1>2, <3>1
    <3> QED BY <1>7, <3>1, <3>2 DEF SessionsInv, OfLoad
  <2>2. OfGone(d)'
    <3> SUFFICES ASSUME pc'[d] = "confirming", todo'[d][1] \notin Opened(order)', session[todo'[d][1]] \notin shared
                 PROVE  disk'[session[todo'[d][1]]] \subseteq chat'[todo'[d][1]]
      BY DEF OfGone, Gone
    <3>1. pc[d] = "confirming" /\ todo'[d] = todo[d] /\ q \notin Opened(order)
      BY <1>0 DEF Opened
    <3>2. q \in 1..created /\ session[q] \in 1..created
      BY <1>2, <3>1
    <3>3. disk[session[q]] \subseteq chat[q]
      BY <3>1 DEF SessionsInv, OfGone, Gone
    <3> QED BY <1>7, <3>1, <3>2, <3>3
  <2>3. OfClose(d)'
    <3> SUFFICES ASSUME pc'[d] = "saving", session[todo'[d][1]] \notin shared
                 PROVE  Kept(d)' \subseteq disk'[session[todo'[d][1]]]
      BY DEF OfClose
    <3>1. pc[d] = "saving" /\ todo'[d] = todo[d] /\ data'[d] = data[d]
      OBVIOUS
    <3>2. q \in 1..created /\ session[q] \in 1..created
      BY <1>2, <3>1
    <3>3. Kept(d) \subseteq disk[session[q]]
      BY <3>1 DEF SessionsInv, OfClose
    <3>4. Kept(d)' = Kept(d)
      BY <3>1, <3>2 DEF Kept
    <3> QED BY <1>7, <3>1, <3>2, <3>3, <3>4
  <2> QED BY <2>1, <2>2, <2>3
<1> QED BY <1>1, <1>5, <1>6, <1>8 DEF SessionsInv

(* A tab says or hears something; it is saved, or the tab stays at work.     *)
LEMMA TalkStep ==
  ASSUME TabsTypes, SessionsInv, NEW r \in Opened(order), NEW who,
         UNCHANGED <<tabs, calls, shared>>,
         chat' = [chat EXCEPT ![r] = chat[r] \cup {<<who, sent + 1>>}],
         \A q \in Opened(order) : q # r => (q \in streaming' <=> q \in streaming),
         \A q \in Runtimes : q # r => (q \in answered' <=> q \in answered),
         \/ Save(r, chat[r] \cup {<<who, sent + 1>>})
         \/ UNCHANGED store /\ r \in streaming' /\ r \notin answered'
  PROVE  SessionsInv' /\ Grows
<1> DEFINE m == chat[r] \cup {<<who, sent + 1>>}
<1>0. /\ r \in 1..created /\ r \in Runtimes /\ Opened(order)' = Opened(order)
      /\ chat'[r] = m /\ \A q \in Runtimes : q # r => chat'[q] = chat[q]
      /\ Opened(order) \subseteq Runtimes /\ chat[r] \subseteq m
  BY SessionsMade DEF TabsTypes, MessageTypes, tabs, Opened, Sessions
<1>1. CASE Save(r, m)
  <2>1. disk' = [disk EXCEPT ![session[r]] = m] /\ Saver(r)
    BY <1>1 DEF Save, Saver
  <2> HIDE DEF m
  <2>2. /\ \A s \in Sessions \ shared : disk[s] \subseteq disk'[s]
        /\ disk'[session[r]] = m
        /\ \A q \in Opened(order) : q # r /\ session[q] \notin shared => disk'[session[q]] = disk[session[q]]
        /\ \A d \in Calls : pc[d] \in Loading /\ item[d] \notin shared => disk'[item[d]] = disk[item[d]]
        /\ \A d \in Calls : Gone(d) /\ todo[d][1] # r /\ session[todo[d][1]] \notin shared
                               => disk'[session[todo[d][1]]] = disk[session[todo[d][1]]]
    BY <1>0, <2>1, SaverSaves
  <2>3. Grows
    BY <2>2 DEF Grows
  <2>4. ASSUME NEW q \in Opened(order)' PROVE OfTab(q)'
    BY <1>0, <2>2 DEF SessionsInv, OfTab, tabs
  <2>5. ASSUME NEW d \in Calls PROVE OfLoad(d)'
    BY <2>2 DEF SessionsInv, OfLoad, calls
  <2>6. ASSUME NEW d \in Calls PROVE OfGone(d)'
    <3> SUFFICES ASSUME Gone(d), session[todo[d][1]] \notin shared
                 PROVE  disk'[session[todo[d][1]]] \subseteq chat'[todo[d][1]]
      BY <1>0 DEF OfGone, Gone, calls, tabs
    <3>1. todo[d][1] \in Runtimes /\ todo[d][1] # r
      BY SessionsMade DEF Gone, Sessions
    <3> QED BY <1>0, <2>2, <3>1 DEF SessionsInv, OfGone
  <2>7. ASSUME NEW d \in Calls PROVE OfClose(d)'
    <3> DEFINE q == todo[d][1]
    <3> SUFFICES ASSUME pc[d] = "saving", session[q] \notin shared
                 PROVE  Kept(d)' \subseteq disk'[session[q]]
      BY DEF OfClose, calls, tabs
    <3>1. q \in Runtimes /\ session[q] \in Sessions
      BY SessionsMade DEF Sessions
    <3>2. CASE q = r
      <4>1. Kept(d)' \subseteq chat'[r]
        BY <3>2 DEF Kept, calls
      <4> QED BY <1>0, <2>2, <3>2, <4>1
    <3>3. CASE q # r
      <4>1. Kept(d)' = Kept(d)
        BY <1>0, <3>1, <3>3 DEF Kept, calls
      <4>2. Kept(d) \subseteq disk[session[q]]
        BY DEF SessionsInv, OfClose
      <4> QED BY <2>2, <3>1, <4>1, <4>2
    <3> QED BY <3>2, <3>3
  <2>8. Alone'
    BY LetGo DEF SessionsInv, tabs, calls, Gone, Opened
  <2> QED BY <2>3, <2>4, <2>5, <2>6, <2>7, <2>8 DEF SessionsInv
<1>2. ASSUME UNCHANGED store, r \in streaming', r \notin answered' PROVE SessionsInv' /\ Grows
  <2>1. disk' = disk
    BY <1>2 DEF store
  <2>3. Grows
    BY <2>1 DEF Grows
  <2>4. ASSUME NEW q \in Opened(order)' PROVE OfTab(q)'
    BY <1>0, <1>2, <2>1 DEF SessionsInv, OfTab, tabs
  <2>5. ASSUME NEW d \in Calls PROVE OfLoad(d)'
    BY <2>1 DEF SessionsInv, OfLoad, calls
  <2>6. ASSUME NEW d \in Calls PROVE OfGone(d)'
    <3> SUFFICES ASSUME Gone(d), session[todo[d][1]] \notin shared
                 PROVE  disk'[session[todo[d][1]]] \subseteq chat'[todo[d][1]]
      BY <1>0 DEF OfGone, Gone, calls, tabs
    <3>1. todo[d][1] \in Runtimes /\ todo[d][1] # r
      BY SessionsMade DEF Gone, Sessions
    <3> QED BY <1>0, <2>1, <3>1 DEF SessionsInv, OfGone
  <2>7. ASSUME NEW d \in Calls PROVE OfClose(d)'
    <3> DEFINE q == todo[d][1]
    <3> SUFFICES ASSUME pc[d] = "saving", session[q] \notin shared
                 PROVE  Kept(d)' \subseteq disk[session[q]]
      BY <2>1 DEF OfClose, calls, tabs
    <3>1. q \in Runtimes /\ session[q] \in Sessions
      BY SessionsMade DEF Sessions
    <3>2. Kept(d) \subseteq disk[session[q]]
      BY DEF SessionsInv, OfClose
    <3>3. CASE q = r
      <4>1. <<who, sent + 1>> \notin data[d]
        <5>1. data[d] \subseteq Said /\ sent \in Nat
          BY DEF TabsTypes, MessageTypes
        <5>2. \A x \in Said : x[2] <= sent
          BY DEF Said
        <5> QED BY <5>1, <5>2
      <4>2. Kept(d)' = data[d] \cap m
        BY <1>0, <1>2, <3>3 DEF Kept, calls
      <4>3. data[d] \cap chat[r] \subseteq Kept(d)
        BY <3>3 DEF Kept
      <4> QED BY <3>2, <4>1, <4>2, <4>3
    <3>4. CASE q # r
      <4>1. Kept(d)' = Kept(d)
        BY <1>0, <3>1, <3>4 DEF Kept, calls
      <4> QED BY <3>2, <4>1
    <3> QED BY <3>3, <3>4
  <2>8. Alone'
    BY LetGo DEF SessionsInv, tabs, calls, Gone, Opened
  <2> QED BY <2>3, <2>4, <2>5, <2>6, <2>7, <2>8 DEF SessionsInv
<1> QED BY <1>1, <1>2

(* After a reload every restored tab shows what its session has. *)
LEMMA ReloadStep ==
  ASSUME TabsTypes, SessionsInv, Reload
  PROVE  SessionsInv' /\ Grows
<1> DEFINE n == Len(layout.sessions)
           Was(r) == layout.sessions[r - created]
           fresh == (created + 1)..(created + n)
           known == {r \in fresh : Was(r) \in stored}
<1>1. /\ created + n <= MaxRuntimes
      /\ session' = [r \in Runtimes |-> IF r \in known THEN Was(r) ELSE r]
      /\ chat' = [r \in Runtimes |-> IF r \in known THEN disk[Was(r)] ELSE {}]
      /\ pc' = [c \in Calls |-> IF pc[c] = "new" THEN "new" ELSE "done"]
      /\ disk' = disk /\ NoteSharing /\ order' = [i \in 1..n |-> created + i]
  BY DEF Reload
<1>2. ToSet(order') = fresh /\ created + n \in Runtimes /\ n \in Nat /\ created \in Nat
  BY <1>1, RestoredStrip
<1>3. \A r \in fresh : r \in Unmade /\ r \in Runtimes
  BY <1>2, UpTo DEF Unmade
<1>4. \A r \in fresh : disk[r] = {}
  BY <1>3 DEF TabsTypes, RuntimeTypes
<1> HIDE DEF n, Was, fresh
<1>5. ASSUME NEW q \in Opened(order)' PROVE OfTab(q)'
  <2>1. q \in fresh /\ q \in Runtimes
    BY <1>2, <1>3 DEF Opened
  <2> QED BY <1>1, <1>4, <2>1 DEF OfTab
<1>6. \A d \in Calls : OfLoad(d)' /\ OfGone(d)' /\ OfClose(d)'
  BY <1>1 DEF OfLoad, OfGone, OfClose, Gone, Loading
<1>7. Alone' /\ Grows
  BY <1>1, NotedAlone DEF Grows
<1> QED BY <1>5, <1>6, <1>7 DEF SessionsInv

(* The next tab to close is on the strip, so it saves what its session has.  *)
LEMMA CloseNextStep ==
  ASSUME TabsTypes, TabsTypes', SessionsInv, NEW c \in Calls, NEW left \in Seq(1..created), NEW kept,
         CloseNext(c, left, kept), Opened(left) \subseteq Opened(order), Opened(left) \subseteq Opened(order'),
         UNCHANGED <<session, chat, answered>>,
         Opened(order') \subseteq Opened(order),
         Opened(order') \ streaming' \subseteq Opened(order) \ streaming,
         shared \subseteq shared', Alone'
  PROVE  SessionsInv' /\ Grows
<1>0. pc \in [Calls -> CallStates] /\ todo \in [Calls -> Seq(1..created)]
  BY DEF TabsTypes, CallTypes, CallStates
<1>1. CASE left = <<>>
  <2>1. Done(c) /\ disk' = disk
    BY <1>1 DEF CloseNext, store
  <2>2. pc'[c] = "done" /\ OthersWait(c)
    BY <1>0, <2>1, OneCallMoves DEF Done, Become
  <2> QED BY <2>1, <2>2, CloseStep DEF Loading
<1>2. CASE left # <<>>
  <2>1. left[1] \in Opened(left)
    BY <1>2, ItemsOf DEF Opened
  <2>2. todo' = [todo EXCEPT ![c] = left] /\ item' = [item EXCEPT ![c] = kept]
    BY <1>2 DEF CloseNext
  <2>3. todo'[c] = left
    BY <1>0, <2>2
  <2>4. CASE left[1] \in streaming
    <3>1. Become(c, "confirming") /\ disk' = disk /\ data' = data
      BY <1>2, <2>4 DEF CloseNext, store
    <3>2. pc'[c] = "confirming" /\ OthersWait(c)
      BY <1>0, <2>2, <3>1, OneCallMoves DEF Become
    <3> QED BY <2>1, <2>3, <3>1, <3>2, CloseStep DEF Loading
  <2>5. CASE left[1] \notin streaming
    <3>1. SaveToClose(c, left[1])
      BY <1>2, <2>5 DEF CloseNext
    <3>2. pc'[c] = "saving" /\ OthersWait(c)
      BY <1>0, <2>2, <3>1, OneCallMoves DEF SaveToClose, Become
    <3>3. disk' = [disk EXCEPT ![session[left[1]]] = chat[left[1]]] /\ Saver(left[1]) /\ left[1] \in 1..created
      BY <2>1, <3>1, SessionsMade DEF SaveToClose, Save, Saver
    <3> QED BY <2>3, <3>2, <3>3, CloseStep DEF Loading
  <2> QED BY <2>4, <2>5
<1> QED BY <1>1, <1>2

(* Every step keeps the sessions and takes nothing from the store. *)
LEMMA SessionsKept ==
  ASSUME TabsTypes, TabsTypes', SessionsInv, Next
  PROVE  SessionsInv' /\ Grows
<1>0. /\ Opened(order) \subseteq 1..created /\ created \in Nat /\ order \in Seq(1..created)
      /\ active \in Opened(order) /\ streaming \subseteq Opened(order)
      /\ pc \in [Calls -> CallStates] /\ Alone /\ 1..created \subseteq Runtimes
  BY OpenedMade DEF TabsTypes, StripTypes, RuntimeTypes, CallTypes, CallStates, SessionsInv
<1>1. ASSUME NEW c \in Calls, CallStep(c) PROVE SessionsInv' /\ Grows
  <2>1. ASSUME NEW left, NEW kept, CloseNext(c, left, kept), left \in Seq(1..created),
               Opened(left) \subseteq Opened(order),
               UNCHANGED <<order, session, chat, answered, streaming, shared>>
        PROVE  SessionsInv' /\ Grows
    <3>1. \A d \in Calls \ {c} : pc'[d] = pc[d] /\ todo'[d] = todo[d] /\ item'[d] = item[d]
      <4>1. OthersWait(c)
        <5>1. /\ \/ \E x : pc' = [pc EXCEPT ![c] = x]
                 \/ pc' = pc
              /\ \/ \E x : todo' = [todo EXCEPT ![c] = x]
                 \/ todo' = todo
              /\ \/ \E x : item' = [item EXCEPT ![c] = x]
                 \/ item' = item
              /\ \/ \E x : data' = [data EXCEPT ![c] = x]
                 \/ data' = data
          <6>1. CASE left = <<>>
            BY <2>1, <6>1 DEF CloseNext, Done, Become
          <6>2. CASE left # <<>>
            BY <2>1, <6>2 DEF CloseNext, SaveToClose, Become
          <6> QED BY <6>1, <6>2
        <5> QED BY <5>1, OneCallMoves
      <4> QED BY <4>1 DEF OthersWait
    <3>2. pc'[c] \notin Loading
      BY <1>0, <2>1 DEF CloseNext, Done, SaveToClose, Become, Loading
    <3>3. pc'[c] = "confirming" => todo'[c][1] \in Opened(order)
      <4>1. CASE left = <<>>
        <5>1. pc'[c] = "done"
          BY <1>0, <2>1, <4>1 DEF CloseNext, Done, Become
        <5> QED BY <5>1
      <4>2. CASE left # <<>>
        <5>1. todo'[c] = left
          BY <2>1, <4>2 DEF CloseNext, TabsTypes, CallTypes
        <5>2. left[1] \in Opened(left)
          BY <2>1, <4>2, ItemsOf DEF Opened
        <5> QED BY <2>1, <5>1, <5>2
      <4> QED BY <4>1, <4>2
    <3>4. \A d \in Calls : Gone(d)' => Gone(d) /\ todo'[d] = todo[d]
      BY <2>1, <3>1, <3>3 DEF Gone, Opened
    <3>5. \A d \in Calls : pc'[d] \in Loading => pc[d] \in Loading /\ item'[d] = item[d]
      BY <3>1, <3>2
    <3>6. Alone'
      BY <1>0, <2>1, <3>4, <3>5, LetGo DEF Opened
    <3> QED BY <2>1, <3>6, CloseNextStep
  <2>2. CASE CloseRequest(c)
    <3>1. PICK r \in Opened(order) : CloseNext(c, <<r>>, None)
      BY <2>2 DEF CloseRequest
    <3>2. <<r>> \in Seq(1..created) /\ Opened(<<r>>) \subseteq Opened(order)
      BY <1>0 DEF Opened, ToSet
    <3> QED BY <2>1, <2>2, <3>1, <3>2 DEF CloseRequest, tabs, talk
  <2>3. CASE CloseOthersRequest(c)
    <3>1. PICK r \in Opened(order) : CloseNext(c, Without(order, {r}), r)
      BY <2>3 DEF CloseOthersRequest
    <3>2. Without(order, {r}) \in Seq(1..created) /\ ToSet(Without(order, {r})) \subseteq ToSet(order)
      BY <1>0, WithoutLeaves
    <3> QED BY <2>1, <2>3, <3>1, <3>2 DEF CloseOthersRequest, tabs, talk, Opened
  <2>4. CASE CloseConfirmed(c)
    <3>1. /\ pc[c] = "confirming" /\ SaveToClose(c, todo[c][1]) /\ UNCHANGED <<todo, item, shared>>
          /\ UNCHANGED <<order, session, chat, answered, streaming>>
      BY <2>4 DEF CloseConfirmed, tabs, talk
    <3>2. pc'[c] = "saving" /\ OthersWait(c)
      BY <1>0, <3>1, OneCallMoves DEF SaveToClose, Become
    <3>3. /\ disk' = [disk EXCEPT ![session[todo[c][1]]] = chat[todo[c][1]]]
          /\ Saver(todo[c][1]) /\ todo[c][1] \in 1..created
      BY <3>1, SessionsMade DEF SaveToClose, Save, Saver, Gone
    <3>4. \A d \in Calls : Gone(d)' => Gone(d) /\ todo'[d] = todo[d]
      BY <3>1, <3>2 DEF Gone, Opened, OthersWait
    <3>5. \A d \in Calls : pc'[d] \in Loading => pc[d] \in Loading /\ item'[d] = item[d]
      BY <3>1, <3>2 DEF OthersWait, Loading
    <3>6. Alone'
      BY <1>0, <3>1, <3>4, <3>5, LetGo DEF Opened
    <3> QED BY <3>1, <3>2, <3>3, <3>6, CloseStep DEF Loading
  <2>5. CASE CloseDeclined(c)
    <3>1. /\ pc[c] = "confirming" /\ CloseNext(c, LeftToClose(c, order), item[c])
          /\ UNCHANGED <<order, session, chat, answered, streaming, shared>>
      BY <2>5 DEF CloseDeclined, talk
    <3> QED BY <2>1, <3>1, LeftTypes
  <2>6. CASE CloseFinish(c)
    <3> DEFINE r == todo[c][1]
               closes == r \in Opened(order) /\ Len(order) > 1
               strip == IF closes THEN StripAfter(r) ELSE order
    <3>1. /\ pc[c] = "saving" /\ order' = strip /\ CloseNext(c, LeftToClose(c, strip), item[c])
          /\ streaming' = IF closes THEN streaming \ {r} ELSE streaming
          /\ UNCHANGED <<session, chat, answered>> /\ NoteSharing
      BY <2>6 DEF CloseFinish
    <3>2. Opened(strip) \subseteq Opened(order) /\ Opened(strip) \ streaming' \subseteq Opened(order) \ streaming
      <4>1. CASE closes
        <5>1. Opened(strip) = Opened(order) \ {r}
          BY <4>1, StripAfterIs DEF TabsTypes
        <5> QED BY <3>1, <4>1, <5>1
      <4>2. CASE ~ closes
        BY <3>1, <4>2
      <4> QED BY <4>1, <4>2
    <3> HIDE DEF strip
    <3>3. LeftToClose(c, strip) \in Seq(1..created) /\ Opened(LeftToClose(c, strip)) \subseteq Opened(strip)
      BY <3>1, LeftTypes
    <3>4. Alone' /\ shared \subseteq shared'
      BY <3>1, NotedAlone
    <3> QED BY <3>1, <3>2, <3>3, <3>4, CloseNextStep
  <2>7. ASSUME Done(c), UNCHANGED <<order, session, chat, answered, streaming, disk, shared>>
        PROVE  SessionsInv' /\ Grows
    <3>1. pc'[c] = "done" /\ OthersWait(c)
      BY <1>0, <2>7, OneCallMoves DEF Done, Become
    <3>2. \A d \in Calls : Gone(d)' => Gone(d) /\ todo'[d] = todo[d]
      BY <2>7, <3>1 DEF Gone, Opened, OthersWait
    <3>3. \A d \in Calls : pc'[d] \in Loading => pc[d] \in Loading /\ item'[d] = item[d]
      BY <3>1 DEF OthersWait, Loading
    <3>4. Alone'
      BY <1>0, <2>7, <3>2, <3>3, LetGo DEF Opened
    <3> QED BY <2>7, <3>1, <3>4, CloseStep DEF Loading
  <2>8. ASSUME NEW s, NEW purpose \in Loading, Load(c, s, purpose),
               UNCHANGED <<order, session, chat, answered, streaming, disk>>, NoteSharing
        PROVE  SessionsInv' /\ Grows
    <3>1. OthersWait(c)
      BY <2>8, OneCallMoves DEF Load, Become
    <3> QED BY <2>8, <3>1, LoadStep, NotedAlone
  <2>9. CASE ReopenRequest(c)
    <3>1. PICK i \in DOMAIN recentlyClosed :
            IF recentlyClosed[i] \in stored THEN Load(c, recentlyClosed[i], "reopening") ELSE Done(c)
      BY <2>9 DEF ReopenRequest
    <3>2. UNCHANGED <<order, session, chat, answered, streaming, disk>> /\ NoteSharing
      BY <2>9 DEF ReopenRequest, tabs, talk, store
    <3>3. CASE Load(c, recentlyClosed[i], "reopening")
      BY <2>8, <3>2, <3>3 DEF Loading
    <3>4. CASE Done(c)
      <4>1. pc'[c] = "done" /\ OthersWait(c)
        BY <1>0, <3>4, OneCallMoves DEF Done, Become
      <4>2. Alone' /\ shared \subseteq shared'
        BY <3>2, NotedAlone
      <4> QED BY <3>2, <4>1, <4>2, CloseStep DEF Loading
    <3> QED BY <3>1, <3>3, <3>4
  <2>10. CASE ResumeRequest(c)
    <3>1. PICK s \in stored, purpose \in {"resuming", "replacing"} : Load(c, s, purpose)
      BY <2>10 DEF ResumeRequest
    <3> QED BY <2>8, <2>10, <3>1 DEF ResumeRequest, Loading, tabs, talk, store
  <2>11. CASE LoadFails(c) \/ ReplaceRefused(c) \/ Linked(c)
    BY <2>7, <2>11 DEF LoadFails, ReplaceRefused, Linked, tabs, talk, store
  <2>12. ASSUME NEW r, Apply(r, c) PROVE OthersWait(c) /\ Alone' /\ shared \subseteq shared'
    BY <2>12, OneCallMoves, NotedAlone DEF Apply, Become
  <2>13. CASE OpenLoaded(c)
    <3>1. Register(created + 1) /\ Apply(created + 1, c) /\ pc[c] \in Loading
      BY <2>13 DEF OpenLoaded, Loading
    <3>2. Opened(order') = Opened(order) \cup {created + 1} /\ created + 1 \in Runtimes
      BY <3>1, RegisterTypes DEF TabsTypes
    <3> QED BY <2>12, <3>1, <3>2, ApplyStep
  <2>14. CASE ReplaceLoaded(c)
    <3>1. Apply(active, c) /\ pc[c] \in Loading /\ order' = order
      BY <2>14 DEF ReplaceLoaded, Loading
    <3>2. Opened(order') = Opened(order) \cup {active} /\ active \in Runtimes
      BY <1>0, <3>1
    <3> QED BY <2>12, <3>1, <3>2, ApplyStep
  <2>15. CASE ForkRequest(c)
    <3>1. /\ pc'[c] = "creating" /\ OthersWait(c)
          /\ UNCHANGED <<order, session, chat, answered, streaming, disk, shared>>
      BY <1>0, <2>15, OneCallMoves DEF ForkRequest, Become, tabs, talk, store
    <3>2. \A d \in Calls : Gone(d)' => Gone(d) /\ todo'[d] = todo[d]
      BY <3>1 DEF Gone, Opened, OthersWait
    <3>3. \A d \in Calls : pc'[d] \in Loading => pc[d] \in Loading /\ item'[d] = item[d]
      BY <3>1 DEF OthersWait, Loading
    <3>4. Alone'
      BY <1>0, <3>1, <3>2, <3>3, LetGo DEF Opened
    <3> QED BY <3>1, <3>4, CloseStep DEF Loading
  <2>16. CASE ForkCreated(c)
    <3> DEFINE m == chat[item[c]]
    <3>1. /\ Register(created + 1) /\ Save(created + 1, m) /\ Done(c)
          /\ chat' = [chat EXCEPT ![created + 1] = m]
          /\ UNCHANGED <<session, answered, streaming, shared>>
      BY <2>16 DEF ForkCreated
    <3>2. created + 1 \in Runtimes /\ created + 1 \in Unmade
      BY <1>0, <3>1, RegisterTypes DEF TabsTypes, Unmade
    <3>3. session[created + 1] = created + 1
      BY <3>2 DEF TabsTypes, RuntimeTypes
    <3>4. disk' = [disk EXCEPT ![created + 1] = m]
      BY <3>1, <3>3 DEF Save
    <3> HIDE DEF m
    <3>5. /\ \A r \in 1..created : chat'[r] = chat[r]
          /\ chat'[created + 1] = m /\ disk'[created + 1] = m
          /\ \A s \in Sessions : s # created + 1 => disk'[s] = disk[s]
      BY <1>0, <3>1, <3>2, <3>4 DEF TabsTypes, MessageTypes, Sessions
    <3>6. pc'[c] = "done" /\ OthersWait(c)
      BY <1>0, <3>1, OneCallMoves DEF Done, Become
    <3>7. \A d \in Calls : pc'[d] \in {"confirming", "saving"} \cup Loading
                             => /\ pc'[d] = pc[d] /\ todo'[d] = todo[d]
                                /\ item'[d] = item[d] /\ data'[d] = data[d]
      BY <3>6 DEF OthersWait, Loading
    <3> QED BY <3>1, <3>5, <3>7, NewStep
  <2> QED BY <1>1, <2>2, <2>3, <2>4, <2>5, <2>6, <2>9, <2>10, <2>11, <2>13, <2>14, <2>15, <2>16 DEF CallStep
<1>2. CASE TabStep
  <2>1. ASSUME NEW r \in Runtimes, Send(r) PROVE SessionsInv' /\ Grows
    BY <2>1, TalkStep DEF Send
  <2>2. ASSUME NEW r \in Runtimes, Answer(r) PROVE SessionsInv' /\ Grows
    <3>1. r \in Opened(order)
      BY <1>0, <2>2 DEF Answer
    <3> QED BY <2>2, <3>1, TalkStep DEF Answer
  <2>3. ASSUME Opened(order') = Opened(order), UNCHANGED <<session, talk, store, calls, shared>>
        PROVE  SessionsInv' /\ Grows
    <3>1. Alone'
      BY <1>0, <2>3, LetGo DEF calls, Gone, Opened
    <3>2. Grows
      BY <2>3 DEF Grows, store
    <3>3. \A q \in Opened(order)' : OfTab(q)'
      BY <2>3 DEF SessionsInv, OfTab, Opened, talk, store
    <3>4. \A d \in Calls : OfLoad(d)' /\ OfGone(d)' /\ OfClose(d)'
      BY <2>3 DEF SessionsInv, OfLoad, OfGone, OfClose, Gone, Kept, Opened, talk, store, calls
    <3> QED BY <3>1, <3>2, <3>3, <3>4 DEF SessionsInv
  <2>4. ASSUME NEW r \in Runtimes, Switch(r) PROVE SessionsInv' /\ Grows
    BY <2>3, <2>4 DEF Switch
  <2>5. ASSUME NEW i \in Runtimes, Move(i) PROVE SessionsInv' /\ Grows
    <3>1. i \in 1..Len(order) /\ i + 1 \in 1..Len(order) /\ i # i + 1
      BY <1>0, <2>5 DEF Move
    <3>2. Opened(order') = Opened(order)
      BY <1>0, <2>5, <3>1, SwapKeeps DEF Move, Opened
    <3> QED BY <2>3, <2>5, <3>2 DEF Move
  <2>6. CASE NewTab
    <3>1. /\ Register(created + 1)
          /\ UNCHANGED <<session, answered, streaming, shared, chat, disk, pc, todo, item, data>>
      BY <2>6 DEF NewTab, talk, store, calls
    <3>2. created + 1 \in Runtimes /\ created + 1 \in Unmade
      BY <1>0, <3>1, RegisterTypes DEF TabsTypes, Unmade
    <3>3. chat'[created + 1] = {} /\ disk'[created + 1] = {}
      BY <3>1, <3>2 DEF TabsTypes, RuntimeTypes
    <3> QED BY <3>1, <3>3, NewStep
  <2>7. CASE LayoutWrite
    BY <2>3, <2>7 DEF LayoutWrite, tabs
  <2>8. CASE Reload
    BY <2>8, ReloadStep
  <2> QED BY <1>2, <2>1, <2>2, <2>4, <2>5, <2>6, <2>7, <2>8 DEF TabStep
<1> QED BY <1>1, <1>2 DEF Next

(* What the tabs, the calls and the store know of each other, for any number *)
(* of tabs, calls, messages and reloads: a session has one holder or is      *)
(* marked as shared, and what its holder has is what the store has.         *)
THEOREM SessionsHold == Spec => []SessionsInv
<1>1. Init => SessionsInv
  <2> SUFFICES ASSUME Init PROVE SessionsInv
    OBVIOUS
  <2>0. 1 \in Runtimes /\ Opened(order) = {1}
    BY TabsAssumption DEF Init, Opened, ToSet, TabsAssumption, Runtimes
  <2>1. ASSUME NEW s \in Sessions PROVE \A g, h \in Holders(s) : g = h
    <3>1. Holders(s) \subseteq {<<"tab", 1>>}
      BY <2>0 DEF Init, Holders, Loading
    <3> QED BY <3>1
  <2>2. \A r \in Opened(order) : OfTab(r)
    BY <2>0 DEF Init, OfTab, Sessions
  <2>3. \A c \in Calls : OfLoad(c) /\ OfGone(c) /\ OfClose(c)
    BY DEF Init, OfLoad, OfGone, OfClose, Gone, Loading
  <2> QED BY <2>1, <2>2, <2>3 DEF SessionsInv, Alone
<1>2. TabsTypes /\ TabsTypes' /\ SessionsInv /\ [Next]_vars => SessionsInv'
  <2> SUFFICES ASSUME TabsTypes, TabsTypes', SessionsInv, [Next]_vars PROVE SessionsInv'
    OBVIOUS
  <2>1. CASE Next
    BY <2>1, SessionsKept
  <2>2. CASE UNCHANGED vars
    <3>1. Alone'
      BY <2>2, LetGo DEF vars, tabs, calls, SessionsInv, Gone, Opened
    <3>2. \A r \in Opened(order)' : OfTab(r)'
      BY <2>2 DEF vars, tabs, talk, store, calls, SessionsInv, OfTab, Opened
    <3>3. \A c \in Calls : OfLoad(c)' /\ OfGone(c)' /\ OfClose(c)'
      BY <2>2 DEF vars, tabs, talk, store, calls, SessionsInv, OfLoad, OfGone, OfClose, Gone, Kept, Opened
    <3> QED BY <3>1, <3>2, <3>3 DEF SessionsInv
  <2> QED BY <2>1, <2>2
<1> QED BY <1>1, <1>2, TabsInvHolds, PTL DEF Spec

(* A crash loses nothing an idle tab shows, unless two tabs have held its    *)
(* session (saveSession and the message_end listener of sessions.ts, and    *)
(* the close, reopen, resume, replace, copy and restore of init.ts).        *)
THEOREM IdleHolds == Spec => []IdleTabSaved
<1>1. SessionsInv => IdleTabSaved
  BY DEF SessionsInv, OfTab, IdleTabSaved
<1> QED BY <1>1, SessionsHold, PTL

(* "Tabs are temporary, sessions are durable": no step of any tab or call    *)
(* takes a message from the store, unless two tabs have held the session:   *)
(* saveSession writes the whole conversation, so this needs that every tab  *)
(* that saves has all that is stored.                                       *)
THEOREM MessagesHold == Spec => MessagesKept
<1> DEFINE Keeps == \A s \in Sessions \ shared' : disk[s] \subseteq disk'[s]
<1>1. TabsTypes /\ TabsTypes' /\ SessionsInv /\ [Next]_vars => [Keeps]_vars
  <2>1. ASSUME TabsTypes, TabsTypes', SessionsInv, Next PROVE Keeps
    <3>1. Grows
      BY <2>1, SessionsKept
    <3> QED BY <3>1 DEF Grows
  <2> QED BY <2>1
<1>2. Spec => [][Keeps]_vars
  BY <1>1, TabsInvHolds, SessionsHold, PTL DEF Spec
<1> QED BY <1>2 DEF MessagesKept

(* A close ends with everything in the store that was said before it saved   *)
(* the tab, and with the later messages of an answered session, though the  *)
(* store's answer is awaited meanwhile (closeRuntimeWithRecovery).          *)
THEOREM ClosedHolds == Spec => ClosedTabSaved
<1> DEFINE Ends(c) == pc[c] = "saving" /\ todo'[c] # todo[c]
           Saved(c) == LET r == todo[c][1] IN
                session[r] \notin shared =>
                  (IF r \in answered THEN chat[r] ELSE data[c] \cap chat[r]) \subseteq disk'[session[r]]
           Closes == \A c \in Calls : Ends(c) => Saved(c)
<1>1. TabsTypes /\ TabsTypes' /\ SessionsInv /\ [Next]_vars => [Closes]_vars
  <2>1. ASSUME TabsTypes, TabsTypes', SessionsInv, Next PROVE Closes
    <3> SUFFICES ASSUME NEW c \in Calls, pc[c] = "saving", session[todo[c][1]] \notin shared
                 PROVE  Kept(c) \subseteq disk'[session[todo[c][1]]]
      BY DEF Kept
    <3>1. Kept(c) \subseteq disk[session[todo[c][1]]]
      BY <2>1 DEF SessionsInv, OfClose
    <3>2. session[todo[c][1]] \in Sessions
      BY <2>1, SessionsMade
    <3>3. Grows
      BY <2>1, SessionsKept
    <3> QED BY <3>1, <3>2, <3>3 DEF Grows
  <2> QED BY <2>1
<1>2. Spec => [][Closes]_vars
  BY <1>1, TabsInvHolds, SessionsHold, PTL DEF Spec
<1> QED BY <1>2 DEF ClosedTabSaved
================================================================================
