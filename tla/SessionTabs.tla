----------------------------- MODULE SessionTabs -----------------------------
(***************************************************************************)
(* The tabs of a taskpane and the sessions they show.  A tab is a runtime; *)
(* SessionRuntimeManager keeps the strip, setupSessionPersistence saves    *)
(* the conversation of a runtime under its session id, init.ts closes,     *)
(* reopens, resumes and copies tabs and restores the strip on start-up,    *)
(* tab-layout-persistence.ts writes the strip to the settings store.       *)
(*                                                                         *)
(* A runtime starts with a session of its own, so both share one numbering.*)
(* IndexedDB runs transactions in the order of their creation, so a save   *)
(* takes effect, and a read sees the store, when it is issued.  Locks are  *)
(* the subject of RuntimeLocks.                                            *)
(***************************************************************************)
EXTENDS Lists, SequencesExt

CONSTANTS
  MaxRuntimes,  \* bound on the runtimes ever created
  MaxMessages,  \* bound on the messages ever sent or received
  MaxClosed,    \* the limit of the recently-closed stack
  MaxReloads,   \* bound on reloads of the taskpane
  MaxQueued,    \* bound on the queued layouts while the user moves in the strip
  Calls,        \* the user's requests, whatever they are
  None

Runtimes == 1..MaxRuntimes
Sessions == Runtimes
Messages == {"user", "assistant"} \X (1..MaxMessages)

ASSUME TabsAssumption ==
  /\ MaxRuntimes \in Nat \ {0} /\ MaxMessages \in Nat
  /\ MaxClosed \in Nat \ {0} /\ MaxReloads \in Nat /\ MaxQueued \in Nat
  /\ None \notin Runtimes

VARIABLES
  order, active,  \* the strip, and the tab in front
  created, sent,  \* runtimes and messages made so far
  session,        \* the session a runtime saves under
  chat,           \* its messages
  answered,       \* firstAssistantSeen
  streaming,      \* runtimes whose agent is at work
  stored, disk,   \* the sessions store: known ids, messages of each
  recentlyClosed, \* items, newest first
  pc, todo, item, data,  \* per call: progress, tabs to close, item, loaded session
  pending, layout,  \* layouts on their way to the store, and the stored one
  reloads,
  shared          \* history: sessions two tabs have held at once

tabs == <<order, active, created, session>>
talk == <<sent, chat, answered, streaming>>
store == <<stored, disk>>
calls == <<pc, todo, item, data>>
saved == <<pending, layout>>
vars == <<tabs, talk, store, recentlyClosed, calls, saved, reloads, shared>>

HasAssistant(messages) == \E m \in messages : m[1] = "assistant"
Opened(strip) == ToSet(strip)
Loading == {"reopening", "resuming", "replacing"}

Init ==
  /\ order = <<1>> /\ active = 1 /\ created = 1 /\ sent = 0
  /\ session = [r \in Runtimes |-> r]
  /\ chat = [r \in Runtimes |-> {}] /\ answered = {} /\ streaming = {}
  /\ stored = {} /\ disk = [s \in Sessions |-> {}]
  /\ recentlyClosed = <<>>
  /\ pc = [c \in Calls |-> "new"] /\ todo = [c \in Calls |-> <<>>]
  /\ item = [c \in Calls |-> None] /\ data = [c \in Calls |-> {}]
  /\ pending = <<>> /\ layout = [sessions |-> <<1>>, active |-> 1]
  /\ reloads = 0 /\ shared = {}

-----------------------------------------------------------------------------
(* snapshotRuntimeTabLayout for a strip, a front tab and their sessions. *)
Layout(strip, front, of) ==
  [sessions |-> [i \in DOMAIN strip |-> of[strip[i]]], active |-> of[front]]

(* A snapshot is queued; one equal to the last has no effect. *)
Queue(queue, snap) ==
  IF snap = (IF queue = <<>> THEN layout ELSE Last(queue)) THEN queue ELSE Append(queue, snap)

(* emit: the subscriber persists the layout of the new state. *)
Emit ==
  /\ pending' = Queue(pending, Layout(order', active', session'))
  /\ UNCHANGED layout

(* saveSession({force}) of runtime r with messages m. *)
Save(r, m) ==
  /\ stored' = stored \cup {session[r]}
  /\ disk' = [disk EXCEPT ![session[r]] = m]

(* The tabs of a session, the calls that will put it into a tab, and those  *)
(* that may still save a tab which is gone.                                 *)
Holders(s) ==
  {<<"tab", r>> : r \in {q \in Opened(order) : session[q] = s}}
    \cup {<<"call", c>> : c \in {d \in Calls : pc[d] \in Loading /\ item[d] = s}}
    \cup {<<"call", c>> : c \in {d \in Calls :
          /\ pc[d] = "confirming" /\ todo[d][1] \notin Opened(order)
          /\ session[todo[d][1]] = s}}

NoteSharing == shared' = shared \cup {s \in Sessions : \E g, h \in Holders(s)' : g # h}

-----------------------------------------------------------------------------
(* Talking to the agent of a tab. *)

(* A prompt starts a run; it is saved once the session has had an answer. *)
Send(r) ==
  LET m == chat[r] \cup {<<"user", sent + 1>>} IN
  /\ r \in Opened(order) \ streaming /\ sent < MaxMessages
  /\ sent' = sent + 1
  /\ chat' = [chat EXCEPT ![r] = m]
  /\ streaming' = streaming \cup {r}
  /\ IF r \in answered THEN Save(r, m) ELSE UNCHANGED store
  /\ UNCHANGED <<tabs, answered, recentlyClosed, calls, saved, reloads, shared>>

(* Mutant of Answer: the session counts as answered after the save only. *)
AnswerSavedLate(r) ==
  LET m == chat[r] \cup {<<"assistant", sent + 1>>} IN
  /\ r \in streaming /\ sent < MaxMessages
  /\ sent' = sent + 1
  /\ chat' = [chat EXCEPT ![r] = m]
  /\ streaming' = streaming \ {r}
  /\ answered' = answered \cup {r}
  /\ IF r \in answered THEN Save(r, m) ELSE UNCHANGED store
  /\ UNCHANGED <<tabs, recentlyClosed, calls, saved, reloads, shared>>

(* The run ends, complete or aborted: its message ends and is saved. *)
Answer(r) ==
  LET m == chat[r] \cup {<<"assistant", sent + 1>>} IN
  /\ r \in streaming /\ sent < MaxMessages
  /\ sent' = sent + 1
  /\ chat' = [chat EXCEPT ![r] = m]
  /\ streaming' = streaming \ {r}
  /\ answered' = answered \cup {r}
  /\ Save(r, m)
  /\ UNCHANGED <<tabs, recentlyClosed, calls, saved, reloads, shared>>

-----------------------------------------------------------------------------
(* The strip: SessionRuntimeManager. *)

(* registerRuntime of the next runtime. *)
Register(front) ==
  /\ created < MaxRuntimes
  /\ created' = created + 1
  /\ order' = Append(order, created + 1)
  /\ active' = front

(* createRuntimeFromUi *)
NewTab ==
  /\ Len(pending) < MaxQueued
  /\ Register(created + 1)
  /\ UNCHANGED session
  /\ Emit
  /\ UNCHANGED <<talk, store, recentlyClosed, calls, reloads, shared>>

Switch(r) ==
  /\ r \in Opened(order) /\ r # active /\ Len(pending) < MaxQueued
  /\ active' = r
  /\ UNCHANGED <<order, created, session>>
  /\ Emit
  /\ UNCHANGED <<talk, store, recentlyClosed, calls, reloads, shared>>

(* moveRuntime: the tab changes places with a neighbour. *)
Move(i) ==
  /\ i \in 1..(Len(order) - 1) /\ Len(pending) < MaxQueued
  /\ order' = [order EXCEPT ![i] = order[i + 1], ![i + 1] = order[i]]
  /\ UNCHANGED <<active, created, session>>
  /\ Emit
  /\ UNCHANGED <<talk, store, recentlyClosed, calls, reloads, shared>>

(* Mutant of FrontAfter: the last tab comes to the front. *)
FrontAfterStale(r) == active

Place(r) == CHOOSE j \in DOMAIN order : order[j] = r

(* The strip once r is closed. *)
StripAfter(r) == RemoveAt(order, Place(r))

(* The tab in front once r is closed: its left neighbour takes its place. *)
FrontAfter(r) ==
  IF active # r THEN active ELSE StripAfter(r)[IF Place(r) > 1 THEN Place(r) - 1 ELSE 1]

-----------------------------------------------------------------------------
(* Requests of the user: init.ts. *)

Become(c, state) == pc' = [pc EXCEPT ![c] = state]

Done(c) ==
  /\ Become(c, "done")
  /\ todo' = [todo EXCEPT ![c] = <<>>]
  /\ item' = [item EXCEPT ![c] = None]
  /\ data' = [data EXCEPT ![c] = {}]

(* RecentlyClosedStack.push *)
Push(s) ==
  SubSeq(<<s>> \o recentlyClosed, 1,
         IF Len(recentlyClosed) < MaxClosed THEN Len(recentlyClosed) + 1 ELSE MaxClosed)

(* Mutant of SaveToClose: the save is not forced. *)
SaveToCloseUnforced(c, r) ==
  /\ Become(c, "saving")
  /\ IF r \in answered THEN Save(r, chat[r]) ELSE UNCHANGED store
  /\ data' = [data EXCEPT ![c] = chat[r]]

(* saveSession({force: true}) before a tab goes. *)
SaveToClose(c, r) ==
  /\ Become(c, "saving")
  /\ Save(r, chat[r])
  /\ data' = [data EXCEPT ![c] = chat[r]]

(* The next tab to close: a streaming one needs the user's consent, any     *)
(* other is saved at once.  kept is the tab closeOtherRuntimes spares.      *)
CloseNext(c, left, kept) ==
  IF left = <<>> THEN Done(c) /\ UNCHANGED store
  ELSE /\ todo' = [todo EXCEPT ![c] = left]
       /\ item' = [item EXCEPT ![c] = kept]
       /\ IF left[1] \in streaming
          THEN Become(c, "confirming") /\ UNCHANGED <<store, data>>
          ELSE SaveToClose(c, left[1])

CloseRequest(c) ==
  /\ pc[c] = "new" /\ Len(order) > 1
  /\ \E r \in Opened(order) : CloseNext(c, <<r>>, None)
  /\ UNCHANGED <<tabs, talk, recentlyClosed, saved, reloads, shared>>

(* closeOtherRuntimes: the tabs left and right of the kept one, in order. *)
CloseOthersRequest(c) ==
  /\ pc[c] = "new" /\ Len(order) > 1
  /\ \E r \in Opened(order) : CloseNext(c, Without(order, {r}), r)
  /\ UNCHANGED <<tabs, talk, recentlyClosed, saved, reloads, shared>>

(* What is left to close on a strip: the last tab is refused, and so is one *)
(* that is gone.                                                            *)
LeftToClose(c, strip) ==
  IF Len(strip) > 1 THEN Without(Tail(todo[c]), Runtimes \ Opened(strip)) ELSE <<>>

(* closeOtherRuntimes ends with a switch to the kept tab. *)
FrontAtEnd(c, strip, front) ==
  IF LeftToClose(c, strip) = <<>> /\ item[c] \in Opened(strip) THEN item[c] ELSE front

(* "Stop and close": the agent is told to stop, its last message ends later.*)
CloseConfirmed(c) ==
  /\ pc[c] = "confirming"
  /\ SaveToClose(c, todo[c][1])
  /\ UNCHANGED <<tabs, talk, recentlyClosed, todo, item, saved, reloads, shared>>

(* "Keep open" *)
CloseDeclined(c) ==
  /\ pc[c] = "confirming"
  /\ CloseNext(c, LeftToClose(c, order), item[c])
  /\ active' = FrontAtEnd(c, order, active)
  /\ UNCHANGED <<order, created, session>>
  /\ Emit
  /\ UNCHANGED <<talk, recentlyClosed, reloads, shared>>

(* The save has answered.  closeRuntime leaves an unknown tab and the last  *)
(* tab alone; the item is pushed all the same.                              *)
CloseFinish(c) ==
  LET r == todo[c][1]
      closes == r \in Opened(order) /\ Len(order) > 1
      strip == IF closes THEN StripAfter(r) ELSE order
      front == IF closes THEN FrontAfter(r) ELSE active
  IN  /\ pc[c] = "saving"
      /\ order' = strip /\ active' = FrontAtEnd(c, strip, front)
      /\ streaming' = IF closes THEN streaming \ {r} ELSE streaming
      /\ recentlyClosed' = Push(session[r])
      /\ CloseNext(c, LeftToClose(c, strip), item[c])
      /\ UNCHANGED <<created, session>>
      /\ Emit
      /\ UNCHANGED <<sent, chat, answered, reloads>>
      /\ NoteSharing

(* The session s is read for call c. *)
Load(c, s, purpose) ==
  /\ Become(c, purpose)
  /\ item' = [item EXCEPT ![c] = s]
  /\ data' = [data EXCEPT ![c] = disk[s]]
  /\ UNCHANGED todo

(* The session of an item, taken off the stack, is read. *)
ReopenRequest(c) ==
  /\ pc[c] = "new"
  /\ \E i \in DOMAIN recentlyClosed :
       LET s == recentlyClosed[i] IN
       /\ recentlyClosed' = RemoveAt(recentlyClosed, i)
       /\ IF s \in stored THEN Load(c, s, "reopening") ELSE Done(c)
  /\ UNCHANGED <<tabs, talk, store, saved, reloads>>
  /\ NoteSharing

(* The resume dialog offers every stored session, open ones included. *)
ResumeRequest(c) ==
  /\ pc[c] = "new"
  /\ \E s \in stored, purpose \in {"resuming", "replacing"} : Load(c, s, purpose)
  /\ UNCHANGED <<tabs, talk, store, recentlyClosed, saved, reloads>>
  /\ NoteSharing

(* The read fails: a reopened item returns to the stack. *)
LoadFails(c) ==
  /\ pc[c] \in Loading
  /\ Done(c)
  /\ recentlyClosed' = IF pc[c] = "reopening" THEN Push(item[c]) ELSE recentlyClosed
  /\ UNCHANGED <<tabs, talk, store, saved, reloads, shared>>

(* Mutant of Apply: the runtime keeps its session id. *)
ApplyKeepingId(r, c) ==
  /\ UNCHANGED session
  /\ chat' = [chat EXCEPT ![r] = data[c]]
  /\ answered' = IF HasAssistant(data[c]) THEN answered \cup {r} ELSE answered \ {r}
  /\ Become(c, "linking")
  /\ UNCHANGED <<sent, streaming, store, recentlyClosed, todo, item, data, layout, reloads>>
  /\ NoteSharing

(* applyLoadedSession on runtime r. *)
Apply(r, c) ==
  /\ session' = [session EXCEPT ![r] = item[c]]
  /\ chat' = [chat EXCEPT ![r] = data[c]]
  /\ answered' = IF HasAssistant(data[c]) THEN answered \cup {r} ELSE answered \ {r}
  /\ Become(c, "linking")
  /\ UNCHANGED <<sent, streaming, store, recentlyClosed, todo, item, data, layout, reloads>>
  /\ NoteSharing

(* openSessionInNewTab: the tab is registered with a session of its own,    *)
(* then takes the loaded one.                                               *)
OpenLoaded(c) ==
  /\ pc[c] \in {"reopening", "resuming"}
  /\ Register(created + 1)
  /\ pending' = Queue(pending, Layout(order', active', session))
  /\ Apply(created + 1, c)

(* replaceActiveRuntimeSession: a busy tab is not replaced. *)
ReplaceLoaded(c) ==
  /\ pc[c] = "replacing" /\ active \notin streaming
  /\ UNCHANGED <<order, active, created, pending>>
  /\ Apply(active, c)

ReplaceRefused(c) ==
  /\ pc[c] = "replacing" /\ active \in streaming
  /\ Done(c)
  /\ UNCHANGED <<tabs, talk, store, recentlyClosed, saved, reloads, shared>>

(* Mutant of Linked: the change of session is not announced. *)
LinkedSilently(c) ==
  /\ pc[c] = "linking"
  /\ Done(c)
  /\ UNCHANGED <<tabs, talk, store, recentlyClosed, saved, reloads, shared>>

(* The workbook association is written; applyLoadedSession announces. *)
Linked(c) ==
  /\ pc[c] = "linking"
  /\ Done(c)
  /\ UNCHANGED tabs
  /\ Emit
  /\ UNCHANGED <<talk, store, recentlyClosed, reloads, shared>>

(* Duplicate a tab, or fork it for another model: an idle tab only. *)
ForkRequest(c) ==
  /\ pc[c] = "new"
  /\ \E r \in Opened(order) \ streaming : item' = [item EXCEPT ![c] = r]
  /\ Become(c, "creating")
  /\ UNCHANGED <<tabs, talk, store, recentlyClosed, todo, data, saved, reloads, shared>>

(* The copy takes the messages its source has by now, and is saved. *)
ForkCreated(c) ==
  /\ pc[c] = "creating"
  /\ Register(created + 1)
  /\ UNCHANGED session
  /\ chat' = [chat EXCEPT ![created + 1] = chat[item[c]]]
  /\ Save(created + 1, chat[item[c]])
  /\ Done(c)
  /\ Emit
  /\ UNCHANGED <<sent, answered, streaming, recentlyClosed, reloads, shared>>

-----------------------------------------------------------------------------
(* The settings store writes the queued layouts one after the other. *)
LayoutWrite ==
  /\ pending # <<>>
  /\ layout' = Head(pending) /\ pending' = Tail(pending)
  /\ UNCHANGED <<tabs, talk, store, recentlyClosed, calls, reloads, shared>>

(***************************************************************************)
(* A reload loses the memory; restorePersistedTabLayout makes a tab for    *)
(* each session of the stored layout.  A session that was never stored     *)
(* comes back as a blank one, saved under its new id.  The user does not   *)
(* act before the strip is restored.                                       *)
(***************************************************************************)
Reload ==
  LET n == Len(layout.sessions)
      Was(r) == layout.sessions[r - created]
      fresh == (created + 1)..(created + n)
      known == {r \in fresh : Was(r) \in stored}
      front == CHOOSE r \in fresh : /\ Was(r) = layout.active
                                   /\ \A q \in fresh : Was(q) = layout.active => r <= q
  IN  /\ reloads < MaxReloads /\ reloads' = reloads + 1
      /\ created + n <= MaxRuntimes /\ created' = created + n
      /\ order' = [i \in 1..n |-> created + i] /\ active' = front
      /\ session' = [r \in Runtimes |-> IF r \in known THEN Was(r) ELSE r]
      /\ chat' = [r \in Runtimes |-> IF r \in known THEN disk[Was(r)] ELSE {}]
      /\ answered' = {r \in known : HasAssistant(disk[Was(r)])}
      /\ stored' = stored \cup (fresh \ known)
      /\ streaming' = {} /\ recentlyClosed' = <<>>
      /\ pc' = [c \in Calls |-> IF pc[c] = "new" THEN "new" ELSE "done"]
      /\ todo' = [c \in Calls |-> <<>>] /\ item' = [c \in Calls |-> None]
      /\ data' = [c \in Calls |-> {}]
      /\ pending' = Queue(<<>>, Layout(order', active', session'))
      /\ UNCHANGED <<sent, disk, layout>>
      /\ NoteSharing

-----------------------------------------------------------------------------
CallStep(c) ==
  \/ CloseRequest(c) \/ CloseOthersRequest(c) \/ CloseConfirmed(c) \/ CloseDeclined(c)
  \/ CloseFinish(c) \/ ReopenRequest(c) \/ ResumeRequest(c) \/ LoadFails(c)
  \/ OpenLoaded(c) \/ ReplaceLoaded(c) \/ ReplaceRefused(c) \/ Linked(c)
  \/ ForkRequest(c) \/ ForkCreated(c)

TabStep ==
  \/ \E r \in Runtimes : Send(r) \/ Answer(r) \/ Switch(r)
  \/ \E i \in Runtimes : Move(i)
  \/ NewTab \/ LayoutWrite \/ Reload

Next == (\E c \in Calls : CallStep(c)) \/ TabStep

Spec == Init /\ [][Next]_vars

-----------------------------------------------------------------------------
TypeOK ==
  /\ order \in Seq(Runtimes) /\ order # <<>> /\ active \in Opened(order)
  /\ \A i, j \in DOMAIN order : i # j => order[i] # order[j]
  /\ created \in Runtimes /\ sent \in 0..MaxMessages
  /\ Opened(order) \subseteq 1..created
  /\ session \in [Runtimes -> Sessions] /\ chat \in [Runtimes -> SUBSET Messages]
  /\ answered \subseteq Runtimes /\ streaming \subseteq Opened(order)
  /\ stored \subseteq Sessions /\ disk \in [Sessions -> SUBSET Messages]
  /\ recentlyClosed \in BoundedSeq(Sessions, MaxClosed)
  /\ pc \in [Calls -> {"new", "confirming", "saving", "linking", "creating", "done"} \cup Loading]
  /\ todo \in [Calls -> Seq(Runtimes)] /\ item \in [Calls -> Runtimes \cup {None}]
  /\ data \in [Calls -> SUBSET Messages]
  /\ \A l \in ToSet(pending) \cup {layout} : l.active \in ToSet(l.sessions)
  /\ reloads \in 0..MaxReloads /\ shared \subseteq Sessions

(* What an idle tab shows is in the store, so a crash loses nothing of it,  *)
(* as long as no other tab saves under the same session.                    *)
IdleTabSaved ==
  \A r \in Opened(order) \ streaming :
    session[r] \notin shared => chat[r] \subseteq disk[session[r]]

(* "Tabs are temporary, sessions are durable": a stored message stays       *)
(* stored, through closing, reopening, replacing, copying and reloading,    *)
(* unless two tabs have held the session at once.                           *)
MessagesKept ==
  [][\A s \in Sessions \ shared' : disk[s] \subseteq disk'[s]]_vars

(* A close ends with everything in the store that was said before it saved  *)
(* the tab, and with the later messages of an answered session.             *)
ClosedTabSaved ==
  [][\A c \in Calls :
       pc[c] = "saving" /\ todo'[c] # todo[c] =>
         LET r == todo[c][1] IN
         session[r] \notin shared =>
           (IF r \in answered THEN chat[r] ELSE data[c] \cap chat[r]) \subseteq disk'[session[r]]]_vars

(* Once the queued layouts are written and no session is changing, the      *)
(* stored layout is the strip the user sees: a reload brings it back.       *)
LayoutCatchesUp ==
  (pending = <<>> /\ \A c \in Calls : pc[c] # "linking") => layout = Layout(order, active, session)

(* The same without the exception: the resume dialog offers open sessions   *)
(* and does not look for the tab that holds them.                           *)
MessagesNeverLost == [][\A s \in Sessions : disk[s] \subseteq disk'[s]]_vars
=============================================================================
