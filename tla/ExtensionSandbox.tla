--------------------------- MODULE ExtensionSandbox ---------------------------
(***************************************************************************)
(* The sandbox of an extension: an iframe without access to the page, and  *)
(* its host, SandboxRuntimeHost (extensions/sandbox-runtime.ts).  The two  *)
(* talk through one MessagePort, in order both ways, with requests and     *)
(* responses in both directions; the script in the frame                   *)
(* (extensions/sandbox/srcdoc.ts) runs the extension.                      *)
(*                                                                         *)
(* A request of the extension is named by the number the script gives it   *)
(* (nextRequestId), and so are the handler of agent events and the user    *)
(* interface that come with it.                                            *)
(***************************************************************************)
EXTENDS Naturals, Sequences, SequencesExt, FiniteSets

CONSTANTS
  Invocations, \* calls of the tools, commands and buttons of the extension
  Deactivate,  \* the call that tells it to clean up
  MaxRequests  \* bound on its requests

ASSUME SandboxAssumption == Deactivate \notin Invocations /\ MaxRequests \in Nat

VARIABLES
  ready,           \* readyPromise: "waiting", "ready" or "failed"
  host,            \* "frame" before the port, "open", "disposed", "closed"
  caller,          \* per call of callSandbox, what its caller sees
  pendingRequests, \* the calls that have an entry and a timer
  subscriptions,   \* eventSubscriptions, by the request that subscribed
  shown,           \* the request whose interface the overlay shows, or 0
  actionIds,       \* the request whose buttons the host forwards, or 0
  accepted,        \* the requests the host has carried out
  handling,        \* those it is still busy with
  toHost, toSandbox, \* messages on their way
  script,          \* the frame: "loading", "activating", "ops", "active",
                   \* "failed" or "gone"
  issued,          \* nextRequestId - 1
  activationOps, outstanding, refusedOps,
                   \* requests: made by activate, without a response, refused
  eventHandlers,   \* agentEventHandlers
  actionHandlers,  \* the request whose buttons have handlers, or 0
  running          \* calls whose handler runs

hostVars == <<ready, host, caller, pendingRequests, subscriptions, shown, actionIds, accepted, handling>>
scriptVars == <<script, issued, activationOps, outstanding, refusedOps, eventHandlers, actionHandlers, running>>
sandboxVars == <<hostVars, toHost, toSandbox, scriptVars>>

SandboxRequests == 1 .. MaxRequests
SandboxCalls == Invocations \cup {Deactivate}

\* What a request of the extension asks for: something that is done and answered
\* at once (a tool, a command, a toast), something that takes a while (storage,
\* HTTP, a completion), agent events or not any more, an overlay or none.
SandboxMethods == {"register", "fetch", "subscribe", "unsubscribe", "show", "dismiss"}

HostMessages ==
  [kind : {"request"}, method : SandboxMethods, id : SandboxRequests]
  \cup [kind : {"response"}, call : SandboxCalls] \cup [kind : {"ready", "error"}]
ScriptMessages ==
  [kind : {"bootstrap"}] \cup [kind : {"response"}, id : SandboxRequests, ok : BOOLEAN]
  \cup [kind : {"request"}, call : SandboxCalls, action : 0 .. MaxRequests]

SandboxInit ==
  /\ ready = "waiting" /\ host = "frame"
  /\ caller = [c \in SandboxCalls |-> "unused"] /\ pendingRequests = {}
  /\ subscriptions = {} /\ shown = 0 /\ actionIds = 0 /\ accepted = {} /\ handling = {}
  /\ toHost = <<>> /\ toSandbox = <<>>
  /\ script = "loading" /\ issued = 0
  /\ activationOps = {} /\ outstanding = {} /\ refusedOps = {}
  /\ eventHandlers = {} /\ actionHandlers = 0 /\ running = {}

-----------------------------------------------------------------------------
(* The host. *)

\* dispose after its await: every call that waits is rejected, the port is
\* closed, and the frame goes with its script.
TearDown ==
  /\ host' = "closed" /\ script' = "gone"
  /\ caller' = [c \in SandboxCalls |-> IF caller[c] = "waiting" THEN "settled" ELSE caller[c]]
  /\ pendingRequests' = {} /\ subscriptions' = {} /\ shown' = 0 /\ actionIds' = 0
  /\ toHost' = <<>> /\ toSandbox' = <<>> /\ running' = {}
  /\ UNCHANGED <<accepted, handling, issued, activationOps, outstanding, refusedOps, eventHandlers, actionHandlers>>

\* rejectReady: activateExtensionInSandbox disposes of the host.
GiveUp == ready' = "failed" /\ TearDown

\* onIframeLoad, bootstrapSandboxPort.
FrameLoads ==
  /\ host = "frame"
  /\ host' = "open" /\ toSandbox' = <<[kind |-> "bootstrap"]>>
  /\ UNCHANGED <<ready, caller, pendingRequests, subscriptions, shown, actionIds, accepted, handling, toHost, scriptVars>>

FrameFails == host = "frame" /\ GiveUp

\* The timer of waitUntilReady.
BootstrapTimesOut == ready = "waiting" /\ GiveUp

\* callSandbox for a call whose caller does not know whether the host is there.
CallSandbox(c, action) ==
  IF host = "open"
  THEN /\ caller' = [caller EXCEPT ![c] = "waiting"]
       /\ pendingRequests' = pendingRequests \cup {c}
       /\ toSandbox' = Append(toSandbox, [kind |-> "request", call |-> c, action |-> action])
  ELSE caller' = [caller EXCEPT ![c] = "settled"] /\ UNCHANGED <<pendingRequests, toSandbox>>

\* execute of a tool or handler of a command, once the host has registered one.
Invoke(c) ==
  /\ caller[c] = "unused" /\ accepted # {}
  /\ CallSandbox(c, 0)
  /\ UNCHANGED <<ready, host, subscriptions, shown, actionIds, accepted, handling, toHost, scriptVars>>

\* dispatchSandboxUiAction, for a button of the interface that is shown.
Click(c) ==
  /\ caller[c] = "unused" /\ shown # 0 /\ actionIds = shown
  /\ CallSandbox(c, shown)
  /\ UNCHANGED <<ready, host, subscriptions, shown, actionIds, accepted, handling, toHost, scriptVars>>

\* Another extension takes the one overlay all of them share.
OverlayTaken ==
  /\ shown # 0
  /\ shown' = 0
  /\ UNCHANGED <<ready, host, caller, pendingRequests, subscriptions, actionIds, accepted, handling, toHost, toSandbox, scriptVars>>

\* dispose(true) up to its await.  Nothing is called any more, but what the
\* script asks for is still done.
Dispose ==
  /\ ready = "ready" /\ host = "open"
  /\ host' = "disposed"
  /\ CallSandbox(Deactivate, 0)
  /\ UNCHANGED <<ready, subscriptions, shown, actionIds, accepted, handling, toHost, scriptVars>>

\* The entry of a call goes; the dispose that waits for it goes on.
Settle(c) ==
  /\ IF c = Deactivate
       THEN TearDown
       ELSE /\ caller' = [caller EXCEPT ![c] = "settled"]
            /\ pendingRequests' = pendingRequests \ {c}
            /\ UNCHANGED <<host, subscriptions, shown, actionIds, accepted, handling, toSandbox, scriptVars>>
  /\ UNCHANGED ready

CallTimesOut(c) ==
  /\ c \in pendingRequests
  /\ Settle(c)
  /\ c # Deactivate => UNCHANGED toHost

Respond(id, ok) ==
  toSandbox' = IF host \in {"open", "disposed"}
               THEN Append(toSandbox, [kind |-> "response", id |-> id, ok |-> ok]) ELSE toSandbox

\* A request the host carries out: the set of its events, its overlay and the
\* requests it is busy with change.
Perform(method, id) ==
  /\ subscriptions' = CASE method = "subscribe" -> subscriptions \cup {id}
                         [] OTHER -> subscriptions
  /\ actionIds' = CASE method = "show" -> id [] method = "dismiss" -> 0 [] OTHER -> actionIds
  /\ shown' = CASE method = "show" -> id [] method = "dismiss" -> 0 [] OTHER -> shown
  /\ IF method = "fetch"
       THEN handling' = handling \cup {id} /\ UNCHANGED <<accepted, toSandbox>>
       ELSE accepted' = accepted \cup {id} /\ Respond(id, TRUE) /\ UNCHANGED handling

\* handleSandboxRequest: the extension lacks the capability, the parameters are
\* wrong or the operation throws, or it is carried out.  Events are given up
\* whatever it may do, and nobody waits for that answer.
HandleRequest(m) ==
  /\ UNCHANGED <<ready, host, caller, pendingRequests, scriptVars>>
  /\ IF m.method = "unsubscribe"
       THEN /\ subscriptions' = subscriptions \ {m.id}
            /\ UNCHANGED <<shown, actionIds, accepted, handling, toSandbox>>
       ELSE \/ Perform(m.method, m.id)
            \/ Respond(m.id, FALSE) /\ UNCHANGED <<subscriptions, shown, actionIds, accepted, handling>>

\* handlePortMessage.  The response to a call that has been given up is dropped,
\* and so are "ready" and "error" once the promise is settled.
HostReceives ==
  /\ toHost # <<>>
  /\ LET m == Head(toHost)
         Dropped == toHost' = Tail(toHost) /\ UNCHANGED <<hostVars, toSandbox, scriptVars>>
     IN CASE m.kind = "request" -> toHost' = Tail(toHost) /\ HandleRequest(m)
          [] m.kind = "response" ->
               IF m.call \in pendingRequests
               THEN Settle(m.call) /\ (m.call # Deactivate => toHost' = Tail(toHost)) ELSE Dropped
          [] m.kind = "ready" ->
               IF ready = "waiting"
               THEN /\ ready' = "ready" /\ toHost' = Tail(toHost)
                    /\ UNCHANGED <<host, caller, pendingRequests, subscriptions, shown, actionIds, accepted, handling, toSandbox, scriptVars>>
               ELSE Dropped
          [] m.kind = "error" -> IF ready = "waiting" THEN GiveUp ELSE Dropped

\* What takes a while is done or fails, even when the frame is gone.
FetchEnds(id) ==
  /\ id \in handling
  /\ handling' = handling \ {id}
  /\ \E ok \in BOOLEAN : Respond(id, ok) /\ accepted' = IF ok THEN accepted \cup {id} ELSE accepted
  /\ UNCHANGED <<ready, host, caller, pendingRequests, subscriptions, shown, actionIds, toHost, scriptVars>>

-----------------------------------------------------------------------------
(* The script in the frame. *)

ScriptRuns == script \in {"activating", "ops", "active", "failed"}

\* requestHost and queueActivationOp: the extension may ask for something as
\* long as its code runs.  Events get their handler, and an overlay the handlers
\* of its buttons, before the host knows of them.
Ask(method) ==
  /\ ScriptRuns /\ issued < MaxRequests
  /\ LET id == issued + 1 IN
       /\ issued' = id
       /\ outstanding' = outstanding \cup {id}
       /\ activationOps' = IF script = "activating" /\ method # "fetch" THEN activationOps \cup {id} ELSE activationOps
       /\ eventHandlers' = IF method = "subscribe" THEN eventHandlers \cup {id} ELSE eventHandlers
       /\ actionHandlers' = CASE method = "show" -> id [] method = "dismiss" -> 0 [] OTHER -> actionHandlers
       /\ toHost' = Append(toHost, [kind |-> "request", method |-> method, id |-> id])
  /\ UNCHANGED <<hostVars, toSandbox, script, refusedOps, running>>

Unsubscribing(id) == [kind |-> "request", method |-> "unsubscribe", id |-> id]

\* The function onAgentEvent has returned.
Unsubscribe(id) ==
  /\ ScriptRuns /\ id \in eventHandlers
  /\ eventHandlers' = eventHandlers \ {id}
  /\ toHost' = Append(toHost, Unsubscribing(id))
  /\ UNCHANGED <<hostVars, toSandbox, script, issued, activationOps, outstanding, refusedOps, actionHandlers, running>>

\* activate returns, or the module or activate throws.
ActivateReturns ==
  /\ script = "activating"
  /\ script' = "ops"
  /\ UNCHANGED <<hostVars, toHost, toSandbox, issued, activationOps, outstanding, refusedOps, eventHandlers, actionHandlers, running>>

ActivateThrows ==
  /\ script = "activating"
  /\ script' = "failed" /\ toHost' = Append(toHost, [kind |-> "error"])
  /\ UNCHANGED <<hostVars, toSandbox, issued, activationOps, outstanding, refusedOps, eventHandlers, actionHandlers, running>>

\* Variant: the operations of activate are not waited for.
OpsEndAtOnce ==
  /\ script = "ops"
  /\ script' = "active" /\ toHost' = Append(toHost, [kind |-> "ready"])
  /\ UNCHANGED <<hostVars, toSandbox, issued, activationOps, outstanding, refusedOps, eventHandlers, actionHandlers, running>>

\* Promise.all: an operation of activate is refused, or all are carried out.
OpsEnd ==
  /\ script = "ops"
  /\ \/ /\ activationOps \cap refusedOps # {}
        /\ script' = "failed" /\ toHost' = Append(toHost, [kind |-> "error"])
     \/ /\ activationOps \cap (refusedOps \cup outstanding) = {}
        /\ script' = "active" /\ toHost' = Append(toHost, [kind |-> "ready"])
  /\ UNCHANGED <<hostVars, toSandbox, issued, activationOps, outstanding, refusedOps, eventHandlers, actionHandlers, running>>

\* handleHostMessage.  A button without a handler is answered at once.
ScriptReceives ==
  /\ toSandbox # <<>>
  /\ toSandbox' = Tail(toSandbox)
  /\ LET m == Head(toSandbox) IN
     CASE m.kind = "bootstrap" ->
            /\ script' = "activating"
            /\ UNCHANGED <<toHost, issued, activationOps, outstanding, refusedOps, eventHandlers, actionHandlers, running>>
       [] m.kind = "response" ->
            /\ outstanding' = outstanding \ {m.id}
            /\ refusedOps' = IF m.ok THEN refusedOps ELSE refusedOps \cup {m.id}
            /\ UNCHANGED <<toHost, script, issued, activationOps, eventHandlers, actionHandlers, running>>
       [] m.kind = "request" ->
            /\ IF m.action # 0 /\ actionHandlers = 0
                 THEN toHost' = Append(toHost, [kind |-> "response", call |-> m.call]) /\ UNCHANGED running
                 ELSE running' = running \cup {m.call} /\ UNCHANGED toHost
            /\ UNCHANGED <<script, issued, activationOps, outstanding, refusedOps, eventHandlers, actionHandlers>>
  /\ UNCHANGED hostVars

\* The handler of a call is done, or throws; its time may be up already.
Answer(c) ==
  /\ c \in running \ {Deactivate}
  /\ running' = running \ {c}
  /\ toHost' = Append(toHost, [kind |-> "response", call |-> c])
  /\ UNCHANGED <<hostVars, toSandbox, script, issued, activationOps, outstanding, refusedOps, eventHandlers, actionHandlers>>

\* runDeactivate: the cleanups of the extension are done, then it gives up its
\* events and its buttons.
RunDeactivate ==
  /\ Deactivate \in running
  /\ running' = running \ {Deactivate}
  /\ eventHandlers' = {} /\ actionHandlers' = 0
  /\ \E order \in [1 .. Cardinality(eventHandlers) -> eventHandlers] :
       /\ \A i, j \in DOMAIN order : i < j => order[i] < order[j]
       /\ toHost' = toHost \o [i \in DOMAIN order |-> Unsubscribing(order[i])]
                          \o <<[kind |-> "response", call |-> Deactivate]>>
  /\ UNCHANGED <<hostVars, toSandbox, script, issued, activationOps, outstanding, refusedOps>>

SandboxNext ==
  \/ FrameLoads \/ FrameFails \/ BootstrapTimesOut \/ OverlayTaken \/ Dispose \/ HostReceives
  \/ \E c \in Invocations : Invoke(c) \/ Click(c) \/ Answer(c)
  \/ \E c \in SandboxCalls : CallTimesOut(c)
  \/ \E id \in SandboxRequests : FetchEnds(id) \/ Unsubscribe(id)
  \/ \E method \in SandboxMethods \ {"unsubscribe"} : Ask(method)
  \/ ActivateReturns \/ ActivateThrows \/ OpsEnd \/ ScriptReceives \/ RunDeactivate

SandboxSpec == SandboxInit /\ [][SandboxNext]_sandboxVars

-----------------------------------------------------------------------------
(* Properties. *)

\* Every variable keeps its type.
SandboxTypeOK ==
  /\ ready \in {"waiting", "ready", "failed"} /\ host \in {"frame", "open", "disposed", "closed"}
  /\ caller \in [SandboxCalls -> {"unused", "waiting", "settled"}] /\ pendingRequests \subseteq SandboxCalls
  /\ shown \in 0 .. MaxRequests /\ actionIds \in 0 .. MaxRequests /\ actionHandlers \in 0 .. MaxRequests
  /\ toHost \in Seq(HostMessages) /\ toSandbox \in Seq(ScriptMessages)
  /\ script \in {"loading", "activating", "ops", "active", "failed", "gone"} /\ issued \in 0 .. MaxRequests
  /\ \A S \in {subscriptions, accepted, handling, activationOps, outstanding, refusedOps, eventHandlers} :
       S \subseteq 1 .. issued
  /\ running \subseteq SandboxCalls

\* An extension counts as activated only when the host has carried out all that
\* its activate asked for.
ReadyMeansDone == ready = "ready" => activationOps \subseteq accepted

\* The host keeps no events for an extension that has given them up, unless it
\* is about to hear of it, and nothing at all for one that is gone.
NothingLeaks ==
  /\ \A id \in subscriptions : id \in eventHandlers \/ Contains(toHost, Unsubscribing(id))
  /\ host = "closed" => subscriptions \cup pendingRequests = {} /\ shown = 0 /\ actionIds = 0

\* Every call whose caller waits has a timer that ends it, and so has a disposal.
CallsHaveTimers ==
  /\ \A c \in SandboxCalls : caller[c] = "waiting" <=> c \in pendingRequests
  /\ host = "disposed" => Deactivate \in pendingRequests

\* The handlers a click may reach are those of the interface that is shown or
\* those of a newer one, never those of an older one.
ClicksReachNewer ==
  /\ shown # 0 => shown = actionIds
  /\ actionHandlers # 0 /\ script # "gone" => actionHandlers >= actionIds
  /\ \A i \in DOMAIN toSandbox : toSandbox[i].kind = "request" /\ actionHandlers # 0 => toSandbox[i].action <= actionHandlers

\* The host and the script keep each other's house, whatever is refused, late or
\* given up, and whenever it is that the extension is disposed of.
SandboxKeepsHouse == ReadyMeansDone /\ NothingLeaks /\ CallsHaveTimers /\ ClicksReachNewer

===============================================================================
