----------------------------- MODULE ModelRefresh -----------------------------
(***************************************************************************)
(* ModelRefreshOwner: which providers the application offers.  A refresh   *)
(* re-reads the custom providers of the settings when that was asked for,  *)
(* lets every provider fetch its catalogue, over the network when that was *)
(* asked for, and publishes a snapshot.  Requests during a refresh share   *)
(* its promise; a loop serves what they set meanwhile.                     *)
(*                                                                         *)
(* Two numbers stand for the world: the version of the custom providers in *)
(* the settings, and the version of what the providers would fetch (their  *)
(* credentials, connections and extensions).                               *)
(***************************************************************************)
EXTENDS Naturals

CONSTANTS MaxConfig, \* bound on the changes of the settings
          MaxRemote, \* bound on the changes of credentials and providers
          Unread

ASSUME ModelRefreshAssumption == MaxConfig \in Nat /\ MaxRemote \in Nat /\ Unread \notin Nat

VARIABLES
  config, remote,                   \* the two versions
  requestedSync, requestedNetwork,  \* what the next pass has to do
  activeNetwork,                    \* the pass under way uses the network
  phase,                            \* where runRefreshes stands
  read,                             \* the settings or catalogues the pass has read
  synced, fetched,                  \* versions the model runtime has
  snapshot,                         \* versions that were published last
  startup,                          \* where startup stands
  credentials,                      \* the credentials: "restoring", "restored" or "failed"
  givenUp                           \* what a pass failed to do and requests that were
                                    \* not served, until the next pass does it

requestVars == <<requestedSync, requestedNetwork>>
refreshVars == <<activeNetwork, phase, read, synced, fetched, snapshot>>
startupVars == <<startup, credentials>>
modelVars == <<config, remote, requestVars, refreshVars, startupVars, givenUp>>

NothingPublished == [config |-> 0, remote |-> 0]

ModelInit ==
  /\ config = 0 /\ remote = 0
  /\ requestedSync = FALSE /\ requestedNetwork = FALSE
  /\ activeNetwork = FALSE /\ phase = "idle" /\ read = Unread
  /\ synced = 0 /\ fetched = 0 /\ snapshot = NothingPublished
  /\ startup = "loading" /\ credentials = "restoring"
  /\ givenUp = {}

\* Variant: the loop looks at the requested sync only.
AgainForSync(sync, network) == sync

\* while (this.requestedSync || this.requestedNetwork)
Again(sync, network) == sync \/ network

\* A pass takes the requests, marked in sync and network, and begins.
PassStarts(sync, network) ==
  /\ requestedSync' = FALSE /\ requestedNetwork' = FALSE
  /\ activeNetwork' = network
  /\ phase' = IF sync THEN "loading" ELSE "fetching"
  /\ read' = Unread
  /\ givenUp' = givenUp \ ((IF sync THEN {"config"} ELSE {}) \cup (IF network THEN {"remote"} ELSE {}))

\* The loop is over, the handler of finally has yet to run.
LoopOver == phase \in {"ending", "failed"}

\* requestRefresh.  Without a sync to do, a request for the network is left to
\* a pass with network that is under way; nobody serves one that comes when the
\* loop is over.
RequestRefresh(sync, network) ==
  LET askSync == requestedSync \/ sync
      askNetwork == requestedNetwork \/ (network /\ (~activeNetwork \/ askSync))
  IN  IF phase = "idle"
        THEN PassStarts(askSync, askNetwork) /\ UNCHANGED <<synced, fetched, snapshot>>
        ELSE /\ requestedSync' = askSync /\ requestedNetwork' = askNetwork
             /\ givenUp' = givenUp \cup (IF network /\ (~askNetwork \/ LoopOver) THEN {"remote"} ELSE {})
                                   \cup (IF sync /\ LoopOver THEN {"config"} ELSE {})
             /\ UNCHANGED refreshVars

-----------------------------------------------------------------------------
(* Who asks. *)

\* The user changes a custom provider (pi:providers-changed).
SaveProvider ==
  /\ config < MaxConfig
  /\ config' = config + 1
  /\ RequestRefresh(TRUE, TRUE)
  /\ UNCHANGED <<remote, startupVars>>

\* A connection changes, or an extension adds or drops a provider.
ChangeRemote ==
  /\ remote < MaxRemote
  /\ remote' = remote + 1
  /\ RequestRefresh(FALSE, TRUE)
  /\ UNCHANGED <<config, startupVars>>

\* The model selector and the prompt for a missing key read the settings again
\* before they show anything.
OpenSelector ==
  /\ startup = "done"
  /\ RequestRefresh(TRUE, FALSE)
  /\ UNCHANGED <<config, remote, startupVars>>

\* restoreCached: the first request of the program.
StartupLoads ==
  /\ startup = "loading"
  /\ startup' = "cached"
  /\ RequestRefresh(TRUE, FALSE)
  /\ UNCHANGED <<config, remote, credentials>>

\* The credentials are waited for no longer than the timeout; discovery begins
\* with what there is.
StartupDiscovers ==
  /\ startup = "waiting"
  /\ startup' = IF credentials = "restoring" THEN "late" ELSE "done"
  /\ RequestRefresh(FALSE, TRUE)
  /\ UNCHANGED <<config, remote, credentials>>

\* The credentials come in, in time or after the timeout.  Nobody asks for a
\* refresh when startup has failed before.
Restored ==
  /\ credentials = "restoring" /\ remote < MaxRemote
  /\ credentials' = "restored"
  /\ remote' = remote + 1
  /\ IF startup = "late"
       THEN RequestRefresh(TRUE, TRUE) /\ startup' = "done"
       ELSE /\ givenUp' = IF startup = "done" THEN givenUp \cup {"remote"} ELSE givenUp
            /\ UNCHANGED <<requestVars, refreshVars, startup>>
  /\ UNCHANGED config

RestoreFails ==
  /\ credentials = "restoring"
  /\ credentials' = "failed"
  /\ startup' = IF startup = "late" THEN "done" ELSE startup
  /\ UNCHANGED <<config, remote, requestVars, refreshVars, givenUp>>

-----------------------------------------------------------------------------
(* runRefreshes. *)

ReadProviders ==
  /\ phase = "loading" /\ read = Unread
  /\ read' = config
  /\ UNCHANGED <<config, remote, requestVars, activeNetwork, phase, synced, fetched, snapshot, startupVars, givenUp>>

\* syncCustomProviders.
Sync ==
  /\ phase = "loading" /\ read # Unread
  /\ synced' = read /\ read' = Unread /\ phase' = "fetching"
  /\ UNCHANGED <<config, remote, requestVars, activeNetwork, fetched, snapshot, startupVars, givenUp>>

\* The settings cannot be read, or two providers have one name: the promise is
\* rejected, what was requested stays requested and nobody serves it.
PassThrows ==
  /\ phase = "loading"
  /\ phase' = "failed" /\ read' = Unread
  /\ givenUp' = givenUp \cup {"config"} \cup (IF activeNetwork \/ requestedNetwork THEN {"remote"} ELSE {})
  /\ UNCHANGED <<config, remote, requestVars, activeNetwork, synced, fetched, snapshot, startupVars>>

\* Every provider looks up its credential and asks for its catalogue.
Ask ==
  /\ phase = "fetching" /\ read = Unread
  /\ read' = remote
  /\ UNCHANGED <<config, remote, requestVars, activeNetwork, phase, synced, fetched, snapshot, startupVars, givenUp>>

\* The catalogues are in; without network they are the cached ones.  Errors
\* of single providers are part of the result.
Fetched ==
  /\ phase = "fetching" /\ read # Unread
  /\ phase' = "publishing"
  /\ IF activeNetwork
       THEN \/ fetched' = read /\ UNCHANGED givenUp
            \/ givenUp' = givenUp \cup {"remote"} /\ UNCHANGED fetched
       ELSE UNCHANGED <<fetched, givenUp>>
  /\ UNCHANGED <<config, remote, requestVars, activeNetwork, read, synced, snapshot, startupVars>>

\* publish, and the next pass when something was requested meanwhile.
Publish ==
  /\ phase = "publishing"
  /\ snapshot' = [config |-> synced, remote |-> fetched]
  /\ IF Again(requestedSync, requestedNetwork)
       THEN PassStarts(requestedSync, requestedNetwork)
       ELSE /\ phase' = "ending" /\ activeNetwork' = FALSE /\ read' = Unread
            /\ UNCHANGED <<requestVars, givenUp>>
  /\ UNCHANGED <<config, remote, synced, fetched, startupVars>>

\* Startup goes on when the cached catalogues are out; when they could not be
\* restored it ends, and nothing is asked of the network.
StartupGoesOn ==
  IF startup # "cached" THEN UNCHANGED <<startup, givenUp>>
  ELSE IF phase = "failed" THEN startup' = "done" /\ givenUp' = givenUp \cup {"remote"}
  ELSE startup' = "waiting" /\ UNCHANGED givenUp

\* Variant: then instead of finally.
PassEndsWell ==
  /\ phase = "ending"
  /\ phase' = "idle" /\ activeNetwork' = FALSE
  /\ StartupGoesOn
  /\ UNCHANGED <<config, remote, requestVars, read, synced, fetched, snapshot, credentials>>

\* The handler of finally: a request since the loop has ended is left behind.
PassEnds ==
  /\ LoopOver
  /\ phase' = "idle" /\ activeNetwork' = FALSE
  /\ StartupGoesOn
  /\ UNCHANGED <<config, remote, requestVars, read, synced, fetched, snapshot, credentials>>

RefreshStep == ReadProviders \/ Sync \/ PassThrows \/ Ask \/ Fetched \/ Publish \/ PassEnds

ModelNext ==
  \/ SaveProvider \/ ChangeRemote \/ OpenSelector
  \/ StartupLoads \/ StartupDiscovers \/ Restored \/ RestoreFails
  \/ ReadProviders \/ Sync \/ PassThrows \/ Ask \/ Fetched \/ Publish \/ PassEnds

ModelSpec == ModelInit /\ [][ModelNext]_modelVars

\* Reads and fetches come to an end: those of the providers have a timeout.
ModelFairness == WF_modelVars(RefreshStep)

-----------------------------------------------------------------------------
(* Properties. *)

\* Every variable keeps its type, and no request is left to a pass when there is
\* none.
ModelTypeOK ==
  /\ phase = "idle" => ~activeNetwork
  /\ config \in 0 .. MaxConfig /\ remote \in 0 .. MaxRemote
  /\ requestedSync \in BOOLEAN /\ requestedNetwork \in BOOLEAN /\ activeNetwork \in BOOLEAN
  /\ phase \in {"idle", "loading", "fetching", "publishing", "ending", "failed"}
  /\ read \in Nat \cup {Unread}
  /\ synced \in 0 .. MaxConfig /\ fetched \in 0 .. MaxRemote
  /\ snapshot \in [config : 0 .. MaxConfig, remote : 0 .. MaxRemote]
  /\ startup \in {"loading", "cached", "waiting", "late", "done"}
  /\ credentials \in {"restoring", "restored", "failed"}
  /\ givenUp \subseteq {"config", "remote"}

Rests == phase = "idle" /\ startup # "loading"

\* When the refreshes rest, what was published holds every custom provider of
\* the settings, and what the providers fetch.  Excepted is what is given up: a
\* pass that threw, catalogues that could not be fetched, requests left to a pass
\* that had begun or made when the loop was over, and credentials that came
\* before anything was asked of the network.
PublishesCurrent ==
  /\ Rests /\ "config" \notin givenUp => snapshot.config = config
  /\ Rests /\ startup = "done" /\ "remote" \notin givenUp => snapshot.remote = remote

===============================================================================
