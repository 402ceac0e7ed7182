------------------------------ MODULE Credentials ------------------------------
(***************************************************************************)
(* How the user is signed in to the providers of models.  The key that is  *)
(* sent with a request and the grant it comes from (auth/oauth-storage.ts) *)
(* are two entries of two stores, which all taskpanes of the origin share; *)
(* they are written one after the other, each write awaited.               *)
(*                                                                         *)
(* A taskpane restores the keys from the grants when it starts             *)
(* (auth/restore.ts), and does not wait long for that: the user may sign   *)
(* in or out meanwhile (ui/provider-login.ts), here or in another one.     *)
(*                                                                         *)
(* A grant is a number; the key of a grant is the same number.  The grants *)
(* of a developer's own file (restoreFromPiAuth) are left out.             *)
(***************************************************************************)
EXTENDS Naturals, Sequences, SequencesExt, FiniteSets

CONSTANTS
  SignIns,    \* BROWSER_OAUTH_PROVIDERS: a sequence of providers
  Strict,     \* those whose grants may be found stale
  Taskpanes,
  Clicks,     \* uses of the buttons of a provider, each made once
  Typed,      \* a key the user has typed
  MaxGrants,  \* bound on the grants
  MaxStarts   \* bound on the starts of taskpanes

Signable == ToSet(SignIns)

ASSUME CredentialsAssumption ==
  /\ SignIns \in Seq(Signable) \ {<<>>} /\ IsInjective(SignIns) /\ Strict \subseteq Signable
  /\ "none" \notin Signable \cup Taskpanes /\ Taskpanes \cap Clicks = {} /\ Typed \notin Nat
  /\ MaxGrants \in Nat /\ Len(SignIns) <= MaxGrants /\ MaxStarts \in Nat

VARIABLES
  keys, grants, \* ProviderKeysStore and the settings: 0 is nothing
  newest,       \* per provider, the last grant it has given
  signedIn,     \* what the last button was for: "in", "out" or "key"
  given,        \* how many grants there have been
  starts,       \* how often a taskpane was started
  toRestore,         \* per taskpane, the providers to restore; the first is under way
  working,      \* per taskpane or click: what it works at
  at,           \* ... and the await it stands at
  muddled       \* providers whose entries failed writes or two workers have left

credentialVars == <<keys, grants, newest, signedIn, given, starts, toRestore, working, at, muddled>>

Workers == Taskpanes \cup Clicks
NoWork == [provider |-> "none", pane |-> "none", grant |-> 0, alone |-> FALSE]

CredentialInit ==
  /\ grants \in [Signable -> 0 .. Len(SignIns)]
  /\ \A i \in DOMAIN SignIns : grants[SignIns[i]] \in {0, i}
  /\ keys = grants /\ newest = grants /\ given = Len(SignIns) /\ starts = 0
  /\ signedIn = [p \in Signable |-> IF grants[p] = 0 THEN "out" ELSE "in"]
  /\ toRestore = [w \in Taskpanes |-> <<>>]
  /\ working = [x \in Workers |-> NoWork] /\ at = [x \in Workers |-> "new"]
  /\ muddled = {}

At(x, step) == at' = [at EXCEPT ![x] = step]
SetKey(p, k) == keys' = [keys EXCEPT ![p] = k]
SetGrant(p, g) == grants' = [grants EXCEPT ![p] = g]
Muddle(p) == muddled' = muddled \cup {p}

\* Those that are at work on a provider.
AtWork(p) == {x \in Workers : working[x].provider = p}

\* A worker of a taskpane comes to a provider; those that are there are no
\* longer alone.
Comes(x, w, p, g) ==
  /\ working' = [y \in Workers |->
       IF y = x THEN [provider |-> p, pane |-> w, grant |-> g, alone |-> AtWork(p) = {}]
       ELSE IF y \in AtWork(p) THEN [working[y] EXCEPT !.alone = FALSE] ELSE working[y]]
  /\ muddled' = IF AtWork(p) = {} THEN muddled ELSE muddled \cup {p}

-----------------------------------------------------------------------------
(* A start: restoreFromBrowserOAuthStorage. *)

Start(w) ==
  /\ at[w] = "new" /\ starts < MaxStarts
  /\ starts' = starts + 1 /\ toRestore' = [toRestore EXCEPT ![w] = SignIns] /\ At(w, "load")
  /\ UNCHANGED <<keys, grants, newest, signedIn, given, working, muddled>>

\* The next provider; after the last the taskpane is just open.
Next_(w) ==
  /\ toRestore' = [toRestore EXCEPT ![w] = Tail(@)]
  /\ At(w, IF Len(toRestore[w]) = 1 THEN "open" ELSE "load")
  /\ working' = [working EXCEPT ![w] = NoWork]

\* loadOAuthCredentials: no grant, or none that can be read, is passed over.
Load(w) ==
  /\ at[w] = "load"
  /\ LET p == Head(toRestore[w]) IN
     \/ Next_(w) /\ UNCHANGED muddled
     \/ /\ grants[p] # 0
        /\ At(w, "loaded") /\ Comes(w, w, p, grants[p]) /\ UNCHANGED toRestore
  /\ UNCHANGED <<keys, grants, newest, signedIn, given, starts>>

\* The grant is good for its key, or it has expired, or it is stale.
Use(w) ==
  /\ at[w] = "loaded"
  /\ LET p == working[w].provider IN
     \/ SetKey(p, working[w].grant) /\ Next_(w) /\ UNCHANGED muddled
     \/ Next_(w) /\ Muddle(p) /\ UNCHANGED keys
     \/ At(w, "refresh") /\ UNCHANGED <<keys, toRestore, working, muddled>>
     \/ p \in Strict /\ At(w, "clear") /\ UNCHANGED <<keys, toRestore, working, muddled>>
  /\ UNCHANGED <<grants, newest, signedIn, given, starts>>

\* Variant: a new grant is used but not stored.
RefreshKeptOnlyInUse(w) ==
  /\ at[w] = "refresh"
  /\ LET p == working[w].provider IN
     /\ given < MaxGrants
     /\ given' = given + 1 /\ newest' = [newest EXCEPT ![p] = given + 1]
     /\ working' = [working EXCEPT ![w].grant = given + 1] /\ At(w, "set")
     /\ UNCHANGED <<toRestore, muddled, grants>>
  /\ UNCHANGED <<keys, signedIn, starts>>

\* refreshToken: a new grant, which is stored at once; or none, and the old one
\* stays; or the old one is stale.
Refresh(w) ==
  /\ at[w] = "refresh"
  /\ LET p == working[w].provider IN
     \/ /\ given < MaxGrants
        /\ given' = given + 1 /\ newest' = [newest EXCEPT ![p] = given + 1]
        /\ \/ /\ SetGrant(p, given + 1) /\ UNCHANGED <<toRestore, muddled>>
              /\ working' = [working EXCEPT ![w].grant = given + 1] /\ At(w, "set")
           \/ Muddle(p) /\ Next_(w) /\ UNCHANGED grants
     \/ Next_(w) /\ UNCHANGED <<grants, newest, given, muddled>>
     \/ p \in Strict /\ At(w, "clear") /\ UNCHANGED <<grants, newest, given, toRestore, working, muddled>>
  /\ UNCHANGED <<keys, signedIn, starts>>

\* providerKeys.set after it.
SetRefreshed(w) ==
  /\ at[w] = "set"
  /\ LET p == working[w].provider IN
     \/ SetKey(p, working[w].grant) /\ UNCHANGED muddled
     \/ Muddle(p) /\ UNCHANGED keys
  /\ Next_(w)
  /\ UNCHANGED <<grants, newest, signedIn, given, starts>>

\* clearBrowserOAuthProvider: the grant and then the key, failures ignored.
ClearGrant(w) ==
  /\ at[w] = "clear"
  /\ LET p == working[w].provider IN
     \/ SetGrant(p, 0) /\ UNCHANGED muddled
     \/ Muddle(p) /\ UNCHANGED grants
  /\ At(w, "delete")
  /\ UNCHANGED <<keys, newest, signedIn, given, starts, toRestore, working>>

ClearKey(w) ==
  /\ at[w] = "delete"
  /\ LET p == working[w].provider IN
     \/ SetKey(p, 0) /\ UNCHANGED muddled
     \/ Muddle(p) /\ UNCHANGED keys
  /\ Next_(w)
  /\ UNCHANGED <<grants, newest, signedIn, given, starts>>

-----------------------------------------------------------------------------
(* The buttons of a provider (ui/provider-login.ts).  None of them waits for *)
(* another or for a restore.                                                 *)

Press(x) ==
  /\ at[x] = "new"
  /\ \E w \in Taskpanes, p \in Signable, button \in {"login", "disconnect", "save"} :
       /\ at[w] # "new"
       /\ At(x, button) /\ Comes(x, w, p, 0)
  /\ UNCHANGED <<keys, grants, newest, signedIn, given, starts, toRestore>>

\* The click has done all it should.  A login or a disconnect nobody came
\* between puts things right.
Served(x, p, is) ==
  /\ signedIn' = [signedIn EXCEPT ![p] = is]
  /\ working' = [working EXCEPT ![x] = NoWork] /\ At(x, "done")
  /\ muddled' = IF is # "key" /\ working[x].alone THEN muddled \ {p} ELSE muddled

\* Variant: a click that has failed keeps its button busy.
FailsBusy(x, p) ==
  /\ At(x, "done")
  /\ Muddle(p) /\ UNCHANGED <<working, signedIn>>

\* A write fails, or the user gives up.  (What was alone before is muddled.)
Fails(x, p) ==
  /\ working' = [working EXCEPT ![x] = NoWork] /\ At(x, "done")
  /\ Muddle(p) /\ UNCHANGED signedIn

\* oauthProvider.login, and the key of its grant.
Login(x) ==
  /\ at[x] = "login"
  /\ LET p == working[x].provider IN
     \/ /\ given < MaxGrants
        /\ given' = given + 1 /\ newest' = [newest EXCEPT ![p] = given + 1]
        /\ \/ /\ SetKey(p, given + 1) /\ At(x, "grant")
              /\ working' = [working EXCEPT ![x].grant = given + 1]
              /\ UNCHANGED <<signedIn, muddled>>
           \/ Fails(x, p) /\ UNCHANGED keys
     \/ /\ working' = [working EXCEPT ![x] = NoWork] /\ At(x, "done")
        /\ UNCHANGED <<keys, newest, signedIn, given, muddled>>
  /\ UNCHANGED <<grants, starts, toRestore>>

StoreGrant(x) ==
  /\ at[x] = "grant"
  /\ LET p == working[x].provider IN
     \/ SetGrant(p, working[x].grant) /\ Served(x, p, "in")
     \/ Fails(x, p) /\ UNCHANGED grants
  /\ UNCHANGED <<keys, newest, given, starts, toRestore>>

\* The key is deleted, and then the grant.
Disconnect_(x) ==
  /\ at[x] = "disconnect"
  /\ LET p == working[x].provider IN
     \/ SetKey(p, 0) /\ At(x, "forget") /\ UNCHANGED <<working, signedIn, muddled>>
     \/ Fails(x, p) /\ UNCHANGED keys
  /\ UNCHANGED <<grants, newest, given, starts, toRestore>>

ForgetGrant(x) ==
  /\ at[x] = "forget"
  /\ LET p == working[x].provider IN
     \/ SetGrant(p, 0) /\ Served(x, p, "out")
     \/ Fails(x, p) /\ UNCHANGED grants
  /\ UNCHANGED <<keys, newest, given, starts, toRestore>>

\* A key is typed.  The grant, if there is one, stays.
SaveKey(x) ==
  /\ at[x] = "save"
  /\ LET p == working[x].provider IN
     \/ SetKey(p, Typed) /\ Served(x, p, "key")
     \/ Fails(x, p) /\ UNCHANGED keys
  /\ UNCHANGED <<grants, newest, given, starts, toRestore>>

\* The taskpane is closed, and with it go its restore and the clicks in it.
Close(w) ==
  /\ at[w] # "new"
  /\ LET gone == {x \in Workers : x = w \/ working[x].pane = w} IN
     /\ muddled' = muddled \cup {working[x].provider : x \in {x \in gone : working[x] # NoWork}}
     /\ working' = [x \in Workers |-> IF x \in gone THEN NoWork ELSE working[x]]
     /\ at' = [x \in Workers |-> IF x = w THEN "new" ELSE IF x \in gone THEN "done" ELSE at[x]]
  /\ toRestore' = [toRestore EXCEPT ![w] = <<>>]
  /\ UNCHANGED <<keys, grants, newest, signedIn, given, starts>>

CredentialNext ==
  \/ \E w \in Taskpanes :
       \/ Start(w) \/ Load(w) \/ Use(w) \/ Refresh(w) \/ SetRefreshed(w)
       \/ ClearGrant(w) \/ ClearKey(w) \/ Close(w)
  \/ \E x \in Clicks :
       Press(x) \/ Login(x) \/ StoreGrant(x) \/ Disconnect_(x) \/ ForgetGrant(x) \/ SaveKey(x)

CredentialSpec == CredentialInit /\ [][CredentialNext]_credentialVars

-----------------------------------------------------------------------------
(* Properties. *)

\* Every variable keeps its type.
CredentialTypeOK ==
  /\ keys \in [Signable -> 0 .. MaxGrants \cup {Typed}]
  /\ grants \in [Signable -> 0 .. MaxGrants] /\ newest \in [Signable -> 0 .. MaxGrants]
  /\ signedIn \in [Signable -> {"in", "out", "key"}]
  /\ given \in 0 .. MaxGrants /\ starts \in 0 .. MaxStarts
  /\ muddled \subseteq Signable
  /\ at \in [Workers -> {"new", "load", "loaded", "refresh", "set", "clear", "delete", "open",
                          "login", "grant", "disconnect", "forget", "save", "done"}]
  /\ \A x \in Workers :
       working[x] # NoWork <=> at[x] \notin {"new", "load", "open", "done"}

\* A provider nobody is at work on, and that no failed write and no two workers
\* at once have left as it is since its last login or disconnect: the grant that
\* is stored is the last one the provider gave, and the key is the key of that
\* grant or one that was typed; and a provider the user has signed out of has
\* neither.
SignedInAsAsked ==
  \A p \in Signable \ muddled :
    AtWork(p) = {} =>
      /\ grants[p] # 0 => grants[p] = newest[p]
      /\ keys[p] \in {grants[p], Typed}
      /\ keys[p] = Typed => signedIn[p] = "key"
      /\ signedIn[p] = "out" => keys[p] = 0 /\ grants[p] = 0

===============================================================================
