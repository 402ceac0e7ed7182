------------------------------ MODULE DeskProofs ------------------------------
(***************************************************************************)
(* Credentials, files and sandboxes, for any providers, taskpanes, clicks, *)
(* paths, calls and instances.                                             *)
(*                                                                         *)
(* Credentials: whoever came to a provider when nobody was at work on it,  *)
(* and was not joined since, is alone with it: the others leave its        *)
(* entries as they are.  So each await of a restore, a login or a          *)
(* disconnect says what the two entries hold (Stands), and the last one    *)
(* leaves them in order.                                                   *)
(*                                                                         *)
(* FilesWorkspace: what each await of a call has written of a file and of  *)
(* its tag, for the calls no other one overlaps (Fit).                     *)
(*                                                                         *)
(* ExtensionSandbox: every request of a sandbox is on its way, in work or  *)
(* answered, and a handler is in the maps of both sides or a message says  *)
(* what becomes of it.                                                     *)
(*                                                                         *)
(* The theorems of the structure changes are in StructureProofs; the last  *)
(* ones here say that what is proved of each holds beside the others.      *)
(***************************************************************************)
EXTENDS MCDesk, StructureProofs

-----------------------------------------------------------------------------
(* Credentials *)

\* The entries of a provider agree with each other and with the last button.
InOrder(p) ==
  /\ grants[p] # 0 => grants[p] = newest[p]
  /\ keys[p] \in {grants[p], Typed}
  /\ keys[p] = Typed => signedIn[p] = "key"
  /\ signedIn[p] = "out" => keys[p] = 0 /\ grants[p] = 0

\* What the entries hold at each await of a worker.
Stands(x) ==
  LET p == working[x].provider  g == working[x].grant IN
  /\ p \notin muddled =>
       /\ at[x] \in {"loaded", "refresh", "clear", "login", "disconnect", "save"} => InOrder(p)
       /\ at[x] \in {"loaded", "refresh"} => grants[p] = g /\ g # 0
       /\ at[x] = "set" => grants[p] = g /\ newest[p] = g /\ signedIn[p] # "out"
       /\ at[x] = "delete" => grants[p] = 0
  /\ working[x].alone =>
       /\ at[x] = "grant" => keys[p] = g /\ newest[p] = g
       /\ at[x] = "forget" => keys[p] = 0

\* A worker that is alone is the only one, and where nothing is muddled every
\* worker is alone.
AloneIsOnly ==
  \A x \in Workers :
    /\ working[x].alone => AtWork(working[x].provider) = {x}
    /\ working[x] # NoWork /\ working[x].provider \notin muddled => working[x].alone

Works ==
  [provider : Signable \cup {"none"}, pane : Taskpanes \cup {"none"}, grant : 0 .. MaxGrants, alone : BOOLEAN]

\* The types of the entries.
EntriesOK ==
  /\ keys \in [Signable -> 0 .. MaxGrants \cup {Typed}]
  /\ grants \in [Signable -> 0 .. MaxGrants] /\ newest \in [Signable -> 0 .. MaxGrants]
  /\ signedIn \in [Signable -> {"in", "out", "key"}]
  /\ given \in 0 .. MaxGrants /\ starts \in 0 .. MaxStarts
  /\ muddled \subseteq Signable

PaneSteps == {"new", "load", "loaded", "refresh", "set", "clear", "delete", "open"}
ClickSteps == {"new", "login", "grant", "disconnect", "forget", "save", "done"}
Resting == {"new", "load", "open", "done"}

\* The types of the workers, and who works at which steps.
WorkTypeOK ==
  /\ working \in [Workers -> Works] /\ toRestore \in [Taskpanes -> Seq(Signable)]
  /\ at \in [Workers -> PaneSteps \cup ClickSteps]
  /\ \A x \in Workers :
       /\ working[x] # NoWork <=> working[x].provider \in Signable
       /\ working[x] # NoWork <=> at[x] \notin Resting
  /\ \A w \in Taskpanes :
       /\ at[w] \in PaneSteps
       /\ at[w] \notin {"new", "open"} => toRestore[w] # <<>>
       /\ working[w] # NoWork => working[w].pane = w
  /\ \A x \in Clicks : at[x] \in ClickSteps

CredInv ==
  /\ EntriesOK /\ WorkTypeOK /\ AloneIsOnly /\ SignedInAsAsked
  /\ \A x \in Workers : working[x] # NoWork => Stands(x)

\* A step changes the entries of one provider only.
OthersKept(p) ==
  \A q \in Signable \ {p} :
    /\ keys'[q] = keys[q] /\ grants'[q] = grants[q]
    /\ newest'[q] = newest[q] /\ signedIn'[q] = signedIn[q]
    /\ q \in muddled' <=> q \in muddled

LEMMA NoWorkTypes ==
  /\ NoWork \in Works /\ NoWork.provider = "none" /\ NoWork.pane = "none" /\ NoWork.alone = FALSE
  BY CredentialsAssumption DEF NoWork, Works

\* At the start every key comes from the grant beside it.
LEMMA InitEstablishesInv == CredentialInit => CredInv
<1> SUFFICES ASSUME CredentialInit PROVE CredInv
  OBVIOUS
<1>1. /\ SignIns \in Seq(Signable) /\ Len(SignIns) \in Nat /\ DOMAIN SignIns = 1 .. Len(SignIns)
      /\ Len(SignIns) <= MaxGrants /\ MaxGrants \in Nat /\ MaxStarts \in Nat
  BY CredentialsAssumption, LenProperties
<1>2. 0 .. Len(SignIns) \subseteq 0 .. MaxGrants
  BY <1>1
<1>3. grants \in [Signable -> 0 .. MaxGrants] /\ keys = grants /\ newest = grants
  BY <1>2 DEF CredentialInit
<1>4. /\ working = [x \in Workers |-> NoWork] /\ at = [x \in Workers |-> "new"]
      /\ given = Len(SignIns) /\ starts = 0 /\ muddled = {} /\ toRestore = [w \in Taskpanes |-> <<>>]
      /\ signedIn = [p \in Signable |-> IF grants[p] = 0 THEN "out" ELSE "in"]
  BY DEF CredentialInit
<1>5. EntriesOK
  BY <1>1, <1>3, <1>4 DEF EntriesOK
<1>6. WorkTypeOK
  BY <1>4, NoWorkTypes, CredentialsAssumption
     DEF WorkTypeOK, Workers, PaneSteps, ClickSteps, Resting
<1>7. AloneIsOnly /\ \A x \in Workers : working[x] = NoWork
  BY <1>4, NoWorkTypes DEF AloneIsOnly
<1>8. SignedInAsAsked
  <2> SUFFICES ASSUME NEW p \in Signable PROVE InOrder(p)
    BY DEF SignedInAsAsked, InOrder
  <2>1. grants[p] \in Nat /\ grants[p] # Typed
    BY <1>1, <1>3, CredentialsAssumption
  <2> QED BY <1>3, <1>4, <2>1 DEF InOrder
<1> QED BY <1>5, <1>6, <1>7, <1>8 DEF CredInv

\* A worker moves on with its provider, or leaves it, and changes no other
\* entries.
LEMMA WorkerMoves ==
  ASSUME CredInv, NEW x \in Workers, NEW p \in Signable, working[x].provider = p,
         NEW new \in Works, new = NoWork \/ (new.provider = p /\ new.alone = working[x].alone),
         working' = [working EXCEPT ![x] = new], \A y \in Workers \ {x} : at'[y] = at[y],
         OthersKept(p),
         p \notin muddled' => working[x].alone,
         new = NoWork /\ p \notin muddled' => InOrder(p)',
         new # NoWork => Stands(x)'
  PROVE  AloneIsOnly' /\ SignedInAsAsked' /\ \A y \in Workers : working'[y] # NoWork => Stands(y)'
<1>1. /\ working \in [Workers -> Works] /\ working[x] # NoWork
      /\ \A y \in Workers : working'[y] = IF y = x THEN new ELSE working[y]
      /\ \A y \in Workers : working[y] # NoWork <=> working[y].provider \in Signable
      /\ "none" \notin Signable
  BY CredentialsAssumption DEF CredInv, WorkTypeOK
<1>2. ASSUME NEW y \in Workers \ {x}, working[y].provider = p PROVE ~ working[y].alone /\ ~ working[x].alone
  BY <1>1, <1>2 DEF CredInv, AloneIsOnly, AtWork
<1>3. \A q \in Signable \ {p} : AtWork(q)' = AtWork(q)
  BY <1>1, NoWorkTypes DEF AtWork
<1>4. AtWork(p)' = IF new = NoWork THEN AtWork(p) \ {x} ELSE AtWork(p)
  BY <1>1, NoWorkTypes DEF AtWork
<1>5. AloneIsOnly'
  <2> SUFFICES ASSUME NEW y \in Workers
               PROVE  /\ working'[y].alone => {z \in Workers : working'[z].provider = working'[y].provider} = {y}
                      /\ working'[y] # NoWork /\ working'[y].provider \notin muddled' => working'[y].alone
    BY DEF AloneIsOnly, AtWork
  <2>0. /\ working[y].alone => {z \in Workers : working[z].provider = working[y].provider} = {y}
        /\ working[y] # NoWork /\ working[y].provider \notin muddled => working[y].alone
    BY DEF CredInv, AloneIsOnly, AtWork
  <2>1. CASE y = x
    BY <1>1, <2>0, <2>1, NoWorkTypes
  <2>2. CASE y # x /\ working[y].provider = p
    BY <1>1, <1>2, <2>2
  <2>3. CASE y # x /\ working[y].provider # p
    <3>1. CASE working[y] = NoWork
      BY <1>1, <2>3, <3>1, NoWorkTypes
    <3>2. CASE working[y] # NoWork
      BY <1>1, <2>0, <2>3, <3>2, NoWorkTypes DEF OthersKept
    <3> QED BY <3>1, <3>2
  <2> QED BY <2>1, <2>2, <2>3
<1>6. ASSUME NEW q \in Signable, q \notin muddled', AtWork(q)' = {} PROVE InOrder(q)'
  <2>1. CASE q = p
    <3>1. new = NoWork
      BY <1>1, <1>6, <2>1 DEF AtWork
    <3> QED BY <1>6, <2>1, <3>1
  <2>2. CASE q # p
    BY <1>3, <1>6, <2>2 DEF CredInv, SignedInAsAsked, InOrder, OthersKept
  <2> QED BY <2>1, <2>2
<1>7. SignedInAsAsked'
  BY <1>6 DEF SignedInAsAsked, InOrder, AtWork
<1>8. ASSUME NEW y \in Workers, working'[y] # NoWork PROVE Stands(y)'
  <2>1. CASE y = x
    BY <1>1, <1>8, <2>1
  <2>2. CASE y # x /\ working[y].provider = p
    BY <1>1, <1>2, <2>2 DEF Stands
  <2>3. CASE y # x /\ working[y].provider # p
    <3>1. working'[y] = working[y] /\ at'[y] = at[y] /\ working[y].provider \in Signable \ {p}
      BY <1>1, <1>8, <2>3
    <3>2. Stands(y)
      BY <1>8, <3>1 DEF CredInv
    <3> QED BY <3>1, <3>2 DEF Stands, InOrder, OthersKept
  <2> QED BY <2>1, <2>2, <2>3
<1> QED BY <1>5, <1>7, <1>8

\* The taskpane goes to the next provider to restore.
LEMMA NextTypes ==
  ASSUME WorkTypeOK, NEW w \in Taskpanes, Next_(w), at[w] \notin {"new", "open"}
  PROVE  WorkTypeOK'
<1>1. /\ toRestore[w] \in Seq(Signable) /\ toRestore[w] # <<>> /\ w \in Workers
      /\ Tail(toRestore[w]) \in Seq(Signable) /\ Len(Tail(toRestore[w])) = Len(toRestore[w]) - 1
      /\ Len(toRestore[w]) \in Nat
  BY HeadTailProperties DEF WorkTypeOK, Workers
<1>2. /\ working' \in [Workers -> Works] /\ at' \in [Workers -> PaneSteps \cup ClickSteps]
      /\ toRestore' \in [Taskpanes -> Seq(Signable)]
      /\ \A y \in Workers : y # w => working'[y] = working[y] /\ at'[y] = at[y]
      /\ \A y \in Taskpanes : y # w => toRestore'[y] = toRestore[y]
      /\ working'[w] = NoWork /\ toRestore'[w] = Tail(toRestore[w])
      /\ at'[w] = IF Len(toRestore[w]) = 1 THEN "open" ELSE "load"
  BY <1>1, NoWorkTypes DEF WorkTypeOK, Next_, At, PaneSteps
<1>3. at'[w] # "open" => toRestore'[w] # <<>>
  <2>0. \A s \in Seq(Signable) : s = <<>> <=> Len(s) = 0
    BY EmptySeq
  <2>1. CASE Len(toRestore[w]) # 1
    <3>1. Len(Tail(toRestore[w])) # 0
      BY <1>1, <2>1
    <3> QED BY <1>1, <1>2, <2>0, <3>1
  <2>2. CASE Len(toRestore[w]) = 1
    BY <1>2, <2>2
  <2> QED BY <2>1, <2>2
<1>4. at'[w] \in {"open", "load"}
  BY <1>2
<1>5. \A y \in Workers : /\ working'[y] # NoWork <=> working'[y].provider \in Signable
                         /\ working'[y] # NoWork <=> at'[y] \notin Resting
  <2> SUFFICES ASSUME NEW y \in Workers
               PROVE  /\ working'[y] # NoWork <=> working'[y].provider \in Signable
                      /\ working'[y] # NoWork <=> at'[y] \notin Resting
    OBVIOUS
  <2>1. CASE y = w
    BY <1>2, <1>4, <2>1, NoWorkTypes, CredentialsAssumption DEF Resting
  <2>2. CASE y # w
    BY <1>2, <2>2 DEF WorkTypeOK
  <2> QED BY <2>1, <2>2
<1>6. ASSUME NEW y \in Taskpanes
      PROVE  /\ at'[y] \in PaneSteps
             /\ at'[y] \notin {"new", "open"} => toRestore'[y] # <<>>
             /\ working'[y] # NoWork => working'[y].pane = y
  <2>1. y \in Workers
    BY DEF Workers
  <2> QED BY <1>2, <1>3, <1>4, <2>1 DEF WorkTypeOK, PaneSteps
<1>7. \A y \in Clicks : at'[y] \in ClickSteps
  BY <1>2, CredentialsAssumption DEF WorkTypeOK, Workers
<1> QED BY <1>2, <1>5, <1>6, <1>7 DEF WorkTypeOK

\* A worker goes on with its provider.
LEMMA WorkerStays ==
  ASSUME CredInv, NEW x \in Workers, NEW p \in Signable, working[x].provider = p,
         NEW new \in Works, new.provider = p, new.alone = working[x].alone, new.pane = working[x].pane,
         NEW step \in (IF x \in Taskpanes THEN PaneSteps ELSE ClickSteps) \ Resting,
         working' = [working EXCEPT ![x] = new], at' = [at EXCEPT ![x] = step],
         UNCHANGED toRestore, EntriesOK', OthersKept(p),
         p \notin muddled' => working[x].alone, Stands(x)'
  PROVE  CredInv'
<1>1. WorkTypeOK /\ new # NoWork /\ working[x] # NoWork
  BY CredentialsAssumption, NoWorkTypes DEF CredInv, WorkTypeOK
<1>2. WorkTypeOK'
  <2>1. /\ working' \in [Workers -> Works] /\ at' \in [Workers -> PaneSteps \cup ClickSteps]
        /\ \A y \in Workers : y # x => working'[y] = working[y] /\ at'[y] = at[y]
        /\ working'[x] = new /\ at'[x] = step
    BY <1>1 DEF WorkTypeOK
  <2>2. at[x] \notin Resting
    BY <1>1 DEF WorkTypeOK
  <2> QED BY <1>1, <2>1, <2>2, CredentialsAssumption DEF WorkTypeOK, Workers, Resting
<1>3. \A y \in Workers \ {x} : at'[y] = at[y]
  BY <1>1 DEF WorkTypeOK
<1>4. AloneIsOnly' /\ SignedInAsAsked' /\ \A y \in Workers : working'[y] # NoWork => Stands(y)'
  BY <1>1, <1>3, WorkerMoves
<1> QED BY <1>2, <1>4 DEF CredInv, Stands, InOrder

\* A worker leaves its provider: a taskpane for the next one to restore, a
\* click for good.
LEMMA WorkerLeaves ==
  ASSUME CredInv, NEW x \in Workers, NEW p \in Signable, working[x].provider = p,
         \/ x \in Taskpanes /\ Next_(x)
         \/ /\ x \in Clicks /\ working' = [working EXCEPT ![x] = NoWork] /\ At(x, "done")
            /\ UNCHANGED toRestore,
         EntriesOK', OthersKept(p),
         p \notin muddled' => working[x].alone /\ InOrder(p)'
  PROVE  CredInv'
<1>1. WorkTypeOK /\ working[x] # NoWork /\ at[x] \notin Resting
  BY DEF CredInv, WorkTypeOK
<1>2. working' = [working EXCEPT ![x] = NoWork] /\ \A y \in Workers \ {x} : at'[y] = at[y]
  BY <1>1 DEF WorkTypeOK, Next_, At
<1>3. WorkTypeOK'
  <2>1. CASE x \in Taskpanes /\ Next_(x)
    BY <1>1, <2>1, NextTypes DEF Resting
  <2>2. CASE x \in Clicks /\ At(x, "done") /\ UNCHANGED toRestore
    <3>1. /\ working' \in [Workers -> Works] /\ at' \in [Workers -> PaneSteps \cup ClickSteps]
          /\ \A y \in Workers : y # x => working'[y] = working[y] /\ at'[y] = at[y]
          /\ working'[x] = NoWork /\ at'[x] = "done" /\ x \notin Taskpanes
      BY <1>1, <1>2, <2>2, NoWorkTypes, CredentialsAssumption DEF WorkTypeOK, At, ClickSteps
    <3>2. \A y \in Workers : /\ working'[y] # NoWork <=> working'[y].provider \in Signable
                             /\ working'[y] # NoWork <=> at'[y] \notin Resting
      BY <1>1, <3>1, NoWorkTypes, CredentialsAssumption DEF WorkTypeOK, Resting
    <3>3. \A y \in Taskpanes : /\ at'[y] \in PaneSteps
                               /\ at'[y] \notin {"new", "open"} => toRestore'[y] # <<>>
                               /\ working'[y] # NoWork => working'[y].pane = y
      BY <1>1, <2>2, <3>1 DEF WorkTypeOK, Workers
    <3>4. \A y \in Clicks : at'[y] \in ClickSteps
      BY <1>1, <3>1 DEF WorkTypeOK, Workers, ClickSteps
    <3> QED BY <1>1, <2>2, <3>1, <3>2, <3>3, <3>4 DEF WorkTypeOK
  <2> QED BY <2>1, <2>2
<1>4. AloneIsOnly' /\ SignedInAsAsked' /\ \A y \in Workers : working'[y] # NoWork => Stands(y)'
  BY <1>1, <1>2, NoWorkTypes, WorkerMoves
<1> QED BY <1>3, <1>4 DEF CredInv, Stands, InOrder

LEMMA NoLongerAlone ==
  ASSUME NEW r \in Works
  PROVE  LET other == [r EXCEPT !.alone = FALSE] IN
           /\ other \in Works /\ other.alone = FALSE /\ other.provider = r.provider
           /\ other.pane = r.pane /\ other.grant = r.grant
  BY DEF Works

\* A worker comes to a provider.
LEMMA WorkerComes ==
  ASSUME CredInv, NEW x \in Workers, NEW w \in Taskpanes, NEW p \in Signable, NEW g \in 0 .. MaxGrants,
         working[x] = NoWork, Comes(x, w, p, g), x \in Taskpanes => x = w,
         NEW step \in (IF x \in Taskpanes THEN {"loaded"} ELSE {"login", "disconnect", "save"}),
         at' = [at EXCEPT ![x] = step], x \in Taskpanes => toRestore[x] # <<>>,
         step = "loaded" => grants[p] = g /\ g # 0,
         UNCHANGED <<keys, grants, newest, signedIn, given, starts, toRestore>>
  PROVE  CredInv'
<1> DEFINE new == [provider |-> p, pane |-> w, grant |-> g, alone |-> AtWork(p) = {}]
<1>1. /\ WorkTypeOK /\ EntriesOK /\ new \in Works /\ new # NoWork /\ new.provider = p /\ new.pane = w
      /\ new.grant = g /\ new.alone = (AtWork(p) = {})
  BY NoWorkTypes, CredentialsAssumption DEF CredInv, Works
<1> HIDE DEF new
<1>2. /\ working'[x] = new
      /\ \A y \in Workers \ {x} :
           working'[y] = IF working[y].provider = p THEN [working[y] EXCEPT !.alone = FALSE] ELSE working[y]
  BY DEF Comes, AtWork, new
<1>3. \A y \in Workers \ {x} :
        /\ working'[y] \in Works /\ working'[y].provider = working[y].provider
        /\ working'[y].pane = working[y].pane /\ working'[y].grant = working[y].grant
        /\ working'[y].alone => working'[y] = working[y]
        /\ working[y].provider = p => ~ working'[y].alone
  <2> TAKE y \in Workers \ {x}
  <2>1. working[y] \in Works
    BY <1>1 DEF WorkTypeOK
  <2>2. CASE working[y].provider = p
    BY <1>2, <2>1, <2>2, NoLongerAlone
  <2>3. CASE working[y].provider # p
    BY <1>2, <2>1, <2>3
  <2> QED BY <2>2, <2>3
<1>4. /\ working' \in [Workers -> Works] /\ at' \in [Workers -> PaneSteps \cup ClickSteps]
      /\ at'[x] = step /\ \A y \in Workers : y # x => at'[y] = at[y]
  <2>1. working' \in [Workers -> Works]
    BY <1>1, <1>2, <1>3 DEF Comes
  <2> QED BY <1>1, <2>1 DEF WorkTypeOK, PaneSteps, ClickSteps
<1>5. \A y \in Workers : /\ working'[y] # NoWork <=> working'[y].provider \in Signable
                         /\ working'[y] # NoWork <=> at'[y] \notin Resting
  <2> SUFFICES ASSUME NEW y \in Workers
               PROVE  /\ working'[y] # NoWork <=> working'[y].provider \in Signable
                      /\ working'[y] # NoWork <=> at'[y] \notin Resting
    OBVIOUS
  <2>1. CASE y = x
    BY <1>1, <1>2, <1>4, <2>1 DEF Resting
  <2>2. CASE y # x /\ working[y].provider = p
    BY <1>1, <1>3, <1>4, <2>2, NoWorkTypes, CredentialsAssumption DEF WorkTypeOK
  <2>3. CASE y # x /\ working[y].provider # p
    BY <1>1, <1>2, <1>4, <2>3 DEF WorkTypeOK
  <2> QED BY <2>1, <2>2, <2>3
<1>6. WorkTypeOK'
  <2>1. ASSUME NEW y \in Taskpanes
        PROVE  /\ at'[y] \in PaneSteps
               /\ at'[y] \notin {"new", "open"} => toRestore'[y] # <<>>
               /\ working'[y] # NoWork => working'[y].pane = y
    <3>1. CASE y = x
      BY <1>1, <1>2, <1>4, <3>1 DEF PaneSteps
    <3>2. CASE y # x
      <4>1. y \in Workers /\ (working'[y] # NoWork => working[y] # NoWork)
        BY <1>1, <1>3, <1>4, <1>5, <3>2 DEF Workers, WorkTypeOK
      <4> QED BY <1>1, <1>3, <1>4, <3>2, <4>1 DEF WorkTypeOK
    <3> QED BY <3>1, <3>2
  <2>2. \A y \in Clicks : at'[y] \in ClickSteps
    BY <1>1, <1>4, CredentialsAssumption DEF WorkTypeOK, Workers, ClickSteps
  <2> QED BY <1>1, <1>4, <1>5, <2>1, <2>2 DEF WorkTypeOK
<1>7. EntriesOK' /\ muddled' = IF AtWork(p) = {} THEN muddled ELSE muddled \cup {p}
  BY <1>1 DEF EntriesOK, Comes
<1>8. x \notin AtWork(p) /\ \A y \in Workers : y \in AtWork(p) <=> working[y].provider = p
  BY NoWorkTypes, CredentialsAssumption DEF AtWork
<1>9. AloneIsOnly'
  <2> SUFFICES ASSUME NEW y \in Workers
               PROVE  /\ working'[y].alone => {z \in Workers : working'[z].provider = working'[y].provider} = {y}
                      /\ working'[y] # NoWork /\ working'[y].provider \notin muddled' => working'[y].alone
    BY DEF AloneIsOnly, AtWork
  <2>1. /\ working[y].alone => {z \in Workers : working[z].provider = working[y].provider} = {y}
        /\ working[y] # NoWork /\ working[y].provider \notin muddled => working[y].alone
    BY DEF CredInv, AloneIsOnly, AtWork
  <2>2. CASE y = x
    <3>1. /\ working'[y].provider = p /\ working'[y].alone = (AtWork(p) = {})
          /\ {z \in Workers : working'[z].provider = p} = AtWork(p) \cup {x}
      BY <1>1, <1>2, <1>3, <2>2 DEF AtWork
    <3> QED BY <1>7, <2>2, <3>1
  <2>3. CASE y # x /\ working[y].provider = p
    BY <1>3, <1>7, <1>8, <2>3
  <2>4. CASE y # x /\ working[y].provider # p
    BY <1>1, <1>2, <1>3, <1>7, <2>1, <2>4
  <2> QED BY <2>2, <2>3, <2>4
<1>10. ASSUME NEW q \in Signable, q \notin muddled', AtWork(q)' = {} PROVE InOrder(q)'
  <2>1. q \notin muddled /\ AtWork(q) = {}
    BY <1>3, <1>7, <1>10, NoWorkTypes, CredentialsAssumption DEF AtWork
  <2> QED BY <2>1 DEF CredInv, SignedInAsAsked, InOrder
<1>11. ASSUME NEW y \in Workers, working'[y] # NoWork PROVE Stands(y)'
  <2>1. CASE y = x
    <3>1. ASSUME p \notin muddled' PROVE InOrder(p)'
      <4>1. p \notin muddled /\ AtWork(p) = {}
        BY <1>7, <3>1
      <4> QED BY <4>1 DEF CredInv, SignedInAsAsked, InOrder
    <3> QED BY <1>1, <1>2, <1>4, <2>1, <3>1 DEF Stands
  <2>2. CASE y # x /\ working[y].provider = p
    BY <1>3, <1>7, <1>8, <2>2 DEF Stands
  <2>3. CASE y # x /\ working[y].provider # p
    <3>1. working'[y] = working[y] /\ at'[y] = at[y] /\ working[y].provider \in Signable \ {p} /\ Stands(y)
      BY <1>1, <1>2, <1>4, <1>11, <2>3 DEF CredInv, WorkTypeOK
    <3> QED BY <1>7, <3>1 DEF Stands, InOrder
  <2> QED BY <2>1, <2>2, <2>3
<1> QED BY <1>6, <1>7, <1>9, <1>10, <1>11 DEF CredInv, SignedInAsAsked, InOrder, Stands, AtWork

\* What a worker at a step knows.
LEMMA AtAStep ==
  ASSUME CredInv, NEW x \in Workers, at[x] \notin Resting
  PROVE  /\ working[x] \in Works /\ working[x] # NoWork /\ working[x].provider \in Signable
         /\ working[x].grant \in 0 .. MaxGrants /\ working[x].grant # Typed
         /\ working[x].provider \notin muddled => working[x].alone
         /\ Stands(x) /\ EntriesOK /\ WorkTypeOK
  BY CredentialsAssumption DEF CredInv, WorkTypeOK, Works, AloneIsOnly

\* The same worker with another grant.
LEMMA NewGrant ==
  ASSUME NEW r \in Works, NEW g \in 0 .. MaxGrants
  PROVE  LET new == [r EXCEPT !.grant = g] IN
           /\ new \in Works /\ new.grant = g /\ new.provider = r.provider
           /\ new.pane = r.pane /\ new.alone = r.alone
  BY DEF Works

LEMMA LoadKeepsInv ==
  ASSUME CredInv, NEW w \in Taskpanes, Load(w)
  PROVE  CredInv'
<1> DEFINE p == Head(toRestore[w])
<1>1. /\ w \in Workers /\ at[w] = "load" /\ working[w] = NoWork /\ toRestore[w] # <<>> /\ p \in Signable
      /\ WorkTypeOK /\ EntriesOK
  BY HeadTailProperties DEF Load, CredInv, WorkTypeOK, Workers, Resting
<1>2. CASE Next_(w) /\ UNCHANGED muddled
  <2>1. WorkTypeOK'
    BY <1>1, <1>2, NextTypes
  <2>2. working' = working /\ \A y \in Workers \ {w} : at'[y] = at[y]
    BY <1>1, <1>2 DEF Next_, At, WorkTypeOK
  <2>3. UNCHANGED <<keys, grants, newest, signedIn, given, starts, muddled>>
    BY <1>2 DEF Load
  <2>4. \A y \in Workers : working'[y] # NoWork => Stands(y)'
    BY <1>1, <2>2, <2>3 DEF CredInv, Stands, InOrder
  <2> QED BY <2>1, <2>2, <2>3, <2>4 DEF CredInv, EntriesOK, AloneIsOnly, SignedInAsAsked, AtWork
<1>3. CASE grants[p] # 0 /\ At(w, "loaded") /\ Comes(w, w, p, grants[p]) /\ UNCHANGED toRestore
  <2>1. grants[p] \in 0 .. MaxGrants
    BY <1>1 DEF EntriesOK
  <2>2. UNCHANGED <<keys, grants, newest, signedIn, given, starts, toRestore>>
    BY <1>3 DEF Load
  <2> HIDE DEF p
  <2> QED BY <1>1, <1>3, <2>1, <2>2, WorkerComes DEF At
<1> QED BY <1>2, <1>3 DEF Load

LEMMA UseKeepsInv ==
  ASSUME CredInv, NEW w \in Taskpanes, Use(w)
  PROVE  CredInv'
<1>1. w \in Workers /\ at[w] = "loaded" /\ at[w] \notin Resting
  BY DEF Use, Workers, Resting
<1> PICK p \in Signable, g \in 0 .. MaxGrants : p = working[w].provider /\ g = working[w].grant
  BY <1>1, AtAStep
<1>2. /\ working[w] \in Works /\ working[w] # NoWork /\ g # Typed
      /\ p \notin muddled => working[w].alone /\ InOrder(p) /\ grants[p] = g /\ g # 0
      /\ EntriesOK /\ WorkTypeOK
  BY <1>1, AtAStep DEF Stands
<1>3. UNCHANGED <<grants, newest, signedIn, given, starts>>
  BY DEF Use
<1>4. CASE SetKey(p, g) /\ Next_(w) /\ UNCHANGED muddled
  <2>1. EntriesOK' /\ OthersKept(p) /\ keys'[p] = g
    BY <1>2, <1>3, <1>4 DEF EntriesOK, OthersKept, SetKey
  <2>2. p \notin muddled' => working[w].alone /\ InOrder(p)'
    BY <1>2, <1>3, <1>4, <2>1 DEF InOrder
  <2> QED BY <1>1, <1>2, <1>4, <2>1, <2>2, WorkerLeaves
<1>5. CASE Next_(w) /\ Muddle(p) /\ UNCHANGED keys
  <2>1. EntriesOK' /\ OthersKept(p) /\ p \in muddled'
    BY <1>2, <1>3, <1>5 DEF EntriesOK, OthersKept, Muddle
  <2> QED BY <1>1, <1>2, <1>5, <2>1, WorkerLeaves
<1>6. ASSUME NEW step \in {"refresh", "clear"}, At(w, step), UNCHANGED <<keys, toRestore, working, muddled>>
      PROVE  CredInv'
  <2>1. EntriesOK' /\ OthersKept(p) /\ working' = [working EXCEPT ![w] = working[w]] /\ at'[w] = step
    BY <1>1, <1>2, <1>3, <1>6 DEF EntriesOK, OthersKept, WorkTypeOK, At
  <2>2. Stands(w)'
    <3>1. p \notin muddled => InOrder(p)' /\ grants'[p] = g /\ g # 0
      BY <1>2, <1>3, <1>6 DEF InOrder
    <3>2. at'[w] \notin {"set", "delete", "grant", "forget"}
      BY <1>6, <2>1
    <3> QED BY <1>6, <3>1, <3>2 DEF Stands
  <2>3. step \in (IF w \in Taskpanes THEN PaneSteps ELSE ClickSteps) \ Resting
    BY <1>6 DEF PaneSteps, Resting
  <2> QED BY <1>1, <1>2, <1>6, <2>1, <2>2, <2>3, WorkerStays DEF At
<1> QED BY <1>4, <1>5, <1>6 DEF Use

LEMMA RefreshKeepsInv ==
  ASSUME CredInv, NEW w \in Taskpanes, Refresh(w)
  PROVE  CredInv'
<1>1. w \in Workers /\ at[w] = "refresh" /\ at[w] \notin Resting
  BY DEF Refresh, Workers, Resting
<1> PICK p \in Signable, g \in 0 .. MaxGrants : p = working[w].provider /\ g = working[w].grant
  BY <1>1, AtAStep
<1>2. /\ working[w] \in Works /\ working[w] # NoWork /\ g # Typed
      /\ p \notin muddled => working[w].alone /\ InOrder(p) /\ grants[p] = g /\ g # 0
      /\ EntriesOK /\ WorkTypeOK
  BY <1>1, AtAStep DEF Stands
<1>3. UNCHANGED <<keys, signedIn, starts>>
  BY DEF Refresh
<1>4. ASSUME given < MaxGrants
      PROVE  /\ given + 1 \in 0 .. MaxGrants
             /\ ([newest EXCEPT ![p] = given + 1]) \in [Signable -> 0 .. MaxGrants]
             /\ ([grants EXCEPT ![p] = given + 1]) \in [Signable -> 0 .. MaxGrants]
  BY <1>2, <1>4, CredentialsAssumption DEF EntriesOK
<1>5. CASE /\ given < MaxGrants /\ given' = given + 1 /\ newest' = [newest EXCEPT ![p] = given + 1]
           /\ SetGrant(p, given + 1) /\ UNCHANGED <<toRestore, muddled>>
           /\ working' = [working EXCEPT ![w].grant = given + 1] /\ At(w, "set")
  <2> DEFINE new == [working[w] EXCEPT !.grant = given + 1]
  <2>1. /\ new \in Works /\ new.grant = given + 1 /\ new.provider = p
        /\ new.pane = working[w].pane /\ new.alone = working[w].alone
    BY <1>2, <1>4, <1>5, NewGrant
  <2>2. working' = [working EXCEPT ![w] = new] /\ working'[w] = new /\ at'[w] = "set"
    BY <1>1, <1>2, <1>5 DEF WorkTypeOK, At
  <2> HIDE DEF new
  <2>3. EntriesOK' /\ OthersKept(p) /\ grants'[p] = given + 1 /\ newest'[p] = given + 1
    BY <1>2, <1>3, <1>4, <1>5 DEF EntriesOK, OthersKept, SetGrant
  <2>4. Stands(w)'
    BY <1>2, <1>3, <1>5, <2>1, <2>2, <2>3 DEF Stands, InOrder
  <2>5. "set" \in (IF w \in Taskpanes THEN PaneSteps ELSE ClickSteps) \ Resting
    BY DEF PaneSteps, Resting
  <2> QED BY <1>1, <1>2, <1>5, <2>1, <2>2, <2>3, <2>4, <2>5, WorkerStays DEF At
<1>6. CASE /\ given < MaxGrants /\ given' = given + 1 /\ newest' = [newest EXCEPT ![p] = given + 1]
           /\ Muddle(p) /\ Next_(w) /\ UNCHANGED grants
  <2>1. EntriesOK' /\ OthersKept(p) /\ p \in muddled'
    BY <1>2, <1>3, <1>4, <1>6 DEF EntriesOK, OthersKept, Muddle
  <2> QED BY <1>1, <1>2, <1>6, <2>1, WorkerLeaves
<1>7. CASE Next_(w) /\ UNCHANGED <<grants, newest, given, muddled>>
  <2>1. EntriesOK' /\ OthersKept(p) /\ (p \notin muddled' => working[w].alone /\ InOrder(p)')
    BY <1>2, <1>3, <1>7 DEF EntriesOK, OthersKept, InOrder
  <2> QED BY <1>1, <1>2, <1>7, <2>1, WorkerLeaves
<1>8. CASE At(w, "clear") /\ UNCHANGED <<grants, newest, given, toRestore, working, muddled>>
  <2>1. EntriesOK' /\ OthersKept(p) /\ working' = [working EXCEPT ![w] = working[w]] /\ at'[w] = "clear"
    BY <1>1, <1>2, <1>3, <1>8 DEF EntriesOK, OthersKept, WorkTypeOK, At
  <2>2. Stands(w)'
    BY <1>2, <1>3, <1>8, <2>1 DEF Stands, InOrder
  <2>3. "clear" \in (IF w \in Taskpanes THEN PaneSteps ELSE ClickSteps) \ Resting
    BY DEF PaneSteps, Resting
  <2> QED BY <1>1, <1>2, <1>8, <2>1, <2>2, <2>3, WorkerStays DEF At
<1> QED BY <1>5, <1>6, <1>7, <1>8 DEF Refresh

LEMMA SetRefreshedKeepsInv ==
  ASSUME CredInv, NEW w \in Taskpanes, SetRefreshed(w)
  PROVE  CredInv'
<1>1. w \in Workers /\ at[w] = "set" /\ at[w] \notin Resting
  BY DEF SetRefreshed, Workers, Resting
<1> PICK p \in Signable, g \in 0 .. MaxGrants : p = working[w].provider /\ g = working[w].grant
  BY <1>1, AtAStep
<1>2. /\ working[w] # NoWork /\ g # Typed /\ EntriesOK
      /\ p \notin muddled => working[w].alone /\ grants[p] = g /\ newest[p] = g /\ signedIn[p] # "out"
  BY <1>1, AtAStep DEF Stands
<1>3. Next_(w) /\ UNCHANGED <<grants, newest, signedIn, given, starts>>
  BY DEF SetRefreshed
<1>4. CASE SetKey(p, g) /\ UNCHANGED muddled
  <2>1. EntriesOK' /\ OthersKept(p) /\ keys'[p] = g
    BY <1>2, <1>3, <1>4 DEF EntriesOK, OthersKept, SetKey
  <2>2. p \notin muddled' => working[w].alone /\ InOrder(p)'
    BY <1>2, <1>3, <1>4, <2>1 DEF InOrder
  <2> QED BY <1>1, <1>3, <2>1, <2>2, WorkerLeaves
<1>5. CASE Muddle(p) /\ UNCHANGED keys
  <2>1. EntriesOK' /\ OthersKept(p) /\ p \in muddled'
    BY <1>2, <1>3, <1>5 DEF EntriesOK, OthersKept, Muddle
  <2> QED BY <1>1, <1>3, <2>1, WorkerLeaves
<1> QED BY <1>4, <1>5 DEF SetRefreshed

LEMMA ClearGrantKeepsInv ==
  ASSUME CredInv, NEW w \in Taskpanes, ClearGrant(w)
  PROVE  CredInv'
<1>1. w \in Workers /\ at[w] = "clear" /\ at[w] \notin Resting
  BY DEF ClearGrant, Workers, Resting
<1> PICK p \in Signable : p = working[w].provider
  BY <1>1, AtAStep
<1>2. /\ working[w] \in Works /\ EntriesOK /\ WorkTypeOK
      /\ p \notin muddled => working[w].alone
  BY <1>1, AtAStep
<1>3. UNCHANGED <<keys, newest, signedIn, given, starts, toRestore, working>> /\ At(w, "delete")
  BY DEF ClearGrant
<1>5. EntriesOK' /\ OthersKept(p) /\ (p \notin muddled' => grants'[p] = 0 /\ p \notin muddled)
  <2>1. CASE SetGrant(p, 0) /\ UNCHANGED muddled
    <3>1. ([grants EXCEPT ![p] = 0]) \in [Signable -> 0 .. MaxGrants]
      BY <1>2, CredentialsAssumption DEF EntriesOK
    <3> QED BY <1>2, <1>3, <2>1, <3>1 DEF EntriesOK, OthersKept, SetGrant
  <2>2. CASE Muddle(p) /\ UNCHANGED grants
    BY <1>2, <1>3, <2>2 DEF EntriesOK, OthersKept, Muddle
  <2> QED BY <2>1, <2>2 DEF ClearGrant
<1>6. working' = [working EXCEPT ![w] = working[w]] /\ at'[w] = "delete"
  BY <1>1, <1>2, <1>3 DEF WorkTypeOK, At
<1>7. Stands(w)'
  BY <1>3, <1>5, <1>6 DEF Stands
<1>8. "delete" \in (IF w \in Taskpanes THEN PaneSteps ELSE ClickSteps) \ Resting
  BY DEF PaneSteps, Resting
<1> QED BY <1>1, <1>2, <1>3, <1>5, <1>6, <1>7, <1>8, WorkerStays DEF At

LEMMA ClearKeyKeepsInv ==
  ASSUME CredInv, NEW w \in Taskpanes, ClearKey(w)
  PROVE  CredInv'
<1>1. w \in Workers /\ at[w] = "delete" /\ at[w] \notin Resting
  BY DEF ClearKey, Workers, Resting
<1> PICK p \in Signable : p = working[w].provider
  BY <1>1, AtAStep
<1>2. EntriesOK /\ (p \notin muddled => working[w].alone /\ grants[p] = 0) /\ 0 \in 0 .. MaxGrants /\ Typed # 0
  BY <1>1, AtAStep, CredentialsAssumption DEF Stands
<1>3. Next_(w) /\ UNCHANGED <<grants, newest, signedIn, given, starts>>
  BY DEF ClearKey
<1>4. CASE SetKey(p, 0) /\ UNCHANGED muddled
  <2>1. EntriesOK' /\ OthersKept(p) /\ keys'[p] = 0
    BY <1>2, <1>3, <1>4 DEF EntriesOK, OthersKept, SetKey
  <2>2. p \notin muddled' => working[w].alone /\ InOrder(p)'
    BY <1>2, <1>3, <1>4, <2>1 DEF InOrder
  <2> QED BY <1>1, <1>3, <2>1, <2>2, WorkerLeaves
<1>5. CASE Muddle(p) /\ UNCHANGED keys
  <2>1. EntriesOK' /\ OthersKept(p) /\ p \in muddled'
    BY <1>2, <1>3, <1>5 DEF EntriesOK, OthersKept, Muddle
  <2> QED BY <1>1, <1>3, <2>1, WorkerLeaves
<1> QED BY <1>4, <1>5 DEF ClearKey

LEMMA PressKeepsInv ==
  ASSUME CredInv, NEW x \in Clicks, Press(x)
  PROVE  CredInv'
<1>1. PICK w \in Taskpanes, p \in Signable, button \in {"login", "disconnect", "save"} :
        At(x, button) /\ Comes(x, w, p, 0)
  BY DEF Press
<1>2. /\ x \in Workers /\ x \notin Taskpanes /\ working[x] = NoWork /\ 0 \in 0 .. MaxGrants
      /\ UNCHANGED <<keys, grants, newest, signedIn, given, starts, toRestore>>
  BY CredentialsAssumption DEF Press, CredInv, WorkTypeOK, Workers, Resting
<1>3. button \in (IF x \in Taskpanes THEN {"loaded"} ELSE {"login", "disconnect", "save"}) /\ button # "loaded"
  BY <1>2
<1> QED BY <1>1, <1>2, <1>3, WorkerComes DEF At

\* A click that fails leaves its provider muddled.
LEMMA FailingKeepsInv ==
  ASSUME CredInv, NEW x \in Clicks, at[x] \notin Resting, Fails(x, working[x].provider),
         UNCHANGED <<keys, grants, starts, toRestore>>,
         \/ UNCHANGED <<given, newest>>
         \/ /\ given < MaxGrants /\ given' = given + 1
            /\ newest' = [newest EXCEPT ![working[x].provider] = given + 1]
  PROVE  CredInv'
<1>1. x \in Workers
  BY DEF Workers
<1> PICK p \in Signable : p = working[x].provider
  BY <1>1, AtAStep
<1>2. EntriesOK /\ muddled' = muddled \cup {p} /\ UNCHANGED signedIn
  BY DEF CredInv, Fails, Muddle
<1>3. given' \in 0 .. MaxGrants /\ newest' \in [Signable -> 0 .. MaxGrants]
  <2>1. /\ given \in 0 .. MaxGrants /\ MaxGrants \in Nat
        /\ newest \in [Signable -> 0 .. MaxGrants]
    BY <1>2, CredentialsAssumption DEF EntriesOK
  <2>2. CASE UNCHANGED <<given, newest>>
    BY <2>1, <2>2
  <2>3. CASE /\ given < MaxGrants /\ given' = given + 1
             /\ newest' = [newest EXCEPT ![p] = given + 1]
    <3>1. given + 1 \in 0 .. MaxGrants
      BY <2>1, <2>3
    <3> QED BY <2>1, <2>3, <3>1
  <2> QED BY <2>2, <2>3
<1>4. EntriesOK' /\ OthersKept(p) /\ p \in muddled'
  BY <1>2, <1>3 DEF EntriesOK, OthersKept
<1> QED BY <1>1, <1>4, WorkerLeaves DEF Fails

\* A click that has done its last write leaves the entries in order, unless it
\* was joined by another worker.
LEMMA ServedKeepsInv ==
  ASSUME CredInv, NEW x \in Clicks, at[x] \notin Resting, NEW is \in {"in", "out", "key"},
         Served(x, working[x].provider, is), EntriesOK', UNCHANGED <<newest, toRestore>>,
         NEW p \in Signable, p = working[x].provider,
         \A q \in Signable \ {p} : keys'[q] = keys[q] /\ grants'[q] = grants[q],
         working[x].alone /\ (is # "key" \/ p \notin muddled) => InOrder(p)'
  PROVE  CredInv'
<1>1. x \in Workers /\ (p \notin muddled => working[x].alone)
  BY AtAStep DEF Workers
<1>2. OthersKept(p)
  BY DEF OthersKept, Served, CredInv, EntriesOK
<1>3. p \notin muddled' => working[x].alone
  BY <1>1 DEF Served
<1> QED BY <1>1, <1>2, <1>3, WorkerLeaves DEF Served

LEMMA LoginKeepsInv ==
  ASSUME CredInv, NEW x \in Clicks, Login(x)
  PROVE  CredInv'
<1>1. x \in Workers /\ x \notin Taskpanes /\ at[x] = "login" /\ at[x] \notin Resting
  BY CredentialsAssumption DEF Login, Workers, Resting
<1> PICK p \in Signable : p = working[x].provider
  BY <1>1, AtAStep
<1>2. /\ working[x] \in Works /\ EntriesOK /\ WorkTypeOK
      /\ p \notin muddled => working[x].alone /\ InOrder(p)
  BY <1>1, AtAStep DEF Stands
<1>3. UNCHANGED <<grants, starts, toRestore>>
  BY DEF Login
<1>4. CASE /\ given < MaxGrants /\ given' = given + 1 /\ newest' = [newest EXCEPT ![p] = given + 1]
           /\ SetKey(p, given + 1) /\ At(x, "grant")
           /\ working' = [working EXCEPT ![x].grant = given + 1]
           /\ UNCHANGED <<signedIn, muddled>>
  <2> DEFINE new == [working[x] EXCEPT !.grant = given + 1]
  <2>1. /\ given + 1 \in 0 .. MaxGrants
        /\ ([newest EXCEPT ![p] = given + 1]) \in [Signable -> 0 .. MaxGrants]
        /\ ([keys EXCEPT ![p] = given + 1]) \in [Signable -> 0 .. MaxGrants \cup {Typed}]
    BY <1>2, <1>4, CredentialsAssumption DEF EntriesOK
  <2>2. /\ new \in Works /\ new.grant = given + 1 /\ new.provider = p
        /\ new.pane = working[x].pane /\ new.alone = working[x].alone
    BY <1>2, <2>1, NewGrant
  <2>3. working' = [working EXCEPT ![x] = new] /\ working'[x] = new /\ at'[x] = "grant"
    BY <1>1, <1>2, <1>4 DEF WorkTypeOK, At
  <2> HIDE DEF new
  <2>4. EntriesOK' /\ OthersKept(p) /\ keys'[p] = given + 1 /\ newest'[p] = given + 1
    BY <1>2, <1>3, <1>4, <2>1 DEF EntriesOK, OthersKept, SetKey
  <2>5. Stands(x)'
    BY <2>2, <2>3, <2>4 DEF Stands
  <2>6. "grant" \in (IF x \in Taskpanes THEN PaneSteps ELSE ClickSteps) \ Resting
    BY <1>1 DEF ClickSteps, Resting
  <2> QED BY <1>1, <1>2, <1>3, <1>4, <2>2, <2>3, <2>4, <2>5, <2>6, WorkerStays DEF At
<1>5. CASE /\ given < MaxGrants /\ given' = given + 1 /\ newest' = [newest EXCEPT ![p] = given + 1]
           /\ Fails(x, p) /\ UNCHANGED keys
  BY <1>1, <1>3, <1>5, FailingKeepsInv
<1>6. CASE /\ working' = [working EXCEPT ![x] = NoWork] /\ At(x, "done")
           /\ UNCHANGED <<keys, newest, signedIn, given, muddled>>
  <2>1. EntriesOK' /\ OthersKept(p) /\ (p \notin muddled' => working[x].alone /\ InOrder(p)')
    BY <1>2, <1>3, <1>6 DEF EntriesOK, OthersKept, InOrder
  <2> QED BY <1>1, <1>3, <1>6, <2>1, WorkerLeaves
<1> QED BY <1>4, <1>5, <1>6 DEF Login

LEMMA StoreGrantKeepsInv ==
  ASSUME CredInv, NEW x \in Clicks, StoreGrant(x)
  PROVE  CredInv'
<1>1. x \in Workers /\ at[x] = "grant" /\ at[x] \notin Resting
  BY DEF StoreGrant, Workers, Resting
<1> PICK p \in Signable, g \in 0 .. MaxGrants : p = working[x].provider /\ g = working[x].grant
  BY <1>1, AtAStep
<1>2. EntriesOK /\ g # Typed /\ (working[x].alone => keys[p] = g /\ newest[p] = g)
  BY <1>1, AtAStep DEF Stands
<1>3. UNCHANGED <<keys, newest, given, starts, toRestore>>
  BY DEF StoreGrant
<1>4. CASE SetGrant(p, g) /\ Served(x, p, "in")
  <2>1. EntriesOK' /\ grants'[p] = g /\ signedIn'[p] = "in" /\ \A q \in Signable \ {p} : grants'[q] = grants[q]
    BY <1>2, <1>3, <1>4 DEF EntriesOK, SetGrant, Served
  <2>2. working[x].alone => InOrder(p)'
    BY <1>2, <1>3, <2>1 DEF InOrder
  <2> QED BY <1>1, <1>3, <1>4, <2>1, <2>2, ServedKeepsInv
<1>5. CASE Fails(x, p) /\ UNCHANGED grants
  BY <1>1, <1>3, <1>5, FailingKeepsInv
<1> QED BY <1>4, <1>5 DEF StoreGrant

LEMMA DisconnectKeepsInv ==
  ASSUME CredInv, NEW x \in Clicks, Disconnect_(x)
  PROVE  CredInv'
<1>1. x \in Workers /\ x \notin Taskpanes /\ at[x] = "disconnect" /\ at[x] \notin Resting
  BY CredentialsAssumption DEF Disconnect_, Workers, Resting
<1> PICK p \in Signable : p = working[x].provider
  BY <1>1, AtAStep
<1>2. /\ working[x] \in Works /\ EntriesOK /\ WorkTypeOK
      /\ p \notin muddled => working[x].alone
  BY <1>1, AtAStep
<1>3. UNCHANGED <<grants, newest, given, starts, toRestore>>
  BY DEF Disconnect_
<1>4. CASE SetKey(p, 0) /\ At(x, "forget") /\ UNCHANGED <<working, signedIn, muddled>>
  <2>1. ([keys EXCEPT ![p] = 0]) \in [Signable -> 0 .. MaxGrants \cup {Typed}]
    BY <1>2, CredentialsAssumption DEF EntriesOK
  <2>2. EntriesOK' /\ OthersKept(p) /\ keys'[p] = 0
    BY <1>2, <1>3, <1>4, <2>1 DEF EntriesOK, OthersKept, SetKey
  <2>3. working' = [working EXCEPT ![x] = working[x]] /\ at'[x] = "forget"
    BY <1>1, <1>2, <1>4 DEF WorkTypeOK, At
  <2>4. Stands(x)'
    BY <1>4, <2>2, <2>3 DEF Stands
  <2>5. "forget" \in (IF x \in Taskpanes THEN PaneSteps ELSE ClickSteps) \ Resting
    BY <1>1 DEF ClickSteps, Resting
  <2> QED BY <1>1, <1>2, <1>3, <1>4, <2>2, <2>3, <2>4, <2>5, WorkerStays DEF At
<1>5. CASE Fails(x, p) /\ UNCHANGED keys
  BY <1>1, <1>3, <1>5, FailingKeepsInv
<1> QED BY <1>4, <1>5 DEF Disconnect_

LEMMA ForgetGrantKeepsInv ==
  ASSUME CredInv, NEW x \in Clicks, ForgetGrant(x)
  PROVE  CredInv'
<1>1. x \in Workers /\ at[x] = "forget" /\ at[x] \notin Resting
  BY DEF ForgetGrant, Workers, Resting
<1> PICK p \in Signable : p = working[x].provider
  BY <1>1, AtAStep
<1>2. EntriesOK /\ 0 \in 0 .. MaxGrants /\ Typed # 0 /\ (working[x].alone => keys[p] = 0)
  BY <1>1, AtAStep, CredentialsAssumption DEF Stands
<1>3. UNCHANGED <<keys, newest, given, starts, toRestore>>
  BY DEF ForgetGrant
<1>4. CASE SetGrant(p, 0) /\ Served(x, p, "out")
  <2>1. EntriesOK' /\ grants'[p] = 0 /\ signedIn'[p] = "out" /\ \A q \in Signable \ {p} : grants'[q] = grants[q]
    BY <1>2, <1>3, <1>4 DEF EntriesOK, SetGrant, Served
  <2>2. working[x].alone => InOrder(p)'
    BY <1>2, <1>3, <2>1 DEF InOrder
  <2> QED BY <1>1, <1>3, <1>4, <2>1, <2>2, ServedKeepsInv
<1>5. CASE Fails(x, p) /\ UNCHANGED grants
  BY <1>1, <1>3, <1>5, FailingKeepsInv
<1> QED BY <1>4, <1>5 DEF ForgetGrant

LEMMA SaveKeyKeepsInv ==
  ASSUME CredInv, NEW x \in Clicks, SaveKey(x)
  PROVE  CredInv'
<1>1. x \in Workers /\ at[x] = "save" /\ at[x] \notin Resting
  BY DEF SaveKey, Workers, Resting
<1> PICK p \in Signable : p = working[x].provider
  BY <1>1, AtAStep
<1>2. EntriesOK /\ (p \notin muddled => InOrder(p))
  BY <1>1, AtAStep DEF Stands
<1>3. UNCHANGED <<grants, newest, given, starts, toRestore>>
  BY DEF SaveKey
<1>4. CASE SetKey(p, Typed) /\ Served(x, p, "key")
  <2>1. EntriesOK' /\ keys'[p] = Typed /\ signedIn'[p] = "key" /\ \A q \in Signable \ {p} : keys'[q] = keys[q]
    BY <1>2, <1>3, <1>4 DEF EntriesOK, SetKey, Served
  <2>2. p \notin muddled => InOrder(p)'
    BY <1>2, <1>3, <2>1 DEF InOrder
  <2> QED BY <1>1, <1>3, <1>4, <2>1, <2>2, ServedKeepsInv
<1>5. CASE Fails(x, p) /\ UNCHANGED keys
  BY <1>1, <1>3, <1>5, FailingKeepsInv
<1> QED BY <1>4, <1>5 DEF SaveKey

\* Nobody comes to a provider or leaves it.
LEMMA StartKeepsInv ==
  ASSUME CredInv, NEW w \in Taskpanes, Start(w)
  PROVE  CredInv'
<1>1. /\ w \in Workers /\ at[w] = "new" /\ working[w] = NoWork /\ WorkTypeOK /\ EntriesOK
      /\ UNCHANGED <<keys, grants, newest, signedIn, given, working, muddled>>
      /\ SignIns \in Seq(Signable) /\ SignIns # <<>>
  BY CredentialsAssumption DEF Start, CredInv, WorkTypeOK, Workers, Resting
<1>2. starts' \in 0 .. MaxStarts
  BY <1>1, CredentialsAssumption DEF Start, EntriesOK
<1>3. /\ at' \in [Workers -> PaneSteps \cup ClickSteps] /\ at'[w] = "load"
      /\ toRestore' \in [Taskpanes -> Seq(Signable)] /\ toRestore'[w] = SignIns
      /\ \A y \in Workers : y # w => at'[y] = at[y]
      /\ \A y \in Taskpanes : y # w => toRestore'[y] = toRestore[y]
  BY <1>1 DEF Start, At, WorkTypeOK, PaneSteps
<1>4. WorkTypeOK'
  <2>1. \A y \in Workers : /\ working'[y] # NoWork <=> working'[y].provider \in Signable
                           /\ working'[y] # NoWork <=> at'[y] \notin Resting
    BY <1>1, <1>3 DEF WorkTypeOK, Resting
  <2>2. \A y \in Taskpanes : /\ at'[y] \in PaneSteps
                             /\ at'[y] \notin {"new", "open"} => toRestore'[y] # <<>>
                             /\ working'[y] # NoWork => working'[y].pane = y
    BY <1>1, <1>3 DEF WorkTypeOK, Workers, PaneSteps
  <2>3. \A y \in Clicks : at'[y] \in ClickSteps
    BY <1>1, <1>3, CredentialsAssumption DEF WorkTypeOK, Workers
  <2> QED BY <1>1, <1>3, <2>1, <2>2, <2>3 DEF WorkTypeOK
<1>5. \A y \in Workers : working'[y] # NoWork => Stands(y)'
  BY <1>1, <1>3 DEF CredInv, Stands, InOrder
<1> QED BY <1>1, <1>2, <1>4, <1>5 DEF CredInv, EntriesOK, AloneIsOnly, SignedInAsAsked, AtWork

\* With a taskpane go its restore and its clicks; what they were at is muddled.
LEMMA CloseKeepsInv ==
  ASSUME CredInv, NEW w \in Taskpanes, Close(w)
  PROVE  CredInv'
<1> DEFINE gone == {x \in Workers : x = w \/ working[x].pane = w}
<1>1. /\ WorkTypeOK /\ EntriesOK /\ w \in Workers /\ w # "none"
      /\ UNCHANGED <<keys, grants, newest, signedIn, given, starts>>
      /\ muddled' = muddled \cup {working[x].provider : x \in {x \in gone : working[x] # NoWork}}
      /\ working' = [x \in Workers |-> IF x \in gone THEN NoWork ELSE working[x]]
      /\ at' = [x \in Workers |-> IF x = w THEN "new" ELSE IF x \in gone THEN "done" ELSE at[x]]
      /\ toRestore' = [toRestore EXCEPT ![w] = <<>>]
  BY CredentialsAssumption DEF Close, CredInv, Workers
<1>2. \A x \in gone : x \in Workers /\ (x # w => x \in Clicks)
  BY <1>1, NoWorkTypes DEF WorkTypeOK, Workers
<1>3. w \in gone /\ \A x \in Workers \ gone : x # w
  BY <1>1
<1> HIDE DEF gone
<1>4. \A x \in Workers : /\ x \in gone => working'[x] = NoWork /\ at'[x] \in {"new", "done"}
                         /\ x \notin gone => working'[x] = working[x] /\ at'[x] = at[x]
  BY <1>1, <1>3
<1>5. muddled' \subseteq Signable /\ muddled \subseteq muddled'
  BY <1>1, <1>2 DEF WorkTypeOK, EntriesOK
<1>6. WorkTypeOK'
  <2>1. working' \in [Workers -> Works] /\ toRestore' \in [Taskpanes -> Seq(Signable)]
    BY <1>1, NoWorkTypes DEF WorkTypeOK
  <2>2. at' \in [Workers -> PaneSteps \cup ClickSteps]
    BY <1>1 DEF WorkTypeOK, PaneSteps, ClickSteps
  <2>3. \A y \in Workers : /\ working'[y] # NoWork <=> working'[y].provider \in Signable
                           /\ working'[y] # NoWork <=> at'[y] \notin Resting
    BY <1>1, <1>4, NoWorkTypes, CredentialsAssumption DEF WorkTypeOK, Resting
  <2>4. ASSUME NEW y \in Taskpanes
        PROVE  /\ at'[y] \in PaneSteps
               /\ at'[y] \notin {"new", "open"} => toRestore'[y] # <<>>
               /\ working'[y] # NoWork => working'[y].pane = y
    <3>1. CASE y = w
      BY <1>1, <1>3, <1>4, <3>1 DEF PaneSteps
    <3>2. CASE y # w
      <4>1. y \in Workers \ gone
        BY <1>2, <3>2, CredentialsAssumption DEF Workers
      <4> QED BY <1>1, <1>4, <3>2, <4>1 DEF WorkTypeOK
    <3> QED BY <3>1, <3>2
  <2>5. ASSUME NEW y \in Clicks PROVE at'[y] \in ClickSteps
    <3>1. y \in Workers /\ y # w
      BY CredentialsAssumption DEF Workers
    <3> QED BY <1>1, <3>1 DEF WorkTypeOK, ClickSteps
  <2> QED BY <2>1, <2>2, <2>3, <2>4, <2>5 DEF WorkTypeOK
<1>7. AloneIsOnly'
  <2> SUFFICES ASSUME NEW y \in Workers
               PROVE  /\ working'[y].alone => {z \in Workers : working'[z].provider = working'[y].provider} = {y}
                      /\ working'[y] # NoWork /\ working'[y].provider \notin muddled' => working'[y].alone
    BY DEF AloneIsOnly, AtWork
  <2>1. /\ working[y].alone => {z \in Workers : working[z].provider = working[y].provider} = {y}
        /\ working[y] # NoWork /\ working[y].provider \notin muddled => working[y].alone
    BY DEF CredInv, AloneIsOnly, AtWork
  <2>2. CASE y \in gone
    BY <1>4, <2>2, NoWorkTypes
  <2>3. CASE y \notin gone
    <3>1. working'[y] = working[y]
      BY <1>4, <2>3
    <3>2. CASE working[y] = NoWork
      BY <3>1, <3>2, NoWorkTypes
    <3>3. CASE working[y] # NoWork
      <4>1. working[y].provider # "none"
        BY <1>1, <3>3, CredentialsAssumption DEF WorkTypeOK
      <4> QED BY <1>4, <1>5, <2>1, <3>1, <3>3, <4>1, NoWorkTypes
    <3> QED BY <3>2, <3>3
  <2> QED BY <2>2, <2>3
<1>8. ASSUME NEW q \in Signable, q \notin muddled', AtWork(q)' = {} PROVE InOrder(q)'
  <2>1. ASSUME NEW x \in Workers PROVE working[x].provider # q
    <3>1. CASE x \in gone
      <4>1. CASE working[x] = NoWork
        BY <4>1, NoWorkTypes, CredentialsAssumption
      <4>2. CASE working[x] # NoWork
        BY <1>1, <1>8, <3>1, <4>2
      <4> QED BY <4>1, <4>2
    <3>2. CASE x \notin gone
      BY <1>4, <1>8, <3>2 DEF AtWork
    <3> QED BY <3>1, <3>2
  <2>2. q \notin muddled /\ AtWork(q) = {}
    BY <1>5, <1>8, <2>1 DEF AtWork
  <2> QED BY <1>1, <2>2 DEF CredInv, SignedInAsAsked, InOrder
<1>9. ASSUME NEW y \in Workers, working'[y] # NoWork PROVE Stands(y)'
  <2>1. working'[y] = working[y] /\ at'[y] = at[y] /\ Stands(y)
    BY <1>4, <1>9 DEF CredInv
  <2> QED BY <1>1, <1>5, <2>1 DEF Stands, InOrder
<1> QED BY <1>1, <1>5, <1>6, <1>7, <1>8, <1>9 DEF CredInv, EntriesOK, SignedInAsAsked, InOrder, AtWork

LEMMA StepKeepsInv == CredInv /\ [CredentialNext]_credentialVars => CredInv'
<1> SUFFICES ASSUME CredInv, [CredentialNext]_credentialVars PROVE CredInv'
  OBVIOUS
<1>1. ASSUME NEW w \in Taskpanes,
             \/ Start(w) \/ Load(w) \/ Use(w) \/ Refresh(w) \/ SetRefreshed(w)
             \/ ClearGrant(w) \/ ClearKey(w) \/ Close(w)
      PROVE  CredInv'
  BY <1>1, StartKeepsInv, LoadKeepsInv, UseKeepsInv, RefreshKeepsInv, SetRefreshedKeepsInv,
     ClearGrantKeepsInv, ClearKeyKeepsInv, CloseKeepsInv
<1>2. ASSUME NEW x \in Clicks,
             \/ Press(x) \/ Login(x) \/ StoreGrant(x) \/ Disconnect_(x) \/ ForgetGrant(x) \/ SaveKey(x)
      PROVE  CredInv'
  BY <1>2, PressKeepsInv, LoginKeepsInv, StoreGrantKeepsInv, DisconnectKeepsInv, ForgetGrantKeepsInv,
     SaveKeyKeepsInv
<1>3. CASE UNCHANGED credentialVars
  BY <1>3 DEF credentialVars, CredInv, EntriesOK, WorkTypeOK, AloneIsOnly, SignedInAsAsked, Stands,
              InOrder, AtWork
<1> QED BY <1>1, <1>2, <1>3 DEF CredentialNext

\* A run of the restores and of the buttons keeps the invariant.
LEMMA InvHolds == CredentialSpec => []CredInv
  BY InitEstablishesInv, StepKeepsInv, PTL DEF CredentialSpec

\* Every variable of the credentials keeps its type, and a worker is at work on
\* a provider just at the awaits between its first and its last call.
THEOREM CredentialTypesHold == CredentialSpec => []CredentialTypeOK
<1>1. CredInv => CredentialTypeOK
  BY DEF CredInv, EntriesOK, WorkTypeOK, CredentialTypeOK, PaneSteps, ClickSteps, Resting
<1> QED BY <1>1, InvHolds, PTL

\* Where nobody is at work and nothing failed or overlapped since the last login
\* or disconnect, the stored key and grant are those of the last button
\* (auth/restore.ts, ui/provider-login.ts).
THEOREM SignedInHolds == CredentialSpec => []SignedInAsAsked
<1>1. CredInv => SignedInAsAsked
  BY DEF CredInv
<1> QED BY <1>1, InvHolds, PTL

-----------------------------------------------------------------------------
(* FilesWorkspace *)

AtTag(r) == stage[r] \in {"tag", "load"}
AtTags(r) == stage[r] \in {"tag", "load", "stamp"}
InStorage(p) == files["workspace"][p] # NoFile

(* The tags there are: those of the settings until they are loaded.         *)
Tagged == IF tagsLoaded THEN tags ELSE stored

Owns(r, p) == Busy(r) /\ p \in PathsOf(call[r])

(* What calls there are at each await.                                      *)
CallShape(r) ==
  LET c == call[r] IN
  Busy(r) =>
    /\ c.op = "clean" <=> r \in Places
    /\ c.op = "clean" => AtTag(r) /\ r \in cleaned
    /\ c.op \in {"list", "write", "import", "delete"} => c.to = c.path
    /\ c.op = "list" => stage[r] \in {"resolve", "tag", "load"}
    /\ stage[r] \in {"copy", "remove"} => c.op = "rename" /\ c.path # c.to /\ c.content # NoFile
    /\ stage[r] = "stamp" => c.op \in {"write", "import", "rename"}
    /\ stage[r] = "probeNative" => c.folder
    /\ stage[r] = "resolve" => ~c.folder

AllShapes == \A r \in Callers : CallShape(r)

(* No two calls are about one path that is not disturbed.                   *)
OneOwner ==
  \A r \in Callers : \A q \in Callers :
    r # q /\ Busy(r) /\ Busy(q) => PathsOf(call[r]) \cap PathsOf(call[q]) \subseteq disturbed

(* The tags are loaded once, and are what was read, or every path is disturbed. *)
LoadsOnce ==
  /\ ~tagsLoaded => tags = {} /\ ~tagsUnsaved /\ \A r \in Callers : stage[r] # "stamp"
  /\ disturbed # Paths => \A r \in Callers : stage[r] = "load" =>
       /\ ~tagsLoaded /\ call[r].read = stored
       /\ \A q \in Callers : stage[q] = "load" => q = r

(* Memory and settings differ in the tag a rename is about to move, or after *)
(* a write that failed.                                                      *)
Moving(p) == \E r \in Requests : stage[r] = "stamp" /\ call[r].op = "rename" /\ call[r].path = p
Saved ==
  tagsLoaded /\ ~tagsUnsaved =>
    \A p \in Paths \ disturbed : (p \in tags <=> p \in stored) \/ Moving(p)

Base(p) == p \notin bare => (p \in Tagged <=> InStorage(p))

(* What the call r is about to do to the tag of p makes it right.           *)
CallStands(r, p) ==
  LET c == call[r] IN
  /\ c.op = "list" => Base(p) /\ (AtTag(r) => (p \in c.paths <=> InStorage(p)))
  /\ c.op = "clean" => (r = "workspace" => ~InStorage(p))
  /\ c.op = "delete" => IF AtTag(r) THEN ~InStorage(p) ELSE Base(p)
  /\ c.op \in {"write", "import"} => IF AtTags(r) THEN InStorage(p) ELSE Base(p)
  /\ c.op = "rename" =>
       IF AtTags(r) /\ c.path = c.to THEN p \notin bare => InStorage(p)
       ELSE IF p = c.to /\ (AtTags(r) \/ (stage[r] = "remove" /\ c.target = "workspace")) THEN InStorage(p)
       ELSE IF AtTag(r) THEN ~InStorage(p)
       ELSE Base(p)

TagsInStep ==
  \A p \in Paths \ disturbed :
    /\ \A r \in Callers : Owns(r, p) => CallStands(r, p)
    /\ (\A r \in Callers : ~Owns(r, p)) => Base(p)

(* What a call has read of its paths is still so.                           *)
Copied(r) ==
  Busy(r) /\ {call[r].path, call[r].to} \cap disturbed = {} =>
    LET c == call[r] IN
    /\ stage[r] \in {"copy", "remove"} => files[c.target][c.path] = c.content
    /\ stage[r] = "remove" => files[c.target][c.to] = c.content
    /\ stage[r] = "probeNative" => (c.here <=> InStorage(c.path))
    /\ stage[r] = "act" /\ c.place = "any" /\ c.folder =>
         \A l \in Places : l # c.target => files[l][c.path] = NoFile

Copies == \A r \in Requests : Copied(r)

FilesInv == FilesTypeOK /\ AllShapes /\ OneOwner /\ LoadsOnce /\ Saved /\ TagsInStep /\ Copies

-----------------------------------------------------------------------------
(* Steps of one caller. *)

Step(r, s, c) == stage' = [stage EXCEPT ![r] = s] /\ call' = [call EXCEPT ![r] = c]

(* A step of one caller leaves the calls of all others as they are.         *)
LEMMA OneSteps ==
  ASSUME FilesTypeOK, NEW r \in Callers, NEW s \in FileStages, NEW c \in FileCalls \cup {NoCall}, Step(r, s, c),
         s \in {"new", "done"} <=> c = NoCall
  PROVE  /\ stage' \in [Callers -> FileStages] /\ call' \in [Callers -> FileCalls \cup {NoCall}]
         /\ \A q \in Callers : Busy(q)' <=> call'[q] # NoCall
         /\ stage'[r] = s /\ call'[r] = c
         /\ \A q \in Callers \ {r} : stage'[q] = stage[q] /\ call'[q] = call[q] /\ (Busy(q)' <=> Busy(q))
  BY DEF Step, FilesTypeOK, Busy

LEMMA CallTyped ==
  ASSUME FilesTypeOK, NEW r \in Callers, Busy(r)
  PROVE  call[r] \in FileCalls
  BY DEF FilesTypeOK

LEMMA PathsTyped ==
  ASSUME NEW c \in FileCalls
  PROVE  PathsOf(c) \subseteq Paths
  BY DEF PathsOf, FileCalls

(* The shapes and owners after such a step. *)
LEMMA ShapesKept ==
  ASSUME FilesTypeOK, AllShapes, NEW r \in Callers, NEW s \in FileStages, NEW c \in FileCalls \cup {NoCall}, Step(r, s, c),
         s \in {"new", "done"} <=> c = NoCall, cleaned \subseteq cleaned', CallShape(r)'
  PROVE  AllShapes'
<1> SUFFICES ASSUME NEW q \in Callers, q # r PROVE CallShape(q)'
  BY DEF AllShapes
<1>1. stage'[q] = stage[q] /\ call'[q] = call[q] /\ (Busy(q)' <=> Busy(q))
  BY OneSteps
<1>2. CallShape(q)
  BY DEF AllShapes
<1> QED BY <1>1, <1>2 DEF CallShape, AtTag

LEMMA OwnersKept ==
  ASSUME FilesTypeOK, OneOwner, NEW r \in Callers, NEW s \in FileStages, NEW c \in FileCalls \cup {NoCall}, Step(r, s, c),
         s \in {"new", "done"} <=> c = NoCall, disturbed \subseteq disturbed',
         Busy(r), c # NoCall => PathsOf(c) = PathsOf(call[r])
  PROVE  OneOwner'
<1>1. /\ stage'[r] = s /\ call'[r] = c
      /\ \A q \in Callers \ {r} : stage'[q] = stage[q] /\ call'[q] = call[q] /\ (Busy(q)' <=> Busy(q))
      /\ Busy(r)' => c # NoCall
  BY OneSteps
<1>2. \A q \in Callers : Busy(q)' => Busy(q) /\ PathsOf(call'[q]) = PathsOf(call[q])
  BY <1>1
<1> QED BY <1>2 DEF OneOwner

(* The tags of the paths that are not the caller's are as they were: so is   *)
(* what the other calls are about to do.                                     *)
LEMMA TagsKept ==
  ASSUME FilesTypeOK, OneOwner, TagsInStep, NEW r \in Callers, NEW s \in FileStages, NEW c \in FileCalls \cup {NoCall},
         Step(r, s, c), s \in {"new", "done"} <=> c = NoCall, disturbed \subseteq disturbed',
         \A p \in Paths \ disturbed' : ~Owns(r, p) /\ ~Owns(r, p)' =>
           (p \in Tagged' <=> p \in Tagged) /\ (InStorage(p)' <=> InStorage(p)) /\ (p \in bare' <=> p \in bare),
         \A p \in Paths \ disturbed' : Owns(r, p) => IF Owns(r, p)' THEN CallStands(r, p)' ELSE Base(p)',
         \A p \in Paths \ disturbed' : ~Owns(r, p) /\ Owns(r, p)' =>
           CallStands(r, p)' /\ \A q \in Callers \ {r} : ~Owns(q, p)
  PROVE  TagsInStep'
<1> SUFFICES ASSUME NEW p \in Paths \ disturbed'
             PROVE  /\ \A q \in Callers : Owns(q, p)' => CallStands(q, p)'
                    /\ (\A q \in Callers : ~Owns(q, p)') => Base(p)'
  BY DEF TagsInStep
<1>1. /\ p \in Paths \ disturbed
      /\ \A q \in Callers \ {r} : stage'[q] = stage[q] /\ call'[q] = call[q] /\ (Busy(q)' <=> Busy(q))
  BY OneSteps
<1>2. \A q \in Callers \ {r} : Owns(q, p)' <=> Owns(q, p)
  BY <1>1 DEF Owns
<1>3. CASE Owns(r, p)
  <2>1. \A q \in Callers \ {r} : ~Owns(q, p)
    BY <1>1, <1>3 DEF Owns, OneOwner
  <2> QED BY <1>2, <1>3, <2>1
<1>4. CASE ~Owns(r, p) /\ Owns(r, p)'
  BY <1>2, <1>4
<1>5. CASE ~Owns(r, p) /\ ~Owns(r, p)'
  <2>1. (p \in Tagged' <=> p \in Tagged) /\ (InStorage(p)' <=> InStorage(p)) /\ (p \in bare' <=> p \in bare)
    BY <1>5
  <2>2. Base(p)' <=> Base(p)
    BY <2>1 DEF Base
  <2>3. ASSUME NEW q \in Callers, q # r PROVE CallStands(q, p)' <=> CallStands(q, p)
    BY <1>1, <2>1, <2>2, <2>3 DEF CallStands, AtTag, AtTags
  <2>4. ASSUME NEW q \in Callers, Owns(q, p)' PROVE CallStands(q, p)'
    <3>1. q # r /\ Owns(q, p)
      BY <1>2, <1>5, <2>4
    <3>2. CallStands(q, p)
      BY <1>1, <3>1 DEF TagsInStep
    <3> QED BY <2>3, <3>1, <3>2
  <2>5. ASSUME \A q \in Callers : ~Owns(q, p)' PROVE Base(p)'
    <3>1. \A q \in Callers : ~Owns(q, p)
      BY <1>2, <1>5, <2>5
    <3> QED BY <1>1, <2>2, <3>1 DEF TagsInStep
  <2> QED BY <2>4, <2>5
<1> QED BY <1>3, <1>4, <1>5

(* The files of the paths that are not the caller's are as they were.       *)
LEMMA CopiesKept ==
  ASSUME FilesTypeOK, AllShapes, OneOwner, Copies, NEW r \in Callers, NEW s \in FileStages, NEW c \in FileCalls \cup {NoCall},
         Step(r, s, c), s \in {"new", "done"} <=> c = NoCall, disturbed \subseteq disturbed',
         \A p \in Paths \ disturbed' : Owns(r, p) \/ Owns(r, p)' \/ \A l \in Places : files'[l][p] = files[l][p],
         \A p \in Paths \ disturbed' : ~Owns(r, p) /\ Owns(r, p)' => \A q \in Callers \ {r} : ~Owns(q, p),
         r \in Requests => Copied(r)'
  PROVE  Copies'
<1> SUFFICES ASSUME NEW q \in Requests, q # r PROVE Copied(q)'
  BY DEF Copies
<1>1. q \in Callers
  BY DEF Callers
<1>2. stage'[q] = stage[q] /\ call'[q] = call[q] /\ (Busy(q)' <=> Busy(q))
  BY <1>1, OneSteps
<1>3. Copied(q)
  BY DEF Copies
<1> SUFFICES ASSUME Busy(q), {call[q].path, call[q].to} \cap disturbed' = {}, stage[q] \notin {"tag", "load"}
             PROVE  Copied(q)'
  BY <1>2 DEF Copied
<1>4. call[q] \in FileCalls
  BY <1>1, CallTyped
<1>5. call[q].path \in Paths /\ call[q].to \in Paths /\ call[q].target \in Places
  BY <1>4 DEF FileCalls
<1>6. call[q].op # "clean"
  BY <1>1 DEF AllShapes, CallShape, AtTag
<1>7. Owns(q, call[q].path) /\ Owns(q, call[q].to)
  BY <1>5, <1>6 DEF Owns, PathsOf
<1>8. \A p \in {call[q].path, call[q].to} : ~Owns(r, p) /\ ~Owns(r, p)'
  BY <1>1, <1>5, <1>7 DEF OneOwner, Owns
<1>9. \A p \in {call[q].path, call[q].to} : \A l \in Places : files'[l][p] = files[l][p]
  BY <1>5, <1>8
<1>10. "workspace" \in Places
  BY DEF Places
<1> QED BY <1>2, <1>3, <1>5, <1>9, <1>10 DEF Copied, InStorage
-----------------------------------------------------------------------------
(* Steps that change no tag and no file but those of the caller's paths. *)

LEMMA WorkStep ==
  ASSUME FilesInv, NEW r \in Callers, NEW s \in FileStages, NEW c \in FileCalls \cup {NoCall}, Step(r, s, c),
         s \in {"new", "done"} <=> c = NoCall, s \notin {"new", "load", "stamp"},
         Busy(r), stage[r] # "stamp", c # NoCall => PathsOf(c) = PathsOf(call[r]),
         UNCHANGED <<connected, cleaned, tagVars, disturbed>>, bare' \subseteq Paths,
         \A p \in Paths \ PathsOf(call[r]) : p \in bare' <=> p \in bare,
         files' \in [Places -> [Paths -> Contents]],
         \A p \in Paths \ PathsOf(call[r]) : \A l \in Places : files'[l][p] = files[l][p],
         CallShape(r)', r \in Requests => Copied(r)',
         \A p \in PathsOf(call[r]) \ disturbed : IF s = "done" THEN Base(p)' ELSE CallStands(r, p)'
  PROVE  FilesInv'
<1>1. /\ stage' \in [Callers -> FileStages] /\ call' \in [Callers -> FileCalls \cup {NoCall}]
      /\ \A q \in Callers : Busy(q)' <=> call'[q] # NoCall
      /\ stage'[r] = s /\ call'[r] = c
      /\ \A q \in Callers \ {r} : stage'[q] = stage[q] /\ call'[q] = call[q] /\ (Busy(q)' <=> Busy(q))
  BY OneSteps DEF FilesInv
<1>2. FilesTypeOK'
  BY <1>1 DEF FilesInv, FilesTypeOK, tagVars
<1>3. AllShapes' /\ OneOwner'
  BY ShapesKept, OwnersKept DEF FilesInv
<1>4. LoadsOnce'
  BY <1>1 DEF FilesInv, LoadsOnce, tagVars
<1>5. Saved'
  <2>1. ASSUME NEW p, Moving(p) PROVE Moving(p)'
    BY <1>1, <2>1 DEF Moving, Callers
  <2> QED BY <2>1 DEF FilesInv, Saved, tagVars
<1>6. /\ \A p : p \in Tagged' <=> p \in Tagged
      /\ \A p \in Paths \ PathsOf(call[r]) : InStorage(p)' <=> InStorage(p)
  BY DEF Tagged, InStorage, Places, tagVars
<1>7. \A p \in Paths : Owns(r, p) <=> p \in PathsOf(call[r])
  BY DEF Owns
<1>8. \A p \in Paths : Owns(r, p)' <=> p \in PathsOf(call[r]) /\ s # "done"
  BY <1>1 DEF Owns, Busy
<1>9. TagsInStep'
  BY <1>6, <1>7, <1>8, TagsKept DEF FilesInv
<1>10. Copies'
  BY <1>7, <1>8, CopiesKept DEF FilesInv
<1> QED BY <1>2, <1>3, <1>4, <1>5, <1>9, <1>10 DEF FilesInv

(* Until a call acts, its paths are in order.                               *)
LEMMA BaseBefore ==
  ASSUME FilesInv, NEW r \in Requests, stage[r] \in {"resolve", "probe", "probeNative", "act", "copy"}
  PROVE  /\ r \in Callers /\ Busy(r) /\ call[r] \in FileCalls /\ call[r].op \in FileOps
         /\ CallShape(r) /\ Copied(r) /\ PathsOf(call[r]) \subseteq Paths
         /\ \A p \in PathsOf(call[r]) \ disturbed : Base(p)
<1>1. r \in Callers /\ Busy(r)
  BY DEF Callers, Busy
<1>2. call[r] \in FileCalls /\ CallShape(r) /\ Copied(r) /\ PathsOf(call[r]) \subseteq Paths
  BY <1>1, CallTyped, PathsTyped DEF FilesInv, AllShapes, Copies
<1>3. call[r].op \in FileOps
  BY <1>1, <1>2 DEF CallShape, AtTag, FileCalls
<1>4. ASSUME NEW p \in PathsOf(call[r]) \ disturbed PROVE Base(p)
  <2>1. CallStands(r, p)
    BY <1>1, <1>2 DEF FilesInv, TagsInStep, Owns
  <2> QED BY <1>3, <2>1 DEF CallStands, AtTag, AtTags, FileOps
<1> QED BY <1>1, <1>2, <1>3, <1>4

(* A call that ends where its paths are in order.                           *)
LEMMA QuietEnd ==
  ASSUME FilesInv, NEW r \in Callers, Busy(r), stage[r] # "stamp", Return(r),
         UNCHANGED <<fileVars, tagVars, disturbed>>, bare' \subseteq Paths,
         \A p \in Paths \ PathsOf(call[r]) : p \in bare' <=> p \in bare,
         \A p \in PathsOf(call[r]) \ disturbed : Base(p)'
  PROVE  FilesInv'
<1>1. Step(r, "done", NoCall)
  BY DEF Return, Await, Step
<1>2. stage'[r] = "done" /\ ~Busy(r)'
  BY <1>1 DEF Step, FilesInv, FilesTypeOK, Busy
<1>3. CallShape(r)' /\ Copied(r)'
  BY <1>2 DEF CallShape, Copied
<1>4. files' \in [Places -> [Paths -> Contents]] /\ UNCHANGED <<files, connected, cleaned>>
  BY DEF fileVars, FilesInv, FilesTypeOK
<1> QED BY <1>1, <1>3, <1>4, WorkStep DEF FileStages

(* A call that ends before it has done anything.                            *)
LEMMA EarlyEnd ==
  ASSUME FilesInv, NEW r \in Requests, stage[r] \in {"resolve", "probe", "probeNative", "act", "copy"},
         Return(r), UNCHANGED <<fileVars, tagVars, disturbed, bare>>
  PROVE  FilesInv'
<1>1. \A p : Base(p)' <=> Base(p)
  BY DEF Base, Tagged, InStorage, fileVars, tagVars
<1>2. stage[r] # "stamp" /\ bare \subseteq Paths
  BY DEF FilesInv, FilesTypeOK
<1> QED BY <1>1, <1>2, BaseBefore, QuietEnd

(* A call that goes on before it has done anything.                         *)
LEMMA EarlyStep ==
  ASSUME FilesInv, NEW r \in Requests, stage[r] \in {"resolve", "probe", "probeNative", "act", "copy"},
         NEW s \in {"probe", "probeNative", "act", "copy", "tag"}, NEW c \in FileCalls, Step(r, s, c),
         UNCHANGED <<fileVars, tagVars, disturbed>>, bare' \subseteq Paths,
         \A p \in Paths \ PathsOf(call[r]) : p \in bare' <=> p \in bare,
         c.op = call[r].op /\ c.path = call[r].path /\ c.to = call[r].to,
         CallShape(r)', Copied(r)',
         \A p \in PathsOf(call[r]) \ disturbed : Base(p) => CallStands(r, p)'
  PROVE  FilesInv'
<1>1. PathsOf(c) = PathsOf(call[r])
  BY BaseBefore DEF PathsOf, FileOps
<1>2. c # NoCall /\ s \in FileStages
  BY NoCallAssumption DEF FileStages
<1>3. files' \in [Places -> [Paths -> Contents]] /\ UNCHANGED <<files, connected, cleaned>>
  BY DEF fileVars, FilesInv, FilesTypeOK
<1> QED BY <1>1, <1>2, <1>3, BaseBefore, WorkStep

LEMMA ResolveStep == ASSUME FilesInv, NEW r \in Requests, Resolve(r) PROVE FilesInv'
<1>1. stage[r] = "resolve" /\ UNCHANGED <<fileVars, tagVars, disturbed, bare>>
  BY DEF Resolve
<1>2. /\ r \in Callers /\ Busy(r) /\ call[r] \in FileCalls /\ call[r].op \in FileOps
      /\ CallShape(r) /\ Copied(r) /\ PathsOf(call[r]) \subseteq Paths
      /\ \A p \in PathsOf(call[r]) \ disturbed : Base(p)
  BY <1>1, BaseBefore
<1>3. bare' \subseteq Paths /\ \A p : (Base(p)' <=> Base(p)) /\ (InStorage(p)' <=> InStorage(p))
  BY <1>1 DEF FilesInv, FilesTypeOK, Base, Tagged, InStorage, fileVars, tagVars
<1>4. r \notin Places
  BY FilesAssumption DEF Places
<1> DEFINE c == call[r]
           found == {p \in Paths : files["workspace"][p] # NoFile}
<1>6. CASE c.op = "list" /\ Await(r, "tag") /\ Note(r, "paths", found)
  <2> DEFINE d == [c EXCEPT !.paths = found]
  <2>1. d \in FileCalls /\ d.op = "list" /\ d.path = c.path /\ d.to = c.to /\ d.paths = found
    BY <1>2, <1>6 DEF FileCalls
  <2>2. Step(r, "tag", d)
    BY <1>6 DEF Await, Note, Step
  <2> HIDE DEF d
  <2>3. stage'[r] = "tag" /\ call'[r] = d
    BY <1>2, <2>2 DEF Step, FilesInv, FilesTypeOK
  <2>4. CallShape(r)' /\ Copied(r)'
    BY <1>2, <1>4, <1>6, <2>1, <2>3 DEF CallShape, Copied
  <2>5. \A p \in PathsOf(call[r]) \ disturbed : Base(p) => CallStands(r, p)'
    BY <1>2, <1>3, <2>1, <2>3 DEF CallStands, AtTag, InStorage
  <2> QED BY <1>1, <1>3, <1>6, <2>1, <2>2, <2>4, <2>5, EarlyStep
<1>7. CASE Return(r)
  BY <1>1, <1>7, EarlyEnd
<1>8. ASSUME c.op # "list", NEW s \in {"act", "probe"}, NEW d \in FileCalls, Step(r, s, d),
             d.op = c.op /\ d.path = c.path /\ d.to = c.to,
             s = "act" => d.place # "any" \/ ~d.folder
      PROVE  FilesInv'
  <2>1. stage'[r] = s /\ call'[r] = d
    BY <1>2, <1>8 DEF Step, FilesInv, FilesTypeOK
  <2>2. CallShape(r)' /\ Copied(r)'
    BY <1>2, <1>4, <1>8, <2>1 DEF CallShape, Copied, FileOps
  <2>3. \A p \in PathsOf(call[r]) \ disturbed : Base(p) => CallStands(r, p)'
    BY <1>2, <1>3, <1>8, <2>1 DEF CallStands, AtTag, AtTags, FileOps
  <2> QED BY <1>1, <1>3, <1>8, <2>2, <2>3, EarlyStep
<1>9. CASE c.op # "list" /\ c.place \in Places /\ Await(r, "act") /\ Note(r, "target", c.place)
  <2> DEFINE d == [c EXCEPT !.target = c.place]
  <2>1. d \in FileCalls /\ d.op = c.op /\ d.path = c.path /\ d.to = c.to /\ d.place # "any"
    BY <1>2, <1>9 DEF FileCalls, Places
  <2>2. Step(r, "act", d)
    BY <1>9 DEF Await, Note, Step
  <2> HIDE DEF d
  <2> QED BY <1>8, <1>9, <2>1, <2>2
<1>10. CASE c.op # "list" /\ Await(r, "act") /\ UNCHANGED call
  <2>1. Step(r, "act", c) /\ ~c.folder
    BY <1>1, <1>2, <1>10 DEF Await, Step, CallShape, FilesInv, FilesTypeOK
  <2> QED BY <1>2, <1>8, <1>10, <2>1
<1>11. CASE c.op # "list" /\ Await(r, "probe") /\ Note(r, "folder", connected)
  <2> DEFINE d == [c EXCEPT !.folder = connected]
  <2>1. d \in FileCalls /\ d.op = c.op /\ d.path = c.path /\ d.to = c.to
    BY <1>2, <1>11 DEF FileCalls, FilesInv, FilesTypeOK
  <2>2. Step(r, "probe", d)
    BY <1>11 DEF Await, Note, Step
  <2> HIDE DEF d
  <2> QED BY <1>8, <1>11, <2>1, <2>2
<1>12. \/ c.op = "list" /\ Await(r, "tag") /\ Note(r, "paths", found)
       \/ Return(r)
       \/ c.op # "list" /\ c.place \in Places /\ Await(r, "act") /\ Note(r, "target", c.place)
       \/ c.op # "list" /\ Await(r, "act") /\ UNCHANGED call
       \/ c.op # "list" /\ Await(r, "probe") /\ Note(r, "folder", connected)
  BY DEF Resolve
<1> QED BY <1>6, <1>7, <1>9, <1>10, <1>11, <1>12

LEMMA ChooseStep ==
  ASSUME FilesInv, NEW r \in Requests, stage[r] \in {"probe", "probeNative"}, NEW here \in BOOLEAN, NEW there \in BOOLEAN,
         Choose(r, here, there), UNCHANGED <<fileVars, tagVars, disturbed, bare>>,
         call[r].folder /\ call[r].path \notin disturbed /\ call[r].to \notin disturbed =>
           (here <=> InStorage(call[r].path)) /\ (there <=> files["native"][call[r].path] # NoFile)
  PROVE  FilesInv'
<1>1. CASE Return(r)
  BY <1>1, EarlyEnd
<1>2. CASE ~(here /\ there) /\ ~Return(r)
  <2> DEFINE c == call[r]
             t == IF here \/ ~c.folder THEN "workspace" ELSE "native"
             d == [c EXCEPT !.here = FALSE, !.target = t]
  <2>1. /\ r \in Callers /\ Busy(r) /\ c \in FileCalls /\ c.op \in FileOps
        /\ CallShape(r) /\ Copied(r) /\ PathsOf(c) \subseteq Paths
        /\ \A p \in PathsOf(c) \ disturbed : Base(p)
    BY BaseBefore
  <2>2. Step(r, "act", d)
    BY <1>2 DEF Choose, Await, Step
  <2>3. /\ d \in FileCalls /\ d.op = c.op /\ d.path = c.path /\ d.to = c.to
        /\ d.folder = c.folder /\ d.target = t
    BY <2>1 DEF FileCalls, Places
  <2> HIDE DEF d
  <2>4. stage'[r] = "act" /\ call'[r] = d
    BY <2>1, <2>2 DEF Step, FilesInv, FilesTypeOK
  <2>5. \A p : (Base(p)' <=> Base(p)) /\ (InStorage(p)' <=> InStorage(p))
    BY DEF Base, Tagged, InStorage, fileVars, tagVars
  <2>6. bare' \subseteq Paths
    BY DEF FilesInv, FilesTypeOK
  <2>7. r \notin Places
    BY FilesAssumption DEF Places
  <2>8. CallShape(r)'
    BY <2>1, <2>3, <2>4, <2>7 DEF CallShape, FileOps
  <2>9. c.folder /\ c.path \notin disturbed /\ c.to \notin disturbed =>
          \A l \in Places : l # t => files[l][c.path] = NoFile
    BY <1>2 DEF InStorage, Places, Choose
  <2>10. Copied(r)'
    BY <2>3, <2>4, <2>9 DEF Copied, fileVars
  <2>11. \A p \in PathsOf(c) \ disturbed : Base(p) => CallStands(r, p)'
    BY <2>1, <2>3, <2>4, <2>5 DEF CallStands, AtTag, AtTags, CallShape
  <2> QED BY <2>2, <2>3, <2>6, <2>8, <2>10, <2>11, EarlyStep
<1> QED BY <1>1, <1>2 DEF Choose

LEMMA ProbeStep == ASSUME FilesInv, NEW r \in Requests, Probe(r) \/ ProbeNative(r) PROVE FilesInv'
<1> DEFINE c == call[r]
<1>1. /\ stage[r] \in {"probe", "probeNative"} /\ UNCHANGED <<fileVars, tagVars, disturbed, bare>>
      /\ bare' \subseteq Paths
  BY DEF Probe, ProbeNative, FilesInv, FilesTypeOK
<1>2. /\ r \in Callers /\ Busy(r) /\ c \in FileCalls /\ c.op \in FileOps
      /\ CallShape(r) /\ Copied(r) /\ PathsOf(c) \subseteq Paths
      /\ \A p \in PathsOf(c) \ disturbed : Base(p)
  BY <1>1, BaseBefore
<1>3. CASE Return(r)
  BY <1>1, <1>3, EarlyEnd
<1>4. CASE stage[r] = "probe" /\ ~c.folder /\ \E here \in BOOLEAN : Choose(r, here, FALSE)
  BY <1>1, <1>4, ChooseStep
<1>5. CASE stage[r] = "probeNative" /\ Choose(r, c.here, files["native"][c.path] # NoFile)
  <2>1. c.here \in BOOLEAN
    BY <1>2 DEF FileCalls
  <2>2. c.path \notin disturbed /\ c.to \notin disturbed => (c.here <=> InStorage(c.path))
    BY <1>2, <1>5 DEF Copied
  <2> QED BY <1>1, <1>5, <2>1, <2>2, ChooseStep
<1>6. CASE c.folder /\ Await(r, "probeNative") /\ Note(r, "here", files["workspace"][c.path] # NoFile) /\ stage[r] = "probe"
  <2> DEFINE h == files["workspace"][c.path] # NoFile
             d == [c EXCEPT !.here = h]
  <2>1. /\ d \in FileCalls /\ d.op = c.op /\ d.path = c.path /\ d.to = c.to /\ (d.here <=> InStorage(c.path))
        /\ d.folder = c.folder
    BY <1>2 DEF FileCalls, InStorage
  <2>2. Step(r, "probeNative", d)
    BY <1>6 DEF Await, Note, Step
  <2> HIDE DEF d
  <2>3. stage'[r] = "probeNative" /\ call'[r] = d
    BY <1>2, <2>2 DEF Step, FilesInv, FilesTypeOK
  <2>4. CallShape(r)' /\ Copied(r)'
    <3>1. r \notin Places
      BY FilesAssumption DEF Places
    <3> QED BY <1>1, <1>2, <1>6, <2>1, <2>3, <3>1 DEF CallShape, Copied, FileOps, InStorage, fileVars
  <2>5. \A p \in PathsOf(c) \ disturbed : Base(p) => CallStands(r, p)'
    <3>1. \A p : Base(p)' <=> Base(p)
      BY <1>1 DEF Base, Tagged, InStorage, fileVars, tagVars
    <3> QED BY <1>2, <1>6, <2>1, <2>3, <3>1 DEF CallStands, AtTag, AtTags, CallShape
  <2> QED BY <1>1, <1>6, <2>1, <2>2, <2>4, <2>5, EarlyStep
<1>7. Probe(r) => <1>3!1 \/ <1>4!1 \/ <1>6!1
  BY DEF Probe
<1> QED BY <1>3, <1>4, <1>5, <1>6, <1>7 DEF Probe, ProbeNative

LEMMA ActFailsStep == ASSUME FilesInv, NEW r \in Requests, ActFails(r) PROVE FilesInv'
<1>1. CASE stage[r] \in {"act", "copy"}
  BY <1>1, EarlyEnd DEF ActFails
<1>2. CASE stage[r] = "remove"
  <2> DEFINE c == call[r]
  <2>1. r \in Callers /\ Busy(r) /\ stage[r] # "stamp"
    BY <1>2 DEF Callers, Busy
  <2>2. c \in FileCalls /\ CallShape(r) /\ PathsOf(c) \subseteq Paths
    BY <2>1, CallTyped, PathsTyped DEF FilesInv, AllShapes
  <2>3. c.op = "rename" /\ c.path # c.to /\ PathsOf(c) = {c.path, c.to}
    BY <1>2, <2>1, <2>2 DEF CallShape, PathsOf
  <2>4. \A p \in PathsOf(c) \ disturbed : CallStands(r, p)
    BY <2>1, <2>2 DEF FilesInv, TagsInStep, Owns
  <2>5. /\ bare' = (IF c.target = "workspace" THEN bare \cup {c.to} ELSE bare) /\ bare' \subseteq Paths
        /\ Return(r) /\ UNCHANGED <<fileVars, tagVars, disturbed>>
    BY <1>2, <2>2 DEF ActFails, FilesInv, FilesTypeOK, FileCalls
  <2>6. \A p : (p \in Tagged' <=> p \in Tagged) /\ (InStorage(p)' <=> InStorage(p))
    BY <2>5 DEF Tagged, InStorage, fileVars, tagVars
  <2>7. \A p \in PathsOf(c) \ disturbed : Base(p)'
    BY <1>2, <2>3, <2>4, <2>5, <2>6 DEF CallStands, Base, AtTag, AtTags
  <2> QED BY <2>1, <2>3, <2>5, <2>7, QuietEnd
<1> QED BY <1>1, <1>2 DEF ActFails

LEMMA RenameReadsStep == ASSUME FilesInv, NEW r \in Requests, RenameReads(r) PROVE FilesInv'
<1> DEFINE c == call[r]
           content == files[c.target][c.path]
<1>1. stage[r] = "act" /\ c.op = "rename" /\ UNCHANGED <<fileVars, tagVars, disturbed>>
  BY DEF RenameReads
<1>2. /\ r \in Callers /\ Busy(r) /\ c \in FileCalls /\ PathsOf(c) = {c.path, c.to}
      /\ CallShape(r) /\ Copied(r) /\ PathsOf(c) \subseteq Paths
      /\ \A p \in PathsOf(c) \ disturbed : Base(p)
  BY <1>1, BaseBefore DEF PathsOf
<1>3. r \notin Places /\ bare \subseteq Paths
  BY FilesAssumption DEF Places, FilesInv, FilesTypeOK
<1>4. content \in Contents
  BY <1>2 DEF FilesInv, FilesTypeOK, FileCalls
<1>5. CASE Return(r) /\ UNCHANGED bare
  BY <1>1, <1>5, EarlyEnd
<1>6. CASE c.path = c.to /\ c.target = "workspace" /\ Await(r, "tag") /\ UNCHANGED call
  <2>1. bare' = IF content = NoFile THEN bare \cup {c.path} ELSE bare
    BY <1>6 DEF RenameReads
  <2>2. Step(r, "tag", c) /\ stage'[r] = "tag" /\ call'[r] = c
    BY <1>2, <1>6 DEF Await, Step, FilesInv, FilesTypeOK
  <2>3. CallShape(r)' /\ Copied(r)'
    BY <1>1, <1>2, <1>3, <2>2 DEF CallShape, Copied
  <2>4. \A p \in PathsOf(c) \ disturbed : CallStands(r, p)'
    BY <1>1, <1>2, <1>6, <2>1, <2>2 DEF CallStands, AtTag, AtTags, InStorage, fileVars
  <2> QED BY <1>1, <1>2, <1>3, <2>1, <2>2, <2>3, <2>4, EarlyStep
<1>7. CASE c.path # c.to /\ content # NoFile /\ Await(r, "copy") /\ Note(r, "content", content) /\ UNCHANGED bare
  <2> DEFINE d == [c EXCEPT !.content = content]
  <2>1. /\ d \in FileCalls /\ d.op = c.op /\ d.path = c.path /\ d.to = c.to /\ d.content = content
        /\ d.target = c.target
    BY <1>2, <1>4 DEF FileCalls
  <2>2. Step(r, "copy", d)
    BY <1>7 DEF Await, Note, Step
  <2> HIDE DEF d
  <2>3. stage'[r] = "copy" /\ call'[r] = d
    BY <1>2, <2>2 DEF Step, FilesInv, FilesTypeOK
  <2>4. CallShape(r)' /\ Copied(r)'
    BY <1>1, <1>2, <1>3, <1>7, <2>1, <2>3 DEF CallShape, Copied, fileVars
  <2>5. \A p \in PathsOf(c) \ disturbed : Base(p) => CallStands(r, p)'
    <3>1. \A p : Base(p)' <=> Base(p)
      BY <1>1, <1>7 DEF Base, Tagged, InStorage, fileVars, tagVars
    <3> QED BY <1>1, <2>1, <2>3, <3>1 DEF CallStands, AtTag, AtTags
  <2> QED BY <1>1, <1>3, <1>7, <2>1, <2>2, <2>4, <2>5, EarlyStep
<1> QED BY <1>5, <1>6, <1>7 DEF RenameReads, Done

LEMMA TagsFailStep == ASSUME FilesInv, NEW r \in Callers, TagsFail(r) PROVE FilesInv'
<1>1. Busy(r) /\ stage[r] = "load" /\ Return(r) /\ UNCHANGED <<fileVars, tagVars, disturbed>>
  BY DEF TagsFail, Busy
<1>2. call[r] \in FileCalls /\ PathsOf(call[r]) \subseteq Paths
  BY <1>1, CallTyped, PathsTyped DEF FilesInv
<1>3. bare' = (IF call[r].op = "list" THEN bare ELSE bare \cup PathsOf(call[r])) /\ bare \subseteq Paths
  BY DEF TagsFail, FilesInv, FilesTypeOK
<1>4. \A p : (p \in Tagged' <=> p \in Tagged) /\ (InStorage(p)' <=> InStorage(p))
  BY <1>1 DEF Tagged, InStorage, fileVars, tagVars
<1>5. \A p \in PathsOf(call[r]) \ disturbed : call[r].op = "list" => Base(p)
  BY <1>1, <1>2 DEF FilesInv, TagsInStep, Owns, CallStands
<1>6. \A p \in PathsOf(call[r]) \ disturbed : Base(p)'
  BY <1>3, <1>4, <1>5 DEF Base
<1>7. bare' \subseteq Paths /\ \A p \in Paths \ PathsOf(call[r]) : p \in bare' <=> p \in bare
  BY <1>2, <1>3
<1> QED BY <1>1, <1>6, <1>7, QuietEnd

-----------------------------------------------------------------------------
(* Steps that change a file. *)

LEMMA PutsOne ==
  ASSUME FilesTypeOK, NEW l \in Places, NEW p \in Paths, NEW content \in Contents, Put(l, p, content)
  PROVE  /\ files' \in [Places -> [Paths -> Contents]] /\ files'[l][p] = content
         /\ \A k \in Places : \A q \in Paths : k # l \/ q # p => files'[k][q] = files[k][q]
  BY DEF Put, FilesTypeOK

(* A call that has changed the file of its only path.                       *)
LEMMA OnlyPathChanged ==
  ASSUME FilesInv, NEW r \in Requests, stage[r] = "act", call[r].op \in {"write", "import", "delete"},
         NEW content \in Contents, Put(call[r].target, call[r].path, content), Done(r),
         UNCHANGED <<connected, cleaned, tagVars, disturbed, bare>>,
         call[r].op = "delete" <=> content = NoFile
  PROVE  FilesInv'
<1> DEFINE c == call[r]
<1>1. /\ r \in Callers /\ Busy(r) /\ c \in FileCalls /\ PathsOf(c) = {c.path} /\ c.path \in Paths /\ c.path = c.to
      /\ CallShape(r) /\ c.target \in Places
      /\ \A p \in {c.path} \ disturbed : Base(p)
  <2>1. /\ r \in Callers /\ Busy(r) /\ c \in FileCalls /\ CallShape(r)
        /\ \A p \in PathsOf(c) \ disturbed : Base(p)
    BY BaseBefore
  <2>2. c.path = c.to
    BY <2>1 DEF CallShape
  <2> QED BY <2>1, <2>2 DEF PathsOf, FileCalls
<1>2. /\ files' \in [Places -> [Paths -> Contents]] /\ files'[c.target][c.path] = content
      /\ \A k \in Places : \A q \in Paths : k # c.target \/ q # c.path => files'[k][q] = files[k][q]
  BY <1>1, PutsOne DEF FilesInv
<1>3. r \notin Places /\ bare' \subseteq Paths /\ "workspace" \in Places /\ \A p : p \in Tagged' <=> p \in Tagged
  BY FilesAssumption DEF Places, FilesInv, FilesTypeOK, Tagged, tagVars
<1>4. CASE c.target = "workspace" /\ Await(r, "tag") /\ UNCHANGED call
  <2>1. Step(r, "tag", c) /\ stage'[r] = "tag" /\ call'[r] = c /\ c # NoCall
    BY <1>1, <1>4, NoCallAssumption DEF Await, Step, FilesInv, FilesTypeOK
  <2>2. CallShape(r)' /\ Copied(r)'
    BY <1>1, <1>3, <2>1 DEF CallShape, Copied, AtTag
  <2>3. \A p \in {c.path} : InStorage(p)' <=> content # NoFile
    BY <1>2, <1>4 DEF InStorage
  <2>4. \A p \in PathsOf(c) \ disturbed : CallStands(r, p)'
    BY <1>1, <2>1, <2>3 DEF CallStands, AtTag, AtTags
  <2> QED BY <1>1, <1>2, <1>3, <2>1, <2>2, <2>4, WorkStep DEF FileStages
<1>5. CASE c.target # "workspace" /\ Return(r)
  <2>1. Step(r, "done", NoCall) /\ stage'[r] = "done" /\ ~Busy(r)'
    BY <1>1, <1>5 DEF Return, Await, Step, FilesInv, FilesTypeOK, Busy
  <2>2. CallShape(r)' /\ Copied(r)'
    BY <2>1 DEF CallShape, Copied
  <2>3. \A p \in {c.path} : InStorage(p)' <=> InStorage(p)
    BY <1>1, <1>2, <1>3, <1>5 DEF InStorage
  <2>4. \A p \in PathsOf(c) \ disturbed : Base(p)'
    BY <1>1, <1>3, <2>3 DEF Base
  <2> QED BY <1>1, <1>2, <1>3, <2>1, <2>2, <2>4, WorkStep DEF FileStages
<1> QED BY <1>4, <1>5 DEF Done

LEMMA WriteStep == ASSUME FilesInv, NEW r \in Requests, WriteFile(r) PROVE FilesInv'
<1>1. r \in Contents /\ r # NoFile
  BY FilesAssumption DEF Contents
<1> QED BY <1>1, OnlyPathChanged DEF WriteFile

LEMMA DeleteStep == ASSUME FilesInv, NEW r \in Requests, DeleteFile(r) PROVE FilesInv'
  BY OnlyPathChanged DEF DeleteFile, Contents

LEMMA RenameCopiesStep == ASSUME FilesInv, NEW r \in Requests, RenameCopies(r) PROVE FilesInv'
<1> DEFINE c == call[r]
<1>1. /\ r \in Callers /\ Busy(r) /\ c \in FileCalls /\ CallShape(r) /\ Copied(r) /\ stage[r] = "copy"
      /\ \A p \in PathsOf(c) \ disturbed : Base(p)
  BY BaseBefore DEF RenameCopies
<1>2. /\ c.op = "rename" /\ c.path # c.to /\ c.content # NoFile /\ PathsOf(c) = {c.path, c.to} /\ r \notin Places
      /\ c.path \in Paths /\ c.to \in Paths /\ c.target \in Places /\ c.content \in Contents
  BY <1>1, FilesAssumption DEF CallShape, PathsOf, FileCalls, Places
<1>3. UNCHANGED <<connected, cleaned, tagVars, disturbed, bare>> /\ bare' \subseteq Paths /\ "workspace" \in Places
  BY DEF RenameCopies, FilesInv, FilesTypeOK, Places
<1>4. /\ files' \in [Places -> [Paths -> Contents]] /\ files'[c.target][c.to] = c.content
      /\ \A k \in Places : \A q \in Paths : k # c.target \/ q # c.to => files'[k][q] = files[k][q]
  BY <1>2, PutsOne DEF FilesInv, RenameCopies
<1>5. Step(r, "remove", c) /\ stage'[r] = "remove" /\ call'[r] = c /\ c # NoCall
  BY <1>1, NoCallAssumption DEF RenameCopies, Await, Step, FilesInv, FilesTypeOK
<1>6. CallShape(r)'
  BY <1>1, <1>2, <1>5 DEF CallShape
<1>7. Copied(r)'
  BY <1>1, <1>2, <1>3, <1>4, <1>5 DEF Copied
<1>8. \A p \in PathsOf(c) \ disturbed : CallStands(r, p)'
  <2>1. \A p : p \in Tagged' <=> p \in Tagged
    BY <1>3 DEF Tagged, tagVars
  <2>2. c.target = "workspace" => \A p \in {c.to} : InStorage(p)'
    BY <1>2, <1>4 DEF InStorage
  <2>3. \A p \in {c.path} : InStorage(p)' <=> InStorage(p)
    BY <1>2, <1>3, <1>4 DEF InStorage
  <2>4. c.target # "workspace" => \A p \in {c.to} : InStorage(p)' <=> InStorage(p)
    BY <1>2, <1>3, <1>4 DEF InStorage
  <2> QED BY <1>1, <1>2, <1>3, <1>5, <2>1, <2>2, <2>3, <2>4 DEF CallStands, AtTag, AtTags, Base
<1> QED BY <1>1, <1>2, <1>3, <1>4, <1>5, <1>6, <1>7, <1>8, WorkStep DEF FileStages

LEMMA RenameRemovesStep == ASSUME FilesInv, NEW r \in Requests, RenameRemoves(r) PROVE FilesInv'
<1> DEFINE c == call[r]
<1>1. r \in Callers /\ Busy(r) /\ stage[r] = "remove"
  BY DEF RenameRemoves, Callers, Busy
<1>2. c \in FileCalls /\ CallShape(r) /\ Copied(r)
  BY <1>1, CallTyped DEF FilesInv, AllShapes, Copies
<1>3. /\ c.op = "rename" /\ c.path # c.to /\ c.content # NoFile /\ PathsOf(c) = {c.path, c.to} /\ r \notin Places
      /\ c.path \in Paths /\ c.to \in Paths /\ c.target \in Places /\ NoFile \in Contents
  BY <1>1, <1>2, FilesAssumption DEF CallShape, PathsOf, FileCalls, Places, Contents
<1>4. \A p \in PathsOf(c) \ disturbed : CallStands(r, p)
  BY <1>1, <1>3 DEF FilesInv, TagsInStep, Owns
<1>5. UNCHANGED <<connected, cleaned, tagVars, disturbed, bare>> /\ bare' \subseteq Paths /\ "workspace" \in Places
  BY DEF RenameRemoves, FilesInv, FilesTypeOK, Places
<1>6. /\ files' \in [Places -> [Paths -> Contents]] /\ files'[c.target][c.path] = NoFile
      /\ \A k \in Places : \A q \in Paths : k # c.target \/ q # c.path => files'[k][q] = files[k][q]
  BY <1>3, PutsOne DEF FilesInv, RenameRemoves
<1>7. \A p : p \in Tagged' <=> p \in Tagged
  BY <1>5 DEF Tagged, tagVars
<1>8. \A p \in {c.to} : InStorage(p)' <=> InStorage(p)
  BY <1>3, <1>5, <1>6 DEF InStorage
<1>9. CASE c.target = "workspace" /\ Await(r, "tag") /\ UNCHANGED call
  <2>1. Step(r, "tag", c) /\ stage'[r] = "tag" /\ call'[r] = c /\ c # NoCall
    BY <1>1, <1>2, <1>9, NoCallAssumption DEF Await, Step, FilesInv, FilesTypeOK
  <2>2. CallShape(r)' /\ Copied(r)'
    BY <1>1, <1>2, <1>3, <2>1 DEF CallShape, Copied, AtTag
  <2>3. \A p \in {c.path} : ~InStorage(p)'
    BY <1>6, <1>9 DEF InStorage
  <2>4. \A p \in PathsOf(c) \ disturbed : CallStands(r, p)'
    BY <1>1, <1>3, <1>4, <1>8, <1>9, <2>1, <2>3 DEF CallStands, AtTag, AtTags
  <2> QED BY <1>1, <1>2, <1>3, <1>5, <1>6, <2>1, <2>2, <2>4, WorkStep DEF FileStages
<1>10. CASE c.target # "workspace" /\ Return(r)
  <2>1. Step(r, "done", NoCall) /\ stage'[r] = "done" /\ ~Busy(r)'
    BY <1>1, <1>10 DEF Return, Await, Step, FilesInv, FilesTypeOK, Busy
  <2>2. CallShape(r)' /\ Copied(r)'
    BY <2>1 DEF CallShape, Copied
  <2>3. \A p \in {c.path} : InStorage(p)' <=> InStorage(p)
    BY <1>3, <1>5, <1>6, <1>10 DEF InStorage
  <2>4. \A p \in PathsOf(c) \ disturbed : Base(p)'
    BY <1>1, <1>3, <1>4, <1>5, <1>7, <1>8, <1>10, <2>3 DEF Base, CallStands, AtTag, AtTags
  <2> QED BY <1>1, <1>3, <1>5, <1>6, <2>1, <2>2, <2>4, WorkStep DEF FileStages
<1> QED BY <1>9, <1>10 DEF RenameRemoves, Done

-----------------------------------------------------------------------------
(* Steps that change the tags. *)

(* What the tags mean for a path that is not disturbed, whether a call has  *)
(* them from memory or has read them itself.                                *)
TagsOf(r, t) ==
  /\ t \subseteq Paths
  /\ \A p \in Paths \ disturbed : p \in t <=> p \in Tagged
  /\ \A p \in Paths \ disturbed : \A q \in Callers \ {r} : stage[q] # "load"
  /\ stage[r] \in {"tag", "load"}

LEMMA TagsAtHand ==
  ASSUME FilesInv, NEW r \in Callers, NEW t,
         (stage[r] = "tag" /\ tagsLoaded /\ t = tags) \/ (stage[r] = "load" /\ t = call[r].read)
  PROVE  TagsOf(r, t)
<1>1. Busy(r) /\ call[r] \in FileCalls
  BY CallTyped DEF Busy, FilesInv
<1>2. t \subseteq Paths
  BY <1>1 DEF FilesInv, FilesTypeOK, FileCalls
<1> QED BY <1>2 DEF TagsOf, FilesInv, LoadsOnce, Tagged

(* A step that leaves the tags of all other paths as they are.              *)
LEMMA TagStep ==
  ASSUME FilesInv, NEW r \in Callers, NEW s \in {"done", "stamp"}, NEW c \in FileCalls \cup {NoCall}, Step(r, s, c),
         s = "done" <=> c = NoCall, Busy(r), c # NoCall => PathsOf(c) = PathsOf(call[r]), CallShape(r)',
         UNCHANGED <<fileVars, disturbed>>, tagsLoaded' = TRUE, tagsUnsaved' \in BOOLEAN,
         tags' \subseteq Paths, stored' \subseteq Paths, bare' \subseteq Paths,
         \A p \in Paths \ disturbed : \A q \in Callers \ {r} : stage[q] # "load",
         \A p \in Paths \ PathsOf(call[r]) : p \in bare' <=> p \in bare,
         \A p \in Paths \ (disturbed \cup PathsOf(call[r])) : p \in tags' <=> p \in Tagged,
         ~tagsUnsaved' =>
           \A p \in Paths \ disturbed : (p \in tags' <=> p \in stored') \/ Moving(p)',
         \A p \in PathsOf(call[r]) \ disturbed : IF s = "done" THEN Base(p)' ELSE CallStands(r, p)'
  PROVE  FilesInv'
<1>1. s \in FileStages /\ (s \in {"new", "done"} <=> c = NoCall)
  BY DEF FileStages
<1>2. /\ stage' \in [Callers -> FileStages] /\ call' \in [Callers -> FileCalls \cup {NoCall}]
      /\ \A q \in Callers : Busy(q)' <=> call'[q] # NoCall
      /\ stage'[r] = s /\ call'[r] = c
      /\ \A q \in Callers \ {r} : stage'[q] = stage[q] /\ call'[q] = call[q] /\ (Busy(q)' <=> Busy(q))
  BY <1>1, OneSteps DEF FilesInv
<1>3. FilesTypeOK'
  BY <1>2 DEF FilesInv, FilesTypeOK, fileVars
<1>4. AllShapes' /\ OneOwner'
  BY <1>1, ShapesKept, OwnersKept DEF FilesInv, fileVars
<1>5. LoadsOnce'
  <2>1. disturbed \subseteq Paths
    BY DEF FilesInv, FilesTypeOK
  <2>2. disturbed # Paths => \A q \in Callers : stage'[q] # "load"
    BY <1>2, <2>1
  <2> QED BY <2>2 DEF LoadsOnce
<1>6. Saved'
  BY DEF Saved
<1>7. \A p \in Paths : (Owns(r, p) <=> p \in PathsOf(call[r])) /\ (Owns(r, p)' <=> p \in PathsOf(call[r]) /\ s # "done")
  BY <1>2 DEF Owns, Busy
<1>8. TagsInStep'
  <2>1. \A p \in Paths \ (disturbed \cup PathsOf(call[r])) :
          (p \in Tagged' <=> p \in Tagged) /\ (InStorage(p)' <=> InStorage(p)) /\ (p \in bare' <=> p \in bare)
    BY DEF Tagged, InStorage, fileVars
  <2> QED BY <1>1, <1>7, <2>1, TagsKept DEF FilesInv
<1>9. Copies'
  <2>1. Copied(r)'
    BY <1>2 DEF Copied, Busy
  <2> QED BY <1>1, <1>7, <2>1, CopiesKept DEF FilesInv, fileVars
<1> QED BY <1>3, <1>4, <1>5, <1>6, <1>8, <1>9 DEF FilesInv

(* Whether memory and settings agree after a step about the tags.           *)
LEMMA SavedAfter ==
  ASSUME FilesInv, NEW r \in Callers, NEW t, TagsOf(r, t), ~tagsUnsaved', NEW p \in Paths \ disturbed,
         \A q \in Callers \ {r} : stage'[q] = stage[q] /\ call'[q] = call[q],
         \/ \E u : SaveTags(u)
         \/ UNCHANGED <<stored, tagsUnsaved>> /\ ((p \in tags' <=> p \in t) \/ Moving(p)')
  PROVE  (p \in tags' <=> p \in stored') \/ Moving(p)'
<1>1. CASE \E u : SaveTags(u)
  BY <1>1 DEF SaveTags
<1>2. CASE UNCHANGED <<stored, tagsUnsaved>> /\ (p \in tags' <=> p \in t)
  <2>1. Moving(p) => Moving(p)'
    BY DEF Moving, TagsOf, Callers
  <2>2. (p \in Tagged <=> p \in stored) \/ Moving(p)
    BY <1>2 DEF FilesInv, Saved, Tagged
  <2> QED BY <1>2, <2>1, <2>2 DEF TagsOf
<1> QED BY <1>1, <1>2

LEMMA WithTagsStep ==
  ASSUME FilesInv, NEW r \in Callers, NEW t, TagsOf(r, t), WithTags(r, t),
         UNCHANGED <<fileVars, disturbed>>, tagsLoaded' = TRUE
  PROVE  FilesInv'
<1> DEFINE c == call[r]
<1>1. /\ Busy(r) /\ c \in FileCalls /\ CallShape(r) /\ PathsOf(c) \subseteq Paths /\ stage[r] \in {"tag", "load"}
      /\ t \subseteq Paths /\ bare \subseteq Paths /\ stored \subseteq Paths /\ c.paths \subseteq Paths
      /\ tagsUnsaved \in BOOLEAN /\ c.path \in Paths /\ c.to \in Paths
  <2>1. Busy(r) /\ c \in FileCalls
    BY CallTyped DEF TagsOf, Busy, FilesInv
  <2> QED BY <2>1, PathsTyped DEF TagsOf, FilesInv, AllShapes, FilesTypeOK, FileCalls
<1>2. \A p \in PathsOf(c) \ disturbed : CallStands(r, p)
  BY <1>1 DEF FilesInv, TagsInStep, Owns
<1>3. \A p : InStorage(p)' <=> InStorage(p)
  BY DEF InStorage, fileVars
<1>4. \A p : p \in Tagged' <=> p \in tags'
  BY DEF Tagged
<1>5. ASSUME Return(r), NEW u \in SUBSET Paths, SaveTags(u) \/ (tags' = u /\ u = t /\ UNCHANGED <<stored, tagsUnsaved>>),
             bare' \subseteq Paths, \A p \in Paths \ PathsOf(c) : (p \in bare' <=> p \in bare) /\ (p \in u <=> p \in t),
             \A p \in PathsOf(c) \ disturbed : p \notin bare' => (p \in u <=> InStorage(p))
      PROVE  FilesInv'
  <2>1. Step(r, "done", NoCall) /\ stage'[r] = "done" /\ ~Busy(r)'
    BY <1>5 DEF Return, Await, Step, FilesInv, FilesTypeOK, Busy
  <2>2. \A q \in Callers \ {r} : stage'[q] = stage[q] /\ call'[q] = call[q]
    BY <2>1 DEF Step, FilesInv, FilesTypeOK
  <2>3. tags' = u /\ stored' \subseteq Paths /\ tagsUnsaved' \in BOOLEAN
    BY <1>1, <1>5 DEF SaveTags
  <2>4. CallShape(r)'
    BY <2>1 DEF CallShape
  <2>5. ~tagsUnsaved' => \A p \in Paths \ disturbed : (p \in tags' <=> p \in stored') \/ Moving(p)'
    <3> SUFFICES ASSUME ~tagsUnsaved', NEW p \in Paths \ disturbed PROVE (p \in tags' <=> p \in stored') \/ Moving(p)'
      OBVIOUS
    <3>1. (\E v : SaveTags(v)) \/ (UNCHANGED <<stored, tagsUnsaved>> /\ (p \in tags' <=> p \in t))
      BY <1>5
    <3> QED BY <2>2, <3>1, SavedAfter
  <2>6. \A p \in Paths \ (disturbed \cup PathsOf(c)) : p \in tags' <=> p \in Tagged
    BY <1>5, <2>3 DEF TagsOf
  <2>7. \A p \in PathsOf(c) \ disturbed : Base(p)'
    BY <1>3, <1>4, <1>5, <2>3 DEF Base
  <2> QED BY <1>1, <1>5, <2>1, <2>3, <2>4, <2>5, <2>6, <2>7, TagStep DEF TagsOf
<1>6. CASE c.op = "list"
  <2> DEFINE u == t \cap c.paths
  <2>1. PathsOf(c) = Paths /\ Return(r) /\ UNCHANGED bare
    BY <1>6 DEF PathsOf, WithTags
  <2>2. SaveTags(u) \/ (tags' = u /\ u = t /\ UNCHANGED <<stored, tagsUnsaved>>)
    BY <1>6 DEF WithTags
  <2>3. \A p \in PathsOf(c) \ disturbed : p \notin bare' => (p \in u <=> InStorage(p))
    BY <1>1, <1>2, <1>6, <2>1 DEF CallStands, AtTag, Base, TagsOf
  <2> QED BY <1>1, <1>5, <2>1, <2>2, <2>3
<1>7. CASE c.op = "delete"
  <2> DEFINE u == t \ {c.path}
  <2>1. PathsOf(c) = {c.path} /\ Return(r) /\ bare' = bare \ {c.path}
    BY <1>1, <1>7 DEF PathsOf, WithTags, CallShape
  <2>2. SaveTags(u) \/ (tags' = u /\ u = t /\ UNCHANGED <<stored, tagsUnsaved>>)
    BY <1>7 DEF WithTags
  <2>3. \A p \in PathsOf(c) \ disturbed : p \notin bare' => (p \in u <=> InStorage(p))
    BY <1>1, <1>2, <1>7, <2>1 DEF CallStands, AtTag
  <2> QED BY <1>1, <1>5, <2>1, <2>2, <2>3
<1>8. CASE c.op = "clean"
  <2> DEFINE u == t \ c.paths
  <2>1. /\ PathsOf(c) = c.paths /\ Return(r) /\ r \in Places
        /\ bare' = IF r = "native" THEN bare \cup c.paths ELSE bare \ c.paths
    BY <1>1, <1>8 DEF PathsOf, WithTags, CallShape
  <2>2. SaveTags(u) \/ (tags' = u /\ u = t /\ UNCHANGED <<stored, tagsUnsaved>>)
    BY <1>8 DEF WithTags
  <2>3. \A p \in PathsOf(c) \ disturbed : p \notin bare' => (p \in u <=> InStorage(p))
    BY <1>1, <1>2, <1>8, <2>1 DEF CallStands, Places
  <2> QED BY <1>1, <1>5, <2>1, <2>2, <2>3
<1>9. ASSUME NEW d \in FileCalls, Step(r, "stamp", d), d.op = c.op, d.path = c.path, d.to = c.to,
             c.op \in {"write", "import", "rename"}, UNCHANGED <<stored, tagsUnsaved>>,
             tags' = t \/ (c.op = "rename" /\ tags' = t \ {c.path}),
             bare' = bare \/ (c.op = "rename" /\ bare' = bare \ ({c.path} \ {c.to})),
             c.op = "rename" => c.path \notin tags'
      PROVE  FilesInv'
  <2>1. /\ stage'[r] = "stamp" /\ call'[r] = d /\ d # NoCall /\ PathsOf(c) = {c.path, c.to} /\ PathsOf(d) = PathsOf(c)
        /\ \A q \in Callers \ {r} : stage'[q] = stage[q] /\ call'[q] = call[q]
    BY <1>9, NoCallAssumption DEF Step, FilesInv, FilesTypeOK, PathsOf
  <2>2. r \in Requests
    BY <1>1, <1>9 DEF CallShape, Callers
  <2>3. CallShape(r)'
    BY <1>1, <1>9, <2>1, <2>2, FilesAssumption DEF CallShape, Places
  <2>4. tags' \subseteq Paths /\ bare' \subseteq Paths
    BY <1>1, <1>9
  <2>5. c.op = "rename" => Moving(c.path)'
    BY <1>9, <2>1, <2>2 DEF Moving
  <2>6. ~tagsUnsaved' => \A p \in Paths \ disturbed : (p \in tags' <=> p \in stored') \/ Moving(p)'
    <3> SUFFICES ASSUME ~tagsUnsaved', NEW p \in Paths \ disturbed PROVE (p \in tags' <=> p \in stored') \/ Moving(p)'
      OBVIOUS
    <3>1. (p \in tags' <=> p \in t) \/ (c.op = "rename" /\ p = c.path)
      BY <1>9
    <3>2. CASE p \in tags' <=> p \in t
      BY <1>9, <2>1, <3>2, SavedAfter
    <3>3. CASE c.op = "rename" /\ p = c.path
      <4>1. \E q \in Requests : stage'[q] = "stamp" /\ call'[q].op = "rename" /\ call'[q].path = p
        BY <1>9, <2>1, <2>2, <3>3
      <4> QED BY <4>1 DEF Moving
    <3> QED BY <3>1, <3>2, <3>3
  <2>7. \A p \in PathsOf(c) \ disturbed : CallStands(r, p)'
    <3> SUFFICES ASSUME NEW p \in PathsOf(c) \ disturbed PROVE CallStands(r, p)'
      OBVIOUS
    <3>1. CASE c.op # "rename"
      BY <1>1, <1>2, <1>3, <1>9, <2>1, <3>1 DEF CallStands, AtTag, AtTags
    <3>2. CASE c.op = "rename" /\ (c.path = c.to \/ p = c.to)
      BY <1>1, <1>2, <1>3, <1>9, <2>1, <3>2 DEF CallStands, AtTag, AtTags
    <3>3. CASE c.op = "rename" /\ c.path # c.to /\ p # c.to
      BY <1>1, <1>2, <1>3, <1>4, <1>9, <2>1, <3>3 DEF CallStands, AtTag, AtTags, Base
    <3> QED BY <3>1, <3>2, <3>3
  <2>8. \A p \in Paths \ (disturbed \cup PathsOf(c)) : p \in tags' <=> p \in Tagged
    BY <1>9, <2>1 DEF TagsOf
  <2>9. \A p \in Paths \ PathsOf(c) : p \in bare' <=> p \in bare
    BY <1>9, <2>1
  <2> QED BY <1>1, <1>9, <2>1, <2>3, <2>4, <2>6, <2>7, <2>8, <2>9, TagStep DEF TagsOf
<1>10. CASE c.op = "rename"
  <2> DEFINE d == [c EXCEPT !.paths = t \cap {c.path}]
  <2>1. d \in FileCalls /\ d.op = c.op /\ d.path = c.path /\ d.to = c.to
    BY <1>1 DEF FileCalls
  <2>2. Step(r, "stamp", d)
    BY <1>10 DEF WithTags, Await, Note, Step
  <2> HIDE DEF d
  <2>3. /\ tags' = t \ {c.path} /\ bare' = bare \ ({c.path} \ {c.to}) /\ UNCHANGED <<stored, tagsUnsaved>>
    BY <1>10 DEF WithTags
  <2> QED BY <1>9, <1>10, <2>1, <2>2, <2>3
<1>11. CASE c.op \in {"write", "import"}
  <2>1. tags' = t /\ Await(r, "stamp") /\ UNCHANGED <<call, bare, stored, tagsUnsaved>>
    BY <1>11 DEF WithTags
  <2>2. Step(r, "stamp", c)
    BY <1>1, <2>1 DEF Await, Step, FilesInv, FilesTypeOK
  <2> QED BY <1>1, <1>9, <1>11, <2>1, <2>2
<1>12. c.op \in FileOps \cup {"clean"}
  BY <1>1 DEF FileCalls
<1> QED BY <1>6, <1>7, <1>8, <1>10, <1>11, <1>12 DEF FileOps

LEMMA StampStep == ASSUME FilesInv, NEW r \in Requests, Stamp(r) PROVE FilesInv'
<1> DEFINE c == call[r]
<1>1. r \in Callers /\ Busy(r) /\ stage[r] = "stamp" /\ Return(r) /\ UNCHANGED <<fileVars, tagsLoaded, disturbed>>
  BY DEF Stamp, Callers, Busy
<1>2. /\ c \in FileCalls /\ CallShape(r) /\ c.path \in Paths /\ c.to \in Paths /\ tagsLoaded = TRUE
      /\ tags \subseteq Paths /\ stored \subseteq Paths /\ bare \subseteq Paths /\ tagsUnsaved \in BOOLEAN
  <2>1. c \in FileCalls
    BY <1>1, CallTyped DEF FilesInv
  <2> QED BY <1>1, <2>1 DEF FilesInv, AllShapes, FilesTypeOK, FileCalls, LoadsOnce
<1>3. c.op \in {"write", "import", "rename"} /\ PathsOf(c) = {c.path, c.to} /\ (c.op # "rename" => c.path = c.to)
  BY <1>1, <1>2 DEF CallShape, PathsOf
<1>4. \A p \in PathsOf(c) \ disturbed : CallStands(r, p)
  BY <1>1, <1>2, <1>3 DEF FilesInv, TagsInStep, Owns
<1>5. Step(r, "done", NoCall) /\ stage'[r] = "done" /\ ~Busy(r)'
  BY <1>1 DEF Return, Await, Step, FilesInv, FilesTypeOK, Busy
<1>6. \A q \in Callers \ {r} : stage'[q] = stage[q] /\ call'[q] = call[q]
  BY <1>5 DEF Step, FilesInv, FilesTypeOK
<1>7. CallShape(r)'
  BY <1>5 DEF CallShape
<1>8. PICK known \in BOOLEAN :
        IF known \/ c.paths # {}
        THEN SaveTags(tags \cup {c.to}) /\ bare' = IF c.path = c.to /\ c.op = "rename" THEN bare ELSE bare \ {c.to}
        ELSE /\ bare' = bare \cup {c.to}
             /\ IF c.op = "rename" THEN SaveTags(tags) ELSE UNCHANGED <<tags, stored, tagsUnsaved>>
  BY DEF Stamp
<1>9. /\ tags' \in {tags, tags \cup {c.to}} /\ tags' \subseteq Paths /\ stored' \subseteq Paths /\ bare' \subseteq Paths
      /\ tagsUnsaved' \in BOOLEAN
  BY <1>2, <1>8 DEF SaveTags
<1>10. \A p : (InStorage(p)' <=> InStorage(p)) /\ (p \in Tagged' <=> p \in tags') /\ (p \in Tagged <=> p \in tags)
  BY <1>1, <1>2 DEF InStorage, Tagged, fileVars
<1>11. \A p \in PathsOf(c) \ disturbed : Base(p)'
  <2>1. CASE bare' = bare \cup {c.to}
    BY <1>1, <1>3, <1>4, <1>9, <1>10, <2>1 DEF Base, CallStands, AtTag, AtTags
  <2>2. CASE tags' = tags \cup {c.to} /\ bare' = IF c.path = c.to /\ c.op = "rename" THEN bare ELSE bare \ {c.to}
    BY <1>1, <1>3, <1>4, <1>10, <2>2 DEF Base, CallStands, AtTag, AtTags
  <2> QED BY <1>8, <2>1, <2>2 DEF SaveTags
<1>12. ~tagsUnsaved' => \A p \in Paths \ disturbed : (p \in tags' <=> p \in stored') \/ Moving(p)'
  <2>1. CASE \E u : SaveTags(u)
    BY <2>1 DEF SaveTags
  <2>2. CASE c.op # "rename" /\ UNCHANGED <<tags, stored, tagsUnsaved>>
    <3>1. \A p : Moving(p) => Moving(p)'
      BY <1>1, <1>6, <2>2 DEF Moving, Callers
    <3> QED BY <1>2, <2>2, <3>1 DEF FilesInv, Saved
  <2> QED BY <1>8, <2>1, <2>2
<1>13. \A p \in Paths \ PathsOf(c) : (p \in bare' <=> p \in bare) /\ (p \in tags' <=> p \in Tagged)
  BY <1>3, <1>8, <1>9, <1>10
<1>14. \A p \in Paths \ disturbed : \A q \in Callers : stage[q] # "load"
  BY <1>2 DEF FilesInv, LoadsOnce
<1> QED BY <1>1, <1>2, <1>5, <1>7, <1>9, <1>11, <1>12, <1>13, <1>14, TagStep

LEMMA LoadStep ==
  ASSUME FilesInv, NEW r \in Callers, stage[r] = "tag", ~tagsLoaded, Note(r, "read", stored), Await(r, "load"),
         disturbed' = IF \E q \in Callers : stage[q] = "load" THEN Paths ELSE disturbed,
         UNCHANGED <<fileVars, tagVars, bare>>
  PROVE  FilesInv'
<1> DEFINE c == call[r]
           d == [c EXCEPT !.read = stored]
<1>1. Busy(r) /\ c \in FileCalls /\ CallShape(r)
  BY CallTyped DEF Busy, FilesInv, AllShapes
<1>2. /\ d \in FileCalls /\ d.op = c.op /\ d.path = c.path /\ d.to = c.to /\ d.paths = c.paths /\ d.read = stored
      /\ d.target = c.target
  BY <1>1 DEF FileCalls, FilesInv, FilesTypeOK
<1>3. Step(r, "load", d)
  BY DEF Await, Note, Step
<1> HIDE DEF d
<1>4. PathsOf(d) = PathsOf(c) /\ d # NoCall /\ "load" \in FileStages
  BY <1>1, <1>2, NoCallAssumption DEF PathsOf, FileStages
<1>5. disturbed \subseteq disturbed' /\ disturbed' \subseteq Paths
  BY DEF FilesInv, FilesTypeOK
<1>6. /\ stage' \in [Callers -> FileStages] /\ call' \in [Callers -> FileCalls \cup {NoCall}]
      /\ \A q \in Callers : Busy(q)' <=> call'[q] # NoCall
      /\ stage'[r] = "load" /\ call'[r] = d
      /\ \A q \in Callers \ {r} : stage'[q] = stage[q] /\ call'[q] = call[q] /\ (Busy(q)' <=> Busy(q))
  BY <1>2, <1>3, <1>4, OneSteps DEF FilesInv
<1>7. FilesTypeOK'
  BY <1>5, <1>6 DEF FilesInv, FilesTypeOK, fileVars, tagVars
<1>8. CallShape(r)'
  BY <1>1, <1>2, <1>6 DEF CallShape, AtTag, fileVars
<1>9. AllShapes' /\ OneOwner'
  BY <1>1, <1>2, <1>3, <1>4, <1>5, <1>8, ShapesKept, OwnersKept DEF FilesInv, fileVars
<1>10. LoadsOnce'
  BY <1>2, <1>6 DEF FilesInv, LoadsOnce, tagVars
<1>11. Saved'
  BY DEF FilesInv, Saved, tagVars
<1>12. \A p \in Paths : Owns(r, p)' <=> Owns(r, p)
  BY <1>1, <1>4, <1>6 DEF Owns, Busy
<1>13. \A p : (p \in Tagged' <=> p \in Tagged) /\ (InStorage(p)' <=> InStorage(p)) /\ (Base(p)' <=> Base(p))
  BY DEF Tagged, InStorage, Base, fileVars, tagVars
<1>14. TagsInStep'
  <2>1. ASSUME NEW p \in Paths \ disturbed', Owns(r, p) PROVE CallStands(r, p)'
    <3>1. CallStands(r, p)
      BY <1>5, <2>1 DEF FilesInv, TagsInStep
    <3> QED BY <1>2, <1>6, <1>13, <3>1 DEF CallStands, AtTag, AtTags
  <2>2. \A p \in Paths : ~Owns(r, p)' => (p \in bare' <=> p \in bare)
    OBVIOUS
  <2> QED BY <1>2, <1>3, <1>4, <1>5, <1>12, <1>13, <2>1, TagsKept DEF FilesInv
<1>15. Copies'
  <2>1. Copied(r)'
    BY <1>6 DEF Copied
  <2> QED BY <1>2, <1>3, <1>4, <1>5, <1>12, <2>1, CopiesKept DEF FilesInv, fileVars
<1> QED BY <1>7, <1>9, <1>10, <1>11, <1>14, <1>15 DEF FilesInv

LEMMA TagsStep == ASSUME FilesInv, NEW r \in Callers, Tags(r) \/ TagsLoaded(r) PROVE FilesInv'
<1>1. CASE Tags(r) /\ tagsLoaded
  <2>1. stage[r] = "tag" /\ WithTags(r, tags) /\ UNCHANGED <<tagsLoaded, fileVars, disturbed>> /\ tagsLoaded = TRUE
    BY <1>1 DEF Tags, FilesInv, FilesTypeOK
  <2> QED BY <2>1, TagsAtHand, WithTagsStep
<1>2. CASE Tags(r) /\ ~tagsLoaded
  BY <1>2, LoadStep DEF Tags
<1>3. CASE TagsLoaded(r)
  BY <1>3, TagsAtHand, WithTagsStep DEF TagsLoaded
<1> QED BY <1>1, <1>2, <1>3

-----------------------------------------------------------------------------
(* A call or a clean-up begins. *)

LEMMA EnterStep ==
  ASSUME FilesInv, NEW r \in Callers, ~Busy(r), NEW s \in FileStages \ {"new", "done", "load", "stamp"}, NEW c \in FileCalls,
         Step(r, s, c), DisturbedBy(r, c), UNCHANGED <<connected, tagVars, bare>>,
         cleaned \subseteq cleaned', cleaned' \subseteq Places, files' \in [Places -> [Paths -> Contents]],
         \A p \in Paths \ PathsOf(c) : \A l \in Places : files'[l][p] = files[l][p],
         CallShape(r)', r \in Requests => Copied(r)',
         \A p \in PathsOf(c) : Base(p) => CallStands(r, p)'
  PROVE  FilesInv'
<1>1. c # NoCall /\ PathsOf(c) \subseteq Paths
  BY NoCallAssumption, PathsTyped
<1>2. /\ stage' \in [Callers -> FileStages] /\ call' \in [Callers -> FileCalls \cup {NoCall}]
      /\ \A q \in Callers : Busy(q)' <=> call'[q] # NoCall
      /\ stage'[r] = s /\ call'[r] = c
      /\ \A q \in Callers \ {r} : stage'[q] = stage[q] /\ call'[q] = call[q] /\ (Busy(q)' <=> Busy(q))
  BY <1>1, OneSteps DEF FilesInv
<1>3. disturbed' = disturbed \cup UNION {PathsOf(c) \cap PathsOf(call[q]) : q \in {q \in Callers \ {r} : Busy(q)}}
  BY DEF DisturbedBy
<1>4. disturbed \subseteq disturbed' /\ disturbed' \subseteq Paths
  BY <1>1, <1>3 DEF FilesInv, FilesTypeOK
<1>5. \A q \in Callers \ {r} : Busy(q) => PathsOf(c) \cap PathsOf(call[q]) \subseteq disturbed'
  BY <1>3
<1>6. FilesTypeOK'
  BY <1>2, <1>4 DEF FilesInv, FilesTypeOK, tagVars
<1>7. AllShapes'
  BY <1>1, ShapesKept DEF FilesInv
<1>8. OneOwner'
  BY <1>2, <1>4, <1>5 DEF FilesInv, OneOwner
<1>9. LoadsOnce'
  <2>1. disturbed' # Paths => disturbed # Paths
    BY <1>4
  <2> QED BY <1>2, <2>1 DEF FilesInv, LoadsOnce, tagVars
<1>10. Saved'
  <2>1. stage[r] # "stamp"
    BY DEF Busy
  <2>2. ASSUME NEW p, Moving(p) PROVE Moving(p)'
    BY <1>2, <2>1, <2>2 DEF Moving, Callers
  <2> QED BY <1>4, <2>2 DEF FilesInv, Saved, tagVars
<1>11. \A p \in Paths : ~Owns(r, p) /\ (Owns(r, p)' <=> p \in PathsOf(c))
  BY <1>2 DEF Owns, Busy
<1>12. \A p \in Paths \ disturbed' : p \in PathsOf(c) => \A q \in Callers : ~Owns(q, p)
  BY <1>5, <1>11 DEF Owns
<1>13. TagsInStep'
  <2>1. \A p \in Paths \ disturbed' : p \in PathsOf(c) => CallStands(r, p)'
    BY <1>4, <1>12 DEF FilesInv, TagsInStep
  <2>2. \A p \in Paths \ PathsOf(c) : (p \in Tagged' <=> p \in Tagged) /\ (InStorage(p)' <=> InStorage(p))
    BY DEF Tagged, InStorage, Places, tagVars
  <2> QED BY <1>1, <1>4, <1>11, <1>12, <2>1, <2>2, TagsKept DEF FilesInv
<1>14. Copies'
  BY <1>1, <1>4, <1>11, <1>12, CopiesKept DEF FilesInv
<1> QED BY <1>6, <1>7, <1>8, <1>9, <1>10, <1>13, <1>14 DEF FilesInv

LEMMA BeginStep == ASSUME FilesInv, NEW r \in Requests, Begin(r) PROVE FilesInv'
<1>1. r \in Callers /\ ~Busy(r) /\ r \notin Places
  BY FilesAssumption DEF Begin, Callers, Busy, Places
<1>2. PICK op \in FileOps, place \in Places \cup {"any"}, path \in Paths, to \in Paths :
        /\ op # "rename" => to = path
        /\ call' = [call EXCEPT ![r] = Call(op, place, path, to)]
        /\ DisturbedBy(r, Call(op, place, path, to))
  BY DEF Begin
<1> DEFINE c == Call(op, place, path, to)
<1>3. /\ c \in FileCalls /\ c.op = op /\ c.path = path /\ c.to = to /\ c.folder = FALSE
  BY DEF Call, FileCalls, Places, Contents
<1>4. /\ Step(r, "resolve", c) /\ DisturbedBy(r, c) /\ UNCHANGED <<fileVars, tagVars, bare>>
  BY <1>2 DEF Begin, Await, Step
<1> HIDE DEF c
<1>5. stage'[r] = "resolve" /\ call'[r] = c
  BY <1>1, <1>4 DEF Step, FilesInv, FilesTypeOK
<1>6. CallShape(r)' /\ Copied(r)'
  BY <1>1, <1>2, <1>3, <1>5 DEF CallShape, Copied, FileOps
<1>7. \A p \in PathsOf(c) : Base(p) => CallStands(r, p)'
  <2>1. \A p : Base(p)' <=> Base(p)
    BY <1>4 DEF Base, Tagged, InStorage, fileVars, tagVars
  <2> QED BY <1>3, <1>5, <2>1 DEF CallStands, AtTag, AtTags, FileOps
<1>8. /\ files' \in [Places -> [Paths -> Contents]] /\ UNCHANGED <<files, connected, cleaned>> /\ cleaned' \subseteq Places
      /\ "resolve" \in FileStages
  BY <1>4 DEF fileVars, FilesInv, FilesTypeOK, FileStages
<1> QED BY <1>1, <1>3, <1>4, <1>6, <1>7, <1>8, EnterStep

(* A backend that comes, goes or is found clean.                            *)
LEMMA BackendStep ==
  ASSUME FilesInv, UNCHANGED <<files, tagVars, workVars, disturbed, bare>>,
         cleaned \subseteq cleaned', cleaned' \subseteq Places, connected' \in BOOLEAN
  PROVE  FilesInv'
<1>1. FilesTypeOK' /\ OneOwner' /\ LoadsOnce' /\ Saved'
  BY DEF FilesInv, FilesTypeOK, OneOwner, LoadsOnce, Saved, Moving, Busy, tagVars, workVars
<1>2. AllShapes'
  BY DEF FilesInv, AllShapes, CallShape, AtTag, Busy, workVars
<1>3. TagsInStep'
  BY DEF FilesInv, TagsInStep, Owns, CallStands, Base, Tagged, InStorage, AtTag, AtTags, Busy, tagVars, workVars
<1>4. Copies'
  BY DEF FilesInv, Copies, Copied, InStorage, Busy, workVars
<1> QED BY <1>1, <1>2, <1>3, <1>4 DEF FilesInv

LEMMA CleanStep == ASSUME FilesInv, NEW l \in Places, Clean(l) PROVE FilesInv'
<1>1. /\ l \notin cleaned /\ cleaned' = cleaned \cup {l} /\ cleaned' \subseteq Places /\ l \in Callers
      /\ UNCHANGED <<connected, tagVars, bare>> /\ connected' \in BOOLEAN
  BY DEF Clean, FilesInv, FilesTypeOK, Callers
<1>2. PICK S \in SUBSET {p \in Scratch : files[l][p] = Expired} :
        IF S = {} THEN UNCHANGED <<files, workVars, disturbed>>
        ELSE LET c == [Call("clean", l, CHOOSE p \in S : TRUE, CHOOSE p \in S : TRUE) EXCEPT !.paths = S] IN
             /\ files' = [files EXCEPT ![l] = [p \in Paths |-> IF p \in S THEN NoFile ELSE @[p]]]
             /\ call' = [call EXCEPT ![l] = c] /\ Await(l, "tag")
             /\ DisturbedBy(l, c)
  BY DEF Clean
<1>3. CASE S = {}
  BY <1>1, <1>2, <1>3, BackendStep
<1>4. CASE S # {}
  <2> DEFINE x == CHOOSE p \in S : TRUE
             c == [Call("clean", l, x, x) EXCEPT !.paths = S]
  <2>1. x \in S /\ S \subseteq Paths
    BY <1>4, FilesAssumption
  <2> HIDE DEF x
  <2>2. c \in FileCalls /\ c.op = "clean" /\ c.paths = S /\ c.folder = FALSE
    BY <2>1 DEF Call, FileCalls, Places, Contents
  <2>3. /\ files' = [files EXCEPT ![l] = [p \in Paths |-> IF p \in S THEN NoFile ELSE files[l][p]]]
        /\ Step(l, "tag", c) /\ DisturbedBy(l, c)
    BY <1>2, <1>4 DEF Await, Step, x
  <2> HIDE DEF c
  <2>4. PathsOf(c) = S
    BY <2>2 DEF PathsOf
  <2>5. ~Busy(l)
    BY <1>1 DEF FilesInv, AllShapes, CallShape
  <2>6. stage'[l] = "tag" /\ call'[l] = c
    BY <1>1, <2>3 DEF Step, FilesInv, FilesTypeOK
  <2>7. CallShape(l)'
    BY <1>1, <2>2, <2>6 DEF CallShape, AtTag
  <2>8. /\ files' \in [Places -> [Paths -> Contents]]
        /\ \A p \in Paths \ S : \A k \in Places : files'[k][p] = files[k][p]
        /\ \A p \in S : files'[l][p] = NoFile
    BY <2>1, <2>3 DEF FilesInv, FilesTypeOK, Contents
  <2>9. l \notin Requests /\ "tag" \in FileStages
    BY FilesAssumption DEF Places, FileStages
  <2>10. \A p \in PathsOf(c) : Base(p) => CallStands(l, p)'
    BY <2>2, <2>4, <2>6, <2>8 DEF CallStands, InStorage
  <2> QED BY <1>1, <2>2, <2>3, <2>4, <2>5, <2>7, <2>8, <2>9, <2>10, EnterStep
<1> QED BY <1>3, <1>4

-----------------------------------------------------------------------------
(* The theorems. *)

LEMMA FilesInitial == FilesInit => FilesInv
<1> SUFFICES ASSUME FilesInit PROVE FilesInv
  OBVIOUS
<1>1. \A r \in Callers : stage[r] = "new" /\ ~Busy(r)
  BY DEF FilesInit, Busy
<1>2. stored \subseteq Paths /\ tags \subseteq Paths
  BY DEF FilesInit
<1>3. FilesTypeOK
  <2>1. files \in [Places -> [Paths -> Contents]]
    BY DEF FilesInit, Contents
  <2>2. call \in [Callers -> FileCalls \cup {NoCall}] /\ stage \in [Callers -> FileStages]
    BY DEF FilesInit, FileStages
  <2>3. \A r \in Callers : Busy(r) <=> call[r] # NoCall
    BY <1>1 DEF FilesInit
  <2> QED BY <1>2, <2>1, <2>2, <2>3 DEF FilesInit, FilesTypeOK
<1>4. AllShapes /\ OneOwner /\ Copies
  BY <1>1 DEF AllShapes, CallShape, OneOwner, Copies, Copied, Callers
<1>5. LoadsOnce /\ Saved
  BY <1>1 DEF LoadsOnce, Saved, FilesInit
<1>6. TagsInStep
  <2>1. \A p \in Paths : p \in Tagged <=> InStorage(p)
    BY DEF FilesInit, Tagged, InStorage
  <2> QED BY <1>1, <2>1 DEF TagsInStep, Owns, Base
<1> QED BY <1>3, <1>4, <1>5, <1>6 DEF FilesInv

LEMMA FilesStep == FilesInv /\ [FilesNext]_filesVars => FilesInv'
<1> SUFFICES ASSUME FilesInv, [FilesNext]_filesVars PROVE FilesInv'
  OBVIOUS
<1>1. ASSUME NEW r \in Requests,
             \/ Begin(r) \/ Resolve(r) \/ Probe(r) \/ ProbeNative(r) \/ ActFails(r)
             \/ WriteFile(r) \/ DeleteFile(r) \/ RenameReads(r) \/ RenameCopies(r) \/ RenameRemoves(r)
             \/ Stamp(r)
      PROVE  FilesInv'
  BY <1>1, BeginStep, ResolveStep, ProbeStep, ActFailsStep, WriteStep, DeleteStep,
     RenameReadsStep, RenameCopiesStep, RenameRemovesStep, StampStep
<1>2. ASSUME NEW r \in Callers, Tags(r) \/ TagsLoaded(r) \/ TagsFail(r) PROVE FilesInv'
  BY <1>2, TagsStep, TagsFailStep
<1>3. CASE Connect \/ Disconnect \/ UNCHANGED filesVars
  <2>1. connected \in BOOLEAN /\ cleaned \subseteq Places
    BY DEF FilesInv, FilesTypeOK
  <2> QED BY <1>3, <2>1, BackendStep DEF Connect, Disconnect, filesVars, fileVars
<1>4. ASSUME NEW l \in Places, Clean(l) PROVE FilesInv'
  BY <1>4, CleanStep
<1> QED BY <1>1, <1>2, <1>3, <1>4 DEF FilesNext

LEMMA FilesAlways == FilesSpec => []FilesInv
  BY FilesInitial, FilesStep, PTL DEF FilesSpec

(* Every variable of the files workspace keeps its type.                    *)
THEOREM FilesTypesHold == FilesSpec => []FilesTypeOK
<1>1. FilesInv => FilesTypeOK
  BY DEF FilesInv
<1> QED BY <1>1, FilesAlways, PTL

(* Between calls the tags of memory, those of the settings and the files of *)
(* the storage agree, for every path no two calls were about at one time    *)
(* and whose last call came to the tag: whatever awaits of list, write,     *)
(* import, delete, rename and the clean-up came between.                    *)
THEOREM TagsFollowHolds == FilesSpec => []TagsFollowFiles
<1>1. FilesInv => TagsFollowFiles
  <2> SUFFICES ASSUME FilesInv, tagsLoaded, \A r \in Callers : ~Busy(r), NEW p \in Paths \ disturbed
               PROVE  /\ ~tagsUnsaved => (p \in tags <=> p \in stored)
                      /\ p \notin bare => (p \in tags <=> files["workspace"][p] # NoFile)
    BY DEF TagsFollowFiles
  <2>1. ~Moving(p)
    BY DEF Moving, Callers, Busy
  <2>2. Base(p)
    BY DEF FilesInv, TagsInStep, Owns
  <2> QED BY <2>1, <2>2 DEF FilesInv, Saved, Base, Tagged, InStorage
<1> QED BY <1>1, FilesAlways, PTL

(* A step that takes a request on from where it deletes or acts, and that   *)
(* changes the files, is a step of its own backend call.                    *)
LEMMA OwnFileStep ==
  ASSUME FilesInv, FilesNext, NEW r \in Requests, stage[r] \in {"act", "remove"}, stage'[r] # stage[r], files' # files
  PROVE  \/ (WriteFile(r) \/ DeleteFile(r)) /\ stage[r] = "act"
         \/ RenameRemoves(r) /\ stage[r] = "remove"
<1>1. stage \in [Callers -> FileStages] /\ r \in Callers /\ r \notin Places
  BY FilesAssumption DEF FilesInv, FilesTypeOK, Callers, Places
<1>2. ASSUME NEW q \in Callers, NEW s, Await(q, s) PROVE q = r
  BY <1>1, <1>2 DEF Await
<1>3. ASSUME NEW q \in Requests,
             Begin(q) \/ Resolve(q) \/ Probe(q) \/ ProbeNative(q) \/ ActFails(q) \/ RenameReads(q) \/ Stamp(q)
      PROVE  FALSE
  BY <1>3 DEF Begin, Resolve, Probe, ProbeNative, ActFails, RenameReads, Stamp, fileVars
<1>4. ASSUME NEW q \in Callers, Tags(q) \/ TagsLoaded(q) \/ TagsFail(q) PROVE FALSE
  BY <1>4 DEF Tags, TagsLoaded, TagsFail, fileVars
<1>5. ~Connect /\ ~Disconnect
  BY DEF Connect, Disconnect
<1>6. ASSUME NEW l \in Places, Clean(l) PROVE FALSE
  <2>1. l \in Callers /\ l # r
    BY <1>1 DEF Callers
  <2>2. UNCHANGED files \/ Await(l, "tag")
    BY <1>6 DEF Clean
  <2> QED BY <1>2, <2>1, <2>2
<1>7. ASSUME NEW q \in Requests, WriteFile(q) \/ DeleteFile(q) \/ RenameCopies(q) \/ RenameRemoves(q)
      PROVE  q = r
  <2>1. \E s : Await(q, s)
    BY <1>7 DEF WriteFile, DeleteFile, RenameCopies, RenameRemoves, Done, Return
  <2> QED BY <1>2, <2>1 DEF Callers
<1>8. ~RenameCopies(r)
  BY DEF RenameCopies
<1> QED BY <1>3, <1>4, <1>5, <1>6, <1>7, <1>8 DEF FilesNext, WriteFile, DeleteFile, RenameRemoves

(* A rename deletes a file only when its new path holds what the old one    *)
(* does, and a call that names no location acts where its path is, whatever *)
(* other calls do between the awaits, unless one was about the path.        *)
THEOREM KeptHolds == FilesSpec => FilesKept
<1> DEFINE Keeps(r) ==
      LET c == call[r]  other == CHOOSE l \in Places : l # c.target IN
       Busy(r) /\ {c.path, c.to} \cap disturbed = {} =>
         /\ stage[r] = "remove" /\ stage'[r] # "remove" /\ files' # files
            => files[c.target][c.path] = files'[c.target][c.to]
         /\ stage[r] = "act" /\ c.place = "any" /\ c.folder /\ files' # files /\ stage'[r] # "act"
            => files[other][c.path] = NoFile
<1>1. FilesInv /\ [FilesNext]_filesVars => [\A r \in Requests : Keeps(r)]_filesVars
  <2> SUFFICES ASSUME FilesInv, FilesNext, NEW r \in Requests,
                      Busy(r), {call[r].path, call[r].to} \cap disturbed = {}, files' # files,
                      stage[r] \in {"act", "remove"}, stage'[r] # stage[r]
               PROVE  Keeps(r)
    <3> SUFFICES ASSUME FilesInv, FilesNext, NEW r \in Requests PROVE Keeps(r)
      OBVIOUS
    <3>1. Keeps(r) \/ (/\ Busy(r) /\ {call[r].path, call[r].to} \cap disturbed = {} /\ files' # files
                       /\ stage[r] \in {"act", "remove"} /\ stage'[r] # stage[r])
      OBVIOUS
    <3> QED BY <3>1
  <2> DEFINE c == call[r]
             other == CHOOSE l \in Places : l # c.target
  <2>1. r \in Callers /\ c \in FileCalls /\ CallShape(r) /\ Copied(r)
    BY CallTyped DEF FilesInv, AllShapes, Copies, Callers
  <2>2. c.target \in Places /\ c.path \in Paths /\ c.to \in Paths
    BY <2>1 DEF FileCalls
  <2>3. other \in Places /\ other # c.target
    BY <2>2 DEF Places
  <2>4. CASE RenameRemoves(r) /\ stage[r] = "remove"
    <3>1. c.path # c.to /\ files[c.target][c.path] = c.content /\ files[c.target][c.to] = c.content
      BY <2>1, <2>4 DEF CallShape, Copied
    <3>2. NoFile \in Contents
      BY DEF Contents
    <3>3. files'[c.target][c.to] = files[c.target][c.to]
      BY <2>2, <2>4, <3>1, <3>2, PutsOne DEF RenameRemoves, FilesInv
    <3> QED BY <2>4, <3>1, <3>3
  <2>5. CASE stage[r] = "act"
    <3>1. c.place = "any" /\ c.folder => files[other][c.path] = NoFile
      BY <2>1, <2>3, <2>5 DEF Copied
    <3> QED BY <2>5, <3>1
  <2> QED BY <2>4, <2>5, OwnFileStep
<1> QED BY <1>1, FilesAlways, PTL DEF FilesSpec, FilesKept

-----------------------------------------------------------------------------
(* ExtensionSandbox *)

(* What is on its way is about requests that were issued.                   *)
SentIsIssued ==
  /\ \A i \in DOMAIN toHost : toHost[i].kind = "request" => toHost[i].id \in 1 .. issued
  /\ \A i \in DOMAIN toSandbox :
       /\ toSandbox[i].kind = "response" => toSandbox[i].id \in 1 .. issued
       /\ toSandbox[i].kind = "request" => toSandbox[i].action <= issued
  /\ shown <= issued /\ actionIds <= issued /\ actionHandlers <= issued

(* The frame is told once to start; host and frame go together.             *)
Lifetime ==
  /\ host = "frame" => toHost = <<>> /\ toSandbox = <<>> /\ script = "loading"
  /\ \A i \in DOMAIN toSandbox : toSandbox[i].kind = "bootstrap" => i = 1 /\ script = "loading"
  /\ script = "gone" <=> host = "closed"
  /\ host = "closed" => toHost = <<>> /\ toSandbox = <<>> /\ running = {} /\ subscriptions = {} /\ shown = 0 /\ actionIds = 0 /\ pendingRequests = {}
  /\ script = "loading" => toHost = <<>> /\ running = {} /\ (host # "frame" => 1 \in DOMAIN toSandbox /\ toSandbox[1].kind = "bootstrap")

(* Every request has been carried out, was refused or waits.                *)
Answered ==
  /\ \A i \in DOMAIN toSandbox : toSandbox[i].kind = "response" /\ toSandbox[i].ok => toSandbox[i].id \in accepted
  /\ 1 .. issued \subseteq accepted \cup refusedOps \cup outstanding

(* The script says that it is ready when its activate has been carried out. *)
ReadyIsEarned ==
  (ready = "ready" \/ script = "active" \/ \E i \in DOMAIN toHost : toHost[i].kind = "ready") =>
    script \in {"active", "gone"} /\ activationOps \subseteq accepted

(* A subscription on its way has its handler, or its end follows it.        *)
EndsFollow ==
  /\ \A id \in subscriptions : id \in eventHandlers \/ \E j \in DOMAIN toHost : toHost[j] = Unsubscribing(id)
  /\ \A i \in DOMAIN toHost : toHost[i].kind = "request" /\ toHost[i].method = "subscribe" =>
      toHost[i].id \in eventHandlers \/ \E j \in DOMAIN toHost : i < j /\ toHost[j] = Unsubscribing(toHost[i].id)

(* The buttons that have handlers are those of the last interface.          *)
LastButtons ==
  /\ shown # 0 => shown = actionIds
  /\ actionHandlers # 0 =>
       /\ actionIds <= actionHandlers
       /\ \A i \in DOMAIN toHost : toHost[i].kind = "request" /\ toHost[i].method = "show" => toHost[i].id <= actionHandlers
       /\ \A i \in DOMAIN toSandbox : toSandbox[i].kind = "request" => toSandbox[i].action <= actionHandlers

SandboxInv ==
  SandboxTypeOK /\ SentIsIssued /\ Lifetime /\ Answered /\ ReadyIsEarned /\ EndsFollow /\ LastButtons /\ CallsHaveTimers

-----------------------------------------------------------------------------
(* Messages that are sent and received.                                     *)

LEMMA MessageSent ==
  ASSUME NEW S, NEW s \in Seq(S), NEW e \in S
  PROVE  /\ Append(s, e) \in Seq(S) /\ Len(s) \in Nat /\ DOMAIN s = 1 .. Len(s)
         /\ DOMAIN Append(s, e) = 1 .. Len(s) + 1
         /\ \A i \in DOMAIN s : Append(s, e)[i] = s[i]
         /\ Append(s, e)[Len(s) + 1] = e
  OBVIOUS

LEMMA MessageTaken ==
  ASSUME NEW S, NEW s \in Seq(S), s # <<>>
  PROVE  /\ Head(s) = s[1] /\ s[1] \in S /\ 1 \in DOMAIN s /\ Len(s) \in Nat /\ DOMAIN s = 1 .. Len(s)
         /\ Tail(s) \in Seq(S) /\ DOMAIN Tail(s) = 1 .. Len(s) - 1
         /\ \A i \in DOMAIN Tail(s) : Tail(s)[i] = s[i + 1] /\ i + 1 \in DOMAIN s
  OBVIOUS

LEMMA MessagesTyped ==
  /\ \A method \in SandboxMethods : \A id \in SandboxRequests :
       [kind |-> "request", method |-> method, id |-> id] \in HostMessages
  /\ \A c \in SandboxCalls : [kind |-> "response", call |-> c] \in HostMessages
  /\ [kind |-> "ready"] \in HostMessages /\ [kind |-> "error"] \in HostMessages
  /\ \A id \in SandboxRequests : Unsubscribing(id) \in HostMessages
  /\ [kind |-> "bootstrap"] \in ScriptMessages
  /\ \A id \in SandboxRequests : \A ok \in BOOLEAN : [kind |-> "response", id |-> id, ok |-> ok] \in ScriptMessages
  /\ \A c \in SandboxCalls : \A a \in 0 .. MaxRequests : [kind |-> "request", call |-> c, action |-> a] \in ScriptMessages
  BY DEF HostMessages, ScriptMessages, SandboxMethods, Unsubscribing

LEMMA HostMessageIs ==
  ASSUME NEW m \in HostMessages
  PROVE  /\ m.kind \in {"request", "response", "ready", "error"}
         /\ m.kind = "request" => m.method \in SandboxMethods /\ m.id \in SandboxRequests
                                  /\ (m.method = "unsubscribe" => m = Unsubscribing(m.id))
         /\ m.kind = "response" => m.call \in SandboxCalls
  BY DEF HostMessages, Unsubscribing

LEMMA ScriptMessageIs ==
  ASSUME NEW m \in ScriptMessages
  PROVE  /\ m.kind \in {"bootstrap", "request", "response"}
         /\ m.kind = "request" => m.call \in SandboxCalls /\ m.action \in 0 .. MaxRequests
         /\ m.kind = "response" => m.id \in SandboxRequests /\ m.ok \in BOOLEAN
  BY DEF ScriptMessages


-----------------------------------------------------------------------------
(* The end of the frame.                                                    *)
LEMMA TearDownStep ==
  ASSUME SandboxInv, TearDown, ready' \in {ready, "failed"}
  PROVE  SandboxInv'
<1>1. ready' \in {"waiting", "ready", "failed"} /\ MaxRequests \in Nat
  BY SandboxAssumption DEF SandboxInv, SandboxTypeOK
<1>2. toHost' = <<>> /\ toSandbox' = <<>> /\ toHost' \in Seq(HostMessages) /\ toSandbox' \in Seq(ScriptMessages)
  BY DEF TearDown
<1>3. SandboxTypeOK'
  BY <1>1, <1>2 DEF SandboxInv, SandboxTypeOK, TearDown
<1>4. SentIsIssued'
  BY <1>1, <1>2 DEF SandboxInv, SandboxTypeOK, SentIsIssued, TearDown
<1>5. Lifetime' /\ Answered' /\ EndsFollow'
  BY <1>2 DEF SandboxInv, Lifetime, Answered, EndsFollow, TearDown
<1>6. ReadyIsEarned'
  BY <1>2 DEF SandboxInv, ReadyIsEarned, TearDown
<1>7. LastButtons'
  BY <1>1, <1>2 DEF SandboxInv, SandboxTypeOK, LastButtons, TearDown
<1>8. CallsHaveTimers'
  BY DEF SandboxInv, SandboxTypeOK, CallsHaveTimers, TearDown
<1> QED BY <1>3, <1>4, <1>5, <1>6, <1>7, <1>8 DEF SandboxInv

LEMMA FrameLoadsStep == ASSUME SandboxInv, FrameLoads PROVE SandboxInv'
<1>1. toSandbox' = <<[kind |-> "bootstrap"]>> /\ toSandbox' \in Seq(ScriptMessages)
  BY MessagesTyped DEF FrameLoads
<1>2. DOMAIN toSandbox' = {1} /\ toSandbox'[1].kind = "bootstrap"
  BY <1>1
<1>3. SandboxTypeOK'
  BY <1>1 DEF SandboxInv, SandboxTypeOK, FrameLoads, scriptVars
<1>4. SentIsIssued' /\ Answered'
  BY <1>2 DEF SandboxInv, SentIsIssued, Answered, FrameLoads, scriptVars
<1>5. Lifetime'
  BY <1>2 DEF SandboxInv, Lifetime, FrameLoads, scriptVars
<1>6. ReadyIsEarned' /\ EndsFollow' /\ LastButtons' /\ CallsHaveTimers'
  BY <1>2 DEF SandboxInv, ReadyIsEarned, EndsFollow, LastButtons, CallsHaveTimers, FrameLoads, scriptVars
<1> QED BY <1>3, <1>4, <1>5, <1>6 DEF SandboxInv

(* A call of the host reaches the interface that is shown or none.          *)
LEMMA CallSandboxStep ==
  ASSUME SandboxInv, NEW c \in SandboxCalls, NEW a \in {0, shown}, shown = 0 \/ shown = actionIds,
         caller[c] = "unused" \/ host = "open", CallSandbox(c, a),
         host' = host \/ (host = "open" /\ host' = "disposed" /\ c = Deactivate),
         UNCHANGED <<ready, subscriptions, shown, actionIds, accepted, handling, toHost, scriptVars>>
  PROVE  SandboxInv'
<1> DEFINE m == [kind |-> "request", call |-> c, action |-> a]
<1>1. m \in ScriptMessages /\ a \in 0 .. MaxRequests /\ a <= issued
  BY MessagesTyped, SandboxAssumption DEF SandboxInv, SandboxTypeOK, SentIsIssued
<1>2. CASE host = "open"
  <2>1. /\ toSandbox' = Append(toSandbox, m) /\ toSandbox' \in Seq(ScriptMessages) /\ Len(toSandbox) \in Nat
        /\ DOMAIN toSandbox = 1 .. Len(toSandbox) /\ DOMAIN toSandbox' = 1 .. Len(toSandbox) + 1
        /\ \A i \in DOMAIN toSandbox : toSandbox'[i] = toSandbox[i]
        /\ toSandbox'[Len(toSandbox) + 1] = m
    <3>1. toSandbox' = Append(toSandbox, m) /\ toSandbox \in Seq(ScriptMessages)
      BY <1>2 DEF SandboxInv, SandboxTypeOK, CallSandbox
    <3> HIDE DEF m
    <3> QED BY <1>1, <3>1, MessageSent
  <2>2. m.kind = "request" /\ m.action = a
    OBVIOUS
  <2> HIDE DEF m
  <2>3. SandboxTypeOK'
    BY <1>2, <2>1 DEF SandboxInv, SandboxTypeOK, CallSandbox, scriptVars
  <2>4. SentIsIssued'
    BY <1>1, <2>1, <2>2 DEF SandboxInv, SentIsIssued, scriptVars
  <2>5. Answered'
    BY <2>1, <2>2 DEF SandboxInv, Answered, scriptVars
  <2>6. Lifetime'
    <3>1. host' \in {"open", "disposed"} /\ script # "gone" /\ UNCHANGED <<script, toHost>>
      BY <1>2 DEF SandboxInv, Lifetime, scriptVars
    <3>2. \A i \in DOMAIN toSandbox' : toSandbox'[i].kind = "bootstrap" => i = 1 /\ script = "loading"
      BY <2>1, <2>2 DEF SandboxInv, Lifetime
    <3>3. script = "loading" => toHost = <<>> /\ running = {} /\ 1 \in DOMAIN toSandbox' /\ toSandbox'[1].kind = "bootstrap"
      BY <1>2, <2>1 DEF SandboxInv, Lifetime
    <3> QED BY <3>1, <3>2, <3>3 DEF Lifetime, scriptVars
  <2>7. ReadyIsEarned' /\ EndsFollow'
    BY DEF SandboxInv, ReadyIsEarned, EndsFollow, scriptVars
  <2>8. LastButtons'
    BY <1>1, <2>1, <2>2, SandboxAssumption DEF SandboxInv, SandboxTypeOK, LastButtons, scriptVars
  <2>9. CallsHaveTimers'
    BY <1>2 DEF SandboxInv, SandboxTypeOK, CallsHaveTimers, CallSandbox
  <2> QED BY <2>3, <2>4, <2>5, <2>6, <2>7, <2>8, <2>9 DEF SandboxInv
<1>3. CASE host # "open"
  <2>1. UNCHANGED <<host, pendingRequests, toSandbox>> /\ caller' = [caller EXCEPT ![c] = "settled"] /\ caller[c] = "unused"
    BY <1>3 DEF CallSandbox
  <2>2. SandboxTypeOK'
    BY <2>1 DEF SandboxInv, SandboxTypeOK, scriptVars
  <2>3. SentIsIssued' /\ Lifetime' /\ Answered' /\ ReadyIsEarned' /\ EndsFollow' /\ LastButtons'
    BY <2>1 DEF SandboxInv, SentIsIssued, Lifetime, Answered, ReadyIsEarned, EndsFollow, LastButtons, scriptVars
  <2>4. CallsHaveTimers'
    BY <2>1 DEF SandboxInv, SandboxTypeOK, CallsHaveTimers
  <2> QED BY <2>2, <2>3, <2>4 DEF SandboxInv
<1> QED BY <1>2, <1>3

LEMMA HostCallsStep ==
  ASSUME SandboxInv, Dispose \/ OverlayTaken \/ \E c \in Invocations : Invoke(c) \/ Click(c)
  PROVE  SandboxInv'
<1>1. shown = 0 \/ shown = actionIds
  BY DEF SandboxInv, LastButtons
<1>2. ASSUME NEW c \in Invocations, Invoke(c) \/ Click(c) PROVE SandboxInv'
  <2>1. c \in SandboxCalls
    BY DEF SandboxCalls
  <2> QED BY <1>1, <1>2, <2>1, CallSandboxStep DEF Invoke, Click
<1>3. CASE Dispose
  <2>1. Deactivate \in SandboxCalls
    BY DEF SandboxCalls
  <2> QED BY <1>1, <1>3, <2>1, CallSandboxStep DEF Dispose
<1>4. CASE OverlayTaken
  <2>1. SandboxTypeOK' /\ SentIsIssued'
    BY <1>4, SandboxAssumption DEF SandboxInv, SandboxTypeOK, SentIsIssued, OverlayTaken, scriptVars
  <2>2. Lifetime' /\ Answered' /\ ReadyIsEarned' /\ EndsFollow' /\ LastButtons' /\ CallsHaveTimers'
    BY <1>4 DEF SandboxInv, Lifetime, Answered, ReadyIsEarned, EndsFollow, LastButtons, CallsHaveTimers, OverlayTaken, scriptVars
  <2> QED BY <2>1, <2>2 DEF SandboxInv
<1> QED BY <1>2, <1>3, <1>4

-----------------------------------------------------------------------------
(* What the host receives and answers.                                      *)

(* The host takes a message.                                                *)
LEMMA HostTakes ==
  ASSUME SandboxTypeOK, toHost # <<>>, toHost' = Tail(toHost)
  PROVE  /\ toHost' \in Seq(HostMessages) /\ DOMAIN toHost' = 1 .. Len(toHost) - 1 /\ Len(toHost) \in Nat
         /\ 1 \in DOMAIN toHost /\ Head(toHost) = toHost[1] /\ DOMAIN toHost = 1 .. Len(toHost)
         /\ \A i \in DOMAIN toHost' : toHost'[i] = toHost[i + 1] /\ i + 1 \in DOMAIN toHost
  BY MessageTaken DEF SandboxTypeOK

(* What follows a message follows it still; what was said is said.          *)
LEMMA EndsFollowTaken ==
  ASSUME SandboxInv, toHost # <<>>, toHost' = Tail(toHost), UNCHANGED eventHandlers,
         \A id \in subscriptions' : /\ ~(Head(toHost) = Unsubscribing(id))
                                    /\ id \in subscriptions \/ (Head(toHost).kind = "request" /\ Head(toHost).method = "subscribe" /\ Head(toHost).id = id)
  PROVE  EndsFollow'
<1>1. /\ DOMAIN toHost' = 1 .. Len(toHost) - 1 /\ Len(toHost) \in Nat
      /\ 1 \in DOMAIN toHost /\ Head(toHost) = toHost[1] /\ DOMAIN toHost = 1 .. Len(toHost)
      /\ \A i \in DOMAIN toHost' : toHost'[i] = toHost[i + 1] /\ i + 1 \in DOMAIN toHost
  BY HostTakes DEF SandboxInv
<1>2. ASSUME NEW j \in DOMAIN toHost, j # 1
      PROVE  j - 1 \in DOMAIN toHost' /\ toHost'[j - 1] = toHost[j]
  BY <1>1, <1>2
<1>3. ASSUME NEW id \in subscriptions' PROVE id \in eventHandlers \/ \E j \in DOMAIN toHost' : toHost'[j] = Unsubscribing(id)
  <2>1. id \in eventHandlers \/ \E j \in DOMAIN toHost : j # 1 /\ toHost[j] = Unsubscribing(id)
    BY <1>1, <1>3 DEF SandboxInv, EndsFollow
  <2> QED BY <1>2, <2>1
<1>4. ASSUME NEW i \in DOMAIN toHost', toHost'[i].kind = "request", toHost'[i].method = "subscribe"
      PROVE  toHost'[i].id \in eventHandlers \/ \E j \in DOMAIN toHost' : i < j /\ toHost'[j] = Unsubscribing(toHost'[i].id)
  <2>1. toHost'[i].id \in eventHandlers \/ \E j \in DOMAIN toHost : i + 1 < j /\ toHost[j] = Unsubscribing(toHost'[i].id)
    BY <1>1, <1>4 DEF SandboxInv, EndsFollow
  <2>2. ASSUME NEW j \in DOMAIN toHost, i + 1 < j, toHost[j] = Unsubscribing(toHost'[i].id)
        PROVE  \E k \in DOMAIN toHost' : i < k /\ toHost'[k] = Unsubscribing(toHost'[i].id)
    <3>1. j - 1 \in DOMAIN toHost' /\ toHost'[j - 1] = toHost[j] /\ i < j - 1
      BY <1>1, <1>2, <2>2
    <3> QED BY <2>2, <3>1
  <2> QED BY <2>1, <2>2
<1> QED BY <1>3, <1>4 DEF EndsFollow

(* A response to a request that was issued; one that says so, to one that   *)
(* has been carried out.                                                    *)
LEMMA Responded ==
  ASSUME SandboxInv, NEW id \in 1 .. issued, NEW ok \in BOOLEAN, Respond(id, ok), UNCHANGED <<host, script, issued, running, actionHandlers>>,
         accepted \subseteq accepted', ok => id \in accepted'
  PROVE  /\ toSandbox' \in Seq(ScriptMessages) /\ DOMAIN toSandbox \subseteq DOMAIN toSandbox'
         /\ \A i \in DOMAIN toSandbox' :
              \/ i \in DOMAIN toSandbox /\ toSandbox'[i] = toSandbox[i]
              \/ /\ toSandbox'[i].kind = "response" /\ toSandbox'[i].id = id
                 /\ toSandbox'[i].ok <=> ok
         /\ \A i \in DOMAIN toSandbox : toSandbox'[i] = toSandbox[i]
         /\ host \in {"frame", "closed"} => UNCHANGED toSandbox
<1>1. [kind |-> "response", id |-> id, ok |-> ok] \in ScriptMessages
  BY MessagesTyped, SandboxAssumption DEF SandboxInv, SandboxTypeOK, SandboxRequests
<1> QED BY <1>1, MessageSent DEF Respond, SandboxInv, SandboxTypeOK


(* The host takes nothing, or a message that is no request.                 *)
LEMMA HostHears ==
  ASSUME SandboxInv, UNCHANGED <<host, subscriptions, shown, actionIds, accepted, handling, toSandbox, scriptVars>>,
         UNCHANGED toHost \/ (toHost # <<>> /\ Head(toHost).kind # "request" /\ toHost' = Tail(toHost)),
         ready' = ready \/ (toHost # <<>> /\ Head(toHost).kind = "ready" /\ ready' = "ready"),
         caller' \in [SandboxCalls -> {"unused", "waiting", "settled"}], pendingRequests' \subseteq pendingRequests,
         CallsHaveTimers'
  PROVE  SandboxInv'
<1>1. toHost' \in Seq(HostMessages) /\ \A i \in DOMAIN toHost' : \E j \in DOMAIN toHost : toHost'[i] = toHost[j]
  BY HostTakes DEF SandboxInv, SandboxTypeOK
<1>2. SandboxTypeOK'
  BY <1>1 DEF SandboxInv, SandboxTypeOK, scriptVars
<1>3. SentIsIssued'
  BY <1>1 DEF SandboxInv, SentIsIssued, scriptVars
<1>4. toHost = <<>> => toHost' = <<>>
  OBVIOUS
<1>5. Lifetime'
  BY <1>4 DEF SandboxInv, Lifetime, scriptVars
<1>6. Answered'
  BY DEF SandboxInv, Answered, scriptVars
<1>7. ReadyIsEarned'
  <2>1. ready' = "ready" => ready = "ready" \/ \E j \in DOMAIN toHost : toHost[j].kind = "ready"
    BY HostTakes, MessageTaken DEF SandboxInv, SandboxTypeOK
  <2> QED BY <1>1, <2>1 DEF SandboxInv, ReadyIsEarned, scriptVars
<1>8. EndsFollow'
  <2>1. CASE UNCHANGED toHost
    BY <2>1 DEF SandboxInv, EndsFollow, scriptVars
  <2>2. CASE toHost # <<>> /\ Head(toHost).kind # "request" /\ toHost' = Tail(toHost)
    <3>1. \A id : Head(toHost) # Unsubscribing(id)
      BY <2>2 DEF Unsubscribing
    <3> QED BY <2>2, <3>1, EndsFollowTaken DEF scriptVars
  <2> QED BY <2>1, <2>2
<1>9. LastButtons'
  BY <1>1 DEF SandboxInv, LastButtons, scriptVars
<1> QED BY <1>2, <1>3, <1>5, <1>6, <1>7, <1>8, <1>9 DEF SandboxInv

LEMMA SettleStep ==
  ASSUME SandboxInv, NEW c \in pendingRequests, Settle(c),
         c # Deactivate => UNCHANGED toHost \/ (toHost # <<>> /\ Head(toHost).kind # "request" /\ toHost' = Tail(toHost))
  PROVE  SandboxInv'
<1>1. CASE c = Deactivate
  BY <1>1, TearDownStep DEF Settle
<1>2. CASE c # Deactivate
  <2>1. /\ caller' = [caller EXCEPT ![c] = "settled"] /\ pendingRequests' = pendingRequests \ {c}
        /\ UNCHANGED <<ready, host, subscriptions, shown, actionIds, accepted, handling, toSandbox, scriptVars>>
    BY <1>2 DEF Settle
  <2>2. /\ caller' \in [SandboxCalls -> {"unused", "waiting", "settled"}] /\ pendingRequests' \subseteq pendingRequests
        /\ CallsHaveTimers'
    BY <1>2, <2>1 DEF SandboxInv, SandboxTypeOK, CallsHaveTimers
  <2> QED BY <1>2, <2>1, <2>2, HostHears
<1> QED BY <1>1, <1>2

LEMMA HandleRequestStep ==
  ASSUME SandboxInv, toHost # <<>>, Head(toHost).kind = "request", toHost' = Tail(toHost), HandleRequest(Head(toHost))
  PROVE  SandboxInv'
<1> DEFINE m == Head(toHost)
           id == m.id
<1>1. /\ toHost' \in Seq(HostMessages) /\ DOMAIN toHost' = 1 .. Len(toHost) - 1 /\ Len(toHost) \in Nat
      /\ 1 \in DOMAIN toHost /\ m = toHost[1] /\ DOMAIN toHost = 1 .. Len(toHost)
      /\ \A i \in DOMAIN toHost' : toHost'[i] = toHost[i + 1] /\ i + 1 \in DOMAIN toHost
  BY HostTakes DEF SandboxInv
<1>2. m \in HostMessages
  BY MessageTaken DEF SandboxInv, SandboxTypeOK
<1>3. m.method \in SandboxMethods /\ (m.method = "unsubscribe" => m = Unsubscribing(id)) /\ id \in 1 .. issued
  BY <1>1, <1>2, HostMessageIs DEF SandboxInv, SentIsIssued
<1>4. UNCHANGED <<ready, host, caller, pendingRequests, scriptVars>>
  BY DEF HandleRequest
<1>5. host \notin {"frame", "closed"}
  BY <1>1 DEF SandboxInv, Lifetime
(* Everything that follows but the set of its events. *)
<1>6. ASSUME accepted \subseteq accepted', accepted' \subseteq 1 .. issued, handling' \subseteq 1 .. issued, EndsFollow',
             subscriptions' \subseteq 1 .. issued,
             toSandbox' \in Seq(ScriptMessages), DOMAIN toSandbox \subseteq DOMAIN toSandbox',
             \A i \in DOMAIN toSandbox' :
              \/ i \in DOMAIN toSandbox /\ toSandbox'[i] = toSandbox[i]
              \/ /\ toSandbox'[i].kind = "response" /\ toSandbox'[i].id = id
                 /\ toSandbox'[i].ok => id \in accepted',
             shown' = 0 \/ shown' = actionIds',
             UNCHANGED <<shown, actionIds>> \/ actionIds' = 0 \/ (actionIds' = id /\ m.method = "show")
      PROVE  SandboxInv'
  <2>1. issued \in Nat /\ issued <= MaxRequests /\ MaxRequests \in Nat /\ id \in 0 .. MaxRequests /\ id \in 0 .. issued
    BY <1>3, SandboxAssumption DEF SandboxInv, SandboxTypeOK
  <2>2. shown' \in 0 .. MaxRequests /\ actionIds' \in 0 .. MaxRequests /\ shown' <= issued /\ actionIds' <= issued
    BY <1>6, <2>1 DEF SandboxInv, SandboxTypeOK, SentIsIssued
  <2>3. SandboxTypeOK'
    BY <1>1, <1>4, <1>6, <2>2 DEF SandboxInv, SandboxTypeOK, scriptVars
  <2>4. SentIsIssued'
    <3>1. \A i \in DOMAIN toHost' : toHost'[i].kind = "request" => toHost'[i].id \in 1 .. issued
      BY <1>1 DEF SandboxInv, SentIsIssued
    <3>2. \A i \in DOMAIN toSandbox' :
       /\ toSandbox'[i].kind = "response" => toSandbox'[i].id \in 1 .. issued
       /\ toSandbox'[i].kind = "request" => toSandbox'[i].action <= issued
      BY <1>3, <1>6 DEF SandboxInv, SentIsIssued
    <3> QED BY <1>4, <2>2, <3>1, <3>2 DEF SandboxInv, SentIsIssued, scriptVars
  <2>5. Lifetime'
    <3>1. host' = host /\ script' = script /\ host' \notin {"frame", "closed"}
      BY <1>4, <1>5 DEF scriptVars
    <3>2. \A i \in DOMAIN toSandbox' : toSandbox'[i].kind = "bootstrap" => i = 1 /\ script' = "loading"
      BY <1>6, <3>1 DEF SandboxInv, Lifetime
    <3>3. script # "loading" /\ script # "gone"
      BY <1>1, <1>5 DEF SandboxInv, Lifetime
    <3> QED BY <3>1, <3>2, <3>3 DEF Lifetime
  <2>6. Answered'
    BY <1>4, <1>6 DEF SandboxInv, Answered, scriptVars
  <2>7. ReadyIsEarned'
    BY <1>1, <1>4, <1>6 DEF SandboxInv, ReadyIsEarned, scriptVars
  <2>8. LastButtons'
    <3>1. actionHandlers # 0 =>
            /\ \A i \in DOMAIN toHost' : toHost'[i].kind = "request" /\ toHost'[i].method = "show" => toHost'[i].id <= actionHandlers
            /\ m.method = "show" => id <= actionHandlers
      BY <1>1 DEF SandboxInv, LastButtons
    <3>2. actionHandlers # 0 => \A i \in DOMAIN toSandbox' : toSandbox'[i].kind = "request" => toSandbox'[i].action <= actionHandlers
      BY <1>6 DEF SandboxInv, LastButtons
    <3>3. actionHandlers \in Nat /\ UNCHANGED actionHandlers
      BY <1>4 DEF SandboxInv, SandboxTypeOK, scriptVars
    <3> QED BY <1>6, <3>1, <3>2, <3>3 DEF SandboxInv, LastButtons
  <2>9. CallsHaveTimers'
    BY <1>4 DEF SandboxInv, CallsHaveTimers
  <2> QED BY <1>6, <2>3, <2>4, <2>5, <2>6, <2>7, <2>8, <2>9 DEF SandboxInv
<1>7. subscriptions \subseteq 1 .. issued /\ accepted \subseteq 1 .. issued /\ handling \subseteq 1 .. issued
      /\ toSandbox \in Seq(ScriptMessages) /\ (shown = 0 \/ shown = actionIds)
  BY DEF SandboxInv, SandboxTypeOK, LastButtons
<1>8. UNCHANGED eventHandlers /\ UNCHANGED <<host, script, issued, running, actionHandlers>>
  BY <1>4 DEF scriptVars
<1>9. CASE m.method = "unsubscribe"
  <2>1. subscriptions' = subscriptions \ {id} /\ UNCHANGED <<shown, actionIds, accepted, handling, toSandbox>>
    BY <1>9 DEF HandleRequest
  <2>2. \A i : m = Unsubscribing(i) => i = id
    BY DEF Unsubscribing
  <2>3. EndsFollow'
    BY <1>8, <2>1, <2>2, EndsFollowTaken
  <2> QED BY <1>6, <1>7, <2>1, <2>3
<1>10. CASE m.method # "unsubscribe"
  <2>1. \A i : m # Unsubscribing(i)
    BY <1>10 DEF Unsubscribing
  <2>2. CASE Respond(id, FALSE) /\ UNCHANGED <<subscriptions, shown, actionIds, accepted, handling>>
    <3>1. EndsFollow'
      BY <1>8, <2>1, <2>2, EndsFollowTaken
    <3>2. /\ toSandbox' \in Seq(ScriptMessages) /\ DOMAIN toSandbox \subseteq DOMAIN toSandbox'
          /\ \A i \in DOMAIN toSandbox' :
              \/ i \in DOMAIN toSandbox /\ toSandbox'[i] = toSandbox[i]
              \/ toSandbox'[i].kind = "response" /\ toSandbox'[i].id = id /\ (toSandbox'[i].ok <=> FALSE)
      BY <1>3, <1>8, <2>2, Responded
    <3> QED BY <1>6, <1>7, <2>2, <3>1, <3>2
  <2>3. CASE Perform(m.method, id)
    <3>1. /\ subscriptions' = (IF m.method = "subscribe" THEN subscriptions \cup {id} ELSE subscriptions)
          /\ actionIds' = (IF m.method = "show" THEN id ELSE IF m.method = "dismiss" THEN 0 ELSE actionIds)
          /\ shown' = (IF m.method = "show" THEN id ELSE IF m.method = "dismiss" THEN 0 ELSE shown)
      BY <2>3 DEF Perform
    <3>2. EndsFollow'
      BY <1>8, <2>1, <3>1, EndsFollowTaken
    <3>3. CASE m.method = "fetch"
      <4>1. handling' = handling \cup {id} /\ UNCHANGED <<accepted, toSandbox>>
        BY <2>3, <3>3 DEF Perform
      <4> QED BY <1>3, <1>6, <1>7, <3>1, <3>2, <3>3, <4>1
    <3>4. CASE m.method # "fetch"
      <4>1. accepted' = accepted \cup {id} /\ Respond(id, TRUE) /\ UNCHANGED handling
        BY <2>3, <3>4 DEF Perform
      <4>2. /\ toSandbox' \in Seq(ScriptMessages) /\ DOMAIN toSandbox \subseteq DOMAIN toSandbox'
            /\ \A i \in DOMAIN toSandbox' :
              \/ i \in DOMAIN toSandbox /\ toSandbox'[i] = toSandbox[i]
              \/ toSandbox'[i].kind = "response" /\ toSandbox'[i].id = id /\ (toSandbox'[i].ok <=> TRUE)
        BY <1>3, <1>8, <4>1, Responded
      <4> QED BY <1>3, <1>6, <1>7, <3>1, <3>2, <4>1, <4>2
    <3> QED BY <3>3, <3>4
  <2> QED BY <1>10, <2>2, <2>3 DEF HandleRequest
<1> QED BY <1>9, <1>10

LEMMA HostReceivesStep == ASSUME SandboxInv, HostReceives PROVE SandboxInv'
<1> DEFINE m == Head(toHost)
<1>1. toHost # <<>> /\ m.kind \in {"request", "response", "ready", "error"}
  BY MessageTaken, HostMessageIs DEF HostReceives, SandboxInv, SandboxTypeOK
<1>2. CASE m.kind = "request"
  BY <1>1, <1>2, HandleRequestStep DEF HostReceives
<1>3. CASE m.kind # "request" /\ toHost' = Tail(toHost) /\ UNCHANGED <<hostVars, toSandbox, scriptVars>>
  <2>1. /\ caller' \in [SandboxCalls -> {"unused", "waiting", "settled"}] /\ pendingRequests' \subseteq pendingRequests
        /\ CallsHaveTimers'
    BY <1>3 DEF SandboxInv, SandboxTypeOK, CallsHaveTimers, hostVars
  <2> QED BY <1>1, <1>3, <2>1, HostHears DEF hostVars
<1>4. CASE m.kind = "response" /\ m.call \in pendingRequests /\ Settle(m.call) /\ (m.call # Deactivate => toHost' = Tail(toHost))
  BY <1>1, <1>4, SettleStep
<1>5. CASE m.kind = "ready" /\ ready' = "ready" /\ toHost' = Tail(toHost)
           /\ UNCHANGED <<host, caller, pendingRequests, subscriptions, shown, actionIds, accepted, handling, toSandbox, scriptVars>>
  <2>1. /\ caller' \in [SandboxCalls -> {"unused", "waiting", "settled"}] /\ pendingRequests' \subseteq pendingRequests
        /\ CallsHaveTimers'
    BY <1>5 DEF SandboxInv, SandboxTypeOK, CallsHaveTimers
  <2> QED BY <1>1, <1>5, <2>1, HostHears
<1>6. CASE GiveUp
  BY <1>6, TearDownStep DEF GiveUp
<1>7. \/ m.kind = "request"
      \/ m.kind # "request" /\ toHost' = Tail(toHost) /\ UNCHANGED <<hostVars, toSandbox, scriptVars>>
      \/ m.kind = "response" /\ m.call \in pendingRequests /\ Settle(m.call) /\ (m.call # Deactivate => toHost' = Tail(toHost))
      \/ m.kind = "ready" /\ ready' = "ready" /\ toHost' = Tail(toHost)
           /\ UNCHANGED <<host, caller, pendingRequests, subscriptions, shown, actionIds, accepted, handling, toSandbox, scriptVars>>
      \/ GiveUp
  <2> HIDE DEF m
  <2> QED BY <1>1 DEF HostReceives, m
<1> QED BY <1>2, <1>3, <1>4, <1>5, <1>6, <1>7

LEMMA FetchEndsStep == ASSUME SandboxInv, NEW id \in SandboxRequests, FetchEnds(id) PROVE SandboxInv'
<1>1. PICK ok \in BOOLEAN : Respond(id, ok) /\ accepted' = IF ok THEN accepted \cup {id} ELSE accepted
  BY DEF FetchEnds
<1>2. /\ UNCHANGED <<ready, host, caller, pendingRequests, subscriptions, shown, actionIds, toHost, scriptVars>>
      /\ handling' = handling \ {id} /\ id \in 1 .. issued
  BY DEF FetchEnds, SandboxInv, SandboxTypeOK
<1>3. /\ toSandbox' \in Seq(ScriptMessages) /\ DOMAIN toSandbox \subseteq DOMAIN toSandbox'
      /\ \A i \in DOMAIN toSandbox' :
           \/ i \in DOMAIN toSandbox /\ toSandbox'[i] = toSandbox[i]
           \/ toSandbox'[i].kind = "response" /\ toSandbox'[i].id = id /\ (toSandbox'[i].ok <=> ok)
      /\ \A i \in DOMAIN toSandbox : toSandbox'[i] = toSandbox[i]
      /\ host \in {"frame", "closed"} => UNCHANGED toSandbox
  BY <1>1, <1>2, Responded DEF scriptVars
<1>4. SandboxTypeOK'
  BY <1>1, <1>2, <1>3 DEF SandboxInv, SandboxTypeOK, scriptVars
<1>5. SentIsIssued'
  BY <1>2, <1>3 DEF SandboxInv, SentIsIssued, scriptVars
<1>6. Lifetime'
  <2>1. \A i \in DOMAIN toSandbox' : toSandbox'[i].kind = "bootstrap" => i = 1 /\ script' = "loading"
    BY <1>2, <1>3 DEF SandboxInv, Lifetime, scriptVars
  <2> QED BY <1>2, <1>3, <2>1 DEF SandboxInv, Lifetime, scriptVars
<1>7. Answered'
  BY <1>1, <1>2, <1>3 DEF SandboxInv, Answered, scriptVars
<1>8. ReadyIsEarned' /\ EndsFollow' /\ CallsHaveTimers'
  BY <1>1, <1>2 DEF SandboxInv, ReadyIsEarned, EndsFollow, CallsHaveTimers, scriptVars
<1>9. LastButtons'
  BY <1>2, <1>3 DEF SandboxInv, LastButtons, scriptVars
<1> QED BY <1>4, <1>5, <1>6, <1>7, <1>8, <1>9 DEF SandboxInv


-----------------------------------------------------------------------------
(* What the script does.                                                    *)

LEMMA ScriptStep ==
  ASSUME SandboxInv, UNCHANGED hostVars, script \notin {"loading", "gone"}, script' \in {"activating", "ops", "active", "failed"},
         script' = "active" => activationOps' \subseteq accepted,
         script = "active" => script' = "active" /\ UNCHANGED activationOps,
         toHost' \in Seq(HostMessages), DOMAIN toHost \subseteq DOMAIN toHost',
         \A i \in DOMAIN toHost : toHost'[i] = toHost[i],
         \A i \in DOMAIN toHost' \ DOMAIN toHost :
           /\ toHost'[i].kind = "request" =>
                /\ toHost'[i].id \in 1 .. issued'
                /\ toHost'[i].method = "subscribe" => toHost'[i].id \in eventHandlers'
                /\ toHost'[i].method = "show" => toHost'[i].id = actionHandlers'
           /\ toHost'[i].kind = "ready" => script' = "active",
         \A id \in eventHandlers \ eventHandlers' : \E i \in DOMAIN toHost' \ DOMAIN toHost : toHost'[i] = Unsubscribing(id),
         toSandbox' \in Seq(ScriptMessages), \A i \in DOMAIN toSandbox' : \E j \in DOMAIN toSandbox : toSandbox'[i] = toSandbox[j],
         issued' \in issued .. MaxRequests, 1 .. issued' \subseteq accepted \cup refusedOps' \cup outstanding',
         activationOps' \subseteq 1 .. issued', outstanding' \subseteq 1 .. issued',
         refusedOps' \subseteq 1 .. issued', eventHandlers' \subseteq 1 .. issued', running' \subseteq SandboxCalls,
         actionHandlers' \in {0, actionHandlers, issued'}, actionHandlers' \notin {0, actionHandlers} => issued' > issued
  PROVE  SandboxInv'
<1>1. DOMAIN toHost = 1 .. Len(toHost) /\ Len(toHost) \in Nat /\ DOMAIN toHost' = 1 .. Len(toHost') /\ Len(toHost') \in Nat
  BY DEF SandboxInv, SandboxTypeOK
<1>2. issued \in Nat /\ issued' \in Nat /\ issued <= issued' /\ issued' <= MaxRequests /\ MaxRequests \in Nat
  BY SandboxAssumption DEF SandboxInv, SandboxTypeOK
<1>3. actionHandlers \in 0 .. issued /\ actionHandlers' \in 0 .. issued'
  BY <1>2 DEF SandboxInv, SandboxTypeOK, SentIsIssued
<1>4. SandboxTypeOK'
  <2>1. actionHandlers' \in 0 .. MaxRequests /\ issued' \in 0 .. MaxRequests
    BY <1>2, <1>3
  <2>2. subscriptions \subseteq 1 .. issued' /\ accepted \subseteq 1 .. issued' /\ handling \subseteq 1 .. issued'
    BY <1>2 DEF SandboxInv, SandboxTypeOK
  <2> QED BY <2>1, <2>2 DEF SandboxInv, SandboxTypeOK, hostVars
<1>5. SentIsIssued'
  <2>1. \A i \in DOMAIN toHost' : toHost'[i].kind = "request" => toHost'[i].id \in 1 .. issued'
    BY <1>2 DEF SandboxInv, SentIsIssued
  <2>2. shown <= issued' /\ actionIds <= issued'
    BY <1>2 DEF SandboxInv, SandboxTypeOK, SentIsIssued
  <2>3. ASSUME NEW i \in DOMAIN toSandbox'
        PROVE  /\ toSandbox'[i].kind = "response" => toSandbox'[i].id \in 1 .. issued'
               /\ toSandbox'[i].kind = "request" => toSandbox'[i].action <= issued'
    <3>1. PICK j \in DOMAIN toSandbox : toSandbox'[i] = toSandbox[j]
      OBVIOUS
    <3>2. toSandbox[j].kind = "request" => toSandbox[j].action \in Nat
      <4>1. toSandbox[j] \in ScriptMessages
        BY DEF SandboxInv, SandboxTypeOK
      <4> QED BY <4>1, ScriptMessageIs, <1>2
    <3> QED BY <1>2, <3>1, <3>2 DEF SandboxInv, SentIsIssued
  <2> QED BY <1>3, <2>1, <2>2, <2>3 DEF SentIsIssued, hostVars
<1>6. Lifetime'
  BY DEF SandboxInv, Lifetime, hostVars
<1>7. Answered'
  BY DEF SandboxInv, Answered, hostVars
<1>8. ReadyIsEarned'
  BY DEF SandboxInv, ReadyIsEarned, hostVars
<1>9. EndsFollow'
  <2>1. \A i \in DOMAIN toHost : \A j \in DOMAIN toHost' \ DOMAIN toHost : i < j
    BY <1>1
  <2>2. ASSUME NEW id \in subscriptions PROVE id \in eventHandlers' \/ \E j \in DOMAIN toHost' : toHost'[j] = Unsubscribing(id)
    BY DEF SandboxInv, EndsFollow
  <2>3. ASSUME NEW i \in DOMAIN toHost', toHost'[i].kind = "request", toHost'[i].method = "subscribe"
        PROVE  toHost'[i].id \in eventHandlers' \/ \E j \in DOMAIN toHost' : i < j /\ toHost'[j] = Unsubscribing(toHost'[i].id)
    <3>1. CASE i \in DOMAIN toHost
      <4>1. toHost[i].id \in eventHandlers \/ \E j \in DOMAIN toHost : i < j /\ toHost[j] = Unsubscribing(toHost[i].id)
        BY <2>3, <3>1 DEF SandboxInv, EndsFollow
      <4> QED BY <2>1, <3>1, <4>1
    <3>2. CASE i \notin DOMAIN toHost
      BY <2>3, <3>2
    <3> QED BY <3>1, <3>2
  <2> QED BY <2>2, <2>3 DEF EndsFollow, hostVars
<1>10. LastButtons'
  <2>1. CASE actionHandlers' = 0
    BY <2>1 DEF SandboxInv, LastButtons, hostVars
  <2>2. CASE actionHandlers' = actionHandlers /\ actionHandlers # 0
    <3>1. \A i \in DOMAIN toHost' : toHost'[i].kind = "request" /\ toHost'[i].method = "show" => toHost'[i].id <= actionHandlers
      BY <1>2, <1>3, <2>2 DEF SandboxInv, LastButtons
    <3>2. \A i \in DOMAIN toSandbox' : toSandbox'[i].kind = "request" => toSandbox'[i].action <= actionHandlers
      BY <2>2 DEF SandboxInv, LastButtons
    <3> QED BY <2>2, <3>1, <3>2 DEF SandboxInv, LastButtons, hostVars
  <2>3. CASE actionHandlers' = issued' /\ issued' > issued
    <3>1. actionIds <= issued'
      BY <1>5 DEF SentIsIssued, hostVars
    <3> QED BY <1>5, <2>3, <3>1 DEF SentIsIssued, SandboxInv, SandboxTypeOK, LastButtons, hostVars
  <2> QED BY <2>1, <2>2, <2>3
<1>11. CallsHaveTimers'
  BY DEF SandboxInv, CallsHaveTimers, hostVars
<1> QED BY <1>4, <1>5, <1>6, <1>7, <1>8, <1>9, <1>10, <1>11 DEF SandboxInv


LEMMA SaysOne ==
  ASSUME SandboxInv, NEW m \in HostMessages, toHost' = Append(toHost, m)
  PROVE  /\ toHost' \in Seq(HostMessages) /\ DOMAIN toHost \subseteq DOMAIN toHost'
         /\ \A i \in DOMAIN toHost : toHost'[i] = toHost[i]
         /\ \A i \in DOMAIN toHost' \ DOMAIN toHost : toHost'[i] = m
         /\ \E i \in DOMAIN toHost' \ DOMAIN toHost : toHost'[i] = m
  BY MessageSent DEF SandboxInv, SandboxTypeOK

(* What holds wherever the script runs.                                     *)
LEMMA ScriptHas ==
  ASSUME SandboxInv
  PROVE  /\ issued \in Nat /\ issued \in issued .. MaxRequests /\ issued <= MaxRequests /\ MaxRequests \in Nat
         /\ \A S \in {activationOps, outstanding, refusedOps, eventHandlers} : S \subseteq 1 .. issued
         /\ 1 .. issued \subseteq accepted \cup refusedOps \cup outstanding
         /\ running \subseteq SandboxCalls /\ toSandbox \in Seq(ScriptMessages) /\ toHost \in Seq(HostMessages)
         /\ script = "active" => activationOps \subseteq accepted
  BY SandboxAssumption DEF SandboxInv, SandboxTypeOK, Answered, ReadyIsEarned

LEMMA AskStep == ASSUME SandboxInv, NEW method \in SandboxMethods \ {"unsubscribe"}, Ask(method) PROVE SandboxInv'
<1> DEFINE id == issued + 1
           m == [kind |-> "request", method |-> method, id |-> id]
<1>1. /\ issued' = id /\ outstanding' = outstanding \cup {id} /\ script \in {"activating", "ops", "active", "failed"}
      /\ activationOps' = (IF script = "activating" /\ method # "fetch" THEN activationOps \cup {id} ELSE activationOps)
      /\ eventHandlers' = (IF method = "subscribe" THEN eventHandlers \cup {id} ELSE eventHandlers)
      /\ actionHandlers' = (IF method = "show" THEN id ELSE IF method = "dismiss" THEN 0 ELSE actionHandlers)
      /\ toHost' = Append(toHost, m) /\ issued < MaxRequests
      /\ UNCHANGED <<hostVars, toSandbox, script, refusedOps, running>>
  BY DEF Ask, ScriptRuns
<1>2. id \in SandboxRequests /\ id \in issued .. MaxRequests /\ id > issued /\ id \in 1 .. id /\ 1 .. id = (1 .. issued) \cup {id}
  BY <1>1, ScriptHas DEF SandboxRequests
<1>3. m \in HostMessages
  BY <1>2, MessagesTyped
<1>4. m.kind = "request" /\ m.method = method /\ m.id = id
  OBVIOUS
<1> HIDE DEF m
<1>5. /\ toHost' \in Seq(HostMessages) /\ DOMAIN toHost \subseteq DOMAIN toHost'
      /\ \A i \in DOMAIN toHost : toHost'[i] = toHost[i]
      /\ \A i \in DOMAIN toHost' \ DOMAIN toHost : toHost'[i] = m
  BY <1>1, <1>3, SaysOne
<1> HIDE DEF id
<1>6. /\ script' = "active" => activationOps' \subseteq accepted
      /\ script = "active" => script' = "active" /\ UNCHANGED activationOps
  BY <1>1, ScriptHas
<1>7. \A i \in DOMAIN toHost' \ DOMAIN toHost :
           /\ toHost'[i].kind = "request" =>
                /\ toHost'[i].id \in 1 .. issued'
                /\ toHost'[i].method = "subscribe" => toHost'[i].id \in eventHandlers'
                /\ toHost'[i].method = "show" => toHost'[i].id = actionHandlers'
           /\ toHost'[i].kind = "ready" => script' = "active"
  BY <1>1, <1>2, <1>4, <1>5
<1>8. /\ issued' \in issued .. MaxRequests /\ 1 .. issued' \subseteq accepted \cup refusedOps' \cup outstanding'
      /\ activationOps' \subseteq 1 .. issued' /\ outstanding' \subseteq 1 .. issued'
      /\ refusedOps' \subseteq 1 .. issued' /\ eventHandlers' \subseteq 1 .. issued'
      /\ eventHandlers \subseteq eventHandlers'
  BY <1>1, <1>2, ScriptHas
<1>9. actionHandlers' \in {0, actionHandlers, issued'} /\ (actionHandlers' \notin {0, actionHandlers} => issued' > issued)
  BY <1>1, <1>2
<1> QED BY <1>1, <1>5, <1>6, <1>7, <1>8, <1>9, ScriptHas, ScriptStep

LEMMA UnsubscribeStep == ASSUME SandboxInv, NEW id \in SandboxRequests, Unsubscribe(id) PROVE SandboxInv'
<1>1. /\ script \in {"activating", "ops", "active", "failed"} /\ eventHandlers' = eventHandlers \ {id}
      /\ toHost' = Append(toHost, Unsubscribing(id)) /\ id \in 1 .. issued
      /\ UNCHANGED <<hostVars, toSandbox, script, issued, activationOps, outstanding, refusedOps, actionHandlers, running>>
  BY ScriptHas DEF Unsubscribe, ScriptRuns
<1>2. /\ Unsubscribing(id) \in HostMessages /\ Unsubscribing(id).kind = "request" /\ Unsubscribing(id).id = id
      /\ Unsubscribing(id).method = "unsubscribe"
  BY MessagesTyped DEF Unsubscribing
<1>3. /\ toHost' \in Seq(HostMessages) /\ DOMAIN toHost \subseteq DOMAIN toHost'
      /\ \A i \in DOMAIN toHost : toHost'[i] = toHost[i]
      /\ \A i \in DOMAIN toHost' \ DOMAIN toHost : toHost'[i] = Unsubscribing(id)
      /\ \E i \in DOMAIN toHost' \ DOMAIN toHost : toHost'[i] = Unsubscribing(id)
  BY <1>1, <1>2, SaysOne
<1>4. \A i \in DOMAIN toHost' \ DOMAIN toHost :
           /\ toHost'[i].kind = "request" =>
                /\ toHost'[i].id \in 1 .. issued'
                /\ toHost'[i].method = "subscribe" => toHost'[i].id \in eventHandlers'
                /\ toHost'[i].method = "show" => toHost'[i].id = actionHandlers'
           /\ toHost'[i].kind = "ready" => script' = "active"
  BY <1>1, <1>2, <1>3
<1>5. \A j \in eventHandlers \ eventHandlers' : j = id
  BY <1>1
<1>6. eventHandlers' \subseteq 1 .. issued' /\ issued' \in issued .. MaxRequests
  BY <1>1, ScriptHas
<1> QED BY <1>1, <1>3, <1>4, <1>5, <1>6, ScriptHas, ScriptStep

(* The script says something that is no request, or nothing.                *)
LEMMA ScriptSpeaks ==
  ASSUME SandboxInv, UNCHANGED <<hostVars, issued, activationOps, outstanding, refusedOps, eventHandlers, actionHandlers>>,
         script \notin {"loading", "gone"}, script' \in {"activating", "ops", "active", "failed"},
         script' = "active" => activationOps \subseteq accepted, script = "active" => script' = "active",
         UNCHANGED toHost \/ \E m \in HostMessages : m.kind # "request" /\ (m.kind = "ready" => script' = "active") /\ toHost' = Append(toHost, m),
         toSandbox' \in Seq(ScriptMessages), \A i \in DOMAIN toSandbox' : \E j \in DOMAIN toSandbox : toSandbox'[i] = toSandbox[j],
         running' \subseteq SandboxCalls
  PROVE  SandboxInv'
<1>1. /\ toHost' \in Seq(HostMessages) /\ DOMAIN toHost \subseteq DOMAIN toHost'
      /\ \A i \in DOMAIN toHost : toHost'[i] = toHost[i]
      /\ \A i \in DOMAIN toHost' \ DOMAIN toHost : toHost'[i].kind # "request" /\ (toHost'[i].kind = "ready" => script' = "active")
  <2>1. CASE UNCHANGED toHost
    BY <2>1, ScriptHas
  <2>2. ASSUME NEW m \in HostMessages, m.kind # "request" /\ (m.kind = "ready" => script' = "active") /\ toHost' = Append(toHost, m)
        PROVE  <1>1!1 /\ <1>1!2
    BY <2>2, SaysOne
  <2> QED BY <2>1, <2>2
<1>2. issued' \in issued .. MaxRequests /\ UNCHANGED activationOps
  BY ScriptHas
<1> QED BY <1>1, <1>2, ScriptHas, ScriptStep

LEMMA ActivationStep ==
  ASSUME SandboxInv, ActivateReturns \/ ActivateThrows \/ OpsEnd
  PROVE  SandboxInv'
<1>1. \A i \in DOMAIN toSandbox : \E j \in DOMAIN toSandbox : toSandbox[i] = toSandbox[j]
  OBVIOUS
<1>2. CASE ActivateReturns
  BY <1>1, <1>2, ScriptHas, ScriptSpeaks DEF ActivateReturns
<1>3. CASE ActivateThrows
  <2>1. [kind |-> "error"] \in HostMessages
    BY MessagesTyped
  <2> QED BY <1>1, <1>3, <2>1, ScriptHas, ScriptSpeaks DEF ActivateThrows
<1>4. CASE OpsEnd
  <2>1. [kind |-> "error"] \in HostMessages /\ [kind |-> "ready"] \in HostMessages
    BY MessagesTyped
  <2>2. activationOps \cap (refusedOps \cup outstanding) = {} => activationOps \subseteq accepted
    BY ScriptHas
  <2> QED BY <1>1, <1>4, <2>1, <2>2, ScriptHas, ScriptSpeaks DEF OpsEnd
<1> QED BY <1>2, <1>3, <1>4

(* A script that runs is still there.                                       *)
LEMMA RunsSomewhere ==
  ASSUME SandboxInv, NEW c \in running
  PROVE  script \in {"activating", "ops", "active", "failed"}
  BY DEF SandboxInv, SandboxTypeOK, Lifetime


LEMMA AnswerStep == ASSUME SandboxInv, NEW c \in Invocations, Answer(c) PROVE SandboxInv'
<1>1. script \in {"activating", "ops", "active", "failed"}
  BY RunsSomewhere DEF Answer
<1>2. [kind |-> "response", call |-> c] \in HostMessages
  BY MessagesTyped DEF SandboxCalls
<1>3. \A i \in DOMAIN toSandbox : \E j \in DOMAIN toSandbox : toSandbox[i] = toSandbox[j]
  OBVIOUS
<1> QED BY <1>1, <1>2, <1>3, ScriptHas, ScriptSpeaks DEF Answer

LEMMA ScriptReceivesStep == ASSUME SandboxInv, ScriptReceives PROVE SandboxInv'
<1> DEFINE m == Head(toSandbox)
<1>1. /\ m = toSandbox[1] /\ m \in ScriptMessages /\ 1 \in DOMAIN toSandbox
      /\ toSandbox' = Tail(toSandbox) /\ toSandbox' \in Seq(ScriptMessages)
      /\ DOMAIN toSandbox' = 1 .. Len(toSandbox) - 1 /\ DOMAIN toSandbox = 1 .. Len(toSandbox)
      /\ \A i \in DOMAIN toSandbox' : toSandbox'[i] = toSandbox[i + 1] /\ i + 1 \in DOMAIN toSandbox
  BY MessageTaken DEF ScriptReceives, SandboxInv, SandboxTypeOK
<1>2. /\ UNCHANGED hostVars /\ script # "gone"
      /\ \A i \in DOMAIN toSandbox' : \E j \in DOMAIN toSandbox : toSandbox'[i] = toSandbox[j]
  BY <1>1 DEF ScriptReceives, SandboxInv, Lifetime
<1>3. \A i \in DOMAIN toSandbox' : toSandbox'[i].kind # "bootstrap"
  BY <1>1 DEF SandboxInv, Lifetime
<1>4. script = "loading" => m.kind = "bootstrap"
  BY <1>1 DEF SandboxInv, Lifetime
<1>5. CASE m.kind = "bootstrap"
  <2>1. /\ script = "loading" /\ script' = "activating" /\ toHost = <<>> /\ host # "closed" /\ host # "frame"
        /\ UNCHANGED <<hostVars, toHost, issued, activationOps, outstanding, refusedOps, eventHandlers, actionHandlers, running>>
    BY <1>1, <1>5 DEF ScriptReceives, SandboxInv, Lifetime
  <2>2. SandboxTypeOK'
    BY <1>1, <2>1 DEF SandboxInv, SandboxTypeOK, hostVars
  <2>3. SentIsIssued' /\ Answered'
    BY <1>2, <2>1 DEF SandboxInv, SentIsIssued, Answered, hostVars
  <2>4. Lifetime'
    BY <1>3, <2>1 DEF SandboxInv, Lifetime, hostVars
  <2>5. ReadyIsEarned' /\ EndsFollow' /\ CallsHaveTimers'
    BY <2>1 DEF SandboxInv, ReadyIsEarned, EndsFollow, CallsHaveTimers, hostVars
  <2>6. LastButtons'
    BY <1>2, <2>1 DEF SandboxInv, LastButtons, hostVars
  <2> QED BY <2>2, <2>3, <2>4, <2>5, <2>6 DEF SandboxInv
<1>6. CASE m.kind = "response"
  <2>1. /\ outstanding' = outstanding \ {m.id} /\ refusedOps' = IF m.ok THEN refusedOps ELSE refusedOps \cup {m.id}
        /\ UNCHANGED <<toHost, script, issued, activationOps, eventHandlers, actionHandlers, running>>
    BY <1>6 DEF ScriptReceives
  <2>2. m.id \in 1 .. issued /\ (m.ok => m.id \in accepted)
    BY <1>1, <1>6 DEF SandboxInv, SentIsIssued, Answered
  <2>3. script \in {"activating", "ops", "active", "failed"}
    BY <1>2, <1>4, <1>6 DEF SandboxInv, SandboxTypeOK
  <2>4. /\ 1 .. issued' \subseteq accepted \cup refusedOps' \cup outstanding'
        /\ outstanding' \subseteq 1 .. issued' /\ refusedOps' \subseteq 1 .. issued'
        /\ eventHandlers' \subseteq 1 .. issued' /\ issued' \in issued .. MaxRequests
    BY <2>1, <2>2, ScriptHas
  <2> HIDE DEF m
  <2> QED BY <1>1, <1>2, <2>1, <2>3, <2>4, ScriptHas, ScriptStep
<1>7. CASE m.kind = "request"
  <2>1. UNCHANGED <<script, issued, activationOps, outstanding, refusedOps, eventHandlers, actionHandlers>>
    BY <1>7 DEF ScriptReceives
  <2>2. \/ toHost' = Append(toHost, [kind |-> "response", call |-> m.call]) /\ UNCHANGED running
        \/ running' = running \cup {m.call} /\ UNCHANGED toHost
    BY <1>7 DEF ScriptReceives
  <2>3. m.call \in SandboxCalls
    BY <1>1, <1>7, ScriptMessageIs
  <2>4. script \in {"activating", "ops", "active", "failed"}
    BY <1>2, <1>4, <1>7 DEF SandboxInv, SandboxTypeOK
  <2>5. [kind |-> "response", call |-> m.call] \in HostMessages
    BY <2>3, MessagesTyped
  <2>6. \/ UNCHANGED toHost
        \/ \E r \in HostMessages : r.kind # "request" /\ (r.kind = "ready" => script' = "active") /\ toHost' = Append(toHost, r)
    BY <2>2, <2>5
  <2>7. running' \subseteq SandboxCalls
    BY <2>2, <2>3, ScriptHas
  <2> HIDE DEF m
  <2> QED BY <1>1, <1>2, <2>1, <2>4, <2>6, <2>7, ScriptHas, ScriptSpeaks
<1> QED BY <1>1, <1>5, <1>6, <1>7, ScriptMessageIs

LEMMA RunDeactivateStep == ASSUME SandboxInv, RunDeactivate PROVE SandboxInv'
<1> DEFINE n == Cardinality(eventHandlers)
           r == [kind |-> "response", call |-> Deactivate]
<1>1. PICK order \in [1 .. n -> eventHandlers] :
        /\ \A i, j \in DOMAIN order : i < j => order[i] < order[j]
        /\ toHost' = toHost \o [i \in DOMAIN order |-> Unsubscribing(order[i])] \o <<r>>
  BY DEF RunDeactivate
<1>2. /\ running' = running \ {Deactivate} /\ eventHandlers' = {} /\ actionHandlers' = 0
      /\ UNCHANGED <<hostVars, toSandbox, script, issued, activationOps, outstanding, refusedOps>>
      /\ script \in {"activating", "ops", "active", "failed"}
  BY RunsSomewhere DEF RunDeactivate
<1>3. eventHandlers \subseteq 1 .. issued /\ issued \in Nat /\ eventHandlers \subseteq SandboxRequests
  BY ScriptHas DEF SandboxRequests
<1>4. IsFiniteSet(eventHandlers) /\ n \in Nat
  <2>1. \A k \in eventHandlers : k <= issued
    BY <1>3
  <2>2. eventHandlers \in SUBSET Nat
    BY <1>3
  <2>3. IsFiniteSet(eventHandlers)
    BY <1>3, <2>1, <2>2, FS_BoundedSetOfNaturals
  <2> QED BY <2>3, FS_CardinalityType
(* The order names every subscription. *)
<1>5. \A id \in eventHandlers : \E i \in 1 .. n : order[i] = id
  <2>1. order \in Injection(1 .. n, eventHandlers)
    <3>1. DOMAIN order = 1 .. n /\ \A i \in 1 .. n : order[i] \in Nat
      <4>1. eventHandlers \subseteq Nat
        BY <1>3
      <4> HIDE DEF n
      <4>2. order \in [1 .. n -> eventHandlers]
        BY DEF n
      <4> QED BY <4>1, <4>2
    <3> HIDE DEF n
    <3>2. \A i \in 1 .. n : \A j \in 1 .. n : i < j => order[i] # order[j]
      BY <1>1, <3>1
    <3>3. \A i \in 1 .. n : \A j \in 1 .. n : i = j \/ i < j \/ j < i
      BY <1>4
    <3>4. \A i \in 1 .. n : \A j \in 1 .. n : order[i] = order[j] => i = j
      BY <3>2, <3>3
    <3>5. order \in [1 .. n -> eventHandlers]
      BY DEF n
    <3> QED BY <3>1, <3>4, <3>5 DEF Injection, IsInjective
  <2>2. Cardinality(1 .. n) = n
    BY <1>4, FS_Interval
  <2>3. order \in Surjection(1 .. n, eventHandlers)
    <3> HIDE DEF n
    <3>1. Cardinality(1 .. n) = Cardinality(eventHandlers)
      BY <2>2 DEF n
    <3> QED BY <1>4, <2>1, <3>1, FS_Injection
  <2> QED BY <2>3 DEF Surjection
<1> DEFINE ends == [i \in DOMAIN order |-> Unsubscribing(order[i])]
<1>6. ends \in Seq(HostMessages) /\ Len(ends) = n /\ \A i \in 1 .. n : ends[i] = Unsubscribing(order[i])
  <2>1. \A i \in 1 .. n : Unsubscribing(order[i]) \in HostMessages
    BY <1>3, MessagesTyped
  <2> HIDE DEF n
  <2> QED BY <1>4, <2>1
<1>7. r \in HostMessages /\ r.kind = "response"
  BY MessagesTyped DEF SandboxCalls
<1> HIDE DEF n, ends, r
<1>8. /\ toHost' \in Seq(HostMessages) /\ DOMAIN toHost \subseteq DOMAIN toHost'
      /\ \A i \in DOMAIN toHost : toHost'[i] = toHost[i]
      /\ \A i \in DOMAIN toHost' \ DOMAIN toHost : toHost'[i] = r \/ \E j \in 1 .. n : toHost'[i] = ends[j]
      /\ \A j \in 1 .. n : \E i \in DOMAIN toHost' \ DOMAIN toHost : toHost'[i] = ends[j]
  <2>1. toHost \in Seq(HostMessages) /\ toHost' = (toHost \o ends) \o <<r>>
    BY <1>1, ScriptHas DEF ends, r
  <2>2. /\ toHost' \in Seq(HostMessages) /\ Len(toHost') = Len(toHost) + n + 1 /\ Len(toHost) \in Nat
        /\ \A i \in 1 .. Len(toHost) : toHost'[i] = toHost[i]
        /\ \A j \in 1 .. n : toHost'[Len(toHost) + j] = ends[j]
        /\ toHost'[Len(toHost) + n + 1] = r
    BY <1>4, <1>6, <1>7, <2>1
  <2>3. DOMAIN toHost = 1 .. Len(toHost) /\ DOMAIN toHost' = 1 .. Len(toHost) + n + 1
    BY <2>1, <2>2
  <2>4. ASSUME NEW i \in DOMAIN toHost' \ DOMAIN toHost PROVE toHost'[i] = r \/ \E j \in 1 .. n : toHost'[i] = ends[j]
    <3>1. i = Len(toHost) + n + 1 \/ (i - Len(toHost) \in 1 .. n /\ i = Len(toHost) + (i - Len(toHost)))
      BY <1>4, <2>2, <2>3, <2>4
    <3> QED BY <2>2, <3>1
  <2>5. ASSUME NEW j \in 1 .. n PROVE \E i \in DOMAIN toHost' \ DOMAIN toHost : toHost'[i] = ends[j]
    <3>1. Len(toHost) + j \in DOMAIN toHost' \ DOMAIN toHost
      BY <1>4, <2>2, <2>3
    <3> QED BY <2>2, <3>1
  <2> QED BY <1>4, <2>2, <2>3, <2>4, <2>5
<1>9. \A i \in DOMAIN toHost' \ DOMAIN toHost :
           /\ toHost'[i].kind = "request" =>
                /\ toHost'[i].id \in 1 .. issued'
                /\ toHost'[i].method = "subscribe" => toHost'[i].id \in eventHandlers'
                /\ toHost'[i].method = "show" => toHost'[i].id = actionHandlers'
           /\ toHost'[i].kind = "ready" => script' = "active"
  <2>1. \A j \in 1 .. n : ends[j].kind = "request" /\ ends[j].id \in 1 .. issued /\ ends[j].method = "unsubscribe"
    <3>1. \A j \in 1 .. n : order[j] \in eventHandlers
      BY DEF n
    <3>2. \A id : Unsubscribing(id).kind = "request" /\ Unsubscribing(id).id = id /\ Unsubscribing(id).method = "unsubscribe"
      BY DEF Unsubscribing
    <3>3. \A j \in 1 .. n : order[j] \in 1 .. issued
      BY <1>3, <3>1
    <3> QED BY <1>6, <3>2, <3>3
  <2> QED BY <1>2, <1>7, <1>8, <2>1
<1>10. \A id \in eventHandlers \ eventHandlers' : \E i \in DOMAIN toHost' \ DOMAIN toHost : toHost'[i] = Unsubscribing(id)
  BY <1>5, <1>6, <1>8
<1>11. /\ \A i \in DOMAIN toSandbox' : \E j \in DOMAIN toSandbox : toSandbox'[i] = toSandbox[j]
       /\ toSandbox' \in Seq(ScriptMessages) /\ issued' \in issued .. MaxRequests
       /\ 1 .. issued' \subseteq accepted \cup refusedOps' \cup outstanding'
       /\ activationOps' \subseteq 1 .. issued' /\ outstanding' \subseteq 1 .. issued' /\ refusedOps' \subseteq 1 .. issued'
       /\ eventHandlers' \subseteq 1 .. issued' /\ running' \subseteq SandboxCalls
  BY <1>2, ScriptHas
<1> QED BY <1>2, <1>8, <1>9, <1>10, <1>11, ScriptHas, ScriptStep

-----------------------------------------------------------------------------
(* The theorems. *)

LEMMA SandboxInitial == SandboxInit => SandboxInv
<1> SUFFICES ASSUME SandboxInit PROVE SandboxInv
  OBVIOUS
<1>1. SandboxTypeOK /\ SentIsIssued
  BY SandboxAssumption DEF SandboxInit, SandboxTypeOK, SentIsIssued
<1>2. Lifetime /\ Answered /\ ReadyIsEarned /\ EndsFollow /\ LastButtons /\ CallsHaveTimers
  BY DEF SandboxInit, Lifetime, Answered, ReadyIsEarned, EndsFollow, LastButtons, CallsHaveTimers
<1> QED BY <1>1, <1>2 DEF SandboxInv

LEMMA SandboxStep == SandboxInv /\ [SandboxNext]_sandboxVars => SandboxInv'
<1> SUFFICES ASSUME SandboxInv, [SandboxNext]_sandboxVars PROVE SandboxInv'
  OBVIOUS
<1>1. CASE FrameLoads
  BY <1>1, FrameLoadsStep
<1>2. CASE FrameFails \/ BootstrapTimesOut
  BY <1>2, TearDownStep DEF FrameFails, BootstrapTimesOut, GiveUp
<1>3. CASE OverlayTaken \/ Dispose \/ \E c \in Invocations : Invoke(c) \/ Click(c)
  BY <1>3, HostCallsStep
<1>4. CASE HostReceives
  BY <1>4, HostReceivesStep
<1>5. ASSUME NEW c \in Invocations, Answer(c) PROVE SandboxInv'
  BY <1>5, AnswerStep
<1>6. ASSUME NEW c \in SandboxCalls, CallTimesOut(c) PROVE SandboxInv'
  BY <1>6, SettleStep DEF CallTimesOut
<1>7. ASSUME NEW id \in SandboxRequests, FetchEnds(id) \/ Unsubscribe(id) PROVE SandboxInv'
  BY <1>7, FetchEndsStep, UnsubscribeStep
<1>8. ASSUME NEW method \in SandboxMethods \ {"unsubscribe"}, Ask(method) PROVE SandboxInv'
  BY <1>8, AskStep
<1>9. CASE ActivateReturns \/ ActivateThrows \/ OpsEnd
  BY <1>9, ActivationStep
<1>10. CASE ScriptReceives \/ RunDeactivate
  BY <1>10, ScriptReceivesStep, RunDeactivateStep
<1>11. CASE UNCHANGED sandboxVars
  <2>1. SandboxTypeOK' /\ SentIsIssued' /\ Lifetime'
    BY <1>11 DEF SandboxInv, SandboxTypeOK, SentIsIssued, Lifetime, sandboxVars, hostVars, scriptVars
  <2>2. Answered' /\ ReadyIsEarned' /\ EndsFollow' /\ LastButtons' /\ CallsHaveTimers'
    BY <1>11 DEF SandboxInv, Answered, ReadyIsEarned, EndsFollow, LastButtons, CallsHaveTimers, sandboxVars, hostVars, scriptVars
  <2> QED BY <2>1, <2>2 DEF SandboxInv
<1> QED BY <1>1, <1>2, <1>3, <1>4, <1>5, <1>6, <1>7, <1>8, <1>9, <1>10, <1>11 DEF SandboxNext

LEMMA SandboxAlways == SandboxSpec => []SandboxInv
  BY SandboxInitial, SandboxStep, PTL DEF SandboxSpec

(* Every variable of the sandbox and its host keeps its type.               *)
THEOREM SandboxTypesHold == SandboxSpec => []SandboxTypeOK
<1>1. SandboxInv => SandboxTypeOK
  BY DEF SandboxInv
<1> QED BY <1>1, SandboxAlways, PTL

(* The host counts an extension as activated only when all its activate     *)
(* asked for was carried out, keeps nothing for one that has given it up or *)
(* is gone, ends every call by a timer, and no click reaches the buttons of *)
(* an older interface, for any number of calls and requests.                *)
THEOREM HouseHolds == SandboxSpec => []SandboxKeepsHouse
<1>1. SandboxInv => SandboxKeepsHouse
  <2> SUFFICES ASSUME SandboxInv PROVE SandboxKeepsHouse
    OBVIOUS
  <2>1. ReadyMeansDone
    BY DEF SandboxInv, ReadyIsEarned, ReadyMeansDone
  <2>2. NothingLeaks
    <3>1. toHost \in Seq(HostMessages)
      BY DEF SandboxInv, SandboxTypeOK
    <3> QED BY <3>1 DEF SandboxInv, Lifetime, EndsFollow, NothingLeaks, Contains
  <2>3. ClicksReachNewer
    BY DEF SandboxInv, SandboxTypeOK, LastButtons, ClicksReachNewer
  <2> QED BY <2>1, <2>2, <2>3 DEF SandboxInv, SandboxKeepsHouse
<1> QED BY <1>1, SandboxAlways, PTL

-----------------------------------------------------------------------------
(* The four together *)

(* A behaviour of the four together is one of each of them: the credentials, *)
(* the files, the sandboxes and the sheets share no state.                   *)
THEOREM DeskTogether == DeskSpec => SandboxSpec /\ FilesSpec /\ CredentialSpec /\ StructureSpec
<1>1. DeskInit => SandboxInit /\ FilesInit /\ CredentialInit /\ StructureInit
  BY DEF DeskInit, MCFilesInit
<1>2. [DeskNext]_deskVars => [SandboxNext]_sandboxVars
  BY DEF DeskNext, deskVars
<1>3. [DeskNext]_deskVars => [FilesNext]_filesVars
  BY DEF DeskNext, deskVars
<1>4. [DeskNext]_deskVars => [CredentialNext]_credentialVars
  BY DEF DeskNext, deskVars
<1>5. [DeskNext]_deskVars => [StructureNext]_structureVars
  BY DEF DeskNext, deskVars
<1> QED
  BY <1>1, <1>2, <1>3, <1>4, <1>5, PTL DEF DeskSpec, SandboxSpec, FilesSpec, CredentialSpec, StructureSpec

(* Every variable of the four components keeps its type.                     *)
THEOREM DeskTypesHold == DeskSpec => []DeskTypeOK
BY DeskTogether, SandboxTypesHold, FilesTypesHold, CredentialTypesHold, StructureTypesHold, PTL DEF DeskTypeOK
===============================================================================
