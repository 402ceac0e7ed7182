---------------------------- MODULE ServicesProofs ----------------------------
(***************************************************************************)
(* The services, for any tabs, identities, builds, providers, extensions   *)
(* and calls under way at once.                                            *)
(*                                                                         *)
(* WorkbookContext: an overview is followed on its way from the build that *)
(* reads it through the cache and an answer into the messages of a tab:    *)
(* everywhere it is as new as the last change announced under its key, or  *)
(* marked as overlapped by an announcement.  No change is announced before *)
(* it is made, so what a build reads is new enough at that moment.         *)
(*                                                                         *)
(* ModelChoice: a tab whose provider is gone is at work, was passed by, or *)
(* a timer will come to it.                                                *)
(*                                                                         *)
(* PythonWorker: who is alone in a worker has in its globals what it put   *)
(* there.                                                                  *)
(*                                                                         *)
(* ExtensionManager: an instance is started once and stopped once, by      *)
(* calls that wait for it (LoadInv); what the agents have of an extension  *)
(* is its tool, or a pass will bring it (ToolsInv); and of an extension no *)
(* two calls were about at the same time, each await of its only call says *)
(* what runs (Calm, RunInv).                                               *)
(***************************************************************************)
EXTENDS MCServices, ListTheorems

-----------------------------------------------------------------------------
(* WorkbookContext *)

\* An overview, if it is one, shows what was announced under key k.
NewEnough(o, k) == o # Nothing => o.overlapped \/ o.version >= told[k]

\* Nothing is announced that was not made.
ToldIsMade ==
  /\ \A k \in Keys : told[k] <= structure
  /\ \A t \in Agents : change[t] # Nothing => change[t].made <= structure

\* Who waits for a build, waits for one of its key; answers have a key.
WaitsForItsKey ==
  \A t \in Agents :
    /\ injection[t].build # Nothing =>
         /\ build[injection[t].build] # Nothing
         /\ build[injection[t].build].key = injection[t].key
    /\ injection[t].answer # Nothing => injection[t].key \in Keys

BuildsFresh ==
  \A b \in Builds :
    build[b] # Nothing /\ build[b].version # Nothing /\ ~build[b].overlapped
    => build[b].version >= told[build[b].key]

CacheFresh == \A k \in Keys : NewEnough(overview[k], k)

AnswersFresh == \A t \in Agents : NewEnough(injection[t].answer, injection[t].key)

\* A tab that trusts its overview is right to.
BeliefsFresh == \A t \in Agents : t \in current => NewEnough(belief[t], lastKey[t])

\* A tab that was shown an overview knows of which workbook.
BeliefsHaveKeys == \A t \in Agents : lastKey[t] = Nothing => belief[t] = Nothing

ContextInv ==
  /\ ContextTypeOK /\ ToldIsMade /\ WaitsForItsKey
  /\ BuildsFresh /\ CacheFresh /\ AnswersFresh /\ BeliefsFresh /\ BeliefsHaveKeys

LEMMA VersionsAreNat == Versions \subseteq Nat
  BY DEF Versions

LEMMA ResolvedAreKeys == ContextTypeOK => Resolved \subseteq Keys
  BY DEF ContextTypeOK, Resolved, Keys

LEMMA IdleIsInjection == Idle \in Injections /\ Idle.answer = Nothing /\ Idle.build = Nothing
  BY DEF Idle, Injections

\* Nothing is cached, announced or believed at the start.
LEMMA InitEstablishesInv == ContextInit => ContextInv
<1> SUFFICES ASSUME ContextInit PROVE ContextInv
  OBVIOUS
<1>1. 0 \in Versions
  BY ContextAssumption DEF Versions
<1>2. injection \in [Agents -> Injections] /\ \A t \in Agents : injection[t] = Idle
  BY IdleIsInjection DEF ContextInit
<1>3. ContextTypeOK
  BY <1>1, <1>2 DEF ContextInit, ContextTypeOK, Injections, Versions
<1>4. ToldIsMade
  BY DEF ContextInit, ToldIsMade
<1>5. WaitsForItsKey /\ AnswersFresh
  BY <1>2, IdleIsInjection DEF WaitsForItsKey, AnswersFresh, NewEnough
<1> QED BY <1>3, <1>4, <1>5 DEF ContextInit, ContextInv, BuildsFresh, CacheFresh, BeliefsFresh, BeliefsHaveKeys, NewEnough

-----------------------------------------------------------------------------
(* The writes. *)

\* What a step that leaves the overviews on their way alone keeps.
LEMMA FrameKeepsFresh ==
  ASSUME ContextInv, UNCHANGED <<cacheVars, injectorVars>>
  PROVE  /\ WaitsForItsKey' /\ BuildsFresh' /\ CacheFresh' /\ AnswersFresh'
         /\ BeliefsFresh' /\ BeliefsHaveKeys'
  BY DEF ContextInv, cacheVars, injectorVars, WaitsForItsKey, BuildsFresh, CacheFresh, AnswersFresh,
         BeliefsFresh, BeliefsHaveKeys, NewEnough

LEMMA StartChangeKeepsInv ==
  ASSUME ContextInv, NEW t \in Agents, StartChange(t)
  PROVE  ContextInv'
<1>1. PICK k \in Resolved : change' = [change EXCEPT ![t] = [key |-> k, made |-> 0]]
  BY DEF StartChange
<1>2. /\ UNCHANGED <<identity, structure, cacheVars, injectorVars>>
      /\ UNCHANGED <<overview, build, told, injection, lastKey, current, belief>>
  BY DEF StartChange, cacheVars, injectorVars
<1>3. k \in Keys /\ 0 \in Versions
  BY ResolvedAreKeys, ContextAssumption DEF ContextInv, Versions
<1>4. [key |-> k, made |-> 0] \in [key : Keys, made : Versions]
  BY <1>3
<1>5. ContextTypeOK'
  BY <1>1, <1>2, <1>4 DEF ContextInv, ContextTypeOK
<1>6. structure \in Nat /\ change \in [Agents -> [key : Keys, made : Versions] \cup {Nothing}]
  BY VersionsAreNat DEF ContextInv, ContextTypeOK
<1>7. ToldIsMade'
  BY <1>1, <1>2, <1>6 DEF ContextInv, ToldIsMade
<1> QED BY <1>2, <1>5, <1>7, FrameKeepsFresh DEF ContextInv

LEMMA MakeChangeKeepsInv ==
  ASSUME ContextInv, NEW t \in Agents, MakeChange(t)
  PROVE  ContextInv'
<1>1. /\ change[t] # Nothing /\ structure < MaxStructure /\ structure' = structure + 1
      /\ \/ change' = [change EXCEPT ![t].made = structure']
         \/ change' = [change EXCEPT ![t] = Nothing]
      /\ UNCHANGED <<identity, cacheVars, injectorVars>>
      /\ UNCHANGED <<overview, build, told, injection, lastKey, current, belief>>
  BY DEF MakeChange, cacheVars, injectorVars
<1>2. structure \in Nat /\ structure' \in Versions /\ MaxStructure \in Nat /\ \A k \in Keys : told[k] \in Nat
  BY <1>1, ContextAssumption, VersionsAreNat DEF ContextInv, ContextTypeOK, Versions
<1>3. change \in [Agents -> [key : Keys, made : Versions] \cup {Nothing}]
  BY DEF ContextInv, ContextTypeOK
<1>4. change[t] \in [key : Keys, made : Versions]
  BY <1>1, <1>3
<1>5. [change[t] EXCEPT !.made = structure'] \in [key : Keys, made : Versions]
  BY <1>2, <1>4
<1>6. change' \in [Agents -> [key : Keys, made : Versions] \cup {Nothing}]
  BY <1>1, <1>3, <1>5
<1>7. ContextTypeOK'
  BY <1>1, <1>2, <1>6 DEF ContextInv, ContextTypeOK
<1>8. \A a \in Agents : change'[a] # Nothing => change'[a].made <= structure'
  <2> SUFFICES ASSUME NEW a \in Agents, change'[a] # Nothing PROVE change'[a].made <= structure'
    OBVIOUS
  <2>1. CASE a = t
    <3>1. change'[a] = [change[t] EXCEPT !.made = structure']
      BY <1>1, <1>3, <2>1
    <3>2. change'[a].made = structure' /\ structure' \in Nat
      BY <1>1, <1>2, <1>4, <3>1
    <3> QED BY <3>2
  <2>2. CASE a # t
    <3>1. change'[a] = change[a] /\ change[a] \in [key : Keys, made : Versions]
      BY <1>1, <1>3, <2>2
    <3>2. change[a].made <= structure /\ change[a].made \in Nat
      BY <3>1, VersionsAreNat DEF ContextInv, ToldIsMade
    <3> QED BY <1>1, <1>2, <3>1, <3>2
  <2> QED BY <2>1, <2>2
<1>9. ToldIsMade'
  BY <1>1, <1>2, <1>8 DEF ContextInv, ToldIsMade
<1> QED BY <1>1, <1>7, <1>9, FrameKeepsFresh DEF ContextInv

\* An announcement marks what is on its way under its key, and empties the cache.
LEMMA AnnounceKeepsInv ==
  ASSUME ContextInv, NEW t \in Agents, Announce(t)
  PROVE  ContextInv'
<1> DEFINE k == change[t].key
           newBuild(b) == IF build[b] # Nothing /\ build[b].key = k
                            THEN [build[b] EXCEPT !.overlapped = TRUE] ELSE build[b]
           newInjection(a) == IF injection[a].answer # Nothing /\ injection[a].key = k
                                THEN [injection[a] EXCEPT !.answer.overlapped = TRUE] ELSE injection[a]
<1>1. /\ change[t] # Nothing
      /\ overview' = [overview EXCEPT ![k] = Nothing]
      /\ current' = Bumped(k)
      /\ told' = [told EXCEPT ![k] = IF @ < change[t].made THEN change[t].made ELSE @]
      /\ build' = [b \in Builds |-> newBuild(b)]
      /\ injection' = [a \in Agents |-> newInjection(a)]
      /\ change' = [change EXCEPT ![t] = Nothing]
      /\ UNCHANGED <<identity, structure, lastKey, belief>>
  BY DEF Announce
<1>2. change[t] \in [key : Keys, made : Versions]
  BY <1>1 DEF ContextInv, ContextTypeOK
<1>3. k \in Keys /\ change[t].made \in Versions /\ change[t].made \in Nat
  BY <1>2, VersionsAreNat
<1>4. /\ build \in [Builds -> BuildRecords \cup {Nothing}] /\ injection \in [Agents -> Injections]
      /\ told \in [Keys -> Versions] /\ structure \in Nat
  BY VersionsAreNat DEF ContextInv, ContextTypeOK
<1> HIDE DEF k
<1>5. \A b \in Builds : newBuild(b) \in BuildRecords \cup {Nothing}
  BY <1>4 DEF BuildRecords
<1>6. \A a \in Agents :
        /\ newInjection(a) \in Injections
        /\ newInjection(a).at = injection[a].at /\ newInjection(a).key = injection[a].key
        /\ newInjection(a).build = injection[a].build
  <2> SUFFICES ASSUME NEW a \in Agents, injection[a].answer # Nothing
               PROVE  /\ [injection[a] EXCEPT !.answer.overlapped = TRUE] \in Injections
                      /\ [injection[a] EXCEPT !.answer.overlapped = TRUE].at = injection[a].at
                      /\ [injection[a] EXCEPT !.answer.overlapped = TRUE].key = injection[a].key
                      /\ [injection[a] EXCEPT !.answer.overlapped = TRUE].build = injection[a].build
    BY <1>4
  <2>1. injection[a] \in Injections /\ injection[a].answer \in Overviews
    BY <1>4 DEF Injections
  <2>2. [injection[a].answer EXCEPT !.overlapped = TRUE] \in Overviews
    BY <2>1 DEF Overviews
  <2> QED BY <2>1, <2>2 DEF Injections
<1>7. /\ build' \in [Builds -> BuildRecords \cup {Nothing}] /\ injection' \in [Agents -> Injections]
      /\ told' \in [Keys -> Versions]
  BY <1>1, <1>3, <1>4, <1>5, <1>6
<1>8. ContextTypeOK'
  <2>1. Bumped(k) \subseteq Agents
    BY DEF Bumped, ContextInv, ContextTypeOK
  <2> QED BY <1>1, <1>7, <2>1 DEF ContextInv, ContextTypeOK, BuildRecords, Injections
<1>9. /\ \A l \in Keys \ {k} : told'[l] = told[l]
      /\ \A l \in Keys : told'[l] <= structure
  BY <1>1, <1>2, <1>3, <1>4, VersionsAreNat DEF ContextInv, ToldIsMade
<1>10. ToldIsMade'
  BY <1>1, <1>9 DEF ContextInv, ContextTypeOK, ToldIsMade
<1>11. WaitsForItsKey'
  <2> SUFFICES ASSUME NEW a \in Agents
               PROVE  /\ injection'[a].build # Nothing =>
                           /\ build'[injection'[a].build] # Nothing
                           /\ build'[injection'[a].build].key = injection'[a].key
                      /\ injection'[a].answer # Nothing => injection'[a].key \in Keys
    BY DEF WaitsForItsKey
  <2>1. injection'[a].build = injection[a].build /\ injection'[a].key = injection[a].key
    BY <1>1, <1>6
  <2>2. injection'[a].answer # Nothing => injection'[a].key \in Keys
    BY <1>1, <1>3, <2>1 DEF ContextInv, WaitsForItsKey
  <2>3. ASSUME injection[a].build # Nothing
        PROVE  build'[injection[a].build] # Nothing /\ build'[injection[a].build].key = injection[a].key
    <3> DEFINE b == injection[a].build
    <3>1. b \in Builds /\ build[b] \in BuildRecords /\ build[b] # Nothing /\ build[b].key = injection[a].key
      BY <1>4, <2>3 DEF ContextInv, WaitsForItsKey, Injections
    <3>2. build'[b] = newBuild(b)
      BY <1>1, <3>1
    <3>3. newBuild(b).key = build[b].key
      BY <3>1 DEF BuildRecords
    <3>4. newBuild(b) # Nothing
      BY <3>1, BuildAssumption DEF BuildRecords
    <3> QED BY <3>1, <3>2, <3>3, <3>4
  <2> QED BY <2>1, <2>2, <2>3
<1>12. BuildsFresh'
  <2> SUFFICES ASSUME NEW b \in Builds, build'[b] # Nothing, build'[b].version # Nothing, ~build'[b].overlapped
               PROVE  build'[b].version >= told'[build'[b].key]
    BY DEF BuildsFresh
  <2>1. build'[b] = newBuild(b)
    BY <1>1
  <2>2. build[b] # Nothing /\ build[b] \in BuildRecords /\ build[b].key # k
    BY <1>4, <2>1 DEF BuildRecords
  <2>3. build'[b] = build[b] /\ build[b].key \in Keys \ {k}
    BY <2>1, <2>2 DEF BuildRecords
  <2> QED BY <1>9, <2>2, <2>3 DEF ContextInv, BuildsFresh
<1>13. CacheFresh'
  BY <1>1, <1>9 DEF ContextInv, ContextTypeOK, CacheFresh, NewEnough
<1>14. AnswersFresh'
  <2> SUFFICES ASSUME NEW a \in Agents, injection'[a].answer # Nothing, ~injection'[a].answer.overlapped
               PROVE  injection'[a].answer.version >= told'[injection'[a].key]
    BY DEF AnswersFresh, NewEnough
  <2>1. injection'[a] = newInjection(a)
    BY <1>1
  <2>2. ASSUME injection[a].answer # Nothing, injection[a].key = k PROVE FALSE
    <3>1. injection[a] \in Injections /\ injection[a].answer \in Overviews
      BY <1>4, <2>2 DEF Injections
    <3>2. injection'[a] = [injection[a] EXCEPT !.answer.overlapped = TRUE]
      BY <2>1, <2>2
    <3>3. injection'[a].answer.overlapped
      BY <3>1, <3>2 DEF Injections, Overviews
    <3> QED BY <3>3
  <2>3. injection'[a] = injection[a] /\ injection[a].answer # Nothing /\ injection[a].key # k
    BY <2>1, <2>2
  <2>4. injection[a].key \in Keys \ {k}
    BY <2>3 DEF ContextInv, WaitsForItsKey
  <2> QED BY <1>9, <2>3, <2>4 DEF ContextInv, AnswersFresh, NewEnough
<1>15. BeliefsFresh'
  <2> SUFFICES ASSUME NEW a \in Agents, a \in current', belief[a] # Nothing
               PROVE  belief[a].overlapped \/ belief[a].version >= told'[lastKey[a]]
    BY <1>1 DEF BeliefsFresh, NewEnough
  <2>1. a \in current /\ lastKey[a] # k /\ lastKey[a] \in Keys
    BY <1>1 DEF Bumped, ContextInv, ContextTypeOK, BeliefsHaveKeys
  <2> QED BY <1>9, <2>1 DEF ContextInv, BeliefsFresh, NewEnough
<1>16. BeliefsHaveKeys'
  BY <1>1 DEF ContextInv, BeliefsHaveKeys
<1> QED BY <1>8, <1>10, <1>11, <1>12, <1>13, <1>14, <1>15, <1>16 DEF ContextInv

-----------------------------------------------------------------------------
(* The builds. *)

\* The tabs that wait for a build that ends get an answer that is fresh under
\* the key of the build, which is the one they asked with.
LEMMA AnsweredKeepsWaiting ==
  ASSUME ContextInv, NEW b \in Builds, build[b] # Nothing,
         NEW given \in Overviews \cup {Nothing}, NewEnough(given, build[b].key),
         injection' = Answered(b, given), build' = [build EXCEPT ![b] = Nothing], UNCHANGED told
  PROVE  /\ injection' \in [Agents -> Injections] /\ build' \in [Builds -> BuildRecords \cup {Nothing}]
         /\ WaitsForItsKey' /\ AnswersFresh' /\ BuildsFresh'
<1>1. /\ build \in [Builds -> BuildRecords \cup {Nothing}] /\ injection \in [Agents -> Injections]
      /\ build[b] \in BuildRecords /\ build[b].key \in Keys /\ Nothing \notin Builds
  BY ContextAssumption DEF ContextInv, ContextTypeOK, BuildRecords
<1>2. \A c \in Builds : build'[c] = IF c = b THEN Nothing ELSE build[c]
  BY <1>1
<1>3. ASSUME NEW a \in Agents
      PROVE  /\ injection'[a] \in Injections
             /\ injection'[a].key = injection[a].key
             /\ injection[a].build = b => injection'[a].build = Nothing /\ injection'[a].answer = given
             /\ injection[a].build # b => injection'[a] = injection[a]
  <2>1. injection[a] \in Injections
    BY <1>1
  <2>2. CASE injection[a].build = b
    <3>1. injection'[a] = [injection[a] EXCEPT !.at = "answered", !.build = Nothing, !.answer = given]
      BY <2>2 DEF Answered
    <3> QED BY <2>1, <2>2, <3>1 DEF Injections
  <2>3. CASE injection[a].build # b
    <3>1. injection'[a] = injection[a]
      BY <2>3 DEF Answered
    <3> QED BY <2>1, <2>3, <3>1
  <2> QED BY <2>2, <2>3
<1>4. injection' \in [Agents -> Injections]
  <2>1. injection' = [a \in Agents |-> injection'[a]]
    BY DEF Answered
  <2> QED BY <1>3, <2>1
<1>5. ASSUME NEW a \in Agents, injection[a].build = b PROVE injection[a].key = build[b].key
  BY <1>1, <1>5 DEF ContextInv, WaitsForItsKey
<1>6. WaitsForItsKey'
  <2> SUFFICES ASSUME NEW a \in Agents
               PROVE  /\ injection'[a].build # Nothing =>
                           /\ build'[injection'[a].build] # Nothing
                           /\ build'[injection'[a].build].key = injection'[a].key
                      /\ injection'[a].answer # Nothing => injection'[a].key \in Keys
    BY DEF WaitsForItsKey
  <2>1. CASE injection[a].build = b
    BY <1>1, <1>3, <1>5, <2>1
  <2>2. CASE injection[a].build # b
    <3>1. injection'[a] = injection[a] /\ injection[a].build \in Builds \cup {Nothing}
      BY <1>1, <1>3, <2>2 DEF Injections
    <3> QED BY <1>2, <2>2, <3>1 DEF ContextInv, WaitsForItsKey
  <2> QED BY <2>1, <2>2
<1>7. AnswersFresh'
  <2> SUFFICES ASSUME NEW a \in Agents PROVE NewEnough(injection'[a].answer, injection'[a].key)
    BY DEF AnswersFresh, NewEnough
  <2>1. CASE injection[a].build = b
    BY <1>3, <1>5, <2>1 DEF NewEnough
  <2>2. CASE injection[a].build # b
    BY <1>3, <2>2 DEF ContextInv, AnswersFresh, NewEnough
  <2> QED BY <2>1, <2>2
<1>8. BuildsFresh'
  BY <1>2 DEF ContextInv, BuildsFresh
<1>9. build' \in [Builds -> BuildRecords \cup {Nothing}]
  BY <1>1
<1> QED BY <1>4, <1>6, <1>7, <1>8, <1>9

LEMMA BuildReadsKeepsInv ==
  ASSUME ContextInv, NEW b \in Builds, BuildReads(b)
  PROVE  ContextInv'
<1>1. /\ build[b] # Nothing /\ build' = [build EXCEPT ![b].version = structure]
      /\ UNCHANGED <<identity, structure, overview, told, change, injection, lastKey, current, belief>>
  BY DEF BuildReads, injectorVars
<1>2. /\ build \in [Builds -> BuildRecords \cup {Nothing}] /\ injection \in [Agents -> Injections]
      /\ build[b] \in BuildRecords /\ structure \in Versions /\ structure \in Nat
  BY <1>1, VersionsAreNat DEF ContextInv, ContextTypeOK
<1> DEFINE new == [build[b] EXCEPT !.version = structure]
<1>3. new \in BuildRecords /\ new # Nothing /\ new.key = build[b].key /\ new.version = structure
      /\ build[b].key \in Keys
  <2>1. new \in BuildRecords
    BY <1>2 DEF BuildRecords
  <2> QED BY <1>2, <2>1, BuildAssumption DEF BuildRecords
<1>4. \A c \in Builds : build'[c] = IF c = b THEN new ELSE build[c]
  BY <1>1, <1>2
<1>5. build' \in [Builds -> BuildRecords \cup {Nothing}]
  BY <1>1, <1>2, <1>3
<1> HIDE DEF new
<1>6. ContextTypeOK'
  BY <1>1, <1>5 DEF ContextInv, ContextTypeOK
<1>7. WaitsForItsKey'
  <2> SUFFICES ASSUME NEW a \in Agents, injection[a].build # Nothing
               PROVE  /\ build'[injection[a].build] # Nothing
                      /\ build'[injection[a].build].key = injection[a].key
    BY <1>1 DEF ContextInv, WaitsForItsKey
  <2>1. injection[a].build \in Builds
    BY <1>2 DEF Injections
  <2> QED BY <1>3, <1>4, <2>1 DEF ContextInv, WaitsForItsKey
<1>8. BuildsFresh'
  <2> SUFFICES ASSUME NEW c \in Builds, build'[c] # Nothing, build'[c].version # Nothing, ~build'[c].overlapped
               PROVE  build'[c].version >= told[build'[c].key]
    BY <1>1 DEF BuildsFresh
  <2>1. CASE c = b
    <3>1. told[build[b].key] <= structure /\ told[build[b].key] \in Nat
      BY <1>3, VersionsAreNat DEF ContextInv, ContextTypeOK, ToldIsMade
    <3> QED BY <1>2, <1>3, <1>4, <2>1, <3>1
  <2>2. CASE c # b
    BY <1>4, <2>2 DEF ContextInv, BuildsFresh
  <2> QED BY <2>1, <2>2
<1> QED BY <1>1, <1>6, <1>7, <1>8
        DEF ContextInv, ToldIsMade, CacheFresh, AnswersFresh, BeliefsFresh, BeliefsHaveKeys, NewEnough

LEMMA BuildEndsKeepsInv ==
  ASSUME ContextInv, NEW b \in Builds, BuildEnds(b)
  PROVE  ContextInv'
<1> DEFINE k == build[b].key
           o == [version |-> build[b].version, overlapped |-> build[b].overlapped]
<1>1. /\ build[b] # Nothing /\ build[b].version # Nothing
      /\ overview' = [overview EXCEPT ![k] = o] /\ current' = Bumped(k)
      /\ injection' = Answered(b, o) /\ build' = [build EXCEPT ![b] = Nothing]
      /\ UNCHANGED <<identity, structure, told, change, lastKey, belief>>
  BY DEF BuildEnds
<1>2. build[b] \in BuildRecords
  BY <1>1 DEF ContextInv, ContextTypeOK
<1>3. k \in Keys /\ o \in Overviews
  BY <1>1, <1>2 DEF BuildRecords, Overviews
<1>4. NewEnough(o, k)
  BY <1>1 DEF ContextInv, BuildsFresh, NewEnough
<1> HIDE DEF o
<1>5. /\ injection' \in [Agents -> Injections] /\ build' \in [Builds -> BuildRecords \cup {Nothing}]
      /\ WaitsForItsKey' /\ AnswersFresh' /\ BuildsFresh'
  BY <1>1, <1>3, <1>4, AnsweredKeepsWaiting
<1>6. CacheFresh'
  BY <1>1, <1>3, <1>4 DEF ContextInv, ContextTypeOK, CacheFresh, NewEnough
<1>7. Bumped(k) \subseteq current
  BY DEF Bumped
<1>8. ContextTypeOK'
  BY <1>1, <1>3, <1>5, <1>7 DEF ContextInv, ContextTypeOK
<1>9. BeliefsFresh'
  BY <1>1, <1>7 DEF ContextInv, BeliefsFresh, NewEnough
<1> QED BY <1>1, <1>5, <1>6, <1>8, <1>9 DEF ContextInv, ToldIsMade, BeliefsHaveKeys

LEMMA BuildFailsKeepsInv ==
  ASSUME ContextInv, NEW b \in Builds, BuildFails(b)
  PROVE  ContextInv'
<1>1. /\ build[b] # Nothing /\ injection' = Answered(b, Nothing) /\ build' = [build EXCEPT ![b] = Nothing]
      /\ UNCHANGED <<identity, structure, overview, told, change, lastKey, current, belief>>
  BY DEF BuildFails
<1>2. /\ injection' \in [Agents -> Injections] /\ build' \in [Builds -> BuildRecords \cup {Nothing}]
      /\ WaitsForItsKey' /\ AnswersFresh' /\ BuildsFresh'
  BY <1>1, AnsweredKeepsWaiting DEF NewEnough
<1>3. ContextTypeOK'
  BY <1>1, <1>2 DEF ContextInv, ContextTypeOK
<1> QED BY <1>1, <1>2, <1>3 DEF ContextInv, ToldIsMade, CacheFresh, BeliefsFresh, BeliefsHaveKeys, NewEnough

-----------------------------------------------------------------------------
(* The injectors. *)

\* An injector moves, and a build may be started.
LEMMA MovingKeepsWaiting ==
  ASSUME ContextInv, NEW t \in Agents, NEW new \in Injections,
         injection' = [injection EXCEPT ![t] = new], UNCHANGED told,
         \A c \in Builds : build[c] # Nothing => build'[c] = build[c],
         new.build # Nothing => build'[new.build] # Nothing /\ build'[new.build].key = new.key,
         new.answer # Nothing => new.key \in Keys, NewEnough(new.answer, new.key)
  PROVE  injection' \in [Agents -> Injections] /\ WaitsForItsKey' /\ AnswersFresh'
<1>1. injection \in [Agents -> Injections]
  BY DEF ContextInv, ContextTypeOK
<1>2. \A a \in Agents : injection'[a] = IF a = t THEN new ELSE injection[a]
  BY <1>1
<1>3. \A a \in Agents : injection[a].build \in Builds \cup {Nothing}
  BY <1>1 DEF Injections
<1>4. WaitsForItsKey'
  BY <1>2, <1>3 DEF ContextInv, WaitsForItsKey
<1>5. AnswersFresh'
  BY <1>2 DEF ContextInv, AnswersFresh, NewEnough
<1> QED BY <1>1, <1>4, <1>5

LEMMA DecideKeepsInv ==
  ASSUME ContextInv, NEW t \in Agents, Decide(t)
  PROVE  ContextInv'
<1>1. PICK k \in Resolved, inHistory \in BOOLEAN :
        LET reason == Reason(t, k, inHistory) IN
        \/ /\ reason \in Refreshes /\ overview[k] # Nothing
           /\ injection' = [injection EXCEPT ![t] = [at |-> "answered", key |-> k, build |-> Nothing,
                                                     answer |-> overview[k]]]
           /\ UNCHANGED <<lastKey, current, build>>
        \/ /\ reason \in Refreshes /\ overview[k] = Nothing
           /\ \E b \in Builds :
                /\ build[b] = Nothing
                /\ build' = [build EXCEPT ![b] = [key |-> k, version |-> Nothing, overlapped |-> FALSE]]
                /\ injection' = [injection EXCEPT ![t] = [at |-> "waiting", key |-> k, build |-> b,
                                                          answer |-> Nothing]]
           /\ UNCHANGED <<lastKey, current>>
        \/ /\ reason \notin Refreshes
           /\ lastKey' = [lastKey EXCEPT ![t] = k]
           /\ current' = current \cup {t}
           /\ UNCHANGED <<injection, build>>
  BY DEF Decide
<1>2. UNCHANGED <<identity, structure, overview, told, change, belief>> /\ k \in Keys
  BY ResolvedAreKeys DEF Decide, ContextInv
<1>3. CASE /\ overview[k] # Nothing
           /\ injection' = [injection EXCEPT ![t] = [at |-> "answered", key |-> k, build |-> Nothing,
                                                     answer |-> overview[k]]]
           /\ UNCHANGED <<lastKey, current, build>>
  <2> DEFINE new == [at |-> "answered", key |-> k, build |-> Nothing, answer |-> overview[k]]
  <2>1. new \in Injections /\ new.build = Nothing /\ NewEnough(new.answer, new.key) /\ new.key = k
    BY <1>2, <1>3 DEF ContextInv, ContextTypeOK, Injections, CacheFresh
  <2> HIDE DEF new
  <2>2. injection' = [injection EXCEPT ![t] = new]
    BY <1>3 DEF new
  <2>3. injection' \in [Agents -> Injections] /\ WaitsForItsKey' /\ AnswersFresh'
    BY <1>2, <1>3, <2>1, <2>2, MovingKeepsWaiting
  <2>4. ContextTypeOK'
    BY <1>2, <1>3, <2>3 DEF ContextInv, ContextTypeOK
  <2> QED BY <1>2, <1>3, <2>3, <2>4
          DEF ContextInv, ToldIsMade, BuildsFresh, CacheFresh, BeliefsFresh, BeliefsHaveKeys, NewEnough
<1>4. ASSUME NEW b \in Builds, build[b] = Nothing,
             build' = [build EXCEPT ![b] = [key |-> k, version |-> Nothing, overlapped |-> FALSE]],
             injection' = [injection EXCEPT ![t] = [at |-> "waiting", key |-> k, build |-> b, answer |-> Nothing]],
             UNCHANGED <<lastKey, current>>
      PROVE  ContextInv'
  <2> DEFINE new == [at |-> "waiting", key |-> k, build |-> b, answer |-> Nothing]
             begun == [key |-> k, version |-> Nothing, overlapped |-> FALSE]
  <2>1. begun \in BuildRecords /\ begun.key = k /\ begun.version = Nothing
    BY <1>2 DEF BuildRecords
  <2>2. begun # Nothing
    BY <2>1, BuildAssumption
  <2>3. new \in Injections /\ new.build = b /\ new.key = k /\ new.answer = Nothing
    BY <1>2 DEF Injections
  <2> HIDE DEF new, begun
  <2>4. build \in [Builds -> BuildRecords \cup {Nothing}] /\ build' = [build EXCEPT ![b] = begun]
        /\ injection' = [injection EXCEPT ![t] = new]
    BY <1>4 DEF ContextInv, ContextTypeOK, new, begun
  <2>5. \A c \in Builds : build'[c] = IF c = b THEN begun ELSE build[c]
    BY <2>4
  <2>6. injection' \in [Agents -> Injections] /\ WaitsForItsKey' /\ AnswersFresh'
    <3>1. NewEnough(new.answer, new.key)
      BY <2>3 DEF NewEnough
    <3>2. \A c \in Builds : build[c] # Nothing => build'[c] = build[c]
      BY <1>4, <2>5
    <3>3. build'[new.build] # Nothing /\ build'[new.build].key = new.key
      BY <2>1, <2>2, <2>3, <2>5
    <3> QED BY <1>2, <2>3, <2>4, <3>1, <3>2, <3>3, MovingKeepsWaiting
  <2>7. ContextTypeOK'
    <3>1. build' \in [Builds -> BuildRecords \cup {Nothing}]
      BY <2>1, <2>4
    <3>2. UNCHANGED <<lastKey, current>>
      BY <1>4
    <3> QED BY <1>2, <2>6, <3>1, <3>2 DEF ContextInv, ContextTypeOK
  <2>8. BuildsFresh'
    BY <1>2, <2>1, <2>5 DEF ContextInv, BuildsFresh
  <2> QED BY <1>2, <1>4, <2>6, <2>7, <2>8
          DEF ContextInv, ToldIsMade, CacheFresh, BeliefsFresh, BeliefsHaveKeys, NewEnough
<1>5. CASE /\ Reason(t, k, inHistory) \notin Refreshes
           /\ lastKey' = [lastKey EXCEPT ![t] = k] /\ current' = current \cup {t}
           /\ UNCHANGED <<injection, build>>
  <2>1. lastKey[t] = Nothing \/ (lastKey[t] = k /\ t \in current)
    BY <1>5 DEF Reason, Refreshes
  <2>2. belief[t] = Nothing \/ (lastKey[t] = k /\ t \in current)
    BY <2>1 DEF ContextInv, BeliefsHaveKeys
  <2>3. ContextTypeOK'
    BY <1>2, <1>5 DEF ContextInv, ContextTypeOK
  <2>4. \A a \in Agents : lastKey'[a] = IF a = t THEN k ELSE lastKey[a]
    BY <1>5 DEF ContextInv, ContextTypeOK
  <2>5. BeliefsFresh'
    BY <1>2, <1>5, <2>2, <2>4 DEF ContextInv, BeliefsFresh, NewEnough
  <2>6. k # Nothing
    BY <1>2, ContextAssumption DEF Keys
  <2>7. BeliefsHaveKeys'
    BY <1>2, <2>4, <2>6 DEF ContextInv, BeliefsHaveKeys
  <2> QED BY <1>2, <1>5, <2>3, <2>5, <2>7
          DEF ContextInv, ToldIsMade, WaitsForItsKey, BuildsFresh, CacheFresh, AnswersFresh, NewEnough
<1> QED BY <1>1, <1>3, <1>4, <1>5

LEMMA GivesUpKeepsInv ==
  ASSUME ContextInv, NEW t \in Agents, GivesUp(t)
  PROVE  ContextInv'
<1>1. /\ injection' = [injection EXCEPT ![t] = Idle]
      /\ UNCHANGED <<identity, structure, overview, build, told, change, lastKey, current, belief>>
  BY DEF GivesUp, cacheVars
<1>2. injection' \in [Agents -> Injections] /\ WaitsForItsKey' /\ AnswersFresh'
  BY <1>1, IdleIsInjection, MovingKeepsWaiting DEF NewEnough
<1>3. ContextTypeOK'
  BY <1>1, <1>2 DEF ContextInv, ContextTypeOK
<1> QED BY <1>1, <1>2, <1>3
        DEF ContextInv, ToldIsMade, BuildsFresh, CacheFresh, BeliefsFresh, BeliefsHaveKeys, NewEnough

LEMMA ReceiveKeepsInv ==
  ASSUME ContextInv, NEW t \in Agents, Receive(t)
  PROVE  ContextInv'
<1>1. /\ injection' = [injection EXCEPT ![t] = Idle]
      /\ UNCHANGED <<identity, structure, overview, build, told, change>>
  BY DEF Receive, cacheVars
<1>2. injection' \in [Agents -> Injections] /\ WaitsForItsKey' /\ AnswersFresh'
  BY <1>1, IdleIsInjection, MovingKeepsWaiting DEF NewEnough
<1>3. CASE injection[t].answer = Nothing
  <2>1. UNCHANGED <<belief, lastKey, current>>
    BY <1>3 DEF Receive
  <2>2. ContextTypeOK'
    BY <1>1, <1>2, <2>1 DEF ContextInv, ContextTypeOK
  <2> QED BY <1>1, <1>2, <2>1, <2>2
          DEF ContextInv, ToldIsMade, BuildsFresh, CacheFresh, BeliefsFresh, BeliefsHaveKeys, NewEnough
<1>4. CASE injection[t].answer # Nothing
  <2>1. /\ belief' = [belief EXCEPT ![t] = injection[t].answer]
        /\ lastKey' = [lastKey EXCEPT ![t] = injection[t].key]
        /\ current' = current \cup {t}
    BY <1>4 DEF Receive
  <2>2. /\ injection[t].key \in Keys /\ injection[t].key # Nothing
        /\ injection[t].answer \in Overviews \cup {Nothing}
        /\ NewEnough(injection[t].answer, injection[t].key)
    BY <1>4, ContextAssumption DEF ContextInv, ContextTypeOK, Injections, WaitsForItsKey, AnswersFresh, Keys
  <2>3. ContextTypeOK'
    BY <1>1, <1>2, <2>1, <2>2 DEF ContextInv, ContextTypeOK
  <2>4. \A a \in Agents : /\ lastKey'[a] = IF a = t THEN injection[t].key ELSE lastKey[a]
                          /\ belief'[a] = IF a = t THEN injection[t].answer ELSE belief[a]
    BY <2>1 DEF ContextInv, ContextTypeOK
  <2>5. BeliefsFresh'
    BY <1>1, <2>1, <2>2, <2>4 DEF ContextInv, BeliefsFresh, NewEnough
  <2>6. BeliefsHaveKeys'
    BY <2>2, <2>4 DEF ContextInv, BeliefsHaveKeys
  <2> QED BY <1>1, <1>2, <2>3, <2>5, <2>6 DEF ContextInv, ToldIsMade, BuildsFresh, CacheFresh, NewEnough
<1> QED BY <1>3, <1>4

-----------------------------------------------------------------------------
\* Every step keeps the invariant.
LEMMA StepKeepsInv == ContextInv /\ [ContextNext]_contextVars => ContextInv'
<1> SUFFICES ASSUME ContextInv, [ContextNext]_contextVars PROVE ContextInv'
  OBVIOUS
<1>1. CASE \E t \in Agents : StartChange(t) \/ MakeChange(t) \/ Announce(t)
  BY <1>1, StartChangeKeepsInv, MakeChangeKeepsInv, AnnounceKeepsInv
<1>2. CASE \E t \in Agents : Decide(t) \/ GivesUp(t) \/ Receive(t)
  BY <1>2, DecideKeepsInv, GivesUpKeepsInv, ReceiveKeepsInv
<1>3. CASE \E b \in Builds : BuildReads(b) \/ BuildEnds(b) \/ BuildFails(b)
  BY <1>3, BuildReadsKeepsInv, BuildEndsKeepsInv, BuildFailsKeepsInv
<1>4. CASE \E id \in Ids : Rename(id)
  <2>1. identity' \in Ids /\ UNCHANGED <<structure, cacheVars, change, injectorVars>>
    BY <1>4 DEF Rename
  <2>2. ContextTypeOK' /\ ToldIsMade'
    BY <2>1 DEF ContextInv, ContextTypeOK, ToldIsMade, cacheVars, injectorVars
  <2> QED BY <2>1, <2>2, FrameKeepsFresh DEF ContextInv
<1>5. CASE UNCHANGED contextVars
  <2>1. UNCHANGED <<identity, structure, cacheVars, change, injectorVars>>
    BY <1>5 DEF contextVars
  <2>2. ContextTypeOK' /\ ToldIsMade'
    BY <2>1 DEF ContextInv, ContextTypeOK, ToldIsMade, cacheVars, injectorVars
  <2> QED BY <2>1, <2>2, FrameKeepsFresh DEF ContextInv
<1> QED BY <1>1, <1>2, <1>3, <1>4, <1>5 DEF ContextNext

\* Every variable keeps its type (context/blueprint.ts, context-injection.ts).
THEOREM ContextTypesHold == ContextSpec => []ContextTypeOK
<1>1. ContextInv => ContextTypeOK
  BY DEF ContextInv
<1> QED BY <1>1, InitEstablishesInv, StepKeepsInv, PTL DEF ContextSpec

\* The cache is stale only where an invalidation overlapped a build
\* (getBlueprint, invalidateBlueprint).
THEOREM CacheHolds == ContextSpec => []StaleOnlyByOverlap
<1>1. ContextInv => StaleOnlyByOverlap
  BY DEF ContextInv, CacheFresh, NewEnough, StaleOnlyByOverlap
<1> QED BY <1>1, InitEstablishesInv, StepKeepsInv, PTL DEF ContextSpec

\* A tab that takes its overview for current is right, up to overlaps
\* (lastInjectedBlueprintRevision).
THEOREM TrustHolds == ContextSpec => []TrustedIsCurrent
<1>1. ContextInv => TrustedIsCurrent
  BY DEF ContextInv, BeliefsFresh, NewEnough, TrustedIsCurrent
<1> QED BY <1>1, InitEstablishesInv, StepKeepsInv, PTL DEF ContextSpec

-----------------------------------------------------------------------------
(* ModelChoice *)

(* A tab whose provider is not listed is at work, is passed by, or a timer  *)
(* will come to it.  The tabs that are being compacted or made matter too:  *)
(* they become free without a reconciliation.                               *)
NobodyForgotten ==
  listed # {} =>
    \A t \in Windows \ passedBy :
      work[t] \notin {"none", "running"} => chosen[t] \in listed \/ timers # {}

ChoiceInv == ChoiceTypeOK /\ NobodyForgotten

(* A reconciliation keeps the types of what it changes, and leaves no tab    *)
(* without a listed provider but those at work and those it passed by or     *)
(* only renewed.                                                             *)
LEMMA ReconcileSettles ==
  ASSUME ChoiceTypeOK, NEW providers \in SUBSET Providers, Reconcile(providers)
  PROVE  /\ chosen' \in [Windows -> Providers \cup {NoModel}]
         /\ outdated' \subseteq outdated
         /\ \A t \in Windows : chosen'[t] = NoModel <=> work[t] = "none"
         /\ passedBy' \subseteq Windows
         /\ providers # {} =>
              \A t \in Windows \ passedBy' : work[t] \notin {"none", "running"} => chosen'[t] \in providers
<1>1. PICK default \in (IF providers = {} THEN Providers ELSE providers) :
        /\ chosen' = [t \in Windows |-> IF t \in Free \ outdated THEN Swapped(t, providers, default) ELSE chosen[t]]
        /\ outdated' = outdated \ Free
        /\ passedBy' = (passedBy \ Free) \cup {t \in Windows : work[t] \in {"compacting", "creating"}}
                         \cup {t \in Free \cap outdated : chosen[t] \notin providers}
  BY DEF Reconcile
<1>2. default \in Providers
  BY <1>1
<1>3. \A t \in Free : chosen'[t] \in Providers /\ chosen[t] # NoModel
  BY <1>1, <1>2, ChoiceAssumption DEF Swapped, Free, ChoiceTypeOK
<1>4. \A t \in Windows \ Free : chosen'[t] = chosen[t]
  BY <1>1
<1>5. chosen' \in [Windows -> Providers \cup {NoModel}]
  BY <1>1, <1>3, <1>4 DEF ChoiceTypeOK
<1>6. \A t \in Windows : chosen'[t] = NoModel <=> work[t] = "none"
  BY <1>3, <1>4, ChoiceAssumption DEF ChoiceTypeOK, Free
<1>7. ASSUME providers # {}, NEW t \in Windows \ passedBy', work[t] \notin {"none", "running"}
      PROVE  chosen'[t] \in providers
  <2>1. t \in Free
    BY <1>1, <1>7 DEF Free, ChoiceTypeOK
  <2> QED BY <1>1, <1>7, <2>1 DEF Swapped
<1>8. passedBy' \subseteq Windows /\ outdated' \subseteq outdated
  BY <1>1 DEF ChoiceTypeOK, Free
<1> QED BY <1>5, <1>6, <1>7, <1>8

LEMMA ChoiceInitial == ChoiceInit => ChoiceInv
  BY DEF ChoiceInit, ChoiceInv, ChoiceTypeOK, NobodyForgotten

LEMMA ChoiceStep == ChoiceInv /\ [ChoiceNext]_choiceVars => ChoiceInv'
<1> SUFFICES ASSUME ChoiceInv, [ChoiceNext]_choiceVars PROVE ChoiceInv'
  OBVIOUS
<1> USE DEF ChoiceInv
<1>1. CASE PublishSnapshot
  <2>1. /\ offered \in SUBSET Providers /\ Reconcile(offered)
        /\ listed' = offered /\ UNCHANGED <<offered, work, timers>> /\ unrefreshed' = FALSE
    BY <1>1 DEF PublishSnapshot, ChoiceTypeOK
  <2> QED BY <2>1, ReconcileSettles DEF ChoiceTypeOK, NobodyForgotten
<1>c. CASE CatalogChanges
  BY <1>c DEF CatalogChanges, ChoiceTypeOK, NobodyForgotten
<1>2. ASSUME NEW p \in Providers, ProviderComes(p) \/ ProviderGoes(p) PROVE ChoiceInv'
  BY <1>2 DEF ProviderComes, ProviderGoes, ChoiceTypeOK, NobodyForgotten
<1>3. ASSUME NEW t \in Windows, CreateWindow(t) PROVE ChoiceInv'
  <2>1. PICK p \in Providers :
          /\ chosen' = [chosen EXCEPT ![t] = p]
          /\ passedBy' = IF p \in listed THEN passedBy ELSE passedBy \cup {t}
          /\ outdated' = outdated \/ outdated' = outdated \cup {t}
    BY <1>3 DEF CreateWindow
  <2>2. p # NoModel
    BY ChoiceAssumption
  <2> QED BY <1>3, <2>1, <2>2 DEF CreateWindow, ChoiceTypeOK, NobodyForgotten
<1>4. ASSUME NEW t \in Windows, WindowReady(t) PROVE ChoiceInv'
  BY <1>4 DEF WindowReady, ChoiceTypeOK, NobodyForgotten
<1>5. ASSUME NEW t \in Windows, AgentEnds(t) PROVE ChoiceInv'
  BY <1>5 DEF AgentEnds, ChoiceTypeOK, NobodyForgotten
<1>6. ASSUME NEW t \in Windows, Timer(t) PROVE ChoiceInv'
  <2>1. /\ listed \in SUBSET Providers /\ Reconcile(listed)
        /\ UNCHANGED <<offered, listed, work, unrefreshed>> /\ timers' \subseteq Windows
    BY <1>6 DEF Timer, ChoiceTypeOK
  <2> QED BY <2>1, ReconcileSettles DEF ChoiceTypeOK, NobodyForgotten
<1>7. ASSUME NEW t \in Windows, CompactionEnds(t) PROVE ChoiceInv'
  BY <1>7 DEF CompactionEnds, ChoiceTypeOK, NobodyForgotten
<1>8. ASSUME NEW t \in Windows, NEW p \in Providers, Choose(t, p) PROVE ChoiceInv'
  <2>1. p # NoModel
    BY ChoiceAssumption
  <2> QED BY <1>8, <2>1 DEF Choose, Free, ChoiceTypeOK, NobodyForgotten
<1>9. ASSUME NEW t \in Windows, NEW kind \in {"running", "compacting"}, Work(t, kind) PROVE ChoiceInv'
  BY <1>9 DEF Work, Free, ChoiceTypeOK, NobodyForgotten
<1>10. CASE UNCHANGED choiceVars
  BY <1>10 DEF choiceVars, ChoiceTypeOK, NobodyForgotten
<1> QED BY <1>1, <1>c, <1>2, <1>3, <1>4, <1>5, <1>6, <1>7, <1>8, <1>9, <1>10 DEF ChoiceNext

(* Every variable of the models of the tabs keeps its type, and a tab has a  *)
(* model just when it is there (createRuntime, reconcileRuntimeModels).      *)
THEOREM ChoiceTypesHold == ChoiceSpec => []ChoiceTypeOK
<1>1. ChoiceInv => ChoiceTypeOK
  BY DEF ChoiceInv
<1> QED BY <1>1, ChoiceInitial, ChoiceStep, PTL DEF ChoiceSpec

(* A free tab that was not passed by, nor given only the new form of its     *)
(* model, has a model of a listed provider when nothing is left to publish   *)
(* or to reconcile, for any tabs and providers                               *)
(* (reconcileRuntimeModels, the timer after agent_end).                      *)
THEOREM UsableHolds == ChoiceSpec => []FreeTabsUsable
<1>1. ChoiceInv => FreeTabsUsable
  BY DEF ChoiceInv, NobodyForgotten, FreeTabsUsable, AtRest, Free
<1> QED BY <1>1, ChoiceInitial, ChoiceStep, PTL DEF ChoiceSpec

-----------------------------------------------------------------------------
(* PythonWorker *)

OwnInput(c) == IF c \in WithInput THEN c ELSE PyNone
OwnResult(c) == [by |-> c, input |-> OwnInput(c)]

(* Two handlers that are at work in one worker are both mixed.              *)
Alone ==
  \A c \in PyCalls : \A d \in PyCalls : AtWork(c) /\ AtWork(d) /\ c # d => c \in mixed /\ d \in mixed

(* What a handler that is alone finds in Python at each of its awaits.      *)
GlobalsOfOne ==
  \A c \in PyCalls \ mixed : AtWork(c) =>
    /\ handler[c] = "json" => c \in WithInput /\ python.json = c
    /\ handler[c] \in {"input", "ready"} => python.input = OwnInput(c)
    /\ handler[c] = "ready" => python.result = PyNone
    /\ handler[c] = "ran" => python.result \in {PyNone, OwnResult(c)}

PythonInv == PythonTypeOK /\ Alone /\ GlobalsOfOne /\ AnswersOwnInput

LEMMA PythonInitial == PythonInit => PythonInv
<1> SUFFICES ASSUME PythonInit PROVE PythonInv
  OBVIOUS
<1>1. \A c \in PyCalls : ~AtWork(c) /\ answer[c].value = PyNone
  BY DEF PythonInit, AtWork, Unsettled
<1>2. PyNone \in Values /\ PyNone \in Results
  BY DEF Values, Results
<1>3. FreshPython \in [json : Values, input : Values, result : Results]
  BY <1>2 DEF FreshPython
<1>4. Unsettled \in [kind : {"none", "ok", "failed", "timeout", "aborted"}, value : Results]
  BY <1>2 DEF Unsettled
<1>5. PythonTypeOK
  <2>1. worker \in 0 .. workers /\ workers \in Nat /\ postedTo \in [PyCalls -> 0 .. workers]
    BY DEF PythonInit
  <2>2. answer \in [PyCalls -> [kind : {"none", "ok", "failed", "timeout", "aborted"}, value : Results]]
    BY <1>4 DEF PythonInit
  <2>3. handler \in [PyCalls -> Handlers]
    BY DEF PythonInit, Handlers
  <2> QED BY <1>3, <2>1, <2>2, <2>3 DEF PythonInit, PythonTypeOK
<1> QED BY <1>1, <1>5 DEF PythonInv, Alone, GlobalsOfOne, AnswersOwnInput

(* Steps of the taskpane leave what a handler has set.                      *)
LEMMA PostStep == ASSUME PythonInv, NEW c \in PyCalls, PostCall(c) PROVE PythonInv'
<1> USE DEF PythonInv
<1>0. FreshPython \in [json : Values, input : Values, result : Results]
  BY DEF FreshPython, Values, Results
<1>1. PythonTypeOK'
  <2>1. /\ waiting' \subseteq PyCalls /\ mixed' \subseteq PyCalls /\ UNCHANGED answer
        /\ handler' \in [PyCalls -> Handlers]
    BY DEF PostCall, PythonTypeOK, Handlers
  <2>2. CASE worker # 0
    BY <2>1, <2>2 DEF PostCall, PythonTypeOK
  <2>3. CASE worker = 0
    <3>1. workers' = workers + 1 /\ worker' = workers' /\ postedTo' = [postedTo EXCEPT ![c] = workers']
          /\ python' = FreshPython /\ runtime' = FALSE
      BY <2>3 DEF PostCall
    <3>2. workers \in Nat /\ worker' \in 0 .. workers' /\ (0 .. workers) \subseteq 0 .. workers' /\ workers' \in Nat
      BY <3>1 DEF PythonTypeOK
    <3>3. postedTo' \in [PyCalls -> 0 .. workers']
      BY <3>1, <3>2 DEF PythonTypeOK
    <3> QED BY <1>0, <2>1, <3>1, <3>2, <3>3 DEF PythonTypeOK
  <2> QED BY <2>2, <2>3
<1>2. handler'[c] = "posted" /\ \A d \in PyCalls \ {c} : handler'[d] = handler[d] /\ postedTo'[d] = postedTo[d]
  BY DEF PostCall, PythonTypeOK
<1>3. CASE worker # 0
  <2>1. ASSUME NEW d \in PyCalls \ {c} PROVE AtWork(d)' <=> AtWork(d)
    BY <1>2, <1>3 DEF PostCall, AtWork
  <2>2. Alone'
    BY <1>2, <1>3, <2>1 DEF PostCall, PythonTypeOK, Alone
  <2>3. GlobalsOfOne' /\ AnswersOwnInput'
    BY <1>2, <1>3, <2>1 DEF PostCall, GlobalsOfOne, AnswersOwnInput, OwnInput, OwnResult
  <2> QED BY <1>1, <2>2, <2>3
<1>4. CASE worker = 0
  <2>1. workers' = workers + 1 /\ worker' = workers' /\ workers \in Nat /\ \A d \in PyCalls : postedTo[d] \in 0 .. workers
    BY <1>4 DEF PostCall, PythonTypeOK
  <2>2. ASSUME NEW d \in PyCalls \ {c} PROVE ~AtWork(d)'
    <3>1. postedTo'[d] \in 0 .. workers
      BY <1>2, <2>1
    <3> QED BY <2>1, <3>1 DEF AtWork
  <2>3. Alone'
    BY <2>2 DEF Alone
  <2>4. GlobalsOfOne'
    BY <1>2, <2>2 DEF GlobalsOfOne
  <2>5. AnswersOwnInput'
    BY DEF PostCall, AnswersOwnInput, PythonTypeOK
  <2> QED BY <1>1, <2>3, <2>4, <2>5
<1> QED BY <1>3, <1>4

LEMMA SettleStep ==
  ASSUME PythonInv, (\E c \in PyCalls : CallRunsLate(c) \/ AbortCall(c)) \/ WorkerError
  PROVE  PythonInv'
<1> USE DEF PythonInv
<1>1. /\ worker' \in {0, worker} /\ UNCHANGED <<workers, postedTo, handler, python, runtime, mixed>>
      /\ waiting' \subseteq waiting
  BY DEF CallRunsLate, AbortCall, WorkerError, SettleCall
<1>2. /\ answer' \in [PyCalls -> [kind : {"none", "ok", "failed", "timeout", "aborted"}, value : Results]]
      /\ \A d \in PyCalls : answer'[d].value = answer[d].value
  <2>1. CASE WorkerError
    BY <2>1 DEF WorkerError, PythonTypeOK
  <2>2. ASSUME NEW c \in PyCalls, CallRunsLate(c) \/ AbortCall(c)
        PROVE  /\ answer' \in [PyCalls -> [kind : {"none", "ok", "failed", "timeout", "aborted"}, value : Results]]
               /\ \A d \in PyCalls : answer'[d].value = answer[d].value
    BY <2>2 DEF CallRunsLate, AbortCall, SettleCall, PythonTypeOK
  <2> QED BY <2>1, <2>2
<1>3. worker' \in 0 .. workers'
  BY <1>1 DEF PythonTypeOK
<1>4. PythonTypeOK'
  BY <1>1, <1>2, <1>3 DEF PythonTypeOK
<1>5. \A d \in PyCalls : AtWork(d)' => AtWork(d)
  BY <1>1 DEF AtWork
<1> QED BY <1>1, <1>2, <1>4, <1>5 DEF Alone, GlobalsOfOne, AnswersOwnInput, OwnInput, OwnResult

(* A handler that moves on: who is at work changes by at most itself, so    *)
(* only what it finds next is to be shown, if it is alone.                  *)
LEMMA HandlerMoves ==
  ASSUME PythonInv, NEW c \in PyCalls, NEW from \in Handlers, NEW to \in Handlers \ {"none"}, MovesTo(c, from, to)
  PROVE  /\ Alone' /\ UNCHANGED <<worker, workers, postedTo, mixed>> /\ AtWork(c) /\ handler[c] = from
         /\ handler' \in [PyCalls -> Handlers] /\ handler'[c] = to
         /\ \A d \in PyCalls \ mixed : AtWork(d)' => d = c \/ (AtWork(d) /\ c \in mixed)
         /\ \A d \in PyCalls \ {c} : handler'[d] = handler[d]
         /\ c \notin mixed => \A d \in PyCalls \ {c} : ~AtWork(d)'
<1>1. /\ UNCHANGED <<worker, workers, postedTo, mixed>> /\ AtWork(c) /\ handler[c] = from
      /\ handler' = [handler EXCEPT ![c] = to] /\ handler \in [PyCalls -> Handlers]
  BY DEF MovesTo, PythonInv, PythonTypeOK
<1>2. \A d \in PyCalls : AtWork(d)' => AtWork(d)
  BY <1>1 DEF AtWork
<1> QED BY <1>1, <1>2 DEF PythonInv, Alone

(* The answer a handler gives, if it is its own.                            *)
LEMMA ReplyOwn ==
  ASSUME PythonInv, NEW c \in PyCalls, NEW kind \in {"ok", "failed"}, NEW value \in Results, Reply(c, kind, value),
         UNCHANGED mixed, c \notin mixed => value \in {PyNone, OwnResult(c)}
  PROVE  /\ AnswersOwnInput' /\ waiting' \subseteq PyCalls
         /\ answer' \in [PyCalls -> [kind : {"none", "ok", "failed", "timeout", "aborted"}, value : Results]]
<1>1. CASE c \in waiting
  BY <1>1 DEF Reply, PythonInv, PythonTypeOK, AnswersOwnInput, OwnResult, OwnInput
<1>2. CASE c \notin waiting
  BY <1>2 DEF Reply, PythonInv, PythonTypeOK, AnswersOwnInput
<1> QED BY <1>1, <1>2

LEMMA WorkStep ==
  ASSUME PythonInv, NEW c \in PyCalls,
         \/ LoadPython(c) \/ LoadingFails(c) \/ SetInput(c) \/ ParseInput(c) \/ Prepare(c)
         \/ RunScript(c) \/ ScriptRaises(c) \/ CollectResult(c)
  PROVE  PythonInv'
<1>1. PICK from \in Handlers, to \in Handlers \ {"none"} : MovesTo(c, from, to)
  BY DEF LoadPython, LoadingFails, SetInput, ParseInput, Prepare, RunScript, ScriptRaises, CollectResult, Handlers
<1>2. /\ Alone' /\ UNCHANGED <<worker, workers, postedTo, mixed>> /\ AtWork(c) /\ handler[c] = from
      /\ handler' \in [PyCalls -> Handlers] /\ handler'[c] = to
      /\ \A d \in PyCalls \ mixed : AtWork(d)' => d = c \/ (AtWork(d) /\ c \in mixed)
      /\ \A d \in PyCalls \ {c} : handler'[d] = handler[d]
      /\ c \notin mixed => \A d \in PyCalls \ {c} : ~AtWork(d)'
  BY <1>1, HandlerMoves
<1>3. PythonTypeOK /\ Alone /\ GlobalsOfOne /\ AnswersOwnInput
  BY DEF PythonInv
<1>4. \A d \in PyCalls \ mixed : d # c => ~AtWork(d)'
  BY <1>2, <1>3 DEF Alone
<1>5. PyNone \in Results /\ PyNone \in Values /\ c \in Values
  BY DEF Results, Values
<1>6. SUFFICES ASSUME TRUE
      PROVE /\ c \notin mixed =>
                 /\ handler'[c] = "json" => c \in WithInput /\ python'.json = c
                 /\ handler'[c] \in {"input", "ready"} => python'.input = OwnInput(c)
                 /\ handler'[c] = "ready" => python'.result = PyNone
                 /\ handler'[c] = "ran" => python'.result \in {PyNone, OwnResult(c)}
            /\ AnswersOwnInput' /\ waiting' \subseteq PyCalls
            /\ answer' \in [PyCalls -> [kind : {"none", "ok", "failed", "timeout", "aborted"}, value : Results]]
            /\ python' \in [json : Values, input : Values, result : Results] /\ runtime' \in BOOLEAN
  BY <1>2, <1>3, <1>4 DEF PythonInv, PythonTypeOK, GlobalsOfOne, OwnInput, OwnResult
<1>7. CASE LoadPython(c)
  BY <1>2, <1>3, <1>7 DEF LoadPython, MovesTo, PythonTypeOK, AnswersOwnInput
<1>8. CASE LoadingFails(c)
  <2>1. handler'[c] = "over" /\ UNCHANGED <<python, runtime>> /\ Reply(c, "failed", PyNone)
    BY <1>2, <1>3, <1>8 DEF LoadingFails, MovesTo, PythonTypeOK
  <2> QED BY <1>2, <1>3, <1>5, <2>1, ReplyOwn DEF PythonTypeOK
<1>9. CASE SetInput(c)
  BY <1>2, <1>3, <1>5, <1>9 DEF SetInput, MovesTo, PythonTypeOK, AnswersOwnInput, OwnInput
<1>10. CASE ParseInput(c)
  <2>1. CASE python.json = PyNone
    <3>1. handler'[c] = "over" /\ UNCHANGED <<python, runtime>> /\ Reply(c, "failed", PyNone)
      BY <1>2, <1>3, <1>10, <2>1 DEF ParseInput, MovesTo, PythonTypeOK
    <3> QED BY <1>2, <1>3, <1>5, <3>1, ReplyOwn DEF PythonTypeOK
  <2>2. CASE python.json # PyNone
    BY <1>2, <1>3, <1>5, <1>10, <2>2 DEF ParseInput, MovesTo, PythonTypeOK, AnswersOwnInput, GlobalsOfOne, OwnInput
  <2> QED BY <2>1, <2>2
<1>11. CASE Prepare(c)
  BY <1>2, <1>3, <1>5, <1>11 DEF Prepare, MovesTo, PythonTypeOK, AnswersOwnInput, GlobalsOfOne, OwnInput
<1>12. ASSUME RunScript(c) \/ ScriptRaises(c)
       PROVE  /\ python' \in [json : Values, input : Values, result : Results] /\ UNCHANGED runtime
              /\ c \notin mixed => python'.result \in {PyNone, OwnResult(c)}
  <2>1. python.input \in Values /\ handler[c] = "ready"
    BY <1>3, <1>12 DEF RunScript, ScriptRaises, MovesTo, PythonTypeOK
  <2>2. [by |-> c, input |-> python.input] \in Results
    BY <2>1 DEF Results
  <2>3. python' \in {python, [python EXCEPT !.result = [by |-> c, input |-> python.input]]} /\ UNCHANGED runtime
    BY <1>12 DEF RunScript, ScriptRaises
  <2>4. c \notin mixed => python.result = PyNone /\ python.input = OwnInput(c)
    BY <1>2, <1>3, <2>1 DEF GlobalsOfOne
  <2> QED BY <1>3, <2>2, <2>3, <2>4 DEF PythonTypeOK, OwnResult
<1>13. CASE RunScript(c)
  BY <1>2, <1>3, <1>12, <1>13 DEF RunScript, MovesTo, PythonTypeOK, AnswersOwnInput
<1>14. CASE ScriptRaises(c)
  <2>1. handler'[c] = "over" /\ Reply(c, "failed", PyNone)
    BY <1>2, <1>3, <1>14 DEF ScriptRaises, MovesTo, PythonTypeOK
  <2> QED BY <1>2, <1>3, <1>5, <1>12, <1>14, <2>1, ReplyOwn DEF PythonTypeOK
<1>15. CASE CollectResult(c)
  <2>1. handler[c] = "ran" /\ handler'[c] = "over" /\ Reply(c, "ok", python.result) /\ UNCHANGED <<python, runtime>>
    BY <1>2, <1>3, <1>15 DEF CollectResult, MovesTo, PythonTypeOK
  <2>2. python.result \in Results /\ (c \notin mixed => python.result \in {PyNone, OwnResult(c)})
    BY <1>2, <1>3, <2>1 DEF PythonTypeOK, GlobalsOfOne
  <2> QED BY <1>2, <1>3, <2>1, <2>2, ReplyOwn DEF PythonTypeOK
<1> QED BY <1>7, <1>8, <1>9, <1>10, <1>11, <1>13, <1>14, <1>15

LEMMA PythonStep == PythonInv /\ [PythonNext]_pythonVars => PythonInv'
<1> SUFFICES ASSUME PythonInv, [PythonNext]_pythonVars PROVE PythonInv'
  OBVIOUS
<1>1. CASE UNCHANGED pythonVars
  BY <1>1 DEF pythonVars, PythonInv, PythonTypeOK, Alone, GlobalsOfOne, AnswersOwnInput, AtWork, OwnInput, OwnResult
<1> QED BY <1>1, PostStep, SettleStep, WorkStep DEF PythonNext

(* Every variable of the Python worker keeps its type.                       *)
THEOREM PythonTypesHold == PythonSpec => []PythonTypeOK
<1>1. PythonInv => PythonTypeOK
  BY DEF PythonInv
<1> QED BY <1>1, PythonInitial, PythonStep, PTL DEF PythonSpec

(* A call in whose Python no other handler was at work meanwhile is answered *)
(* with the result of its own script on its own input, for any number of     *)
(* calls, errors and aborts before it (handleRun).                           *)
THEOREM OwnInputHolds == PythonSpec => []AnswersOwnInput
<1>1. PythonInv => AnswersOwnInput
  BY DEF PythonInv
<1> QED BY <1>1, PythonInitial, PythonStep, PTL DEF PythonSpec

-----------------------------------------------------------------------------
(* ExtensionManager *)

LEMMA PlaceFound ==
  ASSUME NEW s \in Seq(Extensions), NEW e \in ToSet(s)
  PROVE  LET i == CHOOSE n \in DOMAIN s : s[n] = e IN i \in 1..Len(s) /\ s[i] = e
<1>1. \E n \in DOMAIN s : s[n] = e
  BY DEF ToSet
<1>2. DOMAIN s = 1..Len(s)
  OBVIOUS
<1> QED BY <1>1, <1>2

-----------------------------------------------------------------------------
LEMMA BootApart == Boot \in Processes /\ Boot \notin Requests /\ Requests \subseteq Processes /\ Requests \subseteq Instances /\ Extensions \subseteq Instances /\ NoInstance \notin Instances /\ Requests \cap Extensions = {}
  BY ExtensionAssumption DEF Processes, Instances

(* The instance of a call of which something is loaded. *)
LEMMA InstanceTyped ==
  ASSUME ExtensionTypeOK, NEW p \in Processes, p = Boot => subject[Boot] \in Extensions
  PROVE  Instance(p) \in Instances
  BY BootApart DEF Instance, Processes

(* The variables of the calls.  *)
LEMMA AtTyped ==
  ASSUME ExtensionTypeOK, NEW p \in Processes, NEW s \in Stages, At(p, s)
  PROVE  pc' \in [Processes -> Stages] /\ pc'[p] = s /\ \A q \in Processes \ {p} : pc'[q] = pc[q]
  BY DEF At, ExtensionTypeOK

LEMMA AskTyped ==
  ASSUME ExtensionTypeOK, AskRefresh
  PROVE  /\ requested' \in BOOLEAN /\ (requested' => refresher' # "off") /\ refresher' \in {"off", "building", "built"}
         /\ refresher' # "off" /\ (refresher # "off" => requested')
         /\ built' = built /\ agentTools' = agentTools
  BY DEF AskRefresh, ExtensionTypeOK

LEMMA DeactivateTyped ==
  ASSUME ExtensionTypeOK, NEW p \in Processes, NEW e \in Extensions, NEW s \in Stages, Deactivate(p, e, s)
  PROVE  /\ pc' \in [Processes -> Stages] /\ pc'[p] \in {s, "stop"} /\ \A q \in Processes \ {p} : pc'[q] = pc[q]
         /\ victim' \in [Processes -> MaybeInstance]
         /\ activeStates' \in [Extensions -> MaybeInstance]
         /\ life' \in [Instances -> {"none", "loading", "live", "stopping", "gone"}]
         /\ unsettled' \subseteq Extensions
<1>0. unsettled' \subseteq Extensions
  BY DEF Deactivate, ExtensionTypeOK
<1>1. CASE activeStates[e] = NoInstance
  BY <1>0, <1>1 DEF Deactivate, At, ExtensionTypeOK
<1>2. CASE activeStates[e] # NoInstance
  <2>1. activeStates[e] \in Instances
    BY <1>2 DEF ExtensionTypeOK, MaybeInstance
  <2>2. At(p, "stop") /\ "stop" \in Stages
    BY <1>2 DEF Deactivate, Stages
  <2> QED BY <1>0, <1>2, <2>1, <2>2, AtTyped DEF Deactivate, ExtensionTypeOK, MaybeInstance
<1> QED BY <1>1, <1>2

LEMMA RemoveToolTyped ==
  ASSUME ExtensionTypeOK, NEW p \in Processes, NEW i, NEW e \in Extensions, NEW s \in Stages, RemoveTool(p, i, e, s)
  PROVE  /\ pc' \in [Processes -> Stages] /\ pc'[p] \in {s, "settle"} /\ \A q \in Processes \ {p} : pc'[q] = pc[q]
         /\ tool' \in [Extensions -> MaybeInstance] /\ owners' \subseteq Instances
         /\ requested' \in BOOLEAN /\ (requested' => refresher' # "off") /\ refresher' \in {"off", "building", "built"}
         /\ built' = built /\ agentTools' = agentTools
<1>1. CASE i \in owners /\ tool[e] # NoInstance
  <2>1. "settle" \in Stages
    BY DEF Stages
  <2> QED BY <1>1, <2>1, AskTyped, AtTyped DEF RemoveTool, ExtensionTypeOK, MaybeInstance
<1>2. CASE ~(i \in owners /\ tool[e] # NoInstance)
  BY <1>2, AtTyped DEF RemoveTool, ExtensionTypeOK, toolPassVars
<1> QED BY <1>1, <1>2

LEMMA ForgetTyped ==
  ASSUME ExtensionTypeOK, NEW p \in Processes, Forget(p)
  PROVE  /\ op' \in [Processes -> Operations \cup {"none"}] /\ index' \in [Processes -> Nat]
         /\ \A q \in Processes \ {p} : op'[q] = op[q] /\ index'[q] = index[q]
         /\ op'[p] = IF pc'[p] = "done" THEN "none" ELSE op[p]
         /\ index'[p] = IF pc'[p] = "done" THEN 1 ELSE index[p]
  BY DEF Forget, ExtensionTypeOK

LEMMA StagesListed ==
  /\ \A p : Over(p) \in Stages /\ AfterCleanUp(p) \in Stages
  /\ {"new", "persist", "stop", "settle", "load", "loading", "clear", "store", "next", "done"} = Stages
  BY DEF Over, AfterCleanUp, Stages

(* A call under way is about an extension, and initialize() too. *)
Begun == (\A p \in Processes : InFlight(p) => subject[p] \in Extensions) /\ index[Boot] >= 1

TypeInv == ExtensionTypeOK /\ Begun

LEMMA CallTyped ==
  ASSUME TypeInv, NEW p \in Requests, NEW e \in Extensions, Call(p, e)
  PROVE  TypeInv'
<1> USE BootApart, StagesListed DEF TypeInv
<1>1. PICK o \in Operations :
       /\ op' = [op EXCEPT ![p] = o]
       /\ \/ o = "install" /\ CallInstall(p, e)
          \/ o = "enable" /\ CallEnable(p, e)
          \/ o = "disable" /\ CallDisable(p, e)
          \/ o = "reload" /\ CallReload(p, e)
          \/ o = "grant" /\ CallGrant(p, e)
          \/ o = "uninstall" /\ CallUninstall(p, e)
  BY DEF Call
<1>2. /\ subject' = [subject EXCEPT ![p] = e]
      /\ NoteOverlap(p, e)
      /\ UNCHANGED <<ending, tool, owners, changed, dropped, toolPassVars, displaced>>
  BY DEF Call
<1>3. /\ pc' \in [Processes -> Stages] /\ \A q \in Processes \ {p} : pc'[q] = pc[q]
      /\ victim' \in [Processes -> MaybeInstance]
      /\ activeStates' \in [Extensions -> MaybeInstance]
      /\ life' \in [Instances -> {"none", "loading", "live", "stopping", "gone"}]
  <2>1. CASE o \in {"install", "enable", "disable", "grant"}
    <3>1. At(p, "persist") /\ UNCHANGED <<activeStates, life, victim>>
      BY <2>1, <1>1 DEF CallInstall, CallEnable, CallDisable, CallGrant
    <3> QED BY <3>1, AtTyped DEF ExtensionTypeOK
  <2>2. CASE o = "reload"
    <3>1. CallReload(p, e)
      BY <2>2, <1>1
    <3> QED BY <3>1, DeactivateTyped DEF CallReload
  <2>3. CASE o = "uninstall"
    <3>1. CallUninstall(p, e)
      BY <2>3, <1>1
    <3> QED BY <3>1, DeactivateTyped DEF CallUninstall
  <2> QED BY <1>1, <2>1, <2>2, <2>3
<1>4. entries' \in Seq(Extensions) /\ IsInjective(entries') /\ enabled' \subseteq Extensions
  <2>1. CASE CallInstall(p, e)
    BY <2>1, AppendAdds DEF CallInstall, ExtensionTypeOK
  <2>2. CASE ~CallInstall(p, e)
    <3>1. entries' = entries /\ (enabled' \subseteq enabled \cup {e})
      BY <1>1, <2>2 DEF CallEnable, CallDisable, CallReload, CallGrant, CallUninstall, registryVars
    <3> QED BY <3>1 DEF ExtensionTypeOK
  <2> QED BY <2>1, <2>2
<1>5. index' \in [Processes -> Nat] /\ index'[Boot] = index[Boot]
  <2>1. CASE CallUninstall(p, e)
    <3> DEFINE i == CHOOSE n \in DOMAIN entries : entries[n] = e
    <3>1. i \in 1..Len(entries)
      BY <2>1, PlaceFound DEF CallUninstall, ExtensionTypeOK
    <3>2. index' = [index EXCEPT ![p] = i]
      BY <2>1 DEF CallUninstall
    <3> HIDE DEF i
    <3> QED BY <3>1, <3>2 DEF ExtensionTypeOK
  <2>2. CASE ~CallUninstall(p, e)
    BY <1>1, <2>2 DEF CallEnable, CallDisable, CallReload, CallGrant, CallInstall, ExtensionTypeOK
  <2> QED BY <2>1, <2>2
<1>6. op' \in [Processes -> Operations \cup {"none"}] /\ subject' \in [Processes -> Extensions \cup {NoInstance}]
  BY <1>1, <1>2 DEF ExtensionTypeOK
<1>7. overlapped' \subseteq Extensions /\ unsettled' \subseteq Extensions
  <2>1. unsettled' \in {unsettled, unsettled \ {e}}
    BY <1>1 DEF CallInstall, CallEnable, CallDisable, CallGrant, CallReload, CallUninstall, Deactivate
  <2> QED BY <1>2, <2>1 DEF NoteOverlap, ExtensionTypeOK
<1>8. ExtensionTypeOK'
  BY <1>2, <1>3, <1>4, <1>5, <1>6, <1>7 DEF ExtensionTypeOK, toolPassVars
<1>9. Begun'
  BY <1>2, <1>3, <1>5 DEF Begun, InFlight, ExtensionTypeOK
<1> QED BY <1>8, <1>9

LEMMA BootTyped ==
  ASSUME TypeInv, BootNext \/ BootEnds
  PROVE  TypeInv'
<1> USE BootApart, StagesListed DEF TypeInv
<1>1. CASE BootEnds
  <2>1. /\ pc' \in [Processes -> Stages] /\ pc'[Boot] = "done" /\ \A q \in Processes \ {Boot} : pc'[q] = pc[q]
    BY <1>1, AtTyped DEF BootEnds
  <2> QED BY <1>1, <2>1 DEF BootEnds, ExtensionTypeOK, Begun, InFlight, registryVars, loadVars, toolPassVars, ghosts
<1>2. CASE BootNext
  <2> DEFINE e == entries[index[Boot]]
  <2>1. e \in Extensions
    <3>1. index[Boot] \in Nat /\ index[Boot] <= Len(entries)
      BY <1>2 DEF BootNext, ExtensionTypeOK
    <3>2. entries[index[Boot]] \in Extensions \/ index[Boot] = 0
      BY <3>1 DEF ExtensionTypeOK
    <3> QED BY <3>1, <3>2 DEF Begun
  <2> HIDE DEF e
  <2>2. index' = [index EXCEPT ![Boot] = @ + 1]
    BY <1>2 DEF BootNext
  <2>3. UNCHANGED <<op, ending, registryVars, tool, owners, changed, dropped, toolPassVars, displaced>>
    BY <1>2 DEF BootNext
  <2>4. CASE e \in enabled
    <3>1. subject' = [subject EXCEPT ![Boot] = e] /\ Deactivate(Boot, e, "load") /\ NoteOverlap(Boot, e)
      BY <1>2, <2>4 DEF BootNext, e
    <3>2. overlapped' \subseteq Extensions
      BY <3>1, <2>1 DEF NoteOverlap, ExtensionTypeOK
    <3> QED BY <2>1, <2>2, <2>3, <3>1, <3>2, DeactivateTyped DEF Begun, InFlight, ExtensionTypeOK, registryVars, toolPassVars
  <2>5. CASE e \notin enabled
    <3>1. UNCHANGED <<subject, pc, activeStates, life, victim, overlapped, unsettled>>
      BY <1>2, <2>5 DEF BootNext, e
    <3> QED BY <2>2, <2>3, <3>1 DEF Begun, InFlight, ExtensionTypeOK, registryVars, toolPassVars
  <2> QED BY <2>4, <2>5
<1> QED BY <1>1, <1>2

LEMMA StepTyped ==
  ASSUME TypeInv, NEW p \in Processes, CallStep(p)
  PROVE  TypeInv'
<1> USE BootApart DEF TypeInv
<1>0. ASSUME InFlight(p) PROVE subject[p] \in Extensions /\ Instance(p) \in Instances /\ index[Boot] \in Nat \ {0}
  BY <1>0, InstanceTyped DEF Begun, ExtensionTypeOK
<1>s. \A q : Over(q) \in Stages /\ AfterCleanUp(q) \in Stages
  BY StagesListed
<1>t. {"new", "persist", "stop", "settle", "load", "loading", "clear", "store", "next", "done"} = Stages
  BY StagesListed
<1>f. ASSUME Forget(p) PROVE op' \in [Processes -> Operations \cup {"none"}] /\ index' \in [Processes -> Nat] /\ index'[Boot] >= 1
  BY <1>f, ForgetTyped DEF Begun
<1>1. CASE Persisted(p)
  <2>1. subject[p] \in Extensions
    BY <1>1, <1>0 DEF Persisted, InFlight
  <2>2. pc' \in [Processes -> Stages] /\ (\A q \in Processes \ {p} : pc'[q] = pc[q]) /\ victim' \in [Processes -> MaybeInstance]
         /\ activeStates' \in [Extensions -> MaybeInstance]
         /\ life' \in [Instances -> {"none", "loading", "live", "stopping", "gone"}]
         /\ unsettled' \subseteq Extensions
    <3>1. CASE op[p] = "grant" /\ subject[p] \notin enabled \cap ToSet(entries)
      <4>1. At(p, "done") /\ UNCHANGED <<activeStates, life, victim, unsettled>>
        BY <3>1, <1>1 DEF Persisted
      <4> QED BY <4>1, <1>t, AtTyped DEF ExtensionTypeOK
    <3>2. CASE ~(op[p] = "grant" /\ subject[p] \notin enabled \cap ToSet(entries))
      <4>1. Deactivate(p, subject[p], IF op[p] = "disable" THEN "done" ELSE "load")
        BY <3>2, <1>1 DEF Persisted
      <4>2. (IF op[p] = "disable" THEN "done" ELSE "load") \in Stages
        BY <1>t
      <4> QED BY <4>1, <4>2, <2>1, DeactivateTyped
    <3> QED BY <3>1, <3>2
  <2>3. UNCHANGED <<subject, ending, registryVars, tool, owners, changed, dropped, toolPassVars, overlapped, displaced>> /\ Forget(p)
    BY <1>1 DEF Persisted
  <2> QED BY <2>1, <2>2, <2>3, <1>f DEF Begun, InFlight, ExtensionTypeOK, registryVars, toolPassVars
<1>2. CASE Stopped(p) \/ StopFails(p)
  <2>1. subject[p] \in Extensions
    BY <1>2, <1>0 DEF Stopped, StopFails, InFlight
  <2>2. \E s \in Stages : RemoveTool(p, victim[p], subject[p], s)
    BY <1>2, <1>s DEF Stopped, StopFails
  <2>3. life' \in [Instances -> {"none", "loading", "live", "stopping", "gone"}] /\ victim' \in [Processes -> MaybeInstance]
    BY <1>2 DEF Stopped, StopFails, ExtensionTypeOK, MaybeInstance
  <2>4. UNCHANGED <<subject, registryVars, activeStates, changed, dropped, ghosts>> /\ Forget(p) /\ ending' \subseteq Processes
    BY <1>2 DEF Stopped, StopFails, ExtensionTypeOK
  <2> QED BY <2>1, <2>2, <2>3, <2>4, <1>f, RemoveToolTyped DEF Begun, InFlight, ExtensionTypeOK, registryVars, ghosts
<1>3. CASE Settled(p)
  <2>1. subject[p] \in Extensions
    BY <1>3, <1>0 DEF Settled, InFlight
  <2>2. At(p, AfterCleanUp(p)) /\ UNCHANGED <<subject, victim, registryVars, loadVars, toolPassVars, ghosts>> /\ Forget(p) /\ ending' \subseteq ending
    BY <1>3 DEF Settled
  <2> QED BY <2>1, <2>2, <1>f, <1>s, AtTyped DEF Begun, InFlight, ExtensionTypeOK, registryVars, loadVars, toolPassVars, ghosts
<1>4. CASE LoadStarts(p)
  <2>1. subject[p] \in Extensions /\ Instance(p) \in Instances
    BY <1>4, <1>0 DEF LoadStarts, InFlight
  <2>2. At(p, "loading") /\ life' = [life EXCEPT ![Instance(p)] = "loading"]
        /\ UNCHANGED <<op, subject, victim, index, ending, registryVars, activeStates, tool, owners, changed, dropped, toolPassVars, ghosts>>
    BY <1>4 DEF LoadStarts
  <2> QED BY <2>1, <2>2, <1>t, AtTyped DEF Begun, InFlight, ExtensionTypeOK, registryVars, loadVars, toolPassVars, ghosts
<1>5. CASE LoadOk(p)
  <2>1. subject[p] \in Extensions /\ Instance(p) \in Instances
    BY <1>5, <1>0 DEF LoadOk, InFlight
  <2>2. (\E s \in Stages : At(p, s)) /\ ending' \subseteq Processes
    BY <1>5, <1>s, <1>t DEF LoadOk, ExtensionTypeOK
  <2>3. requested' \in BOOLEAN /\ (requested' => refresher' # "off") /\ refresher' \in {"off", "building", "built"}
         /\ built' = built /\ agentTools' = agentTools
    BY <1>5, AskTyped DEF LoadOk, ExtensionTypeOK, toolPassVars
  <2>4. activeStates' \in [Extensions -> MaybeInstance] /\ life' \in [Instances -> {"none", "loading", "live", "stopping", "gone"}]
        /\ changed' \subseteq Instances
    BY <1>5, <2>1 DEF LoadOk, ExtensionTypeOK, MaybeInstance
  <2>5. Forget(p) /\ UNCHANGED <<subject, victim, registryVars, tool, owners, dropped, ghosts>>
    BY <1>5 DEF LoadOk
  <2> QED BY <2>1, <2>2, <2>3, <2>4, <2>5, <1>f, AtTyped DEF Begun, InFlight, ExtensionTypeOK, registryVars, ghosts
<1>6. CASE LoadFails(p)
  <2>1. subject[p] \in Extensions /\ Instance(p) \in Instances
    BY <1>6, <1>0 DEF LoadFails, InFlight
  <2>2. RemoveTool(p, Instance(p), subject[p], Over(p)) /\ Over(p) \in Stages
    BY <1>6, <1>s DEF LoadFails
  <2>3. life' \in [Instances -> {"none", "loading", "live", "stopping", "gone"}]
        /\ changed' \subseteq Instances /\ ending' \subseteq Processes
    BY <1>6, <2>1 DEF LoadFails, ExtensionTypeOK
  <2>5. Forget(p) /\ UNCHANGED <<subject, victim, registryVars, activeStates, dropped, ghosts>>
    BY <1>6 DEF LoadFails
  <2> QED BY <2>1, <2>2, <2>3, <2>5, <1>f, RemoveToolTyped DEF Begun, InFlight, ExtensionTypeOK, registryVars, ghosts
<1>7. CASE Cleared(p)
  <2>1. subject[p] \in Extensions
    BY <1>7, <1>0 DEF Cleared, InFlight
  <2>2. entries' \in Seq(Extensions) /\ IsInjective(entries')
    <3>1. DOMAIN entries = 1..Len(entries)
      BY DEF ExtensionTypeOK
    <3> QED BY <1>7, <3>1, RemoveAtLeaves DEF Cleared, ExtensionTypeOK
  <2>3. displaced' \subseteq Requests /\ overlapped' \subseteq Extensions
    <3>1. ToSet(entries) \subseteq Extensions
      BY DEF ExtensionTypeOK, ToSet
    <3> QED BY <1>7, <3>1 DEF Cleared, NoteRemoval, ExtensionTypeOK
  <2>4. At(p, "store") /\ Forget(p) /\ UNCHANGED <<subject, victim, ending, enabled, loadVars, toolPassVars, unsettled>>
    BY <1>7 DEF Cleared
  <2> QED BY <2>1, <2>2, <2>3, <2>4, <1>t, <1>f, AtTyped DEF Begun, InFlight, ExtensionTypeOK, registryVars, loadVars, toolPassVars
<1>8. CASE PersistFails(p) \/ ClearFails(p) \/ Uninstalled(p)
  <2>1. subject[p] \in Extensions
    BY <1>8, <1>0 DEF PersistFails, ClearFails, Uninstalled, InFlight
  <2>2. unsettled' \subseteq Extensions
    BY <1>8, <2>1 DEF PersistFails, ClearFails, Uninstalled, ExtensionTypeOK, ghosts
  <2>3. At(p, "done") /\ Forget(p) /\ UNCHANGED <<subject, victim, ending, registryVars, loadVars, toolPassVars, overlapped, displaced>>
    BY <1>8 DEF PersistFails, ClearFails, Uninstalled, ghosts
  <2> QED BY <2>1, <2>2, <2>3, <1>t, <1>f, AtTyped DEF Begun, InFlight, ExtensionTypeOK, registryVars, loadVars, toolPassVars
<1> QED BY <1>1, <1>2, <1>3, <1>4, <1>5, <1>6, <1>7, <1>8 DEF CallStep

LEMMA ToolStepTyped ==
  ASSUME TypeInv, \/ \E i \in Instances : RegisterTool(i) \/ UnregisterTool(i)
                  \/ RefreshRead \/ RefreshApply
  PROVE  TypeInv'
<1> USE BootApart DEF TypeInv
<1>1. CASE RefreshRead \/ RefreshApply
  <2>1. Tools \subseteq Instances
    BY DEF Tools, ExtensionTypeOK, MaybeInstance
  <2> QED BY <2>1, <1>1 DEF RefreshRead, RefreshApply, Begun, InFlight, ExtensionTypeOK, callVars, registryVars, loadVars, ghosts
<1>2. ASSUME NEW i \in Instances, RegisterTool(i) \/ UnregisterTool(i) PROVE TypeInv'
  <2>1. /\ requested' \in BOOLEAN /\ (requested' => refresher' # "off") /\ refresher' \in {"off", "building", "built"}
        /\ built' = built /\ agentTools' = agentTools
    BY <1>2, AskTyped DEF RegisterTool, UnregisterTool, ExtensionTypeOK, toolPassVars
  <2>2. owners' \subseteq Instances /\ tool' \in [Extensions -> MaybeInstance] /\ changed' \subseteq Instances /\ dropped' \subseteq Instances
    <3>1. ASSUME NEW e, NEW j \in MaybeInstance PROVE [tool EXCEPT ![e] = j] \in [Extensions -> MaybeInstance]
      BY DEF ExtensionTypeOK
    <3>2. i \in MaybeInstance /\ NoInstance \in MaybeInstance
      BY DEF MaybeInstance
    <3>3. CASE RegisterTool(i)
      <4>1. tool' \in [Extensions -> MaybeInstance]
        BY <3>1, <3>2, <3>3 DEF RegisterTool
      <4> QED BY <4>1, <3>3 DEF RegisterTool, ExtensionTypeOK
    <3>4. CASE UnregisterTool(i)
      <4>1. tool' \in [Extensions -> MaybeInstance]
        BY <3>1, <3>2, <3>4 DEF UnregisterTool
      <4> QED BY <4>1, <3>4 DEF UnregisterTool, ExtensionTypeOK
    <3> QED BY <1>2, <3>3, <3>4
  <2>3. UNCHANGED <<callVars, registryVars, activeStates, life, ghosts>>
    BY <1>2 DEF RegisterTool, UnregisterTool
  <2> QED BY <2>1, <2>2, <2>3 DEF Begun, InFlight, ExtensionTypeOK, callVars, registryVars, ghosts
<1> QED BY <1>1, <1>2

LEMMA TypesInductive ==
  /\ ExtensionInit => TypeInv
  /\ TypeInv /\ [ExtensionNext]_extensionVars => TypeInv'
<1>1. ExtensionInit => TypeInv
  <2> SUFFICES ASSUME ExtensionInit PROVE TypeInv
    OBVIOUS
  <2>1. ToSet(Listed) \subseteq Extensions
    BY ExtensionAssumption DEF ToSet
  <2>2. ExtensionTypeOK
    BY <2>1, ExtensionAssumption, BootApart DEF ExtensionInit, ExtensionTypeOK, MaybeInstance, Processes, Stages
  <2>3. Begun
    BY <2>2, BootApart DEF ExtensionInit, Begun, InFlight, ExtensionTypeOK
  <2> QED BY <2>2, <2>3 DEF TypeInv
<1>2. TypeInv /\ [ExtensionNext]_extensionVars => TypeInv'
  <2> SUFFICES ASSUME TypeInv, [ExtensionNext]_extensionVars PROVE TypeInv'
    OBVIOUS
  <2>1. CASE UNCHANGED extensionVars
    BY <2>1 DEF TypeInv, Begun, InFlight, ExtensionTypeOK, extensionVars, callVars, registryVars, loadVars, toolPassVars, ghosts
  <2>2. CASE ExtensionNext
    BY <2>2, CallTyped, BootTyped, StepTyped, ToolStepTyped DEF ExtensionNext
  <2> QED BY <2>1, <2>2
<1> QED BY <1>1, <1>2

(* Every variable of the manager keeps its type: the entries are of as many  *)
(* extensions, the loaded ones among them (ExtensionRuntimeManager).         *)
THEOREM ExtensionTypesHold == ExtensionSpec => []ExtensionTypeOK
<1>1. TypeInv => ExtensionTypeOK
  BY DEF TypeInv
<1> QED BY <1>1, TypesInductive, PTL DEF ExtensionSpec

-----------------------------------------------------------------------------
(* A step of one call leaves the locals of the others alone. *)
Apart(p) ==
  \A q \in Processes \ {p} :
    /\ pc'[q] = pc[q] /\ op'[q] = op[q] /\ subject'[q] = subject[q]
    /\ victim'[q] = victim[q] /\ index'[q] = index[q] /\ (q \in ending' <=> q \in ending)

LEMMA CallApart ==
  ASSUME TypeInv, NEW p \in Requests, NEW e \in Extensions, Call(p, e)
  PROVE  Apart(p)
<1> USE BootApart DEF TypeInv
<1>1. PICK o \in Operations :
       /\ op' = [op EXCEPT ![p] = o]
       /\ \/ o = "install" /\ CallInstall(p, e)
          \/ o = "enable" /\ CallEnable(p, e)
          \/ o = "disable" /\ CallDisable(p, e)
          \/ o = "reload" /\ CallReload(p, e)
          \/ o = "grant" /\ CallGrant(p, e)
          \/ o = "uninstall" /\ CallUninstall(p, e)
  BY DEF Call
<1>2. subject' = [subject EXCEPT ![p] = e] /\ ending' = ending
  BY DEF Call
<1>3. \A q \in Processes \ {p} : pc'[q] = pc[q] /\ victim'[q] = victim[q] /\ index'[q] = index[q]
  BY <1>1 DEF CallInstall, CallEnable, CallDisable, CallReload, CallGrant, CallUninstall, Deactivate, At, ExtensionTypeOK
<1> QED BY <1>1, <1>2, <1>3 DEF Apart, ExtensionTypeOK

LEMMA BootStepApart ==
  ASSUME TypeInv, BootNext \/ BootEnds
  PROVE  Apart(Boot) /\ ending' = ending
<1> USE BootApart DEF TypeInv
<1>1. CASE BootEnds
  BY <1>1 DEF BootEnds, At, Apart, ExtensionTypeOK
<1>2. CASE BootNext
  <2>1. /\ \/ \E e : subject' = [subject EXCEPT ![Boot] = e] /\ Deactivate(Boot, e, "load")
           \/ UNCHANGED <<subject, pc, activeStates, life, victim, overlapped>>
        /\ \E n : index' = [index EXCEPT ![Boot] = n]
        /\ UNCHANGED <<op, ending>>
    BY <1>2, Zenon DEF BootNext
  <2>2. \A q \in Processes \ {Boot} : subject'[q] = subject[q] /\ pc'[q] = pc[q] /\ victim'[q] = victim[q]
    BY <2>1 DEF Deactivate, At, ExtensionTypeOK
  <2> QED BY <2>1, <2>2 DEF Apart, ExtensionTypeOK
<1> QED BY <1>1, <1>2

LEMMA StepApart ==
  ASSUME TypeInv, NEW p \in Processes, CallStep(p)
  PROVE  Apart(p) /\ subject' = subject /\ InFlight(p)
<1> USE BootApart DEF TypeInv
<1>1. subject' = subject /\ InFlight(p)
  BY DEF CallStep, Persisted, PersistFails, ClearFails, Uninstalled, Stopped, StopFails, Settled, LoadStarts, LoadOk, LoadFails, Cleared, InFlight
<1>2. (op' = op /\ index' = index) \/ Forget(p)
  BY DEF CallStep, Persisted, PersistFails, ClearFails, Uninstalled, Stopped, StopFails, Settled, LoadStarts, LoadOk, LoadFails, Cleared
<1>3. \A q \in Processes \ {p} : pc'[q] = pc[q]
  BY DEF CallStep, Persisted, PersistFails, ClearFails, Uninstalled, Stopped, StopFails, Settled, LoadStarts, LoadOk, LoadFails, Cleared, Deactivate, RemoveTool, At, ExtensionTypeOK
<1>4. \A q \in Processes \ {p} : victim'[q] = victim[q]
  BY DEF CallStep, Persisted, PersistFails, ClearFails, Uninstalled, Stopped, StopFails, Settled, LoadStarts, LoadOk, LoadFails, Cleared, Deactivate, ExtensionTypeOK
<1>5. \A q \in Processes \ {p} : q \in ending' <=> q \in ending
  BY DEF CallStep, Persisted, PersistFails, ClearFails, Uninstalled, Stopped, StopFails, Settled, LoadStarts, LoadOk, LoadFails, Cleared
<1> QED BY <1>1, <1>2, <1>3, <1>4, <1>5 DEF Forget, Apart, ExtensionTypeOK

(* The entry at the place an uninstall has found is its own, unless another one *)
(* has removed an entry meanwhile.                                              *)
PlaceInv == \A p \in Requests \ displaced :
  op[p] = "uninstall" /\ InFlight(p) /\ pc[p] # "store" => index[p] \in DOMAIN entries /\ entries[index[p]] = subject[p]

LEMMA PlaceAfterCall ==
  ASSUME TypeInv, PlaceInv, NEW p \in Requests, NEW e \in Extensions, Call(p, e)
  PROVE  PlaceInv'
<1> USE BootApart DEF TypeInv
<1>1. displaced' = displaced /\ subject'[p] = e
  BY DEF Call, ExtensionTypeOK
<1>2. \A n \in DOMAIN entries : n \in DOMAIN entries' /\ entries'[n] = entries[n]
  <2>1. CASE CallInstall(p, e)
    BY <2>1, AppendAdds DEF CallInstall, ExtensionTypeOK
  <2>2. CASE ~CallInstall(p, e)
    BY <2>2 DEF Call, CallEnable, CallDisable, CallReload, CallGrant, CallUninstall, registryVars
  <2> QED BY <2>1, <2>2
<1>3. ASSUME NEW q \in Requests \ displaced, q # p, op'[q] = "uninstall", InFlight(q)', pc'[q] # "store"
      PROVE  index'[q] \in DOMAIN entries' /\ entries'[index'[q]] = subject'[q]
  BY <1>2, <1>3, CallApart DEF Apart, PlaceInv, InFlight
<1>4. ASSUME op'[p] = "uninstall"
      PROVE  index'[p] \in DOMAIN entries' /\ entries'[index'[p]] = subject'[p]
  <2>1. CallUninstall(p, e)
    BY <1>4 DEF Call, ExtensionTypeOK
  <2> DEFINE i == CHOOSE n \in DOMAIN entries : entries[n] = e
  <2>2. i \in 1..Len(entries) /\ entries[i] = e
    BY <2>1, PlaceFound DEF CallUninstall, ExtensionTypeOK
  <2>3. index' = [index EXCEPT ![p] = i] /\ entries' = entries
    BY <2>1 DEF CallUninstall
  <2> HIDE DEF i
  <2> QED BY <1>1, <2>2, <2>3 DEF ExtensionTypeOK
<1> QED BY <1>1, <1>3, <1>4 DEF PlaceInv

LEMMA PlaceStays ==
  ASSUME TypeInv, PlaceInv, [ExtensionNext]_extensionVars
  PROVE  PlaceInv'
<1> USE BootApart DEF TypeInv
<1>1. CASE UNCHANGED extensionVars
  BY <1>1 DEF PlaceInv, InFlight, extensionVars, callVars, registryVars, ghosts
<1>2. ASSUME NEW p \in Requests, NEW e \in Extensions, Call(p, e) PROVE PlaceInv'
  BY <1>2, PlaceAfterCall
<1>3. CASE BootNext \/ BootEnds
  <2>1. entries' = entries /\ displaced' = displaced
    BY <1>3 DEF BootNext, BootEnds, registryVars, ghosts
  <2> QED BY <1>3, <2>1, BootStepApart DEF Apart, PlaceInv, InFlight
<1>4. ASSUME NEW p \in Processes, CallStep(p) PROVE PlaceInv'
  <2>1. Apart(p) /\ subject' = subject /\ InFlight(p)
    BY <1>4, StepApart
  <2>2. CASE Cleared(p)
    <3>1. \A q \in Requests \ {p} : q \notin displaced' => ~(op[q] = "uninstall" /\ InFlight(q))
      BY <2>2 DEF Cleared, NoteRemoval
    <3>2. pc'[p] = "store"
      BY <2>2 DEF Cleared, At, ExtensionTypeOK
    <3> QED BY <2>1, <3>1, <3>2 DEF PlaceInv, Apart, InFlight
  <2>3. CASE ~Cleared(p)
    <3>1. entries' = entries /\ displaced' = displaced
      BY <2>3, <1>4 DEF CallStep, Persisted, PersistFails, ClearFails, Uninstalled, Stopped, StopFails, Settled, LoadStarts, LoadOk, LoadFails, registryVars, ghosts
    <3>3. pc[p] # "store" \/ ~InFlight(p)'
      BY <2>3, <1>4 DEF CallStep, Persisted, PersistFails, ClearFails, Uninstalled, Stopped, StopFails, Settled, LoadStarts, LoadOk, LoadFails, At, InFlight, ExtensionTypeOK
    <3>2. op'[p] # "none" => op'[p] = op[p] /\ index'[p] = index[p]
      <4>1. Forget(p) \/ (op' = op /\ index' = index)
        BY <2>3, <1>4 DEF CallStep, Persisted, PersistFails, ClearFails, Uninstalled, Stopped, StopFails, Settled, LoadStarts, LoadOk, LoadFails
      <4> QED BY <4>1 DEF Forget, ExtensionTypeOK
    <3> QED BY <2>1, <3>1, <3>2, <3>3 DEF PlaceInv, Apart, InFlight
  <2> QED BY <2>2, <2>3
<1>5. ASSUME NEW i \in Instances, RegisterTool(i) \/ UnregisterTool(i) PROVE PlaceInv'
  BY <1>5 DEF RegisterTool, UnregisterTool, PlaceInv, InFlight, callVars, registryVars, ghosts
<1>6. CASE RefreshRead \/ RefreshApply
  BY <1>6 DEF RefreshRead, RefreshApply, PlaceInv, InFlight, callVars, registryVars, ghosts
<1> QED BY <1>1, <1>2, <1>3, <1>4, <1>5, <1>6 DEF ExtensionNext

RemovesOwn ==
  \A p \in Requests \ displaced :
    op[p] = "uninstall" /\ pc[p] = "clear" /\ pc'[p] = "store" => ToSet(entries') = ToSet(entries) \ {subject[p]}

LEMMA StepRemovesOwn ==
  ASSUME TypeInv, PlaceInv, [ExtensionNext]_extensionVars
  PROVE  RemovesOwn
<1> USE BootApart DEF TypeInv
<1> SUFFICES ASSUME NEW p \in Requests \ displaced, op[p] = "uninstall", pc[p] = "clear", pc'[p] = "store"
             PROVE  ToSet(entries') = ToSet(entries) \ {subject[p]}
  BY DEF RemovesOwn
<1>1. Cleared(p)
  <2>1. ASSUME NEW q \in Requests, NEW e \in Extensions, Call(q, e) PROVE pc'[p] = pc[p]
    <3>1. p # q
      BY <2>1 DEF Call
    <3> QED BY <2>1, <3>1, CallApart DEF Apart
  <2>2. BootNext \/ BootEnds => pc'[p] = pc[p]
    BY BootStepApart DEF Apart
  <2>3. ASSUME NEW q \in Processes, CallStep(q), q # p PROVE pc'[p] = pc[p]
    BY <2>3, StepApart DEF Apart
  <2>4. CallStep(p) => Cleared(p)
    BY DEF CallStep, Persisted, PersistFails, ClearFails, Uninstalled, Stopped, StopFails, Settled, LoadStarts, LoadOk, LoadFails, At, ExtensionTypeOK
  <2>5. (\E i \in Instances : RegisterTool(i) \/ UnregisterTool(i)) \/ RefreshRead \/ RefreshApply \/ UNCHANGED extensionVars
        => pc'[p] = pc[p]
    BY DEF RegisterTool, UnregisterTool, RefreshRead, RefreshApply, callVars, extensionVars
  <2> QED BY <2>1, <2>2, <2>3, <2>4, <2>5 DEF ExtensionNext
<1>2. index[p] \in DOMAIN entries /\ entries[index[p]] = subject[p]
  BY DEF PlaceInv, InFlight
<1>3. DOMAIN entries = 1..Len(entries) /\ entries \in Seq(Extensions) /\ IsInjective(entries)
  BY DEF ExtensionTypeOK
<1>4. entries' = RemoveAt(entries, index[p])
  BY <1>1, <1>2 DEF Cleared
<1> QED BY <1>2, <1>3, <1>4, RemoveAtLeaves

(* An uninstall removes its own entry and no other, for any extensions and   *)
(* calls, unless another uninstall removed one since it found its place      *)
(* (uninstallExtension).                                                     *)
THEOREM UninstallHolds == ExtensionSpec => UninstallRemovesOwn
<1>1. ExtensionInit => PlaceInv
  BY BootApart DEF ExtensionInit, PlaceInv, InFlight
<1>2. TypeInv /\ PlaceInv /\ [ExtensionNext]_extensionVars => PlaceInv' /\ RemovesOwn
  BY PlaceStays, StepRemovesOwn
<1>3. ExtensionSpec => []TypeInv
  BY TypesInductive, PTL DEF ExtensionSpec
<1>4. ExtensionSpec => []PlaceInv
  BY <1>1, <1>2, <1>3, PTL DEF ExtensionSpec
<1>5. ExtensionSpec => [][RemovesOwn]_extensionVars
  BY <1>2, <1>3, <1>4, PTL DEF ExtensionSpec
<1> QED BY <1>5 DEF RemovesOwn, UninstallRemovesOwn

-----------------------------------------------------------------------------
(* What a call is at each await. *)
CallShape(p) ==
  /\ p = Boot => pc[p] \in {"next", "stop", "settle", "load", "loading", "done"} /\ op[p] = "none"
  /\ p # Boot => pc[p] # "next"
  /\ p # Boot /\ InFlight(p) => op[p] # "none"
  /\ pc[p] = "stop" => victim[p] \in Instances /\ ExtensionOf(victim[p]) = subject[p]
  /\ p \in ending => pc[p] = "settle"
  /\ pc[p] \in {"clear", "store"} => op[p] = "uninstall"
Shapes == \A p \in Processes : CallShape(p)

(* A call that is not made yet has left no trace. *)
Fresh(i) ==
  /\ life[i] = "none" /\ subject[i] = NoInstance
  /\ i \notin owners /\ i \notin changed /\ i \notin built /\ i \notin agentTools
  /\ \A e \in Extensions : tool[e] # i /\ activeStates[e] # i
  /\ \A p \in Processes : pc[p] = "stop" => victim[p] # i
FreshCalls == \A i \in Requests : pc[i] = "new" => Fresh(i)

(* The maps of the extensions hold instances of theirs. *)
OwnMaps ==
  \A e \in Extensions :
    /\ tool[e] # NoInstance => ExtensionOf(tool[e]) = e
    /\ activeStates[e] # NoInstance => ExtensionOf(activeStates[e]) = e

(* The code of an instance is started once, by the call that activates it, and *)
(* stopped once, by the call that has taken it from activeStates.              *)
LifeOnce ==
  /\ \A e \in Extensions : activeStates[e] # NoInstance => life[activeStates[e]] = "live"
  /\ \A p \in Processes : pc[p] = "stop" => life[victim[p]] = "stopping"
  /\ \A p, q \in Processes : pc[p] = "stop" /\ pc[q] = "stop" /\ victim[p] = victim[q] => p = q
  /\ \A p \in Processes : pc[p] = "loading" => life[Instance(p)] = "loading"
  /\ \A p \in Processes : InFlight(p) /\ pc[p] # "loading" /\ p \notin ending => life[Instance(p)] = "none"
  /\ \A i \in owners : life[i] # "none"

LoadInv == TypeInv /\ Shapes /\ FreshCalls /\ OwnMaps /\ LifeOnce

(* A call goes on to another await; what it is about may be deactivated. *)
Moved(p, e, s) ==
  \/ At(p, s) /\ UNCHANGED <<activeStates, life, victim>>
  \/ Deactivate(p, e, s)

LEMMA CallMoves ==
  ASSUME TypeInv, NEW p \in Requests, NEW e \in Extensions, Call(p, e)
  PROVE  /\ pc[p] = "new" /\ op'[p] # "none" /\ subject' = [subject EXCEPT ![p] = e]
         /\ \E s \in {"persist", "load", "clear", "done"} :
              Moved(p, e, s) /\ (s = "clear" => op'[p] = "uninstall")
         /\ UNCHANGED <<ending, tool, owners, changed, dropped, toolPassVars>>
<1>1. PICK o \in Operations :
       /\ op' = [op EXCEPT ![p] = o]
       /\ \/ o = "install" /\ CallInstall(p, e)
          \/ o = "enable" /\ CallEnable(p, e)
          \/ o = "disable" /\ CallDisable(p, e)
          \/ o = "reload" /\ CallReload(p, e)
          \/ o = "grant" /\ CallGrant(p, e)
          \/ o = "uninstall" /\ CallUninstall(p, e)
  BY DEF Call
<1>2. \E s \in {"persist", "load", "clear", "done"} : Moved(p, e, s) /\ (s = "clear" => o = "uninstall")
  <2>1. o \in {"install", "enable", "disable", "grant"} => Moved(p, e, "persist")
    BY <1>1 DEF CallInstall, CallEnable, CallDisable, CallGrant, Moved
  <2>2. o = "reload" => Moved(p, e, "load") \/ Moved(p, e, "done")
    BY <1>1 DEF CallReload, Moved
  <2>3. o = "uninstall" => Moved(p, e, "clear")
    BY <1>1 DEF CallUninstall, Moved
  <2> QED BY <1>1, <2>1, <2>2, <2>3
<1>3. p \in Processes /\ o # "none" /\ op'[p] = o
  BY <1>1, BootApart, ExtensionAssumption DEF TypeInv, ExtensionTypeOK
<1> QED BY <1>2, <1>3 DEF Call

LEMMA BootMoves ==
  ASSUME TypeInv, BootNext \/ BootEnds
  PROVE  /\ pc[Boot] = "next" /\ UNCHANGED <<op, ending, registryVars, tool, owners, changed, dropped, toolPassVars>>
         /\ \/ UNCHANGED <<subject, pc, activeStates, life, victim, unsettled>>
            \/ At(Boot, "done") /\ UNCHANGED <<subject, activeStates, life, victim, unsettled>>
            \/ \E e \in Extensions :
                 /\ BootNext /\ e = entries[index[Boot]] /\ index[Boot] \in 1..Len(entries)
                 /\ subject' = [subject EXCEPT ![Boot] = e] /\ Moved(Boot, e, "load")
                 /\ unsettled' = unsettled \ {e}
<1>1. CASE BootEnds
  BY <1>1 DEF BootEnds, registryVars, loadVars, ghosts
<1>2. CASE BootNext
  <2>1. index[Boot] \in 1..Len(entries) /\ entries[index[Boot]] \in Extensions
    BY <1>2, BootApart DEF BootNext, TypeInv, Begun, ExtensionTypeOK
  <2>2. CASE entries[index[Boot]] \in enabled
    <3> DEFINE e == entries[index[Boot]]
    <3>1. subject' = [subject EXCEPT ![Boot] = e] /\ Deactivate(Boot, e, "load")
      BY <1>2, <2>2 DEF BootNext
    <3> HIDE DEF e
    <3>2. e \in Extensions /\ e = entries[index[Boot]]
      BY <2>1 DEF e
    <3>3. pc[Boot] = "next" /\ UNCHANGED <<op, ending, registryVars, tool, owners, changed, dropped, toolPassVars>>
      BY <1>2 DEF BootNext
    <3>4. unsettled' = unsettled \ {e}
      BY <3>1 DEF Deactivate
    <3> QED BY <1>2, <2>1, <3>1, <3>2, <3>3, <3>4 DEF Moved
  <2>3. CASE entries[index[Boot]] \notin enabled
    BY <1>2, <2>3 DEF BootNext
  <2> QED BY <1>2, <2>2, <2>3 DEF BootNext
<1> QED BY <1>1, <1>2

(* The moves keep the part of the invariant that is about instances. *)
LEMMA MovedFacts ==
  ASSUME LoadInv, NEW p \in Processes, NEW e \in Extensions, NEW s \in Stages \ {"stop", "loading", "new"}, Moved(p, e, s)
  PROVE  /\ \A i \in Instances : life'[i] = IF Deactivate(p, e, s) /\ i = activeStates[e] THEN "stopping" ELSE life[i]
         /\ \A x \in Extensions : activeStates'[x] = IF Deactivate(p, e, s) /\ x = e THEN NoInstance ELSE activeStates[x]
         /\ \/ pc'[p] = s /\ victim' = victim /\ life' = life
            \/ pc'[p] = "stop" /\ victim'[p] = activeStates[e] /\ activeStates[e] \in Instances /\ life'[activeStates[e]] = "stopping"
               /\ Deactivate(p, e, s)
         /\ \A q \in Processes \ {p} : victim'[q] = victim[q] /\ pc'[q] = pc[q]
<1> USE BootApart DEF LoadInv, TypeInv
<1>1. CASE At(p, s) /\ UNCHANGED <<activeStates, life, victim>>
  <2>1. Deactivate(p, e, s) => activeStates[e] = NoInstance \/ pc'[p] = "stop"
    BY DEF Deactivate, At, ExtensionTypeOK
  <2>2. pc'[p] = s /\ \A q \in Processes \ {p} : pc'[q] = pc[q]
    BY <1>1 DEF At, ExtensionTypeOK
  <2> QED BY <1>1, <2>1, <2>2
<1>2. CASE Deactivate(p, e, s)
  <2>1. CASE activeStates[e] = NoInstance
    BY <1>2, <2>1 DEF Deactivate, At, ExtensionTypeOK
  <2>2. CASE activeStates[e] # NoInstance
    <3>1. activeStates[e] \in Instances
      BY <2>2 DEF ExtensionTypeOK, MaybeInstance
    <3>2. At(p, "stop") /\ victim' = [victim EXCEPT ![p] = activeStates[e]]
          /\ activeStates' = [activeStates EXCEPT ![e] = NoInstance] /\ life' = [life EXCEPT ![activeStates[e]] = "stopping"]
      BY <1>2, <2>2 DEF Deactivate
    <3>3. pc'[p] = "stop" /\ \A q \in Processes \ {p} : pc'[q] = pc[q]
      BY <3>2 DEF At, ExtensionTypeOK
    <3>4. victim'[p] = activeStates[e] /\ \A q \in Processes \ {p} : victim'[q] = victim[q]
      BY <3>2 DEF ExtensionTypeOK
    <3>5. \A i \in Instances : life'[i] = IF i = activeStates[e] THEN "stopping" ELSE life[i]
      BY <3>2 DEF ExtensionTypeOK
    <3>6. \A x \in Extensions : activeStates'[x] = IF x = e THEN NoInstance ELSE activeStates[x]
      BY <3>2 DEF ExtensionTypeOK
    <3> QED BY <1>2, <3>1, <3>3, <3>4, <3>5, <3>6
  <2> QED BY <2>1, <2>2
<1> QED BY <1>1, <1>2 DEF Moved

LEMMA MovedKeepsLife ==
  ASSUME LoadInv, NEW p \in Processes, NEW e \in Extensions, NEW s \in Stages \ {"stop", "loading", "new"}, Moved(p, e, s),
         Apart(p), TypeInv', owners' = owners, pc'[p] \notin {"next", "done"} => life[Instance(p)'] = "none" /\ p \notin ending',
         \A q \in Processes \ {p} : InFlight(q) => Instance(q)' = Instance(q)
  PROVE  LifeOnce'
<1> USE BootApart
<1>0. ASSUME NEW q \in Processes, InFlight(q) PROVE Instance(q) \in Instances
  BY <1>0, InstanceTyped DEF LoadInv, TypeInv, Begun
<1>00. ASSUME NEW q \in Processes, InFlight(q)' PROVE Instance(q)' \in Instances
  BY <1>00, BootApart DEF TypeInv, Begun, Instance, Processes
<1>1. \A x \in Extensions : activeStates'[x] # NoInstance => life'[activeStates'[x]] = "live"
  <2> SUFFICES ASSUME NEW x \in Extensions, activeStates'[x] # NoInstance PROVE life'[activeStates'[x]] = "live"
    OBVIOUS
  <2>1. activeStates'[x] = activeStates[x] /\ activeStates[x] \in Instances /\ life[activeStates[x]] = "live"
    BY MovedFacts DEF LoadInv, LifeOnce, TypeInv, ExtensionTypeOK, MaybeInstance
  <2>2. ~(Deactivate(p, e, s) /\ activeStates[x] = activeStates[e])
    BY <2>1, MovedFacts DEF LoadInv, OwnMaps
  <2> QED BY <2>1, <2>2, MovedFacts
<1>2. \A q \in Processes : pc'[q] = "stop" => life'[victim'[q]] = "stopping"
  <2> SUFFICES ASSUME NEW q \in Processes, pc'[q] = "stop" PROVE life'[victim'[q]] = "stopping"
    OBVIOUS
  <2>1. CASE q = p
    BY <2>1, MovedFacts
  <2>2. CASE q # p
    <3>1. pc[q] = "stop" /\ victim'[q] = victim[q] /\ victim[q] \in Instances /\ life[victim[q]] = "stopping"
      BY <2>2, MovedFacts DEF LoadInv, LifeOnce, Shapes, CallShape
    <3> QED BY <3>1, MovedFacts
  <2> QED BY <2>1, <2>2
<1>3. \A q, r \in Processes : pc'[q] = "stop" /\ pc'[r] = "stop" /\ victim'[q] = victim'[r] => q = r
  <2>1. \A q \in Processes \ {p} : pc'[q] = "stop" => pc[q] = "stop" /\ victim'[q] = victim[q] /\ life[victim[q]] = "stopping"
    BY MovedFacts DEF LoadInv, LifeOnce
  <2>2. \A q \in Processes \ {p} : pc'[p] = "stop" /\ pc'[q] = "stop" => victim'[q] # victim'[p]
    BY <2>1, MovedFacts DEF LoadInv, LifeOnce
  <2>3. \A q, r \in Processes \ {p} : pc'[q] = "stop" /\ pc'[r] = "stop" /\ victim'[q] = victim'[r] => q = r
    BY <2>1 DEF LoadInv, LifeOnce
  <2> QED BY <2>2, <2>3
<1>4. \A q \in Processes : pc'[q] = "loading" => life'[Instance(q)'] = "loading"
  <2> SUFFICES ASSUME NEW q \in Processes, pc'[q] = "loading" PROVE life'[Instance(q)'] = "loading"
    OBVIOUS
  <2>1. q # p
    BY MovedFacts
  <2>2. pc[q] = "loading" /\ InFlight(q)
    BY <2>1, MovedFacts DEF InFlight
  <2>3. Instance(q)' = Instance(q) /\ life[Instance(q)] = "loading" /\ Instance(q) \in Instances
    BY <2>1, <2>2, <1>0 DEF LoadInv, LifeOnce
  <2>4. Deactivate(p, e, s) /\ activeStates[e] = Instance(q) => FALSE
    BY <2>3, ExtensionAssumption DEF LoadInv, LifeOnce
  <2> QED BY <2>3, <2>4, MovedFacts
<1>5. \A q \in Processes : InFlight(q)' /\ pc'[q] # "loading" /\ q \notin ending' => life'[Instance(q)'] = "none"
  <2> SUFFICES ASSUME NEW q \in Processes, InFlight(q)', pc'[q] # "loading", q \notin ending' PROVE life'[Instance(q)'] = "none"
    OBVIOUS
  <2>1. Instance(q)' \in Instances /\ life[Instance(q)'] = "none"
    <3>1. CASE q = p
      BY <3>1, <1>00 DEF InFlight
    <3>2. CASE q # p
      <4>1. InFlight(q) /\ pc[q] # "loading" /\ q \notin ending
        BY <3>2 DEF Apart, InFlight
      <4> QED BY <3>2, <4>1, <1>0 DEF LoadInv, LifeOnce
    <3> QED BY <3>1, <3>2
  <2>2. activeStates[e] # Instance(q)'
    BY <2>1 DEF LoadInv, LifeOnce
  <2> QED BY <2>1, <2>2, MovedFacts
<1>6. \A i \in owners : life'[i] # "none"
  BY MovedFacts DEF LoadInv, LifeOnce, TypeInv, ExtensionTypeOK
<1> QED BY <1>1, <1>2, <1>3, <1>4, <1>5, <1>6 DEF LifeOnce

(* ExtensionOf after a step. *)
ExtensionAfter(i) == IF i \in Extensions THEN i ELSE subject'[i]

LEMMA AfterIs == \A i : ExtensionOf(i)' = ExtensionAfter(i)
  BY DEF ExtensionOf, ExtensionAfter

(* Shapes, traces and maps after a move. *)
LEMMA MovedKeepsMaps ==
  ASSUME LoadInv, NEW p \in Processes, NEW e \in Extensions, NEW s \in Stages \ {"stop", "loading", "new"}, Moved(p, e, s),
         Apart(p), TypeInv', UNCHANGED <<tool, owners, changed, built, agentTools>>,
         \/ subject' = subject
         \/ p = Boot
         \/ p \in Requests /\ pc[p] = "new"
  PROVE  /\ \A i \in Instances : i # p \/ subject' = subject \/ p = Boot => ExtensionAfter(i) = ExtensionOf(i)
         /\ OwnMaps' /\ FreshCalls'
         /\ pc'[p] = "stop" => victim'[p] \in Instances /\ ExtensionAfter(victim'[p]) = e
         /\ \A q \in Processes \ {p} : CallShape(q)'
<1> USE BootApart
<1>0. \A q \in Processes \ {p} : pc'[q] = pc[q] /\ op'[q] = op[q] /\ subject'[q] = subject[q] /\ victim'[q] = victim[q] /\ (q \in ending' <=> q \in ending)
  BY DEF Apart
<1>1. \A i \in Instances : i # p \/ subject' = subject \/ p = Boot => ExtensionAfter(i) = ExtensionOf(i)
  BY <1>0 DEF ExtensionOf, ExtensionAfter, Instances
<1>2. subject' # subject /\ p # Boot => Fresh(p)
  BY DEF LoadInv, FreshCalls
<1>3. OwnMaps'
  <2> SUFFICES ASSUME NEW x \in Extensions
               PROVE  /\ tool'[x] # NoInstance => ExtensionAfter(tool'[x]) = x
                      /\ activeStates'[x] # NoInstance => ExtensionAfter(activeStates'[x]) = x
    BY AfterIs DEF OwnMaps, ExtensionOf, ExtensionAfter
  <2>1. tool'[x] = tool[x] /\ (activeStates'[x] = NoInstance \/ activeStates'[x] = activeStates[x])
    BY MovedFacts
  <2>2. tool[x] \in Instances \cup {NoInstance} /\ activeStates[x] \in Instances \cup {NoInstance}
    BY DEF LoadInv, TypeInv, ExtensionTypeOK, MaybeInstance
  <2>3. tool[x] # NoInstance => tool[x] \in Instances /\ ExtensionOf(tool[x]) = x /\ ExtensionAfter(tool[x]) = x
    BY <1>1, <1>2, <2>2 DEF LoadInv, OwnMaps, Fresh
  <2>4. activeStates[x] # NoInstance => activeStates[x] \in Instances /\ ExtensionOf(activeStates[x]) = x /\ ExtensionAfter(activeStates[x]) = x
    BY <1>1, <1>2, <2>2 DEF LoadInv, OwnMaps, Fresh
  <2> QED BY <2>1, <2>3, <2>4
<1>4. FreshCalls'
  <2> SUFFICES ASSUME NEW i \in Requests, pc'[i] = "new" PROVE Fresh(i)'
    BY DEF FreshCalls
  <2>1. pc'[p] # "new"
    BY MovedFacts
  <2>2. i # p /\ pc[i] = "new" /\ Fresh(i) /\ i \in Instances
    BY <2>1, <1>0 DEF LoadInv, FreshCalls
  <2>3. life'[i] = "none" /\ \A x \in Extensions : activeStates'[x] # i
    BY <2>2, MovedFacts DEF Fresh
  <2>4. \A q \in Processes : pc'[q] = "stop" => victim'[q] # i
    BY <2>2, MovedFacts DEF Fresh
  <2> QED BY <1>0, <2>2, <2>3, <2>4 DEF Fresh
<1>5. pc'[p] = "stop" => victim'[p] \in Instances /\ ExtensionAfter(victim'[p]) = e
  <2> SUFFICES ASSUME pc'[p] = "stop" PROVE victim'[p] \in Instances /\ ExtensionAfter(victim'[p]) = e
    OBVIOUS
  <2>1. victim'[p] = activeStates[e] /\ activeStates[e] \in Instances /\ activeStates[e] # NoInstance
    BY MovedFacts
  <2> QED BY <2>1, <1>1, <1>2 DEF LoadInv, OwnMaps, Fresh
<1>6. ASSUME NEW q \in Processes \ {p} PROVE CallShape(q)'
  <2>1. CallShape(q)
    BY DEF LoadInv, Shapes
  <2>2. pc[q] = "stop" => victim[q] \in Instances /\ ExtensionAfter(victim[q]) = ExtensionOf(victim[q])
    BY <2>1, <1>1, <1>2 DEF Fresh, CallShape
  <2> QED BY <1>0, <2>1, <2>2 DEF CallShape, InFlight, ExtensionOf, ExtensionAfter
<1> QED BY <1>1, <1>3, <1>4, <1>5, <1>6

LEMMA CallLoads ==
  ASSUME LoadInv, TypeInv', NEW p \in Requests, NEW e \in Extensions, Call(p, e)
  PROVE  LoadInv'
<1> USE BootApart
<1>1. /\ pc[p] = "new" /\ op'[p] # "none" /\ subject' = [subject EXCEPT ![p] = e]
      /\ UNCHANGED <<ending, tool, owners, changed, dropped, toolPassVars>>
  BY CallMoves DEF LoadInv
<1>2. PICK s \in {"persist", "load", "clear", "done"} : Moved(p, e, s) /\ (s = "clear" => op'[p] = "uninstall")
  BY CallMoves DEF LoadInv
<1>3. s \in Stages \ {"stop", "loading", "new"} /\ p \in Processes /\ p # Boot
  BY StagesListed
<1>4. Apart(p)
  BY CallApart DEF LoadInv
<1>5. OwnMaps' /\ FreshCalls' /\ (pc'[p] = "stop" => victim'[p] \in Instances /\ ExtensionAfter(victim'[p]) = e)
      /\ \A q \in Processes \ {p} : CallShape(q)'
  BY <1>1, <1>2, <1>3, <1>4, MovedKeepsMaps DEF toolPassVars
<1>6. p \notin ending' /\ Fresh(p) /\ subject'[p] = e
  BY <1>1 DEF LoadInv, Shapes, CallShape, FreshCalls, TypeInv, ExtensionTypeOK
<1>7. CallShape(p)'
  BY <1>1, <1>2, <1>3, <1>5, <1>6, MovedFacts DEF CallShape, ExtensionOf, ExtensionAfter
<1>8. LifeOnce'
  <2>1. Instance(p)' = p /\ life[p] = "none"
    BY <1>3, <1>6 DEF Instance, Fresh
  <2>2. \A q \in Processes \ {p} : Instance(q)' = Instance(q)
    BY <1>4 DEF Instance, Apart
  <2> QED BY <1>1, <1>2, <1>3, <1>4, <1>6, <2>1, <2>2, MovedKeepsLife
<1> QED BY <1>5, <1>7, <1>8 DEF LoadInv, Shapes

LEMMA BootLoads ==
  ASSUME LoadInv, TypeInv', BootNext \/ BootEnds,
         index[Boot] \in 1..Len(entries) => life[entries[index[Boot]]] = "none"
  PROVE  LoadInv'
<1> USE BootApart
<1>1. pc[Boot] = "next" /\ UNCHANGED <<op, ending, registryVars, tool, owners, changed, dropped, toolPassVars>>
  BY BootMoves DEF LoadInv
<1>2. Apart(Boot) /\ Boot \notin ending
  BY <1>1, BootStepApart DEF LoadInv, Shapes, CallShape
<1>0. \A q \in Processes \ {Boot} : Instance(q)' = Instance(q)
  BY <1>2 DEF Instance, Apart
<1>3. CASE UNCHANGED <<subject, pc, activeStates, life, victim>>
  BY <1>1, <1>3 DEF LoadInv, Shapes, CallShape, OwnMaps, FreshCalls, Fresh, LifeOnce, toolPassVars, InFlight, ExtensionOf, Instance
<1>4. CASE At(Boot, "done") /\ UNCHANGED <<subject, activeStates, life, victim>>
  <2>1. pc'[Boot] = "done" /\ \A q \in Processes \ {Boot} : pc'[q] = pc[q]
    BY <1>4 DEF At, LoadInv, TypeInv, ExtensionTypeOK
  <2>2. \A q \in Processes : (pc'[q] \in {"stop", "loading", "new"} => pc'[q] = pc[q]) /\ (InFlight(q)' => InFlight(q))
    BY <2>1, <1>1 DEF InFlight
  <2>3. Shapes'
    BY <1>1, <1>2, <1>4, <2>1, <2>2 DEF LoadInv, Shapes, CallShape, ExtensionOf, InFlight
  <2>4. OwnMaps' /\ FreshCalls'
    BY <1>1, <1>4, <2>2 DEF LoadInv, OwnMaps, FreshCalls, Fresh, ExtensionOf, toolPassVars
  <2>5. LifeOnce'
    <3>1. \A q : Instance(q)' = Instance(q)
      BY <1>4 DEF Instance
    <3>2. \A q \in Processes : InFlight(q)' /\ pc'[q] # "loading" => InFlight(q) /\ pc[q] # "loading"
      BY <2>1 DEF InFlight
    <3> QED BY <1>1, <1>4, <2>2, <3>1, <3>2 DEF LoadInv, LifeOnce
  <2> QED BY <2>3, <2>4, <2>5 DEF LoadInv
<1>5. ASSUME NEW e \in Extensions, Moved(Boot, e, "load"), subject' = [subject EXCEPT ![Boot] = e], life[e] = "none"
      PROVE  LoadInv'
  <2>3. "load" \in Stages \ {"stop", "loading", "new"}
    BY StagesListed
  <2>5. OwnMaps' /\ FreshCalls' /\ (pc'[Boot] = "stop" => victim'[Boot] \in Instances /\ ExtensionAfter(victim'[Boot]) = e)
        /\ \A q \in Processes \ {Boot} : CallShape(q)'
    BY <1>1, <1>2, <1>5, <2>3, MovedKeepsMaps DEF toolPassVars
  <2>6. subject'[Boot] = e /\ pc'[Boot] \in {"load", "stop"} /\ op'[Boot] = "none" /\ Boot \notin ending'
    <3>1. subject'[Boot] = e
      BY <1>5 DEF LoadInv, TypeInv, ExtensionTypeOK
    <3>2. pc'[Boot] \in {"load", "stop"}
      BY <1>5, <2>3, MovedFacts
    <3>3. op'[Boot] = "none" /\ Boot \notin ending'
      BY <1>1, <1>2 DEF LoadInv, Shapes, CallShape
    <3> QED BY <3>1, <3>2, <3>3
  <2>7. CallShape(Boot)'
    BY <2>5, <2>6 DEF CallShape, ExtensionOf, ExtensionAfter
  <2>8. LifeOnce'
    <3>1. Instance(Boot)' = e
      BY <2>6 DEF Instance
    <3> QED BY <1>0, <1>1, <1>2, <1>5, <2>3, <3>1, MovedKeepsLife
  <2> QED BY <2>5, <2>7, <2>8 DEF LoadInv, Shapes
<1> QED BY <1>3, <1>4, <1>5, BootMoves DEF LoadInv

(* What a call does after the clean-up. *)
LEMMA AfterCleanUpIs ==
  ASSUME NEW p
  PROVE  /\ p \in ending => AfterCleanUp(p) = Over(p)
         /\ p \notin ending => AfterCleanUp(p) \in {"clear", "done", "load"}
         /\ p \notin ending /\ AfterCleanUp(p) = "clear" => op[p] = "uninstall"
         /\ p \notin ending /\ op[p] = "none" => AfterCleanUp(p) = "load"
<1>1. CASE p \in ending
  BY <1>1 DEF AfterCleanUp
<1>2. CASE p \notin ending /\ op[p] = "uninstall"
  BY <1>2 DEF AfterCleanUp
<1>3. CASE p \notin ending /\ op[p] = "disable"
  BY <1>3 DEF AfterCleanUp
<1>4. CASE p \notin ending /\ op[p] \in {"reload", "grant"}
  BY <1>4 DEF AfterCleanUp
<1>5. CASE p \notin ending /\ op[p] \notin {"reload", "grant", "disable", "uninstall"}
  BY <1>5 DEF AfterCleanUp
<1> QED BY <1>1, <1>2, <1>3, <1>4, <1>5

(* The calls that are over, without any code started or stopped. *)
Quits(p) == PersistFails(p) \/ ClearFails(p) \/ Uninstalled(p)

(* The steps of a call that start or stop no code. *)
LEMMA QuietLoads ==
  ASSUME LoadInv, TypeInv', NEW p \in Processes, Persisted(p) \/ Settled(p) \/ Cleared(p) \/ Quits(p)
  PROVE  LoadInv'
<1> USE BootApart
<1>0. Apart(p) /\ subject' = subject /\ InFlight(p)
  BY StepApart DEF LoadInv, CallStep, Quits
<1>1. subject[p] \in Extensions /\ CallShape(p)
  BY <1>0 DEF LoadInv, TypeInv, Begun, Shapes
<1>2. Forget(p) /\ UNCHANGED <<tool, owners, changed, built, agentTools>>
  BY DEF Persisted, Settled, Cleared, Quits, PersistFails, ClearFails, Uninstalled, toolPassVars, loadVars
<1>3. PICK s \in {"next", "done", "load", "clear", "store"} :
        /\ Moved(p, subject[p], s) /\ p \notin ending'
        /\ s \in {"load", "clear"} => pc[p] # "loading" /\ p \notin ending /\ (p = Boot => s = "load")
        /\ s = "next" => p = Boot
        /\ s = "done" => p # Boot
        /\ s \in {"clear", "store"} => op[p] = "uninstall" /\ p # Boot
        /\ s = "store" => life[Instance(p)] = "none"
        /\ pc[p] = "persist" \/ pc[p] = "clear" \/ At(p, s)
        /\ pc[p] # "loading"
  <2>1. CASE Persisted(p)
    <3>1. Moved(p, subject[p], "done") \/ Moved(p, subject[p], "load")
      BY <2>1 DEF Persisted, Moved
    <3>2. p # Boot /\ pc[p] = "persist" /\ p \notin ending /\ ending' = ending
      BY <2>1, <1>1 DEF Persisted, CallShape
    <3> QED BY <3>1, <3>2
  <2>2. CASE Cleared(p)
    <3>1. At(p, "store") /\ UNCHANGED <<activeStates, life, victim, ending>>
      BY <2>2 DEF Cleared, loadVars
    <3>2. p # Boot /\ pc[p] = "clear" /\ p \notin ending /\ op[p] = "uninstall" /\ life[Instance(p)] = "none"
      BY <2>2, <1>0, <1>1 DEF Cleared, CallShape, LoadInv, LifeOnce
    <3> QED BY <3>1, <3>2 DEF Moved
  <2>4. CASE Quits(p)
    <3>1. At(p, "done") /\ UNCHANGED <<activeStates, life, victim, ending>>
      BY <2>4 DEF Quits, PersistFails, ClearFails, Uninstalled, loadVars
    <3>2. p # Boot /\ pc[p] \in {"persist", "clear", "store"} /\ p \notin ending
      BY <2>4, <1>1 DEF Quits, PersistFails, ClearFails, Uninstalled, CallShape
    <3> QED BY <3>1, <3>2 DEF Moved
  <2>3. CASE Settled(p)
    <3>1. At(p, AfterCleanUp(p)) /\ UNCHANGED <<activeStates, life, victim>> /\ ending' = ending \ {p} /\ pc[p] = "settle"
      BY <2>3 DEF Settled, loadVars
    <3>2. CASE p \in ending
      <4>1. AfterCleanUp(p) = Over(p)
        BY <3>2, AfterCleanUpIs
      <4>2. Over(p) = IF p = Boot THEN "next" ELSE "done"
        BY DEF Over
      <4> QED BY <3>1, <4>1, <4>2 DEF Moved
    <3>3. CASE p \notin ending
      <4>1. /\ AfterCleanUp(p) \in {"clear", "done", "load"}
            /\ AfterCleanUp(p) = "clear" => op[p] = "uninstall"
            /\ op[p] = "none" => AfterCleanUp(p) = "load"
        BY <3>3, AfterCleanUpIs
      <4>2. p = Boot => op[p] = "none"
        BY <1>1 DEF CallShape
      <4> QED BY <3>1, <3>3, <4>1, <4>2 DEF Moved
    <3> QED BY <3>2, <3>3
  <2> QED BY <2>1, <2>2, <2>3, <2>4
<1>4. s \in Stages \ {"stop", "loading", "new"}
  BY StagesListed
<1>5. OwnMaps' /\ FreshCalls' /\ (pc'[p] = "stop" => victim'[p] \in Instances /\ ExtensionAfter(victim'[p]) = subject[p])
      /\ \A q \in Processes \ {p} : CallShape(q)'
  BY <1>0, <1>1, <1>2, <1>3, <1>4, MovedKeepsMaps
<1>6. pc'[p] \in {s, "stop"} /\ (pc'[p] = "stop" => Deactivate(p, subject[p], s))
  BY <1>1, <1>3, <1>4, MovedFacts
<1>7. op'[p] = IF pc'[p] = "done" THEN "none" ELSE op[p]
  BY <1>2, ForgetTyped DEF LoadInv, TypeInv
<1>8. pc'[p] = "stop" => p # Boot
  <2>1. p = Boot => At(p, s)
    BY <1>1, <1>3, <1>0 DEF CallShape
  <2> QED BY <1>3, <2>1 DEF At, LoadInv, TypeInv, ExtensionTypeOK
<1>9. CallShape(p)'
  <2>1. pc'[p] = "stop" => ExtensionOf(victim'[p]) = subject[p] /\ victim'[p] \in Instances
    BY <1>0, <1>5 DEF ExtensionAfter, ExtensionOf
  <2>2. p # Boot /\ pc'[p] \notin {"new", "next", "done"} => op[p] # "none"
    BY <1>0, <1>1 DEF CallShape
  <2> QED BY <1>0, <1>1, <1>3, <1>6, <1>7, <1>8, <2>1, <2>2 DEF CallShape, InFlight, ExtensionOf
<1>10. LifeOnce'
  <2>1. \A q : Instance(q)' = Instance(q)
    BY <1>0 DEF Instance
  <2>2. pc'[p] \notin {"next", "done"} => life[Instance(p)] = "none"
    <3>1. CASE pc[p] = "settle"
      <4>1. At(p, s)
        BY <3>1, <1>3
      <4>2. pc'[p] = s
        BY <4>1 DEF At, LoadInv, TypeInv, ExtensionTypeOK
      <4> QED BY <4>2, <1>0, <1>3 DEF LoadInv, LifeOnce
    <3>2. CASE pc[p] # "settle"
      BY <3>2, <1>0, <1>1, <1>3 DEF LoadInv, LifeOnce, CallShape
    <3> QED BY <3>1, <3>2
  <2> QED BY <1>0, <1>1, <1>2, <1>3, <1>4, <2>1, <2>2, MovedKeepsLife
<1> QED BY <1>5, <1>9, <1>10 DEF LoadInv, Shapes

(* Every call under way has an instance of its own. *)
LEMMA InstancesApart ==
  ASSUME LoadInv, NEW p \in Processes, InFlight(p)
  PROVE  /\ Instance(p) \in Instances /\ ExtensionOf(Instance(p)) = subject[p] /\ subject[p] \in Extensions
         /\ \A q \in Processes : InFlight(q) /\ Instance(q) = Instance(p) => q = p
         /\ \A i \in Requests : pc[i] = "new" => Instance(p) # i
<1> USE BootApart
<1>1. subject[p] \in Extensions
  BY DEF LoadInv, TypeInv, Begun
<1>2. Instance(p) \in Instances /\ ExtensionOf(Instance(p)) = subject[p]
  BY <1>1 DEF Instance, ExtensionOf, Processes
<1>3. ASSUME NEW q \in Processes, InFlight(q), Instance(q) = Instance(p) PROVE q = p
  <2>1. subject[q] \in Extensions
    BY <1>3 DEF LoadInv, TypeInv, Begun
  <2> QED BY <1>1, <1>3, <2>1 DEF Instance, Processes
<1>4. ASSUME NEW i \in Requests, pc[i] = "new" PROVE Instance(p) # i
  BY <1>1, <1>4 DEF Instance, InFlight
<1> QED BY <1>1, <1>2, <1>3, <1>4

(* The code of one instance starts, is active, fails or has stopped. *)
LifeStep(p, v, becomes) ==
  /\ life' = [life EXCEPT ![v] = becomes]
  /\ \/ v = victim[p] /\ pc[p] = "stop" /\ becomes = "gone" /\ pc'[p] # "loading"
     \/ v = Instance(p) /\ pc[p] = "load" /\ becomes = "loading" /\ pc'[p] = "loading"
     \/ v = Instance(p) /\ pc[p] = "loading" /\ becomes \in {"live", "gone"} /\ pc'[p] # "loading"
  /\ pc'[p] \in {"clear", "settle", "load", "loading", "next", "done"}
  /\ pc[p] = "loading" /\ InFlight(p)' => p \in ending'
  /\ pc[p] \in {"stop", "load"} => p \notin ending' \/ pc'[p] = "settle"
  /\ \/ activeStates' = activeStates
     \/ pc[p] = "loading" /\ becomes = "live" /\ activeStates' = [activeStates EXCEPT ![subject[p]] = v]
  /\ \A e \in Extensions : tool'[e] \in {tool[e], NoInstance}
  /\ owners' \subseteq owners /\ changed' \subseteq changed /\ built' = built /\ agentTools' = agentTools

LEMMA LifeStepLoads ==
  ASSUME LoadInv, TypeInv', NEW p \in Processes, NEW v, NEW becomes, LifeStep(p, v, becomes),
         Apart(p), subject' = subject, InFlight(p)
  PROVE  /\ OwnMaps' /\ FreshCalls' /\ LifeOnce'
         /\ \A q \in Processes \ {p} : CallShape(q)'
<1> USE BootApart
<1>a. \A q \in Processes \ {p} : pc'[q] = pc[q] /\ op'[q] = op[q] /\ victim'[q] = victim[q] /\ (q \in ending' <=> q \in ending)
  BY DEF Apart
<1>s. \A i : Instance(i)' = Instance(i) /\ ExtensionOf(i)' = ExtensionOf(i)
  BY DEF Instance, ExtensionOf
<1>i. /\ Instance(p) \in Instances /\ ExtensionOf(Instance(p)) = subject[p] /\ subject[p] \in Extensions
      /\ \A q \in Processes : InFlight(q) /\ Instance(q) = Instance(p) => q = p
      /\ \A i \in Requests : pc[i] = "new" => Instance(p) # i
  BY InstancesApart
<1>v. /\ v \in Instances
      /\ pc[p] = "stop" => life[v] = "stopping"
      /\ pc[p] = "load" => life[v] = "none"
      /\ pc[p] = "loading" => life[v] = "loading"
  <2>1. CASE pc[p] = "stop"
    BY <2>1 DEF LifeStep, LoadInv, Shapes, CallShape, LifeOnce
  <2>2. CASE pc[p] = "load"
    <3>1. p \notin ending
      BY <2>2 DEF LoadInv, Shapes, CallShape
    <3> QED BY <2>2, <3>1, <1>i DEF LifeStep, LoadInv, LifeOnce
  <2>3. CASE pc[p] = "loading"
    BY <2>3, <1>i DEF LifeStep, LoadInv, LifeOnce
  <2> QED BY <2>1, <2>2, <2>3 DEF LifeStep
<1>l. \A i \in Instances : life'[i] = (IF i = v THEN becomes ELSE life[i]) /\ becomes # "none"
  BY <1>v DEF LifeStep, LoadInv, TypeInv, ExtensionTypeOK
<1>x. \A x \in Extensions : \/ activeStates'[x] = activeStates[x]
                            \/ x = subject[p] /\ activeStates'[x] = v /\ v = Instance(p) /\ becomes = "live" /\ pc[p] = "loading"
  BY <1>i, <1>v DEF LifeStep, LoadInv, TypeInv, ExtensionTypeOK
<1>n. pc'[p] \notin {"new", "stop"}
  BY DEF LifeStep
<1>1. OwnMaps'
  BY <1>i, <1>s, <1>x DEF LifeStep, LoadInv, OwnMaps, ExtensionOf
<1>2. FreshCalls'
  <2> SUFFICES ASSUME NEW i \in Requests, pc'[i] = "new" PROVE Fresh(i)'
    BY DEF FreshCalls
  <2>1. i # p /\ pc[i] = "new" /\ Fresh(i) /\ i \in Instances
    BY <1>a, <1>n DEF LoadInv, FreshCalls
  <2>2. v # i
    BY <1>i, <2>1 DEF LifeStep, Fresh
  <2>3. life'[i] = "none" /\ subject'[i] = NoInstance
    BY <1>l, <2>1, <2>2 DEF Fresh
  <2>4. \A e \in Extensions : tool'[e] # i /\ activeStates'[e] # i
    BY <1>x, <2>1, <2>2, ExtensionAssumption DEF LifeStep, Fresh
  <2>5. \A q \in Processes : pc'[q] = "stop" => victim'[q] # i
    BY <1>a, <1>n, <2>1 DEF Fresh
  <2> QED BY <2>1, <2>3, <2>4, <2>5 DEF Fresh, LifeStep
<1>3. ASSUME NEW q \in Processes \ {p} PROVE CallShape(q)'
  BY <1>a, <1>s DEF LoadInv, Shapes, CallShape, InFlight, ExtensionOf
<1>4. \A x \in Extensions : activeStates'[x] # NoInstance => life'[activeStates'[x]] = "live"
  <2> SUFFICES ASSUME NEW x \in Extensions, activeStates'[x] # NoInstance PROVE life'[activeStates'[x]] = "live"
    OBVIOUS
  <2>1. CASE activeStates'[x] = activeStates[x]
    <3>1. activeStates[x] \in Instances /\ life[activeStates[x]] = "live"
      BY <2>1 DEF LoadInv, TypeInv, ExtensionTypeOK, MaybeInstance, LifeOnce
    <3> QED BY <2>1, <3>1, <1>l, <1>v DEF LifeStep
  <2>2. CASE activeStates'[x] # activeStates[x]
    BY <2>2, <1>x, <1>l, <1>v
  <2> QED BY <2>1, <2>2
<1>5. ASSUME NEW q \in Processes, pc'[q] = "stop"
      PROVE  q # p /\ pc[q] = "stop" /\ victim'[q] = victim[q] /\ life'[victim[q]] = "stopping"
  <2>1. q # p /\ pc[q] = "stop" /\ victim'[q] = victim[q] /\ victim[q] \in Instances /\ life[victim[q]] = "stopping"
    BY <1>5, <1>a, <1>n DEF LoadInv, LifeOnce, Shapes, CallShape
  <2>2. victim[q] # v
    BY <2>1, <1>v DEF LifeStep, LoadInv, LifeOnce
  <2> QED BY <2>1, <2>2, <1>l
<1>6. \A q, r \in Processes : pc'[q] = "stop" /\ pc'[r] = "stop" /\ victim'[q] = victim'[r] => q = r
  BY <1>5 DEF LoadInv, LifeOnce
<1>7. ASSUME NEW q \in Processes, pc'[q] = "loading" PROVE life'[Instance(q)] = "loading"
  <2>1. CASE q = p
    BY <2>1, <1>7, <1>l, <1>v DEF LifeStep
  <2>2. CASE q # p
    <3>1. pc[q] = "loading" /\ InFlight(q) /\ life[Instance(q)] = "loading"
      BY <2>2, <1>7, <1>a DEF LoadInv, LifeOnce, InFlight
    <3>2. Instance(q) \in Instances /\ Instance(q) # Instance(p)
      BY <2>2, <3>1, <1>i, InstancesApart
    <3> QED BY <3>1, <3>2, <1>l, <1>v DEF LifeStep
  <2> QED BY <2>1, <2>2
<1>8. ASSUME NEW q \in Processes, InFlight(q)', pc'[q] # "loading", q \notin ending' PROVE life'[Instance(q)] = "none"
  <2>1. CASE q = p
    <3>1. pc[p] = "stop"
      BY <2>1, <1>8 DEF LifeStep
    <3>2. p \notin ending /\ life[Instance(p)] = "none"
      BY <3>1 DEF LoadInv, LifeOnce, Shapes, CallShape
    <3> QED BY <2>1, <3>1, <3>2, <1>i, <1>l, <1>v
  <2>2. CASE q # p
    <3>1. pc[q] # "loading" /\ InFlight(q) /\ q \notin ending /\ life[Instance(q)] = "none"
      BY <2>2, <1>8, <1>a DEF LoadInv, LifeOnce, InFlight
    <3>2. Instance(q) \in Instances /\ Instance(q) # Instance(p)
      BY <2>2, <3>1, <1>i, InstancesApart
    <3> QED BY <3>1, <3>2, <1>l, <1>v DEF LifeStep
  <2> QED BY <2>1, <2>2
<1>9. \A i \in owners' : life'[i] # "none"
  BY <1>l DEF LifeStep, LoadInv, LifeOnce, TypeInv, ExtensionTypeOK
<1>10. LifeOnce'
  BY <1>4, <1>5, <1>6, <1>7, <1>8, <1>9, <1>s DEF LifeOnce, Instance
<1> QED BY <1>1, <1>2, <1>3, <1>10

LEMMA RemoveToolMoves ==
  ASSUME TypeInv, NEW p \in Processes, NEW i, NEW e \in Extensions, NEW s \in Stages, RemoveTool(p, i, e, s)
  PROVE  /\ owners' = owners \ {i} /\ built' = built /\ agentTools' = agentTools
         /\ \A x \in Extensions : tool'[x] = IF x = e /\ i \in owners THEN NoInstance ELSE tool[x]
         /\ pc'[p] = IF i \in owners /\ tool[e] # NoInstance THEN "settle" ELSE s
  BY DEF RemoveTool, AskRefresh, At, TypeInv, ExtensionTypeOK, toolPassVars

LEMMA CodeLoads ==
  ASSUME LoadInv, TypeInv', NEW p \in Processes,
         Stopped(p) \/ StopFails(p) \/ LoadStarts(p) \/ LoadOk(p) \/ LoadFails(p)
  PROVE  /\ LoadInv'
         /\ \E v, becomes : LifeStep(p, v, becomes)
<1> USE BootApart
<1>0. Apart(p) /\ subject' = subject /\ InFlight(p)
  BY StepApart DEF LoadInv, CallStep
<1>1. subject[p] \in Extensions /\ CallShape(p) /\ p \in Processes
  BY <1>0 DEF LoadInv, TypeInv, Begun, Shapes
<1>2. Over(p) = (IF p = Boot THEN "next" ELSE "done") /\ Over(p) \in Stages /\ AfterCleanUp(p) \in Stages
  BY StagesListed DEF Over
<1>3. CASE Stopped(p) \/ StopFails(p)
  <2>1. pc[p] = "stop" /\ p \notin ending /\ life' = [life EXCEPT ![victim[p]] = "gone"] /\ changed' = changed /\ activeStates' = activeStates /\ Forget(p)
    BY <1>1, <1>3 DEF Stopped, StopFails, CallShape
  <2>2. /\ AfterCleanUp(p) \in {"clear", "done", "load"}
        /\ AfterCleanUp(p) = "clear" => op[p] = "uninstall"
        /\ op[p] = "none" => AfterCleanUp(p) = "load"
    BY <2>1, AfterCleanUpIs
  <2>3. PICK s \in {"clear", "done", "load", "next"} :
          /\ RemoveTool(p, victim[p], subject[p], s)
          /\ s = "clear" => op[p] = "uninstall"
          /\ s = "next" <=> p = Boot /\ StopFails(p)
          /\ p = Boot => s \in {"next", "load"}
          /\ \/ ending' = ending
             \/ ending' = ending \cup {p} /\ pc'[p] = "settle"
          /\ Stopped(p) \/ StopFails(p)
    <3>1. CASE StopFails(p)
      BY <3>1, <1>2 DEF StopFails
    <3>2. CASE Stopped(p) /\ ~StopFails(p)
      <4>1. p = Boot => op[p] = "none"
        BY <1>1 DEF CallShape
      <4> QED BY <3>2, <2>2, <4>1 DEF Stopped
    <3> QED BY <1>3, <3>1, <3>2
  <2>4. s \in Stages
    BY StagesListed
  <2>5. /\ owners' = owners \ {victim[p]} /\ built' = built /\ agentTools' = agentTools
        /\ \A x \in Extensions : tool'[x] = IF x = subject[p] /\ victim[p] \in owners THEN NoInstance ELSE tool[x]
        /\ pc'[p] \in {s, "settle"}
    BY <1>1, <2>3, <2>4, RemoveToolMoves DEF LoadInv
  <2>6. LifeStep(p, victim[p], "gone")
    BY <2>1, <2>3, <2>5 DEF LifeStep
  <2>7. op'[p] = IF pc'[p] = "done" THEN "none" ELSE op[p]
    BY <2>1, ForgetTyped DEF LoadInv, TypeInv
  <2>8. CallShape(p)'
    BY <1>0, <1>1, <2>1, <2>3, <2>5, <2>7 DEF CallShape, InFlight
  <2> QED BY <1>0, <2>6, <2>8, LifeStepLoads DEF LoadInv, Shapes
<1>4. CASE LoadStarts(p)
  <2>1. /\ pc[p] = "load" /\ life' = [life EXCEPT ![Instance(p)] = "loading"] /\ At(p, "loading") /\ p \notin ending
        /\ UNCHANGED <<op, subject, victim, index, ending, registryVars, activeStates, tool, owners, changed, dropped, toolPassVars, ghosts>>
    BY <1>1, <1>4 DEF LoadStarts, CallShape
  <2>2. pc'[p] = "loading"
    BY <2>1 DEF At, LoadInv, TypeInv, ExtensionTypeOK
  <2>3. LifeStep(p, Instance(p), "loading")
    BY <2>1, <2>2 DEF LifeStep, toolPassVars
  <2>4. CallShape(p)'
    BY <1>0, <1>1, <2>1, <2>2 DEF CallShape, InFlight
  <2> QED BY <1>0, <2>3, <2>4, LifeStepLoads DEF LoadInv, Shapes
<1>5. CASE LoadOk(p)
  <2>1. /\ pc[p] = "loading" /\ life' = [life EXCEPT ![Instance(p)] = "live"] /\ Forget(p) /\ p \notin ending
        /\ changed' \subseteq changed /\ activeStates' = [activeStates EXCEPT ![subject[p]] = Instance(p)]
        /\ UNCHANGED <<subject, victim, registryVars, tool, owners, dropped, ghosts>>
    BY <1>1, <1>5 DEF LoadOk, CallShape
  <2>2. /\ \/ At(p, "settle") /\ ending' = ending \cup {p}
           \/ At(p, Over(p)) /\ ending' = ending
        /\ built' = built /\ agentTools' = agentTools
    BY <1>5 DEF LoadOk, AskRefresh, toolPassVars
  <2>3. \/ pc'[p] = "settle" /\ ending' = ending \cup {p}
        \/ pc'[p] = Over(p) /\ ending' = ending
    BY <2>2 DEF At, LoadInv, TypeInv, ExtensionTypeOK
  <2>4. InFlight(p)' => p \in ending'
    BY <2>3, <1>2 DEF InFlight
  <2>5. pc'[p] \in {"settle", "next", "done"}
    BY <2>3, <1>2
  <2>6. LifeStep(p, Instance(p), "live")
    BY <2>1, <2>2, <2>4, <2>5 DEF LifeStep
  <2>7. op'[p] = IF pc'[p] = "done" THEN "none" ELSE op[p]
    BY <2>1, ForgetTyped DEF LoadInv, TypeInv
  <2>8. CallShape(p)'
    BY <1>0, <1>1, <1>2, <2>1, <2>3, <2>7 DEF CallShape, InFlight
  <2> QED BY <1>0, <2>6, <2>8, LifeStepLoads DEF LoadInv, Shapes
<1>6. CASE LoadFails(p)
  <2>1. /\ pc[p] = "loading" /\ life' = [life EXCEPT ![Instance(p)] = "gone"] /\ Forget(p) /\ p \notin ending
        /\ changed' \subseteq changed /\ RemoveTool(p, Instance(p), subject[p], Over(p))
        /\ UNCHANGED <<subject, victim, registryVars, activeStates, dropped, ghosts>>
        /\ ending' = IF pc'[p] = "settle" THEN ending \cup {p} ELSE ending
    BY <1>1, <1>6 DEF LoadFails, CallShape
  <2>2. /\ owners' = owners \ {Instance(p)} /\ built' = built /\ agentTools' = agentTools
        /\ \A x \in Extensions : tool'[x] = IF x = subject[p] /\ Instance(p) \in owners THEN NoInstance ELSE tool[x]
        /\ pc'[p] \in {Over(p), "settle"}
    BY <1>1, <1>2, <2>1, RemoveToolMoves DEF LoadInv
  <2>4. InFlight(p)' => p \in ending'
    BY <2>1, <2>2, <1>2 DEF InFlight
  <2>5. pc'[p] \in {"settle", "next", "done"}
    BY <2>2, <1>2
  <2>6. LifeStep(p, Instance(p), "gone")
    BY <2>1, <2>2, <2>4, <2>5 DEF LifeStep
  <2>7. op'[p] = IF pc'[p] = "done" THEN "none" ELSE op[p]
    BY <2>1, ForgetTyped DEF LoadInv, TypeInv
  <2>8. CallShape(p)'
    BY <1>0, <1>1, <1>2, <2>1, <2>2, <2>7 DEF CallShape, InFlight
  <2> QED BY <1>0, <2>6, <2>8, LifeStepLoads DEF LoadInv, Shapes
<1> QED BY <1>3, <1>4, <1>5, <1>6

LEMMA ToolLoads ==
  ASSUME LoadInv, TypeInv', \/ \E i \in Instances : RegisterTool(i) \/ UnregisterTool(i)
                            \/ RefreshRead \/ RefreshApply \/ UNCHANGED extensionVars
  PROVE  LoadInv'
<1> USE BootApart
<1>1. /\ UNCHANGED <<callVars, activeStates, life>>
      /\ \A i \in owners' \ owners : life[i] # "none"
      /\ \A i \in changed' \ changed : life[i] # "none"
      /\ \A i \in built' \ built : i \in Tools
      /\ \A i \in agentTools' \ agentTools : i \in built
    BY DEF RegisterTool, UnregisterTool, RefreshRead, RefreshApply, AskRefresh, callVars, registryVars, loadVars, toolPassVars, extensionVars
<1>2. ASSUME NEW e \in Extensions PROVE \/ tool'[e] = tool[e] \/ tool'[e] = NoInstance
                                        \/ tool'[e] \in Instances /\ ExtensionOf(tool'[e]) = e /\ life[tool'[e]] # "none"
    BY DEF RegisterTool, UnregisterTool, RefreshRead, RefreshApply, loadVars, extensionVars, LoadInv, TypeInv, ExtensionTypeOK
<1>3. Shapes'
  BY <1>1 DEF LoadInv, Shapes, CallShape, InFlight, ExtensionOf, callVars
<1>4. OwnMaps'
  BY <1>1, <1>2 DEF LoadInv, OwnMaps, ExtensionOf, callVars
<1>5. LifeOnce'
  BY <1>1 DEF LoadInv, LifeOnce, InFlight, Instance, callVars
<1>6. FreshCalls'
  <2> SUFFICES ASSUME NEW i \in Requests, pc'[i] = "new" PROVE Fresh(i)'
    BY DEF FreshCalls
  <2>1. Fresh(i) /\ i \in Instances
    BY <1>1 DEF LoadInv, FreshCalls, callVars
  <2>2. i \notin Tools
    BY <2>1, ExtensionAssumption DEF Fresh, Tools
  <2>3. \A e \in Extensions : tool'[e] # i
    BY <2>1, <1>2, ExtensionAssumption DEF Fresh
  <2> QED BY <1>1, <2>1, <2>2, <2>3 DEF Fresh, callVars
<1> QED BY <1>3, <1>4, <1>5, <1>6 DEF LoadInv

(* The extensions initialize() has still to come to have not been activated by *)
(* it, and no extension is installed again.                                    *)
Known(i) == i \in ToSet(Listed) \/ \E q \in Requests : subject[q] = i
StartOrder ==
  /\ \A n \in 1..Len(entries) : n >= index[Boot] =>
       life[entries[n]] = "none" /\ (InFlight(Boot) => subject[Boot] # entries[n])
  /\ \A i \in Extensions :
       life[i] # "none" \/ (InFlight(Boot) /\ subject[Boot] = i) \/ i \in ToSet(entries) => Known(i)

(* Code that was never started stays so through a move. *)
LEMMA MovedStarts ==
  ASSUME LoadInv, NEW p \in Processes, NEW e \in Extensions, NEW s \in Stages \ {"stop", "loading", "new"}, Moved(p, e, s)
  PROVE  \A i \in Instances : life'[i] = "none" <=> life[i] = "none"
<1>1. activeStates[e] \in Instances => life[activeStates[e]] = "live"
  BY BootApart DEF LoadInv, LifeOnce
<1> QED BY <1>1, MovedFacts

LEMMA OrderAfterCall ==
  ASSUME LoadInv, StartOrder, NEW p \in Requests, NEW e \in Extensions, Call(p, e)
  PROVE  StartOrder'
<1> USE BootApart
<1>1. pc[p] = "new" /\ subject' = [subject EXCEPT ![p] = e]
  BY CallMoves DEF LoadInv
<1>2. PICK s \in {"persist", "load", "clear", "done"} : Moved(p, e, s)
  BY CallMoves DEF LoadInv
<1>3. \A i \in Instances : life'[i] = "none" <=> life[i] = "none"
  BY <1>2, MovedStarts, StagesListed
<1>4. index'[Boot] = index[Boot] /\ (InFlight(Boot)' <=> InFlight(Boot)) /\ subject'[Boot] = subject[Boot]
  BY CallApart DEF LoadInv, Apart, InFlight
<1>5. subject[p] = NoInstance
  BY <1>1 DEF LoadInv, FreshCalls, Fresh
<1>6. ASSUME NEW i \in Extensions, Known(i) PROVE Known(i)'
  BY <1>1, <1>5, <1>6, ExtensionAssumption DEF Known, LoadInv, TypeInv, ExtensionTypeOK
<1>7. entries \in Seq(Extensions) /\ IsInjective(entries)
  BY DEF LoadInv, TypeInv, ExtensionTypeOK
<1>8. CASE CallInstall(p, e)
  <2>1. entries' = Append(entries, e) /\ e \notin ToSet(entries) /\ ~Known(e)
    BY <1>8 DEF CallInstall, Known
  <2>2. /\ ToSet(entries') = ToSet(entries) \cup {e} /\ Len(entries') = Len(entries) + 1
        /\ \A n \in 1..Len(entries) : entries'[n] = entries[n] /\ entries[n] \in Extensions
        /\ entries'[Len(entries) + 1] = e
    BY <1>7, <2>1, AppendAdds
  <2>3. life[e] = "none" /\ (InFlight(Boot) => subject[Boot] # e)
    BY <2>1 DEF StartOrder
  <2>4. Known(e)'
    BY <1>1 DEF Known, LoadInv, TypeInv, ExtensionTypeOK
  <2>5. ASSUME NEW n \in 1..Len(entries'), n >= index'[Boot]
        PROVE  life'[entries'[n]] = "none" /\ (InFlight(Boot)' => subject'[Boot] # entries'[n])
    <3>1. CASE n = Len(entries) + 1
      BY <3>1, <2>2, <2>3, <1>3, <1>4
    <3>2. CASE n \in 1..Len(entries)
      BY <3>2, <2>2, <2>5, <1>3, <1>4 DEF StartOrder
    <3> QED BY <3>1, <3>2, <2>2, <1>7
  <2>6. ASSUME NEW i \in Extensions, life'[i] # "none" \/ (InFlight(Boot)' /\ subject'[Boot] = i) \/ i \in ToSet(entries') PROVE Known(i)'
    BY <2>6, <2>2, <2>4, <1>3, <1>4, <1>6 DEF StartOrder
  <2> QED BY <2>5, <2>6 DEF StartOrder, InFlight
<1>9. CASE ~CallInstall(p, e)
  <2>1. entries' = entries
    BY <1>9 DEF Call, CallEnable, CallDisable, CallReload, CallGrant, CallUninstall, registryVars
  <2>2. \A n \in 1..Len(entries) : entries[n] \in Instances
    BY <1>7
  <2>3. ASSUME NEW n \in 1..Len(entries'), n >= index'[Boot]
        PROVE  life'[entries'[n]] = "none" /\ (InFlight(Boot)' => subject'[Boot] # entries'[n])
    BY <2>1, <2>2, <2>3, <1>3, <1>4 DEF StartOrder
  <2>6. ASSUME NEW i \in Extensions, life'[i] # "none" \/ (InFlight(Boot)' /\ subject'[Boot] = i) \/ i \in ToSet(entries') PROVE Known(i)'
    BY <2>6, <2>1, <1>3, <1>4, <1>6 DEF StartOrder
  <2> QED BY <2>3, <2>6 DEF StartOrder, InFlight
<1> QED BY <1>8, <1>9

LEMMA OrderAfterBoot ==
  ASSUME LoadInv, StartOrder, BootNext \/ BootEnds
  PROVE  StartOrder'
<1> USE BootApart
<1>1. pc[Boot] = "next" /\ ~InFlight(Boot) /\ entries' = entries
  BY BootMoves DEF LoadInv, registryVars, InFlight
<1>2. \A q \in Requests : subject'[q] = subject[q]
  BY BootStepApart DEF LoadInv, Apart
<1>3. \A i : Known(i)' <=> Known(i)
  BY <1>2 DEF Known
<1>4. index[Boot] \in Nat /\ index'[Boot] \in Nat /\ (index'[Boot] >= index[Boot])
  BY DEF BootNext, BootEnds, LoadInv, TypeInv, ExtensionTypeOK
<1>5. DOMAIN entries = 1..Len(entries) /\ \A n \in 1..Len(entries) : entries[n] \in Instances /\ entries[n] \in Extensions
  BY DEF LoadInv, TypeInv, ExtensionTypeOK
<1>6. CASE UNCHANGED <<activeStates, life, victim, subject>> /\ pc'[Boot] \in {"next", "done"}
  <2>1. ~InFlight(Boot)'
    BY <1>6 DEF InFlight
  <2>2. ASSUME NEW n \in 1..Len(entries), n >= index'[Boot] PROVE life'[entries[n]] = "none"
    BY <1>4, <1>6, <2>2 DEF StartOrder
  <2>3. ASSUME NEW i \in Extensions, life'[i] # "none" \/ i \in ToSet(entries) PROVE Known(i)'
    BY <1>3, <1>6, <2>3 DEF StartOrder
  <2> QED BY <1>1, <2>1, <2>2, <2>3 DEF StartOrder, InFlight
<1>7. ASSUME NEW e \in Extensions, BootNext, e = entries[index[Boot]], index[Boot] \in 1..Len(entries),
             subject' = [subject EXCEPT ![Boot] = e], Moved(Boot, e, "load")
      PROVE  StartOrder'
  <2>1. \A i \in Instances : life'[i] = "none" <=> life[i] = "none"
    BY <1>7, MovedStarts, StagesListed
  <2>2. index'[Boot] = index[Boot] + 1 /\ subject'[Boot] = e
    BY <1>7 DEF BootNext, LoadInv, TypeInv, ExtensionTypeOK
  <2>3. ASSUME NEW n \in 1..Len(entries), n >= index'[Boot] PROVE life'[entries[n]] = "none" /\ entries[n] # e
    <3>1. n >= index[Boot] /\ n # index[Boot]
      BY <1>4, <2>2, <2>3
    <3>2. life[entries[n]] = "none"
      BY <3>1 DEF StartOrder
    <3>3. entries[n] # entries[index[Boot]]
      BY <1>5, <1>7, <3>1 DEF LoadInv, TypeInv, ExtensionTypeOK, IsInjective
    <3> QED BY <1>5, <1>7, <2>1, <3>2, <3>3
  <2>4. e \in ToSet(entries)
    BY <1>5, <1>7 DEF ToSet
  <2>5. ASSUME NEW i \in Extensions, life'[i] # "none" \/ i = e \/ i \in ToSet(entries) PROVE Known(i)'
    BY <1>3, <2>1, <2>4, <2>5 DEF StartOrder
  <2> QED BY <1>1, <2>2, <2>3, <2>5 DEF StartOrder
<1>8. CASE UNCHANGED <<subject, pc, activeStates, life, victim>>
  BY <1>1, <1>6, <1>8
<1>9. CASE At(Boot, "done") /\ UNCHANGED <<subject, activeStates, life, victim>>
  BY <1>6, <1>9 DEF At, LoadInv, TypeInv, ExtensionTypeOK
<1> QED BY <1>7, <1>8, <1>9, BootMoves DEF LoadInv

(* initialize() ends in BootEnds only. *)
LEMMA BootGoesOn ==
  ASSUME LoadInv, CallStep(Boot)
  PROVE  pc'[Boot] # "done"
<1> USE BootApart
<1>1. CallShape(Boot)
  BY DEF LoadInv, Shapes
<1>2. Over(Boot) = "next"
  BY DEF Over
<1>3. AfterCleanUp(Boot) \in {"load", "next"}
  BY <1>1, <1>2, AfterCleanUpIs DEF CallShape
<1>4. ~Persisted(Boot) /\ ~Cleared(Boot) /\ ~Quits(Boot)
  BY <1>1 DEF CallShape, Persisted, Cleared, Quits, PersistFails, ClearFails, Uninstalled
<1>5. subject[Boot] \in Extensions
  BY StepApart DEF LoadInv, TypeInv, Begun
<1>6. ASSUME NEW i, NEW s \in {"load", "next"}, RemoveTool(Boot, i, subject[Boot], s) PROVE pc'[Boot] # "done"
  <2>1. s \in Stages
    BY <1>6, StagesListed
  <2>2. pc'[Boot] \in {"settle", s}
    BY <1>5, <1>6, <2>1, RemoveToolMoves DEF LoadInv
  <2> QED BY <1>6, <2>2
<1>7. ASSUME NEW s \in {"load", "next", "loading", "settle"}, At(Boot, s) PROVE pc'[Boot] # "done"
  BY <1>7 DEF At, LoadInv, TypeInv, ExtensionTypeOK
<1>8. Stopped(Boot) => pc'[Boot] # "done"
  BY <1>3, <1>6 DEF Stopped
<1>9. StopFails(Boot) \/ LoadFails(Boot) => pc'[Boot] # "done"
  BY <1>2, <1>6 DEF StopFails, LoadFails
<1>10. Settled(Boot) \/ LoadStarts(Boot) \/ LoadOk(Boot) => pc'[Boot] # "done"
  BY <1>2, <1>3, <1>7 DEF Settled, LoadStarts, LoadOk
<1> QED BY <1>4, <1>8, <1>9, <1>10 DEF CallStep, Quits

LEMMA OrderAfterStep ==
  ASSUME LoadInv, TypeInv', StartOrder, NEW p \in Processes, CallStep(p)
  PROVE  StartOrder'
<1> USE BootApart
<1>0. Apart(p) /\ subject' = subject /\ InFlight(p)
  BY StepApart DEF LoadInv
<1>1. index'[Boot] = index[Boot] /\ (InFlight(Boot)' => InFlight(Boot))
  <2>1. CASE p = Boot
    <3>1. index' = index \/ (Forget(p) /\ pc'[p] # "done")
      BY <2>1, BootGoesOn DEF CallStep, Persisted, PersistFails, ClearFails, Uninstalled, Stopped, StopFails, Settled, LoadStarts, LoadOk, LoadFails, Cleared
    <3> QED BY <2>1, <3>1, <1>0 DEF Forget, LoadInv, TypeInv, ExtensionTypeOK
  <2>2. CASE p # Boot
    BY <2>2, <1>0 DEF Apart, InFlight
  <2> QED BY <2>1, <2>2
<1>2. \A i : Known(i)' <=> Known(i)
  BY <1>0 DEF Known
<1>3. \A i \in Extensions : life'[i] # "none" => life[i] # "none" \/ (p = Boot /\ i = subject[Boot])
  <2>1. CASE Persisted(p) \/ Settled(p) \/ Cleared(p) \/ Quits(p)
    <3>1. subject[p] \in Extensions
      BY <1>0 DEF LoadInv, TypeInv, Begun
    <3>2. life' = life \/ Moved(p, subject[p], "done") \/ Moved(p, subject[p], "load")
      BY <2>1 DEF Persisted, Settled, Cleared, Quits, PersistFails, ClearFails, Uninstalled, Moved, loadVars
    <3> QED BY <3>1, <3>2, MovedStarts, StagesListed
  <2>2. CASE ~(Persisted(p) \/ Settled(p) \/ Cleared(p) \/ Quits(p))
    <3>1. PICK v, becomes : LifeStep(p, v, becomes)
      BY <2>2, CodeLoads DEF CallStep, Quits
    <3>2. \A i \in Extensions : i # v => life'[i] = life[i]
      BY <3>1 DEF LifeStep, LoadInv, TypeInv, ExtensionTypeOK
    <3>3. CASE v = Instance(p) /\ p # Boot
      <4>1. v \notin Extensions
        BY <3>3, ExtensionAssumption DEF Instance, Processes
      <4> QED BY <3>2, <4>1
    <3>4. CASE v = Instance(p) /\ p = Boot
      BY <3>2, <3>4 DEF Instance
    <3>5. CASE v = victim[p] /\ pc[p] = "stop"
      BY <3>2, <3>5 DEF LoadInv, LifeOnce
    <3> QED BY <3>1, <3>3, <3>4, <3>5 DEF LifeStep
  <2> QED BY <2>1, <2>2
<1>4. \A n \in 1..Len(entries') : \E m \in 1..Len(entries) : m >= n /\ entries'[n] = entries[m]
  <2>1. CASE entries' = entries
    <3>1. \A n \in 1..Len(entries) : n >= n
      OBVIOUS
    <3> QED BY <2>1, <3>1
  <2>2. CASE entries' # entries
    <3>1. index[p] \in DOMAIN entries /\ entries' = RemoveAt(entries, index[p])
      BY <2>2 DEF CallStep, Persisted, PersistFails, ClearFails, Uninstalled, Stopped, StopFails, Settled, LoadStarts, LoadOk, LoadFails, Cleared, registryVars
    <3>2. entries \in Seq(Extensions) /\ IsInjective(entries) /\ index[p] \in 1..Len(entries)
      BY <3>1 DEF LoadInv, TypeInv, ExtensionTypeOK
    <3>3. Len(entries') = Len(entries) - 1
          /\ \A n \in 1..(Len(entries) - 1) : entries'[n] = IF n < index[p] THEN entries[n] ELSE entries[n + 1]
      BY <3>1, <3>2, RemoveAtLeaves
    <3>4. ASSUME NEW n \in 1..(Len(entries) - 1) PROVE \E m \in 1..Len(entries) : m >= n /\ entries'[n] = entries[m]
      <4>1. n \in 1..Len(entries) /\ n + 1 \in 1..Len(entries) /\ n >= n /\ n + 1 >= n
        BY <3>2
      <4> QED BY <3>3, <4>1
    <3> QED BY <3>3, <3>4
  <2> QED BY <2>1, <2>2
<1>5. \A n \in 1..Len(entries) : entries[n] \in Extensions /\ entries[n] \in ToSet(entries)
  BY DEF LoadInv, TypeInv, ExtensionTypeOK, ToSet
<1>6. ASSUME NEW n \in 1..Len(entries'), n >= index'[Boot]
      PROVE  life'[entries'[n]] = "none" /\ (InFlight(Boot)' => subject'[Boot] # entries'[n])
  <2>1. PICK m \in 1..Len(entries) : m >= n /\ entries'[n] = entries[m]
    BY <1>4
  <2>2. m >= index[Boot]
    <3>1. n \in Nat /\ m \in Nat /\ index[Boot] \in Nat
      BY DEF LoadInv, TypeInv, ExtensionTypeOK
    <3> QED BY <3>1, <2>1, <1>1, <1>6
  <2>3. life[entries[m]] = "none" /\ (InFlight(Boot) => subject[Boot] # entries[m])
    BY <2>2 DEF StartOrder
  <2> QED BY <2>1, <2>3, <1>0, <1>1, <1>3, <1>5
<1>7. ASSUME NEW i \in Extensions, i \in ToSet(entries') PROVE i \in ToSet(entries)
  <2>1. DOMAIN entries' = 1..Len(entries')
    BY DEF TypeInv, ExtensionTypeOK
  <2> QED BY <1>4, <1>5, <1>7, <2>1 DEF ToSet
<1>8. ASSUME NEW i \in Extensions, life'[i] # "none" \/ (InFlight(Boot)' /\ subject'[Boot] = i) \/ i \in ToSet(entries') PROVE Known(i)'
  BY <1>0, <1>1, <1>2, <1>3, <1>7, <1>8 DEF StartOrder
<1> QED BY <1>6, <1>8 DEF StartOrder, InFlight

LEMMA LoadInductive ==
  /\ ExtensionInit => LoadInv /\ StartOrder
  /\ LoadInv /\ StartOrder /\ [ExtensionNext]_extensionVars => LoadInv' /\ StartOrder'
<1> USE BootApart
<1>1. ExtensionInit => LoadInv /\ StartOrder
  <2> SUFFICES ASSUME ExtensionInit PROVE LoadInv /\ StartOrder
    OBVIOUS
  <2>1. TypeInv
    BY TypesInductive
  <2>2. /\ \A p \in Processes : pc[p] \in {"new", "next"} /\ op[p] = "none" /\ subject[p] = NoInstance
        /\ pc[Boot] = "next" /\ (\A p \in Requests : pc[p] = "new")
        /\ \A i \in Instances : life[i] = "none"
        /\ \A e \in Extensions : tool[e] = NoInstance /\ activeStates[e] = NoInstance
        /\ owners = {} /\ changed = {} /\ built = {} /\ agentTools = {} /\ ending = {} /\ entries = Listed
    BY DEF ExtensionInit
  <2>3. \A p \in Processes : ~InFlight(p)
    BY <2>2 DEF InFlight
  <2>4. Shapes
    <3> SUFFICES ASSUME NEW p \in Processes PROVE CallShape(p)
      BY DEF Shapes
    <3>1. p # Boot => pc[p] = "new"
      BY <2>2 DEF Processes
    <3> QED BY <2>2, <2>3, <3>1 DEF CallShape
  <2>5. FreshCalls
    BY <2>2, ExtensionAssumption DEF FreshCalls, Fresh
  <2>6. OwnMaps /\ LifeOnce
    BY <2>2, <2>3 DEF OwnMaps, LifeOnce
  <2>7. \A n \in 1..Len(entries) : life[entries[n]] = "none"
    BY <2>1, <2>2 DEF TypeInv, ExtensionTypeOK
  <2>8. StartOrder
    BY <2>2, <2>3, <2>7 DEF StartOrder, Known
  <2> QED BY <2>1, <2>4, <2>5, <2>6, <2>8 DEF LoadInv
<1>2. ASSUME LoadInv, StartOrder, [ExtensionNext]_extensionVars PROVE LoadInv' /\ StartOrder'
  <2>1. TypeInv'
    BY <1>2, TypesInductive DEF LoadInv
  <2>2. ASSUME NEW p \in Requests, NEW e \in Extensions, Call(p, e) PROVE LoadInv' /\ StartOrder'
    BY <1>2, <2>1, <2>2, CallLoads, OrderAfterCall
  <2>3. CASE BootNext \/ BootEnds
    <3>1. index[Boot] \in 1..Len(entries) => life[entries[index[Boot]]] = "none"
      BY <1>2 DEF StartOrder, LoadInv, TypeInv, ExtensionTypeOK
    <3> QED BY <1>2, <2>1, <2>3, <3>1, BootLoads, OrderAfterBoot
  <2>4. ASSUME NEW p \in Processes, CallStep(p) PROVE LoadInv' /\ StartOrder'
    BY <1>2, <2>1, <2>4, QuietLoads, CodeLoads, OrderAfterStep DEF CallStep, Quits
  <2>5. CASE (\E i \in Instances : RegisterTool(i) \/ UnregisterTool(i)) \/ RefreshRead \/ RefreshApply \/ UNCHANGED extensionVars
    <3>1. LoadInv'
      BY <1>2, <2>1, <2>5, ToolLoads
    <3>2. UNCHANGED <<callVars, registryVars, life>>
      BY <2>5 DEF RegisterTool, UnregisterTool, RefreshRead, RefreshApply, loadVars, extensionVars
    <3>3. StartOrder'
      BY <1>2, <3>2 DEF StartOrder, Known, InFlight, callVars, registryVars
    <3> QED BY <3>1, <3>3
  <2> QED BY <1>2, <2>2, <2>3, <2>4, <2>5 DEF ExtensionNext
<1> QED BY <1>1, <1>2

-----------------------------------------------------------------------------
(* The tools of the agents. *)

KnownTools(S) == \A i \in S : ExtensionOf(i) \in Extensions

(* Of what is registered for e, S has exactly the tool. *)
FreshOf(S, e) == \A i \in Instances : i \in S /\ ExtensionOf(i) = e <=> i = tool[e]

(* An activation will ask for a refresh that concerns e, or has dropped its tool. *)
Marked(e) == \E j \in changed : ExtensionOf(j) = e /\ (j \notin owners \/ tool[e] # NoInstance)

(* What registers while it is activated is marked. *)
Marks == \A i \in owners : life[i] = "loading" => i \in changed

(* What the agents have, or are about to get in a pass that nothing outdates,  *)
(* is what is registered.                                                      *)
ToolsCurrent ==
  /\ KnownTools(built) /\ KnownTools(agentTools)
  /\ refresher = "off" => \A e \in Extensions : FreshOf(agentTools, e) \/ Marked(e)
  /\ refresher = "built" /\ ~requested => \A e \in Extensions : FreshOf(built, e) \/ Marked(e)

ToolsInv == Marks /\ ToolsCurrent

(* An instance that was ever loaded keeps its extension. *)
LEMMA SameExtensions ==
  ASSUME LoadInv, [ExtensionNext]_extensionVars
  PROVE  \A i \in Instances : (i \in Requests /\ pc[i] = "new") \/ ExtensionAfter(i) = ExtensionOf(i)
<1> USE BootApart
<1>1. ASSUME NEW p \in Requests, NEW e \in Extensions, Call(p, e)
      PROVE  \A i \in Instances : (i \in Requests /\ pc[i] = "new") \/ ExtensionAfter(i) = ExtensionOf(i)
  <2>1. pc[p] = "new" /\ Apart(p)
    BY <1>1, CallApart DEF LoadInv, Call
  <2> QED BY <2>1 DEF Apart, ExtensionAfter, ExtensionOf, Instances
<1>2. CASE BootNext \/ BootEnds
  BY <1>2, BootStepApart DEF LoadInv, Apart, ExtensionAfter, ExtensionOf, Instances
<1>3. ASSUME NEW p \in Processes, CallStep(p) PROVE subject' = subject
  BY <1>3, StepApart DEF LoadInv
<1>4. (\E i \in Instances : RegisterTool(i) \/ UnregisterTool(i)) \/ RefreshRead \/ RefreshApply \/ UNCHANGED extensionVars
      => subject' = subject
  BY DEF RegisterTool, UnregisterTool, RefreshRead, RefreshApply, callVars, extensionVars
<1>5. subject' = subject => \A i : ExtensionAfter(i) = ExtensionOf(i)
  BY DEF ExtensionAfter, ExtensionOf
<1> QED BY <1>1, <1>2, <1>3, <1>4, <1>5 DEF ExtensionNext

LEMMA KnownAfter ==
  ASSUME LoadInv, [ExtensionNext]_extensionVars, NEW S \in SUBSET (built \cup agentTools), KnownTools(S)
  PROVE  \A i \in S : i \in Instances /\ ExtensionAfter(i) = ExtensionOf(i) /\ ExtensionAfter(i) \in Extensions
<1>1. \A i \in S : i \in Instances /\ ~(i \in Requests /\ pc[i] = "new")
  BY DEF LoadInv, TypeInv, ExtensionTypeOK, FreshCalls, Fresh
<1> QED BY <1>1, SameExtensions DEF KnownTools

LEMMA SameKnown ==
  ASSUME LoadInv, ToolsInv, [ExtensionNext]_extensionVars, built' = built, agentTools' = agentTools
  PROVE  KnownTools(built)' /\ KnownTools(agentTools)'
  BY KnownAfter, AfterIs DEF ToolsInv, ToolsCurrent, KnownTools

(* A refresh that is asked for makes it so. *)
LEMMA AskedIsCurrent ==
  ASSUME LoadInv, ToolsInv, [ExtensionNext]_extensionVars, AskRefresh
  PROVE  ToolsCurrent'
<1>1. built' = built /\ agentTools' = agentTools /\ refresher' # "off" /\ (refresher' = "built" => requested')
  BY DEF AskRefresh, LoadInv, TypeInv, ExtensionTypeOK
<1> QED BY <1>1, SameKnown DEF ToolsCurrent

(* Where the pass and the tool of e stay, e is as current as before. *)
LEMMA UnaskedIsCurrent ==
  ASSUME LoadInv, ToolsInv, [ExtensionNext]_extensionVars, UNCHANGED toolPassVars,
         \A e \in Extensions :
           \/ /\ tool'[e] = tool[e]
              /\ \A j \in changed : ExtensionOf(j) = e /\ (j \notin owners \/ tool[e] # NoInstance)
                                    => j \in changed' /\ (j \notin owners' \/ tool[e] # NoInstance)
           \/ \E j \in changed' : j \in Instances /\ ~(j \in Requests /\ pc[j] = "new") /\ ExtensionOf(j) = e
                                  /\ (j \notin owners' \/ tool'[e] # NoInstance)
  PROVE  ToolsCurrent'
<1>1. built' = built /\ agentTools' = agentTools /\ refresher' = refresher /\ requested' = requested
  BY DEF toolPassVars
<1>2. \A i \in Instances : (i \in Requests /\ pc[i] = "new") \/ ExtensionAfter(i) = ExtensionOf(i)
  BY SameExtensions
<1>3. \A i \in Instances : i \in Requests /\ pc[i] = "new" => i \notin changed /\ i \notin built /\ i \notin agentTools /\ \A e \in Extensions : tool[e] # i
  BY DEF LoadInv, FreshCalls, Fresh
<1>4. changed \subseteq Instances
  BY DEF LoadInv, TypeInv, ExtensionTypeOK
<1>5. ASSUME NEW e \in Extensions, Marked(e) PROVE \E j \in changed' : ExtensionAfter(j) = e /\ (j \notin owners' \/ tool'[e] # NoInstance)
  <2>1. PICK j \in changed : ExtensionOf(j) = e /\ (j \notin owners \/ tool[e] # NoInstance)
    BY <1>5 DEF Marked
  <2>2. ExtensionAfter(j) = e
    BY <2>1, <1>2, <1>3, <1>4
  <2> QED BY <2>1, <2>2, <1>2
<1>6. ASSUME NEW e \in Extensions, tool'[e] # tool[e] PROVE \E j \in changed' : ExtensionAfter(j) = e /\ (j \notin owners' \/ tool'[e] # NoInstance)
  BY <1>2, <1>6
<1>7. ASSUME NEW e \in Extensions, NEW S, S \in {built, agentTools}, FreshOf(S, e), tool'[e] = tool[e]
      PROVE  \A i \in Instances : i \in S /\ ExtensionAfter(i) = e <=> i = tool'[e]
  <2> SUFFICES ASSUME NEW i \in Instances PROVE i \in S /\ ExtensionAfter(i) = e <=> i = tool[e]
    BY <1>7
  <2>1. i \in S /\ ExtensionOf(i) = e <=> i = tool[e]
    BY <1>7 DEF FreshOf
  <2>2. CASE i \in Requests /\ pc[i] = "new"
    BY <2>2, <1>3, <1>7
  <2>3. CASE ~(i \in Requests /\ pc[i] = "new")
    BY <2>1, <2>3, <1>2
  <2> QED BY <2>2, <2>3
<1>8. ASSUME NEW e \in Extensions, NEW S, S \in {built, agentTools}, FreshOf(S, e) \/ Marked(e)
      PROVE  \/ \A i \in Instances : i \in S /\ ExtensionAfter(i) = e <=> i = tool'[e]
             \/ \E j \in changed' : ExtensionAfter(j) = e /\ (j \notin owners' \/ tool'[e] # NoInstance)
  BY <1>5, <1>6, <1>7, <1>8
<1>9. /\ \A e \in Extensions : FreshOf(built, e)' <=> \A i \in Instances : i \in built /\ ExtensionAfter(i) = e <=> i = tool'[e]
      /\ \A e \in Extensions : FreshOf(agentTools, e)' <=> \A i \in Instances : i \in agentTools /\ ExtensionAfter(i) = e <=> i = tool'[e]
      /\ \A e \in Extensions : Marked(e)' <=> \E j \in changed' : ExtensionAfter(j) = e /\ (j \notin owners' \/ tool'[e] # NoInstance)
  BY <1>1 DEF FreshOf, Marked, ExtensionOf, ExtensionAfter
<1>10. KnownTools(built)' /\ KnownTools(agentTools)'
  BY <1>1, SameKnown
<1>11. ASSUME refresher = "off" PROVE \A e \in Extensions : FreshOf(agentTools, e)' \/ Marked(e)'
  BY <1>8, <1>9, <1>11 DEF ToolsInv, ToolsCurrent
<1>12. ASSUME refresher = "built", ~requested PROVE \A e \in Extensions : FreshOf(built, e)' \/ Marked(e)'
  BY <1>8, <1>9, <1>12 DEF ToolsInv, ToolsCurrent
<1> QED BY <1>1, <1>10, <1>11, <1>12 DEF ToolsCurrent

LEMMA ToolsAfterMoves ==
  ASSUME LoadInv, ToolsInv, [ExtensionNext]_extensionVars, UNCHANGED <<tool, owners, changed, toolPassVars>>,
         \A i \in Instances : life'[i] = "loading" => life[i] = "loading" \/ i \notin owners
  PROVE  ToolsInv'
<1>1. Marks'
  BY DEF ToolsInv, Marks, LoadInv, TypeInv, ExtensionTypeOK
<1>2. ToolsCurrent'
  BY UnaskedIsCurrent
<1> QED BY <1>1, <1>2 DEF ToolsInv

LEMMA ToolsAfterStep ==
  ASSUME LoadInv, ToolsInv, NEW p \in Processes, CallStep(p), TypeInv'
  PROVE  ToolsInv'
<1> USE BootApart
<1>n. [ExtensionNext]_extensionVars
  BY DEF ExtensionNext
<1>0. Apart(p) /\ subject' = subject /\ InFlight(p) /\ subject[p] \in Extensions
  BY StepApart DEF LoadInv, TypeInv, Begun
<1>i. Instance(p) \in Instances /\ ExtensionOf(Instance(p)) = subject[p] /\ \A i \in Requests : pc[i] = "new" => Instance(p) # i
  BY <1>0, InstancesApart
<1>1. CASE Persisted(p) \/ Settled(p) \/ Cleared(p) \/ Quits(p)
  <2>1. UNCHANGED <<tool, owners, changed, toolPassVars>>
    BY <1>1 DEF Persisted, Settled, Cleared, Quits, PersistFails, ClearFails, Uninstalled, loadVars
  <2>2. life' = life \/ Moved(p, subject[p], "done") \/ Moved(p, subject[p], "load")
    BY <1>1 DEF Persisted, Settled, Cleared, Quits, PersistFails, ClearFails, Uninstalled, Moved, loadVars
  <2>3. \A i \in Instances : life'[i] = "loading" => life[i] = "loading"
    BY <1>0, <2>2, MovedFacts, StagesListed
  <2> QED BY <1>n, <2>1, <2>3, ToolsAfterMoves
<1>2. CASE LoadStarts(p)
  <2>1. UNCHANGED <<tool, owners, changed, toolPassVars>> /\ life' = [life EXCEPT ![Instance(p)] = "loading"] /\ pc[p] = "load"
    BY <1>2 DEF LoadStarts
  <2>2. p \notin ending /\ life[Instance(p)] = "none"
    BY <1>0, <2>1 DEF LoadInv, LifeOnce, Shapes, CallShape
  <2>3. \A i \in Instances : life'[i] = "loading" => life[i] = "loading" \/ i \notin owners
    BY <2>1, <2>2 DEF LoadInv, LifeOnce, TypeInv, ExtensionTypeOK
  <2> QED BY <1>n, <2>1, <2>3, ToolsAfterMoves
<1>3. CASE Stopped(p) \/ StopFails(p)
  <2>1. life' = [life EXCEPT ![victim[p]] = "gone"] /\ changed' = changed /\ \E s : RemoveTool(p, victim[p], subject[p], s)
    BY <1>3, Zenon DEF Stopped, StopFails
  <2>2. owners' = owners \ {victim[p]} /\ (AskRefresh \/ UNCHANGED <<tool, toolPassVars>>)
    BY <2>1 DEF RemoveTool
  <2>3. Marks'
    BY <2>1, <2>2 DEF ToolsInv, Marks, LoadInv, TypeInv, ExtensionTypeOK
  <2>4. ToolsCurrent'
    <3>1. CASE AskRefresh
      BY <1>n, <3>1, AskedIsCurrent
    <3>2. CASE UNCHANGED <<tool, toolPassVars>>
      BY <1>n, <2>1, <2>2, <3>2, UnaskedIsCurrent
    <3> QED BY <2>2, <3>1, <3>2
  <2> QED BY <2>3, <2>4 DEF ToolsInv
<1>4. CASE LoadOk(p)
  <2>1. /\ life' = [life EXCEPT ![Instance(p)] = "live"] /\ changed' = changed \ {Instance(p)} /\ UNCHANGED <<tool, owners>>
        /\ AskRefresh \/ (Instance(p) \notin changed /\ UNCHANGED toolPassVars)
    BY <1>4 DEF LoadOk
  <2>3. Marks'
    BY <2>1 DEF ToolsInv, Marks, LoadInv, TypeInv, ExtensionTypeOK
  <2>4. ToolsCurrent'
    <3>1. CASE AskRefresh
      BY <1>n, <3>1, AskedIsCurrent
    <3>2. CASE Instance(p) \notin changed /\ UNCHANGED toolPassVars
      BY <1>n, <2>1, <3>2, UnaskedIsCurrent
    <3> QED BY <2>1, <3>1, <3>2
  <2> QED BY <2>3, <2>4 DEF ToolsInv
<1>5. CASE LoadFails(p)
  <2>1. /\ life' = [life EXCEPT ![Instance(p)] = "gone"]
        /\ changed' = IF Instance(p) \in owners THEN changed \ {Instance(p)} ELSE changed
        /\ owners' = owners \ {Instance(p)}
        /\ AskRefresh \/ (UNCHANGED <<tool, toolPassVars>> /\ ~(Instance(p) \in owners /\ tool[subject[p]] # NoInstance))
    BY <1>5 DEF LoadFails, RemoveTool
  <2>3. Marks'
    BY <2>1 DEF ToolsInv, Marks, LoadInv, TypeInv, ExtensionTypeOK
  <2>4. ToolsCurrent'
    <3>1. CASE AskRefresh
      BY <1>n, <3>1, AskedIsCurrent
    <3>2. CASE UNCHANGED <<tool, toolPassVars>> /\ ~(Instance(p) \in owners /\ tool[subject[p]] # NoInstance)
      <4>1. ASSUME NEW e \in Extensions, NEW j \in changed, ExtensionOf(j) = e, j \notin owners \/ tool[e] # NoInstance
            PROVE  j \in changed' /\ (j \notin owners' \/ tool[e] # NoInstance)
        BY <1>i, <2>1, <3>2, <4>1
      <4> QED BY <1>n, <3>2, <4>1, UnaskedIsCurrent
    <3> QED BY <2>1, <3>1, <3>2
  <2> QED BY <2>3, <2>4 DEF ToolsInv
<1> QED BY <1>1, <1>2, <1>3, <1>4, <1>5 DEF CallStep, Quits

LEMMA ToolsAfterTool ==
  ASSUME LoadInv, ToolsInv, NEW i \in Instances, RegisterTool(i) \/ UnregisterTool(i)
  PROVE  ToolsInv'
<1> USE BootApart
<1>n. [ExtensionNext]_extensionVars
  BY DEF ExtensionNext
<1>0. subject' = subject /\ life' = life /\ pc' = pc /\ life[i] \in {"loading", "live"}
  BY DEF RegisterTool, UnregisterTool, callVars
<1>1. ~(i \in Requests /\ pc[i] = "new")
  BY <1>0 DEF LoadInv, FreshCalls, Fresh
<1>e. ExtensionOf(i) \in Extensions \/ \A e \in Extensions : ExtensionOf(i) # e
  OBVIOUS
<1>2. CASE RegisterTool(i)
  <2>1. /\ owners' = owners \cup {i} /\ tool' = [tool EXCEPT ![ExtensionOf(i)] = i]
        /\ \/ life[i] = "live" /\ AskRefresh /\ changed' = changed
           \/ life[i] = "loading" /\ changed' = changed \cup {i} /\ UNCHANGED toolPassVars
    BY <1>0, <1>2 DEF RegisterTool
  <2>2. Marks'
    BY <1>0, <2>1 DEF ToolsInv, Marks
  <2>3. ToolsCurrent'
    <3>1. CASE AskRefresh
      BY <1>n, <3>1, AskedIsCurrent
    <3>2. CASE changed' = changed \cup {i} /\ UNCHANGED toolPassVars
      <4>1. ASSUME NEW e \in Extensions, ExtensionOf(i) = e
            PROVE  i \in changed' /\ (i \notin owners' \/ tool'[e] # NoInstance)
        BY <2>1, <3>2, <4>1, ExtensionAssumption DEF LoadInv, TypeInv, ExtensionTypeOK
      <4>2. ASSUME NEW e \in Extensions, ExtensionOf(i) # e
            PROVE  /\ tool'[e] = tool[e]
                   /\ \A j \in changed : ExtensionOf(j) = e /\ (j \notin owners \/ tool[e] # NoInstance)
                                         => j \in changed' /\ (j \notin owners' \/ tool[e] # NoInstance)
        BY <2>1, <3>2, <4>2 DEF LoadInv, TypeInv, ExtensionTypeOK
      <4> QED BY <1>n, <1>1, <3>2, <4>1, <4>2, UnaskedIsCurrent
    <3> QED BY <2>1, <3>1, <3>2
  <2> QED BY <2>2, <2>3 DEF ToolsInv
<1>3. CASE UnregisterTool(i)
  <2>1. /\ owners' = owners \ {i} /\ tool' = [tool EXCEPT ![ExtensionOf(i)] = NoInstance] /\ changed' = changed /\ i \in owners
        /\ \/ life[i] = "live" /\ AskRefresh
           \/ life[i] = "loading" /\ UNCHANGED toolPassVars
    BY <1>0, <1>3 DEF UnregisterTool
  <2>2. Marks'
    BY <1>0, <2>1 DEF ToolsInv, Marks
  <2>3. ToolsCurrent'
    <3>1. CASE AskRefresh
      BY <1>n, <3>1, AskedIsCurrent
    <3>2. CASE life[i] = "loading" /\ UNCHANGED toolPassVars
      <4>1. i \in changed' /\ i \notin owners'
        BY <2>1, <3>2 DEF ToolsInv, Marks
      <4>2. ASSUME NEW e \in Extensions, ExtensionOf(i) # e
            PROVE  /\ tool'[e] = tool[e]
                   /\ \A j \in changed : ExtensionOf(j) = e /\ (j \notin owners \/ tool[e] # NoInstance)
                                         => j \in changed' /\ (j \notin owners' \/ tool[e] # NoInstance)
        BY <2>1, <3>2, <4>2 DEF LoadInv, TypeInv, ExtensionTypeOK
      <4> QED BY <1>n, <1>1, <3>2, <4>1, <4>2, UnaskedIsCurrent
    <3> QED BY <2>1, <3>1, <3>2
  <2> QED BY <2>2, <2>3 DEF ToolsInv
<1> QED BY <1>2, <1>3

LEMMA ToolsAfterPass ==
  ASSUME LoadInv, ToolsInv, RefreshRead \/ RefreshApply
  PROVE  ToolsInv'
<1> USE BootApart
<1>0. UNCHANGED <<callVars, loadVars>>
  BY DEF RefreshRead, RefreshApply
<1>e. \A i : ExtensionOf(i)' = ExtensionOf(i)
  BY <1>0 DEF ExtensionOf, callVars
<1>1. Marks'
  BY <1>0 DEF ToolsInv, Marks, loadVars
<1>2. CASE RefreshRead
  <2>1. built' = Tools /\ refresher' = "built" /\ agentTools' = agentTools
    BY <1>2 DEF RefreshRead
  <2>2. \A e \in Extensions : tool[e] # NoInstance => tool[e] \in Instances /\ ExtensionOf(tool[e]) = e
    BY DEF LoadInv, OwnMaps, TypeInv, ExtensionTypeOK, MaybeInstance
  <2>3. \A i \in Tools : ExtensionOf(i) \in Extensions
    BY <2>2 DEF Tools
  <2>4. ASSUME NEW e \in Extensions, NEW i \in Instances PROVE i \in Tools /\ ExtensionOf(i) = e <=> i = tool[e]
    BY <2>2, ExtensionAssumption DEF Tools
  <2>5. \A e \in Extensions : FreshOf(built, e)'
    BY <1>0, <1>e, <2>1, <2>4 DEF FreshOf, loadVars
  <2>6. KnownTools(built)' /\ KnownTools(agentTools)'
    BY <1>e, <2>1, <2>3 DEF KnownTools, ToolsInv, ToolsCurrent
  <2> QED BY <1>1, <2>1, <2>5, <2>6 DEF ToolsInv, ToolsCurrent
<1>3. CASE RefreshApply
  <2>1. built' = built /\ agentTools' = built /\ refresher = "built" /\ refresher' = (IF requested THEN "building" ELSE "off")
    BY <1>3 DEF RefreshApply
  <2>2. \A e \in Extensions : (FreshOf(agentTools, e)' <=> FreshOf(built, e)) /\ (Marked(e)' <=> Marked(e))
    BY <1>0, <1>e, <2>1 DEF FreshOf, Marked, loadVars
  <2>3. KnownTools(built)' /\ KnownTools(agentTools)'
    BY <1>e, <2>1 DEF KnownTools, ToolsInv, ToolsCurrent
  <2> QED BY <1>1, <2>1, <2>2, <2>3 DEF ToolsInv, ToolsCurrent, LoadInv, TypeInv, ExtensionTypeOK
<1> QED BY <1>2, <1>3

LEMMA ToolsInductive ==
  /\ ExtensionInit => ToolsInv
  /\ LoadInv /\ ToolsInv /\ LoadInv' /\ [ExtensionNext]_extensionVars => ToolsInv'
<1> USE BootApart
<1>1. ExtensionInit => ToolsInv
  <2> SUFFICES ASSUME ExtensionInit PROVE ToolsInv
    OBVIOUS
  <2>1. \A e \in Extensions : tool[e] = NoInstance
    BY DEF ExtensionInit
  <2> QED BY <2>1, ExtensionAssumption DEF ExtensionInit, ToolsInv, Marks, ToolsCurrent, KnownTools, FreshOf
<1>2. ASSUME LoadInv, ToolsInv, LoadInv', [ExtensionNext]_extensionVars PROVE ToolsInv'
  <2>1. ASSUME NEW p \in Requests, NEW e \in Extensions, Call(p, e) PROVE ToolsInv'
    <3>1. UNCHANGED <<tool, owners, changed, toolPassVars>>
      BY <2>1 DEF Call
    <3>2. PICK s \in {"persist", "load", "clear", "done"} : Moved(p, e, s)
      BY <1>2, <2>1, CallMoves DEF LoadInv
    <3>3. \A i \in Instances : life'[i] = "loading" => life[i] = "loading"
      BY <1>2, <3>2, MovedFacts, StagesListed
    <3> QED BY <1>2, <3>1, <3>3, ToolsAfterMoves
  <2>2. CASE BootNext \/ BootEnds
    <3>1. UNCHANGED <<tool, owners, changed, toolPassVars>>
      BY <2>2 DEF BootNext, BootEnds, loadVars
    <3>2. life' = life \/ \E e \in Extensions : Moved(Boot, e, "load")
      BY <1>2, <2>2, BootMoves DEF LoadInv
    <3>3. \A i \in Instances : life'[i] = "loading" => life[i] = "loading"
      BY <1>2, <3>2, MovedFacts, StagesListed
    <3> QED BY <1>2, <3>1, <3>3, ToolsAfterMoves
  <2>3. ASSUME NEW p \in Processes, CallStep(p) PROVE ToolsInv'
    BY <1>2, <2>3, ToolsAfterStep DEF LoadInv
  <2>4. ASSUME NEW i \in Instances, RegisterTool(i) \/ UnregisterTool(i) PROVE ToolsInv'
    BY <1>2, <2>4, ToolsAfterTool
  <2>5. CASE RefreshRead \/ RefreshApply
    BY <1>2, <2>5, ToolsAfterPass
  <2>6. CASE UNCHANGED extensionVars
    <3>1. UNCHANGED <<tool, owners, changed, toolPassVars>> /\ life' = life
      BY <2>6 DEF extensionVars, loadVars
    <3> QED BY <1>2, <3>1, ToolsAfterMoves
  <2> QED BY <1>2, <2>1, <2>2, <2>3, <2>4, <2>5, <2>6 DEF ExtensionNext
<1> QED BY <1>1, <1>2

(* Whatever calls of the manager overlap, when no pass of the refresh is     *)
(* under way and nothing is being activated the agents have the registered   *)
(* tools, but for an activation that drops its tool and fails                *)
(* (registerTool, unregisterTool, the refresh of the capabilities).          *)
THEOREM ToolsHold == ExtensionSpec => []AgentsHaveTheTools
<1>1. ASSUME LoadInv, ToolsInv PROVE AgentsHaveTheTools
  <2> SUFFICES ASSUME refresher = "off"
               PROVE  {i \in agentTools : \A j \in changed : ExtensionOf(i) # ExtensionOf(j)}
                        = {tool[e] : e \in Extensions \ {ExtensionOf(j) : j \in changed}} \ {NoInstance}
    BY DEF AgentsHaveTheTools
  <2>1. /\ KnownTools(agentTools) /\ agentTools \subseteq Instances
        /\ \A e \in Extensions : (\A j \in changed : ExtensionOf(j) # e) => FreshOf(agentTools, e)
        /\ \A e \in Extensions : tool[e] # NoInstance => tool[e] \in Instances /\ ExtensionOf(tool[e]) = e
    BY <1>1 DEF ToolsInv, ToolsCurrent, Marked, LoadInv, OwnMaps, TypeInv, ExtensionTypeOK, MaybeInstance
  <2>2. ASSUME NEW i \in agentTools, \A j \in changed : ExtensionOf(i) # ExtensionOf(j)
        PROVE  ExtensionOf(i) \in Extensions /\ i = tool[ExtensionOf(i)] /\ i # NoInstance
    <3>1. ExtensionOf(i) \in Extensions /\ i \in Instances
      BY <2>1 DEF KnownTools
    <3>2. FreshOf(agentTools, ExtensionOf(i))
      BY <2>1, <2>2, <3>1
    <3> QED BY <3>1, <3>2, BootApart DEF FreshOf
  <2>3. ASSUME NEW e \in Extensions, \A j \in changed : ExtensionOf(j) # e, tool[e] # NoInstance
        PROVE  tool[e] \in agentTools /\ ExtensionOf(tool[e]) = e
    <3>1. FreshOf(agentTools, e)
      BY <2>1, <2>3
    <3> QED BY <2>1, <2>3, <3>1 DEF FreshOf
  <2> QED BY <2>2, <2>3
<1>2. ExtensionSpec => [](LoadInv /\ StartOrder)
  BY LoadInductive, PTL DEF ExtensionSpec
<1>3. ExtensionSpec => []ToolsInv
  BY <1>2, ToolsInductive, PTL DEF ExtensionSpec
<1> QED BY <1>1, <1>2, <1>3, PTL

-----------------------------------------------------------------------------
(* What runs. *)

(* Code is started and stopped by a call that waits for it. *)
Awaited ==
  /\ \A i \in Instances : life[i] = "stopping" => \E p \in Processes : pc[p] = "stop" /\ victim[p] = i
  /\ \A i \in Instances : life[i] = "loading" => \E p \in Processes : pc[p] = "loading" /\ Instance(p) = i

CallAbout(p, e) == InFlight(p) /\ subject[p] = e

(* What the only call about e has before it. *)
Standing(p, e) ==
  /\ pc[p] \in {"stop", "load", "loading", "clear"} \/ (pc[p] = "settle" /\ p \notin ending) => activeStates[e] = NoInstance
  /\ op[p] # "uninstall" => e \in ToSet(entries)
  /\ pc[p] \in {"load", "loading"} \/ op[p] \in {"enable", "install", "none"} => e \in enabled
  /\ pc[p] \in {"load", "loading"} => op[p] \notin {"uninstall", "disable"}
  /\ pc[p] = "persist" => op[p] \in {"install", "enable", "disable", "grant"}

(* An extension no two calls were about at the same time. *)
Calm(e) ==
  /\ \A p, q \in Processes : CallAbout(p, e) /\ CallAbout(q, e) => p = q
  /\ \A p \in Processes : CallAbout(p, e) => Standing(p, e)
  /\ \A i \in Instances : life[i] = "live" /\ ExtensionOf(i) = e => activeStates[e] = i
  /\ activeStates[e] # NoInstance =>
       \/ e \in enabled /\ e \in ToSet(entries)
       \/ \E p \in Processes : CallAbout(p, e) /\ pc[p] = "persist" /\ op[p] = "disable"
       \/ e \in unsettled
  /\ tool[e] # NoInstance => tool[e] \in owners /\ life[tool[e]] \in {"loading", "live", "stopping"}

Calmness == \A e \in Extensions \ overlapped : Calm(e)

RunInv == Awaited /\ Calmness

LEMMA AwaitedAfterMove ==
  ASSUME LoadInv, Awaited, NEW p \in Processes, NEW e \in Extensions, NEW s \in Stages \ {"stop", "loading", "new"},
         Moved(p, e, s), Apart(p), pc[p] \notin {"stop", "loading"}
  PROVE  Awaited'
<1>1. ASSUME NEW i \in Instances, life'[i] = "stopping" PROVE \E q \in Processes : pc'[q] = "stop" /\ victim'[q] = i
  <2>1. CASE life[i] = "stopping"
    <3>1. PICK q \in Processes : pc[q] = "stop" /\ victim[q] = i
      BY <2>1 DEF Awaited
    <3>2. q # p
      BY <3>1
    <3> QED BY <3>1, <3>2 DEF Apart
  <2>2. CASE life[i] # "stopping"
    <3>1. Deactivate(p, e, s) /\ i = activeStates[e] /\ i # NoInstance
      BY <1>1, <2>2, MovedFacts, BootApart
    <3>2. pc'[p] = "stop" /\ victim'[p] = i
      BY <3>1 DEF Deactivate, At, LoadInv, TypeInv, ExtensionTypeOK
    <3> QED BY <3>2
  <2> QED BY <2>1, <2>2
<1>2. ASSUME NEW i \in Instances, life'[i] = "loading" PROVE \E q \in Processes : pc'[q] = "loading" /\ Instance(q)' = i
  <2>1. life[i] = "loading"
    BY <1>2, MovedFacts
  <2>2. PICK q \in Processes : pc[q] = "loading" /\ Instance(q) = i
    BY <2>1 DEF Awaited
  <2>3. q # p
    BY <2>2
  <2> QED BY <2>2, <2>3 DEF Apart, Instance
<1> QED BY <1>1, <1>2 DEF Awaited

LEMMA AwaitedAfterStep ==
  ASSUME LoadInv, Awaited, NEW p \in Processes, NEW v, NEW becomes, LifeStep(p, v, becomes), Apart(p), subject' = subject, InFlight(p)
  PROVE  Awaited'
<1>0. v \in Instances
  <2>1. CASE v = victim[p] /\ pc[p] = "stop"
    BY <2>1 DEF LoadInv, Shapes, CallShape
  <2>2. CASE v = Instance(p)
    BY <2>2, InstancesApart
  <2> QED BY <2>1, <2>2 DEF LifeStep
<1>1. \A i \in Instances : life'[i] = IF i = v THEN becomes ELSE life[i]
  BY <1>0 DEF LifeStep, LoadInv, TypeInv, ExtensionTypeOK
<1>2. ASSUME NEW i \in Instances, life'[i] = "stopping" PROVE \E q \in Processes : pc'[q] = "stop" /\ victim'[q] = i
  <2>1. i # v /\ life[i] = "stopping"
    BY <1>1, <1>2 DEF LifeStep
  <2>2. PICK q \in Processes : pc[q] = "stop" /\ victim[q] = i
    BY <2>1 DEF Awaited
  <2>3. q # p
    BY <2>1, <2>2 DEF LifeStep
  <2> QED BY <2>2, <2>3 DEF Apart
<1>3. ASSUME NEW i \in Instances, life'[i] = "loading" PROVE \E q \in Processes : pc'[q] = "loading" /\ Instance(q)' = i
  <2>1. CASE i = v
    <3>1. pc'[p] = "loading" /\ i = Instance(p)
      BY <1>1, <1>3, <2>1 DEF LifeStep
    <3> QED BY <3>1 DEF Instance
  <2>2. CASE i # v
    <3>1. PICK q \in Processes : pc[q] = "loading" /\ Instance(q) = i
      BY <1>1, <1>3, <2>2 DEF Awaited
    <3>2. q # p
      BY <2>2, <3>1 DEF LifeStep
    <3> QED BY <3>1, <3>2 DEF Apart, Instance
  <2> QED BY <2>1, <2>2
<1> QED BY <1>2, <1>3 DEF Awaited

(* Where nothing happens that concerns e, it stays calm. *)
Untouched(e) ==
  /\ \A p \in Processes : /\ CallAbout(p, e)' <=> CallAbout(p, e)
                          /\ CallAbout(p, e) => pc'[p] = pc[p] /\ op'[p] = op[p] /\ (p \in ending' <=> p \in ending)
  /\ activeStates'[e] = activeStates[e] /\ tool'[e] = tool[e]
  /\ e \in enabled' <=> e \in enabled
  /\ e \in ToSet(entries') <=> e \in ToSet(entries)
  /\ e \in unsettled' <=> e \in unsettled
  /\ \A i \in Instances : ExtensionAfter(i) = e => ExtensionOf(i) = e \/ life'[i] = "none"
  /\ \A i \in Instances : ExtensionOf(i) = e => life'[i] = life[i] /\ (i \in owners => i \in owners')

LEMMA UntouchedIsCalm ==
  ASSUME LoadInv, NEW e \in Extensions, Calm(e), Untouched(e)
  PROVE  Calm(e)'
<1>1. \A p, q \in Processes : CallAbout(p, e)' /\ CallAbout(q, e)' => p = q
  BY DEF Calm, Untouched
<1>2. ASSUME NEW p \in Processes, CallAbout(p, e)' PROVE Standing(p, e)'
  <2>1. CallAbout(p, e) /\ Standing(p, e)
    BY <1>2 DEF Calm, Untouched
  <2> QED BY <2>1 DEF Standing, Untouched
<1>3. ASSUME NEW i \in Instances, life'[i] = "live", ExtensionAfter(i) = e PROVE activeStates'[e] = i
  BY <1>3 DEF Calm, Untouched
<1>4. activeStates'[e] # NoInstance =>
       \/ e \in enabled' /\ e \in ToSet(entries')
       \/ \E p \in Processes : CallAbout(p, e)' /\ pc'[p] = "persist" /\ op'[p] = "disable"
       \/ e \in unsettled'
  BY DEF Calm, Untouched
<1>5. tool'[e] # NoInstance => tool'[e] \in owners' /\ life'[tool'[e]] \in {"loading", "live", "stopping"}
  <2>1. tool[e] # NoInstance => tool[e] \in Instances /\ ExtensionOf(tool[e]) = e
    BY DEF LoadInv, OwnMaps, TypeInv, ExtensionTypeOK, MaybeInstance
  <2> QED BY <2>1 DEF Calm, Untouched
<1> QED BY <1>1, <1>2, <1>3, <1>4, <1>5 DEF Calm, ExtensionOf, ExtensionAfter

(* A move of a call about another extension. *)
LEMMA MoveElsewhere ==
  ASSUME LoadInv, NEW p \in Processes, NEW x \in Extensions, NEW s \in Stages \ {"stop", "loading", "new"}, Moved(p, x, s),
         Apart(p), NEW e \in Extensions, e # x, ~CallAbout(p, e), ~CallAbout(p, e)', UNCHANGED <<tool, owners>>,
         e \in enabled' <=> e \in enabled, e \in ToSet(entries') <=> e \in ToSet(entries), e \in unsettled' <=> e \in unsettled,
         \A i \in Instances : ExtensionAfter(i) = ExtensionOf(i) \/ life[i] = "none"
  PROVE  Untouched(e)
<1>1. \A i \in Instances : life'[i] = life[i] \/ (i = activeStates[x] /\ ExtensionOf(i) = x /\ life[i] = "live")
  BY MovedFacts, BootApart DEF LoadInv, OwnMaps, LifeOnce
<1>2. activeStates'[e] = activeStates[e]
  BY MovedFacts
<1>3. \A q \in Processes : /\ CallAbout(q, e)' <=> CallAbout(q, e)
                           /\ CallAbout(q, e) => pc'[q] = pc[q] /\ op'[q] = op[q] /\ (q \in ending' <=> q \in ending)
  BY DEF Apart, CallAbout, InFlight
<1>4. \A i \in Instances : ExtensionAfter(i) = e => ExtensionOf(i) = e \/ life'[i] = "none"
  BY <1>1
<1> QED BY <1>1, <1>2, <1>3, <1>4 DEF Untouched

(* A move of the only call about e. *)
LEMMA MoveHere ==
  ASSUME LoadInv, NEW p \in Processes, NEW e \in Extensions, NEW s \in Stages \ {"stop", "loading", "new"}, Moved(p, e, s),
         Apart(p), Calm(e), \A q \in Processes \ {p} : ~CallAbout(q, e), UNCHANGED <<tool, owners>>,
         \A i \in Instances : ExtensionAfter(i) = ExtensionOf(i) \/ life[i] = "none",
         CallAbout(p, e)' => Standing(p, e)',
         \/ activeStates'[e] = NoInstance
         \/ e \in enabled' /\ e \in ToSet(entries')
         \/ CallAbout(p, e)' /\ pc'[p] = "persist" /\ op'[p] = "disable"
         \/ e \in unsettled'
  PROVE  Calm(e)'
<1>1. \A q \in Processes \ {p} : ~CallAbout(q, e)'
  BY DEF Apart, CallAbout, InFlight
<1>2. \A i \in Instances : ExtensionOf(i) = e /\ life[i] = "live" => i = activeStates[e]
  BY DEF Calm
<1>3. ASSUME NEW i \in Instances, life'[i] = "live", ExtensionAfter(i) = e PROVE activeStates'[e] = i
  <2>1. life[i] = "live" /\ ExtensionOf(i) = e /\ ~(Deactivate(p, e, s) /\ i = activeStates[e])
    BY <1>3, MovedFacts
  <2> QED BY <1>2, <2>1, MovedFacts
<1>4. tool'[e] # NoInstance => tool'[e] \in owners' /\ life'[tool'[e]] \in {"loading", "live", "stopping"}
  <2>1. tool[e] # NoInstance => tool[e] \in Instances
    BY DEF LoadInv, TypeInv, ExtensionTypeOK, MaybeInstance
  <2> QED BY <2>1, MovedFacts DEF Calm
<1>5. \A q \in Processes : CallAbout(q, e)' => q = p
  BY <1>1
<1>6. activeStates'[e] # NoInstance =>
       \/ e \in enabled' /\ e \in ToSet(entries')
       \/ \E q \in Processes : CallAbout(q, e)' /\ pc'[q] = "persist" /\ op'[q] = "disable"
       \/ e \in unsettled'
  OBVIOUS
<1> QED BY <1>3, <1>4, <1>5, <1>6 DEF Calm, ExtensionOf, ExtensionAfter

LEMMA CalmAfterCall ==
  ASSUME LoadInv, TypeInv', Calmness, NEW p \in Requests, NEW x \in Extensions, Call(p, x), NEW e \in Extensions \ overlapped'
  PROVE  Calm(e)'
<1> USE BootApart
<1>1. pc[p] = "new" /\ subject' = [subject EXCEPT ![p] = x] /\ UNCHANGED <<ending, tool, owners, changed, dropped, toolPassVars>> /\ Fresh(p)
  BY CallMoves DEF LoadInv, FreshCalls
<1>2. e \notin overlapped /\ Calm(e)
  BY DEF Call, NoteOverlap, Calmness
<1>3. Apart(p) /\ subject'[p] = x /\ ~InFlight(p) /\ p \notin ending
  BY <1>1, CallApart DEF LoadInv, InFlight, Shapes, CallShape, TypeInv, ExtensionTypeOK
<1>4. \A i \in Instances : ExtensionAfter(i) = ExtensionOf(i) \/ life[i] = "none"
  <2>1. \A i \in Instances : i # p => ExtensionAfter(i) = ExtensionOf(i)
    BY <1>3 DEF Apart, ExtensionAfter, ExtensionOf, Instances
  <2> QED BY <2>1, <1>1 DEF Fresh
<1>o. PICK o \in Operations :
       /\ op' = [op EXCEPT ![p] = o]
       /\ \/ o = "install" /\ CallInstall(p, x)
          \/ o = "enable" /\ CallEnable(p, x)
          \/ o = "disable" /\ CallDisable(p, x)
          \/ o = "reload" /\ CallReload(p, x)
          \/ o = "grant" /\ CallGrant(p, x)
          \/ o = "uninstall" /\ CallUninstall(p, x)
  BY DEF Call
<1>op. op'[p] = o
  BY <1>o DEF LoadInv, TypeInv, ExtensionTypeOK
<1>u. unsettled' \in {unsettled, unsettled \ {x}}
  BY <1>o DEF CallInstall, CallEnable, CallDisable, CallGrant, CallReload, CallUninstall, Deactivate
<1>st. {"persist", "load", "clear", "done"} \subseteq Stages \ {"stop", "loading", "new"}
  BY StagesListed
<1>5. CASE x # e
  <2>1. PICK s \in {"persist", "load", "clear", "done"} : Moved(p, x, s)
    BY CallMoves DEF LoadInv
  <2>2. ~CallAbout(p, e) /\ ~CallAbout(p, e)'
    BY <1>3, <1>5 DEF CallAbout
  <2>3. (e \in enabled' <=> e \in enabled) /\ (e \in ToSet(entries') <=> e \in ToSet(entries))
    <3>1. CASE CallInstall(p, x)
      <4>1. ToSet(entries') = ToSet(entries) \cup {x}
        BY <3>1, AppendAdds DEF CallInstall, LoadInv, TypeInv, ExtensionTypeOK
      <4> QED BY <3>1, <4>1, <1>5 DEF CallInstall
    <3>2. CASE ~CallInstall(p, x)
      BY <3>2, <1>o, <1>5 DEF CallEnable, CallDisable, CallReload, CallGrant, CallUninstall, registryVars
    <3> QED BY <3>1, <3>2
  <2>5. e \in unsettled' <=> e \in unsettled
    BY <1>5, <1>u
  <2>4. Untouched(e)
    BY <1>1, <1>3, <1>4, <1>5, <1>st, <2>1, <2>2, <2>3, <2>5, MoveElsewhere
  <2> QED BY <1>2, <2>4, UntouchedIsCalm
<1>6. CASE x = e
  <2>1. \A q \in Processes \ {p} : ~CallAbout(q, e)
    BY <1>6 DEF Call, NoteOverlap, CallAbout
  <2>2. \A q \in Processes : ~CallAbout(q, e)
    BY <1>3, <2>1 DEF CallAbout
  <2>3. activeStates[e] # NoInstance => (e \in enabled /\ e \in ToSet(entries)) \/ e \in unsettled
    BY <1>2, <2>2 DEF Calm
  <2>m. ASSUME NEW s \in {"persist", "load", "clear", "done"}, Moved(p, e, s)
        PROVE  /\ pc'[p] \in {s, "stop"} /\ (pc'[p] = "stop" => activeStates'[e] = NoInstance)
               /\ s # "persist" /\ Deactivate(p, e, s) => activeStates'[e] = NoInstance
               /\ s = "persist" /\ At(p, s) => pc'[p] = s
    <3>1. s \in Stages \ {"stop", "loading", "new"}
      BY <1>st
    <3>2. At(p, s) => pc'[p] = s
      BY DEF At, LoadInv, TypeInv, ExtensionTypeOK
    <3> QED BY <2>m, <3>1, <3>2, MovedFacts
  <2>4. CASE o \in {"install", "enable", "disable", "grant"}
    <3>1. At(p, "persist") /\ Moved(p, e, "persist") /\ UNCHANGED <<activeStates, unsettled>>
      BY <1>o, <1>6, <2>4 DEF CallInstall, CallEnable, CallDisable, CallGrant, Moved
    <3>2. e \in ToSet(entries')
      <4>1. CASE o = "install"
        <5>1. entries' = Append(entries, e) /\ e \notin ToSet(entries)
          BY <4>1, <1>o, <1>6 DEF CallInstall
        <5>2. entries \in Seq(Extensions) /\ IsInjective(entries)
          BY DEF LoadInv, TypeInv, ExtensionTypeOK
        <5> QED BY <5>1, <5>2, AppendAdds
      <4>2. CASE o # "install"
        BY <4>2, <1>o, <1>6, <2>4 DEF CallEnable, CallDisable, CallGrant, registryVars
      <4> QED BY <4>1, <4>2
    <3>3. (o \in {"install", "enable"} => e \in enabled') /\ (o = "grant" => enabled' = enabled)
      BY <1>o, <1>6 DEF CallInstall, CallEnable, CallGrant, registryVars
    <3>4. pc'[p] = "persist"
      BY <3>1 DEF At, LoadInv, TypeInv, ExtensionTypeOK
    <3>5. Standing(p, e)'
      BY <1>op, <2>4, <3>2, <3>3, <3>4, ExtensionAssumption DEF Standing
    <3>6. CallAbout(p, e)'
      BY <1>3, <1>6, <3>4 DEF CallAbout, InFlight
    <3>7. \/ activeStates'[e] = NoInstance
          \/ e \in enabled' /\ e \in ToSet(entries')
          \/ CallAbout(p, e)' /\ pc'[p] = "persist" /\ op'[p] = "disable"
          \/ e \in unsettled'
      BY <1>op, <2>3, <2>4, <3>1, <3>2, <3>3, <3>4, <3>6
    <3> QED BY <1>1, <1>2, <1>3, <1>4, <1>st, <2>1, <3>1, <3>5, <3>7, MoveHere
  <2>5. CASE o = "reload"
    <3>1. e \in ToSet(entries') /\ entries' = entries /\ enabled' = enabled
          /\ Deactivate(p, e, IF e \in enabled THEN "load" ELSE "done")
      BY <1>o, <1>6, <2>5 DEF CallReload
    <3>2. PICK s \in {"load", "done"} : Deactivate(p, e, s) /\ (s = "load" => e \in enabled)
      BY <3>1
    <3>3. Moved(p, e, s)
      BY <3>2 DEF Moved
    <3>4. pc'[p] \in {s, "stop"} /\ activeStates'[e] = NoInstance
      BY <2>m, <3>2, <3>3
    <3>5. Standing(p, e)' \/ pc'[p] = "done"
      BY <1>op, <2>5, <3>1, <3>2, <3>4 DEF Standing
    <3>6. CallAbout(p, e)' => Standing(p, e)'
      BY <3>5 DEF CallAbout, InFlight
    <3> QED BY <1>1, <1>2, <1>3, <1>4, <1>st, <2>1, <3>3, <3>4, <3>6, MoveHere
  <2>6. CASE o = "uninstall"
    <3>1. Deactivate(p, e, "clear")
      BY <1>o, <1>6, <2>6 DEF CallUninstall
    <3>3. Moved(p, e, "clear")
      BY <3>1 DEF Moved
    <3>4. pc'[p] \in {"clear", "stop"} /\ activeStates'[e] = NoInstance
      BY <2>m, <3>1, <3>3
    <3>5. Standing(p, e)'
      BY <1>op, <2>6, <3>4 DEF Standing
    <3> QED BY <1>1, <1>2, <1>3, <1>4, <1>st, <2>1, <3>3, <3>4, <3>5, MoveHere
  <2> QED BY <1>o, <2>4, <2>5, <2>6
<1> QED BY <1>5, <1>6

LEMMA CalmAfterBoot ==
  ASSUME LoadInv, TypeInv', Calmness, BootNext \/ BootEnds, NEW e \in Extensions \ overlapped'
  PROVE  Calm(e)'
<1> USE BootApart
<1>1. pc[Boot] = "next" /\ UNCHANGED <<op, ending, registryVars, tool, owners, changed, dropped, toolPassVars>> /\ op[Boot] = "none" /\ Boot \notin ending
  BY BootMoves DEF LoadInv, Shapes, CallShape
<1>2. Apart(Boot) /\ ~InFlight(Boot) /\ entries' = entries /\ enabled' = enabled
  BY <1>1, BootStepApart DEF LoadInv, InFlight, registryVars
<1>3. e \notin overlapped /\ Calm(e)
  <2>1. overlapped \subseteq overlapped'
    BY DEF BootNext, BootEnds, NoteOverlap, ghosts
  <2> QED BY <2>1 DEF Calmness
<1>4. \A i \in Instances : ExtensionAfter(i) = ExtensionOf(i)
  BY <1>2 DEF Apart, ExtensionAfter, ExtensionOf, Instances
<1>5. CASE UNCHANGED <<subject, activeStates, life, victim, unsettled>> /\ pc'[Boot] \in {"next", "done"}
  <2>1. ~InFlight(Boot)'
    BY <1>5 DEF InFlight
  <2>2. Untouched(e)
    BY <1>1, <1>2, <1>4, <1>5, <2>1 DEF Untouched, CallAbout, Apart, InFlight
  <2> QED BY <1>3, <2>2, UntouchedIsCalm
<1>6. ASSUME NEW x \in Extensions, BootNext, x = entries[index[Boot]], index[Boot] \in 1..Len(entries),
             subject' = [subject EXCEPT ![Boot] = x], Moved(Boot, x, "load"), unsettled' = unsettled \ {x}
      PROVE  Calm(e)'
  <2>s. "load" \in Stages \ {"stop", "loading", "new"}
    BY StagesListed
  <2>0. subject'[Boot] = x
    BY <1>6 DEF LoadInv, TypeInv, ExtensionTypeOK
  <2>1. CASE x # e
    <3>1. ~CallAbout(Boot, e) /\ ~CallAbout(Boot, e)'
      BY <1>2, <2>0, <2>1 DEF CallAbout
    <3>2. Untouched(e)
      BY <1>1, <1>2, <1>4, <1>6, <2>s, <2>1, <3>1, MoveElsewhere
    <3> QED BY <1>3, <3>2, UntouchedIsCalm
  <2>2. CASE x = e
    <3>1. CASE x \in enabled
      <4>1. Deactivate(Boot, e, "load") /\ NoteOverlap(Boot, e)
        BY <1>6, <2>2, <3>1 DEF BootNext
      <4>2. \A q \in Processes \ {Boot} : ~CallAbout(q, e)
        BY <4>1 DEF NoteOverlap, CallAbout
      <4>3. pc'[Boot] \in {"load", "stop"} /\ activeStates'[e] = NoInstance
        BY <1>6, <2>2, <2>s, <4>1, MovedFacts
      <4>4. e \in ToSet(entries')
        <5>1. DOMAIN entries = 1..Len(entries)
          BY DEF LoadInv, TypeInv, ExtensionTypeOK
        <5> QED BY <1>2, <1>6, <2>2, <5>1 DEF ToSet
      <4>5. Standing(Boot, e)'
        BY <1>1, <1>2, <2>2, <3>1, <4>3, <4>4 DEF Standing
      <4> QED BY <1>1, <1>2, <1>3, <1>4, <1>6, <2>2, <2>s, <4>2, <4>3, <4>5, MoveHere
    <3>2. CASE x \notin enabled
      <4>1. UNCHANGED <<subject, pc, activeStates, life, victim, unsettled>>
        BY <1>6, <3>2 DEF BootNext
      <4> QED BY <1>1, <1>5, <4>1
    <3> QED BY <3>1, <3>2
  <2> QED BY <2>1, <2>2
<1>7. At(Boot, "done") => pc'[Boot] = "done"
  BY DEF At, LoadInv, TypeInv, ExtensionTypeOK
<1> QED BY <1>1, <1>5, <1>6, <1>7, BootMoves DEF LoadInv

(* Steps of the code of a call about another extension. *)
LEMMA StepElsewhere ==
  ASSUME LoadInv, NEW p \in Processes, NEW v, NEW becomes, LifeStep(p, v, becomes), Apart(p), subject' = subject, InFlight(p),
         NEW e \in Extensions, e # subject[p], UNCHANGED <<entries, enabled, unsettled>>, tool'[e] = tool[e], owners \ {v} \subseteq owners'
  PROVE  Untouched(e)
<1>0. v \in Instances /\ ExtensionOf(v) = subject[p]
  <2>1. CASE v = victim[p] /\ pc[p] = "stop"
    BY <2>1 DEF LoadInv, Shapes, CallShape
  <2>2. CASE v = Instance(p)
    BY <2>2, InstancesApart
  <2> QED BY <2>1, <2>2 DEF LifeStep
<1>1. \A i \in Instances : i # v => life'[i] = life[i]
  BY <1>0 DEF LifeStep, LoadInv, TypeInv, ExtensionTypeOK
<1>2. activeStates'[e] = activeStates[e]
  BY DEF LifeStep, LoadInv, TypeInv, ExtensionTypeOK
<1>3. \A q \in Processes : /\ CallAbout(q, e)' <=> CallAbout(q, e)
                           /\ CallAbout(q, e) => pc'[q] = pc[q] /\ op'[q] = op[q] /\ (q \in ending' <=> q \in ending)
  BY DEF Apart, CallAbout, InFlight
<1>4. \A i : ExtensionAfter(i) = ExtensionOf(i)
  BY DEF ExtensionAfter, ExtensionOf
<1> QED BY <1>0, <1>1, <1>2, <1>3, <1>4 DEF Untouched

(* Steps of the code of the only call about e. *)
LEMMA StepHere ==
  ASSUME LoadInv, NEW p \in Processes, NEW v, NEW becomes, LifeStep(p, v, becomes), Apart(p), subject' = subject,
         NEW e \in Extensions, CallAbout(p, e), Calm(e), UNCHANGED <<entries, enabled>>, CallAbout(p, e)' => Standing(p, e)',
         IF becomes = "live" THEN activeStates'[e] = v /\ e \in enabled /\ e \in ToSet(entries)
                             ELSE activeStates'[e] = NoInstance,
         becomes = "gone" => tool'[e] # v,
         owners \ {v} \subseteq owners', becomes # "gone" => owners' = owners
  PROVE  Calm(e)'
<1>0. v \in Instances /\ ExtensionOf(v) = e /\ subject[p] = e /\ InFlight(p)
  <2>1. CASE v = victim[p] /\ pc[p] = "stop"
    BY <2>1 DEF LoadInv, Shapes, CallShape, CallAbout, TypeInv, Begun
  <2>2. CASE v = Instance(p)
    BY <2>2, InstancesApart DEF CallAbout
  <2> QED BY <2>1, <2>2 DEF LifeStep, CallAbout
<1>1. \A i \in Instances : life'[i] = IF i = v THEN becomes ELSE life[i]
  BY <1>0 DEF LifeStep, LoadInv, TypeInv, ExtensionTypeOK
<1>2. \A q \in Processes : CallAbout(q, e)' => q = p
  BY DEF Calm, Apart, CallAbout, InFlight
<1>i. becomes \in {"live", "loading", "gone"} /\ pc[p] \in {"stop", "load", "loading"}
  BY DEF LifeStep
<1>n. activeStates[e] = NoInstance
  <2>1. Standing(p, e)
    BY DEF Calm
  <2> QED BY <2>1, <1>i DEF Standing
<1>3. ASSUME NEW i \in Instances, life'[i] = "live", ExtensionOf(i) = e PROVE activeStates'[e] = i
  <2>1. CASE i = v
    <3>1. becomes = "live"
      BY <1>1, <1>3, <2>1
    <3> QED BY <3>1, <2>1
  <2>2. CASE i # v
    <3>1. life[i] = "live" /\ i # NoInstance
      BY <1>1, <1>3, <2>2, BootApart
    <3> QED BY <3>1, <1>3, <1>n DEF Calm
  <2> QED BY <2>1, <2>2
<1>4. tool'[e] # NoInstance => tool'[e] \in owners' /\ life'[tool'[e]] \in {"loading", "live", "stopping"}
  <2> SUFFICES ASSUME tool'[e] # NoInstance PROVE tool'[e] \in owners' /\ life'[tool'[e]] \in {"loading", "live", "stopping"}
    OBVIOUS
  <2>1. tool'[e] = tool[e] /\ tool[e] \in Instances
    BY <1>0 DEF LifeStep, LoadInv, TypeInv, ExtensionTypeOK, MaybeInstance
  <2>2. tool[e] \in owners /\ life[tool[e]] \in {"loading", "live", "stopping"}
    BY <2>1 DEF Calm
  <2>3. CASE tool[e] = v
    BY <2>1, <2>2, <2>3, <1>1, <1>i
  <2>4. CASE tool[e] # v
    BY <2>1, <2>2, <2>4, <1>1
  <2> QED BY <2>3, <2>4
<1>5. ASSUME NEW q \in Processes, CallAbout(q, e)' PROVE Standing(q, e)'
  BY <1>2, <1>5
<1>6. activeStates'[e] # NoInstance => e \in enabled' /\ e \in ToSet(entries')
  OBVIOUS
<1>7. \A q, r \in Processes : CallAbout(q, e)' /\ CallAbout(r, e)' => q = r
  BY <1>2
<1>8. \A i \in Instances : life'[i] = "live" /\ ExtensionOf(i)' = e => activeStates'[e] = i
  BY <1>3 DEF ExtensionOf
<1> QED BY <1>4, <1>5, <1>6, <1>7, <1>8 DEF Calm

LEMMA CalmAfterPersisted ==
  ASSUME LoadInv, TypeInv', Calmness, NEW p \in Processes, Persisted(p), NEW e \in Extensions \ overlapped'
  PROVE  Calm(e)'
<1> USE BootApart
<1>0. Apart(p) /\ subject' = subject /\ InFlight(p) /\ subject[p] \in Extensions /\ CallShape(p) /\ pc[p] = "persist"
  BY StepApart DEF LoadInv, CallStep, TypeInv, Begun, Shapes, Persisted
<1>1. UNCHANGED <<tool, owners, entries, enabled, overlapped>> /\ Forget(p) /\ unsettled' \in {unsettled, unsettled \ {subject[p]}}
  BY DEF Persisted, Deactivate, registryVars
<1>2. e \notin overlapped /\ Calm(e)
  BY <1>1 DEF Calmness
<1>3. \A i \in Instances : ExtensionAfter(i) = ExtensionOf(i)
  BY <1>0 DEF ExtensionAfter, ExtensionOf
<1>s. {"done", "load"} \subseteq Stages \ {"stop", "loading", "new"}
  BY StagesListed
<1>m. PICK s \in {"done", "load"} :
        \/ op[p] = "grant" /\ subject[p] \notin enabled \cap ToSet(entries) /\ At(p, s) /\ UNCHANGED <<activeStates, life, victim, unsettled>> /\ s = "done"
        \/ /\ ~(op[p] = "grant" /\ subject[p] \notin enabled \cap ToSet(entries)) /\ Deactivate(p, subject[p], s)
           /\ s = "load" => op[p] # "disable"
  BY DEF Persisted
<1>4. Moved(p, subject[p], s)
  BY <1>m DEF Moved
<1>5. CASE e # subject[p]
  <2>1. ~CallAbout(p, e) /\ ~CallAbout(p, e)'
    BY <1>0, <1>5 DEF CallAbout
  <2>2. Untouched(e)
    BY <1>0, <1>1, <1>3, <1>4, <1>5, <1>s, <2>1, MoveElsewhere
  <2> QED BY <1>2, <2>2, UntouchedIsCalm
<1>6. CASE e = subject[p]
  <2>1. CallAbout(p, e) /\ Standing(p, e) /\ \A q \in Processes \ {p} : ~CallAbout(q, e)
    BY <1>0, <1>2, <1>6 DEF Calm, CallAbout
  <2>2. op[p] \in {"install", "enable", "disable", "grant"} /\ e \in ToSet(entries) /\ (op[p] \in {"install", "enable"} => e \in enabled)
    BY <1>0, <2>1 DEF Standing
  <2>3. op'[p] = IF pc'[p] = "done" THEN "none" ELSE op[p]
    BY <1>1, ForgetTyped DEF LoadInv, TypeInv
  <2>4. CASE op[p] = "grant" /\ subject[p] \notin enabled \cap ToSet(entries) /\ At(p, s) /\ UNCHANGED <<activeStates, life, victim, unsettled>> /\ s = "done"
    <3>1. activeStates[e] = NoInstance \/ e \in unsettled'
      BY <1>2, <1>6, <2>1, <2>4 DEF Calm
    <3>2. ~CallAbout(p, e)'
      BY <2>4 DEF CallAbout, InFlight, At, LoadInv, TypeInv, ExtensionTypeOK
    <3> QED BY <1>0, <1>1, <1>2, <1>3, <1>4, <1>6, <1>s, <2>1, <2>4, <3>1, <3>2, MoveHere
  <2>5. CASE /\ ~(op[p] = "grant" /\ subject[p] \notin enabled \cap ToSet(entries)) /\ Deactivate(p, subject[p], s)
             /\ s = "load" => op[p] # "disable"
    <3>1. pc'[p] \in {s, "stop"} /\ activeStates'[e] = NoInstance
      BY <1>4, <1>6, <1>s, <2>5, MovedFacts
    <3>2. pc'[p] # "done" => Standing(p, e)'
      BY <1>1, <1>6, <2>2, <2>3, <2>5, <3>1 DEF Standing
    <3>3. CallAbout(p, e)' => Standing(p, e)'
      BY <3>2 DEF CallAbout, InFlight
    <3> QED BY <1>0, <1>1, <1>2, <1>3, <1>4, <1>6, <1>s, <2>1, <3>1, <3>3, MoveHere
  <2> QED BY <1>m, <2>4, <2>5
<1> QED BY <1>5, <1>6

(* Where a call goes after the clean-up, what it needs is there. *)
LEMMA CleanUpStands ==
  ASSUME LoadInv, NEW p \in Processes, NEW e, subject[p] = e, p \notin ending, Standing(p, e)
  PROVE  AfterCleanUp(p) = "load" => e \in enabled /\ op[p] \notin {"uninstall", "disable"}
<1>0. op[p] \in {"none", "install", "enable", "disable", "reload", "grant", "uninstall"}
  BY ExtensionAssumption DEF LoadInv, TypeInv, ExtensionTypeOK
<1>1. CASE op[p] = "uninstall"
  BY <1>1 DEF AfterCleanUp
<1>2. CASE op[p] = "disable"
  BY <1>2 DEF AfterCleanUp
<1>3. CASE op[p] \in {"reload", "grant"} /\ subject[p] \notin enabled
  BY <1>3 DEF AfterCleanUp
<1>4. CASE op[p] \in {"reload", "grant"} /\ subject[p] \in enabled
  BY <1>4
<1>5. CASE op[p] \in {"enable", "install", "none"}
  BY <1>5 DEF Standing
<1> QED BY <1>0, <1>1, <1>2, <1>3, <1>4, <1>5

LEMMA CalmAfterSettled ==
  ASSUME LoadInv, TypeInv', Calmness, NEW p \in Processes, Settled(p), NEW e \in Extensions \ overlapped'
  PROVE  Calm(e)'
<1> USE BootApart
<1>0. Apart(p) /\ subject' = subject /\ InFlight(p) /\ subject[p] \in Extensions /\ CallShape(p) /\ pc[p] = "settle"
  BY StepApart DEF LoadInv, CallStep, TypeInv, Begun, Shapes, Settled
<1>1. UNCHANGED <<tool, owners, entries, enabled, overlapped, unsettled, activeStates, life, victim>> /\ Forget(p) /\ At(p, AfterCleanUp(p)) /\ ending' = ending \ {p}
  BY DEF Settled, ghosts, registryVars, loadVars
<1>2. e \notin overlapped /\ Calm(e)
  BY <1>1 DEF Calmness
<1>3. \A i \in Instances : ExtensionAfter(i) = ExtensionOf(i)
  BY <1>0 DEF ExtensionAfter, ExtensionOf
<1>4. /\ p \in ending => AfterCleanUp(p) \in {"next", "done"}
      /\ p \notin ending => AfterCleanUp(p) \in {"clear", "done", "load"}
  BY AfterCleanUpIs DEF Over
<1>m. Moved(p, subject[p], AfterCleanUp(p)) /\ AfterCleanUp(p) \in Stages \ {"stop", "loading", "new"}
  BY <1>1, <1>4, StagesListed DEF Moved
<1>5. CASE e # subject[p]
  <2>1. ~CallAbout(p, e) /\ ~CallAbout(p, e)'
    BY <1>0, <1>5 DEF CallAbout
  <2>2. Untouched(e)
    BY <1>0, <1>1, <1>3, <1>m, <1>5, <2>1, MoveElsewhere
  <2> QED BY <1>2, <2>2, UntouchedIsCalm
<1>6. CASE e = subject[p]
  <2>1. CallAbout(p, e) /\ Standing(p, e) /\ \A q \in Processes \ {p} : ~CallAbout(q, e)
    BY <1>0, <1>2, <1>6 DEF Calm, CallAbout
  <2>2. pc'[p] = AfterCleanUp(p)
    BY <1>1 DEF At, LoadInv, TypeInv, ExtensionTypeOK
  <2>3. op'[p] = IF pc'[p] = "done" THEN "none" ELSE op[p]
    BY <1>1, ForgetTyped DEF LoadInv, TypeInv
  <2>4. ASSUME pc'[p] \notin {"next", "done"} PROVE Standing(p, e)'
    <3>1. p \notin ending /\ activeStates[e] = NoInstance
      BY <1>0, <1>4, <2>1, <2>2, <2>4 DEF Standing
    <3>2. AfterCleanUp(p) = "load" => e \in enabled /\ op[p] \notin {"uninstall", "disable"}
      BY <1>6, <2>1, <3>1, CleanUpStands
    <3>3. pc'[p] \in {"clear", "load"} /\ op'[p] = op[p]
      BY <1>4, <2>2, <2>3, <2>4, <3>1
    <3> QED BY <1>1, <2>1, <2>2, <3>1, <3>2, <3>3 DEF Standing
  <2>5. CallAbout(p, e)' => Standing(p, e)'
    BY <2>4 DEF CallAbout, InFlight
  <2>6. activeStates'[e] = NoInstance \/ (e \in enabled' /\ e \in ToSet(entries')) \/ e \in unsettled'
    BY <1>0, <1>1, <1>2, <2>1 DEF Calm
  <2> QED BY <1>0, <1>1, <1>2, <1>3, <1>m, <1>6, <2>1, <2>5, <2>6, MoveHere
<1> QED BY <1>5, <1>6

LEMMA CalmAfterCleared ==
  ASSUME LoadInv, TypeInv', Calmness, NEW p \in Processes, Cleared(p), NEW e \in Extensions \ overlapped'
  PROVE  Calm(e)'
<1> USE BootApart
<1>0. Apart(p) /\ subject' = subject /\ InFlight(p) /\ subject[p] \in Extensions /\ CallShape(p) /\ pc[p] = "clear"
  BY StepApart DEF LoadInv, CallStep, TypeInv, Begun, Shapes, Cleared
<1>1. UNCHANGED <<tool, owners, enabled, unsettled, activeStates, life, victim>> /\ At(p, "store") /\ NoteRemoval(p) /\ Forget(p)
  BY DEF Cleared, loadVars
<1>2. e \notin overlapped /\ Calm(e)
  BY <1>1 DEF Calmness, NoteRemoval
<1>3. \A i \in Instances : ExtensionAfter(i) = ExtensionOf(i)
  BY <1>0 DEF ExtensionAfter, ExtensionOf
<1>m. Moved(p, subject[p], "store") /\ "store" \in Stages \ {"stop", "loading", "new"}
  BY <1>1, StagesListed DEF Moved
<1>d. pc'[p] = "store" /\ op'[p] = "uninstall"
  <2>1. pc'[p] = "store"
    BY <1>1 DEF At, LoadInv, TypeInv, ExtensionTypeOK
  <2>2. op'[p] = op[p]
    BY <1>1, <2>1, ForgetTyped DEF LoadInv, TypeInv
  <2> QED BY <1>0, <2>1, <2>2 DEF CallShape
<1>5. CASE e # subject[p]
  <2>1. ~CallAbout(p, e) /\ ~CallAbout(p, e)'
    BY <1>0, <1>5 DEF CallAbout
  <2>2. ToSet(entries') \subseteq ToSet(entries)
    <3>1. CASE index[p] \in DOMAIN entries
      <4>1. entries \in Seq(Extensions) /\ IsInjective(entries) /\ index[p] \in 1..Len(entries) /\ entries' = RemoveAt(entries, index[p])
        BY <3>1 DEF Cleared, LoadInv, TypeInv, ExtensionTypeOK
      <4> QED BY <4>1, RemoveAtLeaves
    <3>2. CASE index[p] \notin DOMAIN entries
      BY <3>2 DEF Cleared
    <3> QED BY <3>1, <3>2
  <2>3. e \in ToSet(entries') <=> e \in ToSet(entries)
    BY <1>1, <1>5, <2>2 DEF NoteRemoval
  <2>4. Untouched(e)
    BY <1>0, <1>1, <1>3, <1>m, <1>d, <1>5, <2>1, <2>3, MoveElsewhere
  <2> QED BY <1>2, <2>4, UntouchedIsCalm
<1>6. CASE e = subject[p]
  <2>1. CallAbout(p, e) /\ Standing(p, e) /\ \A q \in Processes \ {p} : ~CallAbout(q, e)
    BY <1>0, <1>2, <1>6 DEF Calm, CallAbout
  <2>2. activeStates'[e] = NoInstance
    BY <1>0, <1>1, <2>1 DEF Standing
  <2>3. Standing(p, e)'
    BY <1>d DEF Standing
  <2> QED BY <1>0, <1>1, <1>2, <1>3, <1>m, <1>6, <2>1, <2>2, <2>3, MoveHere
<1> QED BY <1>5, <1>6

(* A call that ends without a stop: only a disable that could not be stored *)
(* leaves what runs disabled.                                               *)
LEMMA CalmAfterQuit ==
  ASSUME LoadInv, TypeInv', Calmness, NEW p \in Processes, Quits(p), NEW e \in Extensions \ overlapped'
  PROVE  Calm(e)'
<1> USE BootApart
<1>0. Apart(p) /\ subject' = subject /\ InFlight(p) /\ subject[p] \in Extensions
  BY StepApart DEF LoadInv, CallStep, TypeInv, Begun, Quits
<1>1. UNCHANGED <<tool, owners, entries, enabled, overlapped, activeStates, life, victim>> /\ At(p, "done")
  BY DEF Quits, PersistFails, ClearFails, Uninstalled, loadVars, registryVars, ghosts
<1>2. e \notin overlapped /\ Calm(e)
  BY <1>1 DEF Calmness
<1>3. \A i \in Instances : ExtensionAfter(i) = ExtensionOf(i)
  BY <1>0 DEF ExtensionAfter, ExtensionOf
<1>m. Moved(p, subject[p], "done") /\ "done" \in Stages \ {"stop", "loading", "new"}
  BY <1>1, StagesListed DEF Moved
<1>d. ~CallAbout(p, e)'
  BY <1>1 DEF CallAbout, InFlight, At, LoadInv, TypeInv, ExtensionTypeOK
<1>u. \/ unsettled' = unsettled /\ ~(pc[p] = "persist" /\ op[p] = "disable")
      \/ unsettled' = unsettled \cup {subject[p]}
  BY DEF Quits, PersistFails, ClearFails, Uninstalled, ghosts
<1>5. CASE e # subject[p]
  <2>1. ~CallAbout(p, e)
    BY <1>5 DEF CallAbout
  <2>2. Untouched(e)
    BY <1>0, <1>1, <1>3, <1>m, <1>d, <1>u, <1>5, <2>1, MoveElsewhere
  <2> QED BY <1>2, <2>2, UntouchedIsCalm
<1>6. CASE e = subject[p]
  <2>1. CallAbout(p, e) /\ \A q \in Processes \ {p} : ~CallAbout(q, e)
    BY <1>0, <1>2, <1>6 DEF Calm, CallAbout
  <2>2. activeStates'[e] = NoInstance \/ (e \in enabled' /\ e \in ToSet(entries')) \/ e \in unsettled'
    BY <1>1, <1>2, <1>u, <1>6, <2>1 DEF Calm
  <2> QED BY <1>0, <1>1, <1>2, <1>3, <1>m, <1>d, <1>6, <2>1, <2>2, MoveHere
<1> QED BY <1>5, <1>6

LEMMA CalmAfterStop ==
  ASSUME LoadInv, TypeInv', Calmness, NEW p \in Processes, Stopped(p) \/ StopFails(p), NEW e \in Extensions \ overlapped'
  PROVE  Calm(e)'
<1> USE BootApart
<1>0. Apart(p) /\ subject' = subject /\ InFlight(p) /\ subject[p] \in Extensions /\ CallShape(p) /\ pc[p] = "stop" /\ p \notin ending
  BY StepApart DEF LoadInv, CallStep, TypeInv, Begun, Shapes, Stopped, StopFails, CallShape
<1>1. UNCHANGED <<entries, enabled, overlapped, unsettled, activeStates, changed>> /\ Forget(p) /\ life' = [life EXCEPT ![victim[p]] = "gone"]
  BY DEF Stopped, StopFails, ghosts, registryVars
<1>2. e \notin overlapped /\ Calm(e)
  BY <1>1 DEF Calmness
<1>4. PICK s \in {"next", "done", "clear", "load"} :
        /\ RemoveTool(p, victim[p], subject[p], s) /\ (s = "load" => AfterCleanUp(p) = "load" /\ Stopped(p))
        /\ ending' = ending \/ (ending' = ending \cup {p} /\ pc'[p] = "settle")
  <2>1. AfterCleanUp(p) \in {"clear", "done", "load"}
    BY <1>0, AfterCleanUpIs
  <2>2. Over(p) \in {"next", "done"}
    BY DEF Over
  <2> QED BY <2>1, <2>2 DEF Stopped, StopFails
<1>5. /\ owners' = owners \ {victim[p]} /\ built' = built /\ agentTools' = agentTools
      /\ \A x \in Extensions : tool'[x] = IF x = subject[p] /\ victim[p] \in owners THEN NoInstance ELSE tool[x]
      /\ pc'[p] \in {s, "settle"}
  <2>1. s \in Stages
    BY StagesListed
  <2> QED BY <1>0, <1>4, <2>1, RemoveToolMoves DEF LoadInv
<1>6. LifeStep(p, victim[p], "gone")
  BY <1>0, <1>1, <1>4, <1>5 DEF LifeStep
<1>7. CASE e # subject[p]
  <2>1. Untouched(e)
    BY <1>0, <1>1, <1>5, <1>6, <1>7, StepElsewhere
  <2> QED BY <1>2, <2>1, UntouchedIsCalm
<1>8. CASE e = subject[p]
  <2>1. CallAbout(p, e) /\ Standing(p, e) /\ \A q \in Processes \ {p} : ~CallAbout(q, e)
    BY <1>0, <1>2, <1>8 DEF Calm, CallAbout
  <2>2. activeStates[e] = NoInstance
    BY <1>0, <2>1 DEF Standing
  <2>3. op'[p] = IF pc'[p] = "done" THEN "none" ELSE op[p]
    BY <1>1, ForgetTyped DEF LoadInv, TypeInv
  <2>4. AfterCleanUp(p) = "load" => e \in enabled /\ op[p] \notin {"uninstall", "disable"}
    BY <1>0, <1>8, <2>1, CleanUpStands
  <2>5. pc'[p] # "done" => Standing(p, e)'
    BY <1>1, <1>4, <1>5, <2>1, <2>2, <2>3, <2>4 DEF Standing
  <2>6. CallAbout(p, e)' => Standing(p, e)'
    BY <2>5 DEF CallAbout, InFlight
  <2>7. tool'[e] # victim[p]
    <3>1. victim[p] \in Instances
      BY <1>0 DEF CallShape
    <3>2. tool[e] # NoInstance => tool[e] \in owners
      BY <1>2 DEF Calm
    <3> QED BY <1>5, <1>8, <3>1, <3>2
  <2> QED BY <1>0, <1>1, <1>2, <1>5, <1>6, <2>1, <2>2, <2>6, <2>7, StepHere
<1> QED BY <1>7, <1>8

LEMMA CalmAfterLoad ==
  ASSUME LoadInv, TypeInv', Calmness, NEW p \in Processes, LoadStarts(p) \/ LoadOk(p) \/ LoadFails(p), NEW e \in Extensions \ overlapped'
  PROVE  Calm(e)'
<1> USE BootApart
<1>0. Apart(p) /\ subject' = subject /\ InFlight(p) /\ subject[p] \in Extensions /\ CallShape(p) /\ p \notin ending /\ pc[p] \in {"load", "loading"}
  BY StepApart DEF LoadInv, CallStep, TypeInv, Begun, Shapes, LoadStarts, LoadOk, LoadFails, CallShape
<1>i. Instance(p) \in Instances
  BY <1>0, InstancesApart
<1>1. UNCHANGED <<entries, enabled, overlapped, unsettled>>
  BY DEF LoadStarts, LoadOk, LoadFails, ghosts, registryVars
<1>2. e \notin overlapped /\ Calm(e)
  BY <1>1 DEF Calmness
<1>o. Over(p) \in {"next", "done"} /\ Over(p) \in Stages
  BY StagesListed DEF Over
<1>a. e = subject[p] => /\ CallAbout(p, e) /\ Standing(p, e) /\ activeStates[e] = NoInstance /\ e \in enabled
                        /\ op[p] \notin {"uninstall", "disable"} /\ e \in ToSet(entries)
  BY <1>0, <1>2 DEF Calm, CallAbout, Standing
<1>3. CASE LoadStarts(p)
  <2>1. pc'[p] = "loading" /\ UNCHANGED <<op, ending, activeStates, tool, owners, changed, built, agentTools>> /\ pc[p] = "load"
        /\ life' = [life EXCEPT ![Instance(p)] = "loading"]
    BY <1>3 DEF LoadStarts, At, LoadInv, TypeInv, ExtensionTypeOK, toolPassVars
  <2>2. LifeStep(p, Instance(p), "loading")
    BY <1>0, <2>1 DEF LifeStep
  <2>3. CASE e # subject[p]
    <3>1. Untouched(e)
      BY <1>0, <1>1, <2>1, <2>2, <2>3, StepElsewhere
    <3> QED BY <1>2, <3>1, UntouchedIsCalm
  <2>4. CASE e = subject[p]
    <3>1. Standing(p, e)'
      BY <1>1, <1>a, <2>1, <2>4 DEF Standing
    <3> QED BY <1>0, <1>1, <1>2, <1>a, <2>1, <2>2, <2>4, <3>1, StepHere
  <2> QED BY <2>3, <2>4
<1>4. CASE LoadOk(p)
  <2>1. /\ pc[p] = "loading" /\ life' = [life EXCEPT ![Instance(p)] = "live"] /\ Forget(p)
        /\ changed' \subseteq changed /\ activeStates' = [activeStates EXCEPT ![subject[p]] = Instance(p)]
        /\ UNCHANGED <<tool, owners>>
    BY <1>4 DEF LoadOk
  <2>2. /\ \/ At(p, "settle") /\ ending' = ending \cup {p}
           \/ At(p, Over(p)) /\ ending' = ending
        /\ built' = built /\ agentTools' = agentTools
    BY <1>4 DEF LoadOk, AskRefresh, toolPassVars
  <2>3. \/ pc'[p] = "settle" /\ p \in ending'
        \/ pc'[p] \in {"next", "done"} /\ ending' = ending
    BY <1>o, <2>2 DEF At, LoadInv, TypeInv, ExtensionTypeOK
  <2>4. LifeStep(p, Instance(p), "live")
    BY <2>1, <2>2, <2>3 DEF LifeStep, InFlight
  <2>5. CASE e # subject[p]
    <3>1. Untouched(e)
      BY <1>0, <1>1, <2>1, <2>4, <2>5, StepElsewhere
    <3> QED BY <1>2, <3>1, UntouchedIsCalm
  <2>6. CASE e = subject[p]
    <3>1. op'[p] = IF pc'[p] = "done" THEN "none" ELSE op[p]
      BY <2>1, ForgetTyped DEF LoadInv, TypeInv
    <3>2. pc'[p] = "settle" /\ p \in ending' => Standing(p, e)'
      BY <1>1, <1>a, <2>6, <3>1 DEF Standing
    <3>3. CallAbout(p, e)' => Standing(p, e)'
      BY <2>3, <3>2 DEF CallAbout, InFlight
    <3>4. activeStates'[e] = Instance(p)
      BY <2>1, <2>6 DEF LoadInv, TypeInv, ExtensionTypeOK
    <3> QED BY <1>0, <1>1, <1>2, <1>a, <2>1, <2>4, <2>6, <3>3, <3>4, StepHere
  <2> QED BY <2>5, <2>6
<1>5. CASE LoadFails(p)
  <2>1. /\ pc[p] = "loading" /\ life' = [life EXCEPT ![Instance(p)] = "gone"] /\ Forget(p)
        /\ changed' \subseteq changed /\ RemoveTool(p, Instance(p), subject[p], Over(p))
        /\ UNCHANGED activeStates
        /\ ending' = IF pc'[p] = "settle" THEN ending \cup {p} ELSE ending
    BY <1>5 DEF LoadFails
  <2>2. /\ owners' = owners \ {Instance(p)} /\ built' = built /\ agentTools' = agentTools
        /\ \A x \in Extensions : tool'[x] = IF x = subject[p] /\ Instance(p) \in owners THEN NoInstance ELSE tool[x]
        /\ pc'[p] \in {Over(p), "settle"}
    BY <1>0, <1>o, <2>1, RemoveToolMoves DEF LoadInv
  <2>4. LifeStep(p, Instance(p), "gone")
    BY <1>o, <2>1, <2>2 DEF LifeStep, InFlight
  <2>5. CASE e # subject[p]
    <3>1. Untouched(e)
      BY <1>0, <1>1, <2>2, <2>4, <2>5, StepElsewhere
    <3> QED BY <1>2, <3>1, UntouchedIsCalm
  <2>6. CASE e = subject[p]
    <3>1. op'[p] = IF pc'[p] = "done" THEN "none" ELSE op[p]
      BY <2>1, ForgetTyped DEF LoadInv, TypeInv
    <3>2. pc'[p] = "settle" /\ p \in ending' => Standing(p, e)'
      BY <1>1, <1>a, <2>6, <3>1 DEF Standing
    <3>3. CallAbout(p, e)' => Standing(p, e)'
      BY <1>o, <2>1, <2>2, <3>2 DEF CallAbout, InFlight
    <3>4. tool'[e] # Instance(p)
      <4>1. tool[e] # NoInstance => tool[e] \in owners
        BY <1>2 DEF Calm
      <4> QED BY <1>i, <2>2, <2>6, <4>1
    <3> QED BY <1>0, <1>1, <1>2, <1>a, <2>1, <2>2, <2>4, <2>6, <3>3, <3>4, StepHere
  <2> QED BY <2>5, <2>6
<1> QED BY <1>3, <1>4, <1>5

LEMMA CalmAfterTool ==
  ASSUME LoadInv, Calmness, NEW i \in Instances, RegisterTool(i) \/ UnregisterTool(i), NEW e \in Extensions \ overlapped'
  PROVE  Calm(e)'
<1> USE BootApart
<1>1. UNCHANGED <<callVars, registryVars, activeStates, life, overlapped, unsettled>> /\ life[i] \in {"loading", "live"}
  BY DEF RegisterTool, UnregisterTool, ghosts
<1>2. Calm(e)
  BY <1>1 DEF Calmness
<1>3. \A j : ExtensionAfter(j) = ExtensionOf(j)
  BY <1>1 DEF ExtensionAfter, ExtensionOf, callVars
<1>4. CASE ExtensionOf(i) # e
  <2>1. tool'[e] = tool[e] /\ owners \ {i} \subseteq owners'
    BY <1>4 DEF RegisterTool, UnregisterTool, LoadInv, TypeInv, ExtensionTypeOK
  <2>2. Untouched(e)
    BY <1>1, <1>3, <1>4, <2>1 DEF Untouched, CallAbout, InFlight, callVars, registryVars
  <2> QED BY <1>2, <2>2, UntouchedIsCalm
<1>5. CASE ExtensionOf(i) = e
  <2>1. tool'[e] = NoInstance \/ (tool'[e] = i /\ i \in owners')
    BY <1>5 DEF RegisterTool, UnregisterTool, LoadInv, TypeInv, ExtensionTypeOK
  <2>2. tool'[e] # NoInstance => tool'[e] \in owners' /\ life'[tool'[e]] \in {"loading", "live", "stopping"}
    BY <1>1, <2>1
  <2>3. \A p \in Processes : CallAbout(p, e)' <=> CallAbout(p, e)
    BY <1>1 DEF CallAbout, InFlight, callVars
  <2>4. \A p \in Processes : CallAbout(p, e)' => Standing(p, e)'
    BY <1>1, <1>2, <2>3 DEF Calm, Standing, callVars, registryVars
  <2>5. \A j \in Instances : life'[j] = "live" /\ ExtensionOf(j)' = e => activeStates'[e] = j
    BY <1>1, <1>2, <1>3, AfterIs DEF Calm
  <2>6. activeStates'[e] # NoInstance =>
         \/ e \in enabled' /\ e \in ToSet(entries')
         \/ \E p \in Processes : CallAbout(p, e)' /\ pc'[p] = "persist" /\ op'[p] = "disable"
         \/ e \in unsettled'
    BY <1>1, <1>2, <2>3 DEF Calm, callVars, registryVars
  <2>7. \A p, q \in Processes : CallAbout(p, e)' /\ CallAbout(q, e)' => p = q
    BY <1>2, <2>3 DEF Calm
  <2> QED BY <2>2, <2>4, <2>5, <2>6, <2>7 DEF Calm
<1> QED BY <1>4, <1>5

LEMMA CalmAfterPass ==
  ASSUME LoadInv, Calmness, RefreshRead \/ RefreshApply \/ UNCHANGED extensionVars, NEW e \in Extensions \ overlapped'
  PROVE  Calm(e)'
<1>1. UNCHANGED <<callVars, registryVars, loadVars, overlapped, unsettled>>
  BY DEF RefreshRead, RefreshApply, extensionVars, ghosts
<1>2. Calm(e)
  BY <1>1 DEF Calmness
<1>3. Untouched(e)
  BY <1>1 DEF Untouched, CallAbout, InFlight, callVars, registryVars, loadVars, ExtensionAfter, ExtensionOf
<1> QED BY <1>2, <1>3, UntouchedIsCalm

LEMMA SameAwaited ==
  ASSUME Awaited, UNCHANGED <<pc, victim, subject, life>>
  PROVE  Awaited'
  BY DEF Awaited, Instance

LEMMA AwaitedStays ==
  ASSUME LoadInv, LoadInv', Awaited, [ExtensionNext]_extensionVars
  PROVE  Awaited'
<1> USE BootApart
<1>st. {"persist", "load", "clear", "done", "next", "settle", "store"} \subseteq Stages \ {"stop", "loading", "new"}
  BY StagesListed
<1>1. ASSUME NEW p \in Requests, NEW e \in Extensions, Call(p, e) PROVE Awaited'
  <2>1. pc[p] = "new" /\ \E s \in {"persist", "load", "clear", "done"} : Moved(p, e, s)
    BY <1>1, CallMoves DEF LoadInv
  <2>2. Apart(p)
    BY <1>1, CallApart DEF LoadInv
  <2> QED BY <1>st, <2>1, <2>2, AwaitedAfterMove
<1>2. CASE BootNext \/ BootEnds
  <2>1. /\ pc[Boot] = "next"
        /\ \/ UNCHANGED <<subject, pc, activeStates, life, victim>>
           \/ At(Boot, "done") /\ UNCHANGED <<subject, activeStates, life, victim>>
           \/ \E e \in Extensions : Moved(Boot, e, "load")
    BY <1>2, BootMoves DEF LoadInv
  <2>2. Apart(Boot)
    BY <1>2, BootStepApart DEF LoadInv
  <2>3. CASE UNCHANGED <<subject, pc, activeStates, life, victim>>
    BY <2>3, SameAwaited
  <2>4. ASSUME NEW e \in Extensions, NEW s \in {"done", "load"}, Moved(Boot, e, s) PROVE Awaited'
    BY <1>st, <2>1, <2>2, <2>4, AwaitedAfterMove
  <2>5. ASSUME NEW e \in Extensions PROVE At(Boot, "done") /\ UNCHANGED <<subject, activeStates, life, victim>> => Awaited'
    BY <2>4 DEF Moved
  <2>6. CASE At(Boot, "done") /\ UNCHANGED <<subject, activeStates, life, victim>>
    <3>1. pc'[Boot] = "done" /\ \A q \in Processes \ {Boot} : pc'[q] = pc[q]
      BY <2>6 DEF At, LoadInv, TypeInv, ExtensionTypeOK
    <3>2. \A q \in Processes : pc[q] \in {"stop", "loading"} => pc'[q] = pc[q]
      BY <2>1, <3>1
    <3> QED BY <2>6, <3>2 DEF Awaited, Instance
  <2> QED BY <2>1, <2>3, <2>4, <2>6
<1>3. ASSUME NEW p \in Processes, CallStep(p) PROVE Awaited'
  <2>1. Apart(p) /\ subject' = subject /\ InFlight(p) /\ subject[p] \in Extensions
    BY <1>3, StepApart DEF LoadInv, TypeInv, Begun
  <2>2. CASE Stopped(p) \/ StopFails(p) \/ LoadStarts(p) \/ LoadOk(p) \/ LoadFails(p)
    <3>1. PICK v, becomes : LifeStep(p, v, becomes)
      BY <2>2, CodeLoads DEF LoadInv
    <3> QED BY <2>1, <3>1, AwaitedAfterStep
  <2>3. ASSUME NEW s \in Stages \ {"stop", "loading", "new"}, Moved(p, subject[p], s), pc[p] \notin {"stop", "loading"} PROVE Awaited'
    BY <2>1, <2>3, AwaitedAfterMove
  <2>4. CASE Persisted(p)
    <3>1. pc[p] = "persist" /\ \E s \in {"done", "load"} : Moved(p, subject[p], s)
      BY <2>4 DEF Persisted, Moved
    <3> QED BY <1>st, <2>3, <3>1
  <2>5. CASE Settled(p)
    <3>1. pc[p] = "settle" /\ Moved(p, subject[p], AfterCleanUp(p))
      BY <2>5 DEF Settled, loadVars, Moved
    <3>2. AfterCleanUp(p) \in {"clear", "done", "load", "next"}
      BY AfterCleanUpIs DEF Over
    <3> QED BY <1>st, <2>3, <3>1, <3>2
  <2>6. CASE Cleared(p)
    <3>1. pc[p] = "clear" /\ Moved(p, subject[p], "store")
      BY <2>6 DEF Cleared, loadVars, Moved
    <3> QED BY <1>st, <2>3, <3>1
  <2>7. CASE Quits(p)
    <3>1. pc[p] \in {"persist", "clear", "store"} /\ Moved(p, subject[p], "done")
      BY <2>7 DEF Quits, PersistFails, ClearFails, Uninstalled, loadVars, Moved
    <3> QED BY <1>st, <2>3, <3>1
  <2> QED BY <1>3, <2>2, <2>4, <2>5, <2>6, <2>7 DEF CallStep, Quits
<1>4. CASE (\E i \in Instances : RegisterTool(i) \/ UnregisterTool(i)) \/ RefreshRead \/ RefreshApply \/ UNCHANGED extensionVars
  <2>1. UNCHANGED <<pc, victim, subject, life>>
    BY <1>4 DEF RegisterTool, UnregisterTool, RefreshRead, RefreshApply, extensionVars, callVars, loadVars
  <2> QED BY <2>1, SameAwaited
<1> QED BY <1>1, <1>2, <1>3, <1>4 DEF ExtensionNext

LEMMA RunInductive ==
  /\ ExtensionInit => RunInv
  /\ LoadInv /\ RunInv /\ LoadInv' /\ [ExtensionNext]_extensionVars => RunInv'
<1> USE BootApart
<1>1. ASSUME ExtensionInit PROVE RunInv
  <2>1. \A p \in Processes : ~InFlight(p)
    BY <1>1 DEF ExtensionInit, InFlight
  <2>2. Awaited
    BY <1>1 DEF ExtensionInit, Awaited
  <2>3. ASSUME NEW e \in Extensions PROVE Calm(e)
    BY <1>1, <2>1 DEF ExtensionInit, Calm, CallAbout
  <2> QED BY <2>2, <2>3 DEF RunInv, Calmness
<1>2. ASSUME LoadInv, RunInv, LoadInv', [ExtensionNext]_extensionVars PROVE RunInv'
  <2>0. Calmness /\ Awaited' /\ TypeInv'
    BY <1>2, AwaitedStays DEF RunInv, LoadInv
  <2>1. ASSUME NEW e \in Extensions \ overlapped' PROVE Calm(e)'
    <3>1. ASSUME NEW p \in Requests, NEW x \in Extensions, Call(p, x) PROVE Calm(e)'
      BY <1>2, <2>0, <3>1, CalmAfterCall
    <3>2. CASE BootNext \/ BootEnds
      BY <1>2, <2>0, <3>2, CalmAfterBoot
    <3>3. ASSUME NEW p \in Processes, CallStep(p) PROVE Calm(e)'
      <4>1. CASE Persisted(p)
        BY <1>2, <2>0, <4>1, CalmAfterPersisted
      <4>2. CASE Settled(p)
        BY <1>2, <2>0, <4>2, CalmAfterSettled
      <4>3. CASE Cleared(p)
        BY <1>2, <2>0, <4>3, CalmAfterCleared
      <4>4. CASE Stopped(p) \/ StopFails(p)
        BY <1>2, <2>0, <4>4, CalmAfterStop
      <4>5. CASE LoadStarts(p) \/ LoadOk(p) \/ LoadFails(p)
        BY <1>2, <2>0, <4>5, CalmAfterLoad
      <4>6. CASE Quits(p)
        BY <1>2, <2>0, <4>6, CalmAfterQuit
      <4> QED BY <3>3, <4>1, <4>2, <4>3, <4>4, <4>5, <4>6 DEF CallStep, Quits
    <3>4. ASSUME NEW i \in Instances, RegisterTool(i) \/ UnregisterTool(i) PROVE Calm(e)'
      BY <1>2, <2>0, <3>4, CalmAfterTool
    <3>5. CASE RefreshRead \/ RefreshApply \/ UNCHANGED extensionVars
      BY <1>2, <2>0, <3>5, CalmAfterPass
    <3> QED BY <1>2, <3>1, <3>2, <3>3, <3>4, <3>5 DEF ExtensionNext
  <2> QED BY <2>0, <2>1 DEF RunInv, Calmness
<1> QED BY <1>1, <1>2

LEMMA CalmRunsOne ==
  ASSUME LoadInv, Awaited, NEW e \in Extensions, Calm(e),
         NEW i \in Running(e), NEW j \in Running(e)
  PROVE  i = j
<1> USE BootApart
<1>0. i \in Instances /\ j \in Instances /\ ExtensionOf(i) = e /\ ExtensionOf(j) = e
      /\ life[i] \in {"loading", "live", "stopping"} /\ life[j] \in {"loading", "live", "stopping"}
  BY DEF Running
<1>1. ASSUME NEW k \in Instances, ExtensionOf(k) = e, life[k] = "live" PROVE activeStates[e] = k
  BY <1>1 DEF Calm
<1>2. ASSUME NEW k \in Instances, ExtensionOf(k) = e, life[k] = "stopping"
      PROVE  activeStates[e] = NoInstance /\ \E p \in Processes : CallAbout(p, e) /\ pc[p] = "stop" /\ victim[p] = k
  <2>1. PICK p \in Processes : pc[p] = "stop" /\ victim[p] = k
    BY <1>2 DEF Awaited
  <2>2. CallAbout(p, e)
    BY <1>2, <2>1 DEF CallAbout, InFlight, LoadInv, Shapes, CallShape
  <2>3. Standing(p, e)
    BY <2>2 DEF Calm
  <2> QED BY <2>1, <2>2, <2>3 DEF Standing
<1>3. ASSUME NEW k \in Instances, ExtensionOf(k) = e, life[k] = "loading"
      PROVE  activeStates[e] = NoInstance /\ \E p \in Processes : CallAbout(p, e) /\ pc[p] = "loading" /\ Instance(p) = k
  <2>1. PICK p \in Processes : pc[p] = "loading" /\ Instance(p) = k
    BY <1>3 DEF Awaited
  <2>2. InFlight(p)
    BY <2>1 DEF InFlight
  <2>3. CallAbout(p, e)
    BY <1>3, <2>1, <2>2, InstancesApart DEF CallAbout
  <2>4. Standing(p, e)
    BY <2>3 DEF Calm
  <2> QED BY <2>1, <2>3, <2>4 DEF Standing
<1>4. \A p, q \in Processes : CallAbout(p, e) /\ CallAbout(q, e) => p = q
  BY DEF Calm
<1>5. CASE life[i] = "live"
  BY <1>0, <1>1, <1>2, <1>3, <1>5
<1>6. CASE life[i] = "stopping"
  BY <1>0, <1>1, <1>2, <1>3, <1>4, <1>6
<1>7. CASE life[i] = "loading"
  BY <1>0, <1>1, <1>2, <1>3, <1>4, <1>7
<1> QED BY <1>0, <1>5, <1>6, <1>7

LEMMA CalmIsOff ==
  ASSUME LoadInv, Awaited, NEW e \in Extensions, Calm(e), e \notin unsettled, e \notin enabled \cap ToSet(entries),
         \A p \in Processes : subject[p] = e => ~InFlight(p)
  PROVE  Running(e) = {} /\ tool[e] = NoInstance
<1> USE BootApart
<1>1. \A p \in Processes : ~CallAbout(p, e)
  BY DEF CallAbout
<1>2. activeStates[e] = NoInstance
  BY <1>1 DEF Calm
<1>3. ASSUME NEW i \in Instances, ExtensionOf(i) = e PROVE life[i] \notin {"loading", "live", "stopping"}
  <2>1. life[i] # "live"
    BY <1>2, <1>3 DEF Calm
  <2>2. life[i] # "stopping"
    <3> SUFFICES ASSUME life[i] = "stopping" PROVE FALSE
      OBVIOUS
    <3>1. PICK p \in Processes : pc[p] = "stop" /\ victim[p] = i
      BY DEF Awaited
    <3>2. CallAbout(p, e)
      BY <1>3, <3>1 DEF CallAbout, InFlight, LoadInv, Shapes, CallShape
    <3> QED BY <1>1, <3>2
  <2>3. life[i] # "loading"
    <3> SUFFICES ASSUME life[i] = "loading" PROVE FALSE
      OBVIOUS
    <3>1. PICK p \in Processes : pc[p] = "loading" /\ Instance(p) = i
      BY DEF Awaited
    <3>2. InFlight(p)
      BY <3>1 DEF InFlight
    <3>3. CallAbout(p, e)
      BY <1>3, <3>1, <3>2, InstancesApart DEF CallAbout
    <3> QED BY <1>1, <3>3
  <2> QED BY <2>1, <2>2, <2>3
<1>4. Running(e) = {}
  BY <1>3 DEF Running
<1>5. tool[e] # NoInstance => tool[e] \in Instances /\ ExtensionOf(tool[e]) = e /\ life[tool[e]] \in {"loading", "live", "stopping"}
  BY DEF Calm, LoadInv, OwnMaps, TypeInv, ExtensionTypeOK, MaybeInstance
<1> QED BY <1>3, <1>4, <1>5

LEMMA OneAtMost ==
  ASSUME NEW S, \A i, j \in S : i = j
  PROVE  Cardinality(S) <= 1
<1>1. CASE S = {}
  BY <1>1, FS_EmptySet
<1>2. CASE S # {}
  <2>1. PICK i : i \in S
    BY <1>2
  <2>2. ASSUME NEW j \in S PROVE j = i
    BY <2>1
  <2>3. S = {i}
    BY <2>1, <2>2
  <2>4. Cardinality({i}) = 1
    BY FS_Singleton, Zenon
  <2>5. Cardinality(S) = 1
    BY <2>3, <2>4
  <2> QED BY <2>5
<1> QED BY <1>1, <1>2

(* For any extensions and calls: the code of an extension runs once at most, *)
(* unless two calls have been about it at one time.  Under the same          *)
(* condition it does not run at all when it is disabled and no call is about *)
(* it, unless the call that disabled it failed to store that and so left it  *)
(* running (setExtensionEnabled, persistEntries, activateEntry,              *)
(* deactivateEntry and the calls that await them).                           *)
THEOREM RunsHold == ExtensionSpec => []RunsAsEnabled
<1>1. ASSUME LoadInv, RunInv PROVE RunsAsEnabled
  <2>1. OneInstanceRuns
    <3> SUFFICES ASSUME NEW e \in Extensions \ overlapped PROVE Cardinality(Running(e)) <= 1
      BY DEF OneInstanceRuns
    <3>1. \A i, j \in Running(e) : i = j
      BY <1>1, CalmRunsOne DEF RunInv, Calmness
    <3> QED BY <3>1, OneAtMost
  <2>2. DisabledIsOff
    BY <1>1, CalmIsOff DEF RunInv, Calmness, DisabledIsOff
  <2> QED BY <2>1, <2>2 DEF RunsAsEnabled
<1>2. ExtensionSpec => [](LoadInv /\ StartOrder)
  BY LoadInductive, PTL DEF ExtensionSpec
<1>3. ExtensionSpec => []RunInv
  BY <1>2, RunInductive, PTL DEF ExtensionSpec
<1> QED BY <1>1, <1>2, <1>3, PTL

-----------------------------------------------------------------------------
(* The four together *)

(* A behaviour of the services together is one of each of them: whatever is  *)
(* proved of one holds of it beside the others.                              *)
THEOREM ServicesTogether == ServicesSpec => ContextSpec /\ ChoiceSpec /\ ExtensionSpec /\ PythonSpec
<1>1. ServicesInit => ContextInit /\ ChoiceInit /\ ExtensionInit /\ PythonInit
  BY DEF ServicesInit
<1>2. [ServicesNext]_servicesVars => [ContextNext]_contextVars
  BY DEF ServicesNext, servicesVars
<1>3. [ServicesNext]_servicesVars => [ChoiceNext]_choiceVars
  BY DEF ServicesNext, servicesVars
<1>4. [ServicesNext]_servicesVars => [ExtensionNext]_extensionVars
  BY DEF ServicesNext, servicesVars
<1>5. [ServicesNext]_servicesVars => [PythonNext]_pythonVars
  BY DEF ServicesNext, servicesVars
<1> QED
  BY <1>1, <1>2, <1>3, <1>4, <1>5, PTL DEF ServicesSpec, ContextSpec, ChoiceSpec, ExtensionSpec, PythonSpec

(* Every variable of the four services keeps its type.                       *)
THEOREM ServicesTypesHold == ServicesSpec => []ServicesTypeOK
BY ServicesTogether, ContextTypesHold, ChoiceTypesHold, ExtensionTypesHold, PythonTypesHold, PTL
DEF ServicesTypeOK
===============================================================================
