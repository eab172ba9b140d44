---------------------------- MODULE Relay_proofs ----------------------------
(***************************************************************************)
(* Proofs about Relay for every value of its constants: any workers and    *)
(* branches, and any number of commits, conflicts, rebases and releases.   *)
(***************************************************************************)
EXTENDS Relay, FiniteSetTheorems, TLAPS

-----------------------------------------------------------------------------
(* The invariants *)

\* A branch has a commit of its own: more than the empty repository.
TipsAreNew == \A t \in Topics : branch[t].kind # "none" => ~(branch[t].tip \subseteq {0})

\* The relay checkout has a commit, on dev or on main.
Known(c) == c \subseteq {0} \/ c \subseteq relay.dev \/ c \subseteq relay.main

\* Everything the shared repositories have is known to the relay checkout,
\* except for the first commit, which it need not have cloned yet.
KnownInv ==
  /\ Known(github.main) /\ Known(github.dev) /\ Known(bare.main) /\ Known(bare.dev)
  /\ Known(relay.origin_main) /\ Known(relay.origin_dev)

KeptInv == TipsAreNew /\ KnownInv /\ ReapedIsKept

OneAtATime == \E s \in Scripts : at[s] = "idle"

\* What dg-release has established about the bare's dev when it has got so far.
ReleaseHolds ==
  /\ at["release"] = "switch" => relay.origin_dev = bare.dev
  /\ at["release"] = "merge" => head = "main" /\ bare.dev \subseteq relay.dev
  /\ at["release"] = "bare" => bare.dev \subseteq relay.main
  /\ at["release"] \in {"github", "sync"} => bare.dev \subseteq bare.main

ForwardInv == OneAtATime /\ ReleaseHolds

\* The last steps of a release: main of GitHub is main of the bare, then dev of
\* the bare is main, then dev of GitHub is dev of the bare.
TogetherInv ==
  /\ at["release"] \in {"sync", "dev"} => github.main = bare.main
  /\ at["release"] = "dev" => bare.dev = bare.main
  /\ at["release"] = "done" => Ancestor(github.main, github.dev)

\* Scripts that run to their end, one at a time: where the refs stand between
\* any two of their steps.
BareRefs ==
  /\ 0 \in bare.main /\ (bare.dev = NoRef => bare.main = {0})
  /\ bare.dev # NoRef /\ at["release"] \notin {"github", "sync"} => bare.main \subseteq bare.dev

GithubRefs ==
  /\ github.dev \subseteq bare.dev /\ github.main \subseteq bare.main
  /\ at["release"] # "github" => github.main = bare.main
  /\ at["relay"] # "github" /\ at["release"] # "dev" => github.dev = bare.dev

RelayRefs ==
  /\ at["release"] # "bare" => relay.main \subseteq bare.main
  /\ at["relay"] # "bare" =>
       relay.dev \subseteq (IF bare.dev = NoRef THEN bare.main ELSE bare.dev)
  /\ \A s \in Scripts : at[s] = "switch" =>
       relay.origin_main = bare.main /\ relay.origin_dev = bare.dev

RelayStage ==
  /\ at["relay"] \in {"queue", "merge"} =>
       head = "dev" /\ relay.dev = (IF bare.dev = NoRef THEN bare.main ELSE bare.dev)
  /\ at["relay"] = "bare" => bare.dev \subseteq relay.dev /\ bare.main \subseteq relay.dev
  /\ at["relay"] \in {"github", "done"} => relay.dev = bare.dev
  /\ at["relay"] \in {"bare", "github", "done"} => queue[topic] \subseteq relay.dev
  /\ at["relay"] \in {"github", "done"} => relay.dev # NoRef

ReleaseStage ==
  /\ at["release"] \in {"merge", "bare", "github", "sync", "dev", "done"} => bare.dev # NoRef
  /\ at["release"] = "merge" => head = "main" /\ relay.main = bare.main /\ relay.dev = bare.dev
  /\ at["release"] = "bare" => bare.main \subseteq relay.main /\ bare.dev \subseteq relay.main
  /\ at["release"] \in {"github", "sync"} => bare.dev \subseteq bare.main
  /\ at["release"] = "dev" => bare.dev = bare.main
  /\ at["release"] \in {"github", "sync", "dev", "done"} => relay.main = bare.main

Published == Ancestor(reported.dev, github.dev) /\ Ancestor(reported.main, github.main)

PublishInv ==
  /\ OneAtATime /\ TipsAreNew /\ BareRefs /\ GithubRefs /\ RelayRefs
  /\ RelayStage /\ ReleaseStage /\ Published

-----------------------------------------------------------------------------
(* Type correctness *)

\* A release that has started is one of those the bound allows.
ReleaseRoom == at["release"] \in {"fetch", "switch", "merge"} => releases < MaxReleases

\* A set of commits stays one when more commits are made; a new commit is one.
LEMMA CommitGrows ==
  ASSUME commits \in Nat, commits' \in {commits, commits + 1}
  PROVE  /\ \A c \in Commit : c \in Commit'
         /\ commits' = commits + 1 => \A c \in Commit : NewCommit(c) \in Commit'
         /\ \A a, b \in Commit : a \cup b \in Commit
  BY DEF Commit, NewCommit

\* So every variable that a step leaves alone keeps its type.
LEMMA TypesKeep ==
  ASSUME TypeOK, commits' \in {commits, commits + 1}
  PROVE  /\ UNCHANGED github => (github \in Refs)'
         /\ UNCHANGED bare => (bare \in Refs)'
         /\ UNCHANGED relay =>
              (relay \in [main: Commit, dev: Commit, origin_main: Commit, origin_dev: Commit])'
         /\ UNCHANGED queue => (queue \in [Topics -> Commit])'
         /\ UNCHANGED worker => (worker \in [Workers -> [dev: Commit, origin_dev: Commit]])'
         /\ UNCHANGED branch => (branch \in [Topics -> [kind: Kinds, tip: Commit]])'
         /\ UNCHANGED conflicts => (conflicts \subseteq Commit \X Commit)'
         /\ UNCHANGED reported => (reported \in Refs)'
<1>1. \A c \in Commit : c \in Commit' BY CommitGrows DEF TypeOK
<1>2. UNCHANGED github => (github \in Refs)' BY <1>1 DEF TypeOK, Refs
<1>3. UNCHANGED bare => (bare \in Refs)' BY <1>1 DEF TypeOK, Refs
<1>4. UNCHANGED relay =>
        (relay \in [main: Commit, dev: Commit, origin_main: Commit, origin_dev: Commit])'
  BY <1>1 DEF TypeOK
<1>5. UNCHANGED queue => (queue \in [Topics -> Commit])' BY <1>1 DEF TypeOK
<1>6. UNCHANGED worker => (worker \in [Workers -> [dev: Commit, origin_dev: Commit]])'
  BY <1>1 DEF TypeOK
<1>7. UNCHANGED branch => (branch \in [Topics -> [kind: Kinds, tip: Commit]])'
  BY <1>1 DEF TypeOK
<1>8. UNCHANGED conflicts => (conflicts \subseteq Commit \X Commit)' BY <1>1 DEF TypeOK
<1>9. UNCHANGED reported => (reported \in Refs)' BY <1>1 DEF TypeOK, Refs
<1> QED BY <1>2, <1>3, <1>4, <1>5, <1>6, <1>7, <1>8, <1>9

\* The initial states are of the right types.
LEMMA TypeInit == Init => TypeOK
<1> SUFFICES ASSUME Init PROVE TypeOK OBVIOUS
<1>1. commits = 0 /\ {0} \in Commit /\ NoRef \in Commit BY DEF Init, Commit, NoRef
<1>2. github \in Refs /\ bare \in Refs
  <2>1. PICK d \in InitialDevs : github = [main |-> {0}, dev |-> d] BY DEF Init
  <2>2. d \in Commit BY <1>1, RelayAssumption DEF RelayAssumption
  <2> QED BY <1>1, <2>1, <2>2 DEF Init, Refs
<1>3. bare.dev \in Commit BY <1>2 DEF Refs
<1>4. worker \in [Workers -> [dev: Commit, origin_dev: Commit]] BY <1>3 DEF Init
<1>5. Cardinality(conflicts) <= MaxConflicts
  BY FS_EmptySet, RelayAssumption DEF Init, RelayAssumption
<1>6. /\ rebases \in 0 .. MaxRebases /\ stops \in 0 .. MaxStops /\ syncs \in 0 .. MaxSyncs
      /\ releases \in 0 .. MaxReleases
  BY RelayAssumption DEF Init, RelayAssumption
<1>7. relay \in [main: Commit, dev: Commit, origin_main: Commit, origin_dev: Commit]
  BY <1>1 DEF Init
<1>8. /\ queue \in [Topics -> Commit] /\ branch \in [Topics -> [kind: Kinds, tip: Commit]]
      /\ reported \in Refs
  BY <1>1 DEF Init, Refs, Kinds
<1> QED BY <1>1, <1>2, <1>4, <1>5, <1>6, <1>7, <1>8 DEF Init, TypeOK, Scripts

\* The commands of the worker clones.
LEMMA TypeWorker == TypeOK /\ WorkerStep => TypeOK'
<1> SUFFICES ASSUME TypeOK, WorkerStep PROVE TypeOK' OBVIOUS
<1> USE DEF shared, local, bounds, hist
<1>b. bare.main \in Commit /\ bare.dev \in Commit /\ commits \in Nat BY DEF TypeOK, Refs
<1>o. \A t \in Topics : Owner[t] \in Workers BY RelayAssumption DEF RelayAssumption
<1>f. \A w \in Workers : Fetched(w) \in [Workers -> [dev: Commit, origin_dev: Commit]]
  BY <1>b DEF Fetched, TypeOK
<1>1. ASSUME NEW t \in Topics, dg_new_feature(t) PROVE TypeOK'
  <2> DEFINE w == Owner[t]
  <2>1. PICK clone \in {worker, Fetched(w)} :
          LET dev  == IF clone[w].dev # NoRef THEN clone[w].dev ELSE bare.main
              base == IF clone[w].origin_dev # NoRef THEN clone[w].origin_dev ELSE dev
          IN  /\ worker' = IF clone[w].origin_dev # NoRef THEN clone
                           ELSE [clone EXCEPT ![w].dev = dev]
              /\ branch' = [branch EXCEPT ![t] = [kind |-> "feat", tip |-> NewCommit(base)]]
    BY <1>1 DEF dg_new_feature
  <2> DEFINE dev  == IF clone[w].dev # NoRef THEN clone[w].dev ELSE bare.main
             base == IF clone[w].origin_dev # NoRef THEN clone[w].origin_dev ELSE dev
  <2>2. clone \in [Workers -> [dev: Commit, origin_dev: Commit]] /\ w \in Workers
    BY <1>f, <1>o DEF TypeOK
  <2>3. dev \in Commit /\ base \in Commit BY <1>b, <2>2
  <2>4. commits' = commits + 1 BY <1>1 DEF dg_new_feature, Make
  <2>5. NewCommit(base) \in Commit' BY <1>b, <2>3, <2>4, CommitGrows
  <2>6. branch' = [branch EXCEPT ![t] = [kind |-> "feat", tip |-> NewCommit(base)]] BY <2>1
  <2>7. worker' \in [Workers -> [dev: Commit, origin_dev: Commit]] BY <2>1, <2>2, <2>3
  <2> HIDE DEF base, dev, w
  <2>8. \A c \in Commit : c \in Commit' BY <1>b, <2>4, CommitGrows
  <2>9. (branch \in [Topics -> [kind: Kinds, tip: Commit]])'
    BY <2>5, <2>6, <2>8 DEF TypeOK, Kinds
  <2>10. (worker \in [Workers -> [dev: Commit, origin_dev: Commit]])' BY <2>7, <2>8
  <2> QED BY <1>1, <1>b, <2>4, <2>9, <2>10, TypesKeep DEF dg_new_feature, TypeOK
<1>2. ASSUME NEW t \in Topics, dg_new_fix(t) PROVE TypeOK'
  <2> DEFINE w == Owner[t]
  <2>1. commits' = commits + 1 BY <1>2 DEF dg_new_fix, Make
  <2>2. \A c \in Commit : c \in Commit' BY <1>b, <2>1, CommitGrows
  <2>3. worker[w].dev \in Commit BY <1>o DEF TypeOK
  <2>4. NewCommit(worker[w].dev) \in Commit' BY <1>b, <2>1, <2>3, CommitGrows
  <2>5. (branch \in [Topics -> [kind: Kinds, tip: Commit]])'
    BY <1>2, <2>2, <2>4 DEF dg_new_fix, TypeOK, Kinds
  <2>6. worker' \in [Workers -> [dev: Commit, origin_dev: Commit]]
    BY <1>2, <1>f, <1>o DEF dg_new_fix, TypeOK
  <2>7. (worker \in [Workers -> [dev: Commit, origin_dev: Commit]])' BY <2>2, <2>6
  <2> QED BY <1>2, <1>b, <2>1, <2>5, <2>7, TypesKeep DEF dg_new_fix, TypeOK
<1>3. ASSUME NEW t \in Topics, dg_mark_pr(t) PROVE TypeOK'
  <2>1. commits' = commits BY <1>3 DEF dg_mark_pr
  <2>2. Commit' = Commit BY <2>1 DEF Commit
  <2>3. branch' \in [Topics -> [kind: Kinds, tip: Commit]]
    BY <1>3 DEF dg_mark_pr, TypeOK, Kinds
  <2> QED BY <1>3, <2>1, <2>2, <2>3, TypesKeep DEF dg_mark_pr, TypeOK
<1>4. ASSUME NEW t \in Topics, Rebase(t) PROVE TypeOK'
  <2>1. commits' = commits + 1 BY <1>4 DEF Rebase, Make
  <2>2. \A c \in Commit : c \in Commit' BY <1>b, <2>1, CommitGrows
  <2>3. NewCommit(bare.dev) \in Commit' BY <1>b, <2>1, CommitGrows
  <2>4. (branch \in [Topics -> [kind: Kinds, tip: Commit]])'
    BY <1>4, <2>2, <2>3 DEF Rebase, TypeOK, Kinds
  <2>5. (worker \in [Workers -> [dev: Commit, origin_dev: Commit]])'
    BY <1>4, <1>f, <1>o, <2>2 DEF Rebase
  <2>6. rebases' \in 0 .. MaxRebases BY <1>4, RelayAssumption DEF Rebase, TypeOK, RelayAssumption
  <2> QED BY <1>4, <1>b, <2>1, <2>4, <2>5, <2>6, TypesKeep DEF Rebase, TypeOK
<1>5. ASSUME NEW w \in Workers, dg_reap(w) PROVE TypeOK'
  <2>1. commits' = commits BY <1>5 DEF dg_reap
  <2>2. Commit' = Commit BY <2>1 DEF Commit
  <2>3. worker' \in [Workers -> [dev: Commit, origin_dev: Commit]]
    BY <1>5, <1>b DEF dg_reap, TypeOK
  <2>4. branch' \in [Topics -> [kind: Kinds, tip: Commit]]
    BY <1>5 DEF dg_reap, TypeOK, Kinds
  <2> QED BY <1>5, <2>1, <2>2, <2>3, <2>4, TypesKeep DEF dg_reap, TypeOK
<1> QED BY <1>1, <1>2, <1>3, <1>4, <1>5 DEF WorkerStep

\* The steps of the two scripts.
LEMMA TypeRelay ==
  TypeOK /\ ((\E t \in Topics : StartRelay(t)) \/ RelayStep) => TypeOK'
<1> SUFFICES ASSUME TypeOK, (\E t \in Topics : StartRelay(t)) \/ RelayStep PROVE TypeOK'
  OBVIOUS
<1> USE DEF shared, local, wvars, bounds, hist, Step
<1>b. bare.main \in Commit /\ bare.dev \in Commit /\ commits \in Nat BY DEF TypeOK, Refs
<1>r. /\ relay.main \in Commit /\ relay.dev \in Commit /\ relay.origin_main \in Commit
      /\ relay.origin_dev \in Commit
  BY DEF TypeOK
<1>q. topic \in Topics /\ branch[topic].tip \in Commit /\ queue[topic] \in Commit BY DEF TypeOK
<1>n. NoRef \in Commit BY DEF Commit, NoRef
<1>c. commits' = commits => Commit' = Commit BY DEF Commit
<1>s. "relay" \in Scripts BY DEF Scripts
<1>1. ASSUME NEW t \in Topics, StartRelay(t) PROVE TypeOK'
  BY <1>1, <1>c, <1>s, TypesKeep DEF StartRelay, TypeOK
<1>2. CASE RelayFetch
  BY <1>2, <1>b, <1>c, <1>s, TypesKeep DEF RelayFetch, Fetch, TypeOK
<1>3. CASE RelaySwitch
  BY <1>3, <1>c, <1>r, <1>s, TypesKeep DEF RelaySwitch, Forward, TypeOK
<1>4. CASE RelayQueue
  <2>1. UNCHANGED <<shared, relay, head, wvars, topic, commits, bounds, releases>>
    BY <1>4 DEF RelayQueue
  <2>2. queue' \in [Topics -> Commit] BY <1>4, <1>n, <1>q DEF RelayQueue, TypeOK
  <2>3. reported' \in Refs
    <3>1. reported.dev \cup branch[topic].tip \in Commit
      BY <1>b, <1>q, <2>1, CommitGrows DEF TypeOK, Refs
    <3> QED BY <1>4, <3>1 DEF RelayQueue, TypeOK, Refs
  <2>4. /\ at' \in [Scripts -> {"idle", "fetch", "switch", "queue", "merge", "bare", "github",
                               "sync", "dev", "done"}]
        /\ at'["relay"] \in {"idle", "merge"}
    BY <1>4, <1>s DEF RelayQueue, TypeOK
  <2>5. at'["relay"] = "merge" => queue'[topic] # NoRef
    BY <1>4, <1>q, <1>s DEF RelayQueue, TypeOK, Ancestor, NoRef
  <2>6. Commit' = Commit /\ Refs' = Refs BY <1>c, <2>1 DEF Refs
  <2> QED BY <2>1, <2>2, <2>3, <2>4, <2>5, <2>6 DEF TypeOK
<1>5. CASE RelayMerge
  <2> DEFINE pair == <<relay[head], queue[topic]>>
  <2>0. relay[head] \in Commit BY DEF TypeOK
  <2>1. /\ UNCHANGED <<shared, head, wvars, topic, rebases, stops, syncs, hist>>
        /\ at["relay"] = "merge" /\ queue[topic] # NoRef
    BY <1>5 DEF RelayMerge, TypeOK
  <2>2. CASE pair \notin conflicts /\ Merge(queue[topic]) /\ Step("relay", "merge", "bare")
             /\ UNCHANGED <<queue, conflicts>>
    <3>1. commits' \in {commits, commits + 1} BY <2>2 DEF Merge, Make
    <3>2. \A c \in Commit : c \in Commit' BY <1>b, <3>1, CommitGrows
    <3>3. (relay \in [main: Commit, dev: Commit, origin_main: Commit, origin_dev: Commit])'
      <4>1. CASE UNCHANGED relay BY <3>1, <4>1, TypesKeep
      <4>2. CASE commits' = commits + 1 /\
                 relay' = [relay EXCEPT ![head] = NewCommit(@ \cup queue[topic])]
        <5>1. relay[head] \cup queue[topic] \in Commit BY <1>b, <1>q, <2>0, <3>1, CommitGrows
        <5>2. NewCommit(relay[head] \cup queue[topic]) \in Commit'
          BY <1>b, <3>1, <4>2, <5>1, CommitGrows
        <5> QED BY <3>2, <4>2, <5>2 DEF TypeOK
      <4> QED BY <2>2, <4>1, <4>2 DEF Merge, Make
    <3> QED BY <1>s, <2>1, <2>2, <3>1, <3>2, <3>3, TypesKeep DEF TypeOK
  <2>3. CASE RelayConflicts(pair) /\ RelayAbort
    <3>1. commits' = commits /\ relay' = relay BY <2>3 DEF RelayAbort
    <3>2. pair \in Commit \X Commit BY <1>q, <2>0
    <3>3. conflicts' \subseteq Commit \X Commit /\ Cardinality(conflicts') <= MaxConflicts
      BY <2>3, <3>2 DEF RelayConflicts, TypeOK
    <3> QED BY <1>c, <1>n, <1>s, <2>1, <2>3, <3>1, <3>3, TypesKeep DEF RelayAbort, TypeOK
  <2> QED BY <1>5, <2>2, <2>3 DEF RelayMerge
<1>6. CASE RelayPushBare
  BY <1>6, <1>c, <1>r, <1>s, TypesKeep DEF RelayPushBare, PushBare, Pushed, TypeOK, Refs
<1>7. CASE RelayPushGithub
  BY <1>7, <1>b, <1>c, <1>s, TypesKeep DEF RelayPushGithub, PushGithub, Pushed, TypeOK, Refs
<1>8. CASE RelayDone
  <2>1. reported.dev \cup queue[topic] \in Commit
    BY <1>8, <1>b, <1>q, CommitGrows DEF RelayDone, TypeOK, Refs
  <2> QED BY <1>8, <1>c, <1>n, <1>s, <2>1, TypesKeep DEF RelayDone, TypeOK, Refs
<1> QED BY <1>1, <1>2, <1>3, <1>4, <1>5, <1>6, <1>7, <1>8 DEF RelayStep

LEMMA TypeRelease == TypeOK /\ ReleaseRoom /\ (StartRelease \/ ReleaseStep) => TypeOK'
<1> SUFFICES ASSUME TypeOK, ReleaseRoom, StartRelease \/ ReleaseStep PROVE TypeOK' OBVIOUS
<1> USE DEF shared, local, wvars, bounds, hist, Step
<1>b. bare.main \in Commit /\ bare.dev \in Commit /\ commits \in Nat BY DEF TypeOK, Refs
<1>r. /\ relay.main \in Commit /\ relay.dev \in Commit /\ relay.origin_main \in Commit
      /\ relay.origin_dev \in Commit
  BY DEF TypeOK
<1>c. commits' = commits => Commit' = Commit BY DEF Commit
<1>s. "release" \in Scripts /\ "relay" \in Scripts /\ "release" # "relay" BY DEF Scripts
<1>1. CASE StartRelease BY <1>1, <1>c, <1>s, TypesKeep DEF StartRelease, TypeOK
<1>2. CASE ReleaseFetch
  BY <1>2, <1>b, <1>c, <1>s, TypesKeep DEF ReleaseFetch, Fetch, TypeOK
<1>3. CASE ReleaseSwitch
  <2>1. /\ UNCHANGED <<shared, queue, wvars, topic, commits, bounds, releases>>
    BY <1>3 DEF ReleaseSwitch
  <2>2. Forward("main", relay.origin_main) \in Commit /\ Forward("dev", relay.origin_dev) \in Commit
    BY <1>r DEF Forward
  <2>3. relay' \in [main: Commit, dev: Commit, origin_main: Commit, origin_dev: Commit]
    BY <1>3, <2>2 DEF ReleaseSwitch, TypeOK
  <2>4. reported' \in Refs
    <3>1. reported.main \cup Forward("dev", relay.origin_dev) \in Commit
      BY <1>b, <2>1, <2>2, CommitGrows DEF TypeOK, Refs
    <3> QED BY <1>3, <3>1 DEF ReleaseSwitch, TypeOK, Refs
  <2>5. head' \in {"main", "dev"} BY <1>3 DEF ReleaseSwitch
  <2>6. /\ at' \in [Scripts -> {"idle", "fetch", "switch", "queue", "merge", "bare", "github",
                               "sync", "dev", "done"}]
        /\ at'["relay"] = at["relay"]
    BY <1>3, <1>s DEF ReleaseSwitch, TypeOK
  <2>7. Commit' = Commit /\ Refs' = Refs BY <1>c, <2>1 DEF Refs
  <2> QED BY <2>1, <2>3, <2>4, <2>5, <2>6, <2>7 DEF TypeOK
<1>4. CASE ReleaseMerge
  <2>0. relay[head] \in Commit BY DEF TypeOK
  <2>1. commits' \in {commits, commits + 1} BY <1>4 DEF ReleaseMerge, Merge, Make
  <2>2. \A c \in Commit : c \in Commit' BY <1>b, <2>1, CommitGrows
  <2>3. (relay \in [main: Commit, dev: Commit, origin_main: Commit, origin_dev: Commit])'
    <3>1. CASE UNCHANGED relay BY <2>1, <3>1, TypesKeep
    <3>2. CASE commits' = commits + 1 /\
               relay' = [relay EXCEPT ![head] = NewCommit(@ \cup relay.dev)]
      <4>1. relay[head] \cup relay.dev \in Commit BY <1>b, <1>r, <2>0, <2>1, CommitGrows
      <4>2. NewCommit(relay[head] \cup relay.dev) \in Commit'
        BY <1>b, <2>1, <3>2, <4>1, CommitGrows
      <4> QED BY <2>2, <3>2, <4>2 DEF TypeOK
    <3> QED BY <1>4, <3>1, <3>2 DEF ReleaseMerge, Merge, Make
  <2>4. releases' \in 0 .. MaxReleases
    BY <1>4, RelayAssumption DEF ReleaseMerge, ReleaseRoom, TypeOK, RelayAssumption
  <2> QED BY <1>4, <1>s, <2>1, <2>2, <2>3, <2>4, TypesKeep DEF ReleaseMerge, TypeOK
<1>5. CASE ReleasePushBare
  BY <1>5, <1>c, <1>r, <1>s, TypesKeep DEF ReleasePushBare, PushBare, Pushed, TypeOK, Refs
<1>6. CASE ReleasePushGithub \/ ReleasePushDev
  BY <1>6, <1>b, <1>c, <1>s, TypesKeep
  DEF ReleasePushGithub, ReleasePushDev, PushGithub, Pushed, TypeOK, Refs
<1>7. CASE ReleaseUpdateRef
  BY <1>7, <1>b, <1>c, <1>s, TypesKeep DEF ReleaseUpdateRef, TypeOK, Refs
<1>8. CASE ReleaseDone
  <2>1. reported.main \cup relay.main \in Commit
    BY <1>8, <1>b, <1>r, CommitGrows DEF ReleaseDone, TypeOK, Refs
  <2> QED BY <1>8, <1>c, <1>s, <2>1, TypesKeep DEF ReleaseDone, TypeOK, Refs
<1> QED BY <1>1, <1>2, <1>3, <1>4, <1>5, <1>6, <1>7, <1>8 DEF ReleaseStep

\* Every step keeps every type.
LEMMA TypeNext == TypeOK /\ ReleaseRoom /\ [Next]_vars => TypeOK'
<1> SUFFICES ASSUME TypeOK, ReleaseRoom, [Next]_vars PROVE TypeOK' OBVIOUS
<1> USE DEF shared, local, wvars, bounds, hist
<1>c. commits' = commits => Commit' = Commit BY DEF Commit
<1>1. CASE SyncBare
  <2>1. syncs' \in 0 .. MaxSyncs BY <1>1, RelayAssumption DEF SyncBare, TypeOK, RelayAssumption
  <2> QED BY <1>1, <1>c, <2>1, TypesKeep DEF SyncBare, TypeOK
<1>2. ASSUME NEW s \in Scripts, Stop(s) PROVE TypeOK'
  <2>1. stops' \in 0 .. MaxStops BY <1>2, RelayAssumption DEF Stop, TypeOK, RelayAssumption
  <2> QED BY <1>2, <1>c, <2>1, TypesKeep DEF Stop, TypeOK
<1>3. CASE UNCHANGED vars BY <1>3, <1>c DEF vars, TypeOK, Refs
<1> QED BY <1>1, <1>2, <1>3, TypeWorker, TypeRelay, TypeRelease DEF Next

LEMMA RoomNext == TypeOK /\ ReleaseRoom /\ [Next]_vars => ReleaseRoom'
<1> SUFFICES ASSUME TypeOK, ReleaseRoom, [Next]_vars PROVE ReleaseRoom' OBVIOUS
<1> USE DEF shared, local, wvars, bounds, hist, Step, ReleaseRoom
<1>a. "release" \in Scripts /\ "relay" \in Scripts /\ "release" # "relay" BY DEF Scripts
<1>b. DOMAIN at = Scripts BY DEF TypeOK
<1>1. CASE WorkerStep \/ SyncBare \/ UNCHANGED vars
  BY <1>1 DEF WorkerStep, dg_new_feature, dg_new_fix, dg_mark_pr, Rebase, dg_reap, SyncBare, vars
<1>2. CASE (\E t \in Topics : StartRelay(t)) \/ RelayStep
  BY <1>2, <1>a, <1>b DEF StartRelay, RelayStep, RelayFetch, Fetch, RelaySwitch, RelayQueue, RelayMerge,
     RelayAbort, RelayPushBare, PushBare, RelayPushGithub, PushGithub, RelayDone
<1>3. CASE StartRelease \/ ReleaseStep
  BY <1>3, <1>a, <1>b DEF StartRelease, ReleaseStep, ReleaseFetch, Fetch, ReleaseSwitch, ReleaseMerge,
     ReleasePushBare, PushBare, ReleasePushGithub, ReleasePushDev, PushGithub, ReleaseUpdateRef,
     ReleaseDone
<1>4. CASE \E s \in Scripts : Stop(s) BY <1>4, <1>a, <1>b DEF Stop
<1> QED BY <1>1, <1>2, <1>3, <1>4 DEF Next

\* Every variable keeps its type.
THEOREM TypeCorrect == Spec => []TypeOK
<1>1. Init => TypeOK /\ ReleaseRoom BY TypeInit DEF Init, ReleaseRoom, Scripts
<1>2. TypeOK /\ ReleaseRoom /\ [Next]_vars => (TypeOK /\ ReleaseRoom)' BY TypeNext, RoomNext
<1> QED BY <1>1, <1>2, PTL DEF Spec

-----------------------------------------------------------------------------
(* What dg-reap deletes is kept *)

\* The scripts move dev and main of the relay checkout forward only.
LocalGrows == relay.dev \subseteq relay'.dev /\ relay.main \subseteq relay'.main

\* The steps that leave the branches of the workers alone.
LEMMA Untouched ==
  ASSUME [Next]_vars
  PROVE  WorkerStep \/ UNCHANGED branch
<1> USE DEF shared, local, wvars, bounds, hist
<1>1. CASE (\E t \in Topics : StartRelay(t)) \/ RelayStep
  BY <1>1 DEF StartRelay, RelayStep, RelayFetch, Fetch, RelaySwitch, RelayQueue, RelayMerge,
     RelayPushBare, PushBare, RelayPushGithub, PushGithub, RelayDone
<1>2. CASE StartRelease \/ ReleaseStep
  BY <1>2 DEF StartRelease, ReleaseStep, ReleaseFetch, Fetch, ReleaseSwitch, ReleaseMerge,
     ReleasePushBare, PushBare, ReleasePushGithub, ReleasePushDev, PushGithub, ReleaseUpdateRef,
     ReleaseDone
<1>3. CASE SyncBare \/ (\E s \in Scripts : Stop(s)) \/ UNCHANGED vars
  BY <1>3 DEF SyncBare, Stop, vars
<1> QED BY <1>1, <1>2, <1>3 DEF Next

\* And what the worker commands leave alone.
LEMMA WorkerQuiet == ASSUME WorkerStep PROVE UNCHANGED <<shared, local, at, topic, hist>>
  BY DEF WorkerStep, dg_new_feature, dg_new_fix, dg_mark_pr, Rebase, dg_reap

\* A commit made now is none of the empty repository's.
LEMMA NewIsNew == ASSUME commits \in Nat, NEW c PROVE ~(NewCommit(c) \subseteq {0})
  BY DEF NewCommit

LEMMA TipsNext == TypeOK /\ TipsAreNew /\ [Next]_vars => TipsAreNew'
<1> SUFFICES ASSUME TypeOK, TipsAreNew, [Next]_vars PROVE TipsAreNew' OBVIOUS
<1>c. commits \in Nat BY DEF TypeOK
<1>1. ASSUME NEW t \in Topics, dg_new_feature(t) \/ dg_new_fix(t) \/ Rebase(t) PROVE TipsAreNew'
  <2>1. PICK c : \/ branch' = [branch EXCEPT ![t] = [kind |-> "feat", tip |-> NewCommit(c)]]
                 \/ branch' = [branch EXCEPT ![t] = [kind |-> "again", tip |-> NewCommit(c)]]
    BY <1>1 DEF dg_new_feature, dg_new_fix, Rebase
  <2>2. ~(NewCommit(c) \subseteq {0}) BY <1>c, NewIsNew
  <2>3. branch \in [Topics -> [kind: Kinds, tip: Commit]] BY DEF TypeOK
  <2> HIDE DEF NewCommit
  <2> QED BY <2>1, <2>2, <2>3 DEF TipsAreNew
<1>2. ASSUME NEW t \in Topics, dg_mark_pr(t) PROVE TipsAreNew'
  BY <1>2 DEF dg_mark_pr, TipsAreNew, TypeOK
<1>3. ASSUME NEW w \in Workers, dg_reap(w) PROVE TipsAreNew'
  BY <1>3 DEF dg_reap, TipsAreNew, TypeOK
<1>4. CASE UNCHANGED branch BY <1>4 DEF TipsAreNew
<1> QED BY <1>1, <1>2, <1>3, <1>4, Untouched DEF WorkerStep

\* Once the relay checkout has a commit it keeps it.
LEMMA LocalNext == TypeOK /\ [Next]_vars => LocalGrows
<1> SUFFICES ASSUME TypeOK, [Next]_vars PROVE LocalGrows OBVIOUS
<1> USE DEF shared, local, wvars, bounds, hist, LocalGrows, Ancestor
<1>t. relay \in [main: Commit, dev: Commit, origin_main: Commit, origin_dev: Commit]
        /\ head \in {"main", "dev"}
  BY DEF TypeOK
<1>1. CASE WorkerStep BY <1>1, WorkerQuiet
<1>2. CASE RelayFetch \/ ReleaseFetch
  BY <1>2, <1>t DEF RelayFetch, ReleaseFetch, Fetch, NoRef
<1>3. CASE RelaySwitch BY <1>3, <1>t DEF RelaySwitch, Forward, NoRef
<1>4. CASE ReleaseSwitch BY <1>4, <1>t DEF ReleaseSwitch, Forward
<1>5. ASSUME NEW tip, Merge(tip) PROVE LocalGrows
  <2>1. CASE UNCHANGED relay BY <2>1
  <2>2. CASE relay' = [relay EXCEPT ![head] = NewCommit(@ \cup tip)]
    <3>1. relay[head] \subseteq NewCommit(relay[head] \cup tip) BY DEF NewCommit
    <3>2. /\ head = "dev" => relay'.dev = NewCommit(relay[head] \cup tip) /\ relay'.main = relay.main
          /\ head = "main" => relay'.main = NewCommit(relay[head] \cup tip) /\ relay'.dev = relay.dev
      BY <1>t, <2>2
    <3> QED BY <1>t, <3>1, <3>2
  <2> QED BY <1>5, <2>1, <2>2 DEF Merge
<1>6. CASE RelayMerge BY <1>5, <1>6 DEF RelayMerge, RelayAbort
<1>7. CASE ReleaseMerge BY <1>5, <1>7 DEF ReleaseMerge
<1>8. CASE (\E t \in Topics : StartRelay(t)) \/ StartRelease \/ RelayQueue \/ RelayPushBare
           \/ RelayPushGithub \/ RelayDone
  BY <1>8 DEF StartRelay, StartRelease, RelayQueue, RelayPushBare, PushBare, RelayPushGithub,
     PushGithub, RelayDone
<1>9. CASE ReleasePushBare \/ ReleasePushGithub \/ ReleasePushDev \/ ReleaseUpdateRef \/ ReleaseDone
  BY <1>9 DEF ReleasePushBare, PushBare, ReleasePushGithub, ReleasePushDev, PushGithub,
     ReleaseUpdateRef, ReleaseDone
<1>10. CASE SyncBare \/ (\E s \in Scripts : Stop(s)) \/ UNCHANGED vars
  BY <1>10 DEF SyncBare, Stop, vars
<1> QED
  BY <1>1, <1>2, <1>3, <1>4, <1>6, <1>7, <1>8, <1>9, <1>10 DEF Next, RelayStep, ReleaseStep

\* Every commit that reaches a shared repository comes out of the relay checkout.
LEMMA KnownNext == TypeOK /\ KnownInv /\ [Next]_vars => KnownInv'
<1> SUFFICES ASSUME TypeOK, KnownInv, [Next]_vars PROVE KnownInv' OBVIOUS
<1> USE DEF shared, local, wvars, bounds, hist
<1>g. relay.dev \subseteq relay'.dev /\ relay.main \subseteq relay'.main
  BY LocalNext DEF LocalGrows
<1>t. /\ relay \in [main: Commit, dev: Commit, origin_main: Commit, origin_dev: Commit]
      /\ bare \in Refs /\ github \in Refs
  BY DEF TypeOK
<1>k. \A c : Known(c) => \/ c \subseteq {0} \/ c \subseteq relay'.dev \/ c \subseteq relay'.main
  BY <1>g DEF Known
<1>1. SUFFICES /\ Known(github'.main) /\ Known(github'.dev)
               /\ Known(bare'.main) /\ Known(bare'.dev)
               /\ Known(relay'.origin_main) /\ Known(relay'.origin_dev)
  BY <1>k DEF KnownInv, Known
<1>2. CASE UNCHANGED <<github, bare>> /\ relay'.origin_main = relay.origin_main
             /\ relay'.origin_dev = relay.origin_dev
  BY <1>2 DEF KnownInv
<1>3. CASE RelayFetch \/ ReleaseFetch
  BY <1>3, <1>t DEF RelayFetch, ReleaseFetch, Fetch, KnownInv
<1>4. CASE RelayPushBare \/ ReleasePushBare
  <2>1. Known(relay.dev) /\ Known(relay.main) BY DEF Known
  <2> QED BY <1>4, <1>t, <2>1 DEF RelayPushBare, ReleasePushBare, PushBare, Pushed, KnownInv, Refs
<1>5. CASE RelayPushGithub \/ ReleasePushGithub \/ ReleasePushDev
  BY <1>5, <1>t DEF RelayPushGithub, ReleasePushGithub, ReleasePushDev, PushGithub, Pushed,
     KnownInv, Refs
<1>6. CASE ReleaseUpdateRef BY <1>6, <1>t DEF ReleaseUpdateRef, KnownInv, Refs
<1>7. CASE SyncBare BY <1>7 DEF SyncBare, KnownInv
<1>8. CASE WorkerStep BY <1>2, <1>8, WorkerQuiet
<1>9. CASE RelaySwitch \/ ReleaseSwitch
  BY <1>2, <1>9, <1>t DEF RelaySwitch, ReleaseSwitch
<1>10. ASSUME NEW tip, Merge(tip)
       PROVE  relay'.origin_main = relay.origin_main /\ relay'.origin_dev = relay.origin_dev
  <2>1. head \in {"main", "dev"} BY DEF TypeOK
  <2> QED BY <1>10, <1>t, <2>1 DEF Merge
<1>11. CASE RelayMerge \/ ReleaseMerge
  BY <1>2, <1>10, <1>11 DEF RelayMerge, RelayAbort, ReleaseMerge
<1>12. CASE (\E t \in Topics : StartRelay(t)) \/ StartRelease \/ RelayQueue \/ RelayDone
            \/ ReleaseDone \/ (\E s \in Scripts : Stop(s)) \/ UNCHANGED vars
  BY <1>2, <1>12 DEF StartRelay, StartRelease, RelayQueue, RelayDone, ReleaseDone, Stop, vars
<1> QED
  BY <1>3, <1>4, <1>5, <1>6, <1>7, <1>8, <1>9, <1>11, <1>12 DEF Next, RelayStep, ReleaseStep

\* A branch is only reaped when the bare's dev has it, and so the checkout.
LEMMA KeptNext == TypeOK /\ KeptInv /\ [Next]_vars => KeptInv'
<1> SUFFICES ASSUME TypeOK, KeptInv, [Next]_vars PROVE ReapedIsKept'
  BY TipsNext, KnownNext DEF KeptInv
<1>g. relay.dev \subseteq relay'.dev /\ relay.main \subseteq relay'.main
  BY LocalNext DEF LocalGrows
<1>k. ReapedIsKept /\ TipsAreNew /\ Known(bare.dev) BY DEF KeptInv, KnownInv
<1>b. branch \in [Topics -> [kind: Kinds, tip: Commit]] BY DEF TypeOK
<1>1. \A t \in Topics : branch'[t].kind = "reaped" =>
        /\ branch'[t].tip = branch[t].tip
        /\ branch[t].kind = "reaped" \/ (branch[t].kind = "pr" /\ branch[t].tip \subseteq bare.dev)
  <2>1. ASSUME NEW t \in Topics, dg_new_feature(t) \/ dg_new_fix(t)
        PROVE  \E c : branch' = [branch EXCEPT ![t] = [kind |-> "feat", tip |-> c]]
    BY <2>1 DEF dg_new_feature, dg_new_fix
  <2>2. CASE \E t \in Topics : dg_new_feature(t) \/ dg_new_fix(t)
    BY <1>b, <2>1, <2>2
  <2>3. CASE \E t \in Topics : dg_mark_pr(t) BY <1>b, <2>3 DEF dg_mark_pr
  <2>4. ASSUME NEW t \in Topics, Rebase(t)
        PROVE  \E c : branch' = [branch EXCEPT ![t] = [kind |-> "again", tip |-> c]]
    BY <2>4 DEF Rebase
  <2>5. CASE \E t \in Topics : Rebase(t) BY <1>b, <2>4, <2>5
  <2>6. CASE \E w \in Workers : dg_reap(w) BY <1>b, <2>6 DEF dg_reap, Ancestor
  <2>7. CASE UNCHANGED branch BY <2>7
  <2> QED BY <2>2, <2>3, <2>5, <2>6, <2>7, Untouched DEF WorkerStep
<1>2. ASSUME NEW t \in Topics, branch'[t].kind = "reaped"
      PROVE  branch'[t].tip \subseteq relay'.dev \/ branch'[t].tip \subseteq relay'.main
  <2>1. branch'[t].tip = branch[t].tip BY <1>1, <1>2
  <2>2. CASE branch[t].kind = "reaped"
    BY <1>g, <1>k, <2>1, <2>2 DEF ReapedIsKept, Ancestor
  <2>3. CASE branch[t].kind = "pr" /\ branch[t].tip \subseteq bare.dev
    <3>1. ~(branch[t].tip \subseteq {0}) BY <1>k, <2>3 DEF TipsAreNew
    <3> QED BY <1>g, <1>k, <2>1, <2>3, <3>1 DEF Known
  <2> QED BY <1>1, <1>2, <2>2, <2>3
<1> QED BY <1>2 DEF ReapedIsKept, Ancestor

\* No interruption, overlap or reset of the bare repository, no number of them,
\* loses the only copy of a branch that dg-reap deleted.
THEOREM ReapedCorrect == Spec => []ReapedIsKept
<1>1. Init => KeptInv
  <2> SUFFICES ASSUME Init PROVE KeptInv OBVIOUS
  <2>1. PICK d \in InitialDevs : github = [main |-> {0}, dev |-> d] BY DEF Init
  <2>2. d \subseteq {0} BY RelayAssumption DEF RelayAssumption, NoRef
  <2>3. KnownInv BY <2>1, <2>2 DEF Init, KnownInv, Known, NoRef
  <2>4. TipsAreNew /\ ReapedIsKept BY DEF Init, TipsAreNew, ReapedIsKept
  <2> QED BY <2>3, <2>4 DEF KeptInv
<1>2. TypeOK /\ KeptInv /\ [Next]_vars => KeptInv' BY KeptNext
<1>3. KeptInv => ReapedIsKept BY DEF KeptInv
<1> QED BY <1>1, <1>2, <1>3, TypeCorrect, PTL DEF Spec

-----------------------------------------------------------------------------
(* dev of the bare repository only moves forward *)

\* Which steps change the bare repository, and how.
LEMMA BareSteps ==
  ASSUME TypeOK, [Next]_vars
  PROVE  \/ UNCHANGED bare
         \/ RelayPushBare /\ bare'.main = bare.main /\ bare.dev \subseteq bare'.dev
         \/ ReleasePushBare /\ bare'.dev = bare.dev /\ bare.main \subseteq bare'.main
         \/ ReleaseUpdateRef /\ bare'.main = bare.main /\ bare'.dev = bare.main
         \/ SyncBare
<1> USE DEF shared, local, wvars, bounds, hist
<1>t. bare \in Refs BY DEF TypeOK
<1>1. CASE WorkerStep BY <1>1, WorkerQuiet
<1>2. CASE (\E t \in Topics : StartRelay(t)) \/ RelayFetch \/ RelaySwitch \/ RelayQueue \/ RelayMerge
           \/ RelayPushGithub \/ RelayDone
  BY <1>2 DEF StartRelay, RelayFetch, Fetch, RelaySwitch, RelayQueue, RelayMerge, RelayPushGithub,
     PushGithub, RelayDone
<1>3. CASE StartRelease \/ ReleaseFetch \/ ReleaseSwitch \/ ReleaseMerge \/ ReleasePushGithub
           \/ ReleasePushDev \/ ReleaseDone
  BY <1>3 DEF StartRelease, ReleaseFetch, Fetch, ReleaseSwitch, ReleaseMerge, ReleasePushGithub,
     ReleasePushDev, PushGithub, ReleaseDone
<1>4. CASE RelayPushBare
  BY <1>4, <1>t DEF RelayPushBare, PushBare, Pushed, Refused, Ancestor, Refs
<1>5. CASE ReleasePushBare
  BY <1>5, <1>t DEF ReleasePushBare, PushBare, Pushed, Refused, Ancestor, Refs
<1>6. CASE ReleaseUpdateRef BY <1>6, <1>t DEF ReleaseUpdateRef, Refs
<1>7. CASE SyncBare \/ (\E s \in Scripts : Stop(s)) \/ UNCHANGED vars
  BY <1>7 DEF Stop, vars
<1> QED BY <1>1, <1>2, <1>3, <1>4, <1>5, <1>6, <1>7 DEF Next, RelayStep, ReleaseStep

\* The scripts take turns.
LEMMA TurnsNext ==
  ASSUME ~Overlap
  PROVE  TypeOK /\ OneAtATime /\ [Next]_vars => OneAtATime'
<1> SUFFICES ASSUME TypeOK, OneAtATime, [Next]_vars PROVE OneAtATime' OBVIOUS
<1> USE DEF shared, local, wvars, bounds, hist, Step
<1>a. DOMAIN at = Scripts /\ Scripts = {"relay", "release"} BY DEF TypeOK, Scripts
<1>o. at["relay"] = "idle" \/ at["release"] = "idle" BY <1>a DEF OneAtATime
<1>1. SUFFICES at'["relay"] = "idle" \/ at'["release"] = "idle" BY <1>a DEF OneAtATime
<1>2. CASE UNCHANGED at BY <1>o, <1>2
<1>3. CASE (\E t \in Topics : StartRelay(t)) \/ StartRelease
  BY <1>3, <1>a DEF StartRelay, StartRelease, MayStart
<1>4. CASE RelayStep
  <2>1. at["relay"] # "idle" /\ at'["release"] = at["release"]
    BY <1>4, <1>a DEF RelayStep, RelayFetch, Fetch, RelaySwitch, RelayQueue, RelayMerge, RelayAbort,
       RelayPushBare, PushBare, RelayPushGithub, PushGithub, RelayDone
  <2> QED BY <1>o, <2>1
<1>5. CASE ReleaseStep
  <2>1. at["release"] # "idle" /\ at'["relay"] = at["relay"]
    BY <1>5, <1>a DEF ReleaseStep, ReleaseFetch, Fetch, ReleaseSwitch, ReleaseMerge, ReleasePushBare,
       PushBare, ReleasePushGithub, ReleasePushDev, PushGithub, ReleaseUpdateRef, ReleaseDone
  <2> QED BY <1>o, <2>1
<1>6. CASE WorkerStep BY <1>2, <1>6, WorkerQuiet
<1>7. CASE SyncBare \/ UNCHANGED vars BY <1>2, <1>7 DEF SyncBare, vars
<1>8. CASE \E s \in Scripts : Stop(s) BY <1>8, <1>a, <1>o DEF Stop
<1> QED BY <1>3, <1>4, <1>5, <1>6, <1>7, <1>8 DEF Next

\* What the steps of dg-release establish, one by one, also when it stops.
LEMMA HoldsNext ==
  ASSUME ~Overlap, MaxSyncs = 0
  PROVE  TypeOK /\ ForwardInv /\ [Next]_vars => ReleaseHolds'
<1> SUFFICES ASSUME TypeOK, ForwardInv, [Next]_vars PROVE ReleaseHolds' OBVIOUS
<1> USE DEF shared, local, wvars, bounds, hist, Step
<1>a. DOMAIN at = Scripts /\ Scripts = {"relay", "release"} BY DEF TypeOK, Scripts
<1>o. at["relay"] = "idle" \/ at["release"] = "idle" BY <1>a DEF ForwardInv, OneAtATime
<1>h. ReleaseHolds BY DEF ForwardInv
<1>t. /\ relay \in [main: Commit, dev: Commit, origin_main: Commit, origin_dev: Commit]
      /\ bare \in Refs
  BY DEF TypeOK
<1>1. CASE UNCHANGED <<bare, relay, head>> /\ at'["release"] \in {"idle", "fetch", at["release"]}
  BY <1>1, <1>h DEF ReleaseHolds
<1>2. CASE WorkerStep BY <1>1, <1>2, WorkerQuiet
<1>3. CASE \E t \in Topics : StartRelay(t) BY <1>1, <1>3, <1>a DEF StartRelay
<1>4. CASE StartRelease BY <1>1, <1>4, <1>a DEF StartRelease
<1>5. CASE RelayStep
  <2>1. at["relay"] # "idle" /\ at'["release"] = at["release"]
    BY <1>5, <1>a DEF RelayStep, RelayFetch, Fetch, RelaySwitch, RelayQueue, RelayMerge, RelayAbort,
       RelayPushBare, PushBare, RelayPushGithub, PushGithub, RelayDone
  <2>2. at'["release"] = "idle" BY <1>o, <2>1
  <2> QED BY <2>2 DEF ReleaseHolds
<1>6. CASE ReleaseFetch BY <1>6, <1>a, <1>t DEF ReleaseFetch, Fetch, ReleaseHolds
<1>7. CASE ReleaseSwitch
  <2>1. relay.origin_dev = bare.dev /\ bare' = bare
    BY <1>7, <1>h DEF ReleaseSwitch, ReleaseHolds
  <2>2. at'["release"] \in {"idle", "merge"} BY <1>7, <1>a DEF ReleaseSwitch
  <2>3. at'["release"] = "merge" => head' = "main" /\ bare.dev \subseteq relay'.dev
    BY <1>7, <1>a, <1>t, <2>1 DEF ReleaseSwitch, Forward, CanForward, Ancestor
  <2> QED BY <2>1, <2>2, <2>3 DEF ReleaseHolds
<1>8. CASE ReleaseMerge
  <2>1. at["release"] = "merge" /\ at'["release"] = "bare" /\ bare' = bare
    BY <1>8, <1>a DEF ReleaseMerge
  <2>2. head = "main" /\ bare.dev \subseteq relay.dev BY <1>h, <2>1 DEF ReleaseHolds
  <2>3. relay.dev \subseteq relay'.main
    BY <1>8, <1>t, <2>2 DEF ReleaseMerge, Merge, Ancestor, NewCommit
  <2> QED BY <2>1, <2>2, <2>3 DEF ReleaseHolds
<1>9. CASE ReleasePushBare
  <2>1. bare.dev \subseteq relay.main BY <1>9, <1>h DEF ReleasePushBare, PushBare, ReleaseHolds
  <2>2. /\ at'["release"] \in {"idle", "github"}
        /\ at'["release"] = "github" => bare'.main = relay.main /\ bare'.dev = bare.dev
    BY <1>9, <1>a, <1>t DEF ReleasePushBare, PushBare, Pushed, Refs
  <2> QED BY <2>1, <2>2 DEF ReleaseHolds
<1>10. CASE ReleasePushGithub
  <2>1. /\ at["release"] = "github" /\ at'["release"] \in {"idle", "sync"}
        /\ UNCHANGED bare
    BY <1>10, <1>a DEF ReleasePushGithub, PushGithub
  <2> QED BY <1>h, <2>1 DEF ReleaseHolds
<1>11. CASE ReleaseUpdateRef \/ ReleasePushDev \/ ReleaseDone
  <2>1. at'["release"] \in {"idle", "dev", "done"}
    BY <1>11, <1>a DEF ReleaseUpdateRef, ReleasePushDev, PushGithub, ReleaseDone
  <2> QED BY <2>1 DEF ReleaseHolds
<1>12. CASE \E s \in Scripts : Stop(s) BY <1>1, <1>12, <1>a DEF Stop
<1>13. CASE UNCHANGED vars BY <1>1, <1>13 DEF vars
<1>14. ~SyncBare BY DEF SyncBare, TypeOK
<1> QED
  BY <1>2, <1>3, <1>4, <1>5, <1>6, <1>7, <1>8, <1>9, <1>10, <1>11, <1>12, <1>13, <1>14
  DEF Next, ReleaseStep

\* As long as the scripts take turns and nobody resets the bare repository from
\* GitHub, update-ref is a fast-forward, however often scripts stop half way.
THEOREM BareDevCorrect ==
  ASSUME ~Overlap, MaxSyncs = 0
  PROVE  Spec => BareDevGrows
<1>1. Init => ForwardInv BY DEF Init, ForwardInv, OneAtATime, ReleaseHolds, Scripts
<1>2. TypeOK /\ ForwardInv /\ [Next]_vars => ForwardInv'
  BY TurnsNext, HoldsNext DEF ForwardInv
<1>3. TypeOK /\ ForwardInv /\ [Next]_vars => Ancestor(bare.dev, bare.dev')
  <2> SUFFICES ASSUME TypeOK, ForwardInv, [Next]_vars PROVE bare.dev \subseteq bare'.dev
    BY DEF Ancestor
  <2>1. ~SyncBare BY DEF SyncBare, TypeOK
  <2>2. CASE ReleaseUpdateRef /\ bare'.dev = bare.main
    BY <2>2 DEF ReleaseUpdateRef, Step, ForwardInv, ReleaseHolds
  <2> QED BY <2>1, <2>2, BareSteps
<1>4. [](TypeOK /\ ForwardInv) /\ [][Next]_vars => [][Ancestor(bare.dev, bare.dev')]_vars
  BY <1>3, PTL
<1> QED BY <1>1, <1>2, <1>4, TypeCorrect, PTL DEF Spec, BareDevGrows

-----------------------------------------------------------------------------
(* Scripts that run to their end publish what they report *)

\* The parts of the invariant that speak about the refs.
StageInv == BareRefs /\ GithubRefs /\ RelayRefs /\ RelayStage /\ ReleaseStage /\ Published

\* Steps of dg-relay, with dg-release out of the way.
LEMMA StageRelay ==
  ASSUME TypeOK, PublishInv, RelayStep
  PROVE  StageInv'
<1> USE DEF shared, local, wvars, bounds, hist, Step
<1>a. DOMAIN at = Scripts /\ Scripts = {"relay", "release"} BY DEF TypeOK, Scripts
<1>o. at["relay"] # "idle" /\ at["release"] = "idle" /\ at'["release"] = "idle"
  <2>1. at["relay"] # "idle" /\ at'["release"] = at["release"]
    BY <1>a DEF RelayStep, RelayFetch, Fetch, RelaySwitch, RelayQueue, RelayMerge, RelayAbort,
       RelayPushBare, PushBare, RelayPushGithub, PushGithub, RelayDone
  <2> QED BY <1>a, <2>1 DEF PublishInv, OneAtATime
<1>i. BareRefs /\ GithubRefs /\ RelayRefs /\ RelayStage /\ Published /\ TipsAreNew
  BY DEF PublishInv
<1>t. /\ relay \in [main: Commit, dev: Commit, origin_main: Commit, origin_dev: Commit]
      /\ bare \in Refs /\ github \in Refs /\ reported \in Refs
      /\ queue \in [Topics -> Commit] /\ topic \in Topics
  BY DEF TypeOK
<1>r. ReleaseStage' BY <1>o DEF ReleaseStage
<1>1. CASE RelayFetch
  <2>1. /\ UNCHANGED <<shared, head, queue, topic, reported>> /\ at'["relay"] = "switch"
        /\ at["relay"] = "fetch"
        /\ relay'.origin_main = bare.main /\ relay'.origin_dev = bare.dev /\ relay'.dev = relay.dev
        /\ relay'.main \in {relay.main, bare.main}
    BY <1>1, <1>a, <1>t DEF RelayFetch, Fetch
  <2>2. BareRefs' /\ GithubRefs' /\ Published'
    BY <1>i, <1>o, <2>1 DEF BareRefs, GithubRefs, Published
  <2>3. RelayRefs' BY <1>a, <1>i, <1>o, <2>1 DEF RelayRefs
  <2>4. RelayStage' BY <2>1 DEF RelayStage
  <2> QED BY <1>r, <2>2, <2>3, <2>4 DEF StageInv
<1>2. CASE RelaySwitch
  <2>0. relay.origin_main = bare.main /\ relay.origin_dev = bare.dev
    BY <1>2, <1>a, <1>i DEF RelaySwitch, RelayRefs
  <2>1. /\ UNCHANGED <<shared, queue, topic, reported>> /\ at["relay"] = "switch"
        /\ relay'.main = relay.main
        /\ \/ /\ at'["relay"] = "idle" /\ relay'.dev = relay.dev
           \/ /\ at'["relay"] = "queue" /\ head' = "dev"
              /\ relay'.dev = (IF bare.dev = NoRef THEN bare.main ELSE bare.dev)
    BY <1>2, <1>a, <1>i, <1>t, <2>0 DEF RelaySwitch, Forward, CanForward, Ancestor, RelayRefs
  <2>2. BareRefs' /\ GithubRefs' /\ Published'
    BY <1>i, <1>o, <2>1 DEF BareRefs, GithubRefs, Published
  <2>3. RelayRefs' BY <1>a, <1>i, <1>o, <2>1 DEF RelayRefs
  <2>4. RelayStage' BY <2>1 DEF RelayStage
  <2> QED BY <1>r, <2>2, <2>3, <2>4 DEF StageInv
<1>3. CASE RelayQueue
  <2>1. /\ UNCHANGED <<shared, relay, head, topic>> /\ at["relay"] = "queue"
        /\ at'["relay"] \in {"idle", "merge"}
        /\ \/ UNCHANGED reported
           \/ /\ branch[topic].kind = "pr" /\ branch[topic].tip \subseteq relay.dev
              /\ reported' = [reported EXCEPT !.dev = @ \cup branch[topic].tip]
    BY <1>3, <1>a DEF RelayQueue, Ancestor
  <2>2. head = "dev" /\ relay.dev = (IF bare.dev = NoRef THEN bare.main ELSE bare.dev)
    BY <1>i, <2>1 DEF RelayStage
  <2>3. BareRefs' /\ GithubRefs' BY <1>i, <1>o, <2>1 DEF BareRefs, GithubRefs
  <2>4. Published'
    <3>1. CASE UNCHANGED reported BY <1>i, <2>1, <3>1 DEF Published
    <3>2. CASE /\ branch[topic].kind = "pr" /\ branch[topic].tip \subseteq relay.dev
               /\ reported' = [reported EXCEPT !.dev = @ \cup branch[topic].tip]
      <4>1. ~(branch[topic].tip \subseteq {0}) BY <1>i, <1>t, <3>2 DEF TipsAreNew
      <4>2. bare.dev # NoRef BY <1>i, <2>2, <3>2, <4>1 DEF BareRefs
      <4>3. github.dev = bare.dev BY <1>i, <1>o, <2>1 DEF GithubRefs
      <4> QED BY <1>i, <1>t, <2>1, <2>2, <3>2, <4>2, <4>3 DEF Published, Ancestor, Refs
    <3> QED BY <2>1, <3>1, <3>2
  <2>5. RelayRefs' BY <1>a, <1>i, <1>o, <2>1 DEF RelayRefs
  <2>6. RelayStage' BY <2>1, <2>2 DEF RelayStage
  <2> QED BY <1>r, <2>3, <2>4, <2>5, <2>6 DEF StageInv
<1>4. CASE RelayMerge
  <2>0. /\ UNCHANGED <<shared, head, topic, reported>> /\ at["relay"] = "merge"
    BY <1>4 DEF RelayMerge
  <2>1. head = "dev" /\ relay.dev = (IF bare.dev = NoRef THEN bare.main ELSE bare.dev)
    BY <1>i, <2>0 DEF RelayStage
  <2>2. /\ relay'.main = relay.main
        /\ \/ at'["relay"] = "idle" /\ relay'.dev = relay.dev
           \/ /\ at'["relay"] = "bare" /\ queue' = queue
              /\ relay.dev \subseteq relay'.dev /\ queue[topic] \subseteq relay'.dev
    <3>1. CASE RelayAbort BY <1>a, <3>1 DEF RelayAbort
    <3>2. CASE Merge(queue[topic]) /\ Step("relay", "merge", "bare") /\ UNCHANGED queue
      <4>1. CASE queue[topic] \subseteq relay.dev /\ UNCHANGED relay BY <1>a, <3>2, <4>1
      <4>2. CASE relay' = [relay EXCEPT !["dev"] = NewCommit(@ \cup queue[topic])]
        <5>1. relay'.dev = NewCommit(relay.dev \cup queue[topic]) /\ relay'.main = relay.main
          BY <1>t, <4>2
        <5> QED BY <1>a, <3>2, <5>1 DEF NewCommit
      <4> QED BY <2>1, <3>2, <4>1, <4>2 DEF Merge, Ancestor
    <3> QED BY <1>4, <3>1, <3>2 DEF RelayMerge
  <2>3. BareRefs' /\ GithubRefs' /\ Published'
    BY <1>i, <1>o, <2>0, <2>2 DEF BareRefs, GithubRefs, Published
  <2>4. RelayRefs' BY <1>a, <1>i, <1>o, <2>0, <2>1, <2>2 DEF RelayRefs
  <2>5. bare.dev \subseteq relay.dev /\ bare.main \subseteq relay.dev
    BY <1>i, <1>o, <2>1 DEF BareRefs, NoRef
  <2>6. RelayStage' BY <2>0, <2>2, <2>5 DEF RelayStage
  <2> QED BY <1>r, <2>3, <2>4, <2>6 DEF StageInv
<1>5. CASE RelayPushBare
  <2>1. UNCHANGED <<github, relay, head, queue, topic, reported>> /\ at["relay"] = "bare"
    BY <1>5 DEF RelayPushBare, PushBare
  <2>2. /\ bare.dev \subseteq relay.dev /\ bare.main \subseteq relay.dev /\ 0 \in bare.main
        /\ queue[topic] \subseteq relay.dev
    BY <1>i, <2>1 DEF RelayStage, BareRefs
  <2>3. ~Refused("dev", relay, bare) BY <2>2 DEF Refused, Ancestor, NoRef
  <2>4. at'["relay"] = "github" /\ bare'.dev = relay.dev /\ bare'.main = bare.main
    BY <1>5, <1>a, <1>t, <2>3 DEF RelayPushBare, PushBare, Pushed, Refs
  <2>5. relay.dev # NoRef BY <2>2 DEF NoRef
  <2>6. BareRefs' BY <1>i, <2>2, <2>4, <2>5 DEF BareRefs
  <2>7. GithubRefs' BY <1>i, <1>o, <2>1, <2>2, <2>4 DEF GithubRefs
  <2>8. Published' BY <1>i, <2>1 DEF Published
  <2>9. RelayRefs' BY <1>a, <1>i, <1>o, <2>1, <2>4, <2>5 DEF RelayRefs
  <2>10. RelayStage' BY <2>1, <2>2, <2>4, <2>5 DEF RelayStage
  <2> QED BY <1>r, <2>6, <2>7, <2>8, <2>9, <2>10 DEF StageInv
<1>6. CASE RelayPushGithub
  <2>1. UNCHANGED <<bare, relay, head, queue, topic, reported>> /\ at["relay"] = "github"
    BY <1>6 DEF RelayPushGithub, PushGithub
  <2>2. relay.dev = bare.dev /\ bare.dev # NoRef /\ queue[topic] \subseteq relay.dev
          /\ github.dev \subseteq bare.dev
    BY <1>i, <2>1 DEF RelayStage, GithubRefs
  <2>3. ~Refused("dev", bare, github) BY <2>2 DEF Refused, Ancestor
  <2>4. at'["relay"] = "done" /\ github'.dev = bare.dev /\ github'.main = github.main
    BY <1>6, <1>a, <1>t, <2>3 DEF RelayPushGithub, PushGithub, Pushed, Refs
  <2>5. BareRefs' BY <1>i, <1>o, <2>1 DEF BareRefs
  <2>6. GithubRefs' BY <1>i, <1>o, <2>1, <2>4 DEF GithubRefs
  <2>7. Published' BY <1>i, <2>1, <2>2, <2>4 DEF Published, Ancestor
  <2>8. RelayRefs' BY <1>a, <1>i, <1>o, <2>1, <2>4 DEF RelayRefs
  <2>9. RelayStage' BY <2>1, <2>2, <2>4 DEF RelayStage
  <2> QED BY <1>r, <2>5, <2>6, <2>7, <2>8, <2>9 DEF StageInv
<1>7. CASE RelayDone
  <2>1. /\ UNCHANGED <<shared, relay, head, topic>> /\ at["relay"] = "done" /\ at'["relay"] = "idle"
        /\ reported' = [reported EXCEPT !.dev = @ \cup queue[topic]]
    BY <1>7, <1>a DEF RelayDone
  <2>2. relay.dev = bare.dev /\ queue[topic] \subseteq relay.dev /\ github.dev = bare.dev
    BY <1>i, <1>o, <2>1 DEF RelayStage, GithubRefs
  <2>3. BareRefs' /\ GithubRefs' BY <1>i, <1>o, <2>1 DEF BareRefs, GithubRefs
  <2>4. Published' BY <1>i, <1>t, <2>1, <2>2 DEF Published, Ancestor, Refs
  <2>5. RelayRefs' BY <1>a, <1>i, <1>o, <2>1 DEF RelayRefs
  <2>6. RelayStage' BY <2>1 DEF RelayStage
  <2> QED BY <1>r, <2>3, <2>4, <2>5, <2>6 DEF StageInv
<1> QED BY <1>1, <1>2, <1>3, <1>4, <1>5, <1>6, <1>7 DEF RelayStep

\* Steps of dg-release, with dg-relay out of the way.
LEMMA StageRelease ==
  ASSUME TypeOK, PublishInv, ReleaseStep
  PROVE  StageInv'
<1> USE DEF shared, local, wvars, bounds, hist, Step
<1>a. DOMAIN at = Scripts /\ Scripts = {"relay", "release"} BY DEF TypeOK, Scripts
<1>o. at["release"] # "idle" /\ at["relay"] = "idle" /\ at'["relay"] = "idle"
  <2>1. at["release"] # "idle" /\ at'["relay"] = at["relay"]
    BY <1>a DEF ReleaseStep, ReleaseFetch, Fetch, ReleaseSwitch, ReleaseMerge, ReleasePushBare,
       PushBare, ReleasePushGithub, ReleasePushDev, PushGithub, ReleaseUpdateRef, ReleaseDone
  <2> QED BY <1>a, <2>1 DEF PublishInv, OneAtATime
<1>i. BareRefs /\ GithubRefs /\ RelayRefs /\ ReleaseStage /\ Published
  BY DEF PublishInv
<1>t. /\ relay \in [main: Commit, dev: Commit, origin_main: Commit, origin_dev: Commit]
      /\ bare \in Refs /\ github \in Refs /\ reported \in Refs
  BY DEF TypeOK
<1>r. RelayStage' BY <1>o DEF RelayStage
<1>1. CASE ReleaseFetch
  <2>1. /\ UNCHANGED <<shared, head, reported>> /\ at'["release"] = "switch"
        /\ at["release"] = "fetch"
        /\ relay'.origin_main = bare.main /\ relay'.origin_dev = bare.dev /\ relay'.dev = relay.dev
        /\ relay'.main \in {relay.main, bare.main}
    BY <1>1, <1>a, <1>t DEF ReleaseFetch, Fetch
  <2>2. BareRefs' /\ GithubRefs' /\ Published'
    BY <1>i, <1>o, <2>1 DEF BareRefs, GithubRefs, Published
  <2>3. RelayRefs' BY <1>a, <1>i, <1>o, <2>1 DEF RelayRefs
  <2>4. ReleaseStage' BY <2>1 DEF ReleaseStage
  <2> QED BY <1>r, <2>2, <2>3, <2>4 DEF StageInv
<1>2. CASE ReleaseSwitch
  <2>0. /\ relay.origin_main = bare.main /\ relay.origin_dev = bare.dev
        /\ UNCHANGED shared /\ at["release"] = "switch"
    BY <1>2, <1>a, <1>i DEF ReleaseSwitch, RelayRefs
  <2>1. /\ relay.main \subseteq bare.main /\ bare.main \subseteq bare.main
        /\ relay.dev \subseteq (IF bare.dev = NoRef THEN bare.main ELSE bare.dev)
        /\ github.main = bare.main
    BY <1>i, <1>o, <2>0 DEF RelayRefs, GithubRefs
  <2>2. Forward("main", relay.origin_main) = bare.main /\ CanForward("main", relay.origin_main)
    BY <1>t, <2>0, <2>1 DEF Forward, CanForward, Ancestor
  <2>3. bare.dev # NoRef =>
          Forward("dev", relay.origin_dev) = bare.dev /\ CanForward("dev", relay.origin_dev)
    BY <1>t, <2>0, <2>1 DEF Forward, CanForward, Ancestor
  <2>4. \/ /\ at'["release"] = "idle" /\ UNCHANGED reported
           /\ relay' = [relay EXCEPT !.main = bare.main]
        \/ /\ bare.dev # NoRef /\ relay' = [relay EXCEPT !.main = bare.main, !.dev = bare.dev]
           /\ \/ /\ at'["release"] = "idle" /\ bare.dev \subseteq bare.main
                 /\ reported' = [reported EXCEPT !.main = @ \cup bare.dev]
              \/ at'["release"] = "merge" /\ head' = "main" /\ UNCHANGED reported
    <3>1. CASE bare.dev = NoRef BY <1>2, <1>a, <2>0, <2>2, <3>1 DEF ReleaseSwitch
    <3>2. CASE bare.dev # NoRef
      <4>1. /\ relay' = [relay EXCEPT !.main = bare.main, !.dev = bare.dev]
            /\ head' = "main"
            /\ IF Ancestor(bare.dev, bare.main)
               THEN /\ reported' = [reported EXCEPT !.main = @ \cup bare.dev]
                    /\ Step("release", "switch", "idle")
               ELSE UNCHANGED reported /\ Step("release", "switch", "merge")
        BY <1>2, <2>0, <2>2, <2>3, <3>2 DEF ReleaseSwitch
      <4> QED BY <1>a, <3>2, <4>1 DEF Ancestor
    <3> QED BY <3>1, <3>2
  <2>5. /\ relay'.main = bare.main /\ relay'.dev \in {relay.dev, bare.dev}
        /\ at'["release"] = "merge" => relay'.dev = bare.dev /\ bare.dev # NoRef
        /\ at'["release"] \in {"idle", "merge"}
    BY <1>t, <2>4
  <2>6. BareRefs' /\ GithubRefs' BY <1>i, <1>o, <2>0, <2>5 DEF BareRefs, GithubRefs
  <2>7. Published'
    BY <1>i, <1>t, <2>0, <2>1, <2>4 DEF Published, Ancestor, Refs
  <2>8. RelayRefs' BY <1>a, <1>o, <2>0, <2>1, <2>5 DEF RelayRefs, NoRef
  <2>9. ReleaseStage' BY <2>0, <2>4, <2>5 DEF ReleaseStage
  <2> QED BY <1>r, <2>6, <2>7, <2>8, <2>9 DEF StageInv
<1>3. CASE ReleaseMerge
  <2>0. /\ UNCHANGED <<shared, head, reported>> /\ at["release"] = "merge"
        /\ at'["release"] = "bare"
    BY <1>3, <1>a DEF ReleaseMerge
  <2>1. head = "main" /\ relay.main = bare.main /\ relay.dev = bare.dev /\ bare.dev # NoRef
    BY <1>i, <2>0 DEF ReleaseStage
  <2>2. relay.main \subseteq relay'.main /\ relay.dev \subseteq relay'.main /\ relay'.dev = relay.dev
    <3>1. CASE relay.dev \subseteq relay.main /\ UNCHANGED relay BY <3>1
    <3>2. CASE relay' = [relay EXCEPT !["main"] = NewCommit(@ \cup relay.dev)]
      <4>1. relay'.main = NewCommit(relay.main \cup relay.dev) /\ relay'.dev = relay.dev
        BY <1>t, <3>2
      <4> QED BY <4>1 DEF NewCommit
    <3> QED BY <1>3, <2>1, <3>1, <3>2 DEF ReleaseMerge, Merge, Ancestor
  <2>3. BareRefs' /\ GithubRefs' /\ Published'
    BY <1>i, <1>o, <2>0 DEF BareRefs, GithubRefs, Published
  <2>4. RelayRefs' BY <1>a, <1>o, <2>0, <2>1, <2>2 DEF RelayRefs
  <2>5. ReleaseStage' BY <2>0, <2>1, <2>2 DEF ReleaseStage
  <2> QED BY <1>r, <2>3, <2>4, <2>5 DEF StageInv
<1>4. CASE ReleasePushBare
  <2>1. UNCHANGED <<github, relay, head, reported>> /\ at["release"] = "bare"
    BY <1>4 DEF ReleasePushBare, PushBare
  <2>2. /\ bare.main \subseteq relay.main /\ bare.dev \subseteq relay.main /\ 0 \in bare.main
        /\ bare.dev # NoRef
    BY <1>i, <2>1 DEF ReleaseStage, BareRefs
  <2>3. ~Refused("main", relay, bare) BY <2>2 DEF Refused, Ancestor, NoRef
  <2>4. at'["release"] = "github" /\ bare'.main = relay.main /\ bare'.dev = bare.dev
    BY <1>4, <1>a, <1>t, <2>3 DEF ReleasePushBare, PushBare, Pushed, Refs
  <2>5. BareRefs' BY <2>2, <2>4 DEF BareRefs
  <2>6. GithubRefs' BY <1>i, <1>o, <2>1, <2>2, <2>4 DEF GithubRefs
  <2>7. Published' BY <1>i, <2>1 DEF Published
  <2>8. RelayRefs' BY <1>a, <1>i, <1>o, <2>1, <2>2, <2>4 DEF RelayRefs
  <2>9. ReleaseStage' BY <2>1, <2>2, <2>4 DEF ReleaseStage
  <2> QED BY <1>r, <2>5, <2>6, <2>7, <2>8, <2>9 DEF StageInv
<1>5. CASE ReleasePushGithub
  <2>1. UNCHANGED <<bare, relay, head, reported>> /\ at["release"] = "github"
    BY <1>5 DEF ReleasePushGithub, PushGithub
  <2>2. github.main \subseteq bare.main /\ 0 \in bare.main BY <1>i DEF GithubRefs, BareRefs
  <2>3. ~Refused("main", bare, github) BY <2>2 DEF Refused, Ancestor, NoRef
  <2>4. at'["release"] = "sync" /\ github'.main = bare.main /\ github'.dev = github.dev
    BY <1>5, <1>a, <1>t, <2>3 DEF ReleasePushGithub, PushGithub, Pushed, Refs
  <2>5. BareRefs' BY <1>i, <2>1, <2>4 DEF BareRefs
  <2>6. GithubRefs' BY <1>i, <1>o, <2>1, <2>4 DEF GithubRefs
  <2>7. Published' BY <1>i, <2>1, <2>2, <2>4 DEF Published, Ancestor
  <2>8. RelayRefs' BY <1>a, <1>i, <1>o, <2>1, <2>4 DEF RelayRefs
  <2>9. ReleaseStage' BY <1>i, <2>1, <2>4 DEF ReleaseStage
  <2> QED BY <1>r, <2>5, <2>6, <2>7, <2>8, <2>9 DEF StageInv
<1>6. CASE ReleaseUpdateRef
  <2>1. /\ UNCHANGED <<github, relay, head, reported>> /\ at["release"] = "sync"
        /\ at'["release"] = "dev" /\ bare'.dev = bare.main /\ bare'.main = bare.main
    BY <1>6, <1>a, <1>t DEF ReleaseUpdateRef, Refs
  <2>2. bare.dev \subseteq bare.main /\ 0 \in bare.main /\ relay.main = bare.main /\ bare.dev # NoRef
    BY <1>i, <2>1 DEF ReleaseStage, BareRefs
  <2>3. BareRefs' BY <2>1, <2>2 DEF BareRefs, NoRef
  <2>4. GithubRefs' BY <1>i, <1>o, <2>1, <2>2 DEF GithubRefs
  <2>5. Published' BY <1>i, <2>1 DEF Published
  <2>6. RelayRefs' BY <1>a, <1>i, <1>o, <2>1, <2>2 DEF RelayRefs, NoRef
  <2>7. ReleaseStage' BY <2>1, <2>2 DEF ReleaseStage, NoRef
  <2> QED BY <1>r, <2>3, <2>4, <2>5, <2>6, <2>7 DEF StageInv
<1>7. CASE ReleasePushDev
  <2>1. UNCHANGED <<bare, relay, head, reported>> /\ at["release"] = "dev"
    BY <1>7 DEF ReleasePushDev, PushGithub
  <2>2. github.dev \subseteq bare.dev /\ bare.dev # NoRef /\ relay.main = bare.main
    BY <1>i, <2>1 DEF GithubRefs, ReleaseStage
  <2>3. ~Refused("dev", bare, github) BY <2>2 DEF Refused, Ancestor
  <2>4. at'["release"] = "done" /\ github'.dev = bare.dev /\ github'.main = github.main
    BY <1>7, <1>a, <1>t, <2>3 DEF ReleasePushDev, PushGithub, Pushed, Refs
  <2>5. BareRefs' BY <1>i, <2>1 DEF BareRefs
  <2>6. GithubRefs' BY <1>i, <1>o, <2>1, <2>4 DEF GithubRefs
  <2>7. Published' BY <1>i, <2>1, <2>2, <2>4 DEF Published, Ancestor
  <2>8. RelayRefs' BY <1>a, <1>i, <1>o, <2>1, <2>4 DEF RelayRefs
  <2>9. ReleaseStage' BY <2>1, <2>2, <2>4 DEF ReleaseStage
  <2> QED BY <1>r, <2>5, <2>6, <2>7, <2>8, <2>9 DEF StageInv
<1>8. CASE ReleaseDone
  <2>1. /\ UNCHANGED <<shared, relay, head>> /\ at["release"] = "done" /\ at'["release"] = "idle"
        /\ reported' = [reported EXCEPT !.main = @ \cup relay.main]
    BY <1>8, <1>a DEF ReleaseDone
  <2>2. relay.main = github.main BY <1>i, <1>o, <2>1 DEF ReleaseStage, GithubRefs
  <2>3. BareRefs' /\ GithubRefs' BY <1>i, <1>o, <2>1 DEF BareRefs, GithubRefs
  <2>4. Published' BY <1>i, <1>t, <2>1, <2>2 DEF Published, Ancestor, Refs
  <2>5. RelayRefs' BY <1>a, <1>i, <1>o, <2>1 DEF RelayRefs
  <2>6. ReleaseStage' BY <2>1 DEF ReleaseStage
  <2> QED BY <1>r, <2>3, <2>4, <2>5, <2>6 DEF StageInv
<1> QED BY <1>1, <1>2, <1>3, <1>4, <1>5, <1>6, <1>7, <1>8 DEF ReleaseStep

\* Starting a script, and the commands of the workers, move no ref.
LEMMA StageStart ==
  ASSUME TypeOK, PublishInv,
         WorkerStep \/ (\E t \in Topics : StartRelay(t)) \/ StartRelease \/ UNCHANGED vars
  PROVE  StageInv'
<1> USE DEF shared, local, wvars, bounds, hist
<1>a. DOMAIN at = Scripts /\ Scripts = {"relay", "release"} BY DEF TypeOK, Scripts
<1>1. /\ UNCHANGED <<shared, relay, head, queue, reported>>
      /\ \/ UNCHANGED <<at, topic>>
         \/ \E s \in Scripts : at[s] = "idle" /\ at' = [at EXCEPT ![s] = "fetch"]
    BY <1>a, WorkerQuiet DEF StartRelay, StartRelease, MayStart, vars
<1>2. /\ at["relay"] = at'["relay"] \/ (at["relay"] = "idle" /\ at'["relay"] = "fetch")
      /\ at["release"] = at'["release"] \/ (at["release"] = "idle" /\ at'["release"] = "fetch")
  BY <1>1, <1>a
<1>3. topic' = topic \/ at'["relay"] \in {"idle", "fetch"}
  BY <1>a, WorkerQuiet DEF StartRelay, StartRelease, vars
<1>i. BareRefs /\ GithubRefs /\ RelayRefs /\ RelayStage /\ ReleaseStage /\ Published
  BY DEF PublishInv
<1>4. BareRefs' /\ GithubRefs' /\ Published'
  BY <1>1, <1>2, <1>i DEF BareRefs, GithubRefs, Published
<1>5. RelayRefs' BY <1>1, <1>2, <1>a, <1>i DEF RelayRefs
<1>6. RelayStage' BY <1>1, <1>2, <1>3, <1>i DEF RelayStage
<1>7. ReleaseStage' BY <1>1, <1>2, <1>i DEF ReleaseStage
<1> QED BY <1>4, <1>5, <1>6, <1>7 DEF StageInv

\* Stops are only ever added.
LEMMA StopsKeep == ASSUME TypeOK, [Next]_vars, stops' = 0 PROVE stops = 0
<1> USE DEF bounds
<1>1. CASE \E s \in Scripts : Stop(s) BY <1>1 DEF Stop, TypeOK
<1>2. CASE WorkerStep
  BY <1>2 DEF WorkerStep, dg_new_feature, dg_new_fix, dg_mark_pr, Rebase, dg_reap
<1>3. CASE RelayStep \/ \E t \in Topics : StartRelay(t)
  BY <1>3 DEF StartRelay, RelayStep, RelayFetch, Fetch, RelaySwitch, RelayQueue, RelayMerge,
     RelayPushBare, PushBare, RelayPushGithub, PushGithub, RelayDone
<1>4. CASE StartRelease \/ ReleaseStep
  BY <1>4 DEF StartRelease, ReleaseStep, ReleaseFetch, Fetch, ReleaseSwitch, ReleaseMerge,
     ReleasePushBare, PushBare, ReleasePushGithub, PushGithub, ReleaseUpdateRef, ReleasePushDev,
     ReleaseDone
<1>5. CASE SyncBare \/ UNCHANGED vars BY <1>5 DEF SyncBare, vars
<1> QED BY <1>1, <1>2, <1>3, <1>4, <1>5 DEF Next

\* Every step but a stop preserves the invariant, and stops are counted.
LEMMA PublishNext ==
  ASSUME ~Overlap, MaxSyncs = 0
  PROVE  TypeOK /\ (stops = 0 => PublishInv) /\ [Next]_vars => (stops = 0 => PublishInv)'
<1> SUFFICES ASSUME TypeOK, stops = 0 => PublishInv, [Next]_vars, stops' = 0 PROVE PublishInv'
  OBVIOUS
<1>1. stops = 0 /\ \A s \in Scripts : ~Stop(s) BY StopsKeep DEF Stop, TypeOK
<1>2. OneAtATime' /\ TipsAreNew' BY <1>1, TurnsNext, TipsNext DEF PublishInv
<1>3. ~SyncBare BY DEF SyncBare, TypeOK
<1>4. StageInv' BY <1>1, <1>3, StageRelay, StageRelease, StageStart DEF Next
<1> QED BY <1>2, <1>4 DEF PublishInv, StageInv

LEMMA PublishInit == Init => PublishInv
<1> SUFFICES ASSUME Init PROVE PublishInv OBVIOUS
<1>1. PICK d \in InitialDevs : github = [main |-> {0}, dev |-> d] BY DEF Init
<1>2. d \in {NoRef, {0}} BY RelayAssumption DEF RelayAssumption
<1>3. at["relay"] = "idle" /\ at["release"] = "idle" /\ Scripts = {"relay", "release"}
  BY DEF Init, Scripts
<1>4. github.main = {0} /\ bare.main = {0} /\ github.dev = d /\ bare.dev = d BY <1>1 DEF Init
<1>5. relay.main = {} /\ relay.dev = {} /\ reported.main = {} /\ reported.dev = {}
  BY DEF Init, NoRef
<1>6. OneAtATime /\ TipsAreNew BY <1>3 DEF Init, OneAtATime, TipsAreNew
<1>7. BareRefs /\ GithubRefs BY <1>2, <1>3, <1>4 DEF BareRefs, GithubRefs, NoRef
<1>8. RelayRefs /\ RelayStage /\ ReleaseStage /\ Published
  BY <1>3, <1>5 DEF RelayRefs, RelayStage, ReleaseStage, Published, Ancestor
<1> QED BY <1>6, <1>7, <1>8 DEF PublishInv

\* Until a script is cut short, the refs of all repositories agree between any
\* two steps of the scripts.
THEOREM PublishInvariant ==
  ASSUME ~Overlap, MaxSyncs = 0
  PROVE  Spec => [](stops = 0 => PublishInv)
<1>1. Init => (stops = 0 => PublishInv) BY PublishInit
<1>2. TypeOK /\ (stops = 0 => PublishInv) /\ [Next]_vars => (stops = 0 => PublishInv)'
  BY PublishNext
<1> QED BY <1>1, <1>2, TypeCorrect, PTL DEF Spec

\* With scripts that take turns: until one of them is cut short, what they report as
\* published is on GitHub, for any number of workers, branches and conflicts.
THEOREM ReportedCorrect ==
  ASSUME ~Overlap, MaxSyncs = 0
  PROVE  Spec => []ReportedIsPublished
<1>1. (stops = 0 => PublishInv) => ReportedIsPublished
  BY DEF PublishInv, Published, ReportedIsPublished
<1> QED BY <1>1, PublishInvariant, PTL

-----------------------------------------------------------------------------
(* A release that gets to its end *)

\* Whatever was cut short before, the last steps of a release leave dev of GitHub
\* with main of GitHub inside.
LEMMA TogetherNext ==
  ASSUME ~Overlap, MaxSyncs = 0
  PROVE  TypeOK /\ OneAtATime /\ TogetherInv /\ [Next]_vars => TogetherInv'
<1> SUFFICES ASSUME TypeOK, OneAtATime, TogetherInv, [Next]_vars PROVE TogetherInv' OBVIOUS
<1> USE DEF shared, local, wvars, bounds, hist, Step, TogetherInv
<1>a. DOMAIN at = Scripts /\ Scripts = {"relay", "release"} BY DEF TypeOK, Scripts
<1>t. github \in Refs /\ bare \in Refs BY DEF TypeOK
<1>1. CASE RelayStep
  <2>1. at["release"] = "idle" /\ at'["release"] = "idle"
    BY <1>1, <1>a DEF OneAtATime, RelayStep, RelayFetch, Fetch, RelaySwitch, RelayQueue,
       RelayMerge, RelayAbort, RelayPushBare, PushBare, RelayPushGithub, PushGithub, RelayDone
  <2> QED BY <2>1
<1>2. CASE ReleaseFetch \/ ReleaseSwitch \/ ReleaseMerge \/ ReleasePushBare \/ ReleaseDone
  <2>1. at'["release"] \in {"idle", "switch", "merge", "bare", "github"}
    BY <1>2, <1>a DEF ReleaseFetch, Fetch, ReleaseSwitch, ReleaseMerge, ReleasePushBare,
       PushBare, ReleaseDone
  <2> QED BY <2>1
<1>3. CASE ReleasePushGithub
  <2>1. bare' = bare /\ at'["release"] \in {"idle", "sync"}
    BY <1>3, <1>a DEF ReleasePushGithub, PushGithub
  <2>2. at'["release"] = "sync" => github'.main = bare.main
    BY <1>3, <1>a, <1>t DEF ReleasePushGithub, PushGithub, Pushed, Refs
  <2> QED BY <2>1, <2>2
<1>4. CASE ReleaseUpdateRef
  BY <1>4, <1>a, <1>t DEF ReleaseUpdateRef, Refs
<1>5. CASE ReleasePushDev
  <2>1. /\ bare' = bare /\ at["release"] = "dev" /\ at'["release"] \in {"idle", "done"}
        /\ at'["release"] = "done" => github'.dev = bare.dev /\ github'.main = github.main
    BY <1>5, <1>a, <1>t DEF ReleasePushDev, PushGithub, Pushed, Refs
  <2> QED BY <2>1 DEF Ancestor
<1>6. CASE WorkerStep \/ (\E t \in Topics : StartRelay(t)) \/ StartRelease
             \/ (\E s \in Scripts : Stop(s)) \/ UNCHANGED vars
  <2>1. UNCHANGED shared /\ at'["release"] \in {at["release"], "idle", "fetch"}
    BY <1>6, <1>a, WorkerQuiet DEF StartRelay, StartRelease, Stop, vars
  <2> QED BY <2>1
<1>7. ~SyncBare BY DEF SyncBare, TypeOK
<1> QED BY <1>1, <1>2, <1>3, <1>4, <1>5, <1>6, <1>7 DEF Next, ReleaseStep

\* A release that gets to its end publishes dev with main, however many scripts
\* were cut short before it; and between scripts none of which was, GitHub's dev
\* has all that its main has.
THEOREM RefsCorrect ==
  ASSUME ~Overlap, MaxSyncs = 0
  PROVE  Spec => []RefsOK
<1>1. Init => OneAtATime /\ TogetherInv
  BY DEF Init, OneAtATime, TogetherInv, Scripts
<1>2. TypeOK /\ OneAtATime /\ TogetherInv /\ [Next]_vars => (OneAtATime /\ TogetherInv)'
  BY TurnsNext, TogetherNext
<1>3. TypeOK /\ TogetherInv /\ (stops = 0 => PublishInv) => RefsOK
  <2> SUFFICES ASSUME TypeOK, TogetherInv, stops = 0 => PublishInv, github.dev # NoRef,
                      at["release"] = "done" \/ (stops = 0 /\ \A s \in Scripts : at[s] = "idle")
               PROVE  github.main \subseteq github.dev
    BY DEF RefsOK, MainIsInDev, Ancestor
  <2>1. CASE at["release"] = "done" BY <2>1 DEF TogetherInv, Ancestor
  <2>2. CASE stops = 0 /\ at["relay"] = "idle" /\ at["release"] = "idle"
    BY <2>2 DEF PublishInv, BareRefs, GithubRefs
  <2> QED BY <2>1, <2>2 DEF Scripts
<1> QED BY <1>1, <1>2, <1>3, TypeCorrect, PublishInvariant, PTL DEF Spec
=============================================================================
