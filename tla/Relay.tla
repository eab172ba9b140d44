------------------------------- MODULE Relay -------------------------------
(***************************************************************************)
(* How a worker's branch travels: worker clone -> relay checkout -> bare   *)
(* repository -> GitHub, driven by scripts/dg-relay and scripts/dg-release *)
(* of the coordinator, scripts/sync-bare-repos.sh, and the worker commands *)
(* dg-new-feature, dg-new-fix, dg-mark-pr and dg-reap.                     *)
(*                                                                         *)
(* A commit is the set of commits reachable from it, its own number        *)
(* included; NoRef is an absent ref.  So an ancestor is a subset, a        *)
(* fast-forward grows a ref, and a merge is a union with a new commit.     *)
(* A script is a sequence of steps, one per exchange with another          *)
(* repository; it may stop after any of them (set -e, Ctrl-C, network).    *)
(***************************************************************************)
EXTENDS Naturals, FiniteSets

CONSTANTS
  Workers,
  Topics,         \* slugs of branches
  Owner,          \* the worker who works on a topic
  MaxRebases,     \* bound: branches signalled again with new commits
  MaxStops,       \* bound: scripts that stop half way
  MaxConflicts,   \* bound: pairs of commits that conflict
  MaxReleases,    \* bound: releases
  MaxSyncs,       \* bound: runs of sync-bare-repos.sh
  Overlap,        \* dg-relay and dg-release may run at the same time
  InitialDevs     \* the dev refs GitHub may have at the start

NoRef == {}
Scripts == {"relay", "release"}

ASSUME RelayAssumption ==
  /\ Owner \in [Topics -> Workers] /\ Overlap \in BOOLEAN
  /\ InitialDevs \subseteq {NoRef, {0}}
  /\ MaxRebases \in Nat /\ MaxStops \in Nat /\ MaxConflicts \in Nat /\ MaxSyncs \in Nat
  /\ MaxReleases \in Nat

VARIABLES
  github, bare,    \* refs main and dev of the two shared repositories
  relay,           \* refs of the relay checkout, remote-tracking ones too
  head,            \* the branch checked out there
  queue,           \* refs/pr-queue/<worker>/<slug>
  worker,          \* dev and origin/dev of each worker clone
  branch,          \* each topic: its kind of name and its tip
  at,              \* next step of each script
  topic,           \* the topic dg-relay was called for
  commits,         \* commits made so far
  conflicts,       \* pairs <<dev, tip>> that git merge cannot merge by itself
  rebases, stops, syncs,
  reported,        \* history: what the scripts said is on GitHub's dev and main
  releases         \* releases merged so far

shared  == <<github, bare>>
local   == <<relay, head, queue>>
wvars   == <<worker, branch>>
bounds  == <<rebases, stops, conflicts, syncs>>
hist    == <<reported, releases>>
vars    == <<shared, local, wvars, at, topic, commits, bounds, hist>>

Ancestor(a, b) == a \subseteq b

\* "again": a feat name once more, of a branch that was signalled before.
Kinds == {"none", "feat", "pr", "again", "reaped"}

-----------------------------------------------------------------------------
Init ==
  /\ github \in {[main |-> {0}, dev |-> d] : d \in InitialDevs}
  /\ bare = github
  /\ relay = [main |-> NoRef, dev |-> NoRef, origin_main |-> NoRef, origin_dev |-> NoRef]
  /\ head = "main"
  /\ queue = [t \in Topics |-> NoRef]
  /\ worker = [w \in Workers |-> [dev |-> bare.dev, origin_dev |-> bare.dev]]
  /\ branch = [t \in Topics |-> [kind |-> "none", tip |-> NoRef]]
  /\ at = [s \in Scripts |-> "idle"] /\ topic \in Topics
  /\ commits = 0 /\ rebases = 0 /\ stops = 0 /\ conflicts = {} /\ syncs = 0
  /\ reported = [main |-> NoRef, dev |-> NoRef] /\ releases = 0

\* A new commit on top of some parents.
NewCommit(parents) == parents \cup {commits + 1}
Make == commits' = commits + 1

\* git merge --no-ff of a commit into the branch checked out in the relay
\* checkout; one it contains already makes no merge commit.
Merge(tip) ==
  IF Ancestor(tip, relay[head]) THEN UNCHANGED <<relay, commits>>
  ELSE /\ Make
       /\ relay' = [relay EXCEPT ![head] = NewCommit(@ \cup tip)]

-----------------------------------------------------------------------------
(* Worker commands *)

Fetched(w) == [worker EXCEPT ![w].origin_dev = bare.dev]

\* Starts on origin/dev; without one, on a local dev made from main.  A failed
\* fetch is ignored.  The branch is worked on until it has one commit.
dg_new_feature(t) ==
  LET w == Owner[t] IN
  /\ branch[t].kind = "none" /\ Make
  /\ \E clone \in {worker, Fetched(w)} :
       LET dev  == IF clone[w].dev # NoRef THEN clone[w].dev ELSE bare.main
           base == IF clone[w].origin_dev # NoRef THEN clone[w].origin_dev ELSE dev
       IN  /\ worker' = IF clone[w].origin_dev # NoRef THEN clone
                        ELSE [clone EXCEPT ![w].dev = dev]
           /\ branch' = [branch EXCEPT ![t] = [kind |-> "feat", tip |-> NewCommit(base)]]
  /\ UNCHANGED <<shared, local, at, topic, bounds, hist>>

\* Starts on the local dev: it is switched to before the fetch.
dg_new_fix(t) ==
  LET w == Owner[t] IN
  /\ branch[t].kind = "none" /\ worker[w].dev # NoRef /\ Make
  /\ worker' \in {worker, Fetched(w)}
  /\ branch' = [branch EXCEPT ![t] = [kind |-> "feat", tip |-> NewCommit(worker[w].dev)]]
  /\ UNCHANGED <<shared, local, at, topic, bounds, hist>>

dg_mark_pr(t) ==
  /\ branch[t].kind \in {"feat", "again"}
  /\ branch' = [branch EXCEPT ![t].kind = "pr"]
  /\ UNCHANGED <<shared, local, worker, at, topic, commits, bounds, hist>>

\* What dg-relay tells the worker to do on a conflict, and what a worker may
\* do anyway: fetch, take the signal back, rebase on origin/dev.
Conflicting(t) == \E pair \in conflicts : pair[2] = branch[t].tip
Rebase(t) ==
  /\ branch[t].kind = "pr" /\ bare.dev # NoRef /\ ~Ancestor(branch[t].tip, bare.dev)
  /\ \/ Conflicting(t) /\ UNCHANGED rebases
     \/ ~Conflicting(t) /\ rebases < MaxRebases /\ rebases' = rebases + 1
  /\ Make
  /\ worker' = Fetched(Owner[t])
  /\ branch' = [branch EXCEPT ![t] = [kind |-> "again", tip |-> NewCommit(bare.dev)]]
  /\ UNCHANGED <<shared, local, at, topic, stops, conflicts, syncs, hist>>

\* Fetch, bring the local dev forward, then drop every pr branch that
\* origin/dev contains.  A local dev that cannot fast-forward stops it.
dg_reap(w) ==
  LET origin == bare.dev IN
  /\ worker' = [worker EXCEPT ![w] =
       [origin_dev |-> origin,
        dev |-> IF Ancestor(worker[w].dev, origin) THEN origin ELSE worker[w].dev]]
  /\ branch' = [t \in Topics |->
       IF /\ Owner[t] = w /\ branch[t].kind = "pr" /\ Ancestor(branch[t].tip, origin)
          /\ Ancestor(worker[w].dev, origin) \/ Ancestor(origin, worker[w].dev)
       THEN [branch[t] EXCEPT !.kind = "reaped"] ELSE branch[t]]
  /\ UNCHANGED <<shared, local, at, topic, commits, bounds, hist>>

-----------------------------------------------------------------------------
(* Steps the two coordinator scripts share *)

MayStart(s) ==
  at[s] = "idle" /\ (Overlap \/ \A o \in Scripts : at[o] = "idle")

Step(s, from, to) == at[s] = from /\ at' = [at EXCEPT ![s] = to]

\* git fetch origin --prune, after cloning the bare if there is no checkout.
Fetch(s, from, to) ==
  /\ Step(s, from, to)
  /\ relay' = [relay EXCEPT !.origin_main = bare.main, !.origin_dev = bare.dev,
                            !.main = IF relay.main = NoRef THEN bare.main ELSE @]
  /\ UNCHANGED <<shared, head, queue, wvars, topic, commits, bounds, hist>>

\* Seeded bug: the checkout is reset to origin instead of brought forward.
ForwardByReset(ref, origin) == origin

\* git switch <ref>, then git merge --ff-only origin/<ref>.
Forward(ref, origin) ==
  IF Ancestor(relay[ref], origin) THEN origin ELSE relay[ref]
CanForward(ref, origin) ==
  Ancestor(relay[ref], origin) \/ Ancestor(origin, relay[ref])

\* git push of one ref: refused unless it exists and is a fast-forward.
Refused(ref, from, to) == from[ref] = NoRef \/ ~Ancestor(to[ref], from[ref])
Pushed(ref, from, to) ==
  IF Refused(ref, from, to) THEN to ELSE [to EXCEPT ![ref] = from[ref]]

PushBare(s, ref, from, to) ==
  /\ Step(s, from, IF Refused(ref, relay, bare) THEN "idle" ELSE to)
  /\ bare' = Pushed(ref, relay, bare)
  /\ UNCHANGED <<github, local, wvars, topic, commits, bounds, hist>>

PushGithub(s, ref, from, to) ==
  /\ Step(s, from, IF Refused(ref, bare, github) THEN "idle" ELSE to)
  /\ github' = Pushed(ref, bare, github)
  /\ UNCHANGED <<bare, local, wvars, topic, commits, bounds, hist>>

\* A command fails or the script is interrupted: what it did so far stays.
Stop(s) ==
  /\ at[s] # "idle" /\ stops < MaxStops /\ stops' = stops + 1
  /\ at' = [at EXCEPT ![s] = "idle"]
  /\ UNCHANGED <<shared, local, wvars, topic, commits, rebases, conflicts, syncs, hist>>

-----------------------------------------------------------------------------
(* dg-relay <worker> <repo> pr/<slug> *)

StartRelay(t) ==
  /\ MayStart("relay") /\ branch[t].kind = "pr"
  /\ at' = [at EXCEPT !["relay"] = "fetch"] /\ topic' = t
  /\ UNCHANGED <<shared, local, wvars, commits, bounds, hist>>

RelayFetch == Fetch("relay", "fetch", "switch")

\* Brings dev forward, or bootstraps it from origin/main; git switch -c fails
\* on a dev that exists already.
RelaySwitch ==
  /\ at["relay"] = "switch"
  /\ \/ /\ relay.origin_dev # NoRef /\ CanForward("dev", relay.origin_dev)
        /\ relay' = [relay EXCEPT !.dev = Forward("dev", relay.origin_dev)]
        /\ head' = "dev" /\ Step("relay", "switch", "queue")
     \/ /\ relay.origin_dev # NoRef /\ ~CanForward("dev", relay.origin_dev)
        /\ head' = "dev" /\ UNCHANGED relay /\ Step("relay", "switch", "idle")
     \/ /\ relay.origin_dev = NoRef /\ relay.dev = NoRef
        /\ relay' = [relay EXCEPT !.dev = relay.origin_main]
        /\ head' = "dev" /\ Step("relay", "switch", "queue")
     \/ /\ relay.origin_dev = NoRef /\ relay.dev # NoRef
        /\ UNCHANGED <<relay, head>> /\ Step("relay", "switch", "idle")
  /\ UNCHANGED <<shared, queue, wvars, topic, commits, bounds, hist>>

\* Fetches the branch into the queue ref, which must fast-forward; a branch
\* that dev contains already counts as done.
RelayQueue ==
  LET tip == branch[topic].tip IN
  /\ at["relay"] = "queue"
  /\ \/ /\ branch[topic].kind # "pr" \/ ~Ancestor(queue[topic], tip)
        /\ Step("relay", "queue", "idle")
        /\ UNCHANGED <<queue, reported>>
     \/ /\ branch[topic].kind = "pr" /\ Ancestor(queue[topic], tip)
        /\ Ancestor(tip, relay.dev)
        /\ queue' = [queue EXCEPT ![topic] = NoRef]
        /\ reported' = [reported EXCEPT !.dev = @ \cup tip]
        /\ Step("relay", "queue", "idle")
     \/ /\ branch[topic].kind = "pr" /\ Ancestor(queue[topic], tip)
        /\ ~Ancestor(tip, relay.dev)
        /\ queue' = [queue EXCEPT ![topic] = tip]
        /\ UNCHANGED reported
        /\ Step("relay", "queue", "merge")
  /\ UNCHANGED <<shared, relay, head, wvars, topic, commits, bounds, releases>>

RelayConflicts(pair) ==
  /\ ~Ancestor(pair[1], pair[2]) /\ Cardinality(conflicts \cup {pair}) <= MaxConflicts
  /\ conflicts' = conflicts \cup {pair}

\* Seeded bug: after a conflict the queue ref stays.
RelayAbortKeepsQueue ==
  /\ Step("relay", "merge", "idle")
  /\ UNCHANGED <<queue, relay, commits>>

RelayAbort ==
  /\ queue' = [queue EXCEPT ![topic] = NoRef]
  /\ Step("relay", "merge", "idle")
  /\ UNCHANGED <<relay, commits>>

\* git merge --no-ff into whatever is checked out; a conflict aborts, and
\* comes back whenever the same two commits are merged.
RelayMerge ==
  LET pair == <<relay[head], queue[topic]>> IN
  /\ at["relay"] = "merge"
  /\ \/ /\ pair \notin conflicts /\ Merge(queue[topic])
        /\ Step("relay", "merge", "bare")
        /\ UNCHANGED <<queue, conflicts>>
     \/ RelayConflicts(pair) /\ RelayAbort
  /\ UNCHANGED <<shared, head, wvars, topic, rebases, stops, syncs, hist>>

\* Seeded bug: dev is not pushed on from the bare repository to GitHub.
RelayPushBareOnly == PushBare("relay", "dev", "bare", "done")

RelayPushBare   == PushBare("relay", "dev", "bare", "github")
RelayPushGithub == PushGithub("relay", "dev", "github", "done")

RelayDone ==
  /\ Step("relay", "done", "idle")
  /\ reported' = [reported EXCEPT !.dev = @ \cup queue[topic]]
  /\ queue' = [queue EXCEPT ![topic] = NoRef]
  /\ UNCHANGED <<shared, relay, head, wvars, topic, commits, bounds, releases>>

RelayStep ==
  RelayFetch \/ RelaySwitch \/ RelayQueue \/ RelayMerge
    \/ RelayPushBare \/ RelayPushGithub \/ RelayDone

-----------------------------------------------------------------------------
(* dg-release <repo> [tag] *)

StartRelease ==
  /\ MayStart("release") /\ relay.main # NoRef /\ releases < MaxReleases
  /\ at' = [at EXCEPT !["release"] = "fetch"]
  /\ UNCHANGED <<shared, local, wvars, topic, commits, bounds, hist>>

ReleaseFetch == Fetch("release", "fetch", "switch")

\* Brings main and dev forward and goes back to main.  A ref that cannot
\* fast-forward or a missing origin/dev ends the script; so does a dev that
\* main contains: nothing to release.
ReleaseSwitch ==
  LET main   == Forward("main", relay.origin_main)
      dev    == Forward("dev", relay.origin_dev)
      onMain == CanForward("main", relay.origin_main)
      found  == onMain /\ relay.origin_dev # NoRef
      onDev  == found /\ CanForward("dev", relay.origin_dev)
  IN
  /\ at["release"] = "switch"
  /\ \/ /\ ~onDev
        /\ relay' = IF onMain THEN [relay EXCEPT !.main = main] ELSE relay
        /\ head' = IF found THEN "dev" ELSE "main"
        /\ UNCHANGED reported
        /\ Step("release", "switch", "idle")
     \/ /\ onDev
        /\ relay' = [relay EXCEPT !.main = main, !.dev = dev]
        /\ head' = "main"
        /\ IF Ancestor(dev, main)
           THEN /\ reported' = [reported EXCEPT !.main = @ \cup dev]
                /\ Step("release", "switch", "idle")
           ELSE UNCHANGED reported /\ Step("release", "switch", "merge")
  /\ UNCHANGED <<shared, queue, wvars, topic, commits, bounds, releases>>

\* git merge --no-ff dev; tagging is part of this step.
ReleaseMerge ==
  /\ Step("release", "merge", "bare") /\ Merge(relay.dev)
  /\ releases' = releases + 1
  /\ UNCHANGED <<shared, head, queue, wvars, topic, bounds, reported>>

ReleasePushBare   == PushBare("release", "main", "bare", "github")
ReleasePushGithub == PushGithub("release", "main", "github", "sync")

\* Seeded bug: dev is moved to the main the release started from.
ReleaseUpdateRefToOld ==
  /\ Step("release", "sync", "dev")
  /\ bare' = [bare EXCEPT !.dev = relay.origin_main]
  /\ UNCHANGED <<github, local, wvars, topic, commits, bounds, hist>>

\* git update-ref refs/heads/dev refs/heads/main in the bare: no old value.
ReleaseUpdateRef ==
  /\ Step("release", "sync", "dev")
  /\ bare' = [bare EXCEPT !.dev = bare.main]
  /\ UNCHANGED <<github, local, wvars, topic, commits, bounds, hist>>

ReleasePushDev == PushGithub("release", "dev", "dev", "done")

ReleaseDone ==
  /\ Step("release", "done", "idle")
  /\ reported' = [reported EXCEPT !.main = @ \cup relay.main]
  /\ UNCHANGED <<shared, local, wvars, topic, commits, bounds, releases>>

ReleaseStep ==
  ReleaseFetch \/ ReleaseSwitch \/ ReleaseMerge \/ ReleasePushBare \/ ReleasePushGithub
    \/ ReleaseUpdateRef \/ ReleasePushDev \/ ReleaseDone

-----------------------------------------------------------------------------
(* sync-bare-repos.sh: remote update --prune on a mirror *)

SyncBare ==
  /\ syncs < MaxSyncs /\ syncs' = syncs + 1
  /\ bare' = github
  /\ UNCHANGED <<github, local, wvars, at, topic, commits, rebases, stops, conflicts, hist>>

-----------------------------------------------------------------------------
WorkerStep ==
  \/ \E t \in Topics : dg_new_feature(t) \/ dg_new_fix(t) \/ dg_mark_pr(t) \/ Rebase(t)
  \/ \E w \in Workers : dg_reap(w)

Next ==
  \/ WorkerStep
  \/ \E t \in Topics : StartRelay(t)
  \/ RelayStep \/ StartRelease \/ ReleaseStep \/ SyncBare
  \/ \E s \in Scripts : Stop(s)

Spec == Init /\ [][Next]_vars

\* A script that is not stopped goes on; the coordinator keeps relaying every
\* branch that is signalled (the timer of branching-pr-strategy.md), and the
\* worker of a conflicting one does what dg-relay says: rebases, signals again.
FairSpec ==
  /\ Spec
  /\ WF_vars(RelayStep) /\ WF_vars(ReleaseStep)
  /\ \A t \in Topics :
       /\ SF_vars(StartRelay(t)) /\ WF_vars(Conflicting(t) /\ Rebase(t))
       /\ WF_vars(branch[t].kind = "again" /\ dg_mark_pr(t))

-----------------------------------------------------------------------------
(* Properties *)

Commit == SUBSET (0 .. commits)
Refs == [main: Commit, dev: Commit]

\* Every ref is absent or a set of commits made so far, and dg-relay holds the
\* branch in its queue ref from the fetch to the end.
TypeOK ==
  /\ github \in Refs /\ bare \in Refs
  /\ relay \in [main: Commit, dev: Commit, origin_main: Commit, origin_dev: Commit]
  /\ head \in {"main", "dev"} /\ queue \in [Topics -> Commit]
  /\ worker \in [Workers -> [dev: Commit, origin_dev: Commit]]
  /\ branch \in [Topics -> [kind: Kinds, tip: Commit]]
  /\ at \in [Scripts -> {"idle", "fetch", "switch", "queue", "merge", "bare", "github",
                         "sync", "dev", "done"}]
  /\ topic \in Topics /\ commits \in Nat
  /\ at["relay"] \in {"merge", "bare", "github", "done"} => queue[topic] # NoRef
  /\ conflicts \subseteq Commit \X Commit /\ Cardinality(conflicts) <= MaxConflicts
  /\ rebases \in 0 .. MaxRebases /\ stops \in 0 .. MaxStops /\ syncs \in 0 .. MaxSyncs
  /\ reported \in Refs /\ releases \in 0 .. MaxReleases

\* dg-reap deletes a worker's only copy: what it reaped is still in the relay
\* checkout, on dev or on main, however scripts were cut short, overlapped or
\* had the bare repository reset from GitHub under them.
ReapedIsKept ==
  \A t \in Topics : branch[t].kind = "reaped" =>
    Ancestor(branch[t].tip, relay.dev) \/ Ancestor(branch[t].tip, relay.main)

\* branching-pr-strategy.md: the relay is idempotent.  When dg-relay or
\* dg-release ends well, what it was asked to publish is on GitHub, unless a script
\* was cut short before: its leftovers pass for published.
ReportedIsPublished ==
  stops = 0 => Ancestor(reported.dev, github.dev) /\ Ancestor(reported.main, github.main)

\* dg-release: a release that gets to its end leaves no commit on main of GitHub
\* that dev of GitHub has not, also when it took local commits of dev that a relay
\* cut short never pushed; and while no script was cut short, that is so whenever
\* none is under way.
MainIsInDev ==
  /\ github.dev # NoRef
  /\ at["release"] = "done" \/ (stops = 0 /\ \A s \in Scripts : at[s] = "idle")
  => Ancestor(github.main, github.dev)

\* Every ref is one git could hold, and main stays inside of dev.
RefsOK == TypeOK /\ MainIsInDev

\* dg-release: moving the bare's dev to main is always a fast-forward; no
\* script rewrites what workers may have fetched.
BareDevGrows == [][Ancestor(bare.dev, bare.dev')]_vars

\* A signalled branch is relayed in the end, through conflicts and rebases, unless a
\* script is cut short.
SignalledIsRelayed ==
  \A t \in Topics :
    branch[t].kind = "pr" ~> Ancestor(branch[t].tip, github.dev) \/ stops > 0
=============================================================================
