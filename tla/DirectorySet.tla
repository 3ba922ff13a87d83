---------------------------- MODULE DirectorySet ----------------------------
(***************************************************************************)
(* The set of directory caches and everybody who fills and reads it.       *)
(*                                                                         *)
(* The same Set serves two processes.  In the broker passes and sweeps     *)
(* refresh it under the apply lock and plan requests without it, and a     *)
(* full pass first brings it in line with the directory store.  In the     *)
(* console page views start background refreshes, one at a time, and a     *)
(* ticker does the reload.  A fetch runs outside the mutex of its cache:   *)
(* what it asked and what it stores are two steps.                         *)
(***************************************************************************)
EXTENDS Integers, FiniteSets

CONSTANTS
    Git,         \* directories of the reviewed configuration
    Added,       \* directories operators may add to the store
    Resolvers,   \* those read through a DirectoryService
    Roles,       \* the processes: "broker", "console"
    Passes,      \* the broker's full passes
    Sweeps,      \* its removals-only passes
    Planners,    \* its plan requests
    Views,       \* the console's page views
    Ticker,      \* the console's reload goroutine
    TTL, Backoff,\* in ticks of the clock
    MaxOutside,  \* bound: outside changes and failures
    Free, Nothing

\* Numbered in the order the set lists them, those of git first.
Dirs == Git \union Added
Lockers == Passes \union Sweeps
Readers == Lockers \union Planners
Callers == Readers \union Views \union {Ticker}

ASSUME DirectoryAssumptions ==
    /\ Dirs \subseteq Nat
    /\ Git \intersect Added = {}
    /\ Roles \subseteq {"broker", "console"}
    /\ TTL \in Nat /\ Backoff \in Nat /\ MaxOutside \in Nat
    /\ Nothing \notin Nat
    /\ Free \notin Callers
    /\ Ticker \notin Readers \union Views
    /\ Views \intersect Readers = {}
    /\ Planners \intersect Lockers = {}
    /\ Passes \intersect Sweeps = {}

VARIABLES
    version,     \* outside: how often each directory has changed
    status,      \* outside: "up", "down", or "hung": its callers wait for
                 \* their deadline, which in the broker is its own
    store,       \* outside: the directories in the store
    role,        \* which process this is
    held, cache, \* memory: the set, and each directory's cache
    eff,         \* memory: the directories of the effective configuration
    refreshing,  \* memory: the single-flight guard
    lock,        \* memory: who holds the apply lock
    pc, todo, job,      \* each caller: caches left to refresh, fetch under way
    cut,                \* each caller: its context has run out
    heard,              \* the reload: what the store listed
    cfg, unhealthy, snaps,  \* each reader: the inputs of its join
    \* What the properties remember; no action reads it.
    began,       \* each directory's version when the lock was taken
    mixed,       \* directories others have stored an answer of since
    outside      \* how much has come from outside so far

world == <<version, status, store>>
set == <<role, held, cache, eff, refreshing, lock>>
fetches == <<todo, job, cut>>
inputs == <<cfg, unhealthy, snaps>>
memo == <<began, mixed>>
vars == <<world, set, pc, fetches, heard, inputs, memo, outside>>

NewCache == [snap |-> Nothing, ok |-> TRUE, age |-> TTL + 1, tried |-> Backoff]
NoJob == [dir |-> Nothing, got |-> Nothing, age |-> 0]
NoSnaps == [s \in {} |-> 0]

Init ==
    /\ version = [s \in Dirs |-> 0]
    /\ status = [s \in Dirs |-> "up"]
    /\ store \in SUBSET Added
    /\ role \in Roles
    /\ held = Git
    /\ cache = [s \in Dirs |-> NewCache]
    /\ eff = Git
    /\ refreshing = FALSE
    /\ lock = Free
    /\ pc = [c \in Callers |-> "idle"]
    /\ todo = [c \in Callers |-> {}]
    /\ job = [c \in Callers |-> NoJob]
    /\ cut = [c \in Callers |-> FALSE]
    /\ heard = {}
    /\ cfg = [c \in Readers |-> {}]
    /\ unhealthy = [c \in Readers |-> {}]
    /\ snaps = [c \in Readers |-> NoSnaps]
    /\ began = version
    /\ mixed = {}
    /\ outside = 0

-----------------------------------------------------------------------------
(* One cache.                                                              *)

Healthy(s) == cache[s].ok /\ cache[s].snap # Nothing

\* staleAt: no snapshot or an old one, and no attempt within the backoff.
Stale(s) ==
    /\ cache[s].snap = Nothing \/ cache[s].age > TTL
    /\ cache[s].tried >= Backoff

First(S) == CHOOSE s \in S : \A r \in S : s <= r

\* The next fetch of a refresh: what the directory says at one moment.  With
\* a context that has run out the call fails at once.
Ask(c) ==
    /\ pc[c] = "refresh"
    /\ job[c] = NoJob
    /\ todo[c] # {}
    /\ LET s == First(todo[c])
       IN  /\ job' = [job EXCEPT ![c] =
                [dir |-> s, age |-> 0,
                 got |-> IF status[s] = "up" /\ ~cut[c] THEN version[s] ELSE Nothing]]
           \* A background refresh has one deadline, as long as that of one
           \* Workspace read; a resolver's calls and the broker's reads have
           \* their own.
           /\ cut' = [cut EXCEPT ![c] =
                @ \/ (c \in Views /\ status[s] = "hung" /\ s \notin Resolvers)]
    /\ UNCHANGED <<world, set, pc, todo, heard, inputs, memo, outside>>

\* Faulty variant: a failure leaves the cache as it is.
UnnoticedFailure(c, s) ==
    IF job[c].got = Nothing
    THEN [cache[s] EXCEPT !.tried = 0]
    ELSE [snap |-> job[c].got, ok |-> TRUE, age |-> 0, tried |-> 0]

\* Cache.Refresh under the mutex.  A Workspace snapshot is dated when it is
\* complete, a resolver's when it was begun.
Refreshed(c, s) ==
    IF job[c].got = Nothing
    THEN [cache[s] EXCEPT !.ok = FALSE, !.tried = 0]
    ELSE [snap |-> job[c].got, ok |-> TRUE, tried |-> 0,
          age |-> IF s \in Resolvers THEN job[c].age ELSE 0]

Store(c) ==
    /\ job[c] # NoJob
    /\ LET s == job[c].dir
       IN  /\ cache' = [cache EXCEPT ![s] = Refreshed(c, s)]
           /\ todo' = [todo EXCEPT ![c] = @ \ {s}]
           /\ mixed' = IF c = lock THEN mixed ELSE mixed \union {s}
    /\ job' = [job EXCEPT ![c] = NoJob]
    /\ UNCHANGED <<world, role, held, eff, refreshing, lock, pc, cut, heard,
                   inputs, began, outside>>

Refreshes(c) == pc[c] = "refresh" /\ job[c] = NoJob /\ todo[c] = {}

-----------------------------------------------------------------------------
(* The reload of the store.                                                *)

ReloadList(c) ==
    /\ pc[c] = "reload"
    /\ heard' = store
    /\ pc' = [pc EXCEPT ![c] = "publish"]
    /\ UNCHANGED <<world, set, fetches, inputs, memo, outside>>

\* A store that cannot be listed leaves things as they are.
ReloadFails(c) ==
    /\ pc[c] = "reload"
    /\ outside < MaxOutside
    /\ outside' = outside + 1
    /\ pc' = [pc EXCEPT ![c] = IF c = Ticker THEN "idle" ELSE "refresh"]
    /\ todo' = [todo EXCEPT ![c] = IF c = Ticker THEN {} ELSE held]
    /\ UNCHANGED <<world, set, job, cut, heard, inputs, memo>>

\* The broker publishes the configuration before it touches the set; the
\* console joins with the configuration in git.
Publish(c) ==
    /\ pc[c] = "publish"
    /\ eff' = IF role = "broker" THEN Git \union heard ELSE eff
    /\ pc' = [pc EXCEPT ![c] = "reconcile"]
    /\ UNCHANGED <<world, role, held, cache, refreshing, lock, fetches, heard,
                   inputs, memo, outside>>

\* Faulty variant: a refresh goes on with caches the set has dropped.
OnlyHeldAnything(work) == work

\* A refresh works on the caches it began with; what it still does to one that
\* was dropped is nobody's to see.
OnlyHeld(work) == work \intersect held'

\* Set.Reconcile: who stays keeps the cache, who comes gets an empty one.
Reconcile(c) ==
    /\ pc[c] = "reconcile"
    /\ held' = Git \union heard
    /\ cache' = [s \in Dirs |-> IF s \in held' THEN cache[s] ELSE NewCache]
    /\ pc' = [pc EXCEPT ![c] = IF c = Ticker THEN "idle" ELSE "refresh"]
    /\ todo' = [d \in Callers |-> IF d = c /\ c # Ticker THEN held'
                                  ELSE OnlyHeld(todo[d])]
    /\ job' = [d \in Callers |-> IF job[d].dir \in held' THEN job[d] ELSE NoJob]
    /\ heard' = {}
    /\ UNCHANGED <<world, role, eff, refreshing, lock, cut, inputs, memo, outside>>

-----------------------------------------------------------------------------
(* The broker.                                                             *)

TakeLock(c) ==
    /\ lock = Free
    /\ lock' = c
    /\ began' = version
    /\ mixed' = {}

\* RunReconcile reloads first.
PassStart(c) ==
    /\ role = "broker"
    /\ c \in Passes
    /\ pc[c] = "idle"
    /\ TakeLock(c)
    /\ pc' = [pc EXCEPT ![c] = "reload"]
    /\ UNCHANGED <<world, role, held, cache, eff, refreshing, fetches, heard,
                   inputs, outside>>

\* RunRemovals, and an apply's computation.
SweepStart(c) ==
    /\ role = "broker"
    /\ c \in Sweeps
    /\ pc[c] = "idle"
    /\ TakeLock(c)
    /\ pc' = [pc EXCEPT ![c] = "refresh"]
    /\ todo' = [todo EXCEPT ![c] = held]
    /\ UNCHANGED <<world, role, held, cache, eff, refreshing, job, cut, heard,
                   inputs, outside>>

\* A plan request computes without the lock.
PlanStart(c) ==
    /\ role = "broker"
    /\ c \in Planners
    /\ pc[c] = "idle"
    /\ pc' = [pc EXCEPT ![c] = "refresh"]
    /\ todo' = [todo EXCEPT ![c] = held]
    /\ UNCHANGED <<world, set, job, cut, heard, inputs, memo, outside>>

RefreshEnds(c) ==
    /\ c \in Readers
    /\ Refreshes(c)
    /\ pc' = [pc EXCEPT ![c] = "config"]
    /\ UNCHANGED <<world, set, fetches, heard, inputs, memo, outside>>

\* Faulty variant: the snapshots before the health.
NextReadHealthLast ==
    [config |-> "snapshots", snapshots |-> "health", health |-> "join"]

\* The order in which a reader gathers its inputs.
NextRead == [config |-> "health", health |-> "snapshots", snapshots |-> "join"]

\* compute joins with the effective configuration, sweepOrg with the one in
\* git.
ReadConfig(c) ==
    /\ pc[c] = "config"
    /\ cfg' = [cfg EXCEPT ![c] = IF c \in Sweeps THEN Git ELSE eff]
    /\ pc' = [pc EXCEPT ![c] = NextRead.config]
    /\ UNCHANGED <<world, set, fetches, heard, unhealthy, snaps, memo, outside>>

\* Statuses and Unhealthy.
ReadHealth(c) ==
    /\ pc[c] = "health"
    /\ unhealthy' = [unhealthy EXCEPT ![c] = {s \in held : ~Healthy(s)}]
    /\ pc' = [pc EXCEPT ![c] = NextRead.health]
    /\ UNCHANGED <<world, set, fetches, heard, cfg, snaps, memo, outside>>

Snapshots == [s \in {r \in held : cache[r].snap # Nothing} |-> cache[s].snap]

ReadSnapshots(c) ==
    /\ pc[c] = "snapshots"
    /\ snaps' = [snaps EXCEPT ![c] = Snapshots]
    /\ pc' = [pc EXCEPT ![c] = NextRead.snapshots]
    /\ UNCHANGED <<world, set, fetches, heard, cfg, unhealthy, memo, outside>>

\* The next organization: a pass refreshes again for each, a sweep does not.
NextOrg(c) ==
    /\ pc[c] = "join"
    /\ c \in Lockers
    /\ pc' = [pc EXCEPT ![c] = IF c \in Passes THEN "refresh" ELSE "config"]
    /\ todo' = [todo EXCEPT ![c] = IF c \in Passes THEN held ELSE {}]
    /\ UNCHANGED <<world, set, job, cut, heard, inputs, memo, outside>>

Leave(c) ==
    /\ pc[c] = "join"
    /\ pc' = [pc EXCEPT ![c] = "idle"]
    /\ lock' = IF lock = c THEN Free ELSE lock
    /\ cfg' = [cfg EXCEPT ![c] = {}]
    /\ unhealthy' = [unhealthy EXCEPT ![c] = {}]
    /\ snaps' = [snaps EXCEPT ![c] = NoSnaps]
    /\ began' = IF lock = c THEN [s \in Dirs |-> 0] ELSE began
    /\ mixed' = IF lock = c THEN {} ELSE mixed
    /\ UNCHANGED <<world, role, held, cache, eff, refreshing, fetches, heard,
                   outside>>

-----------------------------------------------------------------------------
(* The console.                                                            *)

\* RefreshIfStale looks at the caches first ...
View(c) ==
    /\ role = "console"
    /\ c \in Views
    /\ pc[c] = "idle"
    /\ {s \in held : Stale(s)} # {}
    /\ todo' = [todo EXCEPT ![c] = {s \in held : Stale(s)}]
    /\ pc' = [pc EXCEPT ![c] = "claim"]
    /\ UNCHANGED <<world, set, job, cut, heard, inputs, memo, outside>>

\* Faulty variant: every page view refreshes.
ClaimAnyway(c) ==
    /\ pc[c] = "claim"
    /\ refreshing' = TRUE
    /\ pc' = [pc EXCEPT ![c] = "refresh"]
    /\ UNCHANGED <<world, role, held, cache, eff, lock, fetches, heard, inputs,
                   memo, outside>>

\* ... and then claims the single flight.
Claim(c) ==
    /\ pc[c] = "claim"
    /\ refreshing' = TRUE
    /\ pc' = [pc EXCEPT ![c] = IF refreshing THEN "idle" ELSE "refresh"]
    /\ todo' = [todo EXCEPT ![c] = IF refreshing THEN {} ELSE @]
    /\ UNCHANGED <<world, role, held, cache, eff, lock, job, cut, heard, inputs,
                   memo, outside>>

\* Faulty variant: a background refresh that was cut keeps the guard.
FlightEndsUncut(c) ==
    /\ c \in Views
    /\ Refreshes(c)
    /\ refreshing' = cut[c]
    /\ pc' = [pc EXCEPT ![c] = "idle"]
    /\ cut' = [cut EXCEPT ![c] = FALSE]
    /\ UNCHANGED <<world, role, held, cache, eff, lock, todo, job, heard,
                   inputs, memo, outside>>

FlightEnds(c) ==
    /\ c \in Views
    /\ Refreshes(c)
    /\ refreshing' = FALSE
    /\ pc' = [pc EXCEPT ![c] = "idle"]
    /\ cut' = [cut EXCEPT ![c] = FALSE]
    /\ UNCHANGED <<world, role, held, cache, eff, lock, todo, job, heard,
                   inputs, memo, outside>>

Reload ==
    /\ role = "console"
    /\ pc[Ticker] = "idle"
    /\ held # Git \union store
    /\ pc' = [pc EXCEPT ![Ticker] = "reload"]
    /\ UNCHANGED <<world, set, fetches, heard, inputs, memo, outside>>

\* Only page views look at the clock.
Older(n, most) == IF n < most THEN n + 1 ELSE n

Tick ==
    /\ role = "console"
    /\ cache' = [s \in Dirs |-> IF s \in held
                    THEN [cache[s] EXCEPT !.age = Older(@, TTL + 1),
                                          !.tried = Older(@, Backoff)]
                    ELSE cache[s]]
    /\ job' = [c \in Callers |-> IF job[c] = NoJob THEN NoJob
                    ELSE [job[c] EXCEPT !.age = Older(@, TTL + 1)]]
    /\ <<cache', job'>> # <<cache, job>>
    /\ UNCHANGED <<world, role, held, eff, refreshing, lock, pc, todo, cut,
                   heard, inputs, memo, outside>>

-----------------------------------------------------------------------------
(* The directories and the store.                                          *)

Outside ==
    /\ outside < MaxOutside
    /\ outside' = outside + 1
    /\ \/ /\ \E s \in Dirs : version' = [version EXCEPT ![s] = @ + 1]
          /\ UNCHANGED <<status, store>>
       \/ /\ \E s \in Dirs, st \in {"up", "down", "hung"} :
                /\ st # status[s]
                /\ st = "hung" => role = "console"
                /\ status' = [status EXCEPT ![s] = st]
          /\ UNCHANGED <<version, store>>
       \/ /\ \E s \in Added : store' = IF s \in store THEN store \ {s}
                                                      ELSE store \union {s}
          /\ UNCHANGED <<version, status>>
    /\ UNCHANGED <<set, pc, fetches, heard, inputs, memo>>

Fetching(c) == Ask(c) \/ Store(c)
Reloading(c) == ReloadList(c) \/ ReloadFails(c) \/ Publish(c) \/ Reconcile(c)
Starting(c) == PassStart(c) \/ SweepStart(c) \/ PlanStart(c)
Reading(c) ==
    RefreshEnds(c) \/ ReadConfig(c) \/ ReadHealth(c) \/ ReadSnapshots(c)
Viewing(c) == View(c) \/ Claim(c) \/ FlightEnds(c)

Next ==
    \/ \E c \in Callers :
        \/ Fetching(c) \/ Reloading(c) \/ Starting(c) \/ Reading(c)
        \/ NextOrg(c) \/ Leave(c) \/ Viewing(c)
    \/ Reload \/ Tick \/ Outside

Spec == Init /\ [][Next]_vars

\* Pages go on being viewed and every page view and its background refresh go
\* on; a fetch ends, by its deadline if not otherwise; the ticker ticks.
Fairness ==
    /\ \A c \in Views : WF_vars(Fetching(c)) /\ WF_vars(Viewing(c))
    /\ WF_vars(Reload)
    /\ WF_vars(Reloading(Ticker))
    /\ WF_vars(Tick)

FairSpec == Spec /\ Fairness

-----------------------------------------------------------------------------
(* Properties.                                                             *)

Versions == 0 .. MaxOutside

TypeOK ==
    /\ version \in [Dirs -> Versions]
    /\ status \in [Dirs -> {"up", "down", "hung"}]
    /\ store \subseteq Added
    /\ role \in Roles
    /\ Git \subseteq held /\ held \subseteq Dirs
    /\ cache \in [Dirs -> [snap : Versions \union {Nothing}, ok : BOOLEAN,
                           age : 0 .. TTL + 1, tried : 0 .. Backoff]]
    /\ Git \subseteq eff /\ eff \subseteq Dirs
    /\ refreshing \in BOOLEAN
    /\ lock \in Lockers \union {Free}
    /\ pc \in [Callers -> {"idle", "reload", "publish", "reconcile", "refresh",
                           "config", "health", "snapshots", "join", "claim"}]
    /\ todo \in [Callers -> SUBSET held]
    /\ job \in [Callers -> [dir : held \union {Nothing},
                            got : Versions \union {Nothing}, age : 0 .. TTL + 1]]
    /\ cut \in [Callers -> BOOLEAN]
    /\ heard \subseteq Added
    /\ outside \in 0 .. MaxOutside

\* A directory a pass may act on the absence of has been read: whatever the
\* order of fetches, reloads and plan requests, the join of whoever holds the
\* lock has, of every directory of its configuration, a snapshot or the
\* warning (broker.go:337-347, removals.go:115-124).
TrustedIsKnown ==
    \A c \in Readers :
        lock = c /\ pc[c] = "join"
            => cfg[c] \subseteq unhealthy[c] \union DOMAIN snaps[c]

\* "Fresh liveness first": of a directory that is not named unhealthy the
\* join reads nothing older than the pass itself - unless a plan request
\* stored an answer of it meanwhile.
TrustedIsFresh ==
    \A c \in Readers :
        lock = c /\ pc[c] = "join"
            => \A s \in DOMAIN snaps[c] \ (unhealthy[c] \union mixed) :
                    snaps[c][s] >= began[s]

\* Each cache is the last known good answer of its directory (the abstract
\* module): failures never empty it, trust returns with an answer only, and
\* in the console, one flight at a time, it never goes back.
Caches == INSTANCE LastKnownGood WITH
    Permanent <- Git,
    now <- version,
    known <- [s \in Dirs |-> cache[s].snap],
    trusted <- {s \in Dirs : Healthy(s)},
    serial <- role = "console"

KeepsLastKnownGood == Caches!Spec

\* "Reads shown on a page may be TTL-stale, never frozen" (server.go:139):
\* once the outside settles, every directory of the console that answers is
\* shown as it is - when none of the others hangs.
Answers(s) == s \in Git \union store /\ status[s] = "up"

NeverFrozen ==
    \A s \in Dirs :
        <>[](role = "console" /\ Answers(s) /\ \A r \in Dirs : status[r] # "hung")
            => <>[](cache[s].snap = version[s])

\* The same with no condition on the others: "one broken directory must not
\* stop the others being read" (cache.go:45).
OneBrokenDirectory ==
    \A s \in Dirs :
        <>[](role = "console" /\ Answers(s)) => <>[](cache[s].snap = version[s])
=============================================================================
