--------------------------- MODULE DirectoryProofs ---------------------------
(***************************************************************************)
(* The set of directory caches, for any directories, callers and outside   *)
(* changes: it implements LastKnownGood, and what a pass joins is known,   *)
(* or named unhealthy, and no older than the pass.                         *)
(***************************************************************************)
EXTENDS DirectorySet, TLAPS, WellFoundedInduction

LEMMA FirstIsOne ==
    ASSUME NEW S \in SUBSET Dirs, S # {}
    PROVE  First(S) \in S
<1>1. PICK s \in S : \A r \in S : ~(<<r, s>> \in OpToRel(<, Nat))
    <2>1. S \subseteq Nat
        BY DirectoryAssumptions
    <2> QED
        BY <2>1, NatLessThanWellFounded, WFMin
<1>2. ASSUME NEW r \in S
      PROVE  s <= r
    <2>1. r \in Nat /\ s \in Nat
        BY DirectoryAssumptions
    <2>2. ~(r < s)
        <3>1. SUFFICES ASSUME r < s PROVE FALSE
            OBVIOUS
        <3>2. <<r, s>> \in Nat \X Nat
            BY <2>1
        <3>3. <<r, s>>[1] < <<r, s>>[2]
            BY <3>1
        <3>4. <<r, s>> \in OpToRel(<, Nat)
            BY <3>2, <3>3, Zenon DEF OpToRel
        <3> QED
            BY <1>1, <3>4
    <2> QED
        BY <2>1, <2>2
<1> QED
    BY <1>2 DEF First
-----------------------------------------------------------------------------
(* Types.                                                                  *)

\* Each change counts: a directory has not changed more often than anything did.
Typed == TypeOK /\ \A s \in Dirs : version[s] <= outside

CacheType == [snap : Versions \union {Nothing}, ok : BOOLEAN, age : 0 .. TTL + 1,
              tried : 0 .. Backoff]
JobType == [dir : held \union {Nothing}, got : Versions \union {Nothing},
            age : 0 .. TTL + 1]

LEMMA CacheUpdates ==
    ASSUME NEW x \in CacheType, NEW a \in 0 .. TTL + 1, NEW n \in 0 .. Backoff
    PROVE  /\ [x EXCEPT !.ok = FALSE, !.tried = n] \in CacheType
           /\ [x EXCEPT !.age = a, !.tried = n] \in CacheType
    BY DEF CacheType

LEMMA InitTyped == ASSUME Init PROVE Typed
<1> USE DirectoryAssumptions DEF Init
<1>1. NewCache \in CacheType
    BY DEF NewCache, CacheType
<1>2. NoJob \in JobType
    BY DEF NoJob, JobType
<1>3. cache \in [Dirs -> CacheType] /\ job \in [Callers -> JobType]
    BY <1>1, <1>2
<1>4. 0 \in Versions
    BY DEF Versions
<1>5. Git \subseteq Dirs
    BY DEF Dirs
<1>6. /\ version \in [Dirs -> Versions]
      /\ \A s \in Dirs : version[s] <= outside
      /\ outside \in 0 .. MaxOutside
    BY <1>4
<1>7. /\ todo \in [Callers -> SUBSET held]
      /\ cut \in [Callers -> BOOLEAN]
      /\ status \in [Dirs -> {"up", "down", "hung"}]
      /\ pc \in [Callers -> {"idle", "reload", "publish", "reconcile", "refresh",
                              "config", "health", "snapshots", "join", "claim"}]
    OBVIOUS
<1> QED
    BY <1>3, <1>5, <1>6, <1>7 DEF Typed, TypeOK, CacheType, JobType

LEMMA StepTyped ==
    ASSUME Typed, [Next]_vars
    PROVE  Typed'
<1> USE DirectoryAssumptions DEF Typed, TypeOK, Versions, world, set, fetches, inputs, memo
<1>1. ASSUME NEW c \in Callers, Ask(c) PROVE Typed'
    <2> DEFINE s == First(todo[c])
               got == IF status[s] = "up" /\ ~cut[c] THEN version[s] ELSE Nothing
    <2>1. s \in todo[c]
        BY <1>1, FirstIsOne DEF Ask
    <2>2. [dir |-> s, age |-> 0, got |-> got] \in JobType
        <3>1. got \in Versions \union {Nothing}
            BY <2>1
        <3>2. s \in held /\ 0 \in 0 .. TTL + 1
            BY <2>1
        <3> QED
            BY <3>1, <3>2 DEF JobType
    <2>3. job' \in [Callers -> JobType]
        BY <1>1, <2>2 DEF Ask, JobType
    <2>4. cut' \in [Callers -> BOOLEAN]
        BY <1>1 DEF Ask
    <2>5. JobType' = JobType
        BY <1>1 DEF Ask, JobType
    <2> QED
        BY <1>1, <2>3, <2>4, <2>5 DEF Ask, JobType
<1>2. ASSUME NEW c \in Callers, Store(c) PROVE Typed'
    <2> DEFINE s == job[c].dir
    <2>1. cache' = [cache EXCEPT ![s] = Refreshed(c, s)] /\ job' = [job EXCEPT ![c] = NoJob]
        BY <1>2 DEF Store
    <2>2. s \in Dirs \union {Nothing} /\ job[c] \in JobType
        BY DEF JobType
    <2>3. s \in Dirs => Refreshed(c, s) \in CacheType
        <3>1. 0 \in 0 .. TTL + 1 /\ 0 \in 0 .. Backoff
            OBVIOUS
        <3>2. s \in Dirs => [cache[s] EXCEPT !.ok = FALSE, !.tried = 0] \in CacheType
            <4>1. s \in Dirs => cache[s] \in CacheType
                BY DEF CacheType
            <4> HIDE DEF Typed, TypeOK
            <4> QED
                BY <3>1, <4>1, CacheUpdates
        <3>3. job[c].got # Nothing =>
                [snap |-> job[c].got, ok |-> TRUE, tried |-> 0,
                 age |-> IF s \in Resolvers THEN job[c].age ELSE 0] \in CacheType
            BY <2>2, <3>1 DEF CacheType, JobType
        <3> QED
            BY <3>2, <3>3 DEF Refreshed
    <2>4. cache' \in [Dirs -> CacheType]
        BY <2>1, <2>2, <2>3 DEF CacheType
    <2>5. NoJob \in JobType
        BY DEF NoJob, JobType
    <2>6. job' \in [Callers -> JobType]
        BY <2>1, <2>5 DEF JobType
    <2>7. todo' \in [Callers -> SUBSET held]
        BY <1>2 DEF Store
    <2> QED
        BY <1>2, <2>4, <2>6, <2>7 DEF Store, CacheType, JobType
<1>3. ASSUME NEW c \in Callers, ReloadList(c) PROVE Typed'
    BY <1>3 DEF ReloadList
<1>4. ASSUME NEW c \in Callers, ReloadFails(c) PROVE Typed'
    BY <1>4 DEF ReloadFails
<1>5. ASSUME NEW c \in Callers, Publish(c) PROVE Typed'
    <2>1. Git \subseteq eff' /\ eff' \subseteq Dirs
        BY <1>5 DEF Publish, Dirs
    <2>2. pc' \in [Callers -> {"idle", "reload", "publish", "reconcile", "refresh",
                               "config", "health", "snapshots", "join", "claim"}]
        BY <1>5 DEF Publish
    <2> QED
        BY <1>5, <2>1, <2>2 DEF Publish
<1>6. ASSUME NEW c \in Callers, Reconcile(c) PROVE Typed'
    BY <1>6 DEF Reconcile, OnlyHeld, NewCache, NoJob, Dirs
<1>7. ASSUME NEW c \in Callers, PassStart(c) PROVE Typed'
    BY <1>7 DEF PassStart, TakeLock, Lockers
<1>8. ASSUME NEW c \in Callers, SweepStart(c) PROVE Typed'
    BY <1>8 DEF SweepStart, TakeLock, Lockers
<1>9. ASSUME NEW c \in Callers, PlanStart(c) PROVE Typed'
    BY <1>9 DEF PlanStart
<1>10. ASSUME NEW c \in Callers, RefreshEnds(c) PROVE Typed'
    BY <1>10 DEF RefreshEnds
<1>11. ASSUME NEW c \in Callers, ReadConfig(c) PROVE Typed'
    BY <1>11 DEF ReadConfig, NextRead
<1>12. ASSUME NEW c \in Callers, ReadHealth(c) PROVE Typed'
    BY <1>12 DEF ReadHealth, NextRead
<1>13. ASSUME NEW c \in Callers, ReadSnapshots(c) PROVE Typed'
    BY <1>13 DEF ReadSnapshots, NextRead
<1>14. ASSUME NEW c \in Callers, NextOrg(c) PROVE Typed'
    BY <1>14 DEF NextOrg
<1>15. ASSUME NEW c \in Callers, Leave(c) PROVE Typed'
    BY <1>15 DEF Leave
<1>16. ASSUME NEW c \in Callers, View(c) PROVE Typed'
    BY <1>16 DEF View
<1>17. ASSUME NEW c \in Callers, Claim(c) PROVE Typed'
    BY <1>17 DEF Claim
<1>18. ASSUME NEW c \in Callers, FlightEnds(c) PROVE Typed'
    BY <1>18 DEF FlightEnds, Refreshes
<1>19. CASE Reload
    BY <1>19 DEF Reload
<1>20. CASE Tick
    <2>1. \A n, most \in Nat : n \in 0 .. most => Older(n, most) \in 0 .. most
        BY DEF Older
    <2>2. ASSUME NEW s \in Dirs
          PROVE  [cache[s] EXCEPT !.age = Older(@, TTL + 1),
                                  !.tried = Older(@, Backoff)] \in CacheType
        <3>1. /\ Older(cache[s].age, TTL + 1) \in 0 .. TTL + 1
              /\ Older(cache[s].tried, Backoff) \in 0 .. Backoff
            BY <2>1
        <3>2. cache[s] \in CacheType
            BY DEF CacheType
        <3> HIDE DEF Typed, TypeOK
        <3> QED
            BY <3>1, <3>2, CacheUpdates
    <2>3. cache' \in [Dirs -> CacheType]
        BY <1>20, <2>2 DEF Tick, CacheType
    <2>4. ASSUME NEW c \in Callers
          PROVE  [job[c] EXCEPT !.age = Older(@, TTL + 1)] \in JobType
        <3>1. Older(job[c].age, TTL + 1) \in 0 .. TTL + 1
            BY <2>1
        <3> QED
            BY <3>1 DEF JobType
    <2>5. NoJob \in JobType
        BY DEF NoJob, JobType
    <2>6. job' \in [Callers -> JobType]
        BY <1>20, <2>4, <2>5 DEF Tick, JobType
    <2> QED
        BY <1>20, <2>3, <2>6 DEF Tick, CacheType, JobType
<1>21. CASE Outside
    BY <1>21 DEF Outside
<1>22. CASE UNCHANGED vars
    BY <1>22 DEF vars
<1> QED
    BY <1>1, <1>2, <1>3, <1>4, <1>5, <1>6, <1>7, <1>8, <1>9, <1>10, <1>11, <1>12, <1>13, <1>14, <1>15, <1>16, <1>17, <1>18, <1>19, <1>20, <1>21, <1>22
       DEF Next, Fetching, Reloading, Starting, Reading, Viewing
-----------------------------------------------------------------------------
(* Who is where: the broker's callers are idle in the console, the         *)
(* console's in the broker; a fetch is of a cache still to be refreshed;   *)
(* whoever of the passes and sweeps is at work holds the lock.             *)

ByRole ==
    /\ role = "console" => \A c \in Readers : pc[c] = "idle"
    /\ role = "broker" => \A c \in Views \union {Ticker} : pc[c] = "idle"
    /\ \A c \in Views : pc[c] \in {"idle", "claim", "refresh"}
    /\ pc[Ticker] \in {"idle", "reload", "publish", "reconcile"}
    /\ \A c \in Readers \ Passes : pc[c] \notin {"reload", "publish", "reconcile"}
    /\ \A c \in Readers : pc[c] # "claim"

JobStage ==
    /\ \A c \in Callers : job[c] # NoJob => pc[c] = "refresh" /\ job[c].dir \in todo[c]
    /\ \A c \in Readers :
        pc[c] \in {"config", "health", "snapshots", "join"} => todo[c] = {}

LockHeld == \A c \in Lockers : pc[c] # "idle" => lock = c

Stages == Typed /\ ByRole /\ JobStage /\ LockHeld

LEMMA JobAges ==
    ASSUME NEW x \in JobType, NEW n
    PROVE  [x EXCEPT !.age = n].dir = x.dir /\ [x EXCEPT !.age = n].got = x.got
    BY DEF JobType

LEMMA InitStages == ASSUME Init PROVE Stages
    BY InitTyped, DirectoryAssumptions
       DEF Init, Stages, ByRole, JobStage, LockHeld, Readers, Lockers, Callers

LEMMA SameProcess == ASSUME [Next]_vars PROVE role' = role
    BY DEF Next, vars, world, set, fetches, inputs, memo, Fetching, Reloading,
           Starting, Reading, Viewing, Ask, Store, ReloadList, ReloadFails, Publish,
           Reconcile, PassStart, SweepStart, PlanStart, RefreshEnds, ReadConfig,
           ReadHealth, ReadSnapshots, NextOrg, Leave, View, Claim, FlightEnds,
           Reload, Tick, Outside

LEMMA StepByRole ==
    ASSUME Stages, [Next]_vars
    PROVE  ByRole'
<1> USE DirectoryAssumptions DEF Typed, TypeOK, world, set, fetches, inputs, memo, Readers, Lockers, Callers, Stages, ByRole
<1>1. ASSUME NEW c \in Callers, Ask(c) PROVE ByRole'
    BY <1>1 DEF Ask
<1>2. ASSUME NEW c \in Callers, Store(c) PROVE ByRole'
    BY <1>2 DEF Store
<1>3. ASSUME NEW c \in Callers, ReloadList(c) PROVE ByRole'
    BY <1>3 DEF ReloadList
<1>4. ASSUME NEW c \in Callers, ReloadFails(c) PROVE ByRole'
    BY <1>4 DEF ReloadFails
<1>5. ASSUME NEW c \in Callers, Publish(c) PROVE ByRole'
    BY <1>5 DEF Publish
<1>6. ASSUME NEW c \in Callers, Reconcile(c) PROVE ByRole'
    BY <1>6 DEF Reconcile
<1>7. ASSUME NEW c \in Callers, PassStart(c) PROVE ByRole'
    BY <1>7 DEF PassStart, TakeLock
<1>8. ASSUME NEW c \in Callers, SweepStart(c) PROVE ByRole'
    BY <1>8 DEF SweepStart, TakeLock
<1>9. ASSUME NEW c \in Callers, PlanStart(c) PROVE ByRole'
    BY <1>9 DEF PlanStart
<1>10. ASSUME NEW c \in Callers, RefreshEnds(c) PROVE ByRole'
    BY <1>10 DEF RefreshEnds, Refreshes
<1>11. ASSUME NEW c \in Callers, ReadConfig(c) PROVE ByRole'
    BY <1>11 DEF ReadConfig, NextRead
<1>12. ASSUME NEW c \in Callers, ReadHealth(c) PROVE ByRole'
    BY <1>12 DEF ReadHealth, NextRead
<1>13. ASSUME NEW c \in Callers, ReadSnapshots(c) PROVE ByRole'
    BY <1>13 DEF ReadSnapshots, NextRead
<1>14. ASSUME NEW c \in Callers, NextOrg(c) PROVE ByRole'
    BY <1>14 DEF NextOrg
<1>15. ASSUME NEW c \in Callers, Leave(c) PROVE ByRole'
    BY <1>15 DEF Leave
<1>16. ASSUME NEW c \in Callers, View(c) PROVE ByRole'
    BY <1>16 DEF View
<1>17. ASSUME NEW c \in Callers, Claim(c) PROVE ByRole'
    BY <1>17 DEF Claim
<1>18. ASSUME NEW c \in Callers, FlightEnds(c) PROVE ByRole'
    BY <1>18 DEF FlightEnds, Refreshes
<1>19. CASE Reload
    BY <1>19 DEF Reload
<1>20. CASE Tick
    BY <1>20 DEF Tick
<1>21. CASE Outside
    BY <1>21 DEF Outside
<1>22. CASE UNCHANGED vars
    BY <1>22 DEF vars
<1> QED
    BY <1>1, <1>2, <1>3, <1>4, <1>5, <1>6, <1>7, <1>8, <1>9, <1>10, <1>11, <1>12, <1>13, <1>14, <1>15, <1>16, <1>17, <1>18, <1>19, <1>20, <1>21, <1>22
       DEF Next, Fetching, Reloading, Starting, Reading, Viewing

LEMMA StepLockHeld ==
    ASSUME Stages, [Next]_vars
    PROVE  LockHeld'
<1> USE DirectoryAssumptions DEF Typed, TypeOK, world, set, fetches, inputs, memo, Readers, Lockers, Callers, Stages, ByRole, LockHeld
<1>1. ASSUME NEW c \in Callers, Ask(c) PROVE LockHeld'
    BY <1>1 DEF Ask
<1>2. ASSUME NEW c \in Callers, Store(c) PROVE LockHeld'
    BY <1>2 DEF Store
<1>3. ASSUME NEW c \in Callers, ReloadList(c) PROVE LockHeld'
    BY <1>3 DEF ReloadList
<1>4. ASSUME NEW c \in Callers, ReloadFails(c) PROVE LockHeld'
    BY <1>4 DEF ReloadFails
<1>5. ASSUME NEW c \in Callers, Publish(c) PROVE LockHeld'
    BY <1>5 DEF Publish
<1>6. ASSUME NEW c \in Callers, Reconcile(c) PROVE LockHeld'
    BY <1>6 DEF Reconcile
<1>7. ASSUME NEW c \in Callers, PassStart(c) PROVE LockHeld'
    BY <1>7 DEF PassStart, TakeLock
<1>8. ASSUME NEW c \in Callers, SweepStart(c) PROVE LockHeld'
    BY <1>8 DEF SweepStart, TakeLock
<1>9. ASSUME NEW c \in Callers, PlanStart(c) PROVE LockHeld'
    BY <1>9 DEF PlanStart
<1>10. ASSUME NEW c \in Callers, RefreshEnds(c) PROVE LockHeld'
    BY <1>10 DEF RefreshEnds, Refreshes
<1>11. ASSUME NEW c \in Callers, ReadConfig(c) PROVE LockHeld'
    BY <1>11 DEF ReadConfig, NextRead
<1>12. ASSUME NEW c \in Callers, ReadHealth(c) PROVE LockHeld'
    BY <1>12 DEF ReadHealth, NextRead
<1>13. ASSUME NEW c \in Callers, ReadSnapshots(c) PROVE LockHeld'
    BY <1>13 DEF ReadSnapshots, NextRead
<1>14. ASSUME NEW c \in Callers, NextOrg(c) PROVE LockHeld'
    BY <1>14 DEF NextOrg
<1>15. ASSUME NEW c \in Callers, Leave(c) PROVE LockHeld'
    BY <1>15 DEF Leave
<1>16. ASSUME NEW c \in Callers, View(c) PROVE LockHeld'
    BY <1>16 DEF View
<1>17. ASSUME NEW c \in Callers, Claim(c) PROVE LockHeld'
    BY <1>17 DEF Claim
<1>18. ASSUME NEW c \in Callers, FlightEnds(c) PROVE LockHeld'
    BY <1>18 DEF FlightEnds, Refreshes
<1>19. CASE Reload
    BY <1>19 DEF Reload
<1>20. CASE Tick
    BY <1>20 DEF Tick
<1>21. CASE Outside
    BY <1>21 DEF Outside
<1>22. CASE UNCHANGED vars
    BY <1>22 DEF vars
<1> QED
    BY <1>1, <1>2, <1>3, <1>4, <1>5, <1>6, <1>7, <1>8, <1>9, <1>10, <1>11, <1>12, <1>13, <1>14, <1>15, <1>16, <1>17, <1>18, <1>19, <1>20, <1>21, <1>22
       DEF Next, Fetching, Reloading, Starting, Reading, Viewing

LEMMA StepJobStage ==
    ASSUME Stages, [Next]_vars
    PROVE  JobStage'
<1> USE DirectoryAssumptions DEF Typed, TypeOK, world, set, fetches, inputs, memo, Readers, Lockers, Callers, Stages, ByRole, JobStage
<1>1. ASSUME NEW c \in Callers, Ask(c) PROVE JobStage'
    <2>1. First(todo[c]) \in todo[c]
        BY <1>1, FirstIsOne DEF Ask
    <2> QED
        BY <1>1, <2>1 DEF Ask
<1>2. ASSUME NEW c \in Callers, Store(c) PROVE JobStage'
    BY <1>2 DEF Store
<1>3. ASSUME NEW c \in Callers, ReloadList(c) PROVE JobStage'
    BY <1>3 DEF ReloadList
<1>4. ASSUME NEW c \in Callers, ReloadFails(c) PROVE JobStage'
    BY <1>4 DEF ReloadFails
<1>5. ASSUME NEW c \in Callers, Publish(c) PROVE JobStage'
    BY <1>5 DEF Publish
<1>6. ASSUME NEW c \in Callers, Reconcile(c) PROVE JobStage'
    BY <1>6 DEF Reconcile, OnlyHeld
<1>7. ASSUME NEW c \in Callers, PassStart(c) PROVE JobStage'
    BY <1>7 DEF PassStart, TakeLock
<1>8. ASSUME NEW c \in Callers, SweepStart(c) PROVE JobStage'
    BY <1>8 DEF SweepStart, TakeLock
<1>9. ASSUME NEW c \in Callers, PlanStart(c) PROVE JobStage'
    BY <1>9 DEF PlanStart
<1>10. ASSUME NEW c \in Callers, RefreshEnds(c) PROVE JobStage'
    BY <1>10 DEF RefreshEnds, Refreshes
<1>11. ASSUME NEW c \in Callers, ReadConfig(c) PROVE JobStage'
    BY <1>11 DEF ReadConfig, NextRead
<1>12. ASSUME NEW c \in Callers, ReadHealth(c) PROVE JobStage'
    BY <1>12 DEF ReadHealth, NextRead
<1>13. ASSUME NEW c \in Callers, ReadSnapshots(c) PROVE JobStage'
    BY <1>13 DEF ReadSnapshots, NextRead
<1>14. ASSUME NEW c \in Callers, NextOrg(c) PROVE JobStage'
    BY <1>14 DEF NextOrg
<1>15. ASSUME NEW c \in Callers, Leave(c) PROVE JobStage'
    BY <1>15 DEF Leave
<1>16. ASSUME NEW c \in Callers, View(c) PROVE JobStage'
    BY <1>16 DEF View
<1>17. ASSUME NEW c \in Callers, Claim(c) PROVE JobStage'
    BY <1>17 DEF Claim
<1>18. ASSUME NEW c \in Callers, FlightEnds(c) PROVE JobStage'
    BY <1>18 DEF FlightEnds, Refreshes
<1>19. CASE Reload
    BY <1>19 DEF Reload
<1>20. CASE Tick
    <2>1. ASSUME NEW c \in Callers, job'[c] # NoJob
          PROVE  job[c] # NoJob /\ job'[c].dir = job[c].dir
        <3>1. job[c] \in JobType
            BY DEF JobType
        <3>2. job'[c] = IF job[c] = NoJob THEN NoJob
                                         ELSE [job[c] EXCEPT !.age = Older(@, TTL + 1)]
            BY <1>20 DEF Tick
        <3> HIDE DEF Typed, TypeOK, Stages
        <3> QED
            BY <2>1, <3>1, <3>2, JobAges
    <2>2. /\ \A c \in Callers : job'[c] # NoJob => pc[c] = "refresh" /\ job'[c].dir \in todo[c]
          /\ todo' = todo /\ pc' = pc
        BY <1>20, <2>1 DEF Tick
    <2> QED
        BY <2>2 DEF NoJob
<1>21. CASE Outside
    BY <1>21 DEF Outside
<1>22. CASE UNCHANGED vars
    BY <1>22 DEF vars
<1> QED
    BY <1>1, <1>2, <1>3, <1>4, <1>5, <1>6, <1>7, <1>8, <1>9, <1>10, <1>11, <1>12, <1>13, <1>14, <1>15, <1>16, <1>17, <1>18, <1>19, <1>20, <1>21, <1>22
       DEF Next, Fetching, Reloading, Starting, Reading, Viewing

LEMMA StepStages == ASSUME Stages, [Next]_vars PROVE Stages'
    BY StepTyped, StepByRole, StepLockHeld, StepJobStage DEF Stages

-----------------------------------------------------------------------------
(* The refinement: an answer is never younger than its directory, and in   *)
(* the console one flight at a time brings answers in their order.         *)

OldAnswers ==
    /\ \A s \in Dirs : cache[s].snap # Nothing => cache[s].snap <= version[s]
    /\ \A c \in Callers :
        job[c].got # Nothing => job[c].dir \in Dirs /\ job[c].got <= version[job[c].dir]

InOrder(c) ==
    LET s == job[c].dir
    IN  job[c].got # Nothing => cache[s].snap = Nothing \/ job[c].got >= cache[s].snap

OneFlight ==
    role = "console" =>
        /\ \A c \in Callers : pc[c] = "refresh" => refreshing
        /\ \A c, d \in Callers : pc[c] = "refresh" /\ pc[d] = "refresh" => c = d
        /\ \A c \in Callers : InOrder(c)

Flights == Stages /\ OldAnswers /\ OneFlight

LEMMA InitFlights == ASSUME Init PROVE Flights
    BY InitStages, DirectoryAssumptions
       DEF Init, Flights, OldAnswers, OneFlight, InOrder, NewCache, NoJob

\* What a finished fetch does to the caches.
LEMMA StoreEffect ==
    ASSUME Stages, NEW c \in Callers, Store(c)
    PROVE  /\ job[c].dir \in held
           /\ job[c].got \in Versions \union {Nothing}
           /\ \A s \in Dirs : s # job[c].dir => cache'[s] = cache[s]
           /\ job[c].got = Nothing =>
                /\ cache'[job[c].dir].snap = cache[job[c].dir].snap
                /\ cache'[job[c].dir].ok = FALSE
           /\ job[c].got # Nothing =>
                /\ cache'[job[c].dir].snap = job[c].got
                /\ cache'[job[c].dir].ok = TRUE
           /\ job'[c] = NoJob
           /\ \A d \in Callers : d # c => job'[d] = job[d]
           /\ pc[c] = "refresh"
           /\ UNCHANGED <<version, held, role, refreshing, pc>>
<1>1. job[c] # NoJob /\ job[c] \in JobType
    BY DEF Store, Stages, Typed, TypeOK, JobType
<1>2. pc[c] = "refresh" /\ job[c].dir \in todo[c]
    BY <1>1 DEF Stages, JobStage
<1>3. job[c].dir \in held /\ held \subseteq Dirs
    BY <1>2 DEF Stages, Typed, TypeOK
<1>4. cache[job[c].dir] \in CacheType
    BY <1>3 DEF Stages, Typed, TypeOK, CacheType
<1>5. job[c].got = Nothing =>
        /\ Refreshed(c, job[c].dir).snap = cache[job[c].dir].snap
        /\ Refreshed(c, job[c].dir).ok = FALSE
    BY <1>4 DEF Refreshed, CacheType
<1>6. job[c].got # Nothing =>
        /\ Refreshed(c, job[c].dir).snap = job[c].got
        /\ Refreshed(c, job[c].dir).ok = TRUE
    BY DEF Refreshed
<1>7. /\ cache' = [cache EXCEPT ![job[c].dir] = Refreshed(c, job[c].dir)]
      /\ job' = [job EXCEPT ![c] = NoJob]
      /\ UNCHANGED <<version, held, role, refreshing, pc>>
    BY DEF Store, world
<1>8. DOMAIN cache = Dirs /\ DOMAIN job = Callers
    BY DEF Stages, Typed, TypeOK
<1>9. job[c].got \in Versions \union {Nothing}
    BY <1>1 DEF JobType
<1> HIDE DEF Refreshed
<1>10. cache'[job[c].dir] = Refreshed(c, job[c].dir)
    BY <1>3, <1>7, <1>8
<1>11. \A s \in Dirs : s # job[c].dir => cache'[s] = cache[s]
    BY <1>7, <1>8
<1>12. job'[c] = NoJob /\ \A d \in Callers : d # c => job'[d] = job[d]
    BY <1>7, <1>8
<1> QED
    BY <1>2, <1>3, <1>5, <1>6, <1>7, <1>9, <1>10, <1>11, <1>12

\* A tick leaves what is known and trusted alone.
LEMMA TickEffect ==
    ASSUME Stages, Tick
    PROVE  /\ \A s \in Dirs : cache'[s].snap = cache[s].snap /\ cache'[s].ok = cache[s].ok
           /\ \A c \in Callers : job'[c].dir = job[c].dir /\ job'[c].got = job[c].got
           /\ UNCHANGED <<version, held, role, refreshing, pc>>
<1>1. ASSUME NEW s \in Dirs
      PROVE  cache'[s].snap = cache[s].snap /\ cache'[s].ok = cache[s].ok
    <2>1. cache[s] \in CacheType
        BY DEF Stages, Typed, TypeOK, CacheType
    <2>2. \/ cache'[s] = cache[s]
          \/ cache'[s] = [cache[s] EXCEPT !.age = Older(@, TTL + 1),
                                          !.tried = Older(@, Backoff)]
        BY DEF Tick
    <2> QED
        BY <2>1, <2>2 DEF CacheType
<1>2. ASSUME NEW c \in Callers
      PROVE  job'[c].dir = job[c].dir /\ job'[c].got = job[c].got
    <2>1. job[c] \in JobType
        BY DEF Stages, Typed, TypeOK, JobType
    <2>2. job'[c] = job[c] \/ job'[c] = [job[c] EXCEPT !.age = Older(@, TTL + 1)]
        BY DEF Tick
    <2> HIDE DEF Stages, Tick
    <2>3. CASE job'[c] = job[c]
        BY <2>3
    <2>4. CASE job'[c] = [job[c] EXCEPT !.age = Older(@, TTL + 1)]
        <3>1. /\ [job[c] EXCEPT !.age = Older(@, TTL + 1)].dir = job[c].dir
              /\ [job[c] EXCEPT !.age = Older(@, TTL + 1)].got = job[c].got
            BY <2>1, JobAges
        <3> QED
            BY <2>4, <3>1
    <2> QED
        BY <2>2, <2>3, <2>4
<1> QED
    BY <1>1, <1>2 DEF Tick, world

\* What a reload does to the caches.
LEMMA ReconcileEffect ==
    ASSUME Stages, NEW c \in Callers, Reconcile(c)
    PROVE  /\ Git \subseteq held' /\ held' \subseteq Dirs
           /\ \A s \in Dirs : IF s \in held' THEN cache'[s] = cache[s] ELSE cache'[s] = NewCache
           /\ \A d \in Callers : job'[d] = job[d] \/ job'[d] = NoJob
           /\ \A d \in Callers : job'[d] # NoJob => job'[d].dir \in held'
           /\ UNCHANGED <<version, role, refreshing>>
    BY DEF Reconcile, world, Stages, Typed, TypeOK, Dirs, NoJob

\* Any other step but the beginning of a fetch leaves caches and answers alone.
LEMMA ElsewhereUnchanged ==
    ASSUME [Next]_vars
    PROVE  \/ \E c \in Callers : Ask(c) \/ Store(c) \/ Reconcile(c)
           \/ Tick \/ Outside
           \/ UNCHANGED <<version, cache, job>>
    BY DEF Next, vars, world, set, fetches, inputs, memo, Fetching, Reloading,
           Starting, Reading, Viewing, ReloadList, ReloadFails, Publish, PassStart,
           SweepStart, PlanStart, RefreshEnds, ReadConfig, ReadHealth,
           ReadSnapshots, NextOrg, Leave, View, Claim, FlightEnds, Reload

LEMMA AskEffect ==
    ASSUME Stages, NEW c \in Callers, Ask(c)
    PROVE  /\ \A d \in Callers : d # c => job'[d] = job[d]
           /\ job'[c].dir \in held
           /\ job'[c].got \in {Nothing, version[job'[c].dir]}
           /\ pc[c] = "refresh"
           /\ UNCHANGED <<version, held, cache, role, refreshing, pc>>
<1>1. First(todo[c]) \in todo[c]
    BY FirstIsOne DEF Ask, Stages, Typed, TypeOK
<1> QED
    BY <1>1 DEF Ask, Stages, Typed, TypeOK, world, set

LEMMA VersionsGrow ==
    ASSUME Stages, Outside
    PROVE  /\ \A s \in Dirs : version[s] \in Nat /\ version'[s] \in Nat /\ version[s] <= version'[s]
           /\ UNCHANGED <<held, cache, job, role, refreshing, pc>>
    BY DEF Outside, Stages, Typed, TypeOK, Versions, set, fetches

LEMMA StepOldAnswers ==
    ASSUME Stages, OldAnswers, [Next]_vars
    PROVE  OldAnswers'
<1> USE DEF OldAnswers
<1>0. /\ Nothing \notin Nat
      /\ held \subseteq Dirs
      /\ \A s \in Dirs : version[s] \in Nat /\ cache[s].snap \in Nat \union {Nothing}
    BY DirectoryAssumptions DEF Stages, Typed, TypeOK, Versions
<1>1. ASSUME NEW c \in Callers, Ask(c) PROVE OldAnswers'
    <2>1. ASSUME NEW d \in Callers, job'[d].got # Nothing
          PROVE  job'[d].dir \in Dirs /\ job'[d].got <= version'[job'[d].dir]
        BY <1>0, <1>1, <2>1, AskEffect
    <2>2. cache' = cache /\ version' = version
        BY <1>1, AskEffect
    <2> QED
        BY <2>1, <2>2
<1>2. ASSUME NEW c \in Callers, Store(c) PROVE OldAnswers'
    <2>1. ASSUME NEW s \in Dirs, cache'[s].snap # Nothing
          PROVE  cache'[s].snap <= version'[s]
        <3>1. CASE s # job[c].dir
            <4>1. cache'[s] = cache[s] /\ version' = version
                BY <1>2, <3>1, StoreEffect
            <4> QED
                BY <2>1, <4>1
        <3>2. CASE s = job[c].dir
            BY <1>2, <2>1, <3>2, StoreEffect
        <3> QED
            BY <3>1, <3>2
    <2>2. ASSUME NEW d \in Callers
          PROVE  job'[d] = job[d] \/ job'[d] = NoJob
        BY <1>2, StoreEffect
    <2>3. version' = version
        BY <1>2, StoreEffect
    <2> QED
        BY <2>1, <2>2, <2>3 DEF NoJob
<1>3. ASSUME NEW c \in Callers, Reconcile(c) PROVE OldAnswers'
    BY <1>3, ReconcileEffect DEF NoJob, NewCache
<1>4. CASE Tick
    BY <1>4, TickEffect
<1>5. CASE Outside
    <2>1. \A c \in Callers : job[c].got \in Nat \union {Nothing}
        BY DEF Stages, Typed, TypeOK, Versions
    <2> QED
        BY <1>0, <1>5, <2>1, VersionsGrow
<1>6. CASE UNCHANGED <<version, cache, job>>
    BY <1>6
<1> QED
    BY <1>1, <1>2, <1>3, <1>4, <1>5, <1>6, ElsewhereUnchanged

\* Only page views refresh in the console, and only one has claimed the flight.
LEMMA StepOneRefresh ==
    ASSUME Stages, OneFlight, [Next]_vars, role = "console"
    PROVE  /\ \A c \in Callers : pc'[c] = "refresh" => refreshing'
           /\ \A c, d \in Callers : pc'[c] = "refresh" /\ pc'[d] = "refresh" => c = d
<1> DEFINE Alone(p, r) ==
        /\ \A c \in Callers : p[c] = "refresh" => r
        /\ \A c, d \in Callers : p[c] = "refresh" /\ p[d] = "refresh" => c = d
<1> USE DEF Stages, Typed, TypeOK, ByRole, Callers, Readers
<1>1. Alone(pc, refreshing)
    BY DEF OneFlight
<1>2. pc \in [Callers -> {"idle", "reload", "publish", "reconcile", "refresh", "config",
                           "health", "snapshots", "join", "claim"}]
    OBVIOUS
<1>3. SUFFICES Alone(pc', refreshing')
    OBVIOUS
<1>4. ASSUME NEW c \in Callers, Claim(c) PROVE Alone(pc', refreshing')
    BY <1>1, <1>2, <1>4 DEF Claim
<1>5. ASSUME NEW c \in Callers, FlightEnds(c) PROVE Alone(pc', refreshing')
    BY <1>1, <1>2, <1>5 DEF FlightEnds, Refreshes
<1>6. ASSUME NEW c \in Callers, NEW stage, pc' = [pc EXCEPT ![c] = stage],
             stage # "refresh", refreshing' = refreshing
      PROVE  Alone(pc', refreshing')
    BY <1>1, <1>2, <1>6
<1>7. CASE UNCHANGED <<pc, refreshing>>
    BY <1>1, <1>7
<1> DEFINE Elsewhere ==
        \/ UNCHANGED <<pc, refreshing>>
        \/ \E c \in Callers, stage \in {"idle", "reload", "publish", "reconcile", "claim"} :
                pc' = [pc EXCEPT ![c] = stage] /\ refreshing' = refreshing
<1>8. ASSUME NEW c \in Callers, Fetching(c) \/ NextOrg(c) \/ Leave(c) PROVE Elsewhere
    BY <1>8 DEF Fetching, Ask, Store, NextOrg, Leave, set, Lockers
<1>9. ASSUME NEW c \in Callers, Reloading(c) PROVE Elsewhere
    BY <1>9 DEF Reloading, ReloadList, ReloadFails, Publish, Reconcile, set
<1>10. ASSUME NEW c \in Callers, Starting(c) PROVE FALSE
    BY <1>10 DEF Starting, PassStart, SweepStart, PlanStart
<1>11. ASSUME NEW c \in Callers, Reading(c) PROVE FALSE
    BY <1>11, DirectoryAssumptions
       DEF Reading, RefreshEnds, Refreshes, ReadConfig, ReadHealth, ReadSnapshots
<1>12. ASSUME NEW c \in Callers, View(c) PROVE Elsewhere
    <2>1. pc' = [pc EXCEPT ![c] = "claim"] /\ refreshing' = refreshing
        BY <1>12 DEF View, set
    <2> QED
        BY <2>1
<1>13. ASSUME Reload PROVE Elsewhere
    <2>1. pc' = [pc EXCEPT ![Ticker] = "reload"] /\ refreshing' = refreshing
        BY <1>13 DEF Reload, set
    <2>2. Ticker \in Callers
        OBVIOUS
    <2> QED
        BY <2>1, <2>2
<1>14. ASSUME Tick \/ Outside \/ UNCHANGED vars PROVE Elsewhere
    BY <1>14 DEF Tick, Outside, vars, set
<1> QED
    BY <1>4, <1>5, <1>6, <1>7, <1>8, <1>9, <1>10, <1>11, <1>12, <1>13, <1>14
       DEF Next, Viewing

LEMMA StepInOrder ==
    ASSUME Flights, [Next]_vars, role = "console", NEW c \in Callers
    PROVE  InOrder(c)'
<1> USE DEF Flights, OneFlight, InOrder
<1>0. /\ Nothing \notin Nat
      /\ held \subseteq Dirs
      /\ \A s \in Dirs : version[s] \in Nat /\ cache[s].snap \in Nat \union {Nothing}
      /\ \A d \in Callers : job[d].got \in Nat \union {Nothing}
    BY DirectoryAssumptions DEF Stages, Typed, TypeOK, Versions
<1>1. ASSUME NEW d \in Callers, Ask(d) PROVE InOrder(c)'
    BY <1>0, <1>1, AskEffect DEF OldAnswers, Stages, Typed, TypeOK
<1>2. ASSUME NEW d \in Callers, Store(d) PROVE InOrder(c)'
    <2>1. c # d => job[c] = NoJob
        BY <1>2, StoreEffect DEF Stages, JobStage
    <2>2. c # d => job'[c] = job[c]
        BY <1>2, StoreEffect
    <2>3. job'[d] = NoJob
        BY <1>2, StoreEffect
    <2> QED
        BY <2>1, <2>2, <2>3 DEF NoJob
<1>3. ASSUME NEW d \in Callers, Reconcile(d) PROVE InOrder(c)'
    <2>1. CASE job'[c] = NoJob
        BY <2>1 DEF NoJob
    <2>2. CASE job'[c] # NoJob
        BY <1>3, <2>2, ReconcileEffect
    <2> QED
        BY <2>1, <2>2
<1>4. CASE Tick
    BY <1>0, <1>4, TickEffect DEF OldAnswers
<1>5. CASE Outside
    BY <1>5, VersionsGrow
<1>6. CASE UNCHANGED <<version, cache, job>>
    BY <1>6
<1> QED
    BY <1>1, <1>2, <1>3, <1>4, <1>5, <1>6, ElsewhereUnchanged

LEMMA StepFlights == ASSUME Flights, [Next]_vars PROVE Flights'
<1>1. Stages' /\ OldAnswers'
    BY StepStages, StepOldAnswers DEF Flights
<1>2. OneFlight'
    BY StepOneRefresh, StepInOrder, SameProcess DEF Flights, OneFlight
<1> QED
    BY <1>1, <1>2 DEF Flights

\* The caches start out empty.
LEMMA InitRefines == ASSUME Init PROVE Caches!Init
    BY DEF Init, Caches!Init, Healthy, NewCache

\* What LastKnownGood sees of a state.
Known == [s \in Dirs |-> cache[s].snap]
Trusted == {s \in Dirs : Healthy(s)}

LEMMA StoreRefines ==
    ASSUME Flights, NEW c \in Callers, Store(c)
    PROVE  [Caches!Next]_(Caches!vars)
<1>0. PICK s \in Dirs : s = job[c].dir
    BY StoreEffect DEF Flights, Stages, Typed, TypeOK
<1>1. /\ Nothing \notin Nat
      /\ \A r \in Dirs : r # s => cache'[r] = cache[r]
      /\ version' = version /\ role' = role
    <2>1. Nothing \notin Nat
        BY DirectoryAssumptions
    <2>2. \A r \in Dirs : r # s => cache'[r] = cache[r]
        BY <1>0, StoreEffect DEF Flights
    <2>3. version' = version /\ role' = role
        BY StoreEffect DEF Flights
    <2> QED
        BY <2>1, <2>2, <2>3
<1>2. \A r \in Dirs : r # s => Known'[r] = Known[r] /\ (r \in Trusted' <=> r \in Trusted)
    BY <1>1 DEF Known, Trusted, Healthy
<1>3. CASE job[c].got = Nothing
    <2>1. cache'[s].snap = cache[s].snap /\ cache'[s].ok = FALSE
        BY <1>0, <1>3, StoreEffect DEF Flights
    <2>2. Known' = Known
        BY <1>1, <1>2, <2>1 DEF Known
    <2>3. Trusted' = Trusted \ {s}
        BY <1>1, <1>2, <2>1 DEF Trusted, Healthy
    <2>4. Caches!Fail(s)
        BY <1>1, <2>2, <2>3 DEF Caches!Fail, Known, Trusted
    <2> QED
        BY <1>1, <2>4 DEF Caches!Next
<1>4. CASE job[c].got # Nothing
    <2>1. cache'[s].snap = job[c].got /\ cache'[s].ok = TRUE
        BY <1>0, <1>4, StoreEffect DEF Flights
    <2>2. job[c].got \in Nat /\ job[c].got <= version[s] /\ version[s] \in Nat
        BY <1>0, <1>1, <1>4 DEF Flights, OldAnswers, Stages, Typed, TypeOK, Versions
    <2>3. role = "console" => Known[s] = Nothing \/ job[c].got >= Known[s]
        BY <1>0, <1>4 DEF Flights, OneFlight, InOrder, Known
    <2>4. Known' = [Known EXCEPT ![s] = job[c].got]
        BY <1>1, <1>2, <2>1 DEF Known
    <2>5. Trusted' = Trusted \union {s}
        BY <1>1, <1>2, <1>4, <2>1 DEF Trusted, Healthy
    <2>6. Caches!Learn(s)
        <3>1. job[c].got \in 0 .. version[s]
            BY <2>2
        <3> QED
            BY <1>1, <2>3, <2>4, <2>5, <3>1 DEF Caches!Learn, Known, Trusted
    <2> QED
        BY <1>1, <2>6 DEF Caches!Next
<1> QED
    BY <1>3, <1>4

LEMMA ReconcileRefines ==
    ASSUME Stages, NEW c \in Callers, Reconcile(c)
    PROVE  [Caches!Next]_(Caches!vars)
<1>0. PICK gone \in SUBSET (Dirs \ Git) : gone = Dirs \ held'
    BY ReconcileEffect
<1>1. /\ \A s \in Dirs : IF s \in gone THEN cache'[s] = NewCache ELSE cache'[s] = cache[s]
      /\ version' = version /\ role' = role
    BY <1>0, ReconcileEffect
<1>2. Known' = [s \in Dirs |-> IF s \in gone THEN Nothing ELSE Known[s]]
    BY <1>1 DEF Known, NewCache
<1>3. Trusted' = Trusted \ gone
    BY <1>1 DEF Trusted, Healthy, NewCache
<1>4. Caches!Forget(gone)
    BY <1>1, <1>2, <1>3 DEF Caches!Forget, Known, Trusted
<1> QED
    BY <1>1, <1>4 DEF Caches!Next

LEMMA OutsideRefines ==
    ASSUME Stages, Outside
    PROVE  [Caches!Next]_(Caches!vars)
<1>1. cache' = cache /\ role' = role
    BY VersionsGrow
<1>2. version' = version \/ \E s \in Dirs : version' = [version EXCEPT ![s] = @ + 1]
    BY DEF Outside
<1>3. CASE version' = version
    BY <1>1, <1>3 DEF Caches!vars, Healthy
<1>4. ASSUME NEW s \in Dirs, version' = [version EXCEPT ![s] = @ + 1]
      PROVE  Caches!Next
    <2>1. Caches!Change(s)
        BY <1>1, <1>4 DEF Caches!Change, Healthy
    <2> QED
        BY <2>1 DEF Caches!Next
<1> QED
    BY <1>2, <1>3, <1>4

LEMMA TickRefines ==
    ASSUME Stages, Tick
    PROVE  UNCHANGED Caches!vars
<1>1. Known' = Known /\ Trusted' = Trusted
    BY TickEffect DEF Known, Trusted, Healthy
<1> QED
    BY <1>1, TickEffect DEF Caches!vars, Known, Trusted

LEMMA StepRefines ==
    ASSUME Flights, [Next]_vars
    PROVE  [Caches!Next]_(Caches!vars)
<1>1. ASSUME NEW c \in Callers, Ask(c) PROVE UNCHANGED Caches!vars
    BY <1>1, AskEffect DEF Flights, Caches!vars, Healthy
<1>2. CASE UNCHANGED <<version, cache, job>>
    BY <1>2, SameProcess DEF Caches!vars, Healthy
<1> QED
    BY <1>1, <1>2, StoreRefines, ReconcileRefines, OutsideRefines, TickRefines,
       ElsewhereUnchanged DEF Flights
-----------------------------------------------------------------------------
(* What a pass joins.  While a caller with the lock gathers its inputs the *)
(* set of caches stays as it is, and a cache that was filled stays filled. *)

Published ==
    /\ role = "console" => eff = Git
    /\ (\A c \in Passes : pc[c] # "reconcile") => eff \subseteq held
    /\ \A c \in Passes : pc[c] = "reconcile" => eff = Git \union heard

Inputs ==
    /\ DOMAIN cfg = Readers /\ DOMAIN unhealthy = Readers /\ DOMAIN snaps = Readers

GatheredBy(c) ==
    /\ pc[c] \in {"health", "snapshots"} => cfg[c] \subseteq held
    /\ pc[c] = "snapshots" =>
        \A s \in cfg[c] : s \in unhealthy[c] \/ cache[s].snap # Nothing
    /\ pc[c] = "join" => cfg[c] \subseteq unhealthy[c] \union DOMAIN snaps[c]

Gathered == \A c \in Readers : lock = c => GatheredBy(c)

Gatherings == Stages /\ Published /\ Inputs /\ Gathered

LEMMA InitGatherings == ASSUME Init PROVE Gatherings
    BY InitStages, DirectoryAssumptions
       DEF Init, Gatherings, Published, Inputs, Gathered, GatheredBy, Readers, Lockers, Callers

LEMMA StepPublished ==
    ASSUME Gatherings, [Next]_vars
    PROVE  Published'
<1> USE DirectoryAssumptions DEF Gatherings, Published, Stages, Typed, TypeOK, ByRole, LockHeld,
           world, set, fetches, inputs, memo, Callers, Readers, Lockers
<1>1. ASSUME NEW c \in Callers, Ask(c) PROVE Published'
    BY <1>1 DEF Ask
<1>2. ASSUME NEW c \in Callers, Store(c) PROVE Published'
    BY <1>2 DEF Store
<1>3. ASSUME NEW c \in Callers, ReloadList(c) PROVE Published'
    BY <1>3 DEF ReloadList
<1>4. ASSUME NEW c \in Callers, ReloadFails(c) PROVE Published'
    BY <1>4 DEF ReloadFails
<1>5. ASSUME NEW c \in Callers, Publish(c) PROVE Published'
    BY <1>5 DEF Publish
<1>6. ASSUME NEW c \in Callers, Reconcile(c) PROVE Published'
    BY <1>6 DEF Reconcile
<1>7. ASSUME NEW c \in Callers, PassStart(c) PROVE Published'
    BY <1>7 DEF PassStart, TakeLock
<1>8. ASSUME NEW c \in Callers, SweepStart(c) PROVE Published'
    BY <1>8 DEF SweepStart, TakeLock
<1>9. ASSUME NEW c \in Callers, PlanStart(c) PROVE Published'
    BY <1>9 DEF PlanStart
<1>10. ASSUME NEW c \in Callers, RefreshEnds(c) PROVE Published'
    BY <1>10 DEF RefreshEnds, Refreshes
<1>11. ASSUME NEW c \in Callers, ReadConfig(c) PROVE Published'
    BY <1>11 DEF ReadConfig, NextRead
<1>12. ASSUME NEW c \in Callers, ReadHealth(c) PROVE Published'
    BY <1>12 DEF ReadHealth, NextRead
<1>13. ASSUME NEW c \in Callers, ReadSnapshots(c) PROVE Published'
    BY <1>13 DEF ReadSnapshots, NextRead
<1>14. ASSUME NEW c \in Callers, NextOrg(c) PROVE Published'
    BY <1>14 DEF NextOrg
<1>15. ASSUME NEW c \in Callers, Leave(c) PROVE Published'
    BY <1>15 DEF Leave
<1>16. ASSUME NEW c \in Callers, View(c) PROVE Published'
    BY <1>16 DEF View
<1>17. ASSUME NEW c \in Callers, Claim(c) PROVE Published'
    BY <1>17 DEF Claim
<1>18. ASSUME NEW c \in Callers, FlightEnds(c) PROVE Published'
    BY <1>18 DEF FlightEnds, Refreshes
<1>19. CASE Reload
    BY <1>19 DEF Reload
<1>20. CASE Tick
    BY <1>20 DEF Tick
<1>21. CASE Outside
    BY <1>21 DEF Outside
<1>22. CASE UNCHANGED vars
    BY <1>22 DEF vars
<1> QED
    BY <1>1, <1>2, <1>3, <1>4, <1>5, <1>6, <1>7, <1>8, <1>9, <1>10, <1>11,
       <1>12, <1>13, <1>14, <1>15, <1>16, <1>17, <1>18, <1>19, <1>20, <1>21, <1>22
       DEF Next, Fetching, Reloading, Starting, Reading, Viewing

LEMMA StepInputs == ASSUME Inputs, [Next]_vars PROVE Inputs'
    BY DEF Inputs, Next, vars, world, set, fetches, inputs, memo, Fetching, Reloading,
           Starting, Reading, Viewing, Ask, Store, ReloadList, ReloadFails, Publish,
           Reconcile, PassStart, SweepStart, PlanStart, RefreshEnds, ReadConfig,
           ReadHealth, ReadSnapshots, NextOrg, Leave, View, Claim, FlightEnds,
           Reload, Tick, Outside

\* A fetch, failed or not, never empties a cache.
LEMMA FilledStays ==
    ASSUME Stages, NEW c \in Callers, Store(c)
    PROVE  \A s \in Dirs : cache[s].snap # Nothing => cache'[s].snap # Nothing
<1>1. ASSUME NEW s \in Dirs, cache[s].snap # Nothing, s = job[c].dir
      PROVE  cache'[s].snap # Nothing
    BY <1>1, StoreEffect
<1>2. ASSUME NEW s \in Dirs, cache[s].snap # Nothing, s # job[c].dir
      PROVE  cache'[s].snap # Nothing
    BY <1>2, StoreEffect
<1> QED
    BY <1>1, <1>2

\* Nobody else changes the set under a caller with the lock.
LEMMA OwnReload ==
    ASSUME Stages, NEW c \in Readers, lock = c, pc[c] # "idle", NEW d \in Callers, Reconcile(d)
    PROVE  d = c
    BY DirectoryAssumptions DEF Stages, ByRole, LockHeld, Reconcile, Callers, Readers, Lockers,
       Typed, TypeOK

LEMMA StepGathered ==
    ASSUME Gatherings, [Next]_vars
    PROVE  Gathered'
<1> USE DirectoryAssumptions DEF Gatherings, Gathered, GatheredBy, Inputs, Stages, Typed, TypeOK, ByRole,
           LockHeld, world, set, fetches, inputs, memo, Callers, Readers, Lockers
<1>1. ASSUME NEW c \in Callers, Ask(c) PROVE Gathered'
    BY <1>1 DEF Ask
<1>2. ASSUME NEW c \in Callers, Store(c) PROVE Gathered'
    <2>1. ASSUME NEW r \in Readers, lock' = r PROVE GatheredBy(r)'
        <3>1. \A s \in Dirs : cache[s].snap # Nothing => cache'[s].snap # Nothing
            BY <1>2, FilledStays
        <3>2. UNCHANGED <<held, pc, lock, cfg, unhealthy, snaps>>
            BY <1>2 DEF Store
        <3>3. pc[r] = "snapshots" => cfg[r] \subseteq Dirs
            BY <2>1, <3>2
        <3> QED
            BY <2>1, <3>1, <3>2, <3>3
    <2> QED
        BY <2>1
<1>3. ASSUME NEW c \in Callers, ReloadList(c) PROVE Gathered'
    BY <1>3 DEF ReloadList
<1>4. ASSUME NEW c \in Callers, ReloadFails(c) PROVE Gathered'
    BY <1>4 DEF ReloadFails
<1>5. ASSUME NEW c \in Callers, Publish(c) PROVE Gathered'
    BY <1>5 DEF Publish
<1>6. ASSUME NEW c \in Callers, Reconcile(c) PROVE Gathered'
    <2>1. ASSUME NEW r \in Readers, lock' = r PROVE GatheredBy(r)'
        <3>1. CASE pc[r] = "idle"
            BY <1>6, <3>1 DEF Reconcile
        <3>2. CASE pc[r] # "idle"
            <4>1. r = c
                BY <1>6, <2>1, <3>2, OwnReload DEF Reconcile
            <4> QED
                BY <1>6, <4>1 DEF Reconcile
        <3> QED
            BY <3>1, <3>2
    <2> QED
        BY <2>1
<1>7. ASSUME NEW c \in Callers, PassStart(c) PROVE Gathered'
    BY <1>7 DEF PassStart, TakeLock
<1>8. ASSUME NEW c \in Callers, SweepStart(c) PROVE Gathered'
    BY <1>8 DEF SweepStart, TakeLock
<1>9. ASSUME NEW c \in Callers, PlanStart(c) PROVE Gathered'
    BY <1>9 DEF PlanStart
<1>10. ASSUME NEW c \in Callers, RefreshEnds(c) PROVE Gathered'
    BY <1>10 DEF RefreshEnds, Refreshes
<1>11. ASSUME NEW c \in Callers, ReadConfig(c) PROVE Gathered'
    <2>1. c \in Readers /\ pc'[c] = "health"
        BY <1>11 DEF ReadConfig, NextRead
    <2>2. lock = c => cfg'[c] \subseteq held
        <3>1. lock = c => \A d \in Passes : pc[d] # "reconcile"
            BY <1>11 DEF ReadConfig
        <3> QED
            BY <1>11, <2>1, <3>1 DEF ReadConfig, Published
    <2>3. \A r \in Readers : r # c => pc'[r] = pc[r] /\ cfg'[r] = cfg[r]
        BY <1>11 DEF ReadConfig, NextRead
    <2>4. UNCHANGED <<held, cache, lock, unhealthy, snaps>>
        BY <1>11 DEF ReadConfig
    <2>5. ASSUME NEW r \in Readers, lock' = r PROVE GatheredBy(r)'
        BY <2>1, <2>2, <2>3, <2>4, <2>5
    <2> QED
        BY <2>5
<1>12. ASSUME NEW c \in Callers, ReadHealth(c) PROVE Gathered'
    <2>1. c \in Readers /\ pc[c] = "health" /\ pc'[c] = "snapshots"
        BY <1>12 DEF ReadHealth, NextRead
    <2>2. unhealthy'[c] = {s \in held : ~Healthy(s)}
        BY <1>12, <2>1 DEF ReadHealth
    <2>3. \A r \in Readers : r # c => pc'[r] = pc[r] /\ unhealthy'[r] = unhealthy[r]
        BY <1>12 DEF ReadHealth, NextRead
    <2>4. UNCHANGED <<held, cache, lock, cfg, snaps>>
        BY <1>12 DEF ReadHealth
    <2>5. ASSUME NEW r \in Readers, lock' = r PROVE GatheredBy(r)'
        BY <2>1, <2>2, <2>3, <2>4, <2>5 DEF Healthy
    <2> QED
        BY <2>5
<1>13. ASSUME NEW c \in Callers, ReadSnapshots(c) PROVE Gathered'
    <2>1. c \in Readers /\ pc[c] = "snapshots" /\ pc'[c] = "join"
        BY <1>13 DEF ReadSnapshots, NextRead
    <2>2. DOMAIN snaps'[c] = {r \in held : cache[r].snap # Nothing}
        BY <1>13, <2>1 DEF ReadSnapshots, Snapshots
    <2>3. \A r \in Readers : r # c => pc'[r] = pc[r] /\ snaps'[r] = snaps[r]
        BY <1>13 DEF ReadSnapshots, NextRead
    <2>4. UNCHANGED <<held, cache, lock, cfg, unhealthy>>
        BY <1>13 DEF ReadSnapshots
    <2>5. ASSUME NEW r \in Readers, lock' = r PROVE GatheredBy(r)'
        BY <2>1, <2>2, <2>3, <2>4, <2>5
    <2> QED
        BY <2>5
<1>14. ASSUME NEW c \in Callers, NextOrg(c) PROVE Gathered'
    BY <1>14 DEF NextOrg
<1>15. ASSUME NEW c \in Callers, Leave(c) PROVE Gathered'
    BY <1>15 DEF Leave
<1>16. ASSUME NEW c \in Callers, View(c) PROVE Gathered'
    BY <1>16 DEF View
<1>17. ASSUME NEW c \in Callers, Claim(c) PROVE Gathered'
    BY <1>17 DEF Claim
<1>18. ASSUME NEW c \in Callers, FlightEnds(c) PROVE Gathered'
    BY <1>18 DEF FlightEnds, Refreshes
<1>19. CASE Reload
    BY <1>19 DEF Reload
<1>20. CASE Tick
    <2>1. \A c \in Readers : pc'[c] = "idle"
        BY <1>20 DEF Tick
    <2> QED
        BY <2>1
<1>21. CASE Outside
    BY <1>21 DEF Outside
<1>22. CASE UNCHANGED vars
    BY <1>22 DEF vars
<1> QED
    BY <1>1, <1>2, <1>3, <1>4, <1>5, <1>6, <1>7, <1>8, <1>9, <1>10, <1>11,
       <1>12, <1>13, <1>14, <1>15, <1>16, <1>17, <1>18, <1>19, <1>20, <1>21, <1>22
       DEF Next, Fetching, Reloading, Starting, Reading, Viewing

LEMMA StepGatherings == ASSUME Gatherings, [Next]_vars PROVE Gatherings'
    BY StepStages, StepPublished, StepInputs, StepGathered DEF Gatherings

-----------------------------------------------------------------------------
(* "Fresh liveness first": what a caller with the lock has refreshed it    *)
(* reads no older than the moment it took the lock.                        *)

Beginnings == DOMAIN began = Dirs /\ \A s \in Dirs : began[s] \in Nat /\ began[s] <= version[s]

YoungAnswer(c) ==
    lock = c /\ job[c].got # Nothing => job[c].got \in Nat /\ job[c].got >= began[job[c].dir]

\* A cache of the set is healthy and young, or still to be refreshed, or somebody else's.
YoungCaches(c) ==
    lock = c /\ pc[c] \in {"refresh", "config", "health", "snapshots", "join"} =>
        \A s \in held \ (todo[c] \union mixed) : Healthy(s) => cache[s].snap >= began[s]

YoungReading(c) ==
    lock = c =>
        /\ pc[c] = "snapshots" =>
            \A s \in held \ (unhealthy[c] \union mixed) :
                cache[s].snap # Nothing /\ cache[s].snap >= began[s]
        /\ pc[c] = "join" =>
            \A s \in DOMAIN snaps[c] \ (unhealthy[c] \union mixed) :
                snaps[c][s] >= began[s]

Young == \A c \in Readers : YoungAnswer(c) /\ YoungCaches(c) /\ YoungReading(c)

Freshness == Gatherings /\ Beginnings /\ Young

LEMMA InitFreshness == ASSUME Init PROVE Freshness
<1>1. Gatherings
    BY InitGatherings
<1>2. Beginnings
    BY DEF Init, Beginnings
<1>3. \A c \in Readers : pc[c] = "idle" /\ job[c].got = Nothing
    BY DEF Init, NoJob, Callers
<1>4. Young
    BY <1>3 DEF Young, YoungAnswer, YoungCaches, YoungReading
<1> QED
    BY <1>1, <1>2, <1>4 DEF Freshness

LEMMA StoreElsewhere ==
    ASSUME Stages, NEW c \in Callers, Store(c), NEW s \in Dirs, s # job[c].dir
    PROVE  cache'[s] = cache[s]
    BY StoreEffect

LEMMA SnapshotsAre ==
    /\ DOMAIN Snapshots = {s \in held : cache[s].snap # Nothing}
    /\ \A s \in DOMAIN Snapshots : Snapshots[s] = cache[s].snap
    BY DEF Snapshots

\* An answer just asked for is as young as its directory.
LEMMA AskYoung ==
    ASSUME Stages, Beginnings, NEW c \in Callers, Ask(c), job'[c].got # Nothing
    PROVE  job'[c].got \in Nat /\ job'[c].got >= began[job'[c].dir]
<1>1. job'[c].dir \in Dirs
    BY AskEffect DEF Stages, Typed, TypeOK
<1>2. job'[c].got = version[job'[c].dir]
    BY AskEffect
<1>3. \A s \in Dirs : version[s] \in Nat
    BY DirectoryAssumptions DEF Stages, Typed, TypeOK, Versions
<1> QED
    BY <1>1, <1>2, <1>3 DEF Beginnings

LEMMA StepBeginnings == ASSUME Stages, Beginnings, [Next]_vars PROVE Beginnings'
<1>1. CASE began' = began /\ version' = version
    BY <1>1 DEF Beginnings
<1>2. CASE Outside
    BY <1>2, VersionsGrow DEF Outside, Beginnings, memo, Stages, Typed, TypeOK, Versions
<1>3. ASSUME NEW c \in Callers, PassStart(c) \/ SweepStart(c) \/ Leave(c)
      PROVE  Beginnings'
    BY <1>3 DEF PassStart, SweepStart, Leave, TakeLock, Beginnings, world, Stages, Typed,
       TypeOK, Versions
<1>4. \/ began' = began /\ version' = version
      \/ Outside
      \/ \E c \in Callers : PassStart(c) \/ SweepStart(c) \/ Leave(c)
    BY DEF Next, vars, world, set, fetches, inputs, memo, Fetching, Reloading,
           Starting, Reading, Viewing, Ask, Store, ReloadList, ReloadFails, Publish,
           Reconcile, PlanStart, RefreshEnds, ReadConfig, ReadHealth,
           ReadSnapshots, NextOrg, View, Claim, FlightEnds, Reload, Tick
<1> QED
    BY <1>1, <1>2, <1>3, <1>4

LEMMA StepYoung ==
    ASSUME Freshness, [Next]_vars
    PROVE  Young'
<1> USE DirectoryAssumptions DEF Freshness, Gatherings, Beginnings, Inputs, Young, YoungAnswer, YoungCaches,
           YoungReading, Stages, Typed, TypeOK, ByRole, JobStage, LockHeld, world, set, fetches,
           inputs, memo, Callers, Readers, Lockers, Healthy
<1>1. ASSUME NEW c \in Callers, Ask(c) PROVE Young'
    <2>1. UNCHANGED <<held, cache, pc, todo, lock, unhealthy, snaps, began, mixed>>
        BY <1>1 DEF Ask
    <2>2. \A d \in Callers : d # c => job'[d] = job[d]
        BY <1>1, AskEffect
    <2>3. job'[c].got # Nothing => job'[c].got \in Nat /\ job'[c].got >= began[job'[c].dir]
        BY <1>1, AskYoung
    <2> QED
        BY <2>1, <2>2, <2>3
<1>2. ASSUME NEW c \in Callers, Store(c) PROVE Young'
    <2>1. UNCHANGED <<held, pc, lock, unhealthy, snaps, began>>
        BY <1>2 DEF Store
    <2> DEFINE s == job[c].dir
    <2>2. /\ todo' = [todo EXCEPT ![c] = @ \ {s}]
          /\ mixed' = IF c = lock THEN mixed ELSE mixed \union {s}
          /\ pc[c] = "refresh"
        BY <1>2 DEF Store
    <2>3. /\ job'[c] = NoJob
          /\ \A d \in Callers : d # c => job'[d] = job[d]
        BY <1>2, StoreEffect
    <2>4. ASSUME NEW r \in Readers PROVE YoungAnswer(r)'
        BY <2>1, <2>3, <2>4 DEF NoJob
    <2>5. ASSUME NEW r \in Readers PROVE YoungCaches(r)'
        <3>1. SUFFICES ASSUME lock = r,
                              pc[r] \in {"refresh", "config", "health", "snapshots", "join"},
                              NEW q \in held \ (todo'[r] \union mixed'), Healthy(q)'
                       PROVE  cache'[q].snap >= began[q]
            BY <2>1
        <3>2. q \in Dirs
            OBVIOUS
        <3>3. CASE q # s
            <4>1. cache'[q] = cache[q]
                BY <1>2, <3>2, <3>3, StoreElsewhere
            <4>2. q \notin todo[r] \union mixed
                BY <2>2, <3>1, <3>3
            <4> QED
                BY <3>1, <4>1, <4>2
        <3>4. CASE q = s
            <4>1. r = c
                BY <2>2, <3>1, <3>4
            <4>2. job[c].got # Nothing => cache'[q].snap = job[c].got
                BY <1>2, <3>4, StoreEffect
            <4>3. job[c].got = Nothing => cache'[q].ok = FALSE
                BY <1>2, <3>4, StoreEffect
            <4> QED
                BY <3>1, <3>4, <4>1, <4>2, <4>3
        <3> QED
            BY <3>3, <3>4
    <2>6. ASSUME NEW r \in Readers PROVE YoungReading(r)'
        <3>1. CASE lock # r \/ pc[r] \notin {"snapshots", "join"}
            BY <2>1, <3>1
        <3>2. CASE lock = r /\ pc[r] \in {"snapshots", "join"}
            <4>1. mixed' = mixed \union {s}
                BY <2>2, <3>2
            <4>2. \A q \in Dirs : q # s => cache'[q] = cache[q]
                BY <1>2, StoreEffect
            <4> QED
                BY <2>1, <3>2, <4>1, <4>2
        <3> QED
            BY <3>1, <3>2
    <2> QED
        BY <2>4, <2>5, <2>6
<1>3. ASSUME NEW c \in Callers, ReloadList(c) PROVE Young'
    BY <1>3 DEF ReloadList
<1>4. ASSUME NEW c \in Callers, ReloadFails(c) PROVE Young'
    BY <1>4 DEF ReloadFails
<1>5. ASSUME NEW c \in Callers, Publish(c) PROVE Young'
    BY <1>5 DEF Publish
<1>6. ASSUME NEW c \in Callers, Reconcile(c) PROVE Young'
    <2>0. UNCHANGED <<lock, unhealthy, snaps, began, mixed>>
        BY <1>6 DEF Reconcile
    <2>1. ASSUME NEW r \in Readers, lock = r PROVE (YoungAnswer(r) /\ YoungCaches(r) /\ YoungReading(r))'
        <3>1. CASE pc[r] = "idle"
            <4>1. pc'[r] = "idle" /\ job'[r] = NoJob
                BY <1>6, <3>1 DEF Reconcile
            <4> QED
                BY <4>1 DEF NoJob
        <3>2. CASE pc[r] # "idle"
            <4>1. r = c
                BY <1>6, <2>1, <3>2, OwnReload
            <4>2. pc'[r] \in {"idle", "refresh"} /\ job'[r] = NoJob
                BY <1>6, <4>1 DEF Reconcile
            <4>3. pc'[r] = "refresh" => todo'[r] = held'
                BY <1>6, <4>1 DEF Reconcile
            <4> QED
                BY <2>0, <4>2, <4>3 DEF NoJob
        <3> QED
            BY <3>1, <3>2
    <2> QED
        BY <2>0, <2>1
<1>7. ASSUME NEW c \in Callers, PassStart(c) PROVE Young'
    <2>1. lock' = c /\ job[c] = NoJob /\ job' = job /\ pc'[c] \in {"reload", "refresh"}
        BY <1>7 DEF PassStart, TakeLock
    <2>2. pc'[c] = "refresh" => todo'[c] = held'
        BY <1>7 DEF PassStart, TakeLock
    <2> QED
        BY <2>1, <2>2 DEF NoJob
<1>8. ASSUME NEW c \in Callers, SweepStart(c) PROVE Young'
    <2>1. lock' = c /\ job[c] = NoJob /\ job' = job /\ pc'[c] \in {"reload", "refresh"}
        BY <1>8 DEF SweepStart, TakeLock
    <2>2. pc'[c] = "refresh" => todo'[c] = held'
        BY <1>8 DEF SweepStart, TakeLock
    <2> QED
        BY <2>1, <2>2 DEF NoJob
<1>9. ASSUME NEW c \in Callers, PlanStart(c) PROVE Young'
    BY <1>9 DEF PlanStart
<1>10. ASSUME NEW c \in Callers, RefreshEnds(c) PROVE Young'
    BY <1>10 DEF RefreshEnds, Refreshes
<1>11. ASSUME NEW c \in Callers, ReadConfig(c) PROVE Young'
    BY <1>11 DEF ReadConfig, NextRead
<1>12. ASSUME NEW c \in Callers, ReadHealth(c) PROVE Young'
    <2>1. c \in Readers /\ pc[c] = "health" /\ pc' = [pc EXCEPT ![c] = "snapshots"]
        BY <1>12 DEF ReadHealth, NextRead
    <2>2. /\ unhealthy'[c] = {s \in held : ~Healthy(s)}
          /\ \A r \in Readers : r # c => unhealthy'[r] = unhealthy[r]
        BY <1>12, <2>1 DEF ReadHealth
    <2>3. UNCHANGED <<held, cache, job, todo, lock, snaps, began, mixed>>
        BY <1>12 DEF ReadHealth
    <2>4. lock = c => \A s \in held \ (unhealthy'[c] \union mixed) :
                cache[s].snap # Nothing /\ cache[s].snap >= began[s]
        BY <2>1, <2>2
    <2>5. ASSUME NEW r \in Readers PROVE (YoungAnswer(r) /\ YoungCaches(r) /\ YoungReading(r))'
        <3>1. CASE r = c
            BY <2>1, <2>3, <2>4, <3>1
        <3>2. CASE r # c
            BY <2>1, <2>2, <2>3, <3>2
        <3> QED
            BY <3>1, <3>2
    <2> QED
        BY <2>5
<1>13. ASSUME NEW c \in Callers, ReadSnapshots(c) PROVE Young'
    <2>1. c \in Readers /\ pc[c] = "snapshots" /\ pc' = [pc EXCEPT ![c] = "join"]
        BY <1>13 DEF ReadSnapshots, NextRead
    <2>2. /\ snaps'[c] = Snapshots
          /\ \A r \in Readers : r # c => snaps'[r] = snaps[r]
        BY <1>13, <2>1 DEF ReadSnapshots
    <2>3. UNCHANGED <<held, cache, job, todo, lock, unhealthy, began, mixed>>
        BY <1>13 DEF ReadSnapshots
    <2>4. lock = c => \A s \in DOMAIN snaps'[c] \ (unhealthy[c] \union mixed) :
                snaps'[c][s] >= began[s]
        <3>1. \A s \in DOMAIN snaps'[c] : s \in held /\ snaps'[c][s] = cache[s].snap
            BY <2>2, SnapshotsAre
        <3>2. lock = c => \A s \in held \ (unhealthy[c] \union mixed) :
                    cache[s].snap >= began[s]
            BY <2>1
        <3> HIDE DEF Freshness
        <3> QED
            BY <3>1, <3>2, Zenon
    <2>5. ASSUME NEW r \in Readers PROVE (YoungAnswer(r) /\ YoungCaches(r) /\ YoungReading(r))'
        <3>1. CASE r = c
            BY <2>1, <2>3, <2>4, <3>1
        <3>2. CASE r # c
            BY <2>1, <2>2, <2>3, <3>2
        <3> QED
            BY <3>1, <3>2
    <2> QED
        BY <2>5
<1>14. ASSUME NEW c \in Callers, NextOrg(c) PROVE Young'
    BY <1>14 DEF NextOrg
<1>15. ASSUME NEW c \in Callers, Leave(c) PROVE Young'
    BY <1>15 DEF Leave
<1>16. ASSUME NEW c \in Callers, View(c) PROVE Young'
    BY <1>16 DEF View
<1>17. ASSUME NEW c \in Callers, Claim(c) PROVE Young'
    BY <1>17 DEF Claim
<1>18. ASSUME NEW c \in Callers, FlightEnds(c) PROVE Young'
    BY <1>18 DEF FlightEnds, Refreshes
<1>19. CASE Reload
    BY <1>19 DEF Reload
<1>20. CASE Tick
    <2>1. \A c \in Readers : pc'[c] = "idle" /\ job'[c] = NoJob
        BY <1>20 DEF Tick
    <2> QED
        BY <2>1 DEF NoJob
<1>21. CASE Outside
    BY <1>21 DEF Outside
<1>22. CASE UNCHANGED vars
    BY <1>22 DEF vars
<1> QED
    BY <1>1, <1>2, <1>3, <1>4, <1>5, <1>6, <1>7, <1>8, <1>9, <1>10, <1>11,
       <1>12, <1>13, <1>14, <1>15, <1>16, <1>17, <1>18, <1>19, <1>20, <1>21, <1>22
       DEF Next, Fetching, Reloading, Starting, Reading, Viewing

LEMMA StepFreshness == ASSUME Freshness, [Next]_vars PROVE Freshness'
    BY StepGatherings, StepBeginnings, StepYoung DEF Freshness, Gatherings

-----------------------------------------------------------------------------
LEMMA FlightsHold == Spec => []Flights
<1>1. Init => Flights
    BY InitFlights
<1>2. Flights /\ [Next]_vars => Flights'
    BY StepFlights
<1> QED
    BY <1>1, <1>2, PTL DEF Spec

\* The types of the set of caches and of its callers (directory/cache.go).
THEOREM CachesTyped == Spec => []TypeOK
<1>1. Flights => TypeOK
    BY DEF Flights, Stages, Typed
<1> QED
    BY <1>1, FlightsHold, PTL

\* Each cache is the last known good answer of its directory: a failed fetch
\* takes away trust and never knowledge, trust returns with an answer only, and
\* in the console no answer overwrites a younger one (cache.go:82-108).
THEOREM CachesKeepLastKnownGood == Spec => KeepsLastKnownGood
<1>1. Init => Caches!Init
    BY InitRefines
<1>2. Flights /\ [Next]_vars => [Caches!Next]_(Caches!vars)
    BY StepRefines
<1> QED
    BY <1>1, <1>2, FlightsHold, PTL DEF Spec, KeepsLastKnownGood, Caches!Spec

LEMMA GatheringsHold == Spec => []Gatherings
<1>1. Init => Gatherings
    BY InitGatherings
<1>2. Gatherings /\ [Next]_vars => Gatherings'
    BY StepGatherings
<1> QED
    BY <1>1, <1>2, PTL DEF Spec

\* Whatever the order of fetches, reloads and plan requests, the join of
\* whoever holds the lock has, of every directory of its configuration, a
\* snapshot or the warning (broker.go:337-347, removals.go:115-124).
THEOREM PassesKnowWhatTheyTrust == Spec => []TrustedIsKnown
<1>1. Gatherings => TrustedIsKnown
    BY DEF Gatherings, Gathered, GatheredBy, TrustedIsKnown
<1> QED
    BY <1>1, GatheringsHold, PTL
\* "Fresh liveness first" (broker.go:337): of a directory not named unhealthy
\* the join of whoever holds the lock reads nothing older than the moment the
\* lock was taken, unless a plan request stored an answer of it meanwhile.
THEOREM PassesReadFresh == Spec => []TrustedIsFresh
<1>1. Init => Freshness
    BY InitFreshness
<1>2. Freshness /\ [Next]_vars => Freshness'
    BY StepFreshness
<1>3. Freshness => TrustedIsFresh
    BY DEF Freshness, Young, YoungReading, TrustedIsFresh
<1> QED
    BY <1>1, <1>2, <1>3, PTL DEF Spec
=============================================================================
