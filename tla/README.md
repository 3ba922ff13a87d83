# Verification of github-roster

github-roster keeps the membership of GitHub organizations equal to what two
sources say: the company directories (who is live, in which group) and an
operator-approved mapping from people to GitHub logins. Two processes share
the work: the *broker* holds the write credential, plans, applies and
reconciles; the *console* serves the pages and writes what operators decide to
a parameter store both read. This directory models both and the decisions they
take, checks them with TLC and proves the central results with TLAPS.

Contents: [inventory](#inventory) - [modules](#modules) - [runs](#runs) -
[findings](#findings) - [bounds](#bounds) - [fairness](#fairness) -
[proofs](#proofs) - [not modelled](#not-modelled)

## Inventory

| Part (src/pkg) | State it keeps | Operations | What makes it correct | Module |
|---|---|---|---|---|
| broker: `broker.go`, `plans.go` | apply lock, plan store (1 h TTL, in memory) | plan, get plan, apply | one writer at a time; exactly the approved plan executes; every write is recorded | `Broker` |
| broker: `runs.go`, `client.go` | registry of asynchronous runs, transcript and subscribers of each | accept, run, stream | every run ends; the transcript is in order, complete but for full buffers, and closed by a verdict | `Broker`, `RunStream` |
| broker: `reconcile.go` | status per organization | tick, triggered pass, pause, enable | a held organization is not written; the loop converges | `Broker`, `Loop` |
| broker: `removals.go` | none | sweep of leavers | removes only, and only people a directory says are gone | `Broker`, `Loop`, `OrgRead` |
| broker: `reload.go` | effective configuration | merge store directories into the caches' set | a pass knows every directory of the configuration it joins with | `DirectorySet` |
| directory: `cache.go` | per source: last good snapshot, last error; the set; a single-flight guard | refresh, refresh if stale, reconcile the set | last known good; health tells the truth about the snapshot; pages never freeze | `DirectorySet` |
| directory: `google.go`, `resolver.go` | none | fetch | an absent group fails safe | `Loop`, `DirectorySet` |
| roster | none (pure) | join, lifecycle states, warnings | liveness per organization; nobody live is thought gone; the page announces what plans do | `Roster`, `Lifecycle` |
| peribolos | none (pure) | render, in two modes | a failed directory removes nobody; owners pass through | `Roster` |
| reconciler | none | diff, guards, order, execute | guards hold; the order never locks an organization | `Roster` |
| mapping | parameters in SSM, one per field; entries declared in git | list, get, put, delete | logins, addresses and abbreviations stay distinct; an edit leaves nothing of what it replaced | `MappingStore` |
| configstore | parameters in SSM, one per field | list, put, delete | what is being replaced stays listed; what was asked last is what is stored | `ConfigStore` |
| orgstate | none in the broker; in the console a cache | read, page by page | a torn reading misleads only about those who moved | `OrgRead` |
| audit | objects in S3 | write, list | a run that wrote is on the History page | `AuditTrail` |
| server, app | clients, due reloads, one state cookie per browser | pause, enable, entries, directories, teams, the App flow, tickers | checked writes; credentials go to their organization; the store is followed without a restart | `ConfigStore`, `MappingStore`, `Broker` |
| githubapp, auth, config, selftest, ui | credentials, static configuration | | presentation, I/O, parsing | - |

How they interact. A plan request, an apply, an asynchronous run, a reconcile
pass and a sweep all go through the same steps: refresh the directory caches
(shared, refreshed by anybody at any time, also without the lock), list the
mapping, read the organization (`ReadScoped`), join, render, diff, and - except
for a plan request - execute and record. Applies and asynchronous runs wait
for the lock; passes and sweeps try it and drop out. The console reaches the
broker by HTTP and by the parameters both read; a stream of a run goes from the
broker through the console's client to the browser.

What is hard: five kinds of goroutine on one lock with many early returns;
plans approved long before they execute; caches that others refresh between
two steps; directories that fail, hang, have never answered, or come and go
with the store; a store without transactions, read one page and written one
parameter at a time; organizations read in many requests while they change;
contexts that end between a write and its record; channels that fill up, close
and are left behind; restarts that empty every cache; a loop that must neither
oscillate nor get stuck. The hazards are listed with their lines in
`PROJECT.json`, each with the properties that would catch it.

## Modules

| Module | Models | Extends |
|---|---|---|
| `Broker` | the goroutines of `src/pkg/broker`, the lock, the plan store, the audit call | - |
| `Roster` | the pure decision: join, rendering, diff, guards, order | - |
| `Lifecycle` | the People page: lifecycle states and warnings | `Roster` |
| `Loop` | passes of one organization from the directories to GitHub | `Lifecycle` |
| `OrgRead` | the reading of an organization, request by request, and the plan made of it | `Roster` |
| `MappingStore` | console requests on the mapping, parameter by parameter | - |
| `LastKnownGood` | abstract: what a directory cache promises | - |
| `DirectorySet` | the set of caches, those who refresh and those who read it, in both processes | instance of `LastKnownGood` |
| `Narration` | abstract: an append-only log with readers that may lag | - |
| `AuditTrail` | keys, objects and listing of the audit bucket | - |
| `RunStream` | runs, registry, subscribers and streams, down to the audit record | `AuditTrail`, instance of `Narration` |
| `ConfigStore` | directories, organizations, teams and Apps in the store, their handlers, the App flow, the console's tickers | - |
| `MC*` | constants of the instances TLC checks | the module of that name |
| `BrokerProofs`, `RosterProofs` (with `Lifecycle`), `LoopProofs`, `OrgReadProofs`, `MappingProofs`, `DirectoryProofs`, `RunStreamProofs`, `ConfigStoreProofs` | theorems | their module, `TLAPS`; `LoopProofs` and `OrgReadProofs` also `RosterProofs` |

How they fit together. `Broker` keeps every goroutine and abstracts the
decision: a refresh makes a directory say anything at all, so that nothing
proved there leans on directories. `Loop` keeps the whole decision and one pass
at a time, which is what `Broker` shows the lock to give; console plan requests
remain in it as refreshes at any moment (`OtherRefresh`). What `Loop` takes in
one step, two modules take apart: `DirectorySet` the reload and the fetches,
`OrgRead` the reading of the organization. `Loop` uses mapping entries as whole
ones that are checked against each other, which `MappingStore` establishes, and
directories of the store as whole ones, which `ConfigStore` does. `RunStream`
continues a run of `Broker` to those who watch it and to its record.

**Broker.** One state machine per goroutine (`pc`): *idle*, *wait* (for the
lock), *open* (a pass's own refresh), *next* (its next organization),
*refresh*, *read*, *join*, *exec*, *record*. `PlanRequest` is `handlePlan`;
`ApplyRequest`, `Lock` the beginning of `handleApply` and `handleApplyAsync`;
`PassStart`, `NextOrg`, `PassEnd` are `RunReconcile` and `RunRemovals`;
`Refresh`, `ReadScoped`, `ComputeFails` are `compute`; `StorePlan`, `Verify`,
`Drift`, `Gate`, `Sweep` are what each kind does with the plan; `ExecuteOne`,
`ExecuteFails`, `ExecuteDone`, `Record` carry it out. An action of a plan is a
login to add or remove. A timed-out write may have reached GitHub
(`ExecuteFails`). `Record` puts the run on record or, when the put fails, reports
it as lost and lets it end all the same; `unfiled` and `lost` remember which
organizations' last runs to write are on no record and which of these were
reported. `ContextDone` ends the context of an asynchronous run or a
pass; the context of a synchronous apply does not end early, as fasthttp gives
it no deadline. `Restart` empties everything in memory, the locals of
goroutines and a record in hand included. The hash of a plan is taken as
injective.

**Roster.** `in` is what `compute` and `sweepOrg` have in hand. `Claimed`,
`Rank`, `Overwrites` and `Identities` are `livenessIndexes` and
`resolveLiveness`: an entry claims all accounts with a display name one of its
addresses points at, or with its own name, and holds one identity per
directory, the last folded in. `GrantLive` is the home-company rule,
`StandsHere`/`OnlyDisplayed` the standing with display-only domains,
`DesiredTeams` the teams, `ExpectedSources` where a person should be known.
`FullMembers`, `RemovalsOnlyMembers`, `RenderTeams`, `Render` are
`peribolos`, `Protected` is `onlyKnownBy`. `BuildPlan`, `Refused`, `Before`
are the reconciler. Addresses are numbers in the order a directory lists them.

**Lifecycle.** `MembershipState` and `PersonState` are the functions of those
names, `Warnings` what `Join`, `unmappedWarnings` and `membershipWarnings`
report, over the same `in` as a plan and for one organization. `Announces` says
what each state lets a plan do; it is the specification, not code.

**Loop.** What directories, store, mapping and GitHub really hold; what the
caches remember; one pass. `Reload` is `reloadDirectories`, `Fetch` and
`FetchFails` are `Cache.Refresh`, `Read` is `Mapping.List` and `ReadScoped`,
`Plan` is `PlanFor` on the caches *as they are by then*, `ExecuteOne` writes
with the effect GitHub documents (`Effect`: an outsider is invited, a team is
offered with the invitation, who leaves the organization leaves its teams).
A missing group is recorded as absent by a resolver and by a Workspace with a
probe group; it fails the whole fetch of a Workspace without one for as long as
it is missing (`Readable`, `Probed`), and such failures count against no bound.
Everything outside may move between any two steps: accounts, groups, group
existence, the store, the mapping, GitHub itself, restarts.

**OrgRead.** Owners are listed page by page, then members, beside them the
invitations and each team; a page is what GitHub lists at that position *then*
(`PageOf`). `State` assembles the pages, `Roles` is the index of
`planMembership`, in which the later of two records of one login holds,
`PlanOf` what `compute` and `sweepOrg` make of it. Between any two pages
people are invited, accept, are promoted, demoted or removed.

**DirectorySet.** One caller per goroutine: a full pass, a sweep, a plan
request in the broker; page views and the reload ticker in the console. `Ask`
and `Store` are the two halves of `Cache.Refresh` around the fetch, which runs
outside the mutex; `ReloadList`, `Publish`, `Reconcile` the three of
`reloadDirectories`; `ReadConfig`, `ReadHealth`, `ReadSnapshots` the inputs of a
join in the order `compute` and `sweepOrg` gather them; `View`, `Claim`,
`FlightEnds` the background refresh. A directory is the count of its changes, a
snapshot one of these. A directory that hangs answers when the deadline of the
caller ends: a Workspace read has the deadline of the whole background refresh,
a DirectoryService one of its own.

**RunStream.** A run's goroutine narrates (`Narrate` is `append`: transcript
and channels under one mutex), writes, records itself (`Recorded`,
`NotRecorded`) and finishes (`Finish` closes every registered channel). A
stream finds its run, takes the snapshot and subscribes in one critical
section (`Snapshot`), replays, follows its channel, and tells the verdict.
Identifiers are readings of the clock; `Create` purges what finished longer
than the TTL ago. A line is its number and its kind.

**MappingStore.** One request per operator (`pc`): *stamp* (`Approve`, the
approval of the old entry or the operator's own), *get* and *check* (`SSM.Get`,
then `List` with `CheckInvariants`), *write* (`WriteField`, the map of `Put` in
any order), *drop* (`DropField`, what the edit emptied, or all of a deletion).
`Failure` may follow any of them: a refusal, an error or a dead console.
`clean`, `raced`, `unread`, `settled` only remember what the properties need.
`approvedBy` and `approvedAt` are one field.

**ConfigStore.** A call is a sequence of sets of writes, the writes of one set
in any order (a Go map): `PutDirectory`, `DeleteDirectory`, `PutOrg`,
`PutTeam`, `DeleteTeam`, `PutApp`. `WriteOne` does one; `WriteFails` ends the
call after or before it, `WriteRefused` at an empty value, which the parameter
store does not take and `PutDirectory` sends where there is no probe group. `CreateApp`, `Callback`, `CallbackRefused`,
`CookieExpires` are the App flow of one browser, whose single state cookie all
tabs share. `StartListing`, `ReadOne` and `ReloadDirectories`/`ReloadOrg` are a
tick of the console's tickers. The installation id of an App, which no flow
writes, is data left out of its credentials. A *menu* picks the part of the store a behaviour
is about: the parts share no parameter, so their interleavings add nothing.

Definitions called `Faulty variant` are not part of the system: each is a
plausible bug of the definition after it, put in its place to see that the
properties notice.

## Runs

| Run | Instance | Shows |
|---|---|---|
| `broker_apply` | one organization, one login; a plan request, an apply, an asynchronous run and a sweep | `LockedReadStaysTrue`: from the locked read to the record only the writer writes. `ApprovedExactly`: an apply executes the approved plan or nothing. `NoDoubleApply`: a fully applied hash executes again only after an outside change. `EveryWriteAccounted`: a run that wrote and is on no record has been reported as lost or is in the lock holder's hands on its way to the record. |
| `broker_live` | a run, a reconcile pass and a sweep; pause and enablement change; fairness | `HeldOrgUntouched`: an organization held since the pass began is not written by it (one paused after the gate may be). `EveryRunEnds`, `LockComesBack`. |
| `loop_safety` | one employee of a Workspace with a probe, also known to a store directory; an ordinary and a pinned team; both kinds of pass | `LiveStays`, `LeaverGetsNothing`, `OwnersUntouched`; `Settled`: an undisturbed pass leaves nothing to do; `PlansAreAnnounced`: a full plan does to nobody what the page made of the same inputs has not announced, and whom it keeps although they are leaving, a warning explains. |
| `loop_live` | an employee of a Workspace without a probe, or a partner known only to a store directory; both kinds of pass; fairness | `OutageKeepsMembers`: no pass removes whom a directory without an answer should know, as the configuration the pass joins with or the directory's last answer has it. `LeaverLeaves`, `JoinerJoins`, while every directory can be read; `RowsSettle`: once the outside settles no row is pending or leaving. |
| `directory_set` | a git directory and a store directory; a pass, a sweep and a plan request, or two page views and the ticker; fairness | `TrustedIsKnown`: a pass has a snapshot or a warning of every directory it joins with, whatever is reloaded meanwhile. `TrustedIsFresh`: what it takes for healthy, and nobody else refreshed meanwhile, it has read since it took the lock. `KeepsLastKnownGood`: the caches implement the register. `NeverFrozen`: pages come to show what a directory says while none hangs. |
| `run_stream` | two runs of two organizations, one stream, a buffer of one line, a page of one record; fairness | `KeepsNarration`: the streams implement the log. `RegisteredChannelsAreOpen`: nothing is sent on or closed twice after an early return. `Findable`, but for a run whose identifier a later one was given; `StreamsEnd`. `OnFile`: a run that wrote is on the History page when it ends, pushed off by records as new, or has said AUDIT. |
| `org_read` | four logins on pages of two; both modes; an owner and a member move | `UndisturbedArePlanned`: however torn the reading, whoever listings cannot have displaced is planned for as by one atomic reading - or the plan is empty. |
| `mapping_store` | two operators, two people with three versions, one declared in git; a store that is empty or holds an entry | `Distinct`, `AssignedForGood` (abbreviations, approvals), `SuccessIsWhole`: a reported success leaves nothing of what died before it. |
| `config_store` | two directories, two organizations, a team; two handlers, two App flows, the ticker; fairness | `StandingIsListed`: what operators only replace is in every listing. `AsLastAsked`: an undisturbed success is what the store holds. `AppToItsOrg`. `ConsoleSettles`: the console comes to use what the store says, a torn reading of credentials included. |
| `directory_hang`, `torn_sweep`, `edited_directory` | small instances of the same systems | the findings below |

`TypeOK` is checked once in each system. Deadlock is checked everywhere but in
`mapping_store`, where operators stop after `MaxRequests`.

## Findings

Each is a run TLC ends with a counterexample; the sources are quoted in
`PROJECT.json`.

1. **One hanging directory freezes those after it** (`directory_hang`). A
   background refresh has one deadline for all of its directories, and works
   through them in the order of the set. A Workspace directory that hangs uses
   it up every time; the pages show the others as they were.
2. **A torn sweep grants a role** (`torn_sweep`). Owners and members are listed
   one after the other. An owner demoted in between is listed as both, is kept
   as an owner by the document and found a member by the diff, and a removals
   sweep promotes them again. The guard against additions compares logins.
3. **An edited directory keeps its client** (`edited_directory`).
   `Set.Reconcile` matches by name, so a new address or new domains of a
   directory already in use wait for a restart; the comments say the ticker
   keeps directories current.

Also seen while modelling, and not made runs:

- *Loop.* A pinned team brings leavers back: `desiredTeams` returns it
  whatever the liveness says, and GitHub answers a team-add to an outsider with
  an invitation (roster.go:846; reconciliation.md:34, :121). An outage after a
  start empties group-backed teams, which nothing protects
  (render.go:309; reconciliation.md:117). A group absent from a
  DirectoryService takes its people out of every snapshot, and so out of the
  organization (resolver.go:100; roster.go:38-41). The sweep joins with the
  configuration in git, so a person known only to a store directory that has
  never answered is removed (removals.go:107; reload.go:13-15), though
  cache.go:13 says "a failed fetch must never look like everybody leaving": it is
  outside `OutageKeepsMembers`. A Workspace without a probe answers nothing while
  a mapped group is missing, so its leavers stay and its joiners wait for as long
  as that lasts (google.go:125-138). A suspended
  namesake's account outweighs the account an address proves
  (roster.go:699; :645-649). Members known through display-only domains alone
  lose their teams in full passes, though roster.go:165 says "the loop neither
  grants nor removes". Too few owners refuse the whole plan, where
  reconciliation.md lets one action wait. A sweep that shifts pages may miss an
  owner beyond the first hundred; a full plan demotes who is promoted between
  the listings.
- *People page.* A person in a pinned, frozen or nonexistent team stays
  "pending" for ever. A suspended person with an outstanding invitation is
  "left", which roster.go:225 explains as "already gone". Somebody pinned and
  not live is added to the team while their row says nothing of it.
- *Audit.* `record` writes on the run's own context and only logs a failure
  (broker.go:470), while broker.md:70 says "Audit is unskippable". Identifiers
  have the resolution of a second ("unique", audit.go:67): two records of one
  organization in one second are one object. Without an organization the
  History page is ordered by organization first, as keys begin with it, though
  connect.go:291 says newest-first. Without `prefixPerOrg` the filter by
  organization is ignored. The limit is applied before unreadable records are
  skipped. `StartedAt` is the time of the recording (broker.go:461).
- *Mapping.* People declared in git are merged by the console alone; the broker
  reads the bare store (app/broker.go:139). An interrupted create that stored
  the login but not the name is somebody else to `CheckInvariants`. Any error
  of `Mapping.Get` counts as a first approval. A pass that lists the mapping
  within a `Put` may see a login without addresses, which `entryFrom` says the
  join treats as unusable, and it does not.
- *Store.* A directory without a probe group can not be stored: `Put` sends the
  empty value too, which the parameter store refuses, in the order of a Go map,
  so that the new address or domains may have been written by then
  (configstore/directory.go:200-218). Two overlapping `PutTeam` may each delete what the other wrote, and a
  listing whose pages straddle a replacement of a team can miss it. Staging an
  organization again leaves the lists it no longer mentions. `StageOrg` and the
  App flow do not refuse an organization declared in git, as the team calls do
  (connect.go:761). `MergeDirectories` compares names without case and the
  filter after it with (reload.go:46, :61). `MergeOrgs` is not used. `PutApp`
  never writes the installation id. The state cookie is one per browser, so a
  second tab's flow makes the first one's callback fail. Store directories
  bypass `validateSources`, and nothing checks that a domain belongs to one
  company.
- *Caches.* `orgstate.Cache.ReadFresh` and `Invalidate` are not called in
  production, though cache.go:14 and wiring.go:373 speak of it. `FetchedAt` of a
  DirectoryService is the beginning of the fetch, where directory.go:60 says
  completed. `RefreshIfStale` looks at staleness before it claims the flight, so
  a view may refresh what another just has. The console's pages do not use the
  streaming API.

## Bounds

`MaxOutside` is the numeric bound of `Broker`, `Loop` and `DirectorySet`. In
`Broker` it counts plan requests, outside edits (GitHub, pause, enablement) and
restarts together; expiring plans, expiring contexts and failing steps are
free. Two allow a plan and an edit, or an edit and its revocation, inside one
another's windows. Goroutines are one of each kind that the question involves:
two of the same kind differ in nothing but their names, and the proofs hold for
any number. What is on record and what was reported lost is kept per
organization, of its last run to write. One login makes plans of at most one action; plans of any number
are the proofs'. `Switched` names the organizations whose pause and enablement
change.

In `Loop` the bound counts everything that moves or fails outside a pass, an
unanswered fetch of a directory that can be read included. Three in `loop_safety` reach the longest
interesting story: a restart, a directory that does not answer, and a change
in between. One mapped person and one owner suffice where a plan is decided
person by person; two people interact only through the owners' minimum
(kept at one) and through names. No two accounts of one directory share a name
and no entry pins a team: with either, `LiveStays` and `LeaverGetsNothing` fail
as told above. The Workspace has a probe in `loop_safety` and none in
`loop_live`, so that a missing group is met both as an absence and as a failure
that lasts. `loop_live` starts from an employee or a partner, for whom a store
directory that has never answered, or is no longer listed, is the only one.

In `DirectorySet` two outside events are two changes of a directory, or a
change and a failure, recovery, reload failure or edit of the store; two
directories are one of each kind and one of each order; `TTL` and `Backoff` are
one tick, so that an attempt may be both too recent and too old.

In `RunStream` a buffer of one line is full after one, `MaxWrites` one gives
transcripts of up to six; two ticks with `TTL` zero make two runs share or not
share an identifier, and one of them expire. A page of one record makes the
limit matter. In `OrgRead` pages hold two of four logins, so listings take two
pages, and both those who move sort after those who do not. In `ConfigStore`
two handlers overlap in every way, three calls replace a team twice and
delete it, and one failure or restart may come at any point; a page of a
listing is one parameter, which a larger page only coarsens.

In `MappingStore`, `MaxRequests` is two, on a store that may hold an entry
already: a request that dies and the one that cleans up after it, or two that
overlap. The drafts are two versions of one person, each without fields the
other has, and a second person who clashes with one by address and with the
other by login. The operators are symmetric.

## Fairness

`Broker`: weak fairness of each goroutine's work, since network calls return;
strong fairness of `Lock`, since `sync.Mutex` goes over to first-in first-out
once a waiter has starved for a millisecond. No request has to come, no ticker
has to fire. `Loop`: strong fairness of starting each kind of pass (the tickers of
`Reconcile` and `Schedule`, on a lock `Broker` shows to come back), as the
other kind holds the lock in between; weak fairness of a pass's steps, and of
an invited person's acceptance, which `JoinerJoins` needs and `LeaverLeaves`
does not. A ticker that finds the lock taken gives its turn up, so one that
loses every race for ever is outside these assumptions.

`DirectorySet`: pages go on being viewed (with nobody looking, nothing has to
be fresh), a fetch ends, by its deadline if not otherwise, the reload ticker
and the clock go on. `RunStream`: weak fairness of the runs' work and of each
stream; the apply lock may be taken by others again and again, and `StreamsEnd`
holds nevertheless because a run's context ends. `ConfigStore`: requests and
ticks go on, one fairness condition each, since both are finitely many steps.

Failures are bounded: liveness says what happens once the outside has settled,
and settling is part of the formulas (`<>[]`) or of the bound.

## Proofs

All by TLAPS 1.4.5 with Z3, Zenon and LS4, for every value of the constants
the named assumptions admit (any number of goroutines, organizations, people,
directories, any bound).

`BrokerProofs`. `IInv` adds to the properties: `Typed`; `LockDiscipline` (a
goroutine past its lock holds it, and only applies wait); `OwedInHand` (what is
on no record and not reported lost is what the lock holder has written);
`WorkInFlight` (writes
and remaining actions exist only in *exec* and *record*); `PlanSplits` (a plan
holds no action the members it was computed from already show);
`SpentInEffect` (a hash counts as spent only while all of its actions are in
effect on GitHub); `TouchedUnspends` (once somebody else has touched the
organization, none of its hashes is spent); `HeldAllHeld`. `NoDoubleApply` is
why these are needed: a recomputed plan can equal a spent one only if one of
its actions is not in effect, which `SpentInEffect` denies - so the code keeps
no list of applied hashes and needs none. Proved from it: `TypeCorrect`,
`OneWriter`, `Exact`, `OnceOnly`, `Accounted`, `OneRunAtRisk`,
`HoldsRespected`.

`RosterProofs`. The decision is a set of actions defined by cases, so these
are statements about every input, reachable or not: `OwnersPassThrough`,
`InvitationsLeftAlone`, `SweepOnlyRemoves`, `RemovalNeedsCause`,
`OutageProtects`, `FrozenTeamsKeep`, from three lemmas on the shape of a
document and of a plan.

Its second part is about the People page, for every well-formed input:
`PlansAnnounced` goes through the kinds of a plan's actions - a removal needs a
member who does not stand, hence a row that says leaving; an invitation or a
team a live person whose teams differ, hence one that says pending - and
`StaysExplained` through the reasons `Render` has to keep somebody.
`StandingApart` says that the standing of an entry depends on the snapshots and
the configuration alone, which carries it from one input to another.

`LoopProofs`. Four chains. `IInv` is a weak type invariant, `ReadTrue` (while
nobody outside touches GitHub, its owners are those that were read) and
`PlanSpares` (the plan touches no owner), where `OwnersPassThrough` comes in:
`OwnersAreSafe`. `Lawful` is the type
invariant with the rules of GitHub and of the mapping (`Orderly`,
`OnePerLogin`), which outside changes keep and every pass's inputs inherit:
`TypeCorrect`, and as those inputs are well-formed, `PlansAreShown` from the two
theorems on the People page. What a pass removes `OutageProtects` explains by
the configuration it joins with and the snapshots in hand, in either mode, and
its plan only shrinks: `OutageIsSafe`. `Noted` ties what is remembered of the outside to
what a pass holds: `Since` (who was live or gone ever since the pass began still
is), `Genuine` (a cache names accounts as their directory does), `Remembered`
(their entries are among those read), `Vouched` (a healthy company snapshot this
pass has fetched shows them as they are). The plan is then right when it is made
and only shrinks: `LiveIsKept`, `LeaverIsDenied`. `Settling` compares the plan, the organization that was read
and GitHub of now while nothing disturbs a full pass: GitHub is what was read
with the actions already taken `Carried` out, the rest is still planned; with
nothing left, a plan of now has nothing but teams for people still invited:
`OnePassSettles`.

Hypotheses of the last three, beyond the assumptions on the constants: `Apart`
(an entry has one address with the company, of a synced domain, and shares its
names there with nobody), because the join goes by names and lets the later of
two identities of one directory count, whichever is live - without it the first
two are false of the code; `Unpinned`, because a pinned team is granted whatever
the liveness says, so that one plan removes a leaver and adds them to a team;
and that the company's directory is one of the reviewed configuration, because a
sweep joins with that one. `MCLoop` states the three of its instances in an
`ASSUME`: the runs check what the theorems say.

`OrgReadProofs`. `Listed` says what each listing so far has of a person who is
still `Undisturbed`, by the pages behind it; a page is defined by the places of
logins in the order GitHub lists them, so that a change after a person moves
neither them nor those before them. A last page leaves nobody out
(`Progress`), so a finished reading shows the undisturbed as GitHub does, and
what a plan asks of a person depends on their seats and teams alone:
`UndisturbedAreSafe`.

`DirectoryProofs`. Four results on one chain of invariants. `Stages` says who
can be where: `Typed`; `ByRole` (the broker's callers are idle in the console
and the reverse, so the two never mix); `JobStage` (a fetch under way is of a
cache still to be refreshed); `LockHeld`. `CachesTyped` is its first
part. `Flights` adds that answers are not younger than their directory
(`OldAnswers`) and, in the console, that only one caller refreshes and its
answer is no older than what is cached (`OneFlight`): with it every step is a
step of `LastKnownGood` or a stutter, which is `CachesKeepLastKnownGood` - in
the broker, where fetches overlap, the register may go back and `serial` says
so. `Gatherings` adds `Published` (unless a pass stands between publication and
reconciliation, the effective configuration is within the set) and `Gathered`
(what a lock holder has read so far covers its configuration), which no other
caller can break because a reload needs the lock: `PassesKnowWhatTheyTrust`.
`Freshness` adds `Young`: what the lock holder has refreshed or is fetching is
no older than the moment it took the lock, of every cache nobody else stored
to: `PassesReadFresh`. First, the next directory of a refresh, is well defined
by the well-ordering of the naturals (`FirstIsOne`).

`MappingProofs`. `IInv` adds to `Distinct`: `Typed`, `Stamped` (what is stored
under a person carries their name or none yet), `Drafted`, `OneAtATime` and
`Cleared` - what a lone request has checked stays true until its last field,
which is what a death between two fields could have broken: a field without its
name is still compared, as its blank name equals nobody's. Proved from it:
`MappingTyped`, `PeopleStayDistinct`. `Whole` adds what a request that has the
person for itself has still to write and to delete, so that at its end every
field is as it asked: `SuccessLasts`. `Kept` adds what it has read of the former
entry before it writes: `AssignmentsStay`.

`RunStreamProofs`. `IInv` has the types; `Phases` (status and goroutine go
together, and runs are created one after the other); `Bounded` (the lines of a
run besides its writes); `Found` and `Findable`; and for each stream where its
handler is (`Placed`), whom it is registered with (`Belongs`), that it is
registered as long as more can come (`Tuned`), and what is on its way to its
client (`Served`): lines in order, and all of them unless one was dropped.
`ChannelsStayOpen`, `RunsAreFound` and `TypeCorrect` follow from it, and every
step is one of `Narration` or a stutter: `StreamsNarrate`. `Filed` adds that a
run that wrote is executing, has its record in the bucket or says AUDIT;
`RunsAreFiled` follows as the record of a place within the limit is on the page
(`RanksDiffer`) and one of a later place has the whole page before it
(`PlacesAreTaken`, which uses that a set of numbers has a least element). It
takes `PrefixPerOrg`, the default: in a flat bucket the record of another
organization in the same second takes the place of a run's own, and the
property is false.

`ConfigStoreProofs`. `IInv` relates each call under way to the store: what it
may write (`Working`), that an undisturbed one has its object to itself
(`Alone`), that a field is as it wants or still to be written (`Asking`); that a
standing object is listed and, if a team, keeps an intent whichever list goes
first (`Standing`); what a listing has read of objects that stood since it began
(`Reading`); and of the App flows that a return carries an App of the
organization its state was signed for (`Browsing`, `OwnApps`). Proved:
`TypeCorrect`, `EditsKeepListed`, `LastCallHolds`, `AppsStayHome`. Its
assumptions say what handlers let through (`IsCall`: an endpoint and a domain, a
group or a member; only a probe group may be empty).

Every safety invariant and every action property of a passing run is stated by
a theorem. Only model-checked: the liveness properties, which are beyond this
prover (`EveryRunEnds`, `LockComesBack`, `LeaverLeaves`, `JoinerJoins`,
`RowsSettle`, `NeverFrozen`, `StreamsEnd`, `ConsoleSettles`), and the three
properties the code violates.

## Not modelled

- The console's cache of organizations (`orgstate/cache.go`): one path fills
  it, nothing empties it, and what it shows is TTL-stale by design.
- A full pass refreshes every directory twice, once for itself and once per
  organization; `Loop` keeps the second, `DirectorySet` both. The composition of
  a torn mapping with a plan (`MappingStore` with `Roster`) is not checked: the
  window and its effect are described above.
- GitHub's refusals (no seat, rate limits) are the failing case of any write.
- A call that never returns, other than a directory's: reads of GitHub under
  the lock have no deadline of their own.
- Most of what the console reads and formats; tokens (`githubapp`),
  authentication, configuration parsing and validation, the self-test, the user
  interface, generated code: no state the properties depend on.

To do next, where it pays most: an abstract specification of access (who may
be in an organization, given what the directories last said) that `Loop`
implements; a composition of half-written entries with the join.
