-------------------------------- MODULE Loop --------------------------------
(***************************************************************************)
(* The reconcile loop and the removals sweep of one organization, from the *)
(* directories to GitHub: what the directories, the directory store, the   *)
(* mapping and GitHub really hold, what the broker's caches remember of    *)
(* it, and passes that fetch, read, plan (module Roster) and write.        *)
(*                                                                         *)
(* One pass runs at a time: the apply lock, module Broker.  The console's  *)
(* plan requests show up as refreshes of a cache at any time.              *)
(***************************************************************************)
EXTENDS Lifecycle

CONSTANTS
    GitSources,   \* the directories of the reviewed configuration
    Resolvers,    \* directories read through the DirectoryService
    Probed,       \* the others with a probe group: Workspaces with a canary
    NameOf,       \* the display name of each account
    Entries,      \* the mapping entries an operator may write
    Starts,       \* how the outside may look when the broker is deployed
    Modes,        \* the passes that run: "full", "removals"
    MaxOutside,   \* bound: outside changes, failures and restarts
    NoSnapshot

\* An organization as GitHub holds it; a team is offered to the invited.
Organization ==
    [admins : SUBSET Logins, members : SUBSET Logins, invited : SUBSET Logins,
     team : [Teams -> SUBSET Logins], offered : [Teams -> SUBSET Logins]]

\* GitHub's own rules: an owner is no plain member, who is invited is not yet
\* in, and teams are of those who are.
Orderly(org) ==
    /\ org.admins \intersect org.members = {}
    /\ org.invited \intersect (org.admins \union org.members) = {}
    /\ \A t \in DOMAIN org.team : org.team[t] \subseteq org.admins \union org.members

\* CheckInvariants: one entry per login (module MappingStore).
OnePerLogin(mapping) == \A x, y \in mapping : x.login = y.login => x = y

\* What a directory may report.
Snapshots ==
    [users : SUBSET [source : Sources, name : Names, email : Emails, live : BOOLEAN],
     groups : UNION {[known -> SUBSET Emails] : known \in SUBSET Groups},
     absent : SUBSET Groups]

ASSUME LoopAssumptions ==
    /\ GitSources \subseteq Sources
    /\ Sources \ GitSources \subseteq Resolvers
    /\ Probed \subseteq Sources \ Resolvers
    /\ NameOf \in [Emails -> Names]
    /\ \A x \in Entries :
        x.login \in Logins /\ x.bot \in BOOLEAN /\ EmailsOf(x) \subseteq Emails
    /\ \A start \in Starts :
        /\ start.account \in [Emails -> {"none", "live", "suspended"}]
        /\ start.listed \in [Groups -> SUBSET Emails]
        /\ start.stored \subseteq Sources \ GitSources
        /\ start.entries \subseteq Entries /\ OnePerLogin(start.entries)
        /\ start.gh \in Organization /\ Orderly(start.gh)
    /\ Modes \subseteq {"full", "removals"}
    /\ MaxOutside \in Nat
    /\ NoSnapshot \notin Snapshots

VARIABLES
    account,   \* outside: each address's account, "none", "live", "suspended"
    listed,    \* outside: the members of each group
    missing,   \* outside: groups that do not exist in their directory
    stored,    \* outside: the directories operators added to the store
    entries,   \* outside: the mapping
    gh,        \* outside: the organization in GitHub
    cache,     \* memory: the last good snapshot of each directory
    healthy,   \* memory: the directories whose last fetch succeeded
    held,      \* memory: the directories of the effective configuration
    pc, mode,  \* the pass: where it is, what kind it is
    todo,      \* the pass: directories it has yet to fetch
    read,      \* the pass: the mapping and the organization as read
    plan,      \* the pass: actions left
    \* What the properties remember; no action reads it.
    since,     \* logins live, and logins gone, ever since the pass began
    facts,     \* what was known when the plan was made
    quiet,     \* nobody outside touched GitHub since it was read
    calm,      \* nothing outside changed or failed since the pass began
    outside    \* how much has come from outside so far

directories == <<account, listed, missing>>
world == <<directories, stored, entries, gh>>
memory == <<cache, healthy, held>>
pass == <<pc, mode, todo, read, plan>>
memo == <<since, facts, quiet, calm>>
vars == <<world, memory, pass, memo, outside>>

NoRead == [entries |-> {}, gh |-> NoSnapshot]
NoFacts == [kept |-> {}, barred |-> {}, suspect |-> {}]
Nobody == [live |-> {}, gone |-> {}]

Own(s) == {group \in Groups : Home[group] = s}

\* A group that does not exist is recorded as absent by a resolver, and by a
\* Workspace reader whose probe group vouches for the rest; without a probe it
\* fails the whole fetch, for as long as it is missing.
Readable(s) == s \in Resolvers \union Probed \/ Own(s) \intersect missing = {}

\* A resolver reports only the accounts it finds in the groups it was asked
\* about; a Workspace reader lists its domains' users.
Visible(email) ==
    /\ account[email] # "none"
    /\ Home[email] \in Resolvers
        => \E group \in Own(Home[email]) \ missing : email \in listed[group]

Snapshot(s) ==
    [users |-> {[source |-> s, name |-> NameOf[email], email |-> email,
                 live |-> account[email] = "live"] :
                    email \in {x \in Emails : Home[x] = s /\ Visible(x)}},
     groups |-> [group \in Own(s) \ missing |-> listed[group]],
     absent |-> Own(s) \intersect missing]

\* What a pass joins: a full one with the effective configuration, a sweep
\* with the one read at start, both with all the caches of the shared set.
Inputs ==
    [cfg |-> IF mode = "full" THEN held ELSE GitSources,
     snaps |-> [s \in {x \in held : cache[x] # NoSnapshot} |-> cache[s]],
     unhealthy |-> held \ healthy,
     entries |-> read.entries,
     gh |-> read.gh]

\* The people whose account with the organization's company, the one their
\* entry declares, is live; and those for whom it is suspended.
Governing(entry) == {email \in EmailsOf(entry) : Home[email] = Company}

Live == {x.login : x \in {entry \in entries : \E email \in Governing(entry) :
                            account[email] = "live" /\ Visible(email)}}

Gone == {x.login : x \in {entry \in entries :
                            /\ ~entry.bot
                            /\ Governing(entry) # {}
                            /\ \A email \in Governing(entry) :
                                account[email] = "suspended" /\ Visible(email)}}

\* An entry has one address with the company at most, of a domain that is
\* synced, and nobody else there goes by a name of theirs.  The code does not
\* see to it: the join goes by names, and where an entry holds two identities
\* in one directory the later one counts, whichever is live.
Apart ==
    \A x \in Entries : \A e \in Governing(x) :
        /\ e \notin DisplayOnly
        /\ \A f \in Emails :
            /\ Home[f] = Company
            /\ NameOf[f] = x.name \/ \E g \in EmailsOf(x) : NameOf[f] = NameOf[g]
            => f = e

\* A pinned team is granted to whoever is pinned, suspended or not.
Unpinned == \A x \in Entries : x.pinned \intersect Pinned = {}

Init ==
    /\ \E start \in Starts :
        /\ account = start.account
        /\ listed = start.listed
        /\ missing = {}
        /\ stored = start.stored
        /\ entries = start.entries
        /\ gh = start.gh
    /\ cache = [s \in Sources |-> NoSnapshot]
    /\ healthy = {}
    /\ held = GitSources
    /\ pc = "idle"
    /\ mode = "full"
    /\ todo = {}
    /\ read = NoRead
    /\ plan = {}
    /\ since = Nobody
    /\ facts = NoFacts
    /\ quiet = FALSE
    /\ calm = FALSE
    /\ outside = 0

-----------------------------------------------------------------------------
(* GitHub (external).                                                      *)

\* Membership and team requests as GitHub answers them.  SetMembership edits
\* an insider and invites an outsider; leaving the organization leaves its
\* teams; a team is offered to an outsider with the invitation.
Effect(a, org) ==
    LET l == a.login
        insider == l \in org.admins \union org.members
        admin == a.kind \in {"promote", "add-admin"}
    IN  CASE a.kind \in {"promote", "demote", "add-admin", "add-member"} ->
                IF insider
                THEN [org EXCEPT !.admins = IF admin THEN @ \union {l} ELSE @ \ {l},
                                 !.members = IF admin THEN @ \ {l} ELSE @ \union {l}]
                ELSE [org EXCEPT !.invited = @ \union {l}]
          [] a.kind = "remove-member" ->
                [org EXCEPT !.admins = @ \ {l}, !.members = @ \ {l},
                            !.team = [t \in DOMAIN @ |-> @[t] \ {l}]]
          [] a.kind = "cancel-invite" ->
                [org EXCEPT !.invited = @ \ {l},
                            !.offered = [t \in DOMAIN @ |-> @[t] \ {l}]]
          [] a.kind = "team-add" ->
                IF insider
                THEN [org EXCEPT !.team[a.team] = @ \union {l}]
                ELSE [org EXCEPT !.invited = @ \union {l},
                                 !.offered[a.team] = @ \union {l}]
          [] a.kind = "team-remove" ->
                [org EXCEPT !.team[a.team] = @ \ {l}, !.offered[a.team] = @ \ {l}]

\* An invited person accepts.
Accept(l) ==
    /\ l \in gh.invited
    /\ gh' = [gh EXCEPT !.invited = @ \ {l}, !.members = @ \union {l},
                        !.team = [t \in DOMAIN @ |->
                                    IF l \in gh.offered[t] THEN @[t] \union {l} ELSE @[t]],
                        !.offered = [t \in DOMAIN @ |-> @[t] \ {l}]]
    /\ calm' = FALSE
    /\ UNCHANGED <<directories, stored, entries, memory, pass, since, facts,
                   quiet, outside>>

-----------------------------------------------------------------------------
(* A pass.                                                                 *)

Outside ==
    /\ outside < MaxOutside
    /\ outside' = outside + 1
    /\ calm' = FALSE

\* RunReconcile and RunRemovals, once they have the lock.
PassStart(m) ==
    /\ pc = "idle"
    /\ mode' = m
    /\ pc' = IF m = "full" THEN "reload" ELSE "fetch"
    /\ todo' = IF m = "full" THEN {} ELSE held
    /\ since' = [live |-> Live, gone |-> Gone]
    /\ calm' = TRUE
    /\ UNCHANGED <<world, memory, read, plan, facts, quiet, outside>>

ReloadTo(fit) ==
    /\ pc = "reload"
    /\ held' = GitSources \union stored
    /\ cache' = [s \in Sources |-> IF s \in held' THEN cache[s] ELSE NoSnapshot]
    /\ healthy' = fit
    /\ todo' = held'
    /\ pc' = "fetch"
    /\ UNCHANGED <<world, mode, read, plan, memo, outside>>

\* Faulty variant: a directory that was dropped still counts as healthy.
ReloadKeepsHealth == ReloadTo(healthy)

\* reloadDirectories: the git directories keep their caches, those of the
\* store come and go.  A store that cannot be listed leaves things as they are.
Reload == ReloadTo(healthy \intersect (GitSources \union stored))

ReloadFails ==
    /\ pc = "reload"
    /\ Outside
    /\ todo' = held
    /\ pc' = "fetch"
    /\ UNCHANGED <<world, memory, mode, read, plan, since, facts, quiet>>

\* Cache.Refresh: an answer replaces the snapshot, a failure keeps it.
Answer(s) ==
    /\ Readable(s)
    /\ cache' = [cache EXCEPT ![s] = Snapshot(s)]
    /\ healthy' = healthy \union {s}

NoAnswer(s) ==
    /\ healthy' = healthy \ {s}
    /\ UNCHANGED cache

\* Set.Refresh goes on past a failure.  (A full pass fetches everything twice,
\* for the pass and for the organization; the second answer is the one it uses.)
Fetched(s) ==
    /\ todo' = todo \ {s}
    /\ pc' = IF todo' = {} THEN "read" ELSE "fetch"
    /\ UNCHANGED <<world, held, mode, read, plan, since, facts, quiet>>

Fetch(s) ==
    /\ pc = "fetch"
    /\ s \in todo
    /\ Answer(s)
    /\ Fetched(s)
    /\ UNCHANGED <<calm, outside>>

FetchFails(s) ==
    /\ pc = "fetch"
    /\ s \in todo
    /\ NoAnswer(s)
    /\ Fetched(s)
    /\ IF Readable(s) THEN Outside ELSE UNCHANGED <<calm, outside>>

\* Mapping.List and ReadScoped.
Read ==
    /\ pc = "read"
    /\ read' = [entries |-> entries, gh |-> gh]
    /\ quiet' = TRUE
    /\ pc' = "plan"
    /\ UNCHANGED <<world, memory, mode, todo, plan, since, facts, calm, outside>>

\* Back to idle: what the pass held in local variables is gone.
Leave ==
    /\ pc' = "idle"
    /\ mode' = "full"
    /\ todo' = {}
    /\ read' = NoRead
    /\ plan' = {}
    /\ since' = Nobody
    /\ facts' = NoFacts
    /\ quiet' = FALSE

ReadFails ==
    /\ pc = "read"
    /\ Leave
    /\ Outside
    /\ UNCHANGED <<world, memory>>

\* A directory without an answer should know the person, as the configuration
\* the pass joins with has it, or its last answer did.
Doubtful(entry) ==
    \E email \in EmailsOf(entry) :
        \/ Home[email] \in Inputs.cfg \ healthy
        \/ \E a \in Accounts(Inputs) : a.email = email /\ a.source \in held \ healthy

\* The join, the rendering and the diff, on whatever the caches hold by now.
Plan ==
    /\ pc = "plan"
    /\ plan' = PlanFor(Inputs, mode)
    /\ facts' =
        [kept |-> since.live,
         barred |-> IF Company \in healthy THEN since.gone ELSE {},
         suspect |-> {x.login : x \in {entry \in read.entries : Doubtful(entry)}}]
    /\ pc' = "exec"
    /\ UNCHANGED <<world, memory, mode, todo, read, since, quiet, calm, outside>>

ExecuteOne ==
    /\ pc = "exec"
    /\ \E a \in NextActions(plan) :
        /\ gh' = Effect(a, gh)
        /\ plan' = plan \ {a}
    /\ UNCHANGED <<directories, stored, entries, memory, pc, mode, todo, read,
                   memo, outside>>

\* The first error ends the pass; GitHub may have carried the request out.
ExecuteFails ==
    /\ pc = "exec"
    /\ \E a \in NextActions(plan) : gh' \in {gh, Effect(a, gh)}
    /\ Leave
    /\ Outside
    /\ UNCHANGED <<directories, stored, entries, memory>>

Done ==
    /\ pc = "exec"
    /\ plan = {}
    /\ Leave
    /\ calm' = FALSE
    /\ UNCHANGED <<world, memory, outside>>

-----------------------------------------------------------------------------
(* Outside the pass.                                                       *)

StillSo == since' = [live |-> since.live \intersect Live',
                     gone |-> since.gone \intersect Gone']

\* Somebody joins, is suspended, comes back, or an account is deleted.
AccountChanges(email) ==
    /\ \E status \in {"none", "live", "suspended"} \ {account[email]} :
        account' = [account EXCEPT ![email] = status]
    /\ UNCHANGED <<listed, missing, stored, entries, gh, quiet>>

GroupChanges(group) ==
    /\ \/ /\ \E email \in Emails :
            listed' = [listed EXCEPT ![group] =
                        IF email \in @ THEN @ \ {email} ELSE @ \union {email}]
          /\ UNCHANGED missing
       \/ /\ missing' = IF group \in missing THEN missing \ {group}
                                             ELSE missing \union {group}
          /\ UNCHANGED listed
    /\ UNCHANGED <<account, stored, entries, gh, quiet>>

StoreChanges ==
    /\ \E s \in Sources \ GitSources :
        stored' = IF s \in stored THEN stored \ {s} ELSE stored \union {s}
    /\ UNCHANGED <<directories, entries, gh, quiet>>

\* The console writes or deletes an entry; CheckInvariants keeps names,
\* logins and addresses apart.
MappingChanges ==
    /\ \E entry \in Entries :
        \/ entry \in entries /\ entries' = entries \ {entry}
        \/ /\ \A x \in entries : /\ x.name # entry.name
                                 /\ x.login # entry.login
                                 /\ EmailsOf(x) \intersect EmailsOf(entry) = {}
           /\ entries' = entries \union {entry}
    /\ UNCHANGED <<directories, stored, gh, quiet>>

\* An owner works in GitHub itself, or an invitation lapses.
GitHubEdits(l) ==
    /\ \/ \E kind \in {"promote", "demote", "remove-member"} :
            /\ l \in gh.admins \union gh.members
            /\ gh' = Effect([kind |-> kind, login |-> l, team |-> NoTeam], gh)
       \/ gh' = Effect([kind |-> "cancel-invite", login |-> l, team |-> NoTeam], gh)
       \/ \E t \in DOMAIN gh.team, kind \in {"team-add", "team-remove"} :
            gh' = Effect([kind |-> kind, login |-> l, team |-> t], gh)
    /\ gh' # gh
    /\ quiet' = FALSE
    /\ UNCHANGED <<directories, stored, entries>>

OutsideChange ==
    /\ Outside
    /\ \/ \E email \in Emails : AccountChanges(email)
       \/ \E group \in Groups : GroupChanges(group)
       \/ StoreChanges
       \/ MappingChanges
       \/ \E l \in Logins : GitHubEdits(l)
    /\ StillSo
    /\ UNCHANGED <<memory, pass, facts>>

\* A plan request refreshes the shared caches.
OtherRefresh(s) ==
    /\ s \in held
    /\ Outside
    /\ Answer(s) \/ NoAnswer(s)
    /\ UNCHANGED <<world, held, pass, since, facts, quiet>>

\* The process restarts: the caches start empty, the configuration as in git.
Restart ==
    /\ Outside
    /\ Leave
    /\ cache' = [s \in Sources |-> NoSnapshot]
    /\ healthy' = {}
    /\ held' = GitSources
    /\ UNCHANGED world

Step ==
    \/ Reload \/ ReloadFails
    \/ \E s \in Sources : Fetch(s) \/ FetchFails(s)
    \/ Read \/ ReadFails
    \/ Plan
    \/ ExecuteOne \/ ExecuteFails \/ Done

Next ==
    \/ \E m \in Modes : PassStart(m)
    \/ Step
    \/ \E l \in Logins : Accept(l)
    \/ OutsideChange
    \/ \E s \in Sources : OtherRefresh(s)
    \/ Restart

Spec == Init /\ [][Next]_vars

\* Each ticker finds the lock free now and then (Reconcile and RunRemovals give
\* a turn up when it is taken), a started pass goes on (its requests return), and
\* an invited person accepts in the end.
Fairness ==
    /\ \A m \in Modes : SF_vars(PassStart(m))
    /\ WF_vars(Step)
    /\ \A l \in Logins : WF_vars(Accept(l))

FairSpec == Spec /\ Fairness

-----------------------------------------------------------------------------
(* Properties.                                                             *)

TypeOK ==
    /\ account \in [Emails -> {"none", "live", "suspended"}]
    /\ listed \in [Groups -> SUBSET Emails]
    /\ missing \subseteq Groups
    /\ stored \subseteq Sources \ GitSources
    /\ entries \subseteq Entries
    /\ gh \in Organization
    /\ gh.admins \intersect gh.members = {}
    /\ DOMAIN cache = Sources
    /\ healthy \subseteq held
    /\ held \subseteq Sources
    /\ pc \in {"idle", "reload", "fetch", "read", "plan", "exec"}
    /\ mode \in {"full", "removals"}
    /\ todo \subseteq held
    /\ plan \subseteq Action
    /\ quiet \in BOOLEAN
    /\ calm \in BOOLEAN
    /\ outside \in 0 .. MaxOutside

Removes(login) == \E a \in plan : a.kind = "remove-member" /\ a.login = login

\* "A person expected in a source that has never answered must not be treated
\* as gone" (roster.go), and its reverse: somebody whose company account has
\* been live ever since the pass began is not removed - through restarts with
\* empty caches, failed fetches, foreign groups and edits of everything else.
LiveStays == pc = "exec" => \A l \in facts.kept : ~Removes(l)

\* "a failed fetch must never look like everybody leaving" (cache.go): neither
\* pass removes anybody whom a directory without an answer should know, be it
\* because the configuration the pass joins with expects them there - the
\* effective one in a full pass, the one in git in a sweep - or because its last
\* answer did.  Of a store directory that has never answered a sweep expects
\* nobody, and the rule does not reach its people.
OutageKeepsMembers == pc = "exec" => \A l \in facts.suspect : ~Removes(l)

\* Suspension is the removal: nothing is granted to somebody whose company has
\* had them suspended since the pass began and answered the pass.
LeaverGetsNothing ==
    pc = "exec" => \A a \in plan : a.kind \in Additions => a.login \notin facts.barred

\* Owners are not this service's business: the broker's writes leave them as
\* they are, unless somebody touched the organization after it was read.
OwnersUntouched ==
    [][outside' = outside /\ quiet => gh'.admins = gh.admins]_vars

\* The loop converges in one pass: when nothing failed or changed while a full
\* pass ran, a plan made right after it has nothing left to do but to offer
\* teams again to people who have not accepted their invitation yet.
Settled ==
    pc = "exec" /\ plan = {} /\ calm /\ mode = "full"
        => LET now == [Inputs EXCEPT !.entries = entries, !.gh = gh]
           IN  \A a \in PlanFor(now, "full") :
                    a.kind = "team-add" /\ a.login \in gh.invited

\* Whatever a full pass is about to do to a person, the People page made of the
\* same inputs has announced (module Lifecycle), and whom it keeps although they
\* are leaving the page's warnings explain, whichever directories failed, have
\* yet to answer or disagree.
PlansAreAnnounced ==
    pc = "plan" =>
        \A x \in read.entries : Announced(Inputs, x) /\ Explained(Inputs, x)

EnoughOwners == Cardinality(gh.admins) >= MinAdmins

\* No Workspace without a probe is kept from answering by a missing group.
AllReadable == \A s \in Sources : Readable(s)

\* The leaver SLA: somebody who stays suspended in the organization's company
\* leaves the organization for good, whatever failed before - once every
\* directory can be read, as a directory that can not protects its people.
LeaverLeaves ==
    \A x \in Entries :
        <>[](/\ x \in entries /\ x.login \in Gone \ gh.admins
             /\ AllReadable /\ EnoughOwners)
            => <>[](x.login \notin gh.members)

Deserves(x, t) ==
    /\ x \in entries
    /\ x.login \in Live
    /\ \E email \in Governing(x), group \in GroupsOf[t] \ missing :
        /\ account[email] = "live"
        /\ email \in listed[group]
        /\ Home[group] \in GitSources

\* Somebody mapped who stays live in a team's group ends up in the team, and
\* stays, once every directory can be read.
JoinerJoins ==
    \A x \in Entries, t \in Teams \ Pinned :
        <>[](Deserves(x, t) /\ AllReadable /\ EnoughOwners) => <>[](x.login \in gh.team[t])

\* "The continuous loop drives PENDING/LEAVING toward SYNCED" (roster.go): once
\* the outside settles, no group is missing and owners are enough, everybody
\* but an owner has a row that says what is, not what is owed.
RowsSettle ==
    \A x \in Entries :
        <>[](x \in entries /\ x.login \notin gh.admins /\ missing = {} /\ EnoughOwners)
            => <>[](PersonState([Inputs EXCEPT !.entries = entries, !.gh = gh], x)
                        \notin {"pending", "leaving"})
=============================================================================
