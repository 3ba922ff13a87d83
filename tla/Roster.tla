------------------------------- MODULE Roster -------------------------------
(***************************************************************************)
(* How one organization's plan is decided: the join of the mapping with    *)
(* the directories (src/pkg/roster), the rendering of the desired state    *)
(* (src/pkg/peribolos) and the diff against GitHub (src/pkg/reconciler).   *)
(* All of it is pure; the state it is applied to is in module Loop.        *)
(*                                                                         *)
(* Everything reads one record, the inputs of a computation:               *)
(*   in.cfg        the directories of the configuration in use             *)
(*   in.snaps      the cached snapshot of each directory that has one      *)
(*   in.unhealthy  the directories whose last fetch failed                 *)
(*   in.entries    the mapping                                             *)
(*   in.gh         the organization as GitHub reported it                  *)
(* Logins, names and addresses are compared as the code does after         *)
(* lowercasing them, so they are plain values here.                        *)
(***************************************************************************)
EXTENDS Naturals, Sequences, FiniteSets

CONSTANTS
    Sources,     \* directories: declared in git or added to the store
    Emails,      \* addresses, numbered in the order directories list them
    Groups,      \* the directory groups some team maps
    Names, Logins, Teams,
    Home,        \* the directory whose domain an address or a group is in
    DisplayOnly, \* addresses and groups of domains with sync: false
    Company,     \* org.company, the directory that governs standing here
    Pinned,      \* teams with pinned: true
    GroupsOf,    \* the groups that back a team
    MembersOf,   \* a team's explicit members: addresses
    Exceptions,  \* logins that are members by decree
    MinAdmins,
    NoTeam, Elsewhere

ASSUME RosterAssumptions ==
    /\ Emails \subseteq Nat
    /\ Home \in [Emails \union Groups -> Sources \union {Elsewhere}]
    /\ DisplayOnly \subseteq Emails \union Groups
    /\ Company \in Sources
    /\ Pinned \subseteq Teams
    /\ GroupsOf \in [Teams -> SUBSET Groups]
    /\ MembersOf \in [Teams -> SUBSET Emails]
    /\ Exceptions \subseteq Logins
    /\ MinAdmins \in Nat
    /\ NoTeam \notin Teams

-----------------------------------------------------------------------------
(* The join.                                                               *)

\* Unknown domains default to synced: the switch is an explicit opt-out.
Syncs(in, x) == ~(Home[x] \in in.cfg /\ x \in DisplayOnly)

\* Every account a directory reports under a name.
Accounts(in) == UNION {in.snaps[s].users : s \in DOMAIN in.snaps}

EmailsOf(entry) == {entry.emails[i] : i \in DOMAIN entry.emails}

\* A record of livenessIndexes is all the accounts of one name.  An entry
\* claims the records its addresses point at, and the record of its own name.
Anchors(in, entry, name) ==
    {i \in DOMAIN entry.emails :
        \E b \in Accounts(in) : b.name = name /\ b.email = entry.emails[i]}

Claimed(in, entry) ==
    {a \in Accounts(in) :
        a.name = entry.name \/ Anchors(in, entry, a.name) # {}}

\* resolveLiveness folds the records in order: by the entry's addresses, the
\* name match last.  Where two hold an identity in one directory, the later
\* overwrites the earlier.
Rank(in, entry, a) ==
    LET at == Anchors(in, entry, a.name)
    IN  IF at = {} THEN Len(entry.emails) + 1
                   ELSE CHOOSE i \in at : \A j \in at : i <= j

Overwrites(in, entry, a, b) ==
    \/ Rank(in, entry, a) > Rank(in, entry, b)
    \/ Rank(in, entry, a) = Rank(in, entry, b) /\ a.email >= b.email

\* The directory identities the entry resolves to: one per directory.
Identities(in, entry) ==
    {a \in Claimed(in, entry) :
        \A b \in Claimed(in, entry) :
            b.source = a.source => Overwrites(in, entry, a, b)}

IsLive(accounts) == \E a \in accounts : a.live

Synced(in, accounts) == {a \in accounts : Syncs(in, a.email)}

\* Faulty variant: live anywhere is live here.
GrantLiveAnywhere(in, entry) == entry.bot \/ IsLive(Synced(in, Claimed(in, entry)))

\* grantLiveForOrg: the home-company rule over synced identities.
GrantLive(in, entry) ==
    LET home == {a \in Identities(in, entry) : a.source = Company}
    IN  CASE entry.bot -> TRUE
          [] ~entry.bot /\ Synced(in, home) # {} -> IsLive(home)
          [] OTHER -> IsLive(Synced(in, Claimed(in, entry)))

\* The directories know this person through display-only domains alone.
OnlyDisplayed(in, entry) ==
    /\ ~entry.bot
    /\ Claimed(in, entry) # {}
    /\ Synced(in, Claimed(in, entry)) = {}

StandsHere(in, entry) ==
    IF OnlyDisplayed(in, entry) THEN IsLive(Claimed(in, entry))
                                ELSE GrantLive(in, entry)

\* groupsByMember: a group counts for its live members, whichever directory
\* lists it.
InGroup(in, entry, group) ==
    /\ Syncs(in, group)
    /\ \E a \in Claimed(in, entry), s \in DOMAIN in.snaps :
        /\ a.live
        /\ group \in DOMAIN in.snaps[s].groups
        /\ a.email \in in.snaps[s].groups[group]

\* matchesMember: by a live identity, or by an address no identity has.
IsNamed(in, entry, email) ==
    LET known == {a \in Identities(in, entry) : a.email = email}
    IN  IF known = {} THEN email \in EmailsOf(entry) ELSE IsLive(known)

\* Faulty variant: a team of several groups takes only who is in all of them.
DesiredTeamsOfAll(in, entry) ==
    {t \in Teams :
        IF t \in Pinned
        THEN t \in entry.pinned
        ELSE /\ GrantLive(in, entry)
             /\ \A group \in GroupsOf[t] : InGroup(in, entry, group)}

DesiredTeams(in, entry) ==
    {t \in Teams :
        IF t \in Pinned
        THEN t \in entry.pinned
        ELSE /\ GrantLive(in, entry)
             /\ Claimed(in, entry) # {}
             /\ \/ \E group \in GroupsOf[t] : InGroup(in, entry, group)
                \/ \E email \in MembersOf[t] : IsNamed(in, entry, email)}

\* Faulty variant: protection by presence alone.
ExpectedSourcesNone(in, entry) == {}

\* Where the entry's addresses say the person should be known.
ExpectedSources(in, entry) ==
    {s \in in.cfg : \E email \in EmailsOf(entry) : Home[email] = s}

AnsweredSources(in, entry) == {a.source : a \in Claimed(in, entry)}

AbsentGroups(in) == UNION {in.snaps[s].absent : s \in DOMAIN in.snaps}

-----------------------------------------------------------------------------
(* The rendering.                                                          *)

\* Faulty variant: a failed directory protects only whom it has reported.
ProtectedByAnswered(in, entry) == AnsweredSources(in, entry) \intersect in.unhealthy # {}

\* onlyKnownBy: some directory this person depends on is not to be trusted.
Protected(in, entry) ==
    (AnsweredSources(in, entry) \union ExpectedSources(in, entry))
        \intersect in.unhealthy # {}

Mapped(in) == {entry.login : entry \in in.entries}

IsMember(in, login) ==
    login \in in.gh.admins \union in.gh.members \union in.gh.invited

Stays(in, entry) ==
    \/ StandsHere(in, entry)
    \/ OnlyDisplayed(in, entry)
    \/ Protected(in, entry)

RemovalsOnlyMembers(in) ==
    {login \in in.gh.members :
        \/ login \in Exceptions
        \/ login \notin Mapped(in)
        \/ \E entry \in in.entries : entry.login = login /\ Stays(in, entry)}
    \union in.gh.invited

\* What fullMembers wants of one person.
Wanted(in, entry) ==
    \/ IsMember(in, entry.login) /\ Stays(in, entry)
    \/ /\ ~OnlyDisplayed(in, entry)
       /\ StandsHere(in, entry)
       /\ DesiredTeams(in, entry) # {}

FullMembers(in) ==
    (in.gh.members \intersect Exceptions)
    \union (in.gh.members \ Mapped(in))
    \union {entry.login : entry \in {x \in in.entries : Wanted(in, x)}}
    \union in.gh.invited

\* Faulty variant: every team keeps whom it has.
RenderTeamsKeep(in) ==
    [t \in DOMAIN in.gh.team |->
        {entry.login : entry \in {x \in in.entries : t \in DesiredTeams(in, x)}}
        \union in.gh.team[t]]

\* Teams that do not exist on GitHub are skipped, never created.  A pinned
\* team, and one backed by an absent group, keeps whom it has.
RenderTeams(in) ==
    [t \in DOMAIN in.gh.team |->
        {entry.login : entry \in {x \in in.entries : t \in DesiredTeams(in, x)}}
        \union IF t \in Pinned \/ GroupsOf[t] \intersect AbsentGroups(in) # {}
               THEN in.gh.team[t]
               ELSE {}]

NoTeams == [t \in {} |-> {}]

Document(in, mode, admins) ==
    [admins |-> admins,
     members |-> IF mode = "full" THEN FullMembers(in) ELSE RemovalsOnlyMembers(in),
     teams |-> IF mode = "full" THEN RenderTeams(in) ELSE NoTeams]

\* Faulty variant: owners are rendered from the mapping.
RenderComputedOwners(in, mode) == Document(in, mode, in.gh.admins \ Mapped(in))

\* Owners pass through untouched.
Render(in, mode) == Document(in, mode, in.gh.admins)

-----------------------------------------------------------------------------
(* The plan.                                                               *)

\* "promote" and "demote" are the two directions of set-role.
OrgKinds == {"promote", "demote", "add-admin", "add-member", "cancel-invite",
             "remove-member"}
Additions == {"add-admin", "add-member", "team-add"}

Action == [kind : OrgKinds, login : Logins, team : {NoTeam}]
          \union [kind : {"team-add", "team-remove"}, login : Logins, team : Teams]

\* Faulty variant: an invited person reads as absent.
OrgActionReinvites(doc, gh, kind, login) ==
    LET want == login \in doc.admins \union doc.members
        present == login \in gh.admins \union gh.members
    IN  \/ kind = "add-member" /\ want /\ ~present
        \/ kind = "remove-member" /\ ~want /\ present

OrgAction(doc, gh, kind, login) ==
    LET want == login \in doc.admins \union doc.members
        admin == login \in doc.admins
        present == login \in gh.admins \union gh.members
        invited == login \in gh.invited
    IN  \/ kind = "promote" /\ want /\ admin /\ present /\ login \notin gh.admins
        \/ kind = "demote" /\ want /\ ~admin /\ login \in gh.admins
        \/ kind = "add-admin" /\ admin /\ ~present /\ ~invited
        \/ kind = "add-member" /\ want /\ ~admin /\ ~present /\ ~invited
        \/ kind = "cancel-invite" /\ ~want /\ invited
        \/ kind = "remove-member" /\ ~want /\ present

TeamAction(doc, gh, kind, login, team) ==
    /\ team \in DOMAIN doc.teams
    /\ IF kind = "team-add"
       THEN login \in doc.teams[team] \ gh.team[team]
       ELSE login \in gh.team[team] \ doc.teams[team]

BuildPlan(doc, gh) ==
    {a \in Action :
        IF a.team = NoTeam THEN OrgAction(doc, gh, a.kind, a.login)
                           ELSE TeamAction(doc, gh, a.kind, a.login, a.team)}

\* The minimum of owners, and checkInvariants' re-check of the mode.
Refused(doc, gh, mode) ==
    \/ Cardinality(doc.admins) < MinAdmins
    \/ mode = "removals" /\ \E a \in BuildPlan(doc, gh) : a.kind \in Additions

\* compute and sweepOrg, after their reads.
PlanFor(in, mode) ==
    LET doc == Render(in, mode)
    IN  IF Refused(doc, in.gh, mode) THEN {} ELSE BuildPlan(doc, in.gh)

\* sortActions: organization-level first, then by team; by kind within each.
KindRank(kind) ==
    CASE kind \in {"promote", "demote"} -> 0
      [] kind = "add-admin" -> 1
      [] kind = "add-member" -> 2
      [] kind = "cancel-invite" -> 3
      [] kind = "remove-member" -> 4
      [] kind = "team-add" -> 5
      [] kind = "team-remove" -> 6

Before(a, b) ==
    \/ a.team = NoTeam /\ b.team # NoTeam
    \/ a.team = b.team /\ KindRank(a.kind) < KindRank(b.kind)

NextActions(plan) == {a \in plan : \A b \in plan : ~Before(b, a)}
=============================================================================
