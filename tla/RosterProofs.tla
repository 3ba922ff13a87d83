---------------------------- MODULE RosterProofs ----------------------------
(***************************************************************************)
(* What every plan has in common, whatever the directories, the mapping    *)
(* and GitHub hold: facts about the join, the rendering and the diff of    *)
(* module Roster, and about what the People page of module Lifecycle says  *)
(* of a plan, for all values of their constants and all inputs.            *)
(***************************************************************************)
EXTENDS Lifecycle, TLAPS

Kinds == OrgKinds \union {"team-add", "team-remove"}

\* Standing, teams and who stays are decided by the directories and the entry:
\* what GitHub holds has no part in them.
LEMMA StandingApart ==
    ASSUME NEW i, NEW j, i.cfg = j.cfg, i.snaps = j.snaps, i.unhealthy = j.unhealthy, NEW x
    PROVE  /\ StandsHere(i, x) <=> StandsHere(j, x)
           /\ GrantLive(i, x) <=> GrantLive(j, x)
           /\ OnlyDisplayed(i, x) <=> OnlyDisplayed(j, x)
           /\ Stays(i, x) <=> Stays(j, x)
           /\ DesiredTeams(i, x) = DesiredTeams(j, x)
           /\ AbsentGroups(i) = AbsentGroups(j)
<1>2. Accounts(i) = Accounts(j) /\ AbsentGroups(i) = AbsentGroups(j)
    BY DEF Accounts, AbsentGroups
<1>3. \A name : Anchors(i, x, name) = Anchors(j, x, name)
    BY <1>2 DEF Anchors
<1>4. Claimed(i, x) = Claimed(j, x)
    BY <1>2, <1>3 DEF Claimed
<1>5. \A a : Rank(i, x, a) = Rank(j, x, a)
    <2> TAKE a
    <2> DEFINE first(at) == IF at = {} THEN Len(x.emails) + 1
                                       ELSE CHOOSE n \in at : \A k \in at : n <= k
    <2>1. /\ Rank(i, x, a) = first(Anchors(i, x, a.name))
          /\ Rank(j, x, a) = first(Anchors(j, x, a.name))
        BY DEF Rank
    <2> HIDE DEF first
    <2> QED
        BY <1>3, <2>1
<1>6. \A a, b : Overwrites(i, x, a, b) <=> Overwrites(j, x, a, b)
    BY <1>5 DEF Overwrites
<1>7. Identities(i, x) = Identities(j, x)
    BY <1>4, <1>6 DEF Identities
<1>8. \A y : Syncs(i, y) <=> Syncs(j, y)
    BY DEF Syncs
<1>9. \A accounts : Synced(i, accounts) = Synced(j, accounts)
    BY <1>8 DEF Synced
<1>10. GrantLive(i, x) <=> GrantLive(j, x)
    BY <1>4, <1>7, <1>9 DEF GrantLive
<1>11. OnlyDisplayed(i, x) <=> OnlyDisplayed(j, x)
    BY <1>4, <1>9 DEF OnlyDisplayed
<1>12. StandsHere(i, x) <=> StandsHere(j, x)
    BY <1>4, <1>10, <1>11 DEF StandsHere
<1>13. Protected(i, x) <=> Protected(j, x)
    BY <1>4 DEF Protected, AnsweredSources, ExpectedSources
<1>14. Stays(i, x) <=> Stays(j, x)
    BY <1>11, <1>12, <1>13 DEF Stays
<1>15. \A group : InGroup(i, x, group) <=> InGroup(j, x, group)
    BY <1>4, <1>8 DEF InGroup
<1>16. \A email : IsNamed(i, x, email) <=> IsNamed(j, x, email)
    BY <1>7 DEF IsNamed
<1>17. DesiredTeams(i, x) = DesiredTeams(j, x)
    BY <1>4, <1>10, <1>15, <1>16 DEF DesiredTeams
<1> QED
    BY <1>2, <1>10, <1>11, <1>12, <1>14, <1>17

\* What it takes for an action to be planned.
LEMMA PlanIsDiff ==
    ASSUME NEW in, NEW mode, NEW a \in PlanFor(in, mode)
    PROVE  /\ a \in Action
           /\ a.team = NoTeam => OrgAction(Render(in, mode), in.gh, a.kind, a.login)
           /\ a.team # NoTeam
                => TeamAction(Render(in, mode), in.gh, a.kind, a.login, a.team)
    BY DEF PlanFor, BuildPlan

\* An action on a team has a team kind, any other an organization kind.
LEMMA ActionKinds ==
    ASSUME NEW a \in Action
    PROVE  IF a.team = NoTeam THEN a.kind \in OrgKinds
                              ELSE a.kind \in {"team-add", "team-remove"} /\ a.team \in Teams
    BY RosterAssumptions DEF Action

\* The document's owners are GitHub's, its invitations are kept.
LEMMA DocumentShape ==
    ASSUME NEW in, NEW mode
    PROVE  /\ Render(in, mode).admins = in.gh.admins
           /\ in.gh.invited \subseteq Render(in, mode).members
           /\ mode = "removals" => /\ Render(in, mode).members = RemovalsOnlyMembers(in)
                                   /\ Render(in, mode).teams = NoTeams
           /\ mode = "full" => /\ Render(in, mode).members = FullMembers(in)
                               /\ Render(in, mode).teams = RenderTeams(in)
    BY DEF Render, Document, RemovalsOnlyMembers, FullMembers

\* Owners are out of the service's hands (renderer and reconciler together): no
\* plan makes, unmakes, invites or removes one.
THEOREM OwnersPassThrough ==
    ASSUME NEW in, NEW mode, NEW a \in PlanFor(in, mode)
    PROVE  /\ a.kind \notin {"promote", "demote", "add-admin"}
           /\ a.kind \in {"add-member", "remove-member"} => a.login \notin in.gh.admins
<1>1. CASE a.team = NoTeam
    <2>1. OrgAction(Render(in, mode), in.gh, a.kind, a.login)
        BY <1>1, PlanIsDiff
    <2>2. a.kind \in OrgKinds
        BY <1>1, PlanIsDiff, ActionKinds
    <2>3. Render(in, mode).admins = in.gh.admins
        BY DocumentShape
    <2> QED
        BY <2>1, <2>2, <2>3 DEF OrgAction, OrgKinds
<1>2. CASE a.team # NoTeam
    BY <1>2, PlanIsDiff, ActionKinds
<1> QED
    BY <1>1, <1>2

\* A pending invitation is neither withdrawn nor sent again: what the runbook
\* promises of invited people.
THEOREM InvitationsLeftAlone ==
    ASSUME NEW in, NEW mode, NEW a \in PlanFor(in, mode)
    PROVE  /\ a.kind # "cancel-invite"
           /\ a.kind \in {"add-member", "add-admin"} => a.login \notin in.gh.invited
<1>1. CASE a.team = NoTeam
    <2>1. OrgAction(Render(in, mode), in.gh, a.kind, a.login)
        BY <1>1, PlanIsDiff
    <2>2. a.kind \in OrgKinds
        BY <1>1, PlanIsDiff, ActionKinds
    <2>3. in.gh.invited \subseteq Render(in, mode).members
        BY DocumentShape
    <2> QED
        BY <2>1, <2>2, <2>3 DEF OrgAction, OrgKinds
<1>2. CASE a.team # NoTeam
    BY <1>2, PlanIsDiff, ActionKinds
<1> QED
    BY <1>1, <1>2

\* "The only change it can produce is a removal" (overview.md): a sweep's plan
\* holds removals from the organization and nothing else - so the re-check
\* before it is applied never has anything to refuse.
THEOREM SweepOnlyRemoves ==
    ASSUME NEW in, NEW a \in BuildPlan(Render(in, "removals"), in.gh)
    PROVE  a.kind = "remove-member"
<1>1. /\ Render(in, "removals").admins = in.gh.admins
      /\ Render(in, "removals").members = RemovalsOnlyMembers(in)
      /\ Render(in, "removals").teams = NoTeams
    BY DocumentShape
<1>2. a \in Action
    BY DEF BuildPlan
<1>3. CASE a.team = NoTeam
    <2>1. OrgAction(Render(in, "removals"), in.gh, a.kind, a.login)
        BY <1>3 DEF BuildPlan
    <2>2. a.kind \in OrgKinds
        BY <1>2, <1>3, ActionKinds
    <2>3. in.gh.invited \subseteq RemovalsOnlyMembers(in)
        BY DEF RemovalsOnlyMembers
    <2>4. RemovalsOnlyMembers(in) \subseteq in.gh.members \union in.gh.invited
        BY DEF RemovalsOnlyMembers
    <2> QED
        BY <1>1, <2>1, <2>2, <2>3, <2>4 DEF OrgAction, OrgKinds
<1>4. CASE a.team # NoTeam
    <2>1. a.team \in DOMAIN Render(in, "removals").teams
        BY <1>4 DEF BuildPlan, TeamAction
    <2> QED
        BY <1>1, <2>1 DEF NoTeams
<1> QED
    BY <1>3, <1>4

\* Nobody is removed without a cause: only a member the mapping knows, who is
\* no exception, and whom the join neither finds standing in the organization
\* nor knows through display-only domains alone nor has to protect.
THEOREM RemovalNeedsCause ==
    ASSUME NEW in, NEW mode \in {"full", "removals"},
           NEW a \in PlanFor(in, mode), a.kind = "remove-member"
    PROVE  /\ a.login \in in.gh.members \ Exceptions
           /\ a.login \in Mapped(in)
           /\ \A entry \in in.entries : entry.login = a.login => ~Stays(in, entry)
<1>1. a.team = NoTeam
    BY PlanIsDiff, ActionKinds
<1>2. OrgAction(Render(in, mode), in.gh, a.kind, a.login)
    BY <1>1, PlanIsDiff
<1>3. /\ a.login \notin Render(in, mode).members
      /\ a.login \in in.gh.members
    BY <1>2, DocumentShape DEF OrgAction
<1>4. CASE mode = "removals"
    BY <1>3, <1>4, DocumentShape DEF RemovalsOnlyMembers
<1>5. CASE mode = "full"
    <2>1. a.login \notin FullMembers(in)
        BY <1>3, <1>5, DocumentShape
    <2>2. a.login \notin Exceptions /\ a.login \in Mapped(in)
        BY <1>3, <2>1 DEF FullMembers
    <2>3. ASSUME NEW entry \in in.entries, entry.login = a.login
          PROVE  ~Stays(in, entry)
        <3>1. ~Wanted(in, entry)
            BY <2>1, <2>3 DEF FullMembers
        <3> QED
            BY <1>3, <2>3, <3>1 DEF Wanted, IsMember
    <2> QED
        BY <1>3, <2>2, <2>3
<1> QED
    BY <1>4, <1>5

\* The 2026-07-31 near-miss, for good: nobody who is declared in a directory
\* whose last fetch failed, or who was ever reported by one, is removed.
THEOREM OutageProtects ==
    ASSUME NEW in, NEW mode \in {"full", "removals"}, NEW entry \in in.entries,
           NEW a \in PlanFor(in, mode), a.kind = "remove-member",
           Protected(in, entry)
    PROVE  a.login # entry.login
    BY RemovalNeedsCause DEF Stays

\* A pinned team, and a team backed by an absent group, loses nobody to the
\* plan's team actions.
THEOREM FrozenTeamsKeep ==
    ASSUME NEW in, NEW mode \in {"full", "removals"},
           NEW a \in PlanFor(in, mode), a.kind = "team-remove"
    PROVE  /\ a.team \notin Pinned
           /\ GroupsOf[a.team] \intersect AbsentGroups(in) = {}
<1>1. a.team # NoTeam
    BY PlanIsDiff, ActionKinds DEF OrgKinds
<1>2. /\ a.team \in DOMAIN Render(in, mode).teams
      /\ a.login \in in.gh.team[a.team] \ Render(in, mode).teams[a.team]
    BY <1>1, PlanIsDiff DEF TeamAction
<1>3. mode = "full"
    BY <1>2, DocumentShape DEF NoTeams
<1>4. Render(in, mode).teams = RenderTeams(in)
    BY <1>3, DocumentShape
<1>5. /\ a.team \in DOMAIN in.gh.team
      /\ a.login \notin RenderTeams(in)[a.team]
    BY <1>2, <1>4 DEF RenderTeams
<1>6. (IF a.team \in Pinned \/ GroupsOf[a.team] \intersect AbsentGroups(in) # {}
       THEN in.gh.team[a.team] ELSE {}) \subseteq RenderTeams(in)[a.team]
    BY <1>5 DEF RenderTeams
<1> QED
    BY <1>2, <1>5, <1>6

-----------------------------------------------------------------------------
(* The People page and the plan agree, for all values of the constants and *)
(* all inputs a reading of GitHub and of the mapping can produce.          *)

\* One entry per login, which module MappingStore is about; and GitHub's own
\* rules: who is invited is not yet in, and teams are of those who are.
Wellformed(in) ==
    /\ \A x, y \in in.entries : x.login = y.login => x = y
    /\ in.gh.invited \intersect (in.gh.admins \union in.gh.members) = {}
    /\ \A t \in DOMAIN in.gh.team : in.gh.team[t] \subseteq in.gh.admins \union in.gh.members
    /\ \A x \in in.entries : x.bot \in BOOLEAN

\* Whoever stands in the organization is live somewhere, or is a bot.
LEMMA StandingIsLive ==
    ASSUME NEW in, NEW entry, GrantLive(in, entry), ~entry.bot
    PROVE  IsLive(Claimed(in, entry))
<1> DEFINE home == {a \in Identities(in, entry) : a.source = Company}
<1>1. home \subseteq Claimed(in, entry)
    BY DEF Identities
<1>2. IsLive(home) => IsLive(Claimed(in, entry))
    BY <1>1 DEF IsLive
<1>3. IsLive(Synced(in, Claimed(in, entry))) => IsLive(Claimed(in, entry))
    BY DEF IsLive, Synced
<1>4. IsLive(home) \/ IsLive(Synced(in, Claimed(in, entry)))
    BY DEF GrantLive
<1> QED
    BY <1>2, <1>3, <1>4

\* Who is governed by the directories is desired in a team only while they stand.
LEMMA DesiredStand ==
    ASSUME NEW in, NEW entry, Governed(in, entry), DesiredTeams(in, entry) # {}
    PROVE  StandsHere(in, entry)
<1>1. PICK t \in DesiredTeams(in, entry) : TRUE
    OBVIOUS
<1>2. CASE t \in Pinned
    <2>1. t \in entry.pinned
        BY <1>1, <1>2 DEF DesiredTeams
    <2> QED
        BY <2>1 DEF Governed
<1>3. CASE t \notin Pinned
    <2>1. GrantLive(in, entry)
        BY <1>1, <1>3 DEF DesiredTeams
    <2> QED
        BY <2>1 DEF Governed, StandsHere
<1> QED
    BY <1>2, <1>3

\* The state of somebody whose teams or invitation are owed.
LEMMA OwedIsPending ==
    ASSUME NEW in, NEW entry, entry.bot \in BOOLEAN,
           ~OnlyDisplayed(in, entry), StandsHere(in, entry), Owed(in, entry)
    PROVE  PersonState(in, entry) \in {"bot", "pending", "invited"}
<1>1. MembershipState(in, entry) \in {"pending", "invited"}
    BY DEF MembershipState, Seated
<1>2. ~entry.bot => IsLive(Claimed(in, entry))
    BY StandingIsLive DEF StandsHere
<1> QED
    BY <1>1, <1>2 DEF PersonState

\* A removal from the organization befalls only who is shown as leaving.
LEMMA RemovalIsShown ==
    ASSUME NEW in, Wellformed(in), NEW entry \in in.entries,
           NEW a \in PlanFor(in, "full"), a.kind = "remove-member", a.login = entry.login
    PROVE  PersonState(in, entry) = "leaving"
<1>1. /\ entry.login \in in.gh.members
      /\ ~Stays(in, entry)
    BY RemovalNeedsCause
<1>2. ~Invited(in, entry)
    BY <1>1 DEF Wellformed, Invited
<1>3. ~entry.bot
    BY <1>1 DEF Stays, StandsHere, OnlyDisplayed, GrantLive, Wellformed
<1>4. Seated(in, entry) /\ ~StandsHere(in, entry) /\ ~OnlyDisplayed(in, entry)
    BY <1>1, <1>2 DEF Stays, Seated, IsMember
<1>5. MembershipState(in, entry) = "leaving"
    BY <1>2, <1>4 DEF MembershipState
<1> QED
    BY <1>3, <1>5 DEF PersonState

\* An invitation goes only to who is shown as pending, or to a bot.
LEMMA InvitationIsShown ==
    ASSUME NEW in, Wellformed(in), NEW entry \in in.entries,
           NEW a \in PlanFor(in, "full"), a.kind = "add-member", a.login = entry.login
    PROVE  PersonState(in, entry) \in {"bot", "pending"}
<1>1. OrgAction(Render(in, "full"), in.gh, "add-member", entry.login)
    BY PlanIsDiff, ActionKinds
<1>2. /\ entry.login \in FullMembers(in)
      /\ ~IsMember(in, entry.login)
      /\ ~Invited(in, entry)
    BY <1>1, DocumentShape DEF OrgAction, IsMember, Invited
<1>3. Wanted(in, entry)
    <2>1. PICK x \in in.entries : x.login = entry.login /\ Wanted(in, x)
        BY <1>2 DEF FullMembers, IsMember, Invited
    <2> QED
        BY <2>1 DEF Wellformed
<1>4. StandsHere(in, entry) /\ ~OnlyDisplayed(in, entry) /\ Owed(in, entry)
    BY <1>2, <1>3 DEF Wanted, Owed
<1>5. MembershipState(in, entry) = "pending"
    BY <1>2, <1>4 DEF MembershipState, Seated
<1>6. ~entry.bot => IsLive(Claimed(in, entry))
    BY <1>4, StandingIsLive DEF StandsHere
<1> QED
    BY <1>5, <1>6 DEF PersonState, Wellformed

\* Who is added to a team is shown as pending or invited, or is a bot.
LEMMA TeamAddIsShown ==
    ASSUME NEW in, Wellformed(in), NEW entry \in in.entries, Governed(in, entry),
           NEW a \in PlanFor(in, "full"), a.kind = "team-add", a.login = entry.login
    PROVE  PersonState(in, entry) \in {"bot", "pending", "invited"}
<1> DEFINE t == a.team
<1>1. TeamAction(Render(in, "full"), in.gh, "team-add", entry.login, t)
    BY PlanIsDiff, ActionKinds DEF OrgKinds
<1>2. /\ t \in DOMAIN in.gh.team
      /\ entry.login \in RenderTeams(in)[t] \ in.gh.team[t]
    BY <1>1, DocumentShape DEF TeamAction, RenderTeams
<1>3. t \in DesiredTeams(in, entry)
    <2>1. PICK x \in in.entries : x.login = entry.login /\ t \in DesiredTeams(in, x)
        BY <1>2 DEF RenderTeams
    <2> QED
        BY <2>1 DEF Wellformed
<1>4. t \notin InTeams(in, entry)
    BY <1>2 DEF InTeams
<1>5. Owed(in, entry)
    BY <1>3, <1>4 DEF Owed
<1> QED
    BY <1>3, <1>5, DesiredStand, OwedIsPending DEF Governed, Wellformed

\* Who is taken out of a team is shown as leaving or pending, or is a bot.
LEMMA TeamRemovalIsShown ==
    ASSUME NEW in, Wellformed(in), NEW entry \in in.entries, Governed(in, entry),
           NEW a \in PlanFor(in, "full"), a.kind = "team-remove", a.login = entry.login
    PROVE  PersonState(in, entry) \in {"bot", "pending", "invited", "leaving"}
<1> DEFINE t == a.team
<1>1. TeamAction(Render(in, "full"), in.gh, "team-remove", entry.login, t)
    BY PlanIsDiff, ActionKinds DEF OrgKinds
<1>2. /\ t \in DOMAIN in.gh.team
      /\ entry.login \in in.gh.team[t] \ RenderTeams(in)[t]
    BY <1>1, DocumentShape DEF TeamAction, RenderTeams
<1>3. t \in InTeams(in, entry) \ DesiredTeams(in, entry)
    BY <1>2 DEF InTeams, RenderTeams
<1>4. entry.login \in in.gh.admins \union in.gh.members
    BY <1>2 DEF Wellformed
<1>5. /\ IsMember(in, entry.login)
      /\ ~Invited(in, entry)
      /\ Seated(in, entry)
    BY <1>4 DEF IsMember, Invited, Seated, Wellformed
<1>6. Owed(in, entry)
    BY <1>3, <1>5 DEF Owed
<1>7. CASE StandsHere(in, entry)
    BY <1>6, <1>7, OwedIsPending DEF Governed, Wellformed
<1>8. CASE ~StandsHere(in, entry)
    <2>1. MembershipState(in, entry) = "leaving"
        BY <1>5, <1>8 DEF MembershipState, Governed
    <2> QED
        BY <2>1 DEF PersonState, Wellformed
<1> QED
    BY <1>7, <1>8

\* The People page (roster.go:246) and the plan (reconciler.go:135) are two
\* comparisons of the same inputs, written apart: whatever a full plan does to
\* a mapped person, their row has announced.
THEOREM PlansAnnounced ==
    ASSUME NEW in, Wellformed(in), NEW entry \in in.entries
    PROVE  Announced(in, entry)
<1> SUFFICES ASSUME Governed(in, entry),
                    NEW a \in PlanFor(in, "full"), a.login = entry.login
             PROVE  a.kind \in Announces(PersonState(in, entry))
    BY DEF Announced
<1>1. a.kind \in {"add-member", "remove-member", "team-add", "team-remove"}
    <2>1. a.kind \in OrgKinds \union {"team-add", "team-remove"}
        BY PlanIsDiff, ActionKinds
    <2> QED
        BY <2>1, OwnersPassThrough, InvitationsLeftAlone DEF OrgKinds
<1>2. CASE a.kind = "remove-member"
    BY <1>2, RemovalIsShown DEF Announces
<1>3. CASE a.kind = "add-member"
    BY <1>3, InvitationIsShown DEF Announces
<1>4. CASE a.kind = "team-add"
    BY <1>4, TeamAddIsShown DEF Announces
<1>5. CASE a.kind = "team-remove"
    BY <1>5, TeamRemovalIsShown DEF Announces
<1> QED
    BY <1>1, <1>2, <1>3, <1>4, <1>5

\* Whom a full plan leaves in the organization although the page calls them
\* leaving, the page's warnings explain.
THEOREM StaysExplained ==
    ASSUME NEW in, Wellformed(in), NEW entry \in in.entries, entry.login \in Logins
    PROVE  Explained(in, entry)
<1> SUFFICES ASSUME MembershipState(in, entry) = "leaving",
                    ~Refused(Render(in, "full"), in.gh, "full"),
                    \A a \in PlanFor(in, "full") :
                        a.kind = "remove-member" => a.login # entry.login,
                    entry.login \notin Exceptions
             PROVE  \/ [kind |-> "not-live-owner", subject |-> entry.login] \in Warnings(in)
                    \/ \E s \in AnsweredSources(in, entry) \union ExpectedSources(in, entry) :
                            [kind |-> "stale-source", subject |-> s] \in Warnings(in)
    BY DEF Explained
<1>1. /\ ~OnlyDisplayed(in, entry)
      /\ ~Invited(in, entry)
      /\ Seated(in, entry)
      /\ ~StandsHere(in, entry)
    <2>1. ~OnlyDisplayed(in, entry)
        BY SMT DEF MembershipState
    <2>2. Seated(in, entry) /\ ~StandsHere(in, entry)
        BY <2>1, SMT DEF MembershipState
    <2> QED
        BY <2>1, <2>2 DEF Seated
<1>2. CASE entry.login \in in.gh.admins
    <2>1. entry.login \in NotLiveOwners(in)
        BY <1>1, <1>2 DEF NotLiveOwners
    <2> QED
        BY <2>1 DEF Warnings, Warn
<1>3. CASE entry.login \notin in.gh.admins
    <2>1. entry.login \in in.gh.members
        BY <1>1, <1>3 DEF Seated, IsMember, Invited
    <2> DEFINE removal == [kind |-> "remove-member", login |-> entry.login, team |-> NoTeam]
    <2>2. removal \in Action
        BY DEF Action, OrgKinds
    <2>3. removal \notin BuildPlan(Render(in, "full"), in.gh)
        BY DEF PlanFor
    <2>4. ~OrgAction(Render(in, "full"), in.gh, "remove-member", entry.login)
        BY <2>2, <2>3 DEF BuildPlan
    <2>5. entry.login \in FullMembers(in)
        BY <1>3, <2>1, <2>4, DocumentShape DEF OrgAction
    <2>6. PICK x \in in.entries : x.login = entry.login /\ Wanted(in, x)
        BY <1>1, <2>5 DEF FullMembers, Mapped, Invited
    <2>7. Protected(in, entry)
        BY <1>1, <2>6 DEF Wellformed, Wanted, Stays
    <2>8. PICK s \in AnsweredSources(in, entry) \union ExpectedSources(in, entry) :
                s \in in.unhealthy
        BY <2>7 DEF Protected
    <2>9. [kind |-> "stale-source", subject |-> s] \in Warnings(in)
        BY <2>8 DEF Warnings, Warn
    <2> QED
        BY <2>8, <2>9
<1> QED
    BY <1>2, <1>3
=============================================================================
