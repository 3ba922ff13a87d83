------------------------------ MODULE Lifecycle ------------------------------
(***************************************************************************)
(* What the console's People page says: the lifecycle state of each mapped *)
(* person and the warnings, which the join (src/pkg/roster) derives from   *)
(* the same inputs as a plan.  Roster decides what a pass does; here is    *)
(* what an operator is told of it, for one organization.                   *)
(***************************************************************************)
EXTENDS Roster

Invited(in, entry) == entry.login \in in.gh.invited

\* An invited person occupies a seat.
Seated(in, entry) == IsMember(in, entry.login) /\ ~Invited(in, entry)

\* Only the teams of the configuration count.
InTeams(in, entry) == {t \in DOMAIN in.gh.team : entry.login \in in.gh.team[t]}

\* A change is owed: to a member whose teams differ, or an invitation.
Owed(in, entry) ==
    IF IsMember(in, entry.login) THEN InTeams(in, entry) # DesiredTeams(in, entry)
                                 ELSE DesiredTeams(in, entry) # {}

\* Faulty variant: somebody live anywhere is not leaving.
MembershipStateByPerson(in, entry) ==
    CASE Invited(in, entry) -> "invited"
      [] Seated(in, entry) /\ ~IsLive(Claimed(in, entry)) -> "leaving"
      [] Seated(in, entry) /\ IsLive(Claimed(in, entry)) /\ ~Owed(in, entry) -> "synced"
      [] ~Invited(in, entry) /\ IsLive(Claimed(in, entry)) /\ Owed(in, entry) -> "pending"
      [] OTHER -> "none"

MembershipState(in, entry) ==
    LET live == StandsHere(in, entry)
    IN  IF OnlyDisplayed(in, entry)
        THEN IF IsMember(in, entry.login) THEN "display-only" ELSE "none"
        ELSE CASE Invited(in, entry) -> "invited"
               [] Seated(in, entry) /\ ~live -> "leaving"
               [] Seated(in, entry) /\ live /\ ~Owed(in, entry) -> "synced"
               [] ~Invited(in, entry) /\ live /\ Owed(in, entry) -> "pending"
               [] OTHER -> "none"

\* personState, over one organization: leaving outweighs left, and left the
\* rest.
PersonState(in, entry) ==
    LET state == MembershipState(in, entry)
        live == IsLive(Claimed(in, entry))
    IN  CASE entry.bot -> "bot"
          [] ~entry.bot /\ state = "leaving" -> "leaving"
          [] ~entry.bot /\ state # "leaving" /\ ~live -> "left"
          [] OTHER -> IF state = "none" /\ OnlyDisplayed(in, entry)
                      THEN "display-only"
                      ELSE state

-----------------------------------------------------------------------------
(* The warnings.                                                           *)

Warn(kind, subjects) == {[kind |-> kind, subject |-> x] : x \in subjects}

\* An entry accounts for its own name and for those its addresses match.
Covered(in) ==
    UNION {{entry.name} \union {a.name : a \in Claimed(in, entry)} : entry \in in.entries}

Unmapped(in) == {a.name : a \in {b \in Accounts(in) : b.live}} \ Covered(in)

Orphaned(in) == {entry \in in.entries : ~entry.bot /\ Claimed(in, entry) = {}}

\* Suspended people are in no team by design.
InNoTeam(in) ==
    {entry \in in.entries :
        DesiredTeams(in, entry) = {} /\ (entry.bot \/ IsLive(Claimed(in, entry)))}

UnknownMembers(in) ==
    (in.gh.admins \union in.gh.members) \ (Exceptions \union Mapped(in))

NotLiveOwners(in) ==
    {login \in in.gh.admins \ Exceptions :
        \E entry \in in.entries : entry.login = login /\ ~StandsHere(in, entry)}

Warnings(in) ==
    Warn("stale-source", in.unhealthy)
    \union Warn("absent-group", AbsentGroups(in))
    \union Warn("unmapped", Unmapped(in))
    \union Warn("orphaned-mapping", {entry.name : entry \in Orphaned(in)})
    \union Warn("no-team", {entry.name : entry \in InNoTeam(in)})
    \union Warn("unknown-member", UnknownMembers(in))
    \union Warn("not-live-owner", NotLiveOwners(in))

-----------------------------------------------------------------------------
\* What each state lets a plan do to the person.
Announces(state) ==
    CASE state = "leaving" -> {"remove-member", "team-remove"}
      [] state = "pending" -> {"add-member", "team-add", "team-remove"}
      [] state = "invited" -> {"team-add", "team-remove"}
      [] state = "bot" -> {"add-member", "team-add", "team-remove"}
      [] OTHER -> {}

\* Nobody is pinned to a team while their directories do not vouch for them,
\* and nobody is known through display-only domains alone.
Governed(in, entry) ==
    /\ entry.pinned # {} => StandsHere(in, entry)
    /\ ~OnlyDisplayed(in, entry)

\* Whatever a full plan does to a mapped person, the page made of the same
\* inputs has announced: "the comparison that matches what the loop would
\* actually do" (roster.go:810).
Announced(in, entry) ==
    Governed(in, entry) =>
        \A a \in PlanFor(in, "full") :
            a.login = entry.login => a.kind \in Announces(PersonState(in, entry))

\* Why a full plan may leave somebody in the organization whom the page calls
\* leaving: an exception, an owner it warns of, or a directory it calls stale
\* that the person depends on.
Explained(in, entry) ==
    /\ MembershipState(in, entry) = "leaving"
    /\ ~Refused(Render(in, "full"), in.gh, "full")
    /\ \A a \in PlanFor(in, "full") : a.kind = "remove-member" => a.login # entry.login
    => \/ entry.login \in Exceptions
       \/ [kind |-> "not-live-owner", subject |-> entry.login] \in Warnings(in)
       \/ \E s \in AnsweredSources(in, entry) \union ExpectedSources(in, entry) :
            [kind |-> "stale-source", subject |-> s] \in Warnings(in)
=============================================================================
