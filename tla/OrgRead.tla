-------------------------------- MODULE OrgRead --------------------------------
(***************************************************************************)
(* How the broker reads an organization (src/pkg/orgstate, ReadScoped) and *)
(* what a plan made of that reading asks for.                              *)
(*                                                                         *)
(* A reading is a handful of requests: owners page by page, then members   *)
(* page by page, beside them the invitations, beside both the members of   *)
(* each team in scope.  GitHub goes on changing in between.  Module Loop   *)
(* reads in one step; here every page is one.  Logins are numbered in the  *)
(* order in which GitHub lists them, and every team of the configuration   *)
(* exists: one that vanishes meanwhile fails the reading.                  *)
(***************************************************************************)
EXTENDS Roster

CONSTANTS
    PerPage,    \* how many logins one page holds (100)
    Rest,       \* the other inputs of a computation: see Roster
    Start,      \* the organization at the beginning
    Movers,     \* bound: the logins whose standing and teams change
    Modes       \* what the reading is for: "full", "removals"

Organization == [admins : SUBSET Logins, members : SUBSET Logins,
                 invited : SUBSET Logins, team : [Teams -> SUBSET Logins]]

\* On GitHub nobody has two seats.
OneSeat(org) ==
    /\ org.admins \intersect org.members = {}
    /\ (org.admins \union org.members) \intersect org.invited = {}

ASSUME ReadAssumptions ==
    /\ PerPage \in Nat \ {0}
    /\ Logins \subseteq Nat /\ IsFiniteSet(Logins) /\ Logins # {}
    /\ Teams \intersect {"admins", "members", "invited"} = {}
    /\ Start \in Organization /\ OneSeat(Start)
    /\ Movers \subseteq Logins
    /\ Modes \subseteq {"full", "removals"}

VARIABLES
    gh,         \* the organization in GitHub: admins, members, invited, team
    pc, mode,   \* where the reading is, and what it is for
    got,        \* what it has listed so far, per listing
    page,       \* per listing: the page to ask for, 0 when it is complete
    plan,
    changed     \* remembered: the logins that changed since it began

vars == <<gh, pc, mode, got, page, plan, changed>>

\* The listings: three of the organization, one of each team.
Lists == {"admins", "members", "invited"} \union Teams

Listing(org, list) == IF list \in Teams THEN org.team[list] ELSE org[list]

Unread == [list \in Lists |-> {}]

Init ==
    /\ gh = Start
    /\ pc = "idle"
    /\ mode \in Modes
    /\ got = Unread
    /\ page = [list \in Lists |-> 1]
    /\ plan = {}
    /\ changed = {}

-------------------------------------------------------------------------------
(* The reading.                                                              *)

Begin ==
    /\ pc = "idle"
    /\ mode' \in Modes
    /\ pc' = "reading"
    /\ changed' = {}
    /\ UNCHANGED <<gh, got, page, plan>>

\* Where a login comes in a listing.
Place(logins, l) == Cardinality({k \in logins : k <= l})

\* The n-th page of what GitHub lists now.
PageOf(logins, n) ==
    {l \in logins : Place(logins, l) > (n - 1) * PerPage /\ Place(logins, l) <= n * PerPage}

IsLastPage(logins, n) == n * PerPage >= Cardinality(logins)

NextPage(list) ==
    IF IsLastPage(Listing(gh, list), page[list]) THEN 0 ELSE page[list] + 1

\* Faulty variant: the two roles are listed concurrently.
MayListAny(list) == TRUE

\* Members lists by role, owners first; the rest runs concurrently.
MayList(list) == list = "members" => page["admins"] = 0

ListPage(list) ==
    /\ pc = "reading"
    /\ page[list] # 0
    /\ MayList(list)
    /\ got' = [got EXCEPT ![list] = @ \union PageOf(Listing(gh, list), page[list])]
    /\ page' = [page EXCEPT ![list] = NextPage(list)]
    /\ UNCHANGED <<gh, pc, mode, plan, changed>>

Leave ==
    /\ pc' = "idle"
    /\ got' = Unread
    /\ page' = [list \in Lists |-> 1]
    /\ plan' = {}
    /\ changed' = {}
    /\ UNCHANGED <<gh, mode>>

\* Any request that fails fails the whole reading.
ReadFails ==
    /\ pc = "reading"
    /\ Leave

\* Faulty variant: the pending invitations are left out.
StateUninvited ==
    [admins |-> got["admins"], members |-> got["members"],
     invited |-> {}, team |-> [t \in Teams |-> got[t]]]

\* assemble: the State of the listings.
State ==
    [admins |-> got["admins"], members |-> got["members"],
     invited |-> got["invited"], team |-> [t \in Teams |-> got[t]]]

Inputs(org) ==
    [cfg |-> Rest.cfg, snaps |-> Rest.snaps, unhealthy |-> Rest.unhealthy,
     entries |-> Rest.entries, gh |-> org]

\* planMembership indexes the members by login: of two records of one login
\* the later one, the member's, holds.
Roles(org) == [org EXCEPT !.admins = @ \ org.members]

\* A sweep whose document keeps every seat stops there.
NothingToRemove(doc, org) ==
    mode = "removals" /\ org.members \union org.invited \subseteq doc.members

\* compute and sweepOrg, on a State.
PlanOf(org) ==
    LET doc == Render(Inputs(org), mode)
    IN  IF NothingToRemove(doc, org) \/ Refused(doc, Roles(org), mode)
        THEN {}
        ELSE BuildPlan(doc, Roles(org))

Assemble ==
    /\ pc = "reading"
    /\ \A list \in Lists : page[list] = 0
    /\ plan' = PlanOf(State)
    /\ pc' = "planned"
    /\ UNCHANGED <<gh, mode, got, page, changed>>

Done ==
    /\ pc = "planned"
    /\ Leave

-------------------------------------------------------------------------------
(* GitHub (external), edited by its owners and by the people it invites.     *)

Seats(l) == {list \in {"admins", "members", "invited"} : l \in gh[list]}

Noticed(l) == changed' = IF pc = "idle" THEN {} ELSE changed \union {l}

\* Somebody is invited, accepts, is promoted, demoted or removed.
StandingChanges(l) ==
    /\ \E seat \in {"admins", "members", "invited", "outside"} :
        /\ seat = "invited" => Seats(l) = {}
        /\ seat = "admins" => Seats(l) = {"members"}
        /\ seat = "members" => Seats(l) # {} /\ Seats(l) # {"members"}
        /\ seat = "outside" => Seats(l) # {}
        /\ gh' =
            [admins |-> (gh.admins \ {l}) \union (IF seat = "admins" THEN {l} ELSE {}),
             members |-> (gh.members \ {l}) \union (IF seat = "members" THEN {l} ELSE {}),
             invited |-> (gh.invited \ {l}) \union (IF seat = "invited" THEN {l} ELSE {}),
             team |-> IF seat \in {"admins", "members"} THEN gh.team
                      ELSE [t \in Teams |-> gh.team[t] \ {l}]]
    /\ Noticed(l)
    /\ UNCHANGED <<pc, mode, got, page, plan>>

TeamChanges(l) ==
    /\ l \in gh.admins \union gh.members
    /\ \E t \in Teams :
        gh' = [gh EXCEPT !.team[t] = IF l \in @ THEN @ \ {l} ELSE @ \union {l}]
    /\ Noticed(l)
    /\ UNCHANGED <<pc, mode, got, page, plan>>

Next ==
    \/ Begin
    \/ \E list \in Lists : ListPage(list)
    \/ ReadFails
    \/ Assemble
    \/ Done
    \/ \E l \in Movers : StandingChanges(l) \/ TeamChanges(l)

Spec == Init /\ [][Next]_vars

-------------------------------------------------------------------------------
\* The types of the variables; on GitHub nobody has two seats, and a reading
\* asks for members once it has all the owners.
TypeOK ==
    /\ gh \in Organization
    /\ OneSeat(gh)
    /\ pc \in {"idle", "reading", "planned"}
    /\ mode \in Modes
    /\ got \in [Lists -> SUBSET Logins]
    /\ page \in [Lists -> 0 .. Cardinality(Logins)]
    /\ page["admins"] # 0 => got["members"] = {}
    /\ plan \subseteq Action
    /\ changed \subseteq Logins

\* Whose place in a listing the changes so far can not have moved: everybody
\* whose own standing is as it was, but where a listing takes several pages,
\* only if nobody listed before them changed.
Undisturbed ==
    IF PerPage >= Cardinality(Logins)
    THEN Logins \ changed
    ELSE {l \in Logins : \A k \in changed : k > l}

\* What a plan asks of the undisturbed is what it would ask had the whole
\* organization been read at once, however torn the reading was for others;
\* or it asks for nothing.
UndisturbedArePlanned ==
    LET asked(actions) == {a \in actions : a.login \in Undisturbed}
    IN  pc = "planned" /\ plan # {} =>
            asked(plan) = asked(BuildPlan(Render(Inputs(gh), mode), gh))

\* A plan made for a removals sweep gives nobody anything: neither a seat nor
\* a role ("an unattended run ... that can grant access", render.go:145).
SweepGrantsNothing ==
    mode = "removals" /\ pc = "planned" =>
        \A a \in plan : a.kind \notin Additions \union {"promote"}
===============================================================================
