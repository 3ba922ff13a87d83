---------------------------- MODULE OrgReadProofs ----------------------------
(***************************************************************************)
(* A reading of an organization that changes while it is read, for every   *)
(* size of page and of organization: types hold, and what a plan asks of   *)
(* whoever the changes cannot have displaced is what it would ask of the   *)
(* organization as it is.                                                  *)
(***************************************************************************)
EXTENDS OrgRead, RosterProofs, FiniteSetTheorems

-----------------------------------------------------------------------------
(* Listings and pages.                                                     *)

LEMMA ListingTyped ==
    ASSUME NEW org \in Organization, NEW list \in Lists
    PROVE  Listing(org, list) \subseteq Logins
    BY DEF Listing, Lists, Organization

\* Who is listed has a place in the listing.
LEMMA PlaceIn ==
    ASSUME NEW S \in SUBSET Logins, NEW l \in S
    PROVE  /\ Place(S, l) \in Nat /\ Cardinality(S) \in Nat /\ Cardinality(Logins) \in Nat
           /\ 1 <= Place(S, l)
           /\ Place(S, l) <= Cardinality(S)
           /\ Cardinality(S) <= Cardinality(Logins)
<1> DEFINE upto == {k \in S : k <= l}
<1>1. IsFiniteSet(Logins) /\ Logins \subseteq Nat
    BY ReadAssumptions
<1>2. /\ IsFiniteSet(S) /\ Cardinality(S) <= Cardinality(Logins)
    BY <1>1, FS_Subset
<1>3. upto \in SUBSET S
    OBVIOUS
<1>4. l \in upto
    BY <1>1
<1> HIDE DEF upto
<1>5. IsFiniteSet(upto) /\ Cardinality(upto) <= Cardinality(S)
    BY <1>2, <1>3, FS_Subset
<1>6. Cardinality(upto) # 0
    BY <1>4, <1>5, FS_EmptySet
<1>7. /\ Cardinality(upto) \in Nat /\ Cardinality(S) \in Nat
      /\ Cardinality(Logins) \in Nat
    BY <1>1, <1>2, <1>5, FS_CardinalityType
<1>8. Place(S, l) = Cardinality(upto)
    BY DEF Place, upto
<1> QED
    BY <1>2, <1>5, <1>6, <1>7, <1>8

\* Only who comes before moves somebody's place.
LEMMA PlaceSame ==
    ASSUME NEW S, NEW R, NEW l, \A k : k <= l => (k \in S <=> k \in R)
    PROVE  Place(S, l) = Place(R, l)
<1>1. {k \in S : k <= l} = {k \in R : k <= l}
    OBVIOUS
<1> QED
    BY <1>1 DEF Place

LEMMA PagesTyped ==
    ASSUME NEW S \in SUBSET Logins, NEW n \in Nat
    PROVE  /\ n * PerPage \in Nat
           /\ n >= 1 => (n - 1) * PerPage \in Nat /\ n * PerPage = (n - 1) * PerPage + PerPage
           /\ n <= n * PerPage
<1>1. PerPage \in Nat /\ PerPage >= 1
    BY ReadAssumptions
<1> QED
    BY <1>1

\* After a page somebody is listed who was, or whose place is on it; after the
\* last everybody is.
LEMMA PageLists ==
    ASSUME NEW S \in SUBSET Logins, NEW n \in Nat, n >= 1, NEW l \in Logins
    PROVE  /\ (l \in S /\ Place(S, l) <= (n - 1) * PerPage) \/ l \in PageOf(S, n)
                <=> l \in S /\ Place(S, l) <= n * PerPage
           /\ IsLastPage(S, n) => (l \in S => Place(S, l) <= n * PerPage)
<1>1. PerPage \in Nat
    BY ReadAssumptions
<1>2. /\ n * PerPage \in Nat /\ (n - 1) * PerPage \in Nat
      /\ n * PerPage = (n - 1) * PerPage + PerPage
    BY PagesTyped
<1> DEFINE here == n * PerPage
           before == (n - 1) * PerPage
<1>3. here \in Nat /\ before \in Nat /\ here = before + PerPage
    BY <1>2
<1>4. /\ l \in PageOf(S, n) <=> l \in S /\ Place(S, l) > before /\ Place(S, l) <= here
      /\ IsLastPage(S, n) <=> here >= Cardinality(S)
    BY DEF PageOf, IsLastPage
<1> HIDE DEF here, before
<1>5. CASE l \in S
    <2>1. /\ Place(S, l) \in Nat /\ Cardinality(S) \in Nat /\ Place(S, l) <= Cardinality(S)
        BY <1>5, PlaceIn
    <2>2. (Place(S, l) <= before \/ (Place(S, l) > before /\ Place(S, l) <= here))
            <=> Place(S, l) <= here
        BY <1>1, <1>3, <2>1
    <2>3. here >= Cardinality(S) => Place(S, l) <= here
        BY <1>3, <2>1
    <2>4. /\ (l \in S /\ Place(S, l) <= before) \/ l \in PageOf(S, n)
                <=> l \in S /\ Place(S, l) <= here
          /\ IsLastPage(S, n) => (l \in S => Place(S, l) <= here)
        BY <1>4, <1>5, <2>2, <2>3
    <2> QED
        BY <2>4 DEF here, before
<1>6. CASE l \notin S
    BY <1>4, <1>6
<1> QED
    BY <1>5, <1>6

-----------------------------------------------------------------------------
(* A plan looks at one person at a time: two organizations in which        *)
(* somebody has the same standing and the same teams give the same plan    *)
(* for them.                                                               *)

LEMMA InputsApart ==
    ASSUME NEW one, NEW two
    PROVE  /\ Inputs(one).gh = one /\ Inputs(two).gh = two
           /\ Inputs(one).cfg = Inputs(two).cfg /\ Inputs(one).snaps = Inputs(two).snaps
           /\ Inputs(one).unhealthy = Inputs(two).unhealthy
           /\ Inputs(one).entries = Inputs(two).entries
    BY DEF Inputs

\* Somebody stands in both as they stand in the other.
Alike(one, two, l) ==
    /\ l \in one.admins <=> l \in two.admins
    /\ l \in one.members <=> l \in two.members
    /\ l \in one.invited <=> l \in two.invited
    /\ \A t \in Teams : l \in one.team[t] <=> l \in two.team[t]

LEMMA DocumentsAlike ==
    ASSUME NEW one \in Organization, NEW two \in Organization, NEW l, Alike(one, two, l),
           NEW m
    PROVE  LET d == Render(Inputs(one), m)
               e == Render(Inputs(two), m)
           IN  /\ l \in d.admins <=> l \in e.admins
               /\ l \in d.members <=> l \in e.members
               /\ DOMAIN d.teams = DOMAIN e.teams
               /\ \A t \in Teams \intersect DOMAIN d.teams :
                    l \in d.teams[t] <=> l \in e.teams[t]
<1> DEFINE i == Inputs(one)
           j == Inputs(two)
<1>1. i.gh = one /\ j.gh = two /\ i.entries = j.entries
    BY InputsApart
<1>2. DOMAIN one.team = Teams /\ DOMAIN two.team = Teams
    BY DEF Organization
<1>3. \A x : /\ Stays(i, x) <=> Stays(j, x)
             /\ OnlyDisplayed(i, x) <=> OnlyDisplayed(j, x)
             /\ StandsHere(i, x) <=> StandsHere(j, x)
             /\ DesiredTeams(i, x) = DesiredTeams(j, x)
    BY InputsApart, StandingApart
<1>4. AbsentGroups(i) = AbsentGroups(j)
    BY InputsApart, StandingApart
<1> HIDE DEF i, j
<1>5. IsMember(i, l) <=> IsMember(j, l)
    BY <1>1 DEF IsMember, Alike
<1>6. \A x : x.login = l => (Wanted(i, x) <=> Wanted(j, x))
    BY <1>3, <1>5 DEF Wanted
<1>7. Mapped(i) = Mapped(j)
    BY <1>1 DEF Mapped
<1>8. l \in FullMembers(i) <=> l \in FullMembers(j)
    <2>1. l \in {x.login : x \in {y \in i.entries : Wanted(i, y)}}
            <=> l \in {x.login : x \in {y \in j.entries : Wanted(j, y)}}
        BY <1>1, <1>6
    <2> QED
        BY <1>1, <1>7, <2>1 DEF FullMembers, Alike
<1>9. l \in RemovalsOnlyMembers(i) <=> l \in RemovalsOnlyMembers(j)
    BY <1>1, <1>3, <1>7 DEF RemovalsOnlyMembers, Alike
<1>10. /\ DOMAIN RenderTeams(i) = Teams /\ DOMAIN RenderTeams(j) = Teams
       /\ \A t \in Teams : l \in RenderTeams(i)[t] <=> l \in RenderTeams(j)[t]
    <2>1. \A t \in Teams : l \in {x.login : x \in {y \in i.entries : t \in DesiredTeams(i, y)}}
            <=> l \in {x.login : x \in {y \in j.entries : t \in DesiredTeams(j, y)}}
        BY <1>1, <1>3
    <2> QED
        BY <1>1, <1>2, <1>4, <2>1 DEF RenderTeams, Alike
<1>11. /\ Render(i, m).admins = one.admins /\ Render(j, m).admins = two.admins
       /\ m = "full" => /\ Render(i, m).members = FullMembers(i)
                        /\ Render(j, m).members = FullMembers(j)
                        /\ Render(i, m).teams = RenderTeams(i)
                        /\ Render(j, m).teams = RenderTeams(j)
       /\ m # "full" => /\ Render(i, m).members = RemovalsOnlyMembers(i)
                        /\ Render(j, m).members = RemovalsOnlyMembers(j)
                        /\ Render(i, m).teams = NoTeams
                        /\ Render(j, m).teams = NoTeams
    BY <1>1 DEF Render, Document
<1>12. DOMAIN NoTeams = {}
    BY DEF NoTeams
<1>13. CASE m = "full"
    BY <1>8, <1>10, <1>11, <1>13 DEF Alike, i, j
<1>14. CASE m # "full"
    BY <1>9, <1>11, <1>12, <1>14 DEF Alike, i, j
<1> QED
    BY <1>13, <1>14

\* The index of a reading and one of the organization itself, for somebody who
\* stands alike in both.
LEMMA PlansAlike ==
    ASSUME NEW one \in Organization, NEW two \in Organization, OneSeat(two),
           NEW a \in Action, Alike(one, two, a.login), NEW m
    PROVE  a \in BuildPlan(Render(Inputs(one), m), Roles(one))
                <=> a \in BuildPlan(Render(Inputs(two), m), two)
<1> DEFINE d == Render(Inputs(one), m)
           e == Render(Inputs(two), m)
           l == a.login
           r == Roles(one)
<1>1. /\ l \in d.admins <=> l \in e.admins
      /\ l \in d.members <=> l \in e.members
      /\ DOMAIN d.teams = DOMAIN e.teams
      /\ \A t \in Teams \intersect DOMAIN d.teams : l \in d.teams[t] <=> l \in e.teams[t]
    BY DocumentsAlike
<1>2. /\ r.members = one.members /\ r.invited = one.invited /\ r.team = one.team
      /\ r.admins = one.admins \ one.members
    BY DEF Roles, Organization
<1>3. /\ l \in r.admins <=> l \in two.admins
      /\ l \in r.members <=> l \in two.members
      /\ l \in r.invited <=> l \in two.invited
      /\ \A t \in Teams : l \in r.team[t] <=> l \in two.team[t]
    BY <1>2 DEF Alike, OneSeat
<1> HIDE DEF d, e, r
<1>4. CASE a.team = NoTeam
    <2>1. OrgAction(d, r, a.kind, l) <=> OrgAction(e, two, a.kind, l)
        BY <1>1, <1>3 DEF OrgAction
    <2> QED
        BY <1>4, <2>1 DEF BuildPlan, d, e, r
<1>5. CASE a.team # NoTeam
    <2>1. a.team \in Teams
        BY <1>5 DEF Action
    <2>2. TeamAction(d, r, a.kind, l, a.team) <=> TeamAction(e, two, a.kind, l, a.team)
        BY <1>1, <1>3, <2>1 DEF TeamAction
    <2> QED
        BY <1>5, <2>2 DEF BuildPlan, d, e, r
<1> QED
    BY <1>4, <1>5

-----------------------------------------------------------------------------
(* The inductive invariant.  For whoever the changes so far cannot have    *)
(* displaced, each listing is right as far as it goes: they are in it      *)
(* exactly when GitHub now lists them on a page that has been asked for.   *)

Typed ==
    /\ gh \in Organization /\ OneSeat(gh)
    /\ pc \in {"idle", "reading", "planned"}
    /\ mode \in Modes
    /\ got \in [Lists -> SUBSET Logins]
    /\ page \in [Lists -> Nat]
    /\ page["admins"] # 0 => got["members"] = {}
    /\ plan \subseteq Action
    /\ changed \subseteq Logins

\* No page is asked for beyond the last, nor a second where one holds all.
PagesOK ==
    \A list \in Lists : /\ page[list] <= Cardinality(Logins)
                        /\ PerPage >= Cardinality(Logins) => page[list] \in {0, 1}

Listed(list, l) ==
    /\ l \in Listing(gh, list)
    /\ page[list] = 0 \/ Place(Listing(gh, list), l) <= (page[list] - 1) * PerPage

Progress ==
    pc # "idle" =>
        \A list \in Lists : \A l \in Undisturbed : l \in got[list] <=> Listed(list, l)

Idle ==
    pc = "idle" => got = Unread /\ page = [list \in Lists |-> 1] /\ changed = {} /\ plan = {}

Made ==
    pc = "planned" => (\A list \in Lists : page[list] = 0) /\ plan = PlanOf(State)

IInv == Typed /\ PagesOK /\ Progress /\ Idle /\ Made

\* A reading that has not begun has listed nobody.
LEMMA NobodyYet ==
    ASSUME NEW S \in SUBSET Logins, NEW l \in S
    PROVE  ~(Place(S, l) <= (1 - 1) * PerPage)
<1>1. (1 - 1) * PerPage = 0
    BY ReadAssumptions
<1>2. Place(S, l) \in Nat /\ 1 <= Place(S, l)
    BY PlaceIn
<1> QED
    BY <1>1, <1>2

LEMMA OnePageOK ==
    Cardinality(Logins) \in Nat /\ 1 <= Cardinality(Logins)
<1>1. IsFiniteSet(Logins) /\ Logins # {}
    BY ReadAssumptions
<1>2. Cardinality(Logins) \in Nat /\ Cardinality(Logins) # 0
    BY <1>1, FS_CardinalityType, FS_EmptySet
<1> QED
    BY <1>2

LEMMA InitIInv ==
    ASSUME Init
    PROVE  IInv
<1>1. Typed
    BY ReadAssumptions DEF Init, Typed, Unread, Lists
<1>2. PagesOK
    BY OnePageOK DEF Init, PagesOK
<1>3. Progress /\ Idle /\ Made
    BY DEF Init, Progress, Idle, Made
<1> QED
    BY <1>1, <1>2, <1>3 DEF IInv

-----------------------------------------------------------------------------
(* The changes on GitHub.                                                  *)

\* A change concerns one login.
LEMMA ChangeIsLocal ==
    ASSUME gh \in Organization, OneSeat(gh), NEW l \in Logins,
           StandingChanges(l) \/ TeamChanges(l)
    PROVE  /\ gh' \in Organization /\ OneSeat(gh')
           /\ \A list \in Lists : \A k :
                k # l => (k \in Listing(gh', list) <=> k \in Listing(gh, list))
<1>1. CASE StandingChanges(l)
    <2>1. PICK seat \in {"admins", "members", "invited", "outside"} :
            gh' =
            [admins |-> (gh.admins \ {l}) \union (IF seat = "admins" THEN {l} ELSE {}),
             members |-> (gh.members \ {l}) \union (IF seat = "members" THEN {l} ELSE {}),
             invited |-> (gh.invited \ {l}) \union (IF seat = "invited" THEN {l} ELSE {}),
             team |-> IF seat \in {"admins", "members"} THEN gh.team
                      ELSE [t \in Teams |-> gh.team[t] \ {l}]]
        BY <1>1 DEF StandingChanges
    <2>2. gh.team \in [Teams -> SUBSET Logins]
        BY DEF Organization
    <2>3. gh'.team = gh.team \/ gh'.team = [t \in Teams |-> gh.team[t] \ {l}]
        BY <2>1
    <2>4. gh'.team \in [Teams -> SUBSET Logins]
        BY <2>2, <2>3
    <2>5. gh' \in Organization
        <3>1. /\ gh'.admins \in SUBSET Logins /\ gh'.members \in SUBSET Logins
              /\ gh'.invited \in SUBSET Logins
            BY <2>1 DEF Organization
        <3>2. gh' = [admins |-> gh'.admins, members |-> gh'.members,
                     invited |-> gh'.invited, team |-> gh'.team]
            BY <2>1
        <3> QED
            BY <2>4, <3>1, <3>2 DEF Organization
    <2>6. OneSeat(gh')
        BY <2>1 DEF OneSeat
    <2>7. ASSUME NEW list \in Lists, NEW k, k # l
          PROVE  k \in Listing(gh', list) <=> k \in Listing(gh, list)
        <3>1. CASE list \in Teams
            BY <2>2, <2>3, <2>7, <3>1 DEF Listing
        <3>2. CASE list \notin Teams
            <4>1. list \in {"admins", "members", "invited"}
                BY <2>7, <3>2 DEF Lists
            <4> QED
                BY <2>1, <2>7, <3>2, <4>1 DEF Listing
        <3> QED
            BY <3>1, <3>2
    <2> QED
        BY <2>5, <2>6, <2>7
<1>2. CASE TeamChanges(l)
    <2>1. PICK t \in Teams :
            gh' = [gh EXCEPT !.team[t] = IF l \in @ THEN @ \ {l} ELSE @ \union {l}]
        BY <1>2 DEF TeamChanges
    <2>2. /\ gh' \in Organization
          /\ gh'.admins = gh.admins /\ gh'.members = gh.members /\ gh'.invited = gh.invited
          /\ \A u \in Teams : \A k : k # l => (k \in gh'.team[u] <=> k \in gh.team[u])
        BY <2>1 DEF Organization
    <2>3. OneSeat(gh')
        BY <2>2 DEF OneSeat
    <2>4. ASSUME NEW list \in Lists, NEW k, k # l
          PROVE  k \in Listing(gh', list) <=> k \in Listing(gh, list)
        BY <2>2, <2>4 DEF Listing, Lists
    <2> QED
        BY <2>2, <2>3, <2>4
<1> QED
    BY <1>1, <1>2

\* Whoever is still undisturbed is listed as before.
LEMMA ListedStill ==
    ASSUME Typed, PagesOK, NEW k \in Logins, pc # "idle",
           StandingChanges(k) \/ TeamChanges(k),
           NEW list \in Lists, NEW l \in Undisturbed'
    PROVE  /\ l \in Undisturbed
           /\ Listed(list, l)' <=> Listed(list, l)
<1> DEFINE S == Listing(gh, list)
           R == Listing(gh', list)
<1>1. /\ changed' = changed \union {k} /\ UNCHANGED page
    BY DEF StandingChanges, TeamChanges, Noticed
<1>2. S \subseteq Logins /\ R \subseteq Logins /\ Logins \subseteq Nat
    BY ChangeIsLocal, ListingTyped, ReadAssumptions DEF Typed
<1>3. \A j : j # k => (j \in R <=> j \in S)
    BY ChangeIsLocal DEF Typed
<1>4. /\ Listed(list, l)' <=>
            l \in R /\ (page[list] = 0 \/ Place(R, l) <= (page[list] - 1) * PerPage)
      /\ Listed(list, l) <=>
            l \in S /\ (page[list] = 0 \/ Place(S, l) <= (page[list] - 1) * PerPage)
    BY <1>1 DEF Listed
<1> HIDE DEF S, R
<1>5. CASE PerPage >= Cardinality(Logins)
    <2>1. l \in Logins \ changed /\ l # k
        BY <1>1, <1>5 DEF Undisturbed
    <2>2. l \in Undisturbed
        BY <1>5, <2>1 DEF Undisturbed
    <2>3. l \in R <=> l \in S
        BY <1>3, <2>1
    <2>4. page[list] \in {0, 1}
        BY <1>5 DEF PagesOK
    <2>5. /\ l \in R => ~(Place(R, l) <= (1 - 1) * PerPage)
          /\ l \in S => ~(Place(S, l) <= (1 - 1) * PerPage)
        BY <1>2, NobodyYet
    <2> QED
        BY <1>4, <2>2, <2>3, <2>4, <2>5
<1>6. CASE ~(PerPage >= Cardinality(Logins))
    <2>1. l \in Logins /\ k > l /\ \A j \in changed : j > l
        BY <1>1, <1>6 DEF Undisturbed
    <2>2. l \in Undisturbed
        BY <1>6, <2>1 DEF Undisturbed
    <2>3. \A j : j <= l => (j \in R <=> j \in S)
        BY <1>2, <1>3, <2>1
    <2>4. Place(R, l) = Place(S, l)
        BY <2>3, PlaceSame
    <2>5. l \in R <=> l \in S
        BY <1>2, <1>3, <2>1
    <2> QED
        BY <1>4, <2>2, <2>4, <2>5
<1> QED
    BY <1>5, <1>6

LEMMA ChangeIInv ==
    ASSUME IInv, NEW k \in Logins, StandingChanges(k) \/ TeamChanges(k)
    PROVE  IInv'
<1>1. /\ UNCHANGED <<pc, mode, got, page, plan>>
      /\ changed' = IF pc = "idle" THEN {} ELSE changed \union {k}
    BY DEF StandingChanges, TeamChanges, Noticed
<1>2. Typed'
    BY <1>1, ChangeIsLocal DEF IInv, Typed
<1>3. PagesOK'
    BY <1>1 DEF IInv, PagesOK
<1>4. Progress'
    <2> SUFFICES ASSUME pc # "idle", NEW list \in Lists, NEW l \in Undisturbed'
                 PROVE  l \in got[list] <=> Listed(list, l)'
        BY <1>1 DEF Progress
    <2>1. l \in Undisturbed /\ (Listed(list, l)' <=> Listed(list, l))
        BY ListedStill DEF IInv
    <2> QED
        BY <2>1 DEF IInv, Progress
<1>5. Idle'
    BY <1>1 DEF IInv, Idle
<1>6. Made'
    BY <1>1 DEF IInv, Made, PlanOf, State, NothingToRemove
<1> QED
    BY <1>2, <1>3, <1>4, <1>5, <1>6 DEF IInv

-----------------------------------------------------------------------------
(* The reading.                                                            *)

LEMMA BeginIInv ==
    ASSUME IInv, Begin
    PROVE  IInv'
<1>1. /\ pc = "idle" /\ mode' \in Modes /\ pc' = "reading" /\ changed' = {}
      /\ UNCHANGED <<gh, got, page, plan>>
    BY DEF Begin
<1>2. Typed' /\ PagesOK' /\ Idle' /\ Made'
    BY <1>1 DEF IInv, Typed, PagesOK, Idle, Made
<1>3. Progress'
    <2> SUFFICES ASSUME NEW list \in Lists, NEW l
                 PROVE  l \in got[list] <=> Listed(list, l)'
        BY <1>1 DEF Progress
    <2>1. got[list] = {} /\ page[list] = 1
        BY <1>1 DEF IInv, Idle, Unread
    <2>2. Listing(gh, list) \subseteq Logins
        BY ListingTyped DEF IInv, Typed
    <2>3. ~Listed(list, l)'
        <3>1. CASE l \in Listing(gh, list)
            <4>1. ~(Place(Listing(gh, list), l) <= (1 - 1) * PerPage)
                BY <2>2, <3>1, NobodyYet
            <4> QED
                BY <1>1, <2>1, <4>1 DEF Listed
        <3>2. CASE l \notin Listing(gh, list)
            BY <1>1, <3>2 DEF Listed
        <3> QED
            BY <3>1, <3>2
    <2> QED
        BY <2>1, <2>3
<1> QED
    BY <1>2, <1>3 DEF IInv

LEMMA LeaveIInv ==
    ASSUME IInv, Leave
    PROVE  IInv'
<1>1. /\ pc' = "idle" /\ got' = Unread /\ page' = [list \in Lists |-> 1]
      /\ plan' = {} /\ changed' = {} /\ UNCHANGED <<gh, mode>>
    BY DEF Leave
<1>2. Typed'
    BY <1>1 DEF IInv, Typed, Unread, Lists
<1>3. PagesOK'
    BY <1>1, OnePageOK DEF PagesOK
<1>4. Progress' /\ Idle' /\ Made'
    BY <1>1 DEF Progress, Idle, Made
<1> QED
    BY <1>2, <1>3, <1>4 DEF IInv

LEMMA ListPageIInv ==
    ASSUME IInv, NEW list \in Lists, ListPage(list)
    PROVE  IInv'
<1> DEFINE S == Listing(gh, list)
           n == page[list]
<1>1. /\ pc = "reading" /\ n # 0 /\ MayList(list)
      /\ got' = [got EXCEPT ![list] = @ \union PageOf(S, n)]
      /\ page' = [page EXCEPT ![list] = IF IsLastPage(S, n) THEN 0 ELSE n + 1]
      /\ UNCHANGED <<gh, pc, mode, plan, changed>>
    BY DEF ListPage, NextPage
<1>2. /\ S \in SUBSET Logins /\ n \in Nat /\ n >= 1
      /\ got \in [Lists -> SUBSET Logins] /\ page \in [Lists -> Nat]
    <2>1. got \in [Lists -> SUBSET Logins] /\ page \in [Lists -> Nat]
        BY DEF IInv, Typed
    <2>2. S \in SUBSET Logins
        BY ListingTyped DEF IInv, Typed
    <2>3. n \in Nat
        BY <2>1
    <2>4. n >= 1
        BY <1>1, <2>3
    <2> QED
        BY <2>1, <2>2, <2>3, <2>4
<1> HIDE DEF S, n
<1>3. PageOf(S, n) \subseteq Logins
    BY <1>2 DEF PageOf
<1>4. got' \in [Lists -> SUBSET Logins] /\ page' \in [Lists -> Nat]
    BY <1>1, <1>2, <1>3
<1>5. page'["admins"] # 0 => got'["members"] = {}
    <2>1. "admins" \in Lists /\ "members" \in Lists
        BY DEF Lists
    <2>2. page["admins"] # 0 => got["members"] = {}
        BY DEF IInv, Typed
    <2>3. CASE list = "members"
        <3>1. page["admins"] = 0 /\ page'["admins"] = page["admins"]
            BY <1>1, <1>2, <2>1, <2>3 DEF MayList
        <3> QED
            BY <3>1
    <2>4. CASE list # "members"
        <3>1. got'["members"] = got["members"]
            BY <1>1, <1>2, <2>1, <2>4
        <3>2. CASE list = "admins"
            BY <1>1, <2>2, <3>1, <3>2 DEF n
        <3>3. CASE list # "admins"
            <4>1. page'["admins"] = page["admins"]
                BY <1>1, <1>2, <2>1, <3>3
            <4> QED
                BY <2>2, <3>1, <4>1
        <3> QED
            BY <3>2, <3>3
    <2> QED
        BY <2>3, <2>4
<1>6. Typed'
    BY <1>1, <1>4, <1>5 DEF IInv, Typed
<1>7. PagesOK'
    <2>1. /\ Cardinality(S) \in Nat /\ Cardinality(S) <= Cardinality(Logins)
          /\ Cardinality(Logins) \in Nat
        BY <1>2, ReadAssumptions, FS_Subset, FS_CardinalityType
    <2>2. n * PerPage \in Nat /\ n <= n * PerPage /\ PerPage <= n * PerPage
        <3>1. n * PerPage \in Nat /\ (n - 1) * PerPage \in Nat /\ n <= n * PerPage
              /\ n * PerPage = (n - 1) * PerPage + PerPage
            BY <1>2, PagesTyped
        <3>2. PerPage \in Nat
            BY ReadAssumptions
        <3> QED
            BY <3>1, <3>2
    <2>3. IsLastPage(S, n) <=> n * PerPage >= Cardinality(S)
        BY DEF IsLastPage
    <2> SUFFICES ASSUME NEW other \in Lists
                 PROVE  /\ page'[other] <= Cardinality(Logins)
                        /\ PerPage >= Cardinality(Logins) => page'[other] \in {0, 1}
        BY DEF PagesOK
    <2>4. /\ page[other] <= Cardinality(Logins)
          /\ PerPage >= Cardinality(Logins) => page[other] \in {0, 1}
        BY DEF IInv, PagesOK
    <2>5. CASE other # list
        BY <1>1, <1>2, <2>4, <2>5
    <2>6. CASE other = list /\ IsLastPage(S, n)
        <3>1. page'[other] = 0
            BY <1>1, <1>2, <2>6
        <3> QED
            BY <2>1, <3>1
    <2>7. CASE other = list /\ ~IsLastPage(S, n)
        <3>1. page'[other] = n + 1
            BY <1>1, <1>2, <2>7
        <3>2. n * PerPage < Cardinality(S)
            BY <2>1, <2>2, <2>3, <2>7
        <3>3. PerPage \in Nat
            BY ReadAssumptions
        <3>4. n + 1 <= Cardinality(Logins) /\ ~(PerPage >= Cardinality(Logins))
            BY <1>2, <2>1, <2>2, <3>2, <3>3
        <3> QED
            BY <3>1, <3>4
    <2> QED
        BY <2>5, <2>6, <2>7
<1>8. Progress'
    <2>1. Undisturbed' = Undisturbed
        BY <1>1 DEF Undisturbed
    <2> SUFFICES ASSUME NEW other \in Lists, NEW l \in Undisturbed
                 PROVE  l \in got'[other] <=> Listed(other, l)'
        BY <1>1, <2>1 DEF Progress
    <2>2. l \in got[other] <=> Listed(other, l)
        BY <1>1 DEF IInv, Progress
    <2>3. CASE other # list
        <3>1. got'[other] = got[other] /\ page'[other] = page[other] /\ gh' = gh
            BY <1>1, <1>2, <2>3
        <3> QED
            BY <2>2, <3>1 DEF Listed
    <2>4. CASE other = list
        <3>1. l \in Logins
            BY DEF Undisturbed
        <3>2. l \in got[list] <=> l \in S /\ Place(S, l) <= (n - 1) * PerPage
            BY <1>1, <2>2, <2>4 DEF Listed, S, n
        <3>3. l \in got'[list] <=> l \in got[list] \/ l \in PageOf(S, n)
            BY <1>1, <1>2
        <3>4. l \in got'[list] <=> l \in S /\ Place(S, l) <= n * PerPage
            BY <1>2, <3>1, <3>2, <3>3, PageLists
        <3>5. CASE IsLastPage(S, n)
            <4>1. page'[list] = 0
                BY <1>1, <1>2, <3>5
            <4>2. Listed(list, l)' <=> l \in S
                BY <1>1, <4>1 DEF Listed, S
            <4>3. l \in S => Place(S, l) <= n * PerPage
                BY <1>2, <3>1, <3>5, PageLists
            <4> QED
                BY <2>4, <3>4, <4>2, <4>3
        <3>6. CASE ~IsLastPage(S, n)
            <4>1. page'[list] = n + 1
                BY <1>1, <1>2, <3>6
            <4>2. n + 1 # 0 /\ (n + 1) - 1 = n
                BY <1>2
            <4>3. Listed(list, l)' <=> l \in S /\ Place(S, l) <= ((n + 1) - 1) * PerPage
                BY <1>1, <4>1, <4>2 DEF Listed, S
            <4> QED
                BY <2>4, <3>4, <4>2, <4>3
        <3> QED
            BY <3>5, <3>6
    <2> QED
        BY <2>3, <2>4
<1>9. Idle' /\ Made'
    BY <1>1 DEF Idle, Made
<1> QED
    BY <1>6, <1>7, <1>8, <1>9 DEF IInv

LEMMA AssembleIInv ==
    ASSUME IInv, Assemble
    PROVE  IInv'
<1>1. /\ pc = "reading" /\ \A list \in Lists : page[list] = 0
      /\ plan' = PlanOf(State) /\ pc' = "planned"
      /\ UNCHANGED <<gh, mode, got, page, changed>>
    BY DEF Assemble
<1>2. PlanOf(State) \subseteq Action
    BY DEF PlanOf, BuildPlan
<1>3. Typed' /\ PagesOK' /\ Idle'
    BY <1>1, <1>2 DEF IInv, Typed, PagesOK, Idle
<1>4. Progress'
    BY <1>1 DEF IInv, Progress, Listed, Undisturbed
<1>5. Made'
    BY <1>1 DEF Made, PlanOf, State, NothingToRemove
<1> QED
    BY <1>3, <1>4, <1>5 DEF IInv

LEMMA NextIInv ==
    ASSUME IInv, [Next]_vars
    PROVE  IInv'
<1>1. CASE Begin
    BY <1>1, BeginIInv
<1>2. ASSUME NEW list \in Lists, ListPage(list) PROVE IInv'
    BY <1>2, ListPageIInv
<1>3. CASE ReadFails \/ Done
    BY <1>3, LeaveIInv DEF ReadFails, Done
<1>4. CASE Assemble
    BY <1>4, AssembleIInv
<1>5. ASSUME NEW l \in Movers, StandingChanges(l) \/ TeamChanges(l) PROVE IInv'
    BY <1>5, ChangeIInv, ReadAssumptions
<1>6. CASE UNCHANGED vars
    BY <1>6 DEF vars, IInv, Typed, PagesOK, Progress, Listed, Undisturbed, Idle, Made,
                PlanOf, State, NothingToRemove
<1> QED
    BY <1>1, <1>2, <1>3, <1>4, <1>5, <1>6 DEF Next

\* What a reading has listed is right of whoever has not been displaced.
THEOREM Inductive == Spec => []IInv
<1>1. Init => IInv
    BY InitIInv
<1>2. IInv /\ [Next]_vars => IInv'
    BY NextIInv
<1> QED
    BY <1>1, <1>2, PTL DEF Spec

\* Types hold, nobody has two seats on GitHub, and members are asked for once
\* all the owners are in.
THEOREM TypeCorrect == Spec => []TypeOK
<1>1. ASSUME IInv PROVE TypeOK
    <2>1. page \in [Lists -> 0 .. Cardinality(Logins)]
        <3>1. Cardinality(Logins) \in Nat /\ page \in [Lists -> Nat]
            BY <1>1, OnePageOK DEF IInv, Typed
        <3>2. \A list \in Lists : page[list] \in 0 .. Cardinality(Logins)
            BY <1>1, <3>1 DEF IInv, PagesOK
        <3> QED
            BY <3>1, <3>2
    <2> QED
        BY <1>1, <2>1 DEF IInv, Typed, TypeOK
<1> QED
    BY <1>1, Inductive, PTL

\* However torn a reading was for others, what its plan asks of whoever the
\* changes cannot have displaced is what it would ask of GitHub as it is.
THEOREM UndisturbedAreSafe == Spec => []UndisturbedArePlanned
<1>1. ASSUME IInv PROVE UndisturbedArePlanned
    <2> SUFFICES ASSUME pc = "planned", plan # {}, NEW a, a.login \in Undisturbed
                 PROVE  a \in plan <=> a \in BuildPlan(Render(Inputs(gh), mode), gh)
        BY DEF UndisturbedArePlanned
    <2>1. plan = BuildPlan(Render(Inputs(State), mode), Roles(State))
        BY <1>1 DEF IInv, Made, PlanOf
    <2>2. State \in Organization /\ gh \in Organization /\ OneSeat(gh)
        <3>1. got \in [Lists -> SUBSET Logins] /\ gh \in Organization /\ OneSeat(gh)
            BY <1>1 DEF IInv, Typed
        <3>2. /\ got["admins"] \in SUBSET Logins /\ got["members"] \in SUBSET Logins
              /\ got["invited"] \in SUBSET Logins
              /\ \A t \in Teams : got[t] \in SUBSET Logins
            BY <3>1 DEF Lists
        <3>3. [t \in Teams |-> got[t]] \in [Teams -> SUBSET Logins]
            BY <3>2
        <3> QED
            BY <3>1, <3>2, <3>3 DEF State, Organization
    <2>3. Alike(State, gh, a.login)
        <3>1. \A list \in Lists : a.login \in got[list] <=> a.login \in Listing(gh, list)
            BY <1>1 DEF IInv, Progress, Made, Listed
        <3>2. /\ \A t \in Teams : t \in Lists /\ Listing(gh, t) = gh.team[t]
              /\ Listing(gh, "admins") = gh.admins /\ "admins" \in Lists
              /\ Listing(gh, "members") = gh.members /\ "members" \in Lists
              /\ Listing(gh, "invited") = gh.invited /\ "invited" \in Lists
            BY ReadAssumptions DEF Lists, Listing
        <3> QED
            BY <3>1, <3>2 DEF Alike, State
    <2>4. CASE a \in Action
        BY <2>1, <2>2, <2>3, <2>4, PlansAlike
    <2>5. CASE a \notin Action
        BY <2>1, <2>5 DEF BuildPlan
    <2> QED
        BY <2>4, <2>5
<1> QED
    BY <1>1, Inductive, PTL
=============================================================================
