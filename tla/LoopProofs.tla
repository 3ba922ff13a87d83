----------------------------- MODULE LoopProofs -----------------------------
(***************************************************************************)
(* The reconcile loop, for every number of people, directories, teams and  *)
(* outside changes: it keeps its types, leaves the owners as it found them, *)
(* does to people what the console announces, keeps who is live with the   *)
(* company, grants nothing to who is suspended there, settles in one pass, *)
(* and removes nobody on the word of a directory without an answer.        *)
(***************************************************************************)
EXTENDS Loop, RosterProofs

\* What a request does to an organization has the type of an organization.
LEMMA EffectTyped ==
    ASSUME NEW org \in Organization, NEW a \in Action
    PROVE  Effect(a, org) \in Organization
<1> DEFINE l == a.login
<1>1. l \in Logins
    BY DEF Action
<1>2. CASE a.kind \in {"promote", "demote", "add-admin", "add-member"}
    BY <1>1, <1>2 DEF Effect, Organization
<1>3. CASE a.kind = "remove-member"
    BY <1>1, <1>3 DEF Effect, Organization
<1>4. CASE a.kind = "cancel-invite"
    BY <1>1, <1>4 DEF Effect, Organization
<1>5. CASE a.kind = "team-add"
    BY <1>1, <1>5 DEF Effect, Organization
<1>6. CASE a.kind = "team-remove"
    BY <1>1, <1>6 DEF Effect, Organization
<1> QED
    BY <1>2, <1>3, <1>4, <1>5, <1>6 DEF Action, OrgKinds

\* The requests that leave the owners alone.
Spares(a, org) ==
    /\ a \in Action
    /\ a.kind \notin {"promote", "demote", "add-admin"}
    /\ a.kind \in {"add-member", "remove-member"} => a.login \notin org.admins

LEMMA EffectSpares ==
    ASSUME NEW org \in Organization, NEW a, Spares(a, org)
    PROVE  Effect(a, org).admins = org.admins
<1>1. CASE a.kind = "add-member"
    <2>1. CASE a.login \in org.admins \union org.members
        BY <1>1, <2>1 DEF Spares, Effect, Organization
    <2>2. CASE a.login \notin org.admins \union org.members
        BY <1>1, <2>2 DEF Spares, Effect, Organization
    <2> QED
        BY <2>1, <2>2
<1>2. CASE a.kind = "remove-member"
    BY <1>2 DEF Spares, Effect, Organization
<1>3. CASE a.kind = "cancel-invite"
    BY <1>3 DEF Spares, Effect, Organization
<1>4. CASE a.kind = "team-add"
    BY <1>4 DEF Spares, Effect, Organization
<1>5. CASE a.kind = "team-remove"
    BY <1>5 DEF Spares, Effect, Organization
<1> QED
    BY <1>1, <1>2, <1>3, <1>4, <1>5 DEF Spares, Action, OrgKinds

-----------------------------------------------------------------------------
(* The inductive invariant behind OwnersUntouched: until somebody outside  *)
(* touches the organization, its owners are the ones that were read, and   *)
(* every action left in the plan spares those.                             *)

Typed ==
    /\ gh \in Organization
    /\ outside \in Nat

ReadTrue == quiet => pc \in {"plan", "exec"} /\ gh.admins = read.gh.admins

PlanSpares == pc = "exec" => \A a \in plan : Spares(a, read.gh)

IInv == Typed /\ ReadTrue /\ PlanSpares

LEMMA InitIInv ==
    ASSUME Init
    PROVE  IInv
    BY LoopAssumptions DEF Init, IInv, Typed, ReadTrue, PlanSpares

\* What a plan is made of, seen from the pass that makes it.
LEMMA PlannedSpares ==
    ASSUME NEW m, NEW a \in PlanFor(Inputs, m)
    PROVE  Spares(a, read.gh)
<1>1. Inputs.gh = read.gh
    BY DEF Inputs
<1> QED
    BY <1>1, OwnersPassThrough, PlanIsDiff DEF Spares

LEMMA OutsideGrows ==
    ASSUME outside \in Nat, Outside
    PROVE  outside' \in Nat /\ outside' # outside
    BY DEF Outside

\* A pass step: what it keeps of the invariant, and the owners it keeps.
LEMMA StepIInv ==
    ASSUME IInv, Step
    PROVE  IInv' /\ (outside' = outside /\ quiet => gh'.admins = gh.admins)
<1> USE DEF IInv, Typed, ReadTrue, PlanSpares
<1>1. CASE Reload
    BY <1>1 DEF Reload, ReloadTo, world, memo
<1>2. CASE ReloadFails
    BY <1>2, OutsideGrows DEF ReloadFails, world
<1>3. ASSUME NEW s \in Sources, Fetch(s)
      PROVE  IInv' /\ (outside' = outside /\ quiet => gh'.admins = gh.admins)
    BY <1>3 DEF Fetch, Fetched, world
<1>4. ASSUME NEW s \in Sources, FetchFails(s)
      PROVE  IInv' /\ (outside' = outside /\ quiet => gh'.admins = gh.admins)
    <2>1. outside' \in Nat
        BY <1>4, OutsideGrows DEF FetchFails
    <2> QED
        BY <1>4, <2>1 DEF FetchFails, Fetched, world
<1>5. CASE Read
    BY <1>5 DEF Read, world
<1>6. CASE ReadFails
    BY <1>6, OutsideGrows DEF ReadFails, Leave, world
<1>7. CASE Plan
    <2>1. \A a \in plan' : Spares(a, read.gh)
        BY <1>7, PlannedSpares DEF Plan
    <2> QED
        BY <1>7, <2>1 DEF Plan, world
<1>8. CASE ExecuteOne
    <2>1. PICK a \in NextActions(plan) : /\ gh' = Effect(a, gh)
                                        /\ plan' = plan \ {a}
        BY <1>8 DEF ExecuteOne
    <2>2. a \in plan /\ pc = "exec" /\ Spares(a, read.gh)
        BY <1>8, <2>1 DEF ExecuteOne, NextActions
    <2>3. gh' \in Organization
        BY <2>1, <2>2, EffectTyped DEF Spares
    <2>4. UNCHANGED <<pc, read, quiet, outside>>
        BY <1>8 DEF ExecuteOne, memo
    <2>5. quiet => gh'.admins = gh.admins
        <3>1. ASSUME quiet
              PROVE  Spares(a, gh)
            BY <2>2, <3>1 DEF Spares
        <3> QED
            BY <2>1, <3>1, EffectSpares
    <2> QED
        BY <2>1, <2>3, <2>4, <2>5
<1>9. CASE ExecuteFails
    <2>1. PICK a \in NextActions(plan) : gh' \in {gh, Effect(a, gh)}
        BY <1>9 DEF ExecuteFails
    <2>2. a \in Action
        BY <1>9, <2>1 DEF ExecuteFails, NextActions, Spares
    <2>3. gh' \in Organization
        BY <2>1, <2>2, EffectTyped
    <2>4. outside' \in Nat /\ outside' # outside
        BY <1>9, OutsideGrows DEF ExecuteFails
    <2> QED
        BY <1>9, <2>3, <2>4 DEF ExecuteFails, Leave
<1>10. CASE Done
    BY <1>10 DEF Done, Leave, world
<1> QED
    BY <1>1, <1>2, <1>3, <1>4, <1>5, <1>6, <1>7, <1>8, <1>9, <1>10 DEF Step

\* What owners do in GitHub keeps its type.
LEMMA EditsTyped ==
    ASSUME gh \in Organization, NEW l \in Logins, GitHubEdits(l)
    PROVE  gh' \in Organization /\ ~quiet'
<1>1. ~quiet'
    BY DEF GitHubEdits
<1>2. \E a : a \in Action /\ gh' = Effect(a, gh)
    <2>1. CASE \E kind \in {"promote", "demote", "remove-member"} :
                gh' = Effect([kind |-> kind, login |-> l, team |-> NoTeam], gh)
        BY <2>1 DEF Action, OrgKinds
    <2>2. CASE gh' = Effect([kind |-> "cancel-invite", login |-> l, team |-> NoTeam], gh)
        BY <2>2 DEF Action, OrgKinds
    <2>3. CASE \E t \in DOMAIN gh.team, kind \in {"team-add", "team-remove"} :
                gh' = Effect([kind |-> kind, login |-> l, team |-> t], gh)
        BY <2>3 DEF Action, Organization
    <2> QED
        BY <2>1, <2>2, <2>3 DEF GitHubEdits
<1> QED
    BY <1>1, <1>2, EffectTyped

LEMMA NextIInv ==
    ASSUME IInv, [Next]_vars
    PROVE  IInv' /\ (outside' = outside /\ quiet => gh'.admins = gh.admins)
<1> USE DEF IInv, Typed, ReadTrue, PlanSpares
<1>1. ASSUME NEW m \in Modes, PassStart(m)
      PROVE  IInv' /\ (outside' = outside /\ quiet => gh'.admins = gh.admins)
    BY <1>1 DEF PassStart, world
<1>2. CASE Step
    BY <1>2, StepIInv
<1>3. ASSUME NEW l \in Logins, Accept(l)
      PROVE  IInv' /\ (outside' = outside /\ quiet => gh'.admins = gh.admins)
    <2>1. gh' \in Organization /\ gh'.admins = gh.admins
        BY <1>3 DEF Accept, Organization
    <2> QED
        BY <1>3, <2>1 DEF Accept, pass
<1>4. CASE OutsideChange
    <2>1. outside' \in Nat /\ outside' # outside
        BY <1>4, OutsideGrows DEF OutsideChange
    <2>2. gh' \in Organization /\ (quiet' => quiet /\ gh' = gh)
        <3>1. CASE \E email \in Emails : AccountChanges(email)
            BY <3>1 DEF AccountChanges
        <3>2. CASE \E group \in Groups : GroupChanges(group)
            BY <3>2 DEF GroupChanges
        <3>3. CASE StoreChanges
            BY <3>3 DEF StoreChanges
        <3>4. CASE MappingChanges
            BY <3>4 DEF MappingChanges
        <3>5. CASE \E l \in Logins : GitHubEdits(l)
            BY <3>5, EditsTyped
        <3> QED
            BY <1>4, <3>1, <3>2, <3>3, <3>4, <3>5 DEF OutsideChange
    <2>3. UNCHANGED <<pc, read, plan>>
        BY <1>4 DEF OutsideChange, pass
    <2> QED
        BY <2>1, <2>2, <2>3
<1>5. ASSUME NEW s \in Sources, OtherRefresh(s)
      PROVE  IInv' /\ (outside' = outside /\ quiet => gh'.admins = gh.admins)
    BY <1>5, OutsideGrows DEF OtherRefresh, world, pass
<1>6. CASE Restart
    BY <1>6, OutsideGrows DEF Restart, Leave, world
<1>7. CASE UNCHANGED vars
    BY <1>7 DEF vars, world, pass, memo
<1> QED
    BY <1>1, <1>2, <1>3, <1>4, <1>5, <1>6, <1>7 DEF Next

\* The broker's writes leave the owners as they are, unless somebody touched
\* the organization after it was read: the action property the run checks.
THEOREM OwnersAreSafe == Spec => OwnersUntouched
<1>1. Init => IInv
    BY InitIInv
<1>2. IInv /\ [Next]_vars => IInv'
    BY NextIInv
<1>3. IInv /\ [Next]_vars => [outside' = outside /\ quiet => gh'.admins = gh.admins]_vars
    BY NextIInv
<1> QED
    BY <1>1, <1>2, <1>3, PTL DEF Spec, OwnersUntouched

-----------------------------------------------------------------------------
(* Types and rules: what the outside, the memory of the broker and a pass  *)
(* look like throughout.                                                   *)

WorldOK ==
    /\ account \in [Emails -> {"none", "live", "suspended"}]
    /\ listed \in [Groups -> SUBSET Emails]
    /\ missing \subseteq Groups
    /\ stored \subseteq Sources \ GitSources
    /\ entries \subseteq Entries /\ OnePerLogin(entries)
    /\ gh \in Organization /\ Orderly(gh)

MemoryOK ==
    /\ DOMAIN cache = Sources
    /\ healthy \subseteq held
    /\ held \subseteq Sources /\ GitSources \subseteq held

PassOK ==
    /\ pc \in {"idle", "reload", "fetch", "read", "plan", "exec"}
    /\ mode \in {"full", "removals"}
    /\ todo \subseteq held
    /\ pc \in {"read", "plan", "exec"} => todo = {}
    /\ pc \in {"plan", "exec"} =>
        /\ read.entries \subseteq Entries /\ OnePerLogin(read.entries)
        /\ read.gh \in Organization /\ Orderly(read.gh)
    /\ plan \subseteq Action

FlagsOK ==
    /\ quiet \in BOOLEAN
    /\ calm \in BOOLEAN
    /\ outside \in 0 .. MaxOutside

Lawful == WorldOK /\ MemoryOK /\ PassOK /\ FlagsOK

LEMMA InitLawful ==
    ASSUME Init
    PROVE  Lawful
<1>1. PICK start \in Starts :
        /\ account = start.account /\ listed = start.listed /\ stored = start.stored
        /\ entries = start.entries /\ gh = start.gh
    BY DEF Init
<1>2. WorldOK
    BY <1>1, LoopAssumptions DEF Init, WorldOK
<1>3. MemoryOK
    BY LoopAssumptions DEF Init, MemoryOK
<1>4. PassOK
    BY DEF Init, PassOK
<1>5. FlagsOK
    <2>1. MaxOutside \in Nat
        BY LoopAssumptions
    <2>2. outside \in 0 .. MaxOutside
        <3>1. outside = 0
            BY DEF Init
        <3> QED
            BY <2>1, <3>1
    <2>3. quiet \in BOOLEAN /\ calm \in BOOLEAN
        BY DEF Init
    <2> QED
        BY <2>2, <2>3 DEF FlagsOK
<1> QED
    BY <1>2, <1>3, <1>4, <1>5 DEF Lawful

\* Whatever is asked of it, an organization keeps GitHub's rules.
LEMMA EffectOrderly ==
    ASSUME NEW org \in Organization, Orderly(org), NEW a \in Action
    PROVE  Orderly(Effect(a, org))
<1> DEFINE l == a.login
<1>1. l \in Logins
    BY DEF Action
<1>2. CASE a.kind \in {"promote", "demote", "add-admin", "add-member"}
    <2>1. CASE l \in org.admins \union org.members
        BY <1>1, <1>2, <2>1 DEF Effect, Organization, Orderly
    <2>2. CASE l \notin org.admins \union org.members
        BY <1>1, <1>2, <2>2 DEF Effect, Organization, Orderly
    <2> QED
        BY <2>1, <2>2
<1>3. CASE a.kind = "remove-member"
    BY <1>1, <1>3 DEF Effect, Organization, Orderly
<1>4. CASE a.kind = "cancel-invite"
    BY <1>1, <1>4 DEF Effect, Organization, Orderly
<1>5. CASE a.kind = "team-add"
    <2>1. CASE l \in org.admins \union org.members
        BY <1>1, <1>5, <2>1 DEF Effect, Organization, Orderly
    <2>2. CASE l \notin org.admins \union org.members
        <3>1. Effect(a, org) = [org EXCEPT !.invited = @ \union {l},
                                           !.offered[a.team] = @ \union {l}]
            BY <1>5, <2>2 DEF Effect
        <3>2. /\ Effect(a, org).admins = org.admins /\ Effect(a, org).members = org.members
              /\ Effect(a, org).invited = org.invited \union {l}
              /\ Effect(a, org).team = org.team
            BY <3>1 DEF Organization
        <3> QED
            BY <2>2, <3>2 DEF Orderly
    <2> QED
        BY <2>1, <2>2
<1>6. CASE a.kind = "team-remove"
    <2>1. Effect(a, org) = [org EXCEPT !.team[a.team] = @ \ {l}, !.offered[a.team] = @ \ {l}]
        BY <1>6 DEF Effect
    <2>2. \A t \in Teams : Effect(a, org).team[t] \subseteq org.team[t]
        BY <2>1 DEF Organization
    <2>3. /\ Effect(a, org).admins = org.admins /\ Effect(a, org).members = org.members
          /\ Effect(a, org).invited = org.invited
          /\ DOMAIN Effect(a, org).team = Teams /\ DOMAIN org.team = Teams
        BY <2>1 DEF Organization
    <2> QED
        BY <2>2, <2>3 DEF Orderly
<1> QED
    BY <1>2, <1>3, <1>4, <1>5, <1>6 DEF Action, OrgKinds

LEMMA EditOrderly ==
    ASSUME gh \in Organization, Orderly(gh), NEW l \in Logins, GitHubEdits(l)
    PROVE  gh' \in Organization /\ Orderly(gh')
<1>1. \E a : a \in Action /\ gh' = Effect(a, gh)
    <2>1. CASE \E kind \in {"promote", "demote", "remove-member"} :
                gh' = Effect([kind |-> kind, login |-> l, team |-> NoTeam], gh)
        BY <2>1 DEF Action, OrgKinds
    <2>2. CASE gh' = Effect([kind |-> "cancel-invite", login |-> l, team |-> NoTeam], gh)
        BY <2>2 DEF Action, OrgKinds
    <2>3. CASE \E t \in DOMAIN gh.team, kind \in {"team-add", "team-remove"} :
                gh' = Effect([kind |-> kind, login |-> l, team |-> t], gh)
        BY <2>3 DEF Action, Organization
    <2> QED
        BY <2>1, <2>2, <2>3 DEF GitHubEdits
<1> QED
    BY <1>1, EffectTyped, EffectOrderly

LEMMA AcceptOrderly ==
    ASSUME gh \in Organization, Orderly(gh), NEW l \in Logins, Accept(l)
    PROVE  gh' \in Organization /\ Orderly(gh')
    BY DEF Accept, Organization, Orderly

LEMMA OutsideCounts ==
    ASSUME FlagsOK, Outside
    PROVE  outside' \in 0 .. MaxOutside /\ calm' = FALSE
<1>1. outside \in Nat /\ MaxOutside \in Nat /\ outside < MaxOutside /\ outside' = outside + 1
    BY LoopAssumptions DEF FlagsOK, Outside
<1> QED
    BY <1>1 DEF Outside

LEMMA LeavingOK ==
    ASSUME Leave, held' \subseteq Sources
    PROVE  PassOK' /\ quiet' = FALSE
    BY DEF Leave, PassOK

\* A pass step.
LEMMA StepLawful ==
    ASSUME Lawful, Step
    PROVE  Lawful'
<1> USE DEF Lawful
<1>1. CASE Reload
    <2>1. /\ pc = "reload" /\ held' = GitSources \union stored
          /\ cache' = [s \in Sources |-> IF s \in held' THEN cache[s] ELSE NoSnapshot]
          /\ healthy' = healthy \intersect (GitSources \union stored)
          /\ todo' = held' /\ pc' = "fetch"
          /\ UNCHANGED <<account, listed, missing, stored, entries, gh, mode, read, plan,
                         since, facts, quiet, calm, outside>>
        BY <1>1 DEF Reload, ReloadTo, world, directories, memo
    <2>2. WorldOK' /\ FlagsOK'
        BY <2>1 DEF WorldOK, FlagsOK
    <2>3. MemoryOK'
        BY <2>1, LoopAssumptions DEF MemoryOK, WorldOK
    <2>4. PassOK'
        BY <2>1 DEF PassOK
    <2> QED
        BY <2>2, <2>3, <2>4
<1>2. CASE ReloadFails
    <2>1. /\ todo' = held /\ pc' = "fetch"
          /\ UNCHANGED <<account, listed, missing, stored, entries, gh, cache, healthy, held,
                         mode, read, plan, quiet>>
        BY <1>2 DEF ReloadFails, world, directories, memory
    <2>2. WorldOK' /\ MemoryOK' /\ PassOK'
        BY <2>1 DEF WorldOK, MemoryOK, PassOK
    <2>3. FlagsOK'
        BY <1>2, <2>1, OutsideCounts DEF ReloadFails, FlagsOK
    <2> QED
        BY <2>2, <2>3
<1>3. ASSUME NEW s \in Sources, Fetch(s) \/ FetchFails(s)
      PROVE  Lawful'
    <2>1. /\ s \in todo /\ pc = "fetch" /\ todo' = todo \ {s}
          /\ pc' = IF todo' = {} THEN "read" ELSE "fetch"
          /\ cache' = cache \/ cache' = [cache EXCEPT ![s] = Snapshot(s)]
          /\ healthy' = healthy \union {s} \/ healthy' = healthy \ {s}
          /\ UNCHANGED <<account, listed, missing, stored, entries, gh, held, mode, read, plan, quiet>>
        BY <1>3 DEF Fetch, FetchFails, Fetched, Answer, NoAnswer, world, directories
    <2>2. WorldOK' /\ PassOK'
        BY <2>1 DEF WorldOK, PassOK
    <2>3. MemoryOK'
        BY <2>1 DEF MemoryOK, PassOK
    <2>4. FlagsOK'
        <3>1. CASE Fetch(s)
            BY <2>1, <3>1 DEF Fetch, FlagsOK
        <3>2. CASE FetchFails(s)
            <4>1. CASE Readable(s)
                BY <2>1, <3>2, <4>1, OutsideCounts DEF FetchFails, FlagsOK
            <4>2. CASE ~Readable(s)
                BY <2>1, <3>2, <4>2 DEF FetchFails, FlagsOK
            <4> QED
                BY <4>1, <4>2
        <3> QED
            BY <1>3, <3>1, <3>2
    <2> QED
        BY <2>2, <2>3, <2>4
<1>4. CASE Read
    <2>1. /\ pc = "read" /\ pc' = "plan" /\ read' = [entries |-> entries, gh |-> gh] /\ quiet' = TRUE
          /\ UNCHANGED <<account, listed, missing, stored, entries, gh, cache, healthy, held,
                         mode, todo, plan, calm, outside>>
        BY <1>4 DEF Read, world, directories, memory
    <2> QED
        BY <2>1 DEF WorldOK, MemoryOK, PassOK, FlagsOK
<1>5. CASE ReadFails
    <2>1. UNCHANGED <<account, listed, missing, stored, entries, gh, cache, healthy, held>>
        BY <1>5 DEF ReadFails, world, directories, memory
    <2>2. WorldOK' /\ MemoryOK'
        BY <2>1 DEF WorldOK, MemoryOK
    <2>3. PassOK' /\ FlagsOK'
        BY <1>5, <2>1, LeavingOK, OutsideCounts DEF ReadFails, FlagsOK, MemoryOK
    <2> QED
        BY <2>2, <2>3
<1>6. CASE Plan
    <2>1. /\ pc = "plan" /\ pc' = "exec" /\ plan' = PlanFor(Inputs, mode)
          /\ UNCHANGED <<account, listed, missing, stored, entries, gh, cache, healthy, held,
                         mode, todo, read, quiet, calm, outside>>
        BY <1>6 DEF Plan, world, directories, memory
    <2>2. plan' \subseteq Action
        BY <2>1, PlanIsDiff
    <2> QED
        BY <2>1, <2>2 DEF WorldOK, MemoryOK, PassOK, FlagsOK
<1>7. CASE ExecuteOne
    <2>1. PICK a \in NextActions(plan) : gh' = Effect(a, gh) /\ plan' = plan \ {a}
        BY <1>7 DEF ExecuteOne
    <2>2. UNCHANGED <<account, listed, missing, stored, entries, cache, healthy, held,
                      pc, mode, todo, read, quiet, calm, outside>>
        BY <1>7 DEF ExecuteOne, directories, memory, memo
    <2>3. a \in Action
        BY DEF NextActions, PassOK
    <2>4. gh' \in Organization /\ Orderly(gh')
        BY <2>1, <2>3, EffectTyped, EffectOrderly DEF WorldOK
    <2> QED
        BY <2>1, <2>2, <2>4 DEF WorldOK, MemoryOK, PassOK, FlagsOK
<1>8. CASE ExecuteFails
    <2>1. PICK a \in NextActions(plan) : gh' \in {gh, Effect(a, gh)}
        BY <1>8 DEF ExecuteFails
    <2>2. UNCHANGED <<account, listed, missing, stored, entries, cache, healthy, held>>
        BY <1>8 DEF ExecuteFails, directories, memory
    <2>3. a \in Action
        BY DEF NextActions, PassOK
    <2>4. gh' \in Organization /\ Orderly(gh')
        BY <2>1, <2>3, EffectTyped, EffectOrderly DEF WorldOK
    <2>5. WorldOK' /\ MemoryOK'
        BY <2>2, <2>4 DEF WorldOK, MemoryOK
    <2>6. PassOK' /\ FlagsOK'
        BY <1>8, <2>2, LeavingOK, OutsideCounts DEF ExecuteFails, FlagsOK, MemoryOK
    <2> QED
        BY <2>5, <2>6
<1>9. CASE Done
    <2>1. UNCHANGED <<account, listed, missing, stored, entries, gh, cache, healthy, held, outside>>
        BY <1>9 DEF Done, world, directories, memory
    <2>2. WorldOK' /\ MemoryOK'
        BY <2>1 DEF WorldOK, MemoryOK
    <2>3. PassOK' /\ FlagsOK'
        BY <1>9, <2>1, LeavingOK DEF Done, FlagsOK, MemoryOK
    <2> QED
        BY <2>2, <2>3
<1> QED
    BY <1>1, <1>2, <1>3, <1>4, <1>5, <1>6, <1>7, <1>8, <1>9 DEF Step

\* A change outside keeps the outside lawful: the console refuses a second
\* entry of a login.
LEMMA OutsideLawful ==
    ASSUME Lawful, OutsideChange
    PROVE  WorldOK'
<1>1. WorldOK
    BY DEF Lawful
<1>2. ASSUME NEW email \in Emails, AccountChanges(email) PROVE WorldOK'
    BY <1>1, <1>2 DEF WorldOK, AccountChanges
<1>3. ASSUME NEW group \in Groups, GroupChanges(group) PROVE WorldOK'
    <2>1. listed' \in [Groups -> SUBSET Emails] /\ missing' \subseteq Groups
        <3>1. CASE missing' = missing /\ \E email \in Emails :
                listed' = [listed EXCEPT ![group] =
                            IF email \in @ THEN @ \ {email} ELSE @ \union {email}]
            BY <1>1, <3>1 DEF WorldOK
        <3>2. CASE listed' = listed /\ missing' \in {missing \ {group}, missing \union {group}}
            BY <1>1, <3>2 DEF WorldOK
        <3> QED
            BY <1>3, <3>1, <3>2 DEF GroupChanges
    <2> QED
        BY <1>1, <1>3, <2>1 DEF WorldOK, GroupChanges
<1>4. CASE StoreChanges
    BY <1>1, <1>4 DEF WorldOK, StoreChanges, directories
<1>5. CASE MappingChanges
    <2>1. entries' \subseteq Entries /\ OnePerLogin(entries')
        <3>1. PICK entry \in Entries :
                \/ entries' = entries \ {entry}
                \/ /\ \A x \in entries : x.login # entry.login
                   /\ entries' = entries \union {entry}
            BY <1>5 DEF MappingChanges
        <3> QED
            BY <1>1, <3>1 DEF WorldOK, OnePerLogin
    <2> QED
        BY <1>1, <1>5, <2>1 DEF WorldOK, MappingChanges, directories
<1>6. ASSUME NEW l \in Logins, GitHubEdits(l) PROVE WorldOK'
    BY <1>1, <1>6, EditOrderly DEF WorldOK, GitHubEdits, directories
<1> QED
    BY <1>2, <1>3, <1>4, <1>5, <1>6 DEF OutsideChange

LEMMA NextLawful ==
    ASSUME Lawful, [Next]_vars
    PROVE  Lawful'
<1>1. ASSUME NEW m \in Modes, PassStart(m) PROVE Lawful'
    <2>1. /\ pc' = (IF m = "full" THEN "reload" ELSE "fetch") /\ mode' = m
          /\ todo' = (IF m = "full" THEN {} ELSE held) /\ calm' = TRUE
          /\ UNCHANGED <<account, listed, missing, stored, entries, gh, cache, healthy, held,
                         read, plan, quiet, outside>>
        BY <1>1 DEF PassStart, world, directories, memory
    <2>2. m \in {"full", "removals"}
        BY LoopAssumptions
    <2> QED
        BY <2>1, <2>2 DEF Lawful, WorldOK, MemoryOK, PassOK, FlagsOK
<1>2. CASE Step
    BY <1>2, StepLawful
<1>3. ASSUME NEW l \in Logins, Accept(l) PROVE Lawful'
    <2>1. /\ calm' = FALSE
          /\ UNCHANGED <<account, listed, missing, stored, entries, cache, healthy, held,
                         pc, mode, todo, read, plan, quiet, outside>>
        BY <1>3 DEF Accept, directories, memory, pass
    <2>2. gh' \in Organization /\ Orderly(gh')
        BY <1>3, AcceptOrderly DEF Lawful, WorldOK
    <2> QED
        BY <2>1, <2>2 DEF Lawful, WorldOK, MemoryOK, PassOK, FlagsOK
<1>4. CASE OutsideChange
    <2>1. UNCHANGED <<cache, healthy, held, pc, mode, todo, read, plan>>
        BY <1>4 DEF OutsideChange, memory, pass
    <2>2. FlagsOK'
        <3>1. quiet' = quiet \/ quiet' = FALSE
            BY <1>4 DEF OutsideChange, AccountChanges, GroupChanges, StoreChanges,
                        MappingChanges, GitHubEdits
        <3>2. outside' \in 0 .. MaxOutside /\ calm' = FALSE
            BY <1>4, OutsideCounts DEF OutsideChange, Lawful
        <3> QED
            BY <3>1, <3>2 DEF Lawful, FlagsOK
    <2> QED
        BY <1>4, <2>1, <2>2, OutsideLawful DEF Lawful, MemoryOK, PassOK
<1>5. ASSUME NEW s \in Sources, OtherRefresh(s) PROVE Lawful'
    <2>1. /\ s \in held
          /\ cache' = cache \/ cache' = [cache EXCEPT ![s] = Snapshot(s)]
          /\ healthy' = healthy \union {s} \/ healthy' = healthy \ {s}
          /\ UNCHANGED <<account, listed, missing, stored, entries, gh, held,
                         pc, mode, todo, read, plan, quiet>>
        BY <1>5 DEF OtherRefresh, Answer, NoAnswer, world, directories, pass
    <2>2. FlagsOK'
        BY <1>5, <2>1, OutsideCounts DEF OtherRefresh, FlagsOK, Lawful
    <2>3. MemoryOK'
        BY <2>1 DEF Lawful, MemoryOK
    <2> QED
        BY <2>1, <2>2, <2>3 DEF Lawful, WorldOK, PassOK
<1>6. CASE Restart
    <2>1. /\ cache' = [s \in Sources |-> NoSnapshot] /\ healthy' = {} /\ held' = GitSources
          /\ UNCHANGED <<account, listed, missing, stored, entries, gh>>
        BY <1>6 DEF Restart, world, directories
    <2>2. WorldOK' /\ MemoryOK'
        BY <2>1, LoopAssumptions DEF Lawful, WorldOK, MemoryOK
    <2>3. PassOK' /\ FlagsOK'
        BY <1>6, <2>1, LeavingOK, OutsideCounts, LoopAssumptions DEF Restart, FlagsOK, Lawful
    <2> QED
        BY <2>2, <2>3 DEF Lawful
<1>7. CASE UNCHANGED vars
    <2>1. UNCHANGED <<account, listed, missing, stored, entries, gh, cache, healthy, held,
                      pc, mode, todo, read, plan, quiet, calm, outside>>
        BY <1>7 DEF vars, world, directories, memory, pass, memo
    <2> QED
        BY <2>1 DEF Lawful, WorldOK, MemoryOK, PassOK, FlagsOK
<1> QED
    BY <1>1, <1>2, <1>3, <1>4, <1>5, <1>6, <1>7 DEF Next

\* The outside, the memory of the broker and a pass stay lawful.
THEOREM StaysLawful == Spec => []Lawful
<1>1. Init => Lawful
    BY InitLawful
<1>2. Lawful /\ [Next]_vars => Lawful'
    BY NextLawful
<1> QED
    BY <1>1, <1>2, PTL DEF Spec

\* Every variable keeps its type, and nobody is owner and member at once.
THEOREM TypeCorrect == Spec => []TypeOK
<1>1. Lawful => TypeOK
    BY DEF Lawful, WorldOK, MemoryOK, PassOK, FlagsOK, TypeOK, Orderly
<1> QED
    BY <1>1, StaysLawful, PTL

\* What a full pass is about to do the People page has announced and what it
\* does not do the warnings explain: the inputs of every pass are ones that
\* PlansAnnounced and StaysExplained are about.
THEOREM PlansAreShown == Spec => []PlansAreAnnounced
<1>1. ASSUME Lawful PROVE PlansAreAnnounced
    <2>1. SUFFICES ASSUME pc = "plan", NEW x \in read.entries
                   PROVE  Announced(Inputs, x) /\ Explained(Inputs, x)
        BY DEF PlansAreAnnounced
    <2>2. Inputs.gh = read.gh /\ Inputs.entries = read.entries
        BY DEF Inputs
    <2>3. /\ read.entries \subseteq Entries /\ OnePerLogin(read.entries) /\ Orderly(read.gh)
        BY <1>1, <2>1 DEF Lawful, PassOK
    <2>4. Wellformed(Inputs)
        BY <2>2, <2>3, LoopAssumptions DEF Wellformed, OnePerLogin, Orderly
    <2>5. x \in Inputs.entries /\ x.login \in Logins
        BY <2>2, <2>3, LoopAssumptions
    <2> QED
        BY <2>4, <2>5, PlansAnnounced, StaysExplained
<1> QED
    BY <1>1, StaysLawful, PTL

-----------------------------------------------------------------------------
(* A directory without an answer removes nobody it should know, in passes  *)
(* of both kinds.                                                          *)

\* Whom a directory without an answer should know, the rendering protects.
LEMMA DoubtfulProtected ==
    ASSUME MemoryOK, NEW entry, Doubtful(entry)
    PROVE  Protected(Inputs, entry)
<1>1. PICK email \in EmailsOf(entry) :
        \/ Home[email] \in Inputs.cfg \ healthy
        \/ \E a \in Accounts(Inputs) : a.email = email /\ a.source \in held \ healthy
    BY DEF Doubtful
<1>2. Inputs.unhealthy = held \ healthy /\ Inputs.cfg \subseteq held
    BY DEF Inputs, MemoryOK
<1>3. CASE Home[email] \in Inputs.cfg \ healthy
    BY <1>2, <1>3 DEF Protected, ExpectedSources
<1>4. ASSUME NEW a \in Accounts(Inputs), a.email = email, a.source \in held \ healthy
      PROVE  Protected(Inputs, entry)
    <2>1. PICK i \in DOMAIN entry.emails : entry.emails[i] = a.email
        BY <1>4 DEF EmailsOf
    <2>2. a \in Claimed(Inputs, entry)
        BY <1>4, <2>1 DEF Claimed, Anchors
    <2> QED
        BY <1>2, <1>4, <2>2 DEF Protected, AnsweredSources
<1> QED
    BY <1>1, <1>3, <1>4

\* The plan a pass makes, against what it knows of the directories.
LEMMA PlannedKeeps ==
    ASSUME MemoryOK, PassOK, Plan
    PROVE  OutageKeepsMembers'
<1> SUFFICES ASSUME NEW l \in facts'.suspect, NEW a \in plan',
                    a.kind = "remove-member", a.login = l
             PROVE  FALSE
    BY DEF OutageKeepsMembers, Removes
<1>1. PICK entry \in read.entries : entry.login = l /\ Doubtful(entry)
    BY DEF Plan
<1>2. Inputs.entries = read.entries
    BY DEF Inputs
<1>3. Protected(Inputs, entry)
    BY <1>1, DoubtfulProtected
<1>4. a \in PlanFor(Inputs, mode) /\ mode \in {"full", "removals"}
    BY DEF Plan, PassOK
<1> QED
    BY <1>1, <1>2, <1>3, <1>4, OutageProtects

LEMMA KeepingNext ==
    ASSUME MemoryOK, PassOK, OutageKeepsMembers, [Next]_vars
    PROVE  OutageKeepsMembers'
<1>1. ASSUME NEW m \in Modes, PassStart(m)
      PROVE  OutageKeepsMembers'
    BY <1>1 DEF PassStart, OutageKeepsMembers
<1>2. CASE Step
    <2>1. CASE Reload
        BY <2>1 DEF Reload, ReloadTo, OutageKeepsMembers
    <2>2. CASE ReloadFails
        BY <2>2 DEF ReloadFails, OutageKeepsMembers
    <2>3. ASSUME NEW s \in Sources, Fetch(s) \/ FetchFails(s)
          PROVE  OutageKeepsMembers'
        BY <2>3 DEF Fetch, FetchFails, Fetched, OutageKeepsMembers
    <2>4. CASE Read
        BY <2>4 DEF Read, OutageKeepsMembers
    <2>5. CASE Plan
        BY <2>5, PlannedKeeps
    <2>6. CASE ExecuteOne
        BY <2>6 DEF ExecuteOne, memo, OutageKeepsMembers, Removes
    <2>7. CASE ReadFails \/ ExecuteFails \/ Done
        BY <2>7 DEF ReadFails, ExecuteFails, Done, Leave, OutageKeepsMembers
    <2> QED
        BY <1>2, <2>1, <2>2, <2>3, <2>4, <2>5, <2>6, <2>7 DEF Step
<1>3. ASSUME NEW l \in Logins, Accept(l)
      PROVE  OutageKeepsMembers'
    BY <1>3 DEF Accept, pass, OutageKeepsMembers, Removes
<1>4. CASE OutsideChange
    BY <1>4 DEF OutsideChange, pass, OutageKeepsMembers, Removes
<1>5. ASSUME NEW s \in Sources, OtherRefresh(s)
      PROVE  OutageKeepsMembers'
    BY <1>5 DEF OtherRefresh, pass, OutageKeepsMembers, Removes
<1>6. CASE Restart
    BY <1>6 DEF Restart, Leave, OutageKeepsMembers
<1>7. CASE UNCHANGED vars
    BY <1>7 DEF vars, pass, memo, OutageKeepsMembers, Removes
<1> QED
    BY <1>1, <1>2, <1>3, <1>4, <1>5, <1>6, <1>7 DEF Next

\* A failed fetch never looks like everybody leaving: neither a full pass nor a
\* sweep removes somebody whom a directory without an answer should know, as
\* the configuration the pass joins with or the directory's last answer has it.
THEOREM OutageIsSafe == Spec => []OutageKeepsMembers
<1>1. Init => Lawful /\ OutageKeepsMembers
    BY InitLawful DEF Init, OutageKeepsMembers
<1>2. Lawful /\ OutageKeepsMembers /\ [Next]_vars => Lawful' /\ OutageKeepsMembers'
    BY NextLawful, KeepingNext DEF Lawful
<1> QED
    BY <1>1, <1>2, PTL DEF Spec

-----------------------------------------------------------------------------
(* The company's word.  Standing is decided on cached snapshots, entries   *)
(* read earlier and whatever failed in between; the invariant ties them to *)
(* what has been true outside ever since the pass began.                   *)

\* A snapshot reports the accounts of its directory, each once.
Genuine(s) ==
    cache[s] # NoSnapshot =>
        /\ \A a \in cache[s].users :
            /\ a.email \in Emails /\ Home[a.email] = s
            /\ a.source = s /\ a.name = NameOf[a.email] /\ a.live \in BOOLEAN
        /\ \A a, b \in cache[s].users : a.email = b.email => a = b

\* The company's snapshot has the address, with a live account or not.
ReportedLive(e) ==
    cache[Company] # NoSnapshot /\ \E a \in cache[Company].users : a.email = e /\ a.live

ReportedGone(e) ==
    cache[Company] # NoSnapshot /\ \E a \in cache[Company].users : a.email = e /\ ~a.live

\* What the pass noted at its start is still so.
Since == since.live \subseteq Live /\ since.gone \subseteq Gone

\* Who it noted has had the same entry all along, and that one was read.
Remembered ==
    pc = "plan" =>
        \A x \in entries : x.login \in since.live \union since.gone => x \in read.entries

\* A company that answered the pass, or any refresh after it, vouches for them.
Vouched ==
    pc \in {"fetch", "read", "plan"} /\ Company \in healthy \ todo =>
        \A x \in entries :
            /\ x.login \in since.live => \E e \in Governing(x) : ReportedLive(e)
            /\ x.login \in since.gone =>
                Governing(x) # {} /\ \A e \in Governing(x) : ReportedGone(e)

Noted ==
    /\ Lawful /\ Since /\ Remembered /\ Vouched
    /\ \A s \in Sources : Genuine(s)

\* What a directory answers is genuine.
LEMMA SnapshotReports ==
    ASSUME WorldOK, NEW s \in Sources
    PROVE  /\ Snapshot(s) # NoSnapshot
           /\ \A a \in Snapshot(s).users :
                /\ a.email \in Emails /\ Home[a.email] = s
                /\ a.source = s /\ a.name = NameOf[a.email] /\ a.live \in BOOLEAN
           /\ \A a, b \in Snapshot(s).users : a.email = b.email => a = b
           /\ \A e \in Emails : Home[e] = s /\ Visible(e) =>
                \E a \in Snapshot(s).users : a.email = e /\ (a.live <=> account[e] = "live")
<1> DEFINE seen == {x \in Emails : Home[x] = s /\ Visible(x)}
           record(e) == [source |-> s, name |-> NameOf[e], email |-> e, live |-> account[e] = "live"]
<1>1. Snapshot(s).users = {record(e) : e \in seen}
    BY DEF Snapshot
<1>2. \A e \in seen : /\ e \in Emails /\ Home[e] = s
                      /\ record(e) \in [source : Sources, name : Names, email : Emails, live : BOOLEAN]
    BY LoopAssumptions
<1>3. Snapshot(s) \in Snapshots
    <2>1. Own(s) \ missing \in SUBSET Groups /\ Own(s) \intersect missing \in SUBSET Groups
        BY DEF Own
    <2>2. [group \in Own(s) \ missing |-> listed[group]] \in [Own(s) \ missing -> SUBSET Emails]
        BY <2>1 DEF WorldOK
    <2>3. [group \in Own(s) \ missing |-> listed[group]]
            \in UNION {[known -> SUBSET Emails] : known \in SUBSET Groups}
        BY <2>1, <2>2
    <2>4. {record(e) : e \in seen} \in SUBSET [source : Sources, name : Names, email : Emails, live : BOOLEAN]
        BY <1>2
    <2>5. Snapshot(s) = [users |-> {record(e) : e \in seen},
                         groups |-> [group \in Own(s) \ missing |-> listed[group]],
                         absent |-> Own(s) \intersect missing]
        BY DEF Snapshot
    <2> HIDE DEF record, seen
    <2> QED
        BY <2>1, <2>3, <2>4, <2>5 DEF Snapshots
<1>4. Snapshot(s) # NoSnapshot
    BY <1>3, LoopAssumptions
<1>5. \A e \in seen : /\ record(e).email = e /\ record(e).source = s /\ record(e).name = NameOf[e]
                      /\ record(e).live <=> account[e] = "live"
    OBVIOUS
<1>6. \A e \in Emails : Home[e] = s /\ Visible(e) => e \in seen
    OBVIOUS
<1> HIDE DEF seen, record
<1>7. \A e \in seen : e \in Emails /\ Home[e] = s /\ record(e).live \in BOOLEAN
    BY <1>2, <1>5
<1>8. \A e \in seen : record(e) \in Snapshot(s).users
    BY <1>1
<1>9. \A a \in Snapshot(s).users : \E e \in seen : a = record(e)
    BY <1>1
<1> QED
    BY <1>4, <1>5, <1>6, <1>7, <1>8, <1>9

\* Live and Gone are about accounts, groups and entries.
LEMMA StandingSame ==
    ASSUME UNCHANGED <<account, listed, missing, entries>>
    PROVE  Live' = Live /\ Gone' = Gone
<1>1. \A email \in Emails : Visible(email)' <=> Visible(email)
    BY DEF Visible
<1>2. \A email : Visible(email)' <=> Visible(email)
    BY DEF Visible
<1> QED
    BY <1>2 DEF Live, Gone

\* Whoever is noted has one entry, and the company says of it what was noted.
LEMMA NotedEntries ==
    ASSUME WorldOK, Since, NEW x \in entries
    PROVE  /\ x.login \in since.live =>
                \E e \in Governing(x) : account[e] = "live" /\ Visible(e)
           /\ x.login \in since.gone =>
                /\ ~x.bot /\ Governing(x) # {}
                /\ \A e \in Governing(x) : account[e] = "suspended" /\ Visible(e)
           /\ Governing(x) \subseteq {e \in Emails : Home[e] = Company}
<1>1. ASSUME x.login \in since.live
      PROVE  \E e \in Governing(x) : account[e] = "live" /\ Visible(e)
    <2>1. PICK y \in entries : /\ y.login = x.login
                               /\ \E e \in Governing(y) : account[e] = "live" /\ Visible(e)
        BY <1>1 DEF Since, Live
    <2> QED
        BY <2>1 DEF WorldOK, OnePerLogin
<1>2. ASSUME x.login \in since.gone
      PROVE  /\ ~x.bot /\ Governing(x) # {}
             /\ \A e \in Governing(x) : account[e] = "suspended" /\ Visible(e)
    <2>1. PICK y \in entries : /\ y.login = x.login /\ ~y.bot /\ Governing(y) # {}
                               /\ \A e \in Governing(y) : account[e] = "suspended" /\ Visible(e)
        BY <1>2 DEF Since, Gone
    <2> QED
        BY <2>1 DEF WorldOK, OnePerLogin
<1>3. Governing(x) \subseteq {e \in Emails : Home[e] = Company}
    BY LoopAssumptions DEF Governing, WorldOK
<1> QED
    BY <1>1, <1>2, <1>3

\* A fresh answer of the company vouches for everybody noted.
LEMMA FreshVouches ==
    ASSUME WorldOK, Since, cache'[Company] = Snapshot(Company), NEW x \in entries
    PROVE  /\ x.login \in since.live => \E e \in Governing(x) : ReportedLive(e)'
           /\ x.login \in since.gone =>
                Governing(x) # {} /\ \A e \in Governing(x) : ReportedGone(e)'
<1>1. Company \in Sources /\ cache'[Company] = Snapshot(Company)
    BY RosterAssumptions
<1>2. \A e \in Governing(x) : e \in Emails /\ Home[e] = Company
    BY NotedEntries
<1>3. ASSUME NEW e \in Governing(x), Visible(e)
      PROVE  \E a \in Snapshot(Company).users : a.email = e /\ (a.live <=> account[e] = "live")
    BY <1>1, <1>2, <1>3, SnapshotReports
<1>4. Snapshot(Company) # NoSnapshot
    BY <1>1, SnapshotReports
<1>5. ASSUME NEW e \in Governing(x), Visible(e), account[e] = "live"
      PROVE  ReportedLive(e)'
    BY <1>1, <1>3, <1>4, <1>5 DEF ReportedLive
<1>6. ASSUME NEW e \in Governing(x), Visible(e), account[e] = "suspended"
      PROVE  ReportedGone(e)'
    BY <1>1, <1>3, <1>4, <1>6 DEF ReportedGone
<1> QED
    BY <1>5, <1>6, NotedEntries


\* What a cache comes to hold is genuine.
LEMMA GenuineNext ==
    ASSUME WorldOK, \A s \in Sources : Genuine(s),
           \A s \in Sources : cache'[s] \in {cache[s], NoSnapshot, Snapshot(s)}
    PROVE  \A s \in Sources : Genuine(s)'
<1> SUFFICES ASSUME NEW s \in Sources PROVE Genuine(s)'
    OBVIOUS
<1>1. CASE cache'[s] = cache[s]
    BY <1>1 DEF Genuine
<1>2. CASE cache'[s] = NoSnapshot
    BY <1>2 DEF Genuine
<1>3. CASE cache'[s] = Snapshot(s)
    BY <1>3, SnapshotReports DEF Genuine
<1> QED
    BY <1>1, <1>2, <1>3

LEMMA SinceKept ==
    ASSUME Since, UNCHANGED <<account, listed, missing, entries, since>>
    PROVE  Since'
    BY StandingSame DEF Since

\* Between passes nobody is noted.
LEMMA NobodyNoted ==
    ASSUME since' = Nobody
    PROVE  Since' /\ Remembered' /\ Vouched'
    BY DEF Nobody, Since, Remembered, Vouched

\* The word of the company stands while its snapshot does ...
LEMMA VouchedKept ==
    ASSUME Vouched, UNCHANGED <<entries, since>>, cache'[Company] = cache[Company],
           pc' \in {"fetch", "read", "plan"} /\ Company \in healthy' \ todo'
               => pc \in {"fetch", "read", "plan"} /\ Company \in healthy \ todo
    PROVE  Vouched'
    BY DEF Vouched, Governing, ReportedLive, ReportedGone

\* ... and a fresh answer gives it anew.
LEMMA VouchedAnew ==
    ASSUME WorldOK, Since, UNCHANGED <<entries, since>>, cache'[Company] = Snapshot(Company)
    PROVE  Vouched'
    BY FreshVouches DEF Vouched

\* An entry that an outside change leaves noted was noted before it.
LEMMA NotedBefore ==
    ASSUME WorldOK, Since, OutsideChange, NEW x \in entries',
           x.login \in since'.live \union since'.gone
    PROVE  /\ x \in entries
           /\ x.login \in since'.live => x.login \in since.live
           /\ x.login \in since'.gone => x.login \in since.gone
<1>1. /\ since'.live \subseteq since.live /\ since'.gone \subseteq since.gone
    BY DEF OutsideChange, StillSo
<1>2. PICK y \in entries : y.login = x.login
    BY <1>1 DEF Since, Live, Gone
<1>3. ASSUME entries' # entries
      PROVE  x \in entries
    <2>1. MappingChanges
        BY <1>3 DEF OutsideChange, AccountChanges, GroupChanges, StoreChanges, GitHubEdits
    <2>2. PICK entry \in Entries :
            \/ entries' = entries \ {entry}
            \/ /\ \A z \in entries : z.login # entry.login
               /\ entries' = entries \union {entry}
        BY <2>1 DEF MappingChanges
    <2> QED
        BY <1>2, <2>2
<1> QED
    BY <1>1, <1>3

LEMMA NotedAtFirst ==
    ASSUME Init
    PROVE  Noted
<1>1. Lawful
    BY InitLawful
<1>2. Since /\ Remembered /\ Vouched
    BY DEF Init, Nobody, Since, Remembered, Vouched
<1>3. \A s \in Sources : Genuine(s)
    BY DEF Init, Genuine
<1> QED
    BY <1>1, <1>2, <1>3 DEF Noted

\* A step of the pass.
LEMMA NotedStep ==
    ASSUME Noted, Step
    PROVE  Since' /\ Remembered' /\ Vouched' /\ \A s \in Sources : Genuine(s)'
<1>0. /\ WorldOK /\ MemoryOK /\ PassOK /\ Since /\ Remembered /\ Vouched
      /\ \A s \in Sources : Genuine(s)
      /\ Company \in Sources
    BY RosterAssumptions DEF Noted, Lawful
<1>1. CASE Reload \/ ReloadFails
    <2>1. /\ pc' = "fetch" /\ todo' = held'
          /\ UNCHANGED <<account, listed, missing, entries, since>>
        BY <1>1 DEF Reload, ReloadTo, ReloadFails, world, directories, memory, memo
    <2>2. /\ healthy' \subseteq held'
          /\ \A s \in Sources : cache'[s] \in {cache[s], NoSnapshot}
        <3>1. CASE Reload
            BY <3>1 DEF Reload, ReloadTo
        <3>2. CASE ReloadFails
            BY <1>0, <3>2 DEF ReloadFails, memory, MemoryOK
        <3> QED
            BY <1>1, <3>1, <3>2
    <2>3. Remembered' /\ Vouched'
        BY <2>1, <2>2 DEF Remembered, Vouched
    <2> QED
        BY <1>0, <2>1, <2>2, <2>3, SinceKept, GenuineNext
<1>2. ASSUME NEW s \in Sources, Fetch(s) \/ FetchFails(s)
      PROVE  Since' /\ Remembered' /\ Vouched' /\ \A r \in Sources : Genuine(r)'
    <2>1. /\ pc = "fetch" /\ pc' \in {"read", "fetch"} /\ todo' = todo \ {s}
          /\ \/ cache' = [cache EXCEPT ![s] = Snapshot(s)] /\ healthy' = healthy \union {s}
             \/ cache' = cache /\ healthy' = healthy \ {s}
          /\ UNCHANGED <<account, listed, missing, entries, since>>
        BY <1>2 DEF Fetch, FetchFails, Fetched, Answer, NoAnswer, world, directories
    <2>2. \A r \in Sources : cache'[r] \in {cache[r], NoSnapshot, Snapshot(r)}
        BY <1>0, <2>1 DEF MemoryOK
    <2>3. Vouched'
        <3>1. CASE s = Company /\ healthy' = healthy \ {s}
            BY <3>1 DEF Vouched
        <3>2. CASE s = Company /\ cache' = [cache EXCEPT ![s] = Snapshot(s)]
            <4>1. cache'[Company] = Snapshot(Company)
                BY <1>0, <3>2 DEF MemoryOK
            <4> QED
                BY <1>0, <2>1, <4>1, VouchedAnew
        <3>3. CASE s # Company
            <4>1. cache'[Company] = cache[Company]
                BY <1>0, <2>1, <3>3 DEF MemoryOK
            <4>2. Company \in healthy' \ todo' => Company \in healthy \ todo
                BY <2>1, <3>3
            <4> QED
                BY <1>0, <2>1, <4>1, <4>2, VouchedKept
        <3> QED
            BY <2>1, <3>1, <3>2, <3>3
    <2>4. Remembered'
        BY <2>1 DEF Remembered
    <2> QED
        BY <1>0, <2>1, <2>2, <2>3, <2>4, SinceKept, GenuineNext
<1>3. CASE Read
    <2>1. /\ pc = "read" /\ pc' = "plan" /\ read'.entries = entries
          /\ UNCHANGED <<account, listed, missing, entries, since, cache, healthy, todo>>
        BY <1>3 DEF Read, world, directories, memory
    <2>2. Remembered'
        BY <2>1 DEF Remembered
    <2> QED
        BY <1>0, <2>1, <2>2, SinceKept, VouchedKept, GenuineNext
<1>4. CASE Plan \/ ExecuteOne
    <2>1. /\ pc' = "exec"
          /\ UNCHANGED <<account, listed, missing, entries, since, cache>>
        BY <1>4 DEF Plan, ExecuteOne, world, directories, memory, memo
    <2>2. Remembered' /\ Vouched'
        BY <2>1 DEF Remembered, Vouched
    <2> QED
        BY <1>0, <2>1, <2>2, SinceKept, GenuineNext
<1>5. CASE ReadFails \/ ExecuteFails \/ Done
    <2>1. since' = Nobody /\ UNCHANGED cache
        BY <1>5 DEF ReadFails, ExecuteFails, Done, Leave, memory
    <2> QED
        BY <1>0, <2>1, NobodyNoted, GenuineNext
<1> QED
    BY <1>1, <1>2, <1>3, <1>4, <1>5 DEF Step

LEMMA NotedNext ==
    ASSUME Noted, [Next]_vars
    PROVE  Noted'
<1>0. /\ WorldOK /\ MemoryOK /\ PassOK /\ Since /\ Remembered /\ Vouched
      /\ \A s \in Sources : Genuine(s)
      /\ Company \in Sources
    BY RosterAssumptions DEF Noted, Lawful
<1> DEFINE Rest == Since' /\ Remembered' /\ Vouched' /\ \A s \in Sources : Genuine(s)'
<1>1. ASSUME NEW m \in Modes, PassStart(m) PROVE Rest
    <2>1. /\ pc' = (IF m = "full" THEN "reload" ELSE "fetch")
          /\ todo' = (IF m = "full" THEN {} ELSE held)
          /\ since' = [live |-> Live, gone |-> Gone]
          /\ UNCHANGED <<account, listed, missing, entries, cache, healthy>>
        BY <1>1 DEF PassStart, world, directories, memory
    <2>2. Since'
        BY <2>1, StandingSame DEF Since
    <2>3. Remembered' /\ Vouched'
        BY <1>0, <2>1 DEF Remembered, Vouched, MemoryOK
    <2> QED
        BY <1>0, <2>1, <2>2, <2>3, GenuineNext
<1>2. ASSUME Step PROVE Rest
    BY <1>2, NotedStep
<1>3. ASSUME NEW l \in Logins, Accept(l) PROVE Rest
    <2>1. UNCHANGED <<account, listed, missing, entries, since, cache, healthy, todo, pc, read>>
        BY <1>3 DEF Accept, directories, memory, pass
    <2>2. Remembered'
        BY <1>0, <2>1 DEF Remembered
    <2> QED
        BY <1>0, <2>1, <2>2, SinceKept, VouchedKept, GenuineNext
<1>4. ASSUME OutsideChange PROVE Rest
    <2>1. UNCHANGED <<cache, healthy, todo, pc, read>>
        BY <1>4 DEF OutsideChange, memory, pass
    <2>2. Since'
        BY <1>4 DEF OutsideChange, StillSo, Since
    <2>3. Remembered'
        BY <1>0, <1>4, <2>1, NotedBefore DEF Remembered
    <2>4. Vouched'
        <3> SUFFICES ASSUME pc' \in {"fetch", "read", "plan"}, Company \in healthy' \ todo',
                            NEW x \in entries'
                     PROVE  /\ x.login \in since'.live =>
                                \E e \in Governing(x) : ReportedLive(e)'
                            /\ x.login \in since'.gone =>
                                Governing(x) # {} /\ \A e \in Governing(x) : ReportedGone(e)'
            BY DEF Vouched
        <3>1. \A e : (ReportedLive(e)' <=> ReportedLive(e)) /\ (ReportedGone(e)' <=> ReportedGone(e))
            BY <2>1 DEF ReportedLive, ReportedGone
        <3>2. CASE x.login \in since'.live \union since'.gone
            BY <1>0, <1>4, <2>1, <3>1, <3>2, NotedBefore DEF Vouched
        <3> QED
            BY <3>2
    <2> QED
        BY <1>0, <2>1, <2>2, <2>3, <2>4, GenuineNext
<1>5. ASSUME NEW s \in Sources, OtherRefresh(s) PROVE Rest
    <2>1. /\ \/ cache' = [cache EXCEPT ![s] = Snapshot(s)] /\ healthy' = healthy \union {s}
             \/ cache' = cache /\ healthy' = healthy \ {s}
          /\ UNCHANGED <<account, listed, missing, entries, since, todo, pc, read>>
        BY <1>5 DEF OtherRefresh, Answer, NoAnswer, world, directories, pass
    <2>2. \A r \in Sources : cache'[r] \in {cache[r], NoSnapshot, Snapshot(r)}
        BY <1>0, <2>1 DEF MemoryOK
    <2>3. Vouched'
        <3>1. CASE s = Company /\ healthy' = healthy \ {s}
            BY <3>1 DEF Vouched
        <3>2. CASE s = Company /\ cache' = [cache EXCEPT ![s] = Snapshot(s)]
            <4>1. cache'[Company] = Snapshot(Company)
                BY <1>0, <3>2 DEF MemoryOK
            <4> QED
                BY <1>0, <2>1, <4>1, VouchedAnew
        <3>3. CASE s # Company
            <4>1. cache'[Company] = cache[Company]
                BY <1>0, <2>1, <3>3 DEF MemoryOK
            <4>2. Company \in healthy' \ todo' => Company \in healthy \ todo
                BY <2>1, <3>3
            <4> QED
                BY <1>0, <2>1, <4>1, <4>2, VouchedKept
        <3> QED
            BY <2>1, <3>1, <3>2, <3>3
    <2>4. Remembered'
        BY <1>0, <2>1 DEF Remembered
    <2> QED
        BY <1>0, <2>1, <2>2, <2>3, <2>4, SinceKept, GenuineNext
<1>6. ASSUME Restart PROVE Rest
    <2>1. since' = Nobody /\ \A s \in Sources : cache'[s] = NoSnapshot
        BY <1>6 DEF Restart, Leave
    <2> QED
        BY <1>0, <2>1, NobodyNoted, GenuineNext
<1>7. ASSUME UNCHANGED vars PROVE Rest
    <2>1. UNCHANGED <<account, listed, missing, entries, since, cache, healthy, todo, pc, read>>
        BY <1>7 DEF vars, world, directories, memory, pass, memo
    <2>2. Remembered'
        BY <1>0, <2>1 DEF Remembered
    <2> QED
        BY <1>0, <2>1, <2>2, SinceKept, VouchedKept, GenuineNext
<1>8. Rest
    BY <1>1, <1>2, <1>3, <1>4, <1>5, <1>6, <1>7 DEF Next
<1>9. Lawful'
    BY NextLawful DEF Noted
<1> QED
    BY <1>8, <1>9 DEF Noted

-----------------------------------------------------------------------------
(* What the join makes of the company's word.                              *)

\* Whom an entry claims in the company's directory is its one address there.
LEMMA ClaimedAtHome ==
    ASSUME Apart, \A s \in Sources : Genuine(s), MemoryOK,
           NEW x \in Entries, NEW e \in Governing(x),
           NEW b \in Claimed(Inputs, x), b.source = Company
    PROVE  b.email = e /\ b \in cache[Company].users /\ cache[Company] # NoSnapshot
<1>1. \A c \in Accounts(Inputs) :
        \E s \in Sources : /\ cache[s] # NoSnapshot /\ c \in cache[s].users
                           /\ c.source = s /\ c.email \in Emails /\ Home[c.email] = s
                           /\ c.name = NameOf[c.email]
    <2>1. \A c \in Accounts(Inputs) :
            \E s \in Sources : cache[s] # NoSnapshot /\ c \in cache[s].users
        BY DEF Accounts, Inputs, MemoryOK
    <2> QED
        BY <2>1 DEF Genuine
<1>2. b \in Accounts(Inputs)
    BY DEF Claimed
<1>3. /\ cache[Company] # NoSnapshot /\ b \in cache[Company].users
      /\ b.email \in Emails /\ Home[b.email] = Company /\ b.name = NameOf[b.email]
    BY <1>1, <1>2
<1>4. b.name = x.name \/ \E g \in EmailsOf(x) : b.name = NameOf[g]
    <2>1. CASE b.name = x.name
        BY <2>1
    <2>2. CASE Anchors(Inputs, x, b.name) # {}
        <3>1. PICK i \in DOMAIN x.emails, c \in Accounts(Inputs) :
                c.name = b.name /\ c.email = x.emails[i]
            BY <2>2 DEF Anchors
        <3>2. c.name = NameOf[c.email] /\ c.email \in EmailsOf(x)
            BY <1>1, <3>1 DEF EmailsOf
        <3> QED
            BY <3>1, <3>2
    <2> QED
        BY <2>1, <2>2 DEF Claimed
<1> QED
    BY <1>3, <1>4 DEF Apart

\* The company reports an entry's address: the entry claims that account, it is
\* the one identity of the entry there, and it decides.
LEMMA CompanyDecides ==
    ASSUME Apart, Company \in GitSources, \A s \in Sources : Genuine(s), MemoryOK,
           NEW x \in Entries, NEW e \in Governing(x),
           cache[Company] # NoSnapshot, NEW a \in cache[Company].users, a.email = e,
           ~x.bot
    PROVE  ~OnlyDisplayed(Inputs, x) /\ (GrantLive(Inputs, x) <=> a.live)
<1>1. /\ Company \in held /\ Company \in Sources
      /\ e \in Emails /\ e \in Nat /\ e \in EmailsOf(x) /\ e \notin DisplayOnly
    <2>1. e \in EmailsOf(x)
        BY DEF Governing
    <2>2. EmailsOf(x) \subseteq Emails
        BY LoopAssumptions
    <2>3. Emails \subseteq Nat
        BY RosterAssumptions
    <2> QED
        BY <2>1, <2>2, <2>3, RosterAssumptions DEF MemoryOK, Apart
<1>2. a.source = Company /\ \A b \in cache[Company].users : b.email = a.email => b = a
    BY <1>1 DEF Genuine
<1>3. a \in Accounts(Inputs)
    <2>1. Inputs.snaps = [s \in {r \in held : cache[r] # NoSnapshot} |-> cache[s]]
        BY DEF Inputs
    <2>2. Company \in DOMAIN Inputs.snaps /\ Inputs.snaps[Company] = cache[Company]
        BY <1>1, <2>1
    <2> QED
        BY <2>2 DEF Accounts
<1>4. a \in Claimed(Inputs, x)
    <2>1. PICK i \in DOMAIN x.emails : x.emails[i] = e
        BY <1>1 DEF EmailsOf
    <2>2. i \in Anchors(Inputs, x, a.name)
        BY <1>3, <2>1 DEF Anchors
    <2> QED
        BY <1>3, <2>2 DEF Claimed
<1>5. \A b \in Claimed(Inputs, x) : b.source = Company => b = a
    BY <1>2, ClaimedAtHome
<1>6. a \in Identities(Inputs, x)
    <2>1. a.email >= a.email
        BY <1>1
    <2>2. Overwrites(Inputs, x, a, a)
        BY <2>1 DEF Overwrites
    <2> QED
        BY <1>2, <1>4, <1>5, <2>2 DEF Identities
<1> DEFINE home == {b \in Identities(Inputs, x) : b.source = Company}
<1>7. home = {a}
    BY <1>2, <1>5, <1>6 DEF Identities
<1>8. Syncs(Inputs, a.email)
    BY <1>1 DEF Syncs
<1>9. a \in Synced(Inputs, home) /\ a \in Synced(Inputs, Claimed(Inputs, x))
    BY <1>4, <1>7, <1>8 DEF Synced
<1>10. ~OnlyDisplayed(Inputs, x)
    BY <1>9 DEF OnlyDisplayed
<1>11. GrantLive(Inputs, x) <=> IsLive(home)
    BY <1>9 DEF GrantLive
<1>12. IsLive(home) <=> a.live
    BY <1>7 DEF IsLive
<1> QED
    BY <1>10, <1>11, <1>12

-----------------------------------------------------------------------------
(* Who is live stays.                                                      *)

\* A plan made now removes nobody who was noted as live.
LEMMA PlannedStays ==
    ASSUME Apart, Company \in GitSources, Noted, pc = "plan",
           NEW a \in PlanFor(Inputs, mode), a.kind = "remove-member",
           a.login \in since.live
    PROVE  FALSE
<1>0. /\ WorldOK /\ MemoryOK /\ PassOK /\ Since /\ Remembered /\ Vouched
      /\ \A s \in Sources : Genuine(s)
    BY DEF Noted, Lawful
<1>1. PICK x \in entries : x.login = a.login /\ \E e \in Governing(x) : TRUE
    BY <1>0 DEF Since, Live
<1>2. x \in read.entries /\ x \in Entries
    BY <1>0, <1>1 DEF Remembered, WorldOK
<1>3. /\ Inputs.entries = read.entries
      /\ Inputs.unhealthy = held \ healthy
      /\ Company \in Inputs.cfg
      /\ Company \in held
    BY <1>0 DEF Inputs, MemoryOK
<1>4. mode \in {"full", "removals"}
    BY <1>0 DEF PassOK
<1>5. ~Stays(Inputs, x)
    BY <1>1, <1>2, <1>3, <1>4, RemovalNeedsCause
<1>6. CASE Company \notin healthy
    <2>1. Company \in ExpectedSources(Inputs, x)
        BY <1>1, <1>3 DEF ExpectedSources, Governing
    <2> QED
        BY <1>3, <1>5, <1>6, <2>1 DEF Stays, Protected
<1>7. CASE Company \in healthy
    <2>1. Company \in healthy \ todo
        BY <1>0, <1>7 DEF PassOK
    <2>2. PICK e \in Governing(x) : ReportedLive(e)
        BY <1>0, <1>1, <2>1 DEF Vouched
    <2>3. PICK b \in cache[Company].users : b.email = e /\ b.live /\ cache[Company] # NoSnapshot
        BY <2>2 DEF ReportedLive
    <2>4. CASE ~x.bot
        <3>1. ~OnlyDisplayed(Inputs, x) /\ GrantLive(Inputs, x)
            BY <1>0, <1>2, <2>3, <2>4, CompanyDecides
        <3> QED
            BY <1>5, <3>1 DEF Stays, StandsHere
    <2>5. CASE x.bot
        <3>1. ~OnlyDisplayed(Inputs, x) /\ GrantLive(Inputs, x)
            BY <2>5 DEF OnlyDisplayed, GrantLive
        <3> QED
            BY <1>5, <3>1 DEF Stays, StandsHere
    <2> QED
        BY <2>4, <2>5
<1> QED
    BY <1>6, <1>7

\* What a step does to what the pass has planned and to what it knew then.
LEMMA PlanOnlyShrinks ==
    ASSUME [Next]_vars, pc' = "exec"
    PROVE  \/ Plan
           \/ pc = "exec" /\ plan' \subseteq plan /\ facts' = facts
<1>1. ASSUME NEW m \in Modes, PassStart(m) PROVE FALSE
    BY <1>1 DEF PassStart
<1>2. ASSUME Step
      PROVE  Plan \/ (pc = "exec" /\ plan' \subseteq plan /\ facts' = facts)
    <2>1. ~Reload /\ ~ReloadFails /\ ~Read /\ ~ReadFails /\ ~ExecuteFails /\ ~Done
        BY DEF Reload, ReloadTo, ReloadFails, Read, ReadFails, ExecuteFails, Done, Leave
    <2>2. \A s \in Sources : ~Fetch(s) /\ ~FetchFails(s)
        BY DEF Fetch, FetchFails, Fetched
    <2>3. CASE ExecuteOne
        BY <2>3 DEF ExecuteOne, memo
    <2> QED
        BY <1>2, <2>1, <2>2, <2>3 DEF Step
<1>3. ASSUME NEW l \in Logins, Accept(l)
      PROVE  pc = "exec" /\ plan' \subseteq plan /\ facts' = facts
    BY <1>3 DEF Accept, pass
<1>4. ASSUME OutsideChange
      PROVE  pc = "exec" /\ plan' \subseteq plan /\ facts' = facts
    BY <1>4 DEF OutsideChange, pass
<1>5. ASSUME NEW s \in Sources, OtherRefresh(s)
      PROVE  pc = "exec" /\ plan' \subseteq plan /\ facts' = facts
    BY <1>5 DEF OtherRefresh, pass
<1>6. ~Restart
    BY DEF Restart, Leave
<1>7. ASSUME UNCHANGED vars
      PROVE  pc = "exec" /\ plan' \subseteq plan /\ facts' = facts
    BY <1>7 DEF vars, pass, memo
<1> QED
    BY <1>1, <1>2, <1>3, <1>4, <1>5, <1>6, <1>7 DEF Next

\* Somebody whose account with the company has been live ever since a pass
\* began is not removed by it, whatever failed, restarted, went stale or was
\* edited in between - where the company's directory is in git and entries keep
\* apart in it.
THEOREM LiveIsKept ==
    ASSUME Apart, Company \in GitSources
    PROVE  Spec => []LiveStays
<1>1. Init => Noted /\ LiveStays
    BY NotedAtFirst DEF Init, LiveStays
<1>2. ASSUME Noted, LiveStays, [Next]_vars
      PROVE  Noted' /\ LiveStays'
    <2>1. ASSUME pc' = "exec", NEW l \in facts'.kept, NEW a \in plan',
                 a.kind = "remove-member", a.login = l
          PROVE  FALSE
        <3>1. CASE Plan
            <4>1. pc = "plan" /\ a \in PlanFor(Inputs, mode) /\ l \in since.live
                BY <2>1, <3>1 DEF Plan
            <4> QED
                BY <1>2, <2>1, <4>1, PlannedStays
        <3>2. CASE pc = "exec" /\ plan' \subseteq plan /\ facts' = facts
            BY <1>2, <2>1, <3>2 DEF LiveStays, Removes
        <3> QED
            BY <1>2, <2>1, <3>1, <3>2, PlanOnlyShrinks
    <2>2. LiveStays'
        BY <2>1 DEF LiveStays, Removes
    <2> QED
        BY <1>2, <2>2, NotedNext
<1> QED
    BY <1>1, <1>2, PTL DEF Spec

-----------------------------------------------------------------------------
(* Who is suspended gets nothing.                                          *)

\* A plan made now grants nothing to somebody the company is known to have
\* suspended.
LEMMA PlannedDenies ==
    ASSUME Apart, Unpinned, Company \in GitSources, Noted, pc = "plan",
           Company \in healthy, NEW a \in PlanFor(Inputs, mode), a.kind \in Additions,
           a.login \in since.gone
    PROVE  FALSE
<1>0. /\ WorldOK /\ MemoryOK /\ PassOK /\ Since /\ Remembered /\ Vouched
      /\ \A s \in Sources : Genuine(s)
    BY DEF Noted, Lawful
<1>1. PICK x \in entries : x.login = a.login
    BY <1>0 DEF Since, Gone
<1>2. x \in read.entries /\ x \in Entries
    BY <1>0, <1>1 DEF Remembered, WorldOK
<1>3. Inputs.entries = read.entries /\ Inputs.gh = read.gh
    BY DEF Inputs
<1>4. \A y \in Inputs.entries : y.login = a.login => y = x
    BY <1>0, <1>1, <1>2, <1>3 DEF PassOK, OnePerLogin
<1>5. ~x.bot /\ Governing(x) # {}
    BY <1>0, <1>1, NotedEntries
<1>6. ~OnlyDisplayed(Inputs, x) /\ ~GrantLive(Inputs, x)
    <2>1. Company \in healthy \ todo
        BY <1>0 DEF PassOK
    <2>2. PICK e \in Governing(x) : ReportedGone(e)
        BY <1>0, <1>1, <1>5, <2>1 DEF Vouched
    <2>3. PICK b \in cache[Company].users : b.email = e /\ ~b.live /\ cache[Company] # NoSnapshot
        BY <2>2 DEF ReportedGone
    <2> QED
        BY <1>0, <1>2, <1>5, <2>3, CompanyDecides
<1>7. DesiredTeams(Inputs, x) = {}
    BY <1>2, <1>6 DEF DesiredTeams, Unpinned
<1>8. mode = "full"
    <2>1. CASE mode = "removals"
        <3>1. a \in BuildPlan(Render(Inputs, "removals"), Inputs.gh)
            BY <2>1 DEF PlanFor
        <3>2. a.kind = "remove-member"
            BY <3>1, SweepOnlyRemoves
        <3> QED
            BY <3>2 DEF Additions
    <2> QED
        BY <1>0, <2>1 DEF PassOK
<1>9. CASE a.kind = "add-admin"
    BY <1>9, OwnersPassThrough
<1>10. CASE a.kind = "add-member"
    <2>1. a.team = NoTeam
        BY <1>10, PlanIsDiff, ActionKinds
    <2>2. OrgAction(Render(Inputs, mode), Inputs.gh, "add-member", a.login)
        BY <1>10, <2>1, PlanIsDiff
    <2>3. /\ a.login \in FullMembers(Inputs) /\ ~IsMember(Inputs, a.login)
        BY <1>8, <2>2, DocumentShape DEF OrgAction, IsMember
    <2>4. PICK y \in Inputs.entries : y.login = a.login /\ Wanted(Inputs, y)
        BY <2>3 DEF FullMembers, IsMember
    <2>5. Wanted(Inputs, x)
        BY <1>4, <2>4
    <2> QED
        BY <1>1, <1>7, <2>3, <2>5 DEF Wanted
<1>11. CASE a.kind = "team-add"
    <2>1. a.team # NoTeam
        BY <1>11, PlanIsDiff, ActionKinds DEF OrgKinds
    <2>2. TeamAction(Render(Inputs, mode), Inputs.gh, "team-add", a.login, a.team)
        BY <1>11, <2>1, PlanIsDiff
    <2>3. /\ a.team \in DOMAIN Inputs.gh.team
          /\ a.login \in RenderTeams(Inputs)[a.team] \ Inputs.gh.team[a.team]
        BY <1>8, <2>2, DocumentShape DEF TeamAction, RenderTeams
    <2>4. PICK y \in Inputs.entries : y.login = a.login /\ a.team \in DesiredTeams(Inputs, y)
        BY <2>3 DEF RenderTeams
    <2> QED
        BY <1>4, <1>7, <2>4
<1> QED
    BY <1>9, <1>10, <1>11 DEF Additions

\* Suspension is the removal: a pass that the company has answered grants
\* nothing to somebody whose account there has been suspended ever since the
\* pass began - where moreover nobody is pinned to a team.
THEOREM LeaverIsDenied ==
    ASSUME Apart, Unpinned, Company \in GitSources
    PROVE  Spec => []LeaverGetsNothing
<1>1. Init => Noted /\ LeaverGetsNothing
    BY NotedAtFirst DEF Init, LeaverGetsNothing
<1>2. ASSUME Noted, LeaverGetsNothing, [Next]_vars
      PROVE  Noted' /\ LeaverGetsNothing'
    <2>1. ASSUME pc' = "exec", NEW a \in plan', a.kind \in Additions,
                 a.login \in facts'.barred
          PROVE  FALSE
        <3>1. CASE Plan
            <4>1. /\ pc = "plan" /\ a \in PlanFor(Inputs, mode)
                  /\ Company \in healthy /\ a.login \in since.gone
                BY <2>1, <3>1 DEF Plan
            <4> QED
                BY <1>2, <2>1, <4>1, PlannedDenies
        <3>2. CASE pc = "exec" /\ plan' \subseteq plan /\ facts' = facts
            BY <1>2, <2>1, <3>2 DEF LeaverGetsNothing
        <3> QED
            BY <1>2, <2>1, <3>1, <3>2, PlanOnlyShrinks
    <2>2. LeaverGetsNothing'
        BY <2>1 DEF LeaverGetsNothing
    <2> QED
        BY <1>2, <2>2, NotedNext
<1> QED
    BY <1>1, <1>2, PTL DEF Spec

-----------------------------------------------------------------------------
(* Convergence: what has been done of a plan, and what is left of it, make *)
(* up what the organization still owes.                                    *)

\* What a plan of a full pass is like: it adds members from outside, removes
\* members, and does nothing that another of its actions takes back.
Consistent(q, old) ==
    /\ \A a \in q : /\ a \in Action
                    /\ a.kind \in {"add-member", "remove-member", "team-add", "team-remove"}
                    /\ a.kind = "add-member" => a.login \notin old.admins \union old.members
                    /\ a.kind = "remove-member" => a.login \in old.members
                    /\ a.kind = "team-add" => a.login \notin old.team[a.team]
                    /\ a.kind = "team-remove" => a.login \in old.team[a.team]
    /\ \A a, b \in q : a.kind = "remove-member" /\ b.kind = "team-add" => a.login # b.login

\* An organization that was old, after all of a plan but what is left.
Carried(q, left, old, org) ==
    /\ org.admins = old.admins
    /\ old.invited \subseteq org.invited
    /\ org.members \subseteq old.members
    /\ \A a \in q \ left :
        /\ a.kind = "add-member" => a.login \in org.invited
        /\ a.kind = "remove-member" => a.login \notin org.admins \union org.members
        /\ a.kind = "team-add" => a.login \in org.team[a.team] \union org.invited
        /\ a.kind = "team-remove" => a.login \notin org.team[a.team]
    /\ \A l \in old.members \ org.members :
        \E a \in q : a.kind = "remove-member" /\ a.login = l
    /\ \A t \in Teams :
        /\ \A l \in org.team[t] \ old.team[t] :
            \E a \in q : a.kind = "team-add" /\ a.login = l /\ a.team = t
        /\ \A l \in old.team[t] \ org.team[t] :
            \E a \in q : /\ a.login = l
                         /\ a.kind = "remove-member" \/ (a.kind = "team-remove" /\ a.team = t)

LEMMA CarriedOn ==
    ASSUME NEW q, NEW left, left \subseteq q,
           NEW old \in Organization, NEW org \in Organization, Orderly(old),
           Consistent(q, old), Carried(q, left, old, org), NEW a \in left
    PROVE  Carried(q, left \ {a}, old, Effect(a, org))
<1> DEFINE l == a.login
           after == Effect(a, org)
<1>1. /\ a \in q /\ a \in Action /\ l \in Logins
      /\ a.kind \in {"add-member", "remove-member", "team-add", "team-remove"}
    BY DEF Consistent, Action
<1>2. /\ org.admins = old.admins /\ org.members \subseteq old.members
      /\ org.team \in [Teams -> SUBSET Logins]
    BY DEF Carried, Organization
<1>3. q \ (left \ {a}) = (q \ left) \union {a}
    BY <1>1
<1>4. \A b \in q \ left :
        /\ b.kind = "add-member" => b.login \in org.invited
        /\ b.kind = "remove-member" => b.login \notin org.admins \union org.members
        /\ b.kind = "team-add" => b.login \in org.team[b.team] \union org.invited
        /\ b.kind = "team-remove" => b.login \notin org.team[b.team]
    BY DEF Carried
<1>5. \A b \in q : /\ b.kind \in {"team-add", "team-remove"} => b.team \in Teams
                   /\ b.kind = "team-add" /\ a.kind = "remove-member" => b.login # l
                   /\ b.kind = "team-add" /\ a.kind = "team-remove"
                        => b.login # l \/ b.team # a.team
                   /\ b.kind = "team-remove" /\ a.kind = "team-add"
                        => b.login # l \/ b.team # a.team
    <2>1. \A b \in q : b.kind \in {"team-add", "team-remove"} => b.team \in Teams
        BY DEF Consistent, Action, OrgKinds
    <2> QED
        BY <1>1, <2>1 DEF Consistent
<1>6. CASE a.kind = "add-member"
    <2>1. l \notin org.admins \union org.members
        BY <1>1, <1>2, <1>6 DEF Consistent
    <2>2. after = [org EXCEPT !.invited = @ \union {l}]
        BY <1>6, <2>1 DEF Effect
    <2>3. /\ after.admins = org.admins /\ after.members = org.members /\ after.team = org.team
          /\ after.invited = org.invited \union {l}
        BY <2>2 DEF Organization
    <2> HIDE DEF after
    <2>4. \A b \in (q \ left) \union {a} :
            /\ b.kind = "add-member" => b.login \in after.invited
            /\ b.kind = "remove-member" => b.login \notin after.admins \union after.members
            /\ b.kind = "team-add" => b.login \in after.team[b.team] \union after.invited
            /\ b.kind = "team-remove" => b.login \notin after.team[b.team]
        BY <1>4, <1>6, <2>3
    <2>5. Carried(q, left \ {a}, old, after)
        BY <1>3, <2>3, <2>4 DEF Carried
    <2> QED
        BY <2>5 DEF after
<1>7. CASE a.kind = "remove-member"
    <2>1. l \in old.members /\ l \notin org.admins
        BY <1>1, <1>2, <1>7 DEF Consistent, Orderly
    <2>2. after = [org EXCEPT !.admins = @ \ {l}, !.members = @ \ {l},
                              !.team = [t \in DOMAIN @ |-> @[t] \ {l}]]
        BY <1>7 DEF Effect
    <2>3. /\ after.admins = org.admins /\ after.members = org.members \ {l}
          /\ after.invited = org.invited
          /\ \A t \in Teams : after.team[t] = org.team[t] \ {l}
        BY <1>2, <2>1, <2>2 DEF Organization
    <2> HIDE DEF after
    <2>4. \A b \in (q \ left) \union {a} :
            /\ b.kind = "add-member" => b.login \in after.invited
            /\ b.kind = "remove-member" => b.login \notin after.admins \union after.members
            /\ b.kind = "team-add" => b.login \in after.team[b.team] \union after.invited
            /\ b.kind = "team-remove" => b.login \notin after.team[b.team]
        BY <1>1, <1>2, <1>4, <1>5, <1>7, <2>1, <2>3
    <2>5. /\ \A k \in old.members \ after.members :
                \E b \in q : b.kind = "remove-member" /\ b.login = k
          /\ \A t \in Teams :
                /\ \A k \in after.team[t] \ old.team[t] :
                    \E b \in q : b.kind = "team-add" /\ b.login = k /\ b.team = t
                /\ \A k \in old.team[t] \ after.team[t] :
                    \E b \in q : /\ b.login = k
                                 /\ b.kind = "remove-member" \/ (b.kind = "team-remove" /\ b.team = t)
        BY <1>1, <1>7, <2>3 DEF Carried
    <2>6. Carried(q, left \ {a}, old, after)
        BY <1>2, <1>3, <2>3, <2>4, <2>5 DEF Carried
    <2> QED
        BY <2>6 DEF after
<1>8. CASE a.kind = "team-add"
    <2>1. a.team \in Teams
        BY <1>1, <1>5, <1>8
    <2>2. CASE l \in org.admins \union org.members
        <3>1. after = [org EXCEPT !.team[a.team] = @ \union {l}]
            BY <1>8, <2>2 DEF Effect
        <3>2. /\ after.admins = org.admins /\ after.members = org.members
              /\ after.invited = org.invited
              /\ \A t \in Teams : after.team[t] = IF t = a.team THEN org.team[t] \union {l}
                                                               ELSE org.team[t]
            BY <1>2, <3>1 DEF Organization
        <3> HIDE DEF after
        <3>3. \A b \in (q \ left) \union {a} :
                /\ b.kind = "add-member" => b.login \in after.invited
                /\ b.kind = "remove-member" => b.login \notin after.admins \union after.members
                /\ b.kind = "team-add" => b.login \in after.team[b.team] \union after.invited
                /\ b.kind = "team-remove" => b.login \notin after.team[b.team]
            BY <1>1, <1>4, <1>5, <1>8, <2>1, <3>2
        <3>4. \A t \in Teams :
                /\ \A k \in after.team[t] \ old.team[t] :
                    \E b \in q : b.kind = "team-add" /\ b.login = k /\ b.team = t
                /\ \A k \in old.team[t] \ after.team[t] :
                    \E b \in q : /\ b.login = k
                                 /\ b.kind = "remove-member" \/ (b.kind = "team-remove" /\ b.team = t)
            <4> TAKE t \in Teams
            <4>1. /\ \A k \in org.team[t] \ old.team[t] :
                        \E b \in q : b.kind = "team-add" /\ b.login = k /\ b.team = t
                  /\ \A k \in old.team[t] \ org.team[t] :
                        \E b \in q : /\ b.login = k
                                     /\ b.kind = "remove-member"
                                            \/ (b.kind = "team-remove" /\ b.team = t)
                BY DEF Carried
            <4>2. org.team[t] \subseteq after.team[t]
                BY <3>2
            <4>3. \A k \in after.team[t] \ org.team[t] : a.login = k /\ a.team = t
                BY <3>2
            <4> QED
                BY <1>1, <1>8, <4>1, <4>2, <4>3
        <3>5. Carried(q, left \ {a}, old, after)
            BY <1>3, <3>2, <3>3, <3>4 DEF Carried
        <3> QED
            BY <3>5 DEF after
    <2>3. CASE l \notin org.admins \union org.members
        <3>1. after = [org EXCEPT !.invited = @ \union {l}, !.offered[a.team] = @ \union {l}]
            BY <1>8, <2>3 DEF Effect
        <3>2. /\ after.admins = org.admins /\ after.members = org.members
              /\ after.invited = org.invited \union {l} /\ after.team = org.team
            BY <3>1 DEF Organization
        <3> HIDE DEF after
        <3>3. \A b \in (q \ left) \union {a} :
                /\ b.kind = "add-member" => b.login \in after.invited
                /\ b.kind = "remove-member" => b.login \notin after.admins \union after.members
                /\ b.kind = "team-add" => b.login \in after.team[b.team] \union after.invited
                /\ b.kind = "team-remove" => b.login \notin after.team[b.team]
            BY <1>4, <1>8, <3>2
        <3>4. Carried(q, left \ {a}, old, after)
            BY <1>3, <3>2, <3>3 DEF Carried
        <3> QED
            BY <3>4 DEF after
    <2> QED
        BY <2>2, <2>3
<1>9. CASE a.kind = "team-remove"
    <2>1. a.team \in Teams
        BY <1>1, <1>5, <1>9
    <2>2. after = [org EXCEPT !.team[a.team] = @ \ {l}, !.offered[a.team] = @ \ {l}]
        BY <1>9 DEF Effect
    <2>3. /\ after.admins = org.admins /\ after.members = org.members
          /\ after.invited = org.invited
          /\ \A t \in Teams : after.team[t] = IF t = a.team THEN org.team[t] \ {l}
                                                           ELSE org.team[t]
        <3>1. /\ after.admins = org.admins /\ after.members = org.members
              /\ after.invited = org.invited
              /\ after.team = [org.team EXCEPT ![a.team] = @ \ {l}]
            BY <2>2 DEF Organization
        <3> HIDE DEF after
        <3> QED
            BY <1>2, <3>1
    <2> HIDE DEF after
    <2>4. \A b \in (q \ left) \union {a} :
            /\ b.kind = "add-member" => b.login \in after.invited
            /\ b.kind = "remove-member" => b.login \notin after.admins \union after.members
            /\ b.kind = "team-add" => b.login \in after.team[b.team] \union after.invited
            /\ b.kind = "team-remove" => b.login \notin after.team[b.team]
        BY <1>1, <1>4, <1>5, <1>9, <2>1, <2>3
    <2>5. \A t \in Teams :
            /\ \A k \in after.team[t] \ old.team[t] :
                \E b \in q : b.kind = "team-add" /\ b.login = k /\ b.team = t
            /\ \A k \in old.team[t] \ after.team[t] :
                \E b \in q : /\ b.login = k
                             /\ b.kind = "remove-member" \/ (b.kind = "team-remove" /\ b.team = t)
        <3> TAKE t \in Teams
        <3>1. /\ \A k \in org.team[t] \ old.team[t] :
                    \E b \in q : b.kind = "team-add" /\ b.login = k /\ b.team = t
              /\ \A k \in old.team[t] \ org.team[t] :
                    \E b \in q : /\ b.login = k
                                 /\ b.kind = "remove-member" \/ (b.kind = "team-remove" /\ b.team = t)
            BY DEF Carried
        <3>2. after.team[t] \subseteq org.team[t]
            BY <2>3
        <3>3. \A k \in org.team[t] \ after.team[t] : a.login = k /\ a.team = t
            BY <2>3
        <3> QED
            BY <1>1, <1>9, <3>1, <3>2, <3>3
    <2>6. Carried(q, left \ {a}, old, after)
        BY <1>3, <2>3, <2>4, <2>5 DEF Carried
    <2> QED
        BY <2>6 DEF after
<1> QED
    BY <1>1, <1>6, <1>7, <1>8, <1>9

\* Who is granted a team that is not pinned stays.
LEMMA DesiredStay ==
    ASSUME NEW in, NEW x, x.pinned \intersect Pinned = {}, NEW t \in DesiredTeams(in, x)
    PROVE  Stays(in, x)
<1>1. GrantLive(in, x)
    BY DEF DesiredTeams
<1> QED
    BY <1>1 DEF Stays, StandsHere

\* An action of a plan, by its kind.
LEMMA PlannedKinds ==
    ASSUME NEW in, NEW a \in PlanFor(in, "full"), DOMAIN in.gh.team = Teams
    PROVE  /\ a \in Action
           /\ a.kind \in {"add-member", "remove-member", "team-add", "team-remove"}
           /\ a.kind = "add-member" =>
                /\ a.login \in FullMembers(in) \ in.gh.invited
                /\ a.login \notin in.gh.admins \union in.gh.members
           /\ a.kind = "team-add" =>
                a.team \in Teams /\ a.login \in RenderTeams(in)[a.team] \ in.gh.team[a.team]
           /\ a.kind = "team-remove" =>
                a.team \in Teams /\ a.login \in in.gh.team[a.team] \ RenderTeams(in)[a.team]
<1>1. a \in Action
    BY PlanIsDiff
<1>2. a.kind \notin {"promote", "demote", "add-admin", "cancel-invite"}
    BY OwnersPassThrough, InvitationsLeftAlone
<1>3. CASE a.team = NoTeam
    <2>1. OrgAction(Render(in, "full"), in.gh, a.kind, a.login)
        BY <1>3, PlanIsDiff
    <2>2. a.kind \in OrgKinds
        BY <1>1, <1>3, ActionKinds
    <2>3. a.kind \in {"add-member", "remove-member"}
        BY <1>2, <2>2 DEF OrgKinds
    <2>4. a.kind = "add-member" =>
            /\ a.login \in FullMembers(in) \ in.gh.invited
            /\ a.login \notin in.gh.admins \union in.gh.members
        BY <2>1, DocumentShape DEF OrgAction
    <2> QED
        BY <1>1, <2>3, <2>4
<1>4. CASE a.team # NoTeam
    <2>1. TeamAction(Render(in, "full"), in.gh, a.kind, a.login, a.team)
        BY <1>4, PlanIsDiff
    <2>2. a.kind \in {"team-add", "team-remove"} /\ a.team \in Teams
        BY <1>1, <1>4, ActionKinds
    <2>3. /\ a.kind = "team-add" => a.login \in RenderTeams(in)[a.team] \ in.gh.team[a.team]
          /\ a.kind = "team-remove" => a.login \in in.gh.team[a.team] \ RenderTeams(in)[a.team]
        BY <2>1, <2>2, DocumentShape DEF TeamAction
    <2> QED
        BY <1>1, <2>2, <2>3
<1> QED
    BY <1>3, <1>4

\* The team added is one the person should be in, or is kept in.
LEMMA TeamAddDesired ==
    ASSUME NEW in, NEW t \in Teams, DOMAIN in.gh.team = Teams,
           NEW l \in RenderTeams(in)[t] \ in.gh.team[t]
    PROVE  \E x \in in.entries : x.login = l /\ t \in DesiredTeams(in, x)
    BY DEF RenderTeams

LEMMA PlansConsistent ==
    ASSUME NEW in, in.gh \in Organization,
           \A x \in in.entries : x.pinned \intersect Pinned = {}
    PROVE  Consistent(PlanFor(in, "full"), in.gh)
<1> DEFINE q == PlanFor(in, "full")
<1>0. DOMAIN in.gh.team = Teams
    BY DEF Organization
<1>1. \A a \in q : /\ a \in Action
                   /\ a.kind \in {"add-member", "remove-member", "team-add", "team-remove"}
                   /\ a.kind = "add-member" => a.login \notin in.gh.admins \union in.gh.members
                   /\ a.kind = "remove-member" => a.login \in in.gh.members
                   /\ a.kind = "team-add" => a.login \notin in.gh.team[a.team]
                   /\ a.kind = "team-remove" => a.login \in in.gh.team[a.team]
    BY <1>0, PlannedKinds, RemovalNeedsCause
<1>2. ASSUME NEW a \in q, NEW b \in q, a.kind = "remove-member", b.kind = "team-add",
             a.login = b.login
      PROVE  FALSE
    <2>1. PICK x \in in.entries : x.login = b.login /\ b.team \in DesiredTeams(in, x)
        BY <1>0, <1>2, PlannedKinds, TeamAddDesired
    <2>2. Stays(in, x)
        BY <2>1, DesiredStay
    <2> QED
        BY <1>2, <2>1, <2>2, RemovalNeedsCause
<1> QED
    BY <1>1, <1>2 DEF Consistent

\* All of a plan done, the next is empty but for teams offered again.
LEMMA NothingLeft ==
    ASSUME NEW in, NEW now, in.gh \in Organization, now.gh \in Organization,
           Orderly(in.gh), Orderly(now.gh),
           now.cfg = in.cfg, now.snaps = in.snaps, now.unhealthy = in.unhealthy,
           now.entries = in.entries,
           \A x \in in.entries : x.pinned \intersect Pinned = {},
           Carried(PlanFor(in, "full"), {}, in.gh, now.gh),
           NEW a \in PlanFor(now, "full")
    PROVE  a.kind = "team-add" /\ a.login \in now.gh.invited
<1> DEFINE q == PlanFor(in, "full")
           old == in.gh
           org == now.gh
           l == a.login
<1>0. DOMAIN old.team = Teams /\ DOMAIN org.team = Teams
    BY DEF Organization
<1>1. \A x : /\ StandsHere(in, x) <=> StandsHere(now, x)
             /\ OnlyDisplayed(in, x) <=> OnlyDisplayed(now, x)
             /\ Stays(in, x) <=> Stays(now, x)
             /\ DesiredTeams(in, x) = DesiredTeams(now, x)
    BY StandingApart
<1>2. AbsentGroups(in) = AbsentGroups(now) /\ Mapped(in) = Mapped(now)
    BY StandingApart DEF Mapped
<1>3. /\ org.admins = old.admins /\ old.invited \subseteq org.invited
      /\ org.members \subseteq old.members
      /\ \A b \in q :
            /\ b.kind = "add-member" => b.login \in org.invited
            /\ b.kind = "remove-member" => b.login \notin org.admins \union org.members
            /\ b.kind = "team-add" => b.login \in org.team[b.team] \union org.invited
            /\ b.kind = "team-remove" => b.login \notin org.team[b.team]
      /\ \A k \in old.members \ org.members :
            \E b \in q : b.kind = "remove-member" /\ b.login = k
    BY DEF Carried
<1>4. a \in BuildPlan(Render(now, "full"), org) /\ ~Refused(Render(now, "full"), org, "full")
    BY DEF PlanFor
<1>5. q = BuildPlan(Render(in, "full"), old)
    <2>1. Render(in, "full").admins = old.admins /\ Render(now, "full").admins = org.admins
        BY DocumentShape
    <2>2. ~Refused(Render(in, "full"), old, "full")
        BY <1>3, <1>4, <2>1 DEF Refused
    <2> QED
        BY <2>2 DEF PlanFor
<1>6. /\ a \in Action
      /\ a.kind \in {"add-member", "remove-member", "team-add", "team-remove"}
    BY <1>0, PlannedKinds
<1>7. ASSUME a.kind = "add-member" PROVE FALSE
    <2>1. /\ l \in FullMembers(now) \ org.invited /\ l \notin org.admins \union org.members
        BY <1>0, <1>7, PlannedKinds
    <2>2. PICK x \in in.entries : x.login = l /\ Wanted(now, x)
        BY <2>1 DEF FullMembers
    <2>3. ~OnlyDisplayed(in, x) /\ StandsHere(in, x) /\ DesiredTeams(in, x) # {}
        BY <1>1, <2>1, <2>2 DEF Wanted, IsMember
    <2>4. l \notin old.members
        <3>1. SUFFICES ASSUME l \in old.members PROVE FALSE
            OBVIOUS
        <3>2. PICK b \in q : b.kind = "remove-member" /\ b.login = l
            BY <1>3, <2>1, <3>1
        <3>3. ~Stays(in, x)
            BY <2>2, <3>2, RemovalNeedsCause
        <3> QED
            BY <2>3, <3>3 DEF Stays
    <2>5. l \in FullMembers(in) /\ l \notin old.admins /\ l \notin old.invited
        BY <1>3, <2>1, <2>2, <2>3 DEF FullMembers, Wanted
    <2>6. a.team = NoTeam
        BY <1>6, <1>7, ActionKinds
    <2>7. OrgAction(Render(in, "full"), old, "add-member", l)
        BY <2>4, <2>5, DocumentShape DEF OrgAction
    <2>8. a \in q
        BY <1>5, <1>6, <1>7, <2>6, <2>7 DEF BuildPlan
    <2> QED
        BY <1>3, <1>7, <2>1, <2>8
<1>8. ASSUME a.kind = "remove-member" PROVE FALSE
    <2>1. /\ l \in org.members \ Exceptions /\ l \in Mapped(now)
          /\ \A x \in now.entries : x.login = l => ~Stays(now, x)
        BY <1>8, RemovalNeedsCause
    <2>2. l \in old.members /\ l \notin old.admins /\ l \notin old.invited
        BY <1>3, <2>1 DEF Orderly
    <2>3. \A x \in in.entries : x.login = l => ~Wanted(in, x)
        BY <1>1, <2>1 DEF Wanted, Stays
    <2>4. l \notin FullMembers(in)
        BY <1>2, <2>1, <2>2, <2>3 DEF FullMembers
    <2>5. OrgAction(Render(in, "full"), old, "remove-member", l)
        BY <2>2, <2>4, DocumentShape DEF OrgAction
    <2>6. a.team = NoTeam
        BY <1>6, <1>8, ActionKinds
    <2>7. a \in q
        BY <1>5, <1>6, <1>8, <2>5, <2>6 DEF BuildPlan
    <2> QED
        BY <1>3, <1>8, <2>1, <2>7
<1>9. ASSUME a.kind = "team-add", l \notin org.invited PROVE FALSE
    <2>1. a.team \in Teams /\ l \in RenderTeams(now)[a.team] \ org.team[a.team]
        BY <1>0, <1>9, PlannedKinds
    <2>2. PICK x \in in.entries : x.login = l /\ a.team \in DesiredTeams(in, x)
        BY <1>0, <1>1, <2>1, TeamAddDesired
    <2>3. l \in RenderTeams(in)[a.team]
        BY <1>0, <2>1, <2>2 DEF RenderTeams
    <2>4. CASE l \notin old.team[a.team]
        <3>1. a.team # NoTeam
            BY <2>1, RosterAssumptions
        <3>2. DOMAIN Render(in, "full").teams = Teams /\ Render(in, "full").teams = RenderTeams(in)
            BY <1>0, DocumentShape DEF RenderTeams
        <3>3. TeamAction(Render(in, "full"), old, "team-add", l, a.team)
            BY <2>1, <2>3, <2>4, <3>2 DEF TeamAction
        <3>4. a \in q
            BY <1>5, <1>6, <1>9, <3>1, <3>3 DEF BuildPlan
        <3> QED
            BY <1>3, <1>9, <2>1, <3>4
    <2>5. CASE l \in old.team[a.team]
        <3>1. PICK b \in q : /\ b.login = l
                             /\ b.kind = "remove-member"
                                    \/ (b.kind = "team-remove" /\ b.team = a.team)
            BY <2>1, <2>5 DEF Carried
        <3>2. CASE b.kind = "remove-member"
            <4>1. ~Stays(in, x)
                BY <2>2, <3>1, <3>2, RemovalNeedsCause
            <4> QED
                BY <2>2, <4>1, DesiredStay
        <3>3. CASE b.kind = "team-remove" /\ b.team = a.team
            <4>1. l \notin RenderTeams(in)[a.team]
                BY <1>0, <3>1, <3>3, PlannedKinds
            <4> QED
                BY <2>3, <4>1
        <3> QED
            BY <3>1, <3>2, <3>3
    <2> QED
        BY <2>4, <2>5
<1>10. ASSUME a.kind = "team-remove" PROVE FALSE
    <2>1. a.team \in Teams /\ l \in org.team[a.team] \ RenderTeams(now)[a.team]
        BY <1>0, <1>10, PlannedKinds
    <2>2. /\ a.team \notin Pinned /\ GroupsOf[a.team] \intersect AbsentGroups(in) = {}
          /\ \A x \in in.entries : x.login = l => a.team \notin DesiredTeams(in, x)
        BY <1>0, <1>1, <1>2, <2>1 DEF RenderTeams
    <2>3. l \notin RenderTeams(in)[a.team]
        BY <1>0, <2>1, <2>2 DEF RenderTeams
    <2>4. CASE l \in old.team[a.team]
        <3>1. a.team # NoTeam
            BY <2>1, RosterAssumptions
        <3>2. DOMAIN Render(in, "full").teams = Teams /\ Render(in, "full").teams = RenderTeams(in)
            BY <1>0, DocumentShape DEF RenderTeams
        <3>3. TeamAction(Render(in, "full"), old, "team-remove", l, a.team)
            BY <2>1, <2>3, <2>4, <3>2 DEF TeamAction
        <3>4. a \in q
            BY <1>5, <1>6, <1>10, <3>1, <3>3 DEF BuildPlan
        <3> QED
            BY <1>3, <1>10, <2>1, <3>4
    <2>5. CASE l \notin old.team[a.team]
        <3>1. PICK b \in q : b.kind = "team-add" /\ b.login = l /\ b.team = a.team
            BY <2>1, <2>5 DEF Carried
        <3>2. \E x \in in.entries : x.login = l /\ a.team \in DesiredTeams(in, x)
            BY <1>0, <3>1, PlannedKinds, TeamAddDesired
        <3> QED
            BY <2>2, <3>2
    <2> QED
        BY <2>4, <2>5
<1> QED
    BY <1>6, <1>7, <1>8, <1>9, <1>10

-----------------------------------------------------------------------------
\* In a calm pass what was read is what there is, and from the plan on what is
\* there has come of it by what was done of the plan.
Settling ==
    /\ calm /\ pc \in {"plan", "exec"} => entries = read.entries
    /\ calm /\ pc = "plan" => gh = read.gh
    /\ calm /\ pc = "exec" /\ mode = "full" =>
        /\ plan \subseteq PlanFor(Inputs, "full")
        /\ Carried(PlanFor(Inputs, "full"), plan, read.gh, gh)

LEMMA InputsSame ==
    ASSUME UNCHANGED <<mode, held, cache, healthy, read>>
    PROVE  Inputs' = Inputs
    BY DEF Inputs

LEMMA SettlingNext ==
    ASSUME Unpinned, Lawful, Settling, [Next]_vars
    PROVE  Settling'
<1>1. ASSUME NEW m \in Modes, PassStart(m) PROVE Settling'
    BY <1>1 DEF PassStart, Settling
<1>2. ASSUME Step PROVE Settling'
    <2>1. CASE Reload
        BY <2>1 DEF Reload, ReloadTo, Settling
    <2>2. CASE ReloadFails
        BY <2>2 DEF ReloadFails, Settling
    <2>3. ASSUME NEW s \in Sources, Fetch(s) \/ FetchFails(s) PROVE Settling'
        BY <2>3 DEF Fetch, FetchFails, Fetched, Settling
    <2>4. CASE Read
        BY <2>4 DEF Read, Settling, world
    <2>5. CASE ReadFails \/ ExecuteFails \/ Done
        BY <2>5 DEF ReadFails, ExecuteFails, Done, Leave, Settling
    <2>6. CASE Plan
        <3>1. /\ pc = "plan" /\ pc' = "exec" /\ plan' = PlanFor(Inputs, mode)
              /\ UNCHANGED <<entries, gh, cache, healthy, held, mode, read, calm>>
            BY <2>6 DEF Plan, world, memory
        <3>2. Inputs' = Inputs
            BY <3>1, InputsSame
        <3>3. calm => entries = read.entries /\ gh = read.gh
            BY <3>1 DEF Settling
        <3>4. Carried(PlanFor(Inputs, "full"), PlanFor(Inputs, "full"), gh, gh)
            BY DEF Carried
        <3> QED
            BY <3>1, <3>2, <3>3, <3>4 DEF Settling
    <2>7. CASE ExecuteOne
        <3>1. PICK a \in NextActions(plan) : gh' = Effect(a, gh) /\ plan' = plan \ {a}
            BY <2>7 DEF ExecuteOne
        <3>2. /\ pc = "exec"
              /\ UNCHANGED <<entries, cache, healthy, held, pc, mode, read, calm>>
            BY <2>7 DEF ExecuteOne, memory, memo
        <3>3. Inputs' = Inputs
            BY <3>2, InputsSame
        <3>4. a \in plan
            BY DEF NextActions
        <3>5. ASSUME calm, mode = "full"
              PROVE  /\ plan' \subseteq PlanFor(Inputs, "full")
                     /\ Carried(PlanFor(Inputs, "full"), plan', read.gh, gh')
            <4>1. /\ plan \subseteq PlanFor(Inputs, "full")
                  /\ Carried(PlanFor(Inputs, "full"), plan, read.gh, gh)
                BY <3>2, <3>5 DEF Settling
            <4>2. /\ read.gh \in Organization /\ Orderly(read.gh)
                  /\ gh \in Organization
                  /\ read.entries \subseteq Entries
                BY <3>2 DEF Lawful, PassOK, WorldOK
            <4>3. Inputs.gh = read.gh /\ Inputs.entries = read.entries
                BY DEF Inputs
            <4>4. Consistent(PlanFor(Inputs, "full"), read.gh)
                BY <4>2, <4>3, PlansConsistent DEF Unpinned
            <4> QED
                BY <3>1, <3>4, <4>1, <4>2, <4>4, CarriedOn
        <3> QED
            BY <3>2, <3>3, <3>5 DEF Settling
    <2> QED
        BY <1>2, <2>1, <2>2, <2>3, <2>4, <2>5, <2>6, <2>7 DEF Step
<1>3. ASSUME NEW l \in Logins, Accept(l) PROVE Settling'
    BY <1>3 DEF Accept, Settling
<1>4. ASSUME OutsideChange PROVE Settling'
    BY <1>4 DEF OutsideChange, Outside, Settling
<1>5. ASSUME NEW s \in Sources, OtherRefresh(s) PROVE Settling'
    BY <1>5 DEF OtherRefresh, Outside, Settling
<1>6. ASSUME Restart PROVE Settling'
    BY <1>6 DEF Restart, Leave, Settling
<1>7. ASSUME UNCHANGED vars PROVE Settling'
    <2>1. UNCHANGED <<entries, gh, cache, healthy, held, pc, mode, read, plan, calm>>
        BY <1>7 DEF vars, world, memory, pass, memo
    <2>2. Inputs' = Inputs
        BY <2>1, InputsSame
    <2> QED
        BY <2>1, <2>2 DEF Settling
<1> QED
    BY <1>1, <1>2, <1>3, <1>4, <1>5, <1>6, <1>7 DEF Next

\* One undisturbed full pass is enough: a plan made right after it has nothing
\* left to do but to offer teams again to people who have not accepted yet -
\* where nobody is pinned to a team.
THEOREM OnePassSettles ==
    ASSUME Unpinned
    PROVE  Spec => []Settled
<1>1. Init => Lawful /\ Settling
    BY InitLawful DEF Init, Settling
<1>2. Lawful /\ Settling /\ [Next]_vars => Lawful' /\ Settling'
    BY NextLawful, SettlingNext
<1>3. ASSUME Lawful, Settling PROVE Settled
    <2> DEFINE now == [Inputs EXCEPT !.entries = entries, !.gh = gh]
    <2> SUFFICES ASSUME pc = "exec", plan = {}, calm, mode = "full",
                        NEW a \in PlanFor(now, "full")
                 PROVE  a.kind = "team-add" /\ a.login \in gh.invited
        BY DEF Settled
    <2>1. /\ now.gh = gh /\ now.entries = entries /\ now.cfg = Inputs.cfg
          /\ now.snaps = Inputs.snaps /\ now.unhealthy = Inputs.unhealthy
          /\ Inputs.gh = read.gh /\ Inputs.entries = read.entries
        BY DEF Inputs
    <2> HIDE DEF now
    <2>2. /\ entries = read.entries
          /\ Carried(PlanFor(Inputs, "full"), {}, read.gh, gh)
        BY <1>3 DEF Settling
    <2>3. /\ read.gh \in Organization /\ Orderly(read.gh)
          /\ gh \in Organization /\ Orderly(gh) /\ entries \subseteq Entries
        BY <1>3 DEF Lawful, PassOK, WorldOK
    <2> QED
        BY <2>1, <2>2, <2>3, NothingLeft DEF Unpinned
<1> QED
    BY <1>1, <1>2, <1>3, PTL DEF Spec
=============================================================================
