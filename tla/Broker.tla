------------------------------- MODULE Broker -------------------------------
(***************************************************************************)
(* The applier broker (src/pkg/broker): the one process that writes to     *)
(* GitHub.  Five kinds of goroutine meet here - plan requests, synchronous *)
(* applies, asynchronous apply runs, reconcile passes and removals sweeps  *)
(* - and share the apply lock, the plan store, the directory caches and    *)
(* the audit sink.                                                         *)
(*                                                                         *)
(* The data is cut down to what that concurrency tells apart.  For each    *)
(* organization, have is the membership GitHub holds and view the one the  *)
(* shared directory caches would render; module Roster says how a          *)
(* rendering is decided.  A directory may answer anything at any time, so  *)
(* no property here leans on what it says.                                 *)
(***************************************************************************)
EXTENDS Naturals, FiniteSets

CONSTANTS
    Orgs,           \* the organizations of the configuration
    Logins,         \* the GitHub logins that occur
    Planners,       \* goroutines serving POST /plans
    Appliers,       \* goroutines serving POST /plans/{hash}/apply
    Runners,        \* goroutines of asynchronous apply runs
    Reconcilers,    \* reconcile passes: the ticker's and the triggered ones
    Sweepers,       \* removals sweeps: the ticker's and POST /internal/sweep
    ConfigEnabled,  \* orgs[].reconcileEnabled of the reviewed configuration
    SinkUp,         \* the audit bucket accepts every write it receives
    Switched,       \* bound: organizations whose control flags are changed
    MaxOutside,     \* bound: plan requests, outside changes and restarts
    Free, NoOrg

Operators == Appliers \union Runners
Passes == Reconcilers \union Sweepers
Workers == Planners \union Operators \union Passes

ASSUME KindsAreDisjoint ==
    /\ Planners \intersect (Operators \union Passes) = {}
    /\ Appliers \intersect (Runners \union Passes) = {}
    /\ Runners \intersect Passes = {}
    /\ Reconcilers \intersect Sweepers = {}

ASSUME ConstantTypes ==
    /\ ConfigEnabled \in [Orgs -> BOOLEAN]
    /\ SinkUp \in BOOLEAN
    /\ MaxOutside \in Nat
    /\ Free \notin Workers
    /\ NoOrg \notin Orgs

Action == [kind : {"add", "remove"}, login : Logins]

\* Hash(org, mode, plan): equal hashes mean equal organization and equal
\* actions (the digest is taken as injective; every stored plan is "full").
PlanHash == [org : Orgs, actions : SUBSET Action]

NoPlan == [org |-> NoOrg, actions |-> {}]

\* The plan that turns the members cur into the members des.
Diff(des, cur) == [kind : {"add"}, login : des \ cur]
                  \union [kind : {"remove"}, login : cur \ des]

IsRemoval(a) == a.kind = "remove"

Perform(a, cur) == IF IsRemoval(a) THEN cur \ {a.login}
                                   ELSE cur \union {a.login}

\* sortActions puts every addition before every removal.
NextActions(actions) ==
    LET adds == {a \in actions : ~IsRemoval(a)}
    IN  IF adds = {} THEN actions ELSE adds

VARIABLES
    have,             \* outside: the organizations in GitHub
    paused, override, \* outside: the control store's flags, per organization
    view,             \* memory: the directory caches, last known good
    healthy,          \* memory: organizations whose last fetch succeeded
    plans,            \* memory: the hashes the plan store would serve
    lock,             \* memory: applyMu
    pc, todo, org,    \* per goroutine: where it is, on what organization
    approved,         \* per goroutine: the hash the operator approved
    seen,             \* per goroutine: the members ReadScoped returned
    plan,             \* per goroutine: the actions Execute has left
    written,          \* per goroutine: the writes its record will cover
    failed,           \* per goroutine: Execute returned an error
    expired,          \* goroutines whose context is done
    run,              \* status of each asynchronous run
    lost,             \* organizations whose last run is reported NOT recorded
    \* What the properties remember; no action reads it.
    unfiled,          \* organizations whose last run to write is on no record
    quiet,            \* nothing outside touched the organization since seen
    spent,            \* hashes applied in full, organization untouched since
    blind,            \* a control flag could not be read at the gate
    heldAll,          \* organizations held ever since the pass began
    outside           \* how much has come from outside so far

outsideVars == <<have, paused, override>>
caches == <<view, healthy>>
localVars == <<todo, org, approved, seen, plan, failed>>
auditVars == <<written, lost, unfiled>>
memoVars == <<quiet, spent, blind, heldAll>>
vars == <<outsideVars, caches, plans, lock, pc, localVars, auditVars,
          expired, run, memoVars, outside>>

Enabled(o) == IF override[o] = "unset" THEN ConfigEnabled[o]
                                       ELSE override[o] = "on"
Held(o) == paused[o] \/ ~Enabled(o)

Init ==
    /\ view = [o \in Orgs |-> {}]
    /\ healthy = {}
    /\ plans = {}
    /\ lock = Free
    /\ pc = [w \in Workers |-> "idle"]
    /\ todo = [w \in Passes |-> {}]
    /\ org = [w \in Workers |-> NoOrg]
    /\ approved = [w \in Workers |-> NoPlan]
    /\ seen = [w \in Workers |-> {}]
    /\ plan = [w \in Workers |-> {}]
    /\ written = [w \in Workers |-> {}]
    /\ failed = [w \in Workers |-> FALSE]
    /\ expired = {}
    /\ run = [w \in Runners |-> "none"]
    /\ quiet = [w \in Workers |-> FALSE]
    /\ blind = [w \in Workers |-> FALSE]
    /\ have \in [Orgs -> SUBSET Logins]
    /\ paused = [o \in Orgs |-> FALSE]
    /\ override = [o \in Orgs |-> "unset"]
    /\ lost = {}
    /\ unfiled = {}
    /\ spent = {}
    /\ heldAll = {}
    /\ outside = 0

\* What comes from outside is bounded.
Outside ==
    /\ outside < MaxOutside
    /\ outside' = outside + 1

Goto(w, label) == pc' = [pc EXCEPT ![w] = label]

-----------------------------------------------------------------------------
(* What each goroutine does before it reads.                               *)

\* handlePlan: compute without the lock.
PlanRequest(w) ==
    /\ w \in Planners
    /\ pc[w] = "idle"
    /\ Outside
    /\ \E o \in Orgs : org' = [org EXCEPT ![w] = o]
    /\ Goto(w, "refresh")
    /\ UNCHANGED <<outsideVars, caches, plans, lock, todo, approved, seen, plan,
                   failed, auditVars, expired, run, memoVars>>

\* handleApply and handleApplyAsync: the organization comes from the URL and
\* the hash from a plan the store still serves; then wait for the lock.  The
\* ten minutes of an asynchronous run's context start here.
ApplyRequest(w) ==
    /\ w \in Operators
    /\ pc[w] = "idle"
    /\ \E o \in Orgs, h \in plans :
        /\ org' = [org EXCEPT ![w] = o]
        /\ approved' = [approved EXCEPT ![w] = h]
    /\ run' = IF w \in Runners THEN [run EXCEPT ![w] = "running"] ELSE run
    /\ Goto(w, "wait")
    /\ UNCHANGED <<outsideVars, caches, plans, lock, todo, seen, plan, failed,
                   auditVars, expired, memoVars, outside>>

Lock(w) ==
    /\ w \in Operators
    /\ pc[w] = "wait"
    /\ lock = Free
    /\ lock' = w
    /\ Goto(w, "refresh")
    /\ UNCHANGED <<outsideVars, caches, plans, localVars, auditVars, expired,
                   run, memoVars, outside>>

\* Faulty variant: the pass does not take the lock.
PassStartUnlocked(w) ==
    /\ w \in Passes
    /\ pc[w] = "idle"
    /\ lock' = w
    /\ todo' = [todo EXCEPT ![w] = Orgs]
    /\ heldAll' = IF w \in Reconcilers THEN {o \in Orgs : Held(o)} ELSE heldAll
    /\ Goto(w, "open")
    /\ UNCHANGED <<outsideVars, caches, plans, org, approved, seen, plan,
                   failed, auditVars, expired, run, quiet, spent, blind,
                   outside>>

\* RunReconcile and RunRemovals take the lock with TryLock: a pass that finds
\* it taken is dropped, which changes nothing.
PassStart(w) ==
    /\ w \in Passes
    /\ pc[w] = "idle"
    /\ lock = Free
    /\ lock' = w
    /\ todo' = [todo EXCEPT ![w] = Orgs]
    /\ heldAll' = IF w \in Reconcilers THEN {o \in Orgs : Held(o)} ELSE heldAll
    /\ Goto(w, "open")
    /\ UNCHANGED <<outsideVars, caches, plans, org, approved, seen, plan,
                   failed, auditVars, expired, run, quiet, spent, blind,
                   outside>>

\* The organizations of a pass, one after the other.
NextOrg(w) ==
    /\ w \in Passes
    /\ pc[w] = "next"
    /\ \E o \in todo[w] :
        /\ org' = [org EXCEPT ![w] = o]
        /\ todo' = [todo EXCEPT ![w] = @ \ {o}]
    /\ Goto(w, IF w \in Reconcilers THEN "refresh" ELSE "read")
    /\ UNCHANGED <<outsideVars, caches, plans, lock, approved, seen, plan,
                   failed, auditVars, expired, run, memoVars, outside>>

PassEnd(w) ==
    /\ w \in Passes
    /\ pc[w] = "next"
    /\ todo[w] = {}
    /\ lock' = Free
    /\ expired' = expired \ {w}
    /\ heldAll' = IF w \in Reconcilers THEN {} ELSE heldAll
    /\ Goto(w, "idle")
    /\ UNCHANGED <<outsideVars, caches, plans, localVars, auditVars, run, quiet,
                   spent, blind, outside>>

-----------------------------------------------------------------------------
(* compute: refresh the directories, read GitHub, join with the caches.    *)

\* Directories.Refresh: a source answers - with whatever it holds by now, or
\* held when an overlapping fetch of it began - or keeps its last known good.
\* The caches are shared: every goroutine's refresh shows up in all of them.
Refresh(w) ==
    /\ pc[w] \in {"open", "refresh"}
    /\ healthy' \in SUBSET Orgs
    /\ w \in expired => healthy' = {}
    /\ \E answer \in [healthy' -> SUBSET Logins] :
        view' = [o \in Orgs |-> IF o \in healthy' THEN answer[o] ELSE view[o]]
    /\ Goto(w, IF pc[w] = "open" THEN "next" ELSE "read")
    /\ UNCHANGED <<outsideVars, plans, lock, localVars, auditVars, expired,
                   run, memoVars, outside>>

ReadScoped(w) ==
    /\ pc[w] = "read"
    /\ w \notin expired
    /\ seen' = [seen EXCEPT ![w] = have[org[w]]]
    /\ quiet' = [quiet EXCEPT ![w] = TRUE]
    /\ Goto(w, "join")
    /\ UNCHANGED <<outsideVars, caches, plans, lock, todo, org, approved, plan,
                   failed, auditVars, expired, run, spent, blind, heldAll,
                   outside>>

\* Faulty variant: a failed run keeps its status.
FinishForgotten(w, ok) ==
    run' = IF w \in Runners /\ ok THEN [run EXCEPT ![w] = "succeeded"] ELSE run

\* The status an asynchronous run ends with.
Finish(w, ok) ==
    run' = IF w \in Runners
           THEN [run EXCEPT ![w] = IF ok THEN "succeeded" ELSE "failed"]
           ELSE run

\* Faulty variant: an early return skips the Unlock.
UnlockOnSuccess(w, ok) ==
    lock' = IF w \in Operators /\ ok THEN Free ELSE lock

\* The deferred Unlock of an apply; a pass keeps its lock until its end.
Unlock(w, ok) == lock' = IF w \in Operators THEN Free ELSE lock

\* How a goroutine is done with an organization: a pass goes to the next one,
\* a handler gives back the lock it holds and an asynchronous run gets its
\* status.  What it held in local variables is gone.
Leave(w, ok) ==
    /\ Goto(w, IF w \in Passes THEN "next" ELSE "idle")
    /\ Unlock(w, ok)
    /\ Finish(w, ok)
    /\ org' = [org EXCEPT ![w] = NoOrg]
    /\ approved' = [approved EXCEPT ![w] = NoPlan]
    /\ seen' = [seen EXCEPT ![w] = {}]
    /\ plan' = [plan EXCEPT ![w] = {}]
    /\ failed' = [failed EXCEPT ![w] = FALSE]
    /\ expired' = IF w \in Runners THEN expired \ {w} ELSE expired
    /\ quiet' = [quiet EXCEPT ![w] = FALSE]
    /\ blind' = [blind EXCEPT ![w] = FALSE]
    /\ UNCHANGED todo

\* A read fails, a guard refuses the plan, or no writer can be built.
ComputeFails(w) ==
    /\ pc[w] \in {"read", "join"}
    /\ Leave(w, FALSE)
    /\ UNCHANGED <<outsideVars, caches, plans, auditVars, spent, heldAll,
                   outside>>

\* The rendered members: while its last fetch failed a source lets nobody be
\* removed, and before its first answer it has nobody to add either.
Desired(w) ==
    LET o == org[w]
    IN  IF o \in healthy THEN view[o] ELSE view[o] \union seen[w]

\* Faulty variant: execute the stored plan without recomputing it.
FreshFromStore(w) ==
    IF w \in Operators THEN approved[w].actions ELSE Diff(Desired(w), seen[w])

Fresh(w) == Diff(Desired(w), seen[w])

\* Faulty variant: the plan is stored without its organization.
StoredUnnamed(w) == [org |-> NoOrg, actions |-> Fresh(w)]

Stored(w) == [org |-> org[w], actions |-> Fresh(w)]

StorePlan(w) ==
    /\ w \in Planners
    /\ pc[w] = "join"
    /\ plans' = plans \union {Stored(w)}
    /\ Leave(w, TRUE)
    /\ UNCHANGED <<outsideVars, caches, auditVars, spent, heldAll, outside>>

StartExecute(w, actions) ==
    /\ plan' = [plan EXCEPT ![w] = actions]
    /\ failed' = [failed EXCEPT ![w] = FALSE]
    /\ Goto(w, "exec")

\* Faulty variant: any plan of the organization will do.
MatchesOrgOnly(w, fresh) == approved[w].org = org[w]

Matches(w, fresh) == approved[w] = [org |-> org[w], actions |-> fresh]

\* apply and applyStreaming: execute on an exact match of the hash.
Verify(w) ==
    /\ w \in Operators
    /\ pc[w] = "join"
    /\ Matches(w, Fresh(w))
    /\ StartExecute(w, Fresh(w))
    /\ UNCHANGED <<outsideVars, caches, plans, lock, todo, org, approved, seen,
                   auditVars, expired, run, memoVars, outside>>

\* Drift: refused.  Only the synchronous path stores the fresh plan.
Drift(w) ==
    /\ w \in Operators
    /\ pc[w] = "join"
    /\ ~Matches(w, Fresh(w))
    /\ plans' = IF w \in Appliers
                THEN plans \union {Stored(w)}
                ELSE plans
    /\ Leave(w, FALSE)
    /\ UNCHANGED <<outsideVars, caches, auditVars, spent, heldAll, outside>>

\* Faulty variant: the pause is not looked at.
GoUnpaused(w, pauseRead, overrideRead) ==
    /\ IF overrideRead THEN Enabled(org[w]) ELSE ConfigEnabled[org[w]]
    /\ Fresh(w) # {}

\* reconcileOrg: pause and enablement are read after the plan is computed.
\* An unreadable pause reads as "not paused", an unreadable override as the
\* configured default.
Go(w, pauseRead, overrideRead) ==
    /\ IF overrideRead THEN Enabled(org[w]) ELSE ConfigEnabled[org[w]]
    /\ ~(pauseRead /\ paused[org[w]])
    /\ Fresh(w) # {}

Gate(w) ==
    /\ w \in Reconcilers
    /\ pc[w] = "join"
    /\ \E pauseRead, overrideRead \in BOOLEAN :
        /\ w \in expired => ~pauseRead /\ ~overrideRead
        /\ \/ /\ Go(w, pauseRead, overrideRead)
              /\ StartExecute(w, Fresh(w))
              /\ blind' = [blind EXCEPT ![w] = ~pauseRead \/ ~overrideRead]
              /\ UNCHANGED <<lock, run, expired, todo, org, approved, seen, quiet>>
           \/ ~Go(w, pauseRead, overrideRead) /\ Leave(w, TRUE)
    /\ UNCHANGED <<outsideVars, caches, plans, auditVars, spent, heldAll,
                   outside>>

\* sweepOrg: the removals-only document, whatever the control store says.
Sweep(w) ==
    /\ w \in Sweepers
    /\ pc[w] = "join"
    /\ LET removing == {a \in Fresh(w) : IsRemoval(a)}
       IN  \/ /\ removing # {}
              /\ StartExecute(w, removing)
              /\ UNCHANGED <<lock, run, expired, todo, org, approved, seen,
                             quiet, blind>>
           \/ removing = {} /\ Leave(w, TRUE)
    /\ UNCHANGED <<outsideVars, caches, plans, auditVars, spent, heldAll,
                   outside>>

-----------------------------------------------------------------------------
(* Execute and record.                                                     *)

Touched(o) == spent' = {h \in spent : h.org # o}

\* Whoever writes owes the organization a record, whatever became of the last.
Write(w, a) ==
    /\ have' = [have EXCEPT ![org[w]] = Perform(a, @)]
    /\ written' = [written EXCEPT ![w] = @ \union {a}]
    /\ unfiled' = unfiled \union {org[w]}
    /\ lost' = lost \ {org[w]}
    /\ Touched(org[w])

NoWrite == UNCHANGED <<have, spent, auditVars>>

ExecuteOne(w) ==
    /\ pc[w] = "exec"
    /\ w \notin expired
    /\ \E a \in NextActions(plan[w]) :
        /\ Write(w, a)
        /\ plan' = [plan EXCEPT ![w] = @ \ {a}]
    /\ UNCHANGED <<paused, override, caches, plans, lock, pc, todo, org,
                   approved, seen, failed, expired, run, quiet, blind,
                   heldAll, outside>>

\* Faulty variant: the error returns before the record.
ExecuteFailsUnrecorded(w) ==
    /\ pc[w] = "exec"
    /\ \E a \in NextActions(plan[w]) : Write(w, a) \/ NoWrite
    /\ Leave(w, FALSE)
    /\ UNCHANGED <<paused, override, caches, plans, heldAll, outside>>

\* The first error ends the plan.  A request that timed out may have been
\* carried out by GitHub all the same.
ExecuteFails(w) ==
    /\ pc[w] = "exec"
    /\ \E a \in NextActions(plan[w]) : Write(w, a) \/ NoWrite
    /\ failed' = [failed EXCEPT ![w] = TRUE]
    /\ Goto(w, "record")
    /\ UNCHANGED <<paused, override, caches, plans, lock, todo, org,
                   approved, seen, plan, expired, run, quiet, blind,
                   heldAll, outside>>

ExecuteDone(w) ==
    /\ pc[w] = "exec"
    /\ plan[w] = {}
    /\ Goto(w, "record")
    /\ spent' = IF w \in Operators /\ quiet[w] THEN spent \union {approved[w]}
                                            ELSE spent
    /\ UNCHANGED <<outsideVars, caches, plans, lock, localVars, auditVars,
                   expired, run, quiet, blind, heldAll, outside>>

Covered(w) == {org[w] : a \in written[w]}

\* record, on the goroutine's own context.  The put covers the whole run, or
\* fails, puts nothing on record and is answered and logged as a lost record;
\* either way the run is over and its failure to be recorded fails nothing.
Record(w) ==
    /\ pc[w] = "record"
    /\ \/ /\ w \notin expired
          /\ unfiled' = unfiled \ Covered(w)
          /\ UNCHANGED lost
       \/ /\ w \in expired \/ ~SinkUp
          /\ lost' = lost \union Covered(w)
          /\ UNCHANGED unfiled
    /\ written' = [written EXCEPT ![w] = {}]
    /\ Leave(w, ~failed[w])
    /\ UNCHANGED <<outsideVars, caches, plans, spent, heldAll, outside>>

-----------------------------------------------------------------------------
(* Outside the broker.                                                     *)

\* Somebody edits the organization in GitHub itself.
GitHubChanges(o) ==
    /\ Outside
    /\ \E m \in SUBSET Logins : m # have[o] /\ have' = [have EXCEPT ![o] = m]
    /\ Touched(o)
    /\ quiet' = [w \in Workers |-> quiet[w] /\ org[w] # o]
    /\ UNCHANGED <<paused, override, caches, plans, lock, pc, localVars,
                   auditVars, expired, run, blind, heldAll>>

\* The console's SetPaused and SetReconcileEnabled.
ControlChanges(o) ==
    /\ Outside
    /\ o \in Switched
    /\ \/ /\ paused' = [paused EXCEPT ![o] = ~@]
          /\ UNCHANGED override
       \/ /\ \E v \in {"on", "off"} : override' = [override EXCEPT ![o] = v]
          /\ UNCHANGED paused
    /\ heldAll' = {x \in heldAll : Held(x)'}
    /\ UNCHANGED <<have, caches, plans, lock, pc, localVars, auditVars,
                   expired, run, quiet, spent, blind>>

\* planTTL: an hour after its last Put the store no longer serves a plan.
PlanExpires ==
    /\ \E h \in plans : plans' = plans \ {h}
    /\ UNCHANGED <<outsideVars, caches, lock, pc, localVars, auditVars, expired,
                   run, memoVars, outside>>

\* A deadline (asynchronous runs, triggered passes) or a shutdown.
ContextDone(w) ==
    /\ w \in Runners \union Passes
    /\ pc[w] # "idle"
    /\ w \notin expired
    /\ expired' = expired \union {w}
    /\ UNCHANGED <<outsideVars, caches, plans, lock, pc, localVars, auditVars,
                   run, memoVars, outside>>

\* The process restarts: everything it kept in memory is gone, and with it the
\* record of a run it had in hand, which nothing will file or report.
Restart ==
    /\ Outside
    /\ view' = [o \in Orgs |-> {}]
    /\ healthy' = {}
    /\ plans' = {}
    /\ lock' = Free
    /\ pc' = [w \in Workers |-> "idle"]
    /\ todo' = [w \in Passes |-> {}]
    /\ org' = [w \in Workers |-> NoOrg]
    /\ approved' = [w \in Workers |-> NoPlan]
    /\ seen' = [w \in Workers |-> {}]
    /\ plan' = [w \in Workers |-> {}]
    /\ written' = [w \in Workers |-> {}]
    /\ failed' = [w \in Workers |-> FALSE]
    /\ expired' = {}
    /\ run' = [w \in Runners |-> "none"]
    /\ quiet' = [w \in Workers |-> FALSE]
    /\ blind' = [w \in Workers |-> FALSE]
    /\ unfiled' = unfiled \intersect lost
    /\ UNCHANGED <<outsideVars, lost, spent, heldAll>>

Compute(w) == Refresh(w) \/ ReadScoped(w) \/ ComputeFails(w)

Decide(w) == StorePlan(w) \/ Verify(w) \/ Drift(w) \/ Gate(w) \/ Sweep(w)

Execute(w) == ExecuteOne(w) \/ ExecuteFails(w) \/ ExecuteDone(w) \/ Record(w)

Work(w) == Compute(w) \/ Decide(w) \/ Execute(w) \/ NextOrg(w) \/ PassEnd(w)

Environment ==
    \/ \E o \in Orgs :
        GitHubChanges(o) \/ ControlChanges(o)
    \/ PlanExpires
    \/ Restart
    \/ \E w \in Workers : ContextDone(w)

Next ==
    \/ \E w \in Workers : PlanRequest(w) \/ ApplyRequest(w) \/ PassStart(w)
    \/ \E w \in Workers : Lock(w) \/ Work(w)
    \/ Environment

Spec == Init /\ [][Next]_vars

\* A goroutine that can go on does (its network calls return), and a blocked
\* Lock() gets its turn: sync.Mutex hands over in FIFO order once a waiter
\* has starved for a millisecond.  Nothing obliges a request to come, a
\* ticker to fire or the outside to change.
Fairness == \A w \in Workers : WF_vars(Work(w)) /\ SF_vars(Lock(w))

FairSpec == Spec /\ Fairness

-----------------------------------------------------------------------------
(* Properties.                                                             *)

TypeOK ==
    /\ have \in [Orgs -> SUBSET Logins]
    /\ paused \in [Orgs -> BOOLEAN]
    /\ override \in [Orgs -> {"unset", "on", "off"}]
    /\ view \in [Orgs -> SUBSET Logins]
    /\ healthy \subseteq Orgs
    /\ plans \subseteq PlanHash
    /\ lock \in Workers \union {Free}
    /\ pc \in [Workers -> {"idle", "wait", "open", "next", "refresh", "read",
                           "join", "exec", "record"}]
    /\ todo \in [Passes -> SUBSET Orgs]
    /\ org \in [Workers -> Orgs \union {NoOrg}]
    /\ approved \in [Workers -> PlanHash \union {NoPlan}]
    /\ seen \in [Workers -> SUBSET Logins]
    /\ plan \in [Workers -> SUBSET Action]
    /\ written \in [Workers -> SUBSET Action]
    /\ failed \in [Workers -> BOOLEAN]
    /\ expired \subseteq Workers
    /\ run \in [Runners -> {"none", "running", "succeeded", "failed"}]
    /\ lost \subseteq Orgs
    /\ unfiled \subseteq Orgs
    /\ quiet \in [Workers -> BOOLEAN]
    /\ spent \subseteq PlanHash
    /\ blind \in [Workers -> BOOLEAN]
    /\ heldAll \subseteq Orgs
    /\ outside \in 0 .. MaxOutside

\* What the members cur become when the actions are carried out.
After(cur, actions) ==
    LET removed == {a \in actions : IsRemoval(a)}
        added == actions \ removed
    IN  (cur \union {a.login : a \in added}) \ {a.login : a \in removed}

\* "One writer at a time, always" (RunReconcile), as a writer feels it: from
\* the locked ReadScoped to the audit record, an organization that nobody
\* outside touches changes by the writer's own writes and no others.
LockedReadStaysTrue ==
    \A w \in Workers \ Planners :
        pc[w] \in {"join", "exec", "record"} /\ quiet[w]
            => have[org[w]] = After(seen[w], written[w])

\* "The operator approves exactly what executes, never approximately": what
\* an apply has written and what it has left to write make up the plan behind
\* the approved hash, on the organization that plan was computed for.
ApprovedExactly ==
    \A w \in Operators :
        pc[w] \in {"exec", "record"}
            => /\ approved[w].org = org[w]
               /\ approved[w].actions = written[w] \union plan[w]

\* Two operators with the same reviewed plan, one execution: once a plan has
\* been applied in full, its hash executes again only after somebody else has
\* changed the organization - whatever the caches say in the meantime.
NoDoubleApply ==
    \A w \in Operators :
        pc[w] = "exec" /\ plan[w] # {} => approved[w] \notin spent

InHand(w) == lock = w /\ pc[w] \in {"exec", "record"}

\* Every path that wrote to GitHub reaches the audit trail: a run that wrote to
\* an organization and is on no record has been reported as lost, or is in the
\* hands of the goroutine that holds the lock and is executing or about to
\* record - whatever failed, was refused or expired in between.
EveryWriteAccounted ==
    /\ \A w \in Workers : written[w] # {} => InHand(w)
    /\ unfiled \ lost \subseteq UNION {Covered(w) : w \in {v \in Workers : InHand(v)}}

\* A pause or disablement that was in force when a reconcile pass began, and
\* has not been lifted since, keeps that pass from writing - whatever the
\* interleaving, provided the control store answers at the gate.
HeldOrgUntouched ==
    \A w \in Reconcilers :
        pc[w] = "exec" /\ ~blind[w] => org[w] \notin heldAll

\* An asynchronous run that was accepted ends: the console's transcript is
\* never left at "running", unless the process restarts and forgets the run.
EveryRunEnds == \A w \in Runners : run[w] = "running" ~> run[w] # "running"

\* No path keeps the apply lock.
LockComesBack == lock # Free ~> lock = Free
=============================================================================
