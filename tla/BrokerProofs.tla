---------------------------- MODULE BrokerProofs ----------------------------
(***************************************************************************)
(* What the broker's lock buys, for every set of organizations, logins and *)
(* goroutines.  IInv is the inductive strengthening the safety properties  *)
(* of Broker rest on: who holds the lock, what a plan under execution may  *)
(* contain, and what a hash that was applied says about the organization.  *)
(***************************************************************************)
EXTENDS Broker, TLAPS

\* The organization of a goroutine that has picked one, and the hash of an
\* apply that is under way.
OrgPicked ==
    /\ \A w \in Workers :
        pc[w] \in {"wait", "refresh", "read", "join", "exec", "record"}
            => org[w] \in Orgs
    /\ \A w \in Operators : pc[w] # "idle" => approved[w] \in PlanHash

Typed == TypeOK /\ OrgPicked

\* applyMu: whoever is past its Lock() or TryLock() holds it, a plan request
\* never takes it, and only an apply blocks on it.
LockDiscipline ==
    /\ \A w \in Operators \union Passes : pc[w] \notin {"idle", "wait"} => lock = w
    /\ \A w \in Planners : pc[w] \in {"idle", "refresh", "read", "join"}
    /\ \A w \in Workers : pc[w] = "wait" => w \in Operators

\* Only an execution under way has actions left, or writes nobody recorded.
WorkInFlight ==
    \A w \in Workers :
        pc[w] \notin {"exec", "record"} => written[w] = {} /\ plan[w] = {}

\* What sets one member list apart from another is what a plan changes in it.
InEffect(a, cur) == IF IsRemoval(a) THEN a.login \notin cur ELSE a.login \in cur

\* A plan never does what the members it was computed from already show.
PlanSplits ==
    \A w \in Workers : \A a \in written[w] \union plan[w] : ~InEffect(a, seen[w])

\* A hash counts as spent only while all of its actions are in effect.
SpentInEffect ==
    \A h \in spent : \A a \in h.actions : InEffect(a, have[h.org])

\* Once somebody else has touched the organization, none of its hashes does.
TouchedUnspends ==
    \A w \in Operators \union Passes :
        pc[w] \in {"join", "exec", "record"} /\ ~quiet[w]
            => \A h \in spent : h.org # org[w]

\* What was held ever since the pass began is held.
HeldAllHeld == \A o \in heldAll : Held(o)

\* Whoever is owed a record, or the report that there is none, is in the hands
\* of the goroutine that wrote.
OwedInHand ==
    \A o \in unfiled \ lost : \E w \in Workers : org[w] = o /\ written[w] # {}

IInv ==
    /\ Typed
    /\ LockDiscipline
    /\ WorkInFlight
    /\ PlanSplits
    /\ LockedReadStaysTrue
    /\ ApprovedExactly
    /\ SpentInEffect
    /\ TouchedUnspends
    /\ NoDoubleApply
    /\ HeldAllHeld
    /\ HeldOrgUntouched
    /\ OwedInHand

-----------------------------------------------------------------------------
(* Typing.                                                                 *)

\* A plan over known logins is a set of known actions.
LEMMA DiffType ==
    ASSUME NEW des \in SUBSET Logins, NEW cur \in SUBSET Logins
    PROVE  Diff(des, cur) \in SUBSET Action
    BY DEF Diff, Action

\* Whatever a goroutine joins, the fresh plan is one the store can hold.
LEMMA FreshType ==
    ASSUME TypeOK, NEW w \in Workers, org[w] \in Orgs
    PROVE  Fresh(w) \in SUBSET Action
<1>1. Desired(w) \in SUBSET Logins
    BY DEF Desired, TypeOK
<1>2. seen[w] \in SUBSET Logins
    BY DEF TypeOK
<1> QED  BY <1>1, <1>2, DiffType DEF Fresh

\* The initial state is well typed.
LEMMA InitTyped == Init => Typed
<1> SUFFICES ASSUME Init PROVE Typed
    OBVIOUS
<1>1. NoPlan \in PlanHash \union {NoPlan}
    OBVIOUS
<1> QED  BY <1>1, ConstantTypes DEF Init, Typed, TypeOK, OrgPicked, Workers, Operators, Passes

\* Leaving an organization resets a goroutine's locals to typed values.
LEMMA LeaveTyped ==
    ASSUME Typed, NEW w \in Workers, NEW ok, Leave(w, ok)
    PROVE  /\ pc' \in [Workers -> {"idle", "wait", "open", "next", "refresh",
                                    "read", "join", "exec", "record"}]
           /\ lock' \in Workers \union {Free}
           /\ run' \in [Runners -> {"none", "running", "succeeded", "failed"}]
           /\ org' \in [Workers -> Orgs \union {NoOrg}]
           /\ approved' \in [Workers -> PlanHash \union {NoPlan}]
           /\ seen' \in [Workers -> SUBSET Logins]
           /\ plan' \in [Workers -> SUBSET Action]
           /\ failed' \in [Workers -> BOOLEAN]
           /\ expired' \subseteq Workers
           /\ quiet' \in [Workers -> BOOLEAN]
           /\ blind' \in [Workers -> BOOLEAN]
           /\ todo' \in [Passes -> SUBSET Orgs]
           /\ OrgPicked'
    BY KindsAreDisjoint DEF Typed, TypeOK, Leave, Unlock, Finish, Goto, OrgPicked, Workers, Operators

\* Every step keeps the types, and the organization of who has picked one.
LEMMA StepTyped ==
    ASSUME Typed, [Next]_vars
    PROVE  Typed'
<1> USE DEF Typed, TypeOK, OrgPicked, vars, outsideVars, caches, localVars,
            auditVars, memoVars
<1>1. CASE UNCHANGED vars
    BY <1>1
<1>2. ASSUME NEW w \in Workers, PlanRequest(w) PROVE Typed'
    BY <1>2, ConstantTypes, KindsAreDisjoint DEF PlanRequest, Goto, Outside
<1>3. ASSUME NEW w \in Workers, ApplyRequest(w) PROVE Typed'
    BY <1>3, ConstantTypes DEF ApplyRequest, Goto, PlanHash
<1>4. ASSUME NEW w \in Workers, PassStart(w) PROVE Typed'
    BY <1>4, KindsAreDisjoint DEF PassStart, Goto, Operators
<1>5. ASSUME NEW w \in Workers, Lock(w) PROVE Typed'
    BY <1>5 DEF Lock, Goto
<1>6. ASSUME NEW w \in Workers, Work(w) PROVE Typed'
  <2>1. CASE Refresh(w)
    BY <2>1 DEF Refresh, Goto
  <2>2. CASE ReadScoped(w)
    BY <2>2 DEF ReadScoped, Goto
  <2>3. CASE ComputeFails(w)
    BY <2>3, LeaveTyped DEF ComputeFails
  <2>4. CASE StorePlan(w)
    <3>1. plans' \subseteq PlanHash
      BY <2>4, FreshType DEF StorePlan, Stored, PlanHash
    <3> QED  BY <2>4, <3>1, LeaveTyped DEF StorePlan
  <2>5. CASE Verify(w)
    BY <2>5, FreshType DEF Verify, StartExecute, Goto
  <2>6. CASE Drift(w)
    <3>1. plans' \subseteq PlanHash
      BY <2>6, FreshType DEF Drift, Stored, PlanHash
    <3> QED  BY <2>6, <3>1, LeaveTyped DEF Drift
  <2>7. CASE Gate(w)
    <3>1. CASE Leave(w, TRUE)
      BY <2>7, <3>1, LeaveTyped DEF Gate
    <3>2. CASE ~Leave(w, TRUE)
      <4>1. Fresh(w) \in SUBSET Action
        BY <2>7, FreshType DEF Gate
      <4>2. /\ StartExecute(w, Fresh(w))
            /\ blind' \in [Workers -> BOOLEAN]
            /\ UNCHANGED <<lock, run, expired, todo, org, approved, seen, quiet>>
        BY <2>7, <3>2 DEF Gate
      <4> QED  BY <2>7, <4>1, <4>2 DEF Gate, StartExecute, Goto
    <3> QED  BY <3>1, <3>2
  <2>8. CASE Sweep(w)
    <3>1. CASE Leave(w, TRUE)
      BY <2>8, <3>1, LeaveTyped DEF Sweep
    <3>2. CASE ~Leave(w, TRUE)
      <4>1. Fresh(w) \in SUBSET Action
        BY <2>8, FreshType DEF Sweep
      <4>2. /\ StartExecute(w, {a \in Fresh(w) : IsRemoval(a)})
            /\ UNCHANGED <<lock, run, expired, todo, org, approved, seen, quiet,
                           blind>>
        BY <2>8, <3>2 DEF Sweep
      <4>3. {a \in Fresh(w) : IsRemoval(a)} \in SUBSET Action
        BY <4>1
      <4> QED  BY <2>8, <4>2, <4>3 DEF Sweep, StartExecute, Goto
    <3> QED  BY <3>1, <3>2
  <2>9. CASE ExecuteOne(w)
    BY <2>9 DEF ExecuteOne, Write, Touched, Perform, NextActions, Action
  <2>10. CASE ExecuteFails(w)
    <3>1. PICK a \in plan[w] : Write(w, a) \/ NoWrite
      BY <2>10 DEF ExecuteFails, NextActions
    <3>2. CASE Write(w, a)
      BY <2>10, <3>2 DEF ExecuteFails, Write, Touched, Perform, Action, Goto
    <3>3. CASE NoWrite
      BY <2>10, <3>3 DEF ExecuteFails, NoWrite, Goto
    <3> QED  BY <3>1, <3>2, <3>3
  <2>11. CASE ExecuteDone(w)
    BY <2>11 DEF ExecuteDone, Goto
  <2>12. CASE Record(w)
    <3>1. Leave(w, ~failed[w])
      BY <2>12 DEF Record
    <3>2. lost' \subseteq Orgs /\ unfiled' \subseteq Orgs
      BY <2>12 DEF Record, Covered
    <3> QED  BY <2>12, <3>1, <3>2, LeaveTyped DEF Record
  <2>13. CASE NextOrg(w)
    BY <2>13 DEF NextOrg, Goto
  <2>14. CASE PassEnd(w)
    BY <2>14 DEF PassEnd, Goto
  <2> QED
    BY <1>6, <2>1, <2>2, <2>3, <2>4, <2>5, <2>6, <2>7, <2>8, <2>9, <2>10,
       <2>11, <2>12, <2>13, <2>14 DEF Work, Compute, Decide, Execute
<1>7. ASSUME Environment PROVE Typed'
  <2>1. ASSUME NEW o \in Orgs, GitHubChanges(o) PROVE Typed'
    BY <2>1, ConstantTypes DEF GitHubChanges, Outside, Touched
  <2>2. ASSUME NEW o \in Orgs, ControlChanges(o) PROVE Typed'
    <3>1. /\ paused' \in [Orgs -> BOOLEAN]
          /\ override' \in [Orgs -> {"unset", "on", "off"}]
          /\ heldAll' \subseteq Orgs
      BY <2>2 DEF ControlChanges
    <3> QED  BY <2>2, <3>1, ConstantTypes DEF ControlChanges, Outside
  <2>3. CASE PlanExpires
    BY <2>3 DEF PlanExpires
  <2>4. CASE Restart
    <3>1. OrgPicked'
      BY <2>4 DEF Restart, Operators, Workers
    <3>2. TypeOK'
      BY <2>4, ConstantTypes DEF Restart, Outside
    <3> QED  BY <3>1, <3>2
  <2>5. ASSUME NEW w \in Workers, ContextDone(w) PROVE Typed'
    BY <2>5 DEF ContextDone
  <2> QED  BY <1>7, <2>1, <2>2, <2>3, <2>4, <2>5 DEF Environment
<1> QED  BY <1>1, <1>2, <1>3, <1>4, <1>5, <1>6, <1>7 DEF Next

\* Every value the broker keeps has its type, always.
THEOREM TypeCorrect == Spec => []TypeOK
<1>1. Init => Typed
    BY InitTyped
<1>2. Typed /\ [Next]_vars => Typed'
    BY StepTyped
<1>3. Typed => TypeOK
    BY DEF Typed
<1> QED  BY <1>1, <1>2, <1>3, PTL DEF Spec

-----------------------------------------------------------------------------
(* The lock.                                                               *)

\* The lock passes from one goroutine to the next only through Free.
LEMMA StepLocks ==
    ASSUME Typed, LockDiscipline, [Next]_vars
    PROVE  LockDiscipline'
<1> USE KindsAreDisjoint, ConstantTypes
        DEF Typed, TypeOK, LockDiscipline, Workers, Operators, Passes
<1>1. CASE UNCHANGED vars
    BY <1>1 DEF vars, outsideVars, caches, localVars, auditVars, memoVars
<1>2. ASSUME NEW w \in Workers,
             PlanRequest(w) \/ ApplyRequest(w) \/ PassStart(w) \/ Lock(w)
      PROVE  LockDiscipline'
  <2>1. CASE w \in Planners /\ Goto(w, "refresh") /\ UNCHANGED lock
    BY <2>1 DEF Goto
  <2>2. CASE w \in Operators /\ Goto(w, "wait") /\ UNCHANGED lock
    BY <2>2 DEF Goto
  <2>3. ASSUME w \in Operators \union Passes, lock = Free, lock' = w,
               NEW label \in {"open", "refresh"}, Goto(w, label)
        PROVE  LockDiscipline'
    BY <2>3 DEF Goto
  <2> QED
    BY <1>2, <2>1, <2>2, <2>3 DEF PlanRequest, ApplyRequest, PassStart, Lock
<1>3. ASSUME NEW w \in Workers, Refresh(w) \/ ReadScoped(w) \/ NextOrg(w)
      PROVE  LockDiscipline'
    BY <1>3 DEF Refresh, ReadScoped, NextOrg, Goto
<1>4. ASSUME NEW w \in Workers,
             ComputeFails(w) \/ StorePlan(w) \/ Drift(w) \/ Record(w)
      PROVE  LockDiscipline'
  <2>1. /\ pc[w] \in {"read", "join", "record"}
        /\ Goto(w, IF w \in Passes THEN "next" ELSE "idle")
        /\ lock' = IF w \in Operators THEN Free ELSE lock
    BY <1>4 DEF ComputeFails, StorePlan, Drift, Record, Leave, Unlock
  <2> QED  BY <2>1 DEF Goto
<1>5. ASSUME NEW w \in Workers, Gate(w) \/ Sweep(w) \/ Verify(w)
      PROVE  LockDiscipline'
  <2>1. /\ w \notin Planners
        /\ pc[w] = "join"
        /\ \/ Goto(w, "exec") /\ UNCHANGED lock
           \/ /\ Goto(w, IF w \in Passes THEN "next" ELSE "idle")
              /\ lock' = IF w \in Operators THEN Free ELSE lock
    <3>1. Leave(w, TRUE) => /\ Goto(w, IF w \in Passes THEN "next" ELSE "idle")
                            /\ lock' = IF w \in Operators THEN Free ELSE lock
      BY DEF Leave, Unlock
    <3> QED  BY <1>5, <3>1 DEF Gate, Sweep, Verify, StartExecute
  <2> QED  BY <2>1 DEF Goto
<1>6. ASSUME NEW w \in Workers, ExecuteOne(w) \/ ExecuteFails(w) \/ ExecuteDone(w)
      PROVE  LockDiscipline'
    BY <1>6 DEF ExecuteOne, ExecuteFails, ExecuteDone, Goto
<1>7. ASSUME NEW w \in Workers, PassEnd(w) PROVE LockDiscipline'
    BY <1>7 DEF PassEnd, Goto
<1>8. ASSUME Environment PROVE LockDiscipline'
  <2>1. CASE Restart
    BY <2>1 DEF Restart
  <2>2. CASE ~Restart
    BY <1>8, <2>2 DEF Environment, GitHubChanges, ControlChanges, PlanExpires, ContextDone
  <2> QED  BY <2>1, <2>2
<1> QED
    BY <1>1, <1>2, <1>3, <1>4, <1>5, <1>6, <1>7, <1>8
       DEF Next, Work, Compute, Decide, Execute

\* Plans are executed and written off between Verify and Record only.
LEMMA StepInFlight ==
    ASSUME Typed, WorkInFlight, [Next]_vars
    PROVE  WorkInFlight'
<1> USE DEF Typed, TypeOK, WorkInFlight
<1>1. CASE UNCHANGED vars
    BY <1>1 DEF vars, outsideVars, caches, localVars, auditVars, memoVars
<1>2. ASSUME NEW w \in Workers,
             PlanRequest(w) \/ ApplyRequest(w) \/ PassStart(w) \/ Lock(w)
      PROVE  WorkInFlight'
    BY <1>2 DEF PlanRequest, ApplyRequest, PassStart, Lock, Goto, localVars, auditVars
<1>3. ASSUME NEW w \in Workers,
             Refresh(w) \/ ReadScoped(w) \/ NextOrg(w) \/ PassEnd(w)
      PROVE  WorkInFlight'
    BY <1>3 DEF Refresh, ReadScoped, NextOrg, PassEnd, Goto, localVars, auditVars
<1>4. ASSUME NEW w \in Workers,
             ComputeFails(w) \/ StorePlan(w) \/ Drift(w) \/ Record(w)
      PROVE  WorkInFlight'
  <2>1. /\ \E l \in {"next", "idle"} : Goto(w, l)
        /\ plan' = [plan EXCEPT ![w] = {}]
        /\ \/ pc[w] \in {"read", "join"} /\ UNCHANGED written
           \/ written' = [written EXCEPT ![w] = {}]
    BY <1>4 DEF ComputeFails, StorePlan, Drift, Record, Leave, auditVars
  <2> QED  BY <2>1 DEF Goto
<1>5. ASSUME NEW w \in Workers, Gate(w) \/ Sweep(w) \/ Verify(w)
      PROVE  WorkInFlight'
  <2>1. /\ pc[w] = "join"
        /\ UNCHANGED written
        /\ \/ /\ Goto(w, "exec")
              /\ \E actions : plan' = [plan EXCEPT ![w] = actions]
           \/ Leave(w, TRUE)
    BY <1>5 DEF Gate, Sweep, Verify, StartExecute, auditVars
  <2> QED  BY <2>1 DEF Goto, Leave
<1>6. ASSUME NEW w \in Workers, ExecuteOne(w) \/ ExecuteFails(w) \/ ExecuteDone(w)
      PROVE  WorkInFlight'
    BY <1>6 DEF ExecuteOne, ExecuteFails, ExecuteDone, NoWrite, Write, Goto,
                localVars, auditVars
<1>7. ASSUME Environment PROVE WorkInFlight'
  <2>1. CASE Restart
    BY <2>1 DEF Restart
  <2>2. CASE ~Restart
    BY <1>7, <2>2 DEF Environment, GitHubChanges, ControlChanges, PlanExpires,
                      ContextDone, localVars, auditVars
  <2> QED  BY <2>1, <2>2
<1> QED
    BY <1>1, <1>2, <1>3, <1>4, <1>5, <1>6, <1>7
       DEF Next, Work, Compute, Decide, Execute

-----------------------------------------------------------------------------
(* Plans and members.                                                      *)

\* A plan holds only what the members it was computed from do not show.
LEMMA DiffSplits ==
    ASSUME NEW des \in SUBSET Logins, NEW cur \in SUBSET Logins,
           NEW a \in Diff(des, cur)
    PROVE  ~InEffect(a, cur)
    BY DEF Diff, InEffect, IsRemoval

\* The members expected after one more action are those of performing it.
LEMMA AfterOneMore ==
    ASSUME NEW cur \in SUBSET Logins, NEW actions \in SUBSET Action,
           NEW a \in Action, \A b \in actions \union {a} : ~InEffect(b, cur)
    PROVE  After(cur, actions \union {a}) = Perform(a, After(cur, actions))
<1> DEFINE removed == {b \in actions : IsRemoval(b)}
<1> DEFINE added == actions \ removed
<1> USE DEF InEffect, IsRemoval, Action
<1>1. After(cur, actions)
        = (cur \union {b.login : b \in added}) \ {b.login : b \in removed}
    BY DEF After
<1>2. CASE IsRemoval(a)
  <2>1. {b \in actions \union {a} : IsRemoval(b)} = removed \union {a}
    BY <1>2
  <2>2. (actions \union {a}) \ (removed \union {a}) = added
    BY <1>2
  <2>3. {b.login : b \in removed \union {a}}
          = {b.login : b \in removed} \union {a.login}
    OBVIOUS
  <2>4. After(cur, actions \union {a})
          = (cur \union {b.login : b \in added})
              \ ({b.login : b \in removed} \union {a.login})
    BY <2>1, <2>2, <2>3 DEF After
  <2> HIDE DEF removed, added
  <2> QED  BY <1>1, <1>2, <2>4 DEF Perform
<1>3. CASE ~IsRemoval(a)
  <2>1. {b \in actions \union {a} : IsRemoval(b)} = removed
    BY <1>3
  <2>2. (actions \union {a}) \ removed = added \union {a}
    BY <1>3
  <2>3. {b.login : b \in added \union {a}}
          = {b.login : b \in added} \union {a.login}
    OBVIOUS
  <2>4. After(cur, actions \union {a})
          = (cur \union {b.login : b \in added} \union {a.login})
              \ {b.login : b \in removed}
    BY <2>1, <2>2, <2>3 DEF After
  <2>5. a.login \notin {b.login : b \in removed}
    BY <1>3
  <2> HIDE DEF removed, added
  <2> QED  BY <1>1, <1>3, <2>4, <2>5 DEF Perform
<1> QED  BY <1>2, <1>3

\* After a plan, each of its actions is in effect.
LEMMA AfterInEffect ==
    ASSUME NEW cur \in SUBSET Logins, NEW actions \in SUBSET Action,
           \A b \in actions : ~InEffect(b, cur),
           NEW a \in actions
    PROVE  InEffect(a, After(cur, actions))
<1> DEFINE removed == {b \in actions : IsRemoval(b)}
<1> DEFINE added == actions \ removed
<1>1. After(cur, actions)
        = (cur \union {b.login : b \in added}) \ {b.login : b \in removed}
    BY DEF After
<1>2. CASE a \in removed
    BY <1>1, <1>2 DEF InEffect
<1>3. CASE a \in added
  <2>1. a.login \notin {b.login : b \in removed}
    BY <1>3 DEF InEffect, IsRemoval, Action
  <2> QED  BY <1>1, <1>3, <2>1 DEF InEffect
<1> QED  BY <1>2, <1>3

\* How a goroutine can come to execute: with nothing written yet, and with a
\* part of the plan it has just computed.
LEMMA StartSplits ==
    ASSUME Typed, WorkInFlight, NEW w \in Workers,
           Gate(w) \/ Sweep(w) \/ Verify(w), ~Leave(w, TRUE)
    PROVE  /\ w \notin Planners
           /\ pc[w] = "join"
           /\ Goto(w, "exec")
           /\ written[w] = {}
           /\ \E actions \in SUBSET Fresh(w) : plan' = [plan EXCEPT ![w] = actions]
           /\ \A a \in Fresh(w) : ~InEffect(a, seen[w])
           /\ UNCHANGED <<have, written, seen, org, approved, quiet, spent, heldAll>>
<1>1. pc[w] = "join"
    BY DEF Gate, Sweep, Verify
<1>2. Desired(w) \in SUBSET Logins /\ seen[w] \in SUBSET Logins
    BY <1>1 DEF Desired, Typed, TypeOK, OrgPicked
<1>3. \A a \in Fresh(w) : ~InEffect(a, seen[w])
    BY <1>2, DiffSplits DEF Fresh
<1>4. written[w] = {}
    BY <1>1 DEF WorkInFlight
<1>5. w \notin Planners
    BY KindsAreDisjoint DEF Gate, Sweep, Verify, Operators, Passes
<1>6. /\ Goto(w, "exec")
      /\ \E actions \in SUBSET Fresh(w) : plan' = [plan EXCEPT ![w] = actions]
      /\ UNCHANGED <<have, written, seen, org, approved, quiet, spent, heldAll>>
  <2>1. CASE Gate(w)
    BY <2>1 DEF Gate, StartExecute, outsideVars, auditVars
  <2>2. CASE Sweep(w)
    BY <2>2 DEF Sweep, StartExecute, outsideVars, auditVars
  <2>3. CASE Verify(w)
    BY <2>3 DEF Verify, StartExecute, outsideVars, auditVars, memoVars
  <2> QED  BY <2>1, <2>2, <2>3
<1> QED  BY <1>1, <1>3, <1>4, <1>5, <1>6

\* How it leaves an organization: with nothing in its hands.
LEMMA LeaveClears ==
    ASSUME Typed, WorkInFlight, NEW w \in Workers,
           \/ ComputeFails(w) \/ StorePlan(w) \/ Drift(w) \/ Record(w)
           \/ (Gate(w) \/ Sweep(w) \/ Verify(w)) /\ Leave(w, TRUE)
    PROVE  /\ Goto(w, IF w \in Passes THEN "next" ELSE "idle")
           /\ plan' = [plan EXCEPT ![w] = {}]
           /\ seen' = [seen EXCEPT ![w] = {}]
           /\ org' = [org EXCEPT ![w] = NoOrg]
           /\ approved' = [approved EXCEPT ![w] = NoPlan]
           /\ quiet' = [quiet EXCEPT ![w] = FALSE]
           /\ blind' = [blind EXCEPT ![w] = FALSE]
           /\ written' = [written EXCEPT ![w] = {}]
           /\ UNCHANGED <<have, paused, override, spent, heldAll>>
<1>1. /\ UNCHANGED <<have, paused, override, spent, heldAll>>
      /\ \E ok : Leave(w, ok)
    BY DEF ComputeFails, StorePlan, Drift, Record, Gate, Sweep, Verify,
           outsideVars, memoVars
<1>2. CASE Record(w)
    BY <1>1, <1>2 DEF Record, Leave
<1>3. CASE ~Record(w)
  <2>1. pc[w] \in {"read", "join"} /\ UNCHANGED written
    BY <1>3 DEF ComputeFails, StorePlan, Drift, Gate, Sweep, Verify, auditVars
  <2>2. written' = [written EXCEPT ![w] = {}]
    BY <2>1 DEF WorkInFlight, Typed, TypeOK
  <2> QED  BY <1>1, <2>2 DEF Leave
<1> QED  BY <1>2, <1>3

-----------------------------------------------------------------------------
(* Reads, plans and writes of one goroutine.                               *)

\* What a goroutine read, planned and wrote stays consistent.
LEMMA StepSplits ==
    ASSUME Typed, WorkInFlight, PlanSplits, [Next]_vars
    PROVE  PlanSplits'
<1> USE DEF Typed, TypeOK, PlanSplits
<1>1. CASE UNCHANGED vars
    BY <1>1 DEF vars, outsideVars, caches, localVars, auditVars, memoVars
<1>2. ASSUME NEW w \in Workers,
             PlanRequest(w) \/ ApplyRequest(w) \/ PassStart(w) \/ Lock(w)
      PROVE  PlanSplits'
    BY <1>2 DEF PlanRequest, ApplyRequest, PassStart, Lock, Goto, outsideVars,
                localVars, auditVars, memoVars
<1>3. ASSUME NEW w \in Workers, Refresh(w) \/ NextOrg(w) \/ PassEnd(w)
      PROVE  PlanSplits'
    BY <1>3 DEF Refresh, NextOrg, PassEnd, Goto, outsideVars, localVars,
                auditVars, memoVars
<1>4. ASSUME NEW w \in Workers, ReadScoped(w) PROVE PlanSplits'
  <2>1. written[w] = {} /\ plan[w] = {}
    BY <1>4 DEF ReadScoped, WorkInFlight
  <2> QED  BY <1>4, <2>1 DEF ReadScoped, auditVars
<1>5. ASSUME NEW w \in Workers,
             \/ ComputeFails(w) \/ StorePlan(w) \/ Drift(w) \/ Record(w)
             \/ (Gate(w) \/ Sweep(w) \/ Verify(w)) /\ Leave(w, TRUE)
      PROVE  PlanSplits'
  <2>1. /\ plan' = [plan EXCEPT ![w] = {}]
        /\ seen' = [seen EXCEPT ![w] = {}]
        /\ written' = [written EXCEPT ![w] = {}]
    BY <1>5, LeaveClears
  <2> QED  BY <2>1
<1>6. ASSUME NEW w \in Workers, Gate(w) \/ Sweep(w) \/ Verify(w), ~Leave(w, TRUE)
      PROVE  PlanSplits'
  <2>1. /\ written[w] = {}
        /\ \E actions \in SUBSET Fresh(w) : plan' = [plan EXCEPT ![w] = actions]
        /\ \A a \in Fresh(w) : ~InEffect(a, seen[w])
        /\ UNCHANGED <<written, seen>>
    BY <1>6, StartSplits
  <2> QED  BY <2>1
<1>7. ASSUME NEW w \in Workers, ExecuteOne(w) \/ ExecuteFails(w) \/ ExecuteDone(w)
      PROVE  PlanSplits'
  <2>1. /\ UNCHANGED seen
        /\ \A v \in Workers :
              written'[v] \union plan'[v] \subseteq written[v] \union plan[v]
    BY <1>7 DEF ExecuteOne, ExecuteFails, ExecuteDone, NoWrite, Write,
                NextActions, localVars, auditVars
  <2> QED  BY <2>1
<1>8. ASSUME Environment PROVE PlanSplits'
  <2>1. CASE Restart
    BY <2>1 DEF Restart
  <2>2. CASE ~Restart
    BY <1>8, <2>2 DEF Environment, GitHubChanges, ControlChanges, PlanExpires,
                      ContextDone, localVars, auditVars
  <2> QED  BY <2>1, <2>2
<1> QED
    BY <1>1, <1>2, <1>3, <1>4, <1>5, <1>6, <1>7, <1>8
       DEF Next, Work, Compute, Decide, Execute

\* An apply stays with the plan behind the hash it was given.
LEMMA StepExact ==
    ASSUME Typed, WorkInFlight, ApprovedExactly, [Next]_vars
    PROVE  ApprovedExactly'
<1> USE DEF Typed, TypeOK, ApprovedExactly, Workers
<1>1. CASE UNCHANGED vars
    BY <1>1 DEF vars, outsideVars, caches, localVars, auditVars, memoVars
<1>2. ASSUME NEW w \in Workers,
             PlanRequest(w) \/ ApplyRequest(w) \/ PassStart(w) \/ Lock(w)
      PROVE  ApprovedExactly'
    BY <1>2 DEF PlanRequest, ApplyRequest, PassStart, Lock, Goto, outsideVars,
                localVars, auditVars, memoVars
<1>3. ASSUME NEW w \in Workers, Refresh(w) \/ NextOrg(w) \/ PassEnd(w)
      PROVE  ApprovedExactly'
    BY <1>3 DEF Refresh, NextOrg, PassEnd, Goto, outsideVars, localVars,
                auditVars, memoVars
<1>4. ASSUME NEW w \in Workers, ReadScoped(w) PROVE ApprovedExactly'
    BY <1>4 DEF ReadScoped, Goto, auditVars
<1>5. ASSUME NEW w \in Workers,
             \/ ComputeFails(w) \/ StorePlan(w) \/ Drift(w) \/ Record(w)
             \/ (Gate(w) \/ Sweep(w) \/ Verify(w)) /\ Leave(w, TRUE)
      PROVE  ApprovedExactly'
  <2>1. /\ Goto(w, IF w \in Passes THEN "next" ELSE "idle")
        /\ plan' = [plan EXCEPT ![w] = {}]
        /\ org' = [org EXCEPT ![w] = NoOrg]
        /\ approved' = [approved EXCEPT ![w] = NoPlan]
        /\ written' = [written EXCEPT ![w] = {}]
    BY <1>5, LeaveClears
  <2> QED  BY <2>1 DEF Goto
<1>6. ASSUME NEW w \in Workers, Gate(w) \/ Sweep(w) \/ Verify(w), ~Leave(w, TRUE)
      PROVE  ApprovedExactly'
  <2>1. /\ Goto(w, "exec")
        /\ written[w] = {}
        /\ \E actions \in SUBSET Fresh(w) : plan' = [plan EXCEPT ![w] = actions]
        /\ UNCHANGED <<written, org, approved>>
    BY <1>6, StartSplits
  <2>2. CASE w \in Operators
    <3>1. Matches(w, Fresh(w)) /\ plan' = [plan EXCEPT ![w] = Fresh(w)]
      BY <1>6, <2>2, KindsAreDisjoint
         DEF Gate, Sweep, Verify, StartExecute, Passes, Operators
    <3> QED  BY <2>1, <3>1 DEF Goto, Matches
  <2>3. CASE w \notin Operators
    BY <2>1, <2>3 DEF Goto
  <2> QED  BY <2>2, <2>3
<1>7. ASSUME NEW w \in Workers, ExecuteOne(w) \/ ExecuteFails(w) \/ ExecuteDone(w)
      PROVE  ApprovedExactly'
  <2>1. /\ UNCHANGED <<org, approved>>
        /\ pc[w] = "exec"
        /\ \E l \in {"exec", "record"} : Goto(w, l)
        /\ \A v \in Workers :
              written'[v] \union plan'[v] = written[v] \union plan[v]
    BY <1>7 DEF ExecuteOne, ExecuteFails, ExecuteDone, NoWrite, Write,
                NextActions, Goto, localVars, auditVars
  <2> QED  BY <2>1 DEF Goto
<1>8. ASSUME Environment PROVE ApprovedExactly'
  <2>1. CASE Restart
    BY <2>1 DEF Restart
  <2>2. CASE ~Restart
    BY <1>8, <2>2 DEF Environment, GitHubChanges, ControlChanges, PlanExpires,
                      ContextDone, localVars, auditVars
  <2> QED  BY <2>1, <2>2
<1> QED
    BY <1>1, <1>2, <1>3, <1>4, <1>5, <1>6, <1>7, <1>8
       DEF Next, Work, Compute, Decide, Execute

\* A read made under the lock changes by the reader's own writes only.
LEMMA StepReads ==
    ASSUME Typed, LockDiscipline, WorkInFlight, PlanSplits,
           LockedReadStaysTrue, [Next]_vars
    PROVE  LockedReadStaysTrue'
<1> USE DEF Typed, TypeOK, LockedReadStaysTrue, Workers
<1>1. CASE UNCHANGED vars
    BY <1>1 DEF vars, outsideVars, caches, localVars, auditVars, memoVars
<1>2. ASSUME NEW w \in Workers,
             PlanRequest(w) \/ ApplyRequest(w) \/ PassStart(w) \/ Lock(w)
      PROVE  LockedReadStaysTrue'
    BY <1>2 DEF PlanRequest, ApplyRequest, PassStart, Lock, Goto, outsideVars,
                localVars, auditVars, memoVars
<1>3. ASSUME NEW w \in Workers, Refresh(w) \/ NextOrg(w) \/ PassEnd(w)
      PROVE  LockedReadStaysTrue'
    BY <1>3 DEF Refresh, NextOrg, PassEnd, Goto, outsideVars, localVars,
                auditVars, memoVars
<1>4. ASSUME NEW w \in Workers, ReadScoped(w) PROVE LockedReadStaysTrue'
  <2>1. written[w] = {}
    BY <1>4 DEF ReadScoped, WorkInFlight
  <2>2. After(have[org[w]], {}) = have[org[w]]
    BY DEF After
  <2> QED  BY <1>4, <2>1, <2>2 DEF ReadScoped, Goto, outsideVars, auditVars
<1>5. ASSUME NEW w \in Workers,
             \/ ComputeFails(w) \/ StorePlan(w) \/ Drift(w) \/ Record(w)
             \/ (Gate(w) \/ Sweep(w) \/ Verify(w)) /\ Leave(w, TRUE)
      PROVE  LockedReadStaysTrue'
  <2>1. /\ Goto(w, IF w \in Passes THEN "next" ELSE "idle")
        /\ seen' = [seen EXCEPT ![w] = {}]
        /\ org' = [org EXCEPT ![w] = NoOrg]
        /\ quiet' = [quiet EXCEPT ![w] = FALSE]
        /\ written' = [written EXCEPT ![w] = {}]
        /\ UNCHANGED have
    BY <1>5, LeaveClears
  <2> QED  BY <2>1 DEF Goto
<1>6. ASSUME NEW w \in Workers, Gate(w) \/ Sweep(w) \/ Verify(w), ~Leave(w, TRUE)
      PROVE  LockedReadStaysTrue'
  <2>1. /\ pc[w] = "join"
        /\ Goto(w, "exec")
        /\ UNCHANGED <<have, written, seen, org, quiet>>
    BY <1>6, StartSplits
  <2> QED  BY <2>1 DEF Goto
<1>7. ASSUME NEW w \in Workers, ExecuteOne(w) \/ ExecuteFails(w) \/ ExecuteDone(w)
      PROVE  LockedReadStaysTrue'
  <2>1. /\ pc[w] = "exec"
        /\ \E l \in {"exec", "record"} : Goto(w, l)
        /\ UNCHANGED <<seen, org, quiet>>
        /\ \/ UNCHANGED <<have, written>>
           \/ \E a \in plan[w] : Write(w, a)
    BY <1>7 DEF ExecuteOne, ExecuteFails, ExecuteDone, NoWrite, NextActions,
                Goto, localVars, auditVars, outsideVars
  <2>2. w \notin Planners /\ lock = w
    BY <2>1 DEF LockDiscipline
  <2>3. CASE UNCHANGED <<have, written>>
    BY <2>1, <2>3 DEF Goto
  <2>4. ASSUME NEW a \in plan[w], Write(w, a) PROVE LockedReadStaysTrue'
    <3>1. /\ a \in Action
          /\ \A b \in written[w] \union {a} : ~InEffect(b, seen[w])
      BY DEF PlanSplits
    <3>2. After(seen[w], written[w] \union {a})
            = Perform(a, After(seen[w], written[w]))
      BY <3>1, AfterOneMore
    <3>3. SUFFICES ASSUME NEW v \in Workers \ Planners,
                          pc'[v] \in {"join", "exec", "record"}, quiet'[v]
                   PROVE  have'[org'[v]] = After(seen'[v], written'[v])
      OBVIOUS
    <3>4. v = w
      BY <2>1, <2>2, <3>3 DEF Goto, LockDiscipline
    <3>5. org[w] \in Orgs
      BY <2>1 DEF OrgPicked
    <3>6. have[org[w]] = After(seen[w], written[w])
      BY <2>1, <3>3, <3>4
    <3>7. /\ have'[org[w]] = Perform(a, have[org[w]])
          /\ written'[w] = written[w] \union {a}
      BY <2>4, <3>5 DEF Write
    <3> QED  BY <2>1, <3>2, <3>4, <3>6, <3>7
  <2> QED  BY <2>1, <2>3, <2>4
<1>8. ASSUME Environment PROVE LockedReadStaysTrue'
  <2>1. CASE Restart
    BY <2>1 DEF Restart
  <2>2. ASSUME NEW o \in Orgs, GitHubChanges(o) PROVE LockedReadStaysTrue'
    <3>1. /\ UNCHANGED <<pc, org, seen, written>>
          /\ quiet' = [v \in Workers |-> quiet[v] /\ org[v] # o]
          /\ \E m : have' = [have EXCEPT ![o] = m]
      BY <2>2 DEF GitHubChanges, localVars, auditVars
    <3>2. \A v \in Workers :
              quiet'[v] /\ org[v] \in Orgs
                  => quiet[v] /\ have'[org[v]] = have[org[v]]
      BY <3>1
    <3> QED  BY <3>1, <3>2 DEF OrgPicked
  <2>3. CASE ~Restart /\ UNCHANGED have
    BY <1>8, <2>2, <2>3
       DEF Environment, ControlChanges, PlanExpires, ContextDone, localVars,
           auditVars, memoVars
  <2> QED
    BY <1>8, <2>1, <2>2, <2>3
       DEF Environment, ControlChanges, PlanExpires, ContextDone, outsideVars
<1> QED
    BY <1>1, <1>2, <1>3, <1>4, <1>5, <1>6, <1>7, <1>8
       DEF Next, Work, Compute, Decide, Execute

-----------------------------------------------------------------------------
(* Plans that were applied.                                                *)

\* The part of the invariant that speaks of applied hashes.
Spending == SpentInEffect /\ TouchedUnspends /\ NoDoubleApply

\* Before a goroutine executes, no hash counts as spent that would plan for
\* its organization what it has just planned.
LEMMA FreshUnspent ==
    ASSUME Typed, WorkInFlight, LockedReadStaysTrue, SpentInEffect,
           TouchedUnspends, NEW w \in Operators, pc[w] = "join",
           NEW h \in spent, h = [org |-> org[w], actions |-> Fresh(w)]
    PROVE  Fresh(w) = {}
<1>1. w \in Workers \ Planners /\ w \in Operators \union Passes
    BY KindsAreDisjoint DEF Workers, Operators
<1>2. h.org = org[w] /\ h.actions = Fresh(w)
    OBVIOUS
<1>3. quiet[w]
    BY <1>1, <1>2 DEF TouchedUnspends
<1>4. have[org[w]] = After(seen[w], {})
    BY <1>1, <1>3 DEF LockedReadStaysTrue, WorkInFlight
<1>5. After(seen[w], {}) = seen[w]
    BY DEF After
<1>6. \A a \in Fresh(w) : InEffect(a, seen[w])
    BY <1>2, <1>4, <1>5 DEF SpentInEffect
<1>7. Desired(w) \in SUBSET Logins /\ seen[w] \in SUBSET Logins
    BY <1>1 DEF Desired, Typed, TypeOK, OrgPicked
<1>8. \A a \in Fresh(w) : ~InEffect(a, seen[w])
    BY <1>7, DiffSplits DEF Fresh
<1> QED  BY <1>6, <1>8

\* A spent hash stays in effect, or stops being spent.
LEMMA StepSpending ==
    ASSUME Typed, LockDiscipline, WorkInFlight, PlanSplits, ApprovedExactly,
           LockedReadStaysTrue, Spending, [Next]_vars
    PROVE  Spending'
<1> USE DEF Typed, TypeOK, Spending, SpentInEffect, TouchedUnspends,
            NoDoubleApply, Workers
<1>1. CASE UNCHANGED vars
    BY <1>1 DEF vars, outsideVars, caches, localVars, auditVars, memoVars
<1>2. ASSUME NEW w \in Workers,
             PlanRequest(w) \/ ApplyRequest(w) \/ PassStart(w) \/ Lock(w)
      PROVE  Spending'
    BY <1>2 DEF PlanRequest, ApplyRequest, PassStart, Lock, Goto, outsideVars,
                localVars, auditVars, memoVars
<1>3. ASSUME NEW w \in Workers, Refresh(w) \/ NextOrg(w) \/ PassEnd(w)
      PROVE  Spending'
    BY <1>3 DEF Refresh, NextOrg, PassEnd, Goto, outsideVars, localVars,
                auditVars, memoVars
<1>4. ASSUME NEW w \in Workers, ReadScoped(w) PROVE Spending'
    BY <1>4 DEF ReadScoped, Goto, outsideVars
<1>5. ASSUME NEW w \in Workers,
             \/ ComputeFails(w) \/ StorePlan(w) \/ Drift(w) \/ Record(w)
             \/ (Gate(w) \/ Sweep(w) \/ Verify(w)) /\ Leave(w, TRUE)
      PROVE  Spending'
  <2>1. /\ Goto(w, IF w \in Passes THEN "next" ELSE "idle")
        /\ plan' = [plan EXCEPT ![w] = {}]
        /\ org' = [org EXCEPT ![w] = NoOrg]
        /\ approved' = [approved EXCEPT ![w] = NoPlan]
        /\ quiet' = [quiet EXCEPT ![w] = FALSE]
        /\ UNCHANGED <<have, spent>>
    BY <1>5, LeaveClears
  <2> QED  BY <2>1 DEF Goto
<1>6. ASSUME NEW w \in Workers, Gate(w) \/ Sweep(w) \/ Verify(w), ~Leave(w, TRUE)
      PROVE  Spending'
  <2>1. /\ pc[w] = "join"
        /\ Goto(w, "exec")
        /\ \E actions \in SUBSET Fresh(w) : plan' = [plan EXCEPT ![w] = actions]
        /\ UNCHANGED <<have, org, approved, quiet, spent>>
    BY <1>6, StartSplits
  <2>2. SpentInEffect' /\ TouchedUnspends'
    BY <2>1 DEF Goto
  <2>3. w \in Operators /\ approved[w] \in spent => Fresh(w) = {}
    <3>1. w \in Operators => approved[w] = [org |-> org[w], actions |-> Fresh(w)]
      BY <1>6, KindsAreDisjoint DEF Gate, Sweep, Verify, Matches, Passes, Operators
    <3> QED  BY <2>1, <3>1, FreshUnspent
  <2>4. NoDoubleApply'
    BY <2>1, <2>3 DEF Goto
  <2> QED  BY <2>2, <2>4
<1>7. ASSUME NEW w \in Workers, ExecuteOne(w) \/ ExecuteFails(w)
      PROVE  Spending'
  <2>1. /\ pc[w] = "exec"
        /\ UNCHANGED pc \/ Goto(w, "record")
        /\ UNCHANGED <<org, approved, quiet>>
        /\ \A v \in Workers : plan'[v] \subseteq plan[v]
        /\ \/ UNCHANGED <<have, spent>>
           \/ /\ \E m : have' = [have EXCEPT ![org[w]] = m]
              /\ spent' = {h \in spent : h.org # org[w]}
    <3>1. CASE ExecuteOne(w)
      <4>1. /\ pc[w] = "exec"
            /\ UNCHANGED <<pc, org, approved, quiet>>
        BY <3>1 DEF ExecuteOne
      <4>2. PICK a : Write(w, a) /\ plan' = [plan EXCEPT ![w] = @ \ {a}]
        BY <3>1 DEF ExecuteOne
      <4>3. \A v \in Workers : plan'[v] \subseteq plan[v]
        BY <4>2
      <4>4. /\ \E m : have' = [have EXCEPT ![org[w]] = m]
            /\ spent' = {h \in spent : h.org # org[w]}
        BY <4>2 DEF Write, Touched
      <4> QED  BY <4>1, <4>3, <4>4
    <3>2. CASE ExecuteFails(w)
      BY <3>2 DEF ExecuteFails, NoWrite, Write, Touched, Goto, localVars
    <3> QED  BY <1>7, <3>1, <3>2
  <2>2. SpentInEffect'
    BY <2>1 DEF PlanHash
  <2>3. TouchedUnspends' /\ NoDoubleApply'
    BY <2>1 DEF Goto
  <2> QED  BY <2>2, <2>3
<1>8. ASSUME NEW w \in Workers, ExecuteDone(w) PROVE Spending'
  <2>1. /\ pc[w] = "exec" /\ plan[w] = {}
        /\ Goto(w, "record")
        /\ UNCHANGED <<have, plan, org, approved, quiet>>
        /\ \/ UNCHANGED spent
           \/ /\ w \in Operators /\ quiet[w]
              /\ spent' = spent \union {approved[w]}
    BY <1>8 DEF ExecuteDone, localVars, outsideVars
  <2>2. w \notin Planners /\ lock = w
    BY <2>1 DEF LockDiscipline
  <2>3. CASE UNCHANGED spent
    BY <2>1, <2>3 DEF Goto
  <2>4. CASE w \in Operators /\ quiet[w] /\ spent' = spent \union {approved[w]}
    <3>1. approved[w].org = org[w] /\ approved[w].actions = written[w]
      BY <2>1, <2>4 DEF ApprovedExactly
    <3>2. have[org[w]] = After(seen[w], written[w])
      BY <2>1, <2>2, <2>4 DEF LockedReadStaysTrue
    <3>3. \A a \in written[w] : InEffect(a, have[org[w]])
      <4>1. \A b \in written[w] : ~InEffect(b, seen[w])
        BY DEF PlanSplits
      <4> QED  BY <3>2, <4>1, AfterInEffect
    <3>4. SpentInEffect'
      BY <2>1, <2>4, <3>1, <3>3
    <3>5. \A v \in Operators \union Passes :
              pc'[v] \in {"join", "exec", "record"} => v = w
      BY <2>1, <2>2 DEF LockDiscipline, Goto
    <3>6. TouchedUnspends' /\ NoDoubleApply'
      BY <2>1, <2>4, <3>5 DEF Goto
    <3> QED  BY <3>4, <3>6
  <2> QED  BY <2>1, <2>3, <2>4
<1>9. ASSUME Environment PROVE Spending'
  <2>1. CASE Restart
    BY <2>1 DEF Restart, outsideVars
  <2>2. ASSUME NEW o \in Orgs, GitHubChanges(o) PROVE Spending'
    <3>1. /\ UNCHANGED <<pc, org, plan, approved>>
          /\ quiet' = [v \in Workers |-> quiet[v] /\ org[v] # o]
          /\ spent' = {h \in spent : h.org # o}
          /\ \E m : have' = [have EXCEPT ![o] = m]
      BY <2>2 DEF GitHubChanges, Touched, localVars
    <3> QED  BY <3>1
  <2>3. CASE ~Restart /\ UNCHANGED have
    BY <1>9, <2>2, <2>3
       DEF Environment, ControlChanges, PlanExpires, ContextDone, localVars,
           memoVars
  <2> QED
    BY <1>9, <2>1, <2>2, <2>3
       DEF Environment, ControlChanges, PlanExpires, ContextDone, outsideVars
<1> QED
    BY <1>1, <1>2, <1>3, <1>4, <1>5, <1>6, <1>7, <1>8, <1>9
       DEF Next, Work, Compute, Decide, Execute

-----------------------------------------------------------------------------
(* Pauses and disablements.                                                *)

Holding == HeldAllHeld /\ HeldOrgUntouched

\* A pass under way only ever writes where a hold was absent or lifted.
LEMMA StepHolding ==
    ASSUME Typed, LockDiscipline, WorkInFlight, Holding, [Next]_vars
    PROVE  Holding'
<1> USE DEF Typed, TypeOK, Holding, HeldAllHeld, HeldOrgUntouched
<1>1. CASE UNCHANGED vars
    BY <1>1 DEF vars, outsideVars, caches, localVars, auditVars, memoVars,
                Held, Enabled
<1>2. ASSUME NEW w \in Workers,
             PlanRequest(w) \/ ApplyRequest(w) \/ Lock(w) \/ Refresh(w)
             \/ ReadScoped(w) \/ NextOrg(w)
      PROVE  Holding'
  <2>1. /\ UNCHANGED <<paused, override, heldAll, blind>>
        /\ \E l \in {"refresh", "wait", "next", "read", "join"} : Goto(w, l)
        /\ UNCHANGED org \/ \E o \in Orgs : org' = [org EXCEPT ![w] = o]
    BY <1>2 DEF PlanRequest, ApplyRequest, Lock, Refresh, ReadScoped, NextOrg,
                outsideVars, localVars, memoVars
  <2>2. HeldAllHeld'
    BY <2>1 DEF Held, Enabled
  <2>3. \A v \in Reconcilers :
            pc'[v] = "exec" => pc[v] = "exec" /\ org'[v] = org[v]
    BY <2>1 DEF Goto, Workers, Passes
  <2> QED  BY <2>1, <2>2, <2>3
<1>3. ASSUME NEW w \in Workers, PassStart(w) PROVE Holding'
  <2>1. /\ \A v \in Operators \union Passes : pc'[v] # "exec"
        /\ UNCHANGED <<paused, override>>
        /\ heldAll' = {o \in Orgs : Held(o)} \/ UNCHANGED heldAll
    BY <1>3, ConstantTypes DEF PassStart, Goto, LockDiscipline, outsideVars,
                Workers, Operators, Passes
  <2> QED  BY <2>1 DEF Held, Enabled, Passes
<1>4. ASSUME NEW w \in Workers, PassEnd(w) PROVE Holding'
    BY <1>4 DEF PassEnd, Goto, outsideVars, localVars, Held, Enabled
<1>5. ASSUME NEW w \in Workers,
             \/ ComputeFails(w) \/ StorePlan(w) \/ Drift(w) \/ Record(w)
             \/ (Gate(w) \/ Sweep(w) \/ Verify(w)) /\ Leave(w, TRUE)
      PROVE  Holding'
  <2>1. /\ Goto(w, IF w \in Passes THEN "next" ELSE "idle")
        /\ org' = [org EXCEPT ![w] = NoOrg]
        /\ blind' = [blind EXCEPT ![w] = FALSE]
        /\ UNCHANGED <<paused, override, heldAll>>
    BY <1>5, LeaveClears
  <2> QED  BY <2>1 DEF Goto, Held, Enabled
<1>6. ASSUME NEW w \in Workers, Gate(w), ~Leave(w, TRUE) PROVE Holding'
  <2>1. /\ Goto(w, "exec")
        /\ UNCHANGED <<org, heldAll, paused, override>>
    BY <1>6, StartSplits DEF Gate, outsideVars
  <2>2. PICK pauseRead \in BOOLEAN, overrideRead \in BOOLEAN :
            /\ IF overrideRead THEN Enabled(org[w]) ELSE ConfigEnabled[org[w]]
            /\ ~(pauseRead /\ paused[org[w]])
            /\ blind' = [blind EXCEPT ![w] = ~pauseRead \/ ~overrideRead]
    BY <1>6 DEF Gate, Go
  <2>3. ~blind'[w] => ~Held(org[w])
    BY <2>2 DEF Held
  <2>4. \A v \in Workers \ {w} : blind'[v] = blind[v] /\ pc'[v] = pc[v]
    BY <2>1, <2>2 DEF Goto
  <2> QED  BY <2>1, <2>3, <2>4 DEF Held, Enabled, Workers, Passes
<1>7. ASSUME NEW w \in Workers, Sweep(w) \/ Verify(w), ~Leave(w, TRUE)
      PROVE  Holding'
  <2>1. /\ Goto(w, "exec")
        /\ UNCHANGED <<org, heldAll, paused, override, blind>>
        /\ w \notin Reconcilers
    BY <1>7, StartSplits, KindsAreDisjoint
       DEF Sweep, Verify, outsideVars, memoVars, Operators, Passes
  <2> QED  BY <2>1 DEF Goto, Held, Enabled
<1>8. ASSUME NEW w \in Workers, ExecuteOne(w) \/ ExecuteFails(w) \/ ExecuteDone(w)
      PROVE  Holding'
  <2>1. /\ UNCHANGED <<org, heldAll, paused, override, blind>>
        /\ UNCHANGED pc \/ Goto(w, "record")
    <3>1. CASE ExecuteOne(w)
      BY <3>1 DEF ExecuteOne
    <3>2. CASE ExecuteFails(w) \/ ExecuteDone(w)
      BY <3>2 DEF ExecuteFails, ExecuteDone, localVars, outsideVars
    <3> QED  BY <1>8, <3>1, <3>2
  <2>2. HeldAllHeld'
    BY <2>1 DEF Held, Enabled
  <2>3. \A v \in Reconcilers :
            pc'[v] = "exec" => pc[v] = "exec" /\ org'[v] = org[v]
    BY <2>1 DEF Goto, Workers, Passes
  <2> QED  BY <2>1, <2>2, <2>3
<1>9. ASSUME Environment PROVE Holding'
  <2>1. CASE Restart
    BY <2>1 DEF Restart, outsideVars, Held, Enabled, Workers, Passes
  <2>2. ASSUME NEW o \in Orgs, ControlChanges(o) PROVE Holding'
    <3>1. /\ heldAll' = {x \in heldAll : Held(x)'}
          /\ UNCHANGED <<pc, org, blind>>
      BY <2>2 DEF ControlChanges, localVars
    <3> QED  BY <3>1
  <2>3. ASSUME NEW o \in Orgs, GitHubChanges(o) PROVE Holding'
    BY <2>3 DEF GitHubChanges, localVars, Held, Enabled
  <2>4. ASSUME PlanExpires \/ \E w \in Workers : ContextDone(w)
        PROVE  Holding'
    BY <2>4 DEF PlanExpires, ContextDone, localVars, memoVars, outsideVars,
                Held, Enabled
  <2> QED  BY <1>9, <2>1, <2>2, <2>3, <2>4 DEF Environment
<1> QED
    BY <1>1, <1>2, <1>3, <1>4, <1>5, <1>6, <1>7, <1>8, <1>9
       DEF Next, Work, Compute, Decide, Execute

-----------------------------------------------------------------------------
(* The audit trail.                                                        *)

\* A run leaves the hands of its goroutine filed, or reported as not filed.
LEMMA StepOwed ==
    ASSUME Typed, WorkInFlight, OwedInHand, [Next]_vars
    PROVE  OwedInHand'
<1> USE DEF Typed, TypeOK, OwedInHand
<1>1. CASE UNCHANGED vars
    BY <1>1 DEF vars, localVars, auditVars
<1>2. ASSUME NEW w \in Workers,
             \/ PlanRequest(w) \/ ApplyRequest(w) \/ NextOrg(w)
             \/ PassStart(w) \/ PassEnd(w) \/ Lock(w) \/ Refresh(w) \/ ReadScoped(w)
      PROVE  OwedInHand'
  <2>1. /\ UNCHANGED auditVars
        /\ \/ UNCHANGED org
           \/ /\ pc[w] \in {"idle", "next"}
              /\ \E o \in Orgs : org' = [org EXCEPT ![w] = o]
    BY <1>2 DEF PlanRequest, ApplyRequest, NextOrg, PassStart, PassEnd, Lock,
                Refresh, ReadScoped, localVars
  <2> QED  BY <2>1 DEF WorkInFlight, auditVars
<1>3. ASSUME NEW w \in Workers,
             \/ ComputeFails(w) \/ StorePlan(w) \/ Drift(w) \/ Record(w)
             \/ (Gate(w) \/ Sweep(w) \/ Verify(w)) /\ Leave(w, TRUE)
      PROVE  OwedInHand'
  <2>1. /\ org' = [org EXCEPT ![w] = NoOrg]
        /\ written' = [written EXCEPT ![w] = {}]
    BY <1>3, LeaveClears
  <2>2. unfiled' \ lost' \subseteq (unfiled \ lost) \ Covered(w)
    <3>1. CASE Record(w)
      BY <3>1 DEF Record
    <3>2. CASE ~Record(w)
      <4>1. pc[w] \in {"read", "join"} /\ UNCHANGED auditVars
        BY <1>3, <3>2 DEF ComputeFails, StorePlan, Drift, Gate, Sweep, Verify
      <4> QED  BY <4>1 DEF WorkInFlight, Covered, auditVars
    <3> QED  BY <3>1, <3>2
  <2>3. \A o \in unfiled' \ lost' :
            \E v \in Workers \ {w} : org[v] = o /\ written[v] # {}
    BY <2>2 DEF Covered
  <2> QED  BY <2>1, <2>3
<1>4. ASSUME NEW w \in Workers, Gate(w) \/ Sweep(w) \/ Verify(w), ~Leave(w, TRUE)
      PROVE  OwedInHand'
  <2>1. UNCHANGED org
    BY <1>4, StartSplits
  <2>2. UNCHANGED auditVars
    BY <1>4 DEF Gate, Sweep, Verify
  <2> QED  BY <2>1, <2>2 DEF auditVars
<1>5. ASSUME NEW w \in Workers, ExecuteOne(w) \/ ExecuteFails(w) \/ ExecuteDone(w)
      PROVE  OwedInHand'
  <2>1. UNCHANGED org /\ (NoWrite \/ UNCHANGED auditVars \/ \E a : Write(w, a))
    <3>1. CASE ExecuteOne(w)
      BY <3>1, Zenon DEF ExecuteOne
    <3>2. CASE ExecuteFails(w)
      BY <3>2, Zenon DEF ExecuteFails
    <3>3. CASE ExecuteDone(w)
      BY <3>3 DEF ExecuteDone, localVars
    <3> QED  BY <1>5, <3>1, <3>2, <3>3
  <2>2. CASE \E a : Write(w, a)
    <3>1. /\ \E a : written' = [written EXCEPT ![w] = @ \union {a}]
          /\ unfiled' = unfiled \union {org[w]}
          /\ lost' = lost \ {org[w]}
      BY <2>2 DEF Write
    <3>2. written'[w] # {} /\ \A v \in Workers : written[v] \subseteq written'[v]
      BY <3>1
    <3> QED  BY <2>1, <3>1, <3>2
  <2> QED  BY <2>1, <2>2 DEF NoWrite, auditVars
<1>6. ASSUME Environment PROVE OwedInHand'
  <2>1. CASE Restart
    BY <2>1 DEF Restart
  <2>2. CASE ~Restart
    BY <1>6, <2>2 DEF Environment, GitHubChanges, ControlChanges, PlanExpires,
                      ContextDone, localVars, auditVars
  <2> QED  BY <2>1, <2>2
<1> QED
    BY <1>1, <1>2, <1>3, <1>4, <1>5, <1>6 DEF Next, Work, Compute, Decide, Execute

-----------------------------------------------------------------------------
(* The theorems.                                                           *)

\* The inductive invariant holds in every reachable state.
THEOREM InvariantHolds == Spec => []IInv
<1>1. Init => IInv
  <2> SUFFICES ASSUME Init PROVE IInv
    OBVIOUS
  <2>1. Typed
    BY InitTyped
  <2>2. LockDiscipline /\ WorkInFlight /\ PlanSplits
    BY DEF Init, LockDiscipline, WorkInFlight, PlanSplits, Workers, Operators, Passes
  <2>3. LockedReadStaysTrue /\ ApprovedExactly
    BY DEF Init, LockedReadStaysTrue, ApprovedExactly, Workers
  <2>4. SpentInEffect /\ TouchedUnspends /\ NoDoubleApply /\ HeldAllHeld
    BY DEF Init, SpentInEffect, TouchedUnspends, NoDoubleApply, HeldAllHeld
  <2>5. HeldOrgUntouched /\ OwedInHand
    BY DEF Init, HeldOrgUntouched, OwedInHand
  <2> QED  BY <2>1, <2>2, <2>3, <2>4, <2>5 DEF IInv
<1>2. IInv /\ [Next]_vars => IInv'
  <2> SUFFICES ASSUME IInv, [Next]_vars PROVE IInv'
    OBVIOUS
  <2>1. Typed /\ Spending /\ Holding
    BY DEF IInv, Spending, Holding
  <2>2. /\ LockDiscipline /\ WorkInFlight /\ PlanSplits
        /\ LockedReadStaysTrue /\ ApprovedExactly /\ OwedInHand
    BY DEF IInv
  <2>3. Typed' /\ LockDiscipline' /\ WorkInFlight' /\ PlanSplits'
    BY <2>1, <2>2, StepTyped, StepLocks, StepInFlight, StepSplits
  <2>4. LockedReadStaysTrue' /\ ApprovedExactly'
    BY <2>1, <2>2, StepReads, StepExact
  <2>5. Spending' /\ Holding' /\ OwedInHand'
    BY <2>1, <2>2, StepSpending, StepHolding, StepOwed
  <2> QED
    BY <2>3, <2>4, <2>5 DEF IInv, Spending, Holding
<1> QED  BY <1>1, <1>2, PTL DEF Spec

\* From the locked read to the audit record nobody but the writer, and the
\* world outside, changes the organization: one writer at a time.
THEOREM OneWriter == Spec => []LockedReadStaysTrue
<1>1. IInv => LockedReadStaysTrue
    BY DEF IInv
<1> QED  BY <1>1, InvariantHolds, PTL

\* What an apply executes is the plan behind the hash its operator approved.
THEOREM Exact == Spec => []ApprovedExactly
<1>1. IInv => ApprovedExactly
    BY DEF IInv
<1> QED  BY <1>1, InvariantHolds, PTL

\* A plan applied in full is not applied again to an organization nobody
\* else has touched, however often its hash is submitted.
THEOREM OnceOnly == Spec => []NoDoubleApply
<1>1. IInv => NoDoubleApply
    BY DEF IInv
<1> QED  BY <1>1, InvariantHolds, PTL

\* A run that is on no record was reported as lost, or belongs to the goroutine
\* that holds the lock and has yet to record it.
THEOREM Accounted == Spec => []EveryWriteAccounted
<1>1. IInv => EveryWriteAccounted
  <2> SUFFICES ASSUME IInv PROVE EveryWriteAccounted
    OBVIOUS
  <2>1. \A w \in Workers : written[w] # {} => InHand(w)
    BY DEF IInv, Typed, TypeOK, LockDiscipline, WorkInFlight, InHand, Workers
  <2>2. \A o \in unfiled \ lost : \E w \in Workers : InHand(w) /\ o \in Covered(w)
    BY <2>1 DEF IInv, OwedInHand, Covered
  <2> QED  BY <2>1, <2>2 DEF EveryWriteAccounted
<1> QED  BY <1>1, InvariantHolds, PTL

\* A restart therefore loses the record of one run at the most.
THEOREM OneRunAtRisk ==
    Spec => [](\A v, w \in Workers : written[v] # {} /\ written[w] # {} => v = w)
<1>1. EveryWriteAccounted
        => \A v, w \in Workers : written[v] # {} /\ written[w] # {} => v = w
    BY DEF EveryWriteAccounted, InHand
<1> QED  BY <1>1, Accounted, PTL

\* A hold in force since the pass began keeps that pass from writing.
THEOREM HoldsRespected == Spec => []HeldOrgUntouched
<1>1. IInv => HeldOrgUntouched
    BY DEF IInv
<1> QED  BY <1>1, InvariantHolds, PTL
=============================================================================
