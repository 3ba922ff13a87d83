---------------------------- MODULE MappingProofs ----------------------------
(***************************************************************************)
(* For any people, any operators, any drafts and any number of requests:   *)
(* the type invariant of MappingStore; people stay distinct; a reported    *)
(* success is the whole of what is stored; an abbreviation and an approval *)
(* go only with their entry.                                               *)
(***************************************************************************)
EXTENDS MappingStore, TLAPS

Value == {Blank} \union Editors \union People \union UNION {{d[f] : f \in Fields} : d \in Drafts}

Labels == {"idle", "stamp", "get", "check", "write", "drop"}

Typed ==
    /\ param \in [People -> [Fields -> Value]]
    /\ draft \in [Editors -> [Fields -> Value]]
    /\ pc \in [Editors -> Labels]
    /\ left \in [Editors -> SUBSET Fields]
    /\ clean \subseteq Editors
    /\ unread \subseteq Editors
    /\ raced \in BOOLEAN
    /\ requests \in 0 .. MaxRequests

\* What is stored of a person carries their name or none yet, and an approval
\* is an operator's.
Stamped ==
    \A p \in People : param[p].name \in {p, Blank} /\ param[p].approved \in Editors \union {Blank}

Drafted ==
    \A e \in Editors :
        /\ pc[e] = "idle" => draft[e] = NoEntry
        /\ pc[e] # "idle" => draft[e].name \in People
        /\ pc[e] \in {"stamp", "get", "check", "write"} => draft[e].github # Blank
        /\ pc[e] \in {"get", "check", "write"} => draft[e].approved \in Editors

\* Requests that have not overlapped are one at most.
OneAtATime ==
    ~raced => \A d, e \in Editors : pc[d] # "idle" /\ pc[e] # "idle" => d = e

\* What was checked stays true while it is written, nobody else being there.
Cleared ==
    ~raced => \A e \in Editors : pc[e] = "write" =>
        \A q \in People : q # draft[e].name => ~Clashes(draft[e], param[q])

IInv == Typed /\ Stamped /\ Drafted /\ OneAtATime /\ Cleared /\ Distinct

-----------------------------------------------------------------------------
(* Typing.                                                                 *)

LEMMA BlankEntry == NoEntry \in [Fields -> Value]
    BY DEF NoEntry, Value

LEMMA DraftTyped ==
    ASSUME NEW d \in Drafts
    PROVE  /\ d \in [Fields -> Value]
           /\ d.name \in People
           /\ d.github # Blank
<1>1. d = [f \in Fields |-> d[f]]
    BY DraftsAreValid
<1>2. \A f \in Fields : d[f] \in Value
    BY DEF Value
<1> QED
    BY <1>1, <1>2, DraftsAreValid DEF Required, Fields

\* Every entry that is written field by field is still an entry.
LEMMA UpdateTyped ==
    ASSUME NEW entry \in [Fields -> Value], NEW f, NEW v \in Value
    PROVE  [entry EXCEPT ![f] = v] \in [Fields -> Value]
    OBVIOUS

LEMMA InitIInv ==
    ASSUME Init
    PROVE  IInv
<1>1. PICK d \in Drafts \union {NoEntry}, by \in Editors \union {Blank} :
        param = [p \in People |-> IF p = d.name THEN [d EXCEPT !.approved = by] ELSE NoEntry]
    BY DEF Init
<1>2. by \in Value /\ d \in [Fields -> Value]
    BY DraftTyped, BlankEntry DEF Value
<1>3. [d EXCEPT !.approved = by] \in [Fields -> Value]
    BY <1>2
<1>4. param \in [People -> [Fields -> Value]]
    BY <1>1, <1>3, BlankEntry
<1>5. Typed
    <2>1. draft \in [Editors -> [Fields -> Value]]
        BY BlankEntry DEF Init
    <2>2. requests \in 0 .. MaxRequests
        BY DraftsAreValid DEF Init
    <2> QED
        BY <1>4, <2>1, <2>2 DEF Init, Typed, Labels
<1>6. Stamped
    <2> SUFFICES ASSUME NEW p \in People
                 PROVE  /\ param[p].name \in {p, Blank}
                        /\ param[p].approved \in Editors \union {Blank}
        BY DEF Stamped
    <2>1. CASE p = d.name
        BY <1>1, <1>2, <2>1 DEF Fields
    <2>2. CASE p # d.name
        BY <1>1, <2>2 DEF NoEntry, Fields
    <2> QED
        BY <2>1, <2>2
<1>7. Drafted /\ OneAtATime /\ Cleared
    BY DEF Init, Drafted, OneAtATime, Cleared
<1>8. Distinct
    <2> SUFFICES ASSUME NEW p \in People, NEW q \in People, p # q
                 PROVE  /\ param[p].github # Blank => param[p].github # param[q].github
                        /\ param[p].k8s # Blank => param[p].k8s # param[q].k8s
                        /\ EmailsIn(param[p]) \intersect EmailsIn(param[q]) = {}
        BY DEF Distinct
    <2>1. param[p] = NoEntry \/ param[q] = NoEntry
        BY <1>1
    <2>2. NoEntry.github = Blank /\ NoEntry.k8s = Blank /\ EmailsIn(NoEntry) = {}
        BY DEF NoEntry, Fields, EmailsIn
    <2> QED
        BY <2>1, <2>2
<1> QED
    BY <1>5, <1>6, <1>7, <1>8 DEF IInv

-----------------------------------------------------------------------------
(* The steps of a request, in its order.                                   *)

\* While a request begins, what the store holds is as it was; nobody has been
\* alone unless this is the only request.
LEMMA BeginStep ==
    ASSUME IInv, NEW e \in Editors, NEW p \in People, Begin(e, p),
           draft' \in [Editors -> [Fields -> Value]],
           \A x \in Editors \ {e} : draft'[x] = draft[x],
           draft'[e].name = p,
           NEW label \in {"stamp", "drop"}, Goto(e, label),
           label = "stamp" => draft'[e].github # Blank,
           UNCHANGED <<param, left, unread>>
    PROVE  IInv'
<1>1. /\ pc[e] = "idle"
      /\ requests < MaxRequests /\ requests' = requests + 1
      /\ raced' = (raced \/ {x \in Editors \ {e} : pc[x] # "idle"} # {})
    BY DEF Begin
<1>2. /\ pc' \in [Editors -> Labels]
      /\ pc'[e] = label
      /\ \A x \in Editors \ {e} : pc'[x] = pc[x]
    BY DEF IInv, Typed, Goto, Labels
<1>3. Typed'
    <2>1. clean' \subseteq Editors
        BY DEF Begin, IInv, Typed
    <2>2. requests' \in 0 .. MaxRequests
        BY <1>1, DraftsAreValid DEF IInv, Typed
    <2>3. raced' \in BOOLEAN
        BY <1>1 DEF IInv, Typed
    <2> QED
        BY <1>2, <2>1, <2>2, <2>3 DEF IInv, Typed
<1>4. Stamped'
    BY DEF IInv, Stamped
<1>5. Drafted'
    <2>1. CASE label = "stamp"
        BY <1>2, <2>1 DEF IInv, Drafted
    <2>2. CASE label = "drop"
        BY <1>2, <2>2 DEF IInv, Drafted
    <2> QED
        BY <2>1, <2>2
<1>6. OneAtATime'
    BY <1>1, <1>2 DEF OneAtATime
<1>7. Cleared'
    <2> SUFFICES ASSUME ~raced', NEW x \in Editors, pc'[x] = "write"
                 PROVE  FALSE
        BY DEF Cleared
    <2> QED
        BY <1>1, <1>2
<1>8. Distinct'
    BY <1>1 DEF IInv, Distinct
<1> QED
    BY <1>3, <1>4, <1>5, <1>6, <1>7, <1>8 DEF IInv

LEMMA PutPersonStep ==
    ASSUME IInv, NEW e \in Editors, NEW d \in Drafts, PutPerson(e, d)
    PROVE  IInv'
<1>1. draft' = [draft EXCEPT ![e] = d]
    BY DEF PutPerson
<1>2. draft' \in [Editors -> [Fields -> Value]] /\ draft'[e] = d
    BY <1>1, DraftTyped DEF IInv, Typed
<1>3. \A x \in Editors \ {e} : draft'[x] = draft[x]
    BY <1>1 DEF IInv, Typed
<1> QED
    BY <1>2, <1>3, DraftTyped, BeginStep DEF PutPerson

LEMMA DeletePersonStep ==
    ASSUME IInv, NEW e \in Editors, NEW p \in People, DeletePerson(e, p)
    PROVE  IInv'
<1> DEFINE d == [NoEntry EXCEPT !.name = p]
<1>1. draft' = [draft EXCEPT ![e] = d]
    BY DEF DeletePerson
<1>2. d \in [Fields -> Value] /\ d.name = p
    BY BlankEntry DEF Value, Fields
<1>3. draft' \in [Editors -> [Fields -> Value]] /\ draft'[e].name = p
    BY <1>1, <1>2 DEF IInv, Typed
<1>4. \A x \in Editors \ {e} : draft'[x] = draft[x]
    BY <1>1 DEF IInv, Typed
<1> QED
    BY <1>3, <1>4, BeginStep DEF DeletePerson

LEMMA ApproveStep ==
    ASSUME IInv, NEW e \in Editors, Approve(e)
    PROVE  IInv'
<1>1. PICK known \in BOOLEAN :
        /\ Stamp(e, known)
        /\ unread' = IF known THEN unread ELSE unread \union {e}
    BY DEF Approve
<1> DEFINE before == param[draft[e].name].approved
           by == IF known /\ before # Blank THEN before ELSE e
<1>2. draft' = [draft EXCEPT ![e].approved = by]
    BY <1>1 DEF Stamp
<1>3. /\ pc[e] = "stamp" /\ pc' = [pc EXCEPT ![e] = "get"]
      /\ draft[e].name \in People /\ draft[e].github # Blank
    BY DEF Approve, Goto, IInv, Drafted
<1>4. by \in Editors
    BY <1>3 DEF IInv, Stamped
<1>5. /\ draft' \in [Editors -> [Fields -> Value]]
      /\ draft'[e].name = draft[e].name
      /\ draft'[e].github = draft[e].github
      /\ draft'[e].approved \in Editors
      /\ \A x \in Editors \ {e} : draft'[x] = draft[x]
    <2>1. [draft[e] EXCEPT !.approved = by] \in [Fields -> Value]
        BY <1>4, UpdateTyped DEF IInv, Typed, Value
    <2>2. draft' = [draft EXCEPT ![e] = [draft[e] EXCEPT !.approved = by]]
        BY <1>2
    <2> HIDE DEF by
    <2> QED
        BY <1>4, <2>1, <2>2 DEF IInv, Typed, Fields
<1>6. /\ pc' \in [Editors -> Labels] /\ pc'[e] = "get"
      /\ \A x \in Editors \ {e} : pc'[x] = pc[x]
    BY <1>3 DEF IInv, Typed, Labels
<1>7. UNCHANGED <<param, left, clean, raced, requests>>
    BY DEF Approve, memo
<1> HIDE DEF by
<1>8. Typed'
    BY <1>1, <1>5, <1>6, <1>7 DEF IInv, Typed
<1>9. Stamped' /\ Distinct'
    BY <1>7 DEF IInv, Stamped, Distinct
<1>10. Drafted'
    BY <1>3, <1>5, <1>6 DEF IInv, Drafted
<1>11. OneAtATime'
    BY <1>3, <1>6, <1>7 DEF IInv, OneAtATime
<1>12. Cleared'
    BY <1>5, <1>6, <1>7 DEF IInv, Cleared
<1> QED
    BY <1>8, <1>9, <1>10, <1>11, <1>12 DEF IInv

LEMMA GetStep ==
    ASSUME IInv, NEW e \in Editors, Get(e)
    PROVE  IInv'
<1>1. /\ pc[e] = "get"
      /\ UNCHANGED <<param, draft, left, unread, clean, raced, requests>>
    BY DEF Get, memo
<1>2. /\ pc' \in [Editors -> Labels] /\ pc'[e] = "check"
      /\ \A x \in Editors \ {e} : pc'[x] = pc[x]
    BY DEF Get, Goto, IInv, Typed, Labels
<1>3. Typed' /\ Stamped' /\ Distinct'
    BY <1>1, <1>2 DEF IInv, Typed, Stamped, Distinct
<1>4. Drafted' /\ OneAtATime' /\ Cleared'
    BY <1>1, <1>2 DEF IInv, Drafted, OneAtATime, Cleared
<1> QED
    BY <1>3, <1>4 DEF IInv

\* Nobody's stored entry is one the checked draft clashes with.
LEMMA AcceptedClearsAll ==
    ASSUME IInv, NEW next, next.name \in People, next.github # Blank,
           NEW old, Accepted(next, old), NEW q \in People
    PROVE  ~Clashes(next, param[q])
<1>1. CASE param[q] = NoEntry
    <2>1. NoEntry.github = Blank /\ NoEntry.k8s = Blank /\ EmailsIn(NoEntry) = {}
        BY DEF NoEntry, Fields, EmailsIn
    <2> QED
        BY <1>1, <2>1 DEF Clashes
<1>2. CASE param[q] # NoEntry
    BY <1>2 DEF Accepted, Stored
<1> QED
    BY <1>1, <1>2

LEMMA CheckStep ==
    ASSUME IInv, NEW e \in Editors, Check(e)
    PROVE  IInv'
<1>1. /\ pc[e] = "check"
      /\ Accepted(draft[e], existing[e])
      /\ left' = [left EXCEPT ![e] = {f \in Fields : draft[e][f] # Blank}]
      /\ UNCHANGED <<param, draft, unread, clean, raced, requests>>
    BY DEF Check, memo
<1>2. /\ pc' \in [Editors -> Labels] /\ pc'[e] = "write"
      /\ \A x \in Editors \ {e} : pc'[x] = pc[x]
    BY DEF Check, Goto, IInv, Typed, Labels
<1>3. Typed' /\ Stamped' /\ Distinct'
    BY <1>1, <1>2 DEF IInv, Typed, Stamped, Distinct
<1>4. Drafted' /\ OneAtATime'
    BY <1>1, <1>2 DEF IInv, Drafted, OneAtATime
<1>5. \A q \in People : ~Clashes(draft[e], param[q])
    BY <1>1, AcceptedClearsAll DEF IInv, Drafted
<1>6. Cleared'
    BY <1>1, <1>2, <1>5 DEF IInv, Cleared
<1> QED
    BY <1>3, <1>4, <1>6 DEF IInv

\* Storing a field of a draft that clashes with nobody keeps people apart.
LEMMA WriteKeepsDistinct ==
    ASSUME IInv, ~raced, NEW e \in Editors, pc[e] = "write", NEW f \in Fields,
           param' = [param EXCEPT ![draft[e].name][f] = draft[e][f]],
           NEW p \in People, NEW q \in People, p # q, p = draft[e].name
    PROVE  /\ param'[p].github # Blank => param'[p].github # param'[q].github
           /\ param'[p].k8s # Blank => param'[p].k8s # param'[q].k8s
           /\ EmailsIn(param'[p]) \intersect EmailsIn(param'[q]) = {}
<1>1. /\ param'[q] = param[q]
      /\ param'[p] = [param[p] EXCEPT ![f] = draft[e][f]]
      /\ param[p] \in [Fields -> Value]
    BY DEF IInv, Typed
<1>2. draft[e].name # param[q].name
    BY DraftsAreValid DEF IInv, Stamped
<1>3. /\ draft[e].github # param[q].github
      /\ draft[e].k8s # Blank => draft[e].k8s # param[q].k8s
      /\ EmailsIn(draft[e]) \intersect EmailsIn(param[q]) = {}
    BY <1>2 DEF IInv, Cleared, Clashes
<1>4. /\ param[p].github # Blank => param[p].github # param[q].github
      /\ param[p].k8s # Blank => param[p].k8s # param[q].k8s
      /\ EmailsIn(param[p]) \intersect EmailsIn(param[q]) = {}
    BY DEF IInv, Distinct
<1>5. /\ param'[p].github \in {param[p].github, draft[e].github}
      /\ param'[p].k8s \in {param[p].k8s, draft[e].k8s}
      /\ param'[p].emails \in {param[p].emails, draft[e].emails}
    BY <1>1 DEF Fields
<1>6. EmailsIn(param'[p]) \in {EmailsIn(param[p]), EmailsIn(draft[e])}
    BY <1>5 DEF EmailsIn
<1> QED
    BY <1>1, <1>3, <1>4, <1>5, <1>6

LEMMA WriteFieldStep ==
    ASSUME IInv, NEW e \in Editors, WriteField(e)
    PROVE  IInv'
<1>1. PICK f \in left[e] :
        /\ param' = [param EXCEPT ![draft[e].name][f] = draft[e][f]]
        /\ left' = [left EXCEPT ![e] = @ \ {f}]
        /\ Goto(e, IF left[e] = {f} THEN "drop" ELSE "write")
    BY DEF WriteField
<1>2. f \in Fields
    BY DEF IInv, Typed
<1>3. /\ pc[e] = "write"
      /\ UNCHANGED <<draft, unread, clean, raced, requests>>
      /\ draft[e].name \in People
      /\ draft[e].approved \in Editors
    BY DEF WriteField, memo, IInv, Drafted
<1>4. /\ pc' \in [Editors -> Labels] /\ pc'[e] \in {"write", "drop"}
      /\ \A x \in Editors \ {e} : pc'[x] = pc[x]
    BY <1>1 DEF Goto, IInv, Typed, Labels
<1>5. /\ \A x \in People \ {draft[e].name} : param'[x] = param[x]
      /\ param'[draft[e].name] = [param[draft[e].name] EXCEPT ![f] = draft[e][f]]
      /\ param' \in [People -> [Fields -> Value]]
    BY <1>1, <1>2, <1>3 DEF IInv, Typed
<1>6. Typed'
    BY <1>1, <1>3, <1>4, <1>5 DEF IInv, Typed
<1>7. Stamped'
    <2> SUFFICES ASSUME NEW p \in People
                 PROVE  /\ param'[p].name \in {p, Blank}
                        /\ param'[p].approved \in Editors \union {Blank}
        BY DEF Stamped
    <2>1. CASE p = draft[e].name
        <3>1. /\ param'[p].name \in {param[p].name, p}
              /\ param'[p].approved \in {param[p].approved, draft[e].approved}
            BY <1>2, <1>5, <2>1 DEF IInv, Typed, Fields
        <3> QED
            BY <1>3, <3>1 DEF IInv, Stamped
    <2>2. CASE p # draft[e].name
        BY <1>5, <2>2 DEF IInv, Stamped
    <2> QED
        BY <2>1, <2>2
<1>8. Drafted' /\ OneAtATime'
    BY <1>3, <1>4 DEF IInv, Drafted, OneAtATime
<1>9. Cleared'
    <2> SUFFICES ASSUME ~raced, NEW x \in Editors, pc'[x] = "write",
                        NEW q \in People, q # draft[x].name
                 PROVE  ~Clashes(draft[x], param'[q])
        BY <1>3 DEF Cleared
    <2>1. x = e
        BY <1>3, <1>4 DEF IInv, OneAtATime
    <2> QED
        BY <1>3, <1>5, <2>1 DEF IInv, Cleared
<1>10. Distinct'
    <2> SUFFICES ASSUME ~raced, NEW p \in People, NEW q \in People, p # q
                 PROVE  /\ param'[p].github # Blank => param'[p].github # param'[q].github
                        /\ param'[p].k8s # Blank => param'[p].k8s # param'[q].k8s
                        /\ EmailsIn(param'[p]) \intersect EmailsIn(param'[q]) = {}
        BY <1>3 DEF Distinct
    <2>1. CASE p = draft[e].name
        BY <1>1, <1>2, <1>3, <2>1, WriteKeepsDistinct
    <2>2. CASE q = draft[e].name
        <3>1. /\ param'[q].github # Blank => param'[q].github # param'[p].github
              /\ param'[q].k8s # Blank => param'[q].k8s # param'[p].k8s
              /\ EmailsIn(param'[q]) \intersect EmailsIn(param'[p]) = {}
            BY <1>1, <1>2, <1>3, <2>2, WriteKeepsDistinct
        <3> QED
            BY <3>1
    <2>3. CASE p # draft[e].name /\ q # draft[e].name
        BY <1>5, <2>3 DEF IInv, Distinct
    <2> QED
        BY <2>1, <2>2, <2>3
<1> QED
    BY <1>6, <1>7, <1>8, <1>9, <1>10 DEF IInv

LEMMA DropFieldStep ==
    ASSUME IInv, NEW e \in Editors, DropField(e)
    PROVE  IInv'
<1> DEFINE f == Head(drop[e])
<1>1. /\ pc[e] = "drop"
      /\ param' = [param EXCEPT ![draft[e].name][f] = Blank]
      /\ UNCHANGED <<pc, draft, left, unread, clean, raced, requests>>
      /\ draft[e].name \in People
    BY DEF DropField, memo, IInv, Drafted
<1> HIDE DEF f
<1>2. /\ \A x \in People \ {draft[e].name} : param'[x] = param[x]
      /\ param'[draft[e].name] = [param[draft[e].name] EXCEPT ![f] = Blank]
      /\ param' \in [People -> [Fields -> Value]]
    BY <1>1 DEF IInv, Typed, Value
<1>3. \A p \in People :
        /\ param'[p].name \in {param[p].name, Blank}
        /\ param'[p].approved \in {param[p].approved, Blank}
        /\ param'[p].github \in {param[p].github, Blank}
        /\ param'[p].k8s \in {param[p].k8s, Blank}
        /\ param'[p].emails \in {param[p].emails, Blank}
    BY <1>1, <1>2 DEF IInv, Typed, Fields
<1>4. \A p \in People : EmailsIn(param'[p]) \subseteq EmailsIn(param[p])
    BY <1>3 DEF EmailsIn
<1>5. Typed' /\ Stamped'
    BY <1>1, <1>2, <1>3 DEF IInv, Typed, Stamped
<1>6. Drafted' /\ OneAtATime'
    BY <1>1 DEF IInv, Drafted, OneAtATime
<1>7. Cleared'
    <2> SUFFICES ASSUME ~raced, NEW x \in Editors, pc[x] = "write"
                 PROVE  FALSE
        BY <1>1 DEF Cleared
    <2> QED
        BY <1>1 DEF IInv, OneAtATime
<1>8. Distinct'
    BY <1>1, <1>3, <1>4 DEF IInv, Distinct
<1> QED
    BY <1>5, <1>6, <1>7, <1>8 DEF IInv

LEMMA LeaveStep ==
    ASSUME IInv, NEW e \in Editors, Leave(e), UNCHANGED param
    PROVE  IInv'
<1>1. /\ pc' \in [Editors -> Labels] /\ pc'[e] = "idle"
      /\ \A x \in Editors \ {e} : pc'[x] = pc[x] /\ draft'[x] = draft[x]
      /\ draft'[e] = NoEntry
    BY DEF Leave, Goto, IInv, Typed, Labels
<1>2. draft' \in [Editors -> [Fields -> Value]]
    BY BlankEntry DEF Leave, IInv, Typed
<1>3. Typed' /\ Stamped' /\ Distinct'
    BY <1>1, <1>2 DEF Leave, IInv, Typed, Stamped, Distinct
<1>4. Drafted' /\ OneAtATime' /\ Cleared'
    BY <1>1 DEF Leave, IInv, Drafted, OneAtATime, Cleared
<1> QED
    BY <1>3, <1>4 DEF IInv

-----------------------------------------------------------------------------
(* Every step, and the theorems.                                           *)

LEMMA StepIInv ==
    ASSUME IInv, [Next]_vars
    PROVE  IInv'
<1>1. CASE UNCHANGED vars
    BY <1>1 DEF vars, memo, IInv, Typed, Stamped, Drafted, OneAtATime, Cleared, Distinct
<1>2. CASE Next
    <2>1. PICK e \in Editors :
            \/ \E d \in Drafts : PutPerson(e, d)
            \/ \E p \in People : DeletePerson(e, p)
            \/ Approve(e) \/ Get(e) \/ Check(e)
            \/ WriteField(e) \/ DropField(e)
            \/ Success(e) \/ Failure(e)
        BY <1>2 DEF Next
    <2>2. CASE Success(e) \/ Failure(e)
        BY <2>2, LeaveStep DEF Success, Failure
    <2> QED
        BY <2>1, <2>2, PutPersonStep, DeletePersonStep, ApproveStep, GetStep, CheckStep,
           WriteFieldStep, DropFieldStep
<1> QED
    BY <1>1, <1>2

\* The inductive invariant holds throughout: what a lone request has checked
\* (CheckInvariants) stays true until it has written its last field.
THEOREM MappingInvariant == Spec => []IInv
<1>1. Init => IInv
    BY InitIInv
<1>2. IInv /\ [Next]_vars => IInv'
    BY StepIInv
<1> QED
    BY <1>1, <1>2, PTL DEF Spec

\* The type invariant: what a request holds is a draft exactly while it runs, and
\* an operator has signed what it is about to write (PutPerson).
THEOREM MappingTyped == Spec => []TypeOK
<1>1. IInv => TypeOK
    <2> SUFFICES ASSUME IInv PROVE TypeOK
        OBVIOUS
    <2>1. \A e \in Editors : pc[e] = "idle" <=> draft[e] = NoEntry
        <3>1. NoEntry.name \notin People
            BY DraftsAreValid DEF NoEntry, Fields
        <3> QED
            BY <3>1 DEF IInv, Drafted
    <2> QED
        BY <2>1 DEF IInv, Typed, Stamped, Drafted, TypeOK, Labels
<1> QED
    BY <1>1, MappingInvariant, PTL

\* However many requests died half way (Put, CheckInvariants): unless two
\* overlapped, no login, address or abbreviation is stored for two people.
THEOREM PeopleStayDistinct == Spec => []Distinct
<1>1. IInv => Distinct
    BY DEF IInv
<1> QED
    BY <1>1, MappingInvariant, PTL

-----------------------------------------------------------------------------
(* What a request leaves.  An operator who has a person to themselves writes *)
(* and deletes until nothing of the former entry is left, whoever gave up    *)
(* half way before.                                                          *)

Within(fields) == {fields[i] : i \in DOMAIN fields}

\* What a request is to leave of its person, and the fields it has yet to touch.
Target(e) == IF Deletes(e) THEN NoEntry ELSE draft[e]
Owed(e) == left[e] \union Within(drop[e])

Begun ==
    \A e \in Editors :
        /\ pc[e] \in {"idle", "stamp", "get", "check", "drop"} => left[e] = {}
        /\ pc[e] \in {"stamp", "get", "check"} => draft[e].class # Blank
        /\ pc[e] = "write" => ~Deletes(e)
        /\ pc[e] \in {"write", "drop"} => \A f \in Within(drop[e]) : Target(e)[f] = Blank
        /\ pc[e] # "idle" => settled[draft[e].name] = Unsure

Alone ==
    \A e \in clean :
        /\ pc[e] # "idle"
        /\ \A x \in Editors :
            pc[x] # "idle" /\ draft[x].name = draft[e].name => x = e

Done ==
    \A e \in clean : pc[e] \in {"write", "drop"} =>
        \A f \in Fields \ Owed(e) : param[draft[e].name][f] = Target(e)[f]

Shaped == drop \in [Editors -> Seq(Fields)] /\ DOMAIN settled = People

Whole == Shaped /\ Begun /\ Alone /\ Done /\ SuccessIsWhole

\* Without overlapping requests, what was read of a person stays what is
\* stored until the request itself writes it.
Kept ==
    /\ DOMAIN existing = Editors
    /\ ~raced => \A e \in Editors :
        LET stored == param[draft[e].name]
        IN  /\ pc[e] = "check" => existing[e] = stored
            /\ pc[e] \in {"write", "drop"} /\ ~Deletes(e) =>
                /\ stored.k8s # Blank => draft[e].k8s = stored.k8s
                /\ draft[e].approved \in Editors
            /\ pc[e] \in {"get", "check", "write", "drop"} /\ ~Deletes(e)
               /\ e \notin unread /\ stored.approved # Blank
                => draft[e].approved = stored.approved

-----------------------------------------------------------------------------
(* The fields a request still owes.                                          *)

LEMMA WithinTail ==
    ASSUME NEW s \in Seq(Fields), s # <<>>
    PROVE  /\ Tail(s) \in Seq(Fields)
           /\ Head(s) \in Fields
           /\ Within(s) = {Head(s)} \union Within(Tail(s))
<1>1. /\ Len(s) \in Nat /\ Len(s) >= 1
      /\ DOMAIN s = 1 .. Len(s)
      /\ Tail(s) \in Seq(Fields) /\ Head(s) \in Fields /\ Head(s) = s[1]
      /\ DOMAIN Tail(s) = 1 .. Len(s) - 1
      /\ \A i \in 1 .. Len(s) - 1 : Tail(s)[i] = s[i + 1]
    OBVIOUS
<1>2. Within(s) \subseteq {Head(s)} \union Within(Tail(s))
    <2> SUFFICES ASSUME NEW i \in 1 .. Len(s)
                 PROVE  s[i] = Head(s) \/ s[i] \in Within(Tail(s))
        BY <1>1 DEF Within
    <2>1. CASE i = 1
        BY <1>1, <2>1
    <2>2. CASE i # 1
        <3>1. i - 1 \in DOMAIN Tail(s) /\ Tail(s)[i - 1] = s[i]
            BY <1>1, <2>2
        <3> QED
            BY <3>1 DEF Within
    <2> QED
        BY <2>1, <2>2
<1>3. {Head(s)} \union Within(Tail(s)) \subseteq Within(s)
    <2>1. 1 \in DOMAIN s
        BY <1>1
    <2>2. \A i \in 1 .. Len(s) - 1 : i + 1 \in DOMAIN s
        BY <1>1
    <2> QED
        BY <1>1, <2>1, <2>2 DEF Within
<1> QED
    BY <1>1, <1>2, <1>3

LEMMA WithinConcat ==
    ASSUME NEW s \in Seq(Fields), NEW t \in Seq(Fields)
    PROVE  /\ s \o t \in Seq(Fields)
           /\ Within(s \o t) = Within(s) \union Within(t)
<1>1. /\ Len(s) \in Nat /\ Len(t) \in Nat
      /\ DOMAIN s = 1 .. Len(s) /\ DOMAIN t = 1 .. Len(t)
      /\ s \o t \in Seq(Fields)
      /\ DOMAIN (s \o t) = 1 .. (Len(s) + Len(t))
      /\ \A i \in 1 .. Len(s) : (s \o t)[i] = s[i]
      /\ \A i \in 1 .. Len(t) : (s \o t)[Len(s) + i] = t[i]
    OBVIOUS
<1>2. Within(s \o t) \subseteq Within(s) \union Within(t)
    <2> SUFFICES ASSUME NEW i \in 1 .. (Len(s) + Len(t)), i \notin 1 .. Len(s)
                 PROVE  (s \o t)[i] \in Within(t)
        BY <1>1 DEF Within
    <2>1. i - Len(s) \in 1 .. Len(t) /\ i = Len(s) + (i - Len(s))
        BY <1>1
    <2>2. (s \o t)[i] = t[i - Len(s)]
        BY <1>1, <2>1
    <2> QED
        BY <1>1, <2>1, <2>2 DEF Within
<1>3. Within(s) \subseteq Within(s \o t)
    <2>1. \A i \in 1 .. Len(s) : i \in DOMAIN (s \o t)
        BY <1>1
    <2> QED
        BY <1>1, <2>1 DEF Within
<1>4. Within(t) \subseteq Within(s \o t)
    <2>1. \A i \in 1 .. Len(t) : Len(s) + i \in DOMAIN (s \o t)
        BY <1>1
    <2> QED
        BY <1>1, <2>1 DEF Within
<1> QED
    BY <1>1, <1>2, <1>3, <1>4

LEMMA WithinIfBlank ==
    ASSUME NEW d, NEW f \in Fields
    PROVE  /\ IfBlank(d, f) \in Seq(Fields)
           /\ Within(IfBlank(d, f)) = {x \in {f} : d[x] = Blank}
<1>1. CASE d[f] = Blank
    <2>1. <<f>> \in Seq(Fields) /\ DOMAIN <<f>> = {1} /\ <<f>>[1] = f
        OBVIOUS
    <2> QED
        BY <1>1, <2>1 DEF IfBlank, Within
<1>2. CASE d[f] # Blank
    BY <1>2 DEF IfBlank, Within
<1> QED
    BY <1>1, <1>2

\* What Put deletes is what the entry leaves blank, of what may be blank.
LEMMA WithinEmptied ==
    ASSUME NEW d
    PROVE  /\ Emptied(d) \in Seq(Fields)
           /\ Within(Emptied(d)) = {f \in {"k8s", "emails", "pinned", "approved"} : d[f] = Blank}
<1> DEFINE a == IfBlank(d, "k8s") \o IfBlank(d, "emails")
           b == a \o IfBlank(d, "pinned")
<1>1. {"k8s", "emails", "pinned", "approved"} \subseteq Fields
    BY DEF Fields
<1>2. /\ a \in Seq(Fields)
      /\ Within(a) = Within(IfBlank(d, "k8s")) \union Within(IfBlank(d, "emails"))
    BY <1>1, WithinIfBlank, WithinConcat
<1> HIDE DEF a
<1>3. b \in Seq(Fields) /\ Within(b) = Within(a) \union Within(IfBlank(d, "pinned"))
    BY <1>1, <1>2, WithinIfBlank, WithinConcat
<1> HIDE DEF b
<1>4. /\ b \o IfBlank(d, "approved") \in Seq(Fields)
      /\ Within(b \o IfBlank(d, "approved")) = Within(b) \union Within(IfBlank(d, "approved"))
    BY <1>1, <1>3, WithinIfBlank, WithinConcat
<1>5. Emptied(d) = b \o IfBlank(d, "approved")
    BY DEF Emptied, a, b
<1>6. Within(Emptied(d)) = Within(IfBlank(d, "k8s")) \union Within(IfBlank(d, "emails"))
          \union Within(IfBlank(d, "pinned")) \union Within(IfBlank(d, "approved"))
    BY <1>2, <1>3, <1>4, <1>5
<1> QED
    BY <1>1, <1>4, <1>5, <1>6, WithinIfBlank

LEMMA WithinDeleteOrder == DeleteOrder \in Seq(Fields) /\ Within(DeleteOrder) = Fields
<1>1. DeleteOrder \in Seq(Fields) /\ DOMAIN DeleteOrder = 1 .. 7
    BY DEF DeleteOrder, Fields
<1>2. {DeleteOrder[i] : i \in 1 .. 7} = Fields
    BY DEF DeleteOrder, Fields
<1> QED
    BY <1>1, <1>2 DEF Within

-----------------------------------------------------------------------------
(* The steps of a request again, for what it leaves.                         *)

LEMMA InitWhole ==
    ASSUME Init
    PROVE  Whole /\ Kept
<1>1. Shaped /\ settled = param
    BY DEF Init, Shaped
<1>2. Begun
    BY DEF Init, Begun
<1> QED
    BY <1>1, <1>2 DEF Init, Whole, Alone, Done, SuccessIsWhole, Kept

\* A request that begins finds no other at work on the person, or is not clean,
\* and nor are those.
LEMMA BeginWhole ==
    ASSUME IInv, Whole, NEW e \in Editors, NEW p \in People, Begin(e, p),
           draft' \in [Editors -> [Fields -> Value]],
           \A x \in Editors \ {e} : draft'[x] = draft[x],
           draft'[e].name = p,
           NEW label \in {"stamp", "drop"}, Goto(e, label),
           drop' \in [Editors -> Seq(Fields)],
           \A x \in Editors \ {e} : drop'[x] = drop[x],
           label = "stamp" => draft'[e].class # Blank,
           label = "drop" => Within(drop'[e]) = Fields /\ Target(e)' = NoEntry,
           UNCHANGED <<param, left>>
    PROVE  Whole'
<1>1. /\ pc[e] = "idle"
      /\ settled' = [settled EXCEPT ![p] = Unsure]
      /\ clean' = IF {x \in Editors \ {e} : pc[x] # "idle" /\ draft[x].name = p} = {}
                  THEN clean \union {e}
                  ELSE clean \ {x \in Editors \ {e} : pc[x] # "idle" /\ draft[x].name = p}
    BY DEF Begin
<1>2. /\ pc'[e] = label
      /\ \A x \in Editors \ {e} : pc'[x] = pc[x]
    BY DEF IInv, Typed, Goto
<1>3. DOMAIN settled' = People /\ settled'[p] = Unsure
    BY <1>1 DEF Whole, Shaped
<1>4. \A x \in Editors \ {e} : Target(x)' = Target(x) /\ Deletes(x)' = Deletes(x) /\ Owed(x)' = Owed(x)
    BY DEF Target, Deletes, Owed
<1>5. Begun'
    <2> SUFFICES ASSUME NEW x \in Editors
                 PROVE  /\ pc'[x] \in {"idle", "stamp", "get", "check", "drop"} => left'[x] = {}
                        /\ pc'[x] \in {"stamp", "get", "check"} => draft'[x].class # Blank
                        /\ pc'[x] = "write" => ~Deletes(x)'
                        /\ pc'[x] \in {"write", "drop"} =>
                              \A f \in Within(drop'[x]) : Target(x)'[f] = Blank
                        /\ pc'[x] # "idle" => settled'[draft'[x].name] = Unsure
        BY DEF Begun
    <2>1. CASE x = e
        <3>1. left[e] = {}
            BY <1>1 DEF Whole, Begun
        <3>2. label = "drop" => \A f \in Within(drop'[e]) : Target(e)'[f] = Blank
            BY DEF NoEntry
        <3> QED
            BY <1>2, <1>3, <2>1, <3>1, <3>2
    <2>2. CASE x # e
        <3>1. pc[x] # "idle" => draft[x].name \in People /\ settled[draft[x].name] = Unsure
            BY DEF Whole, Begun, IInv, Drafted
        <3>2. pc[x] # "idle" => settled'[draft[x].name] = Unsure
            BY <1>1, <3>1 DEF Whole, Shaped
        <3> QED
            BY <1>2, <1>4, <2>2, <3>2 DEF Whole, Begun
    <2> QED
        BY <2>1, <2>2
<1>6. Alone'
    <2> SUFFICES ASSUME NEW c \in clean'
                 PROVE  /\ pc'[c] # "idle"
                        /\ \A x \in Editors :
                            pc'[x] # "idle" /\ draft'[x].name = draft'[c].name => x = c
        BY DEF Alone
    <2>1. c \in Editors
        BY <1>1 DEF IInv, Typed
    <2>2. CASE c = e
        <3>1. e \notin clean
            BY <1>1 DEF Whole, Alone
        <3>2. \A x \in Editors \ {e} : pc[x] # "idle" => draft[x].name # p
            BY <1>1, <2>2, <3>1
        <3> QED
            BY <1>2, <2>2, <3>2
    <2>3. CASE c # e
        <3>1. c \in clean /\ draft[c].name # p
            BY <1>1, <2>1, <2>3 DEF Whole, Alone
        <3> QED
            BY <1>2, <2>1, <2>3, <3>1 DEF Whole, Alone
    <2> QED
        BY <2>2, <2>3
<1>7. Done'
    <2> SUFFICES ASSUME NEW c \in clean', pc'[c] \in {"write", "drop"},
                        NEW f \in Fields, f \notin Owed(c)'
                 PROVE  param[draft'[c].name][f] = Target(c)'[f]
        BY DEF Done
    <2>1. CASE c = e
        BY <1>2, <2>1 DEF Owed
    <2>2. CASE c # e
        <3>1. c \in clean /\ c \in Editors
            BY <1>1, <2>2 DEF IInv, Typed
        <3> QED
            BY <1>2, <1>4, <2>2, <3>1 DEF Whole, Done
    <2> QED
        BY <2>1, <2>2
<1>8. SuccessIsWhole'
    BY <1>1 DEF Whole, Shaped, SuccessIsWhole
<1> QED
    BY <1>3, <1>5, <1>6, <1>7, <1>8 DEF Whole, Shaped

LEMMA PutPersonWhole ==
    ASSUME IInv, Whole, NEW e \in Editors, NEW d \in Drafts, PutPerson(e, d)
    PROVE  Whole'
<1>1. draft' = [draft EXCEPT ![e] = d]
    BY DEF PutPerson
<1>2. draft' \in [Editors -> [Fields -> Value]] /\ draft'[e] = d
    BY <1>1, DraftTyped DEF IInv, Typed
<1>3. \A x \in Editors \ {e} : draft'[x] = draft[x]
    BY <1>1 DEF IInv, Typed
<1>4. UNCHANGED drop /\ d.class # Blank
    BY DraftsAreValid DEF PutPerson, Required
<1> QED
    BY <1>2, <1>3, <1>4, DraftTyped, BeginWhole DEF PutPerson, Whole, Shaped

LEMMA DeletePersonWhole ==
    ASSUME IInv, Whole, NEW e \in Editors, NEW p \in People, DeletePerson(e, p)
    PROVE  Whole'
<1> DEFINE d == [NoEntry EXCEPT !.name = p]
<1>1. draft' = [draft EXCEPT ![e] = d]
    BY DEF DeletePerson
<1>2. d \in [Fields -> Value] /\ d.name = p /\ d.github = Blank
    BY BlankEntry DEF Value, Fields, NoEntry
<1>3. draft' \in [Editors -> [Fields -> Value]] /\ draft'[e] = d
    BY <1>1, <1>2 DEF IInv, Typed
<1>4. \A x \in Editors \ {e} : draft'[x] = draft[x]
    BY <1>1 DEF IInv, Typed
<1> HIDE DEF d
<1>5. /\ drop' \in [Editors -> Seq(Fields)]
      /\ drop'[e] = DeleteOrder
      /\ \A x \in Editors \ {e} : drop'[x] = drop[x]
    BY WithinDeleteOrder DEF DeletePerson, Whole, Shaped
<1>6. Within(drop'[e]) = Fields /\ Target(e)' = NoEntry
    BY <1>2, <1>3, <1>5, WithinDeleteOrder DEF Target, Deletes
<1>7. draft'[e].name = p
    BY <1>2, <1>3
<1>8. Begin(e, p) /\ Goto(e, "drop") /\ UNCHANGED <<param, left>>
    BY DEF DeletePerson
<1> QED
    BY <1>3, <1>4, <1>5, <1>6, <1>7, <1>8, BeginWhole

\* Between the steps that write or end, a request prepares: its draft may be
\* signed, but nothing is owed yet.
LEMMA PrepareWhole ==
    ASSUME IInv, Whole, NEW e \in Editors,
           pc[e] \in {"stamp", "get"},
           NEW label \in {"get", "check"}, Goto(e, label),
           \A x \in Editors \ {e} : draft'[x] = draft[x],
           draft'[e].name = draft[e].name,
           draft'[e].class = draft[e].class,
           UNCHANGED <<param, left, drop, settled, clean>>
    PROVE  Whole'
<1>1. pc'[e] = label /\ \A x \in Editors \ {e} : pc'[x] = pc[x]
    BY DEF Goto, IInv, Typed
<1>2. \A x \in Editors \ {e} : Target(x)' = Target(x) /\ Deletes(x)' = Deletes(x)
    BY DEF Target, Deletes
<1>3. \A x \in Editors : Owed(x)' = Owed(x) /\ draft'[x].name = draft[x].name
    BY DEF Owed
<1>4. Begun'
    <2> SUFFICES ASSUME NEW x \in Editors
                 PROVE  /\ pc'[x] \in {"idle", "stamp", "get", "check", "drop"} => left[x] = {}
                        /\ pc'[x] \in {"stamp", "get", "check"} => draft'[x].class # Blank
                        /\ pc'[x] = "write" => ~Deletes(x)'
                        /\ pc'[x] \in {"write", "drop"} =>
                              \A f \in Within(drop[x]) : Target(x)'[f] = Blank
                        /\ pc'[x] # "idle" => settled[draft'[x].name] = Unsure
        BY DEF Begun
    <2>1. CASE x = e
        BY <1>1, <1>3, <2>1 DEF Whole, Begun
    <2>2. CASE x # e
        BY <1>1, <1>2, <1>3, <2>2 DEF Whole, Begun
    <2> QED
        BY <2>1, <2>2
<1>5. Alone'
    <2>1. \A x \in Editors : pc'[x] # "idle" <=> pc[x] # "idle"
        BY <1>1
    <2> QED
        BY <1>3, <2>1 DEF Whole, Alone, IInv, Typed
<1>6. Done'
    <2> SUFFICES ASSUME NEW c \in clean, pc'[c] \in {"write", "drop"},
                        NEW f \in Fields, f \notin Owed(c)
                 PROVE  param[draft'[c].name][f] = Target(c)'[f]
        BY <1>3 DEF Done, IInv, Typed
    <2>1. c \in Editors /\ c # e
        BY <1>1 DEF IInv, Typed
    <2> QED
        BY <1>1, <1>2, <1>3, <2>1 DEF Whole, Done
<1> QED
    BY <1>4, <1>5, <1>6 DEF Whole, Shaped, SuccessIsWhole

LEMMA ApproveWhole ==
    ASSUME IInv, Whole, NEW e \in Editors, Approve(e)
    PROVE  Whole'
<1>1. PICK by : draft' = [draft EXCEPT ![e].approved = by]
    BY DEF Approve, Stamp
<1>2. /\ draft'[e].name = draft[e].name
      /\ draft'[e].class = draft[e].class
      /\ \A x \in Editors \ {e} : draft'[x] = draft[x]
    BY <1>1 DEF IInv, Typed, Fields
<1> QED
    BY <1>2, PrepareWhole DEF Approve, memo

LEMMA GetWhole ==
    ASSUME IInv, Whole, NEW e \in Editors, Get(e)
    PROVE  Whole'
    BY PrepareWhole DEF Get, memo

\* The draft is split into what Put writes and what it deletes.
LEMMA CheckWhole ==
    ASSUME IInv, Whole, NEW e \in Editors, Check(e)
    PROVE  Whole'
<1>1. /\ pc[e] = "check"
      /\ left' = [left EXCEPT ![e] = {f \in Fields : draft[e][f] # Blank}]
      /\ drop' = [drop EXCEPT ![e] = Emptied(draft[e])]
      /\ UNCHANGED <<param, draft, settled, clean>>
    BY DEF Check, memo
<1>2. /\ pc'[e] = "write"
      /\ \A x \in Editors \ {e} : pc'[x] = pc[x]
    BY DEF Check, Goto, IInv, Typed
<1>3. /\ drop' \in [Editors -> Seq(Fields)]
      /\ drop'[e] = Emptied(draft[e])
      /\ \A x \in Editors \ {e} : drop'[x] = drop[x]
    BY <1>1, WithinEmptied DEF Whole, Shaped
<1>4. /\ left'[e] = {f \in Fields : draft[e][f] # Blank}
      /\ \A x \in Editors \ {e} : left'[x] = left[x]
    BY <1>1 DEF IInv, Typed
<1>5. ~Deletes(e) /\ Target(e) = draft[e]
    BY <1>1 DEF IInv, Drafted, Deletes, Target
<1>6. \A x \in Editors : Target(x)' = Target(x) /\ Deletes(x)' = Deletes(x)
    BY <1>1 DEF Target, Deletes
<1>7. Begun'
    <2> SUFFICES ASSUME NEW x \in Editors
                 PROVE  /\ pc'[x] \in {"idle", "stamp", "get", "check", "drop"} => left'[x] = {}
                        /\ pc'[x] \in {"stamp", "get", "check"} => draft[x].class # Blank
                        /\ pc'[x] = "write" => ~Deletes(x)
                        /\ pc'[x] \in {"write", "drop"} =>
                              \A f \in Within(drop'[x]) : Target(x)[f] = Blank
                        /\ pc'[x] # "idle" => settled[draft[x].name] = Unsure
        BY <1>1, <1>6 DEF Begun
    <2>1. CASE x = e
        <3>1. \A f \in Within(drop'[e]) : Target(e)[f] = Blank
            BY <1>3, <1>5, WithinEmptied
        <3> QED
            BY <1>1, <1>2, <1>5, <2>1, <3>1 DEF Whole, Begun
    <2>2. CASE x # e
        BY <1>2, <1>3, <1>4, <2>2 DEF Whole, Begun
    <2> QED
        BY <2>1, <2>2
<1>8. Alone'
    <2>1. \A x \in Editors : pc'[x] # "idle" <=> pc[x] # "idle"
        BY <1>1, <1>2
    <2> QED
        BY <1>1, <2>1 DEF Whole, Alone, IInv, Typed
<1>9. Done'
    <2> SUFFICES ASSUME NEW c \in clean, pc'[c] \in {"write", "drop"},
                        NEW f \in Fields, f \notin Owed(c)'
                 PROVE  param[draft[c].name][f] = Target(c)[f]
        BY <1>1, <1>6 DEF Done, IInv, Typed
    <2>1. c \in Editors
        BY DEF IInv, Typed
    <2>2. CASE c = e
        <3>1. draft[e][f] = Blank
            BY <1>4, <2>2 DEF Owed
        <3>2. f \notin Within(Emptied(draft[e]))
            BY <1>3, <2>2 DEF Owed
        <3>3. f \in {"name", "github", "class"}
            BY <3>1, <3>2, WithinEmptied DEF Fields
        <3>4. draft[e].name # Blank /\ draft[e].github # Blank
            BY <1>1, DraftsAreValid DEF IInv, Drafted
        <3>5. draft[e].class # Blank
            BY <1>1 DEF Whole, Begun
        <3> QED
            BY <3>1, <3>3, <3>4, <3>5
    <2>3. CASE c # e
        <3>1. Owed(c)' = Owed(c)
            BY <1>3, <1>4, <2>1, <2>3 DEF Owed
        <3> QED
            BY <1>2, <2>1, <2>3, <3>1 DEF Whole, Done
    <2> QED
        BY <2>2, <2>3
<1> QED
    BY <1>1, <1>3, <1>7, <1>8, <1>9 DEF Whole, Shaped, SuccessIsWhole

\* A field written or deleted is no longer owed, and is what it should be.
LEMMA TouchWhole ==
    ASSUME IInv, Whole, NEW e \in Editors, pc[e] \in {"write", "drop"},
           NEW f \in Fields,
           param' = [param EXCEPT ![draft[e].name][f] = Target(e)[f]],
           \A x \in Editors \ {e} : pc'[x] = pc[x] /\ left'[x] = left[x] /\ drop'[x] = drop[x],
           drop' \in [Editors -> Seq(Fields)],
           pc'[e] \in {"write", "drop"},
           pc[e] = "drop" \/ left'[e] = {} => pc'[e] = "drop" /\ left'[e] = {},
           left'[e] # {} => pc'[e] = "write" /\ pc[e] = "write",
           Within(drop'[e]) \subseteq Within(drop[e]),
           Owed(e) \subseteq Owed(e)' \union {f},
           UNCHANGED <<draft, settled, clean>>
    PROVE  Whole'
<1> DEFINE p == draft[e].name
<1>1. /\ p \in People /\ settled[p] = Unsure
      /\ param'[p][f] = Target(e)[f]
      /\ \A g \in Fields \ {f} : param'[p][g] = param[p][g]
      /\ \A q \in People \ {p} : param'[q] = param[q]
    BY DEF IInv, Drafted, Typed, Whole, Begun
<1>2. \A x \in Editors : Target(x)' = Target(x) /\ Deletes(x)' = Deletes(x)
    BY DEF Target, Deletes
<1>3. pc'[e] = "write" => pc[e] = "write"
    OBVIOUS
<1>4. Begun'
    <2> SUFFICES ASSUME NEW x \in Editors
                 PROVE  /\ pc'[x] \in {"idle", "stamp", "get", "check", "drop"} => left'[x] = {}
                        /\ pc'[x] \in {"stamp", "get", "check"} => draft[x].class # Blank
                        /\ pc'[x] = "write" => ~Deletes(x)
                        /\ pc'[x] \in {"write", "drop"} =>
                              \A g \in Within(drop'[x]) : Target(x)[g] = Blank
                        /\ pc'[x] # "idle" => settled[draft[x].name] = Unsure
        BY <1>2 DEF Begun
    <2>1. CASE x = e
        BY <1>1, <1>3, <2>1 DEF Whole, Begun
    <2>2. CASE x # e
        BY <2>2 DEF Whole, Begun
    <2> QED
        BY <2>1, <2>2
<1>5. Alone'
    <2>1. \A x \in Editors : pc'[x] # "idle" <=> pc[x] # "idle"
        OBVIOUS
    <2> QED
        BY <2>1 DEF Whole, Alone, IInv, Typed
<1>6. Done'
    <2> SUFFICES ASSUME NEW c \in clean, pc'[c] \in {"write", "drop"},
                        NEW g \in Fields, g \notin Owed(c)'
                 PROVE  param'[draft[c].name][g] = Target(c)[g]
        BY <1>2 DEF Done, IInv, Typed
    <2>1. c \in Editors
        BY DEF IInv, Typed
    <2>2. CASE c = e
        BY <1>1, <2>2 DEF Whole, Done
    <2>3. CASE c # e
        <3>1. Owed(c)' = Owed(c) /\ pc[c] \in {"write", "drop"}
            BY <2>1, <2>3 DEF Owed
        <3>2. draft[c].name # p /\ draft[c].name \in People
            BY <2>1, <2>3, <3>1 DEF Whole, Alone, IInv, Drafted
        <3> QED
            BY <1>1, <3>1, <3>2 DEF Whole, Done
    <2> QED
        BY <2>2, <2>3
<1>7. SuccessIsWhole'
    BY <1>1 DEF Whole, SuccessIsWhole
<1> QED
    BY <1>4, <1>5, <1>6, <1>7 DEF Whole, Shaped

LEMMA WriteFieldWhole ==
    ASSUME IInv, Whole, NEW e \in Editors, WriteField(e)
    PROVE  Whole'
<1>1. PICK f \in left[e] :
        /\ param' = [param EXCEPT ![draft[e].name][f] = draft[e][f]]
        /\ left' = [left EXCEPT ![e] = @ \ {f}]
        /\ Goto(e, IF left[e] = {f} THEN "drop" ELSE "write")
    BY DEF WriteField
<1>2. /\ pc[e] = "write" /\ f \in Fields
      /\ UNCHANGED <<draft, drop, settled, clean>>
    BY DEF WriteField, memo, IInv, Typed
<1>3. /\ pc'[e] = IF left[e] = {f} THEN "drop" ELSE "write"
      /\ \A x \in Editors \ {e} : pc'[x] = pc[x]
    BY <1>1 DEF Goto, IInv, Typed
<1>4. /\ left'[e] = left[e] \ {f}
      /\ \A x \in Editors \ {e} : left'[x] = left[x]
    BY <1>1 DEF IInv, Typed
<1>5. Target(e) = draft[e]
    BY <1>2 DEF Whole, Begun, Target
<1>6. left'[e] = {} <=> left[e] = {f}
    BY <1>4
<1>7. Owed(e) \subseteq Owed(e)' \union {f}
    BY <1>2, <1>4 DEF Owed
<1>8. drop' \in [Editors -> Seq(Fields)]
    BY <1>2 DEF Whole, Shaped
<1> QED
    BY <1>1, <1>2, <1>3, <1>4, <1>5, <1>6, <1>7, <1>8, TouchWhole

LEMMA DropFieldWhole ==
    ASSUME IInv, Whole, NEW e \in Editors, DropField(e)
    PROVE  Whole'
<1> DEFINE f == Head(drop[e])
<1>1. /\ pc[e] = "drop"
      /\ drop[e] # <<>> /\ drop[e] \in Seq(Fields)
      /\ param' = [param EXCEPT ![draft[e].name][f] = Blank]
      /\ drop' = [drop EXCEPT ![e] = Tail(@)]
      /\ UNCHANGED <<pc, left, draft, settled, clean>>
      /\ left[e] = {}
    BY DEF DropField, memo, Whole, Shaped, Begun
<1>2. /\ f \in Fields /\ Tail(drop[e]) \in Seq(Fields)
      /\ Within(drop[e]) = {f} \union Within(Tail(drop[e]))
    BY <1>1, WithinTail
<1> HIDE DEF f
<1>3. /\ drop' \in [Editors -> Seq(Fields)]
      /\ drop'[e] = Tail(drop[e])
      /\ \A x \in Editors \ {e} : drop'[x] = drop[x]
    BY <1>1, <1>2 DEF Whole, Shaped
<1>4. Target(e)[f] = Blank
    BY <1>1, <1>2 DEF Whole, Begun
<1>5. Owed(e) \subseteq Owed(e)' \union {f} /\ Within(drop'[e]) \subseteq Within(drop[e])
    BY <1>1, <1>2, <1>3 DEF Owed
<1> QED
    BY <1>1, <1>2, <1>3, <1>4, <1>5, TouchWhole

\* A request that ends owes nothing, or says nothing.
LEMMA LeaveWhole ==
    ASSUME IInv, Whole, NEW e \in Editors, Leave(e), UNCHANGED param, pc[e] # "idle",
           DOMAIN settled' = People,
           NEW p \in People, p = draft[e].name,
           \A q \in People \ {p} : settled'[q] = settled[q],
           settled'[p] # Unsure => settled'[p] = param[p] /\ e \in clean
    PROVE  Whole'
<1>1. /\ pc'[e] = "idle" /\ left'[e] = {} /\ drop'[e] = <<>>
      /\ \A x \in Editors \ {e} :
            /\ pc'[x] = pc[x] /\ draft'[x] = draft[x]
            /\ left'[x] = left[x] /\ drop'[x] = drop[x]
      /\ clean' = clean \ {e}
    BY DEF Leave, Goto, IInv, Typed, Whole, Shaped
<1>2. Shaped'
    BY DEF Leave, Whole, Shaped
<1>3. \A x \in Editors \ {e} :
        Target(x)' = Target(x) /\ Deletes(x)' = Deletes(x) /\ Owed(x)' = Owed(x)
    BY <1>1 DEF Target, Deletes, Owed
<1>4. Begun'
    <2> SUFFICES ASSUME NEW x \in Editors
                 PROVE  /\ pc'[x] \in {"idle", "stamp", "get", "check", "drop"} => left'[x] = {}
                        /\ pc'[x] \in {"stamp", "get", "check"} => draft'[x].class # Blank
                        /\ pc'[x] = "write" => ~Deletes(x)'
                        /\ pc'[x] \in {"write", "drop"} =>
                              \A g \in Within(drop'[x]) : Target(x)'[g] = Blank
                        /\ pc'[x] # "idle" => settled'[draft'[x].name] = Unsure
        BY DEF Begun
    <2>1. CASE x = e
        BY <1>1, <2>1
    <2>2. CASE x # e /\ pc[x] = "idle"
        BY <1>1, <2>2 DEF Whole, Begun
    <2>3. CASE x # e /\ pc[x] # "idle"
        <3>1. settled[draft[x].name] = Unsure /\ draft[x].name \in People
            BY <2>3 DEF Whole, Begun, IInv, Drafted
        <3>2. draft[x].name = p => e \notin clean
            BY <2>3 DEF Whole, Alone
        <3>3. settled'[draft[x].name] = Unsure
            BY <3>1, <3>2
        <3> QED
            BY <1>1, <1>3, <2>3, <3>3 DEF Whole, Begun
    <2> QED
        BY <2>1, <2>2, <2>3
<1>5. Alone'
    <2> SUFFICES ASSUME NEW c \in clean'
                 PROVE  /\ pc'[c] # "idle"
                        /\ \A x \in Editors :
                            pc'[x] # "idle" /\ draft'[x].name = draft'[c].name => x = c
        BY DEF Alone
    <2>1. c \in clean /\ c # e /\ c \in Editors
        BY <1>1 DEF IInv, Typed
    <2> QED
        BY <1>1, <2>1 DEF Whole, Alone
<1>6. Done'
    <2> SUFFICES ASSUME NEW c \in clean', pc'[c] \in {"write", "drop"},
                        NEW g \in Fields, g \notin Owed(c)'
                 PROVE  param[draft'[c].name][g] = Target(c)'[g]
        BY DEF Done
    <2>1. c \in clean /\ c # e /\ c \in Editors
        BY <1>1 DEF IInv, Typed
    <2> QED
        BY <1>1, <1>3, <2>1 DEF Whole, Done
<1>7. SuccessIsWhole'
    BY DEF Whole, SuccessIsWhole
<1> QED
    BY <1>2, <1>4, <1>5, <1>6, <1>7 DEF Whole

LEMMA FailureWhole ==
    ASSUME IInv, Whole, NEW e \in Editors, Failure(e)
    PROVE  Whole'
<1>1. /\ draft[e].name \in People /\ settled[draft[e].name] = Unsure
      /\ DOMAIN settled = People
    BY DEF Failure, IInv, Drafted, Whole, Begun, Shaped
<1> QED
    BY <1>1, LeaveWhole DEF Failure

LEMMA SuccessWhole ==
    ASSUME IInv, Whole, NEW e \in Editors, Success(e)
    PROVE  Whole'
<1> DEFINE p == draft[e].name
<1>1. /\ pc[e] = "drop" /\ drop[e] = <<>> /\ left[e] = {}
      /\ p \in People /\ settled[p] = Unsure /\ DOMAIN settled = People
    BY DEF Success, IInv, Drafted, Whole, Begun, Shaped
<1>2. /\ settled'[p] = IF e \notin clean THEN Unsure ELSE Target(e)
      /\ DOMAIN settled' = People
      /\ \A q \in People \ {p} : settled'[q] = settled[q]
    BY <1>1 DEF Success, Target
<1>3. Owed(e) = {}
    BY <1>1 DEF Owed, Within
<1>4. ASSUME e \in clean
      PROVE  Target(e) = param[p]
    <2>1. \A f \in Fields : param[p][f] = Target(e)[f]
        BY <1>1, <1>3, <1>4 DEF Whole, Done
    <2>2. Target(e) \in [Fields -> Value] /\ param[p] \in [Fields -> Value]
        BY <1>1, BlankEntry DEF IInv, Typed, Target
    <2> QED
        BY <2>1, <2>2
<1>5. Leave(e) /\ UNCHANGED param
    BY DEF Success
<1> QED
    BY <1>1, <1>2, <1>4, <1>5, LeaveWhole

-----------------------------------------------------------------------------
(* The steps of a request for what it read.  Only one runs, or Kept says     *)
(* nothing.                                                                  *)

LEMMA OneLeftToKeep ==
    ASSUME IInv, ~raced, NEW e \in Editors, pc[e] # "idle"
    PROVE  \A x \in Editors \ {e} : pc[x] = "idle"
    BY DEF IInv, OneAtATime

LEMMA BeginKept ==
    ASSUME IInv, Kept, UNCHANGED existing, NEW e \in Editors, NEW p \in People, Begin(e, p),
           pc'[e] = "stamp" \/ Deletes(e)',
           \A x \in Editors \ {e} : pc'[x] = pc[x],
           pc'[e] \in {"stamp", "drop"}
    PROVE  Kept'
<1>1. raced' = (raced \/ {x \in Editors \ {e} : pc[x] # "idle"} # {})
    BY DEF Begin
<1>2. ASSUME ~raced', NEW x \in Editors \ {e} PROVE pc'[x] = "idle"
    BY <1>1, <1>2
<1> SUFFICES ASSUME ~raced', NEW x \in Editors
             PROVE  /\ pc'[x] # "check"
                    /\ pc'[x] \in {"get", "check", "write", "drop"} => Deletes(x)'
    BY DEF Kept
<1>3. CASE x = e
    BY <1>3
<1>4. CASE x # e
    BY <1>2, <1>4
<1> QED
    BY <1>3, <1>4

\* The steps in between, of the only request there is.
LEMMA LoneKept ==
    ASSUME IInv, NEW e \in Editors, pc[e] # "idle", raced' = raced,
           DOMAIN existing' = Editors,
           \A x \in Editors \ {e} : pc'[x] = pc[x],
           ~raced => (/\ pc'[e] = "check" => existing'[e] = param'[draft'[e].name]
                      /\ pc'[e] \in {"write", "drop"} /\ ~Deletes(e)' =>
                            /\ param'[draft'[e].name].k8s # Blank
                                => draft'[e].k8s = param'[draft'[e].name].k8s
                            /\ draft'[e].approved \in Editors
                      /\ pc'[e] \in {"get", "check", "write", "drop"} /\ ~Deletes(e)'
                         /\ e \notin unread' /\ param'[draft'[e].name].approved # Blank
                          => draft'[e].approved = param'[draft'[e].name].approved)
    PROVE  Kept'
<1> SUFFICES ASSUME ~raced, NEW x \in Editors, x # e
             PROVE  pc'[x] = "idle"
    BY DEF Kept
<1> QED
    BY OneLeftToKeep

\* The steps that leave the store alone.
LEMMA QuietKept ==
    ASSUME IInv, Kept, NEW e \in Editors, Approve(e) \/ Get(e) \/ Check(e)
    PROVE  Kept'
<1>1. CASE Approve(e)
    <2>1. PICK known \in BOOLEAN :
            /\ Stamp(e, known)
            /\ unread' = IF known THEN unread ELSE unread \union {e}
        BY <1>1 DEF Approve
    <2> DEFINE before == param[draft[e].name].approved
               by == IF known /\ before # Blank THEN before ELSE e
    <2>2. draft' = [draft EXCEPT ![e].approved = by]
        BY <2>1 DEF Stamp
    <2>3. draft'[e].name = draft[e].name /\ draft'[e].approved = by
        BY <2>2 DEF IInv, Typed, Fields
    <2>4. e \notin unread' => known
        BY <2>1
    <2>5. /\ pc[e] = "stamp" /\ pc'[e] = "get" /\ UNCHANGED <<param, raced>>
          /\ \A x \in Editors \ {e} : pc'[x] = pc[x]
        BY <1>1 DEF Approve, memo, Goto, IInv, Typed
    <2>6. DOMAIN existing' = Editors
        BY <1>1 DEF Approve, Kept
    <2> QED
        BY <2>3, <2>4, <2>5, <2>6, LoneKept
<1>2. CASE Get(e)
    <2>1. /\ pc[e] = "get" /\ pc'[e] = "check"
          /\ UNCHANGED <<param, draft, unread, raced>>
          /\ \A x \in Editors \ {e} : pc'[x] = pc[x]
        BY <1>2 DEF Get, memo, Goto, IInv, Typed
    <2>2. Deletes(e)' = Deletes(e)
        BY <2>1 DEF Deletes
    <2>3. existing'[e] = param[draft[e].name] /\ DOMAIN existing' = Editors
        BY <1>2 DEF Get, Kept
    <2> QED
        BY <2>1, <2>2, <2>3, LoneKept DEF Kept
<1>3. CASE Check(e)
    <2>1. /\ pc[e] = "check" /\ pc'[e] = "write"
          /\ Accepted(draft[e], existing[e])
          /\ UNCHANGED <<param, draft, existing, unread, raced>>
          /\ \A x \in Editors \ {e} : pc'[x] = pc[x]
        BY <1>3 DEF Check, memo, Goto, IInv, Typed
    <2>2. Deletes(e)' = Deletes(e)
        BY <2>1 DEF Deletes
    <2>3. existing[e].k8s # Blank => draft[e].k8s = existing[e].k8s
        BY <2>1 DEF Accepted
    <2>4. draft[e].approved \in Editors
        BY <2>1 DEF IInv, Drafted
    <2> QED
        BY <2>1, <2>2, <2>3, <2>4, LoneKept DEF Kept
<1> QED
    BY <1>1, <1>2, <1>3

\* What a step of the only request makes of an abbreviation and an approval.
LEMMA TouchKept ==
    ASSUME IInv, Whole, Kept, NEW e \in Editors, WriteField(e) \/ DropField(e)
    PROVE  /\ Kept'
           /\ ~raced => \A p \in People :
                /\ param[p].k8s # Blank =>
                    param'[p].k8s = param[p].k8s \/ Deleting(p)
                /\ param[p].approved # Blank =>
                    \/ param'[p].approved = param[p].approved
                    \/ Deleting(p)
                    \/ \E x \in unread : draft[x].name = p
<1> DEFINE n == draft[e].name
<1>1. /\ pc[e] \in {"write", "drop"} /\ pc'[e] \in {"write", "drop"}
      /\ \A x \in Editors \ {e} : pc'[x] = pc[x]
      /\ n \in People
      /\ UNCHANGED <<draft, existing, unread, raced>>
    BY DEF WriteField, DropField, memo, Goto, IInv, Typed, Drafted
<1>2. Deletes(e)' = Deletes(e)
    BY <1>1 DEF Deletes
<1>3. PICK f \in Fields : /\ param' = [param EXCEPT ![n][f] = Target(e)[f]]
                          /\ pc[e] = "write" => ~Deletes(e)
                          /\ DropField(e) => Target(e)[f] = Blank /\ pc[e] = "drop"
    <2>1. CASE WriteField(e)
        <3>1. /\ pc[e] = "write" /\ Target(e) = draft[e]
              /\ ~DropField(e)
            BY <2>1 DEF WriteField, DropField, Whole, Begun, Target
        <3> QED
            BY <2>1, <3>1 DEF WriteField, Whole, Begun, IInv, Typed
    <2>2. CASE DropField(e)
        <3> DEFINE h == Head(drop[e])
        <3>1. pc[e] = "drop" /\ drop[e] # <<>> /\ drop[e] \in Seq(Fields)
            BY <2>2 DEF DropField, Whole, Shaped
        <3>2. h \in Fields /\ h \in Within(drop[e])
            BY <3>1, WithinTail
        <3>3. Target(e)[h] = Blank
            BY <3>1, <3>2 DEF Whole, Begun
        <3>4. param' = [param EXCEPT ![n][h] = Blank]
            BY <2>2 DEF DropField
        <3> HIDE DEF h
        <3> QED
            BY <3>1, <3>2, <3>3, <3>4
    <2> QED
        BY <2>1, <2>2
<1>4. /\ \A q \in People \ {n} : param'[q] = param[q]
      /\ param'[n] = [param[n] EXCEPT ![f] = Target(e)[f]]
      /\ param[n] \in [Fields -> Value]
    BY <1>1, <1>3 DEF IInv, Typed
<1>5. /\ param'[n].k8s = IF f = "k8s" THEN Target(e).k8s ELSE param[n].k8s
      /\ param'[n].approved = IF f = "approved" THEN Target(e).approved ELSE param[n].approved
    BY <1>4 DEF Fields
<1>6. ~Deletes(e) => Target(e) = draft[e]
    BY DEF Target
<1>7. Kept'
    BY <1>1, <1>2, <1>5, <1>6, LoneKept DEF Kept
<1>8. ASSUME ~raced, NEW p \in People
      PROVE  /\ param[p].k8s # Blank =>
                param'[p].k8s = param[p].k8s \/ Deleting(p)
             /\ param[p].approved # Blank =>
                \/ param'[p].approved = param[p].approved
                \/ Deleting(p)
                \/ \E x \in unread : draft[x].name = p
    <2>1. CASE p # n
        BY <1>4, <2>1
    <2>2. CASE p = n /\ Deletes(e)
        <3>1. Deleting(p)
            BY <1>1, <1>3, <2>2 DEF Deleting
        <3> QED
            BY <3>1
    <2>3. CASE p = n /\ ~Deletes(e)
        <3>1. param[n].k8s # Blank => draft[e].k8s = param[n].k8s
            BY <1>1, <1>8, <2>3 DEF Kept
        <3>2. e \notin unread /\ param[n].approved # Blank => draft[e].approved = param[n].approved
            BY <1>1, <1>8, <2>3 DEF Kept
        <3> QED
            BY <1>5, <1>6, <2>3, <3>1, <3>2
    <2> QED
        BY <2>1, <2>2, <2>3
<1> QED
    BY <1>7, <1>8

LEMMA LeaveKept ==
    ASSUME IInv, Kept, NEW e \in Editors, Leave(e), pc[e] # "idle"
    PROVE  Kept'
<1>1. pc'[e] = "idle" /\ raced' = raced /\ \A x \in Editors \ {e} : pc'[x] = pc[x]
    BY DEF Leave, Goto, IInv, Typed
<1>2. DOMAIN existing' = Editors
    BY DEF Leave, Kept
<1> QED
    BY <1>1, <1>2, LoneKept

-----------------------------------------------------------------------------
(* Every step, and the theorems.                                             *)

LEMMA StepWhole ==
    ASSUME IInv, Whole, Kept, [Next]_vars
    PROVE  /\ Whole' /\ Kept'
           /\ ~raced => \A p \in People :
                /\ param[p].k8s # Blank =>
                    param'[p].k8s = param[p].k8s \/ Deleting(p)
                /\ param[p].approved # Blank =>
                    \/ param'[p].approved = param[p].approved
                    \/ Deleting(p)
                    \/ \E x \in unread : draft[x].name = p
<1>1. CASE UNCHANGED vars
    <2>1. UNCHANGED <<param, pc, draft, existing, left, drop, unread, settled, clean, raced>>
        BY <1>1 DEF vars, memo
    <2> QED
        BY <2>1 DEF Whole, Shaped, Begun, Alone, Done, SuccessIsWhole, Kept, Target, Owed, Deletes
<1>2. ASSUME NEW e \in Editors, NEW d \in Drafts, PutPerson(e, d)
      PROVE  Whole' /\ Kept' /\ param' = param
    <2>1. /\ Begin(e, d.name) /\ d.name \in People /\ UNCHANGED <<param, existing>>
          /\ pc'[e] = "stamp" /\ \A x \in Editors \ {e} : pc'[x] = pc[x]
        BY <1>2, DraftTyped DEF PutPerson, Goto, IInv, Typed
    <2> QED
        BY <1>2, <2>1, PutPersonWhole, BeginKept
<1>3. ASSUME NEW e \in Editors, NEW p \in People, DeletePerson(e, p)
      PROVE  Whole' /\ Kept' /\ param' = param
    <2>1. /\ Begin(e, p) /\ UNCHANGED <<param, existing>>
          /\ pc'[e] = "drop" /\ \A x \in Editors \ {e} : pc'[x] = pc[x]
        BY <1>3 DEF DeletePerson, Goto, IInv, Typed
    <2>2. draft'[e] = [NoEntry EXCEPT !.name = p]
        BY <1>3 DEF DeletePerson, IInv, Typed
    <2>3. Deletes(e)'
        BY <2>2 DEF Deletes, NoEntry, Fields
    <2> QED
        BY <1>3, <2>1, <2>3, DeletePersonWhole, BeginKept
<1>4. ASSUME NEW e \in Editors, Approve(e) \/ Get(e) \/ Check(e)
      PROVE  Whole' /\ Kept' /\ param' = param
    <2>1. param' = param
        BY <1>4 DEF Approve, Get, Check
    <2> QED
        BY <1>4, <2>1, ApproveWhole, GetWhole, CheckWhole, QuietKept
<1>5. ASSUME NEW e \in Editors, Success(e) \/ Failure(e)
      PROVE  Whole' /\ Kept' /\ param' = param
    <2>1. Leave(e) /\ pc[e] # "idle" /\ param' = param
        BY <1>5 DEF Success, Failure
    <2> QED
        BY <1>5, <2>1, SuccessWhole, FailureWhole, LeaveKept
<1>6. ASSUME NEW e \in Editors, WriteField(e) \/ DropField(e)
      PROVE  Whole'
    BY <1>6, WriteFieldWhole, DropFieldWhole
<1> QED
    BY <1>1, <1>2, <1>3, <1>4, <1>5, <1>6, TouchKept DEF Next

\* A request that reported success with the person for itself (Put, Delete) is
\* what is stored of the person until the next one begins, for any number of
\* operators and whichever requests died half way before.
THEOREM SuccessLasts == Spec => []SuccessIsWhole
<1>1. Init => IInv /\ Whole /\ Kept
    BY InitIInv, InitWhole
<1>2. IInv /\ Whole /\ Kept /\ [Next]_vars => IInv' /\ Whole' /\ Kept'
    BY StepIInv, StepWhole
<1>3. Whole => SuccessIsWhole
    BY DEF Whole
<1> QED
    BY <1>1, <1>2, <1>3, PTL DEF Spec

\* An abbreviation once assigned and an approval once given (CheckInvariants,
\* PutPerson) go only with the entry, unless requests overlapped or the
\* approval could not be read.
THEOREM AssignmentsStay == Spec => AssignedForGood
<1>1. Init => IInv /\ Whole /\ Kept
    BY InitIInv, InitWhole
<1>2. IInv /\ Whole /\ Kept /\ [Next]_vars => IInv' /\ Whole' /\ Kept'
    BY StepIInv, StepWhole
<1>3. IInv /\ Whole /\ Kept /\ [Next]_vars =>
        [~raced => \A p \in People :
            /\ param[p].k8s # Blank
                => param'[p].k8s = param[p].k8s \/ Deleting(p)
            /\ param[p].approved # Blank
                => \/ param'[p].approved = param[p].approved
                   \/ Deleting(p)
                   \/ \E e \in unread : draft[e].name = p]_vars
    BY StepWhole
<1> QED
    BY <1>1, <1>2, <1>3, PTL DEF Spec, AssignedForGood

=============================================================================
