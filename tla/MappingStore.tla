---------------------------- MODULE MappingStore ----------------------------
(***************************************************************************)
(* The mapping (src/pkg/mapping) as operators edit it: an entry is one     *)
(* parameter per field, a console request reads, checks and then writes    *)
(* field by field, and it may fail or die between any two calls.           *)
(*                                                                         *)
(* An entry is a record of fields, Blank where there is no parameter;      *)
(* which is also what entryFrom makes of the parameters it finds.  Emails  *)
(* are a sequence.  approved stands for approvedBy and approvedAt.         *)
(***************************************************************************)
EXTENDS Naturals, Sequences, FiniteSets

CONSTANTS
    People,       \* display names; no two have the same slug
    Editors,      \* operators, each with one request at a time
    Drafts,       \* the entries they submit, not yet stamped
    Declared,     \* the people declared in git, refused by the overlay
    MaxRequests,  \* bound: requests
    Blank, Unsure

Fields == {"name", "github", "class", "emails", "k8s", "pinned", "approved"}
Required == {"name", "github", "class"}

EmailsIn(entry) == IF entry.emails = Blank
                   THEN {}
                   ELSE {entry.emails[i] : i \in DOMAIN entry.emails}

\* ValidateEntry, on what the console has trimmed.
ASSUME DraftsAreValid ==
    /\ \A d \in Drafts :
        /\ d = [f \in Fields |-> d[f]]
        /\ d.name \in People
        /\ d.approved = Blank
        /\ \A f \in Required : d[f] # Blank
    /\ Blank \notin People \union Editors
    /\ MaxRequests \in Nat

VARIABLES
    param,     \* SSM: the parameters of each person
    pc,        \* per editor: where the request is
    draft,     \* per editor: the entry it writes; for a delete, the name
    existing,  \* per editor: the entry Put found
    left,      \* per editor: fields it has yet to write
    drop,      \* per editor: fields it has yet to delete, in order
    \* What the properties remember; no action reads it.
    clean,     \* editors whose request had its person for itself so far
    unread,    \* editors who stamped without having read the approval
    raced,     \* two requests have overlapped
    settled,   \* per person: what the last completed request left
    requests   \* how many requests there were

memo == <<clean, raced, requests>>
vars == <<param, pc, draft, existing, left, drop, unread, settled, memo>>

NoEntry == [f \in Fields |-> Blank]

\* A store that is empty or holds one entry, possibly from before approvals.
Init ==
    /\ \E d \in Drafts \union {NoEntry}, by \in Editors \union {Blank} :
        param = [p \in People |-> IF p = d.name THEN [d EXCEPT !.approved = by] ELSE NoEntry]
    /\ pc = [e \in Editors |-> "idle"]
    /\ draft = [e \in Editors |-> NoEntry]
    /\ existing = [e \in Editors |-> NoEntry]
    /\ left = [e \in Editors |-> {}]
    /\ drop = [e \in Editors |-> <<>>]
    /\ clean = {}
    /\ unread = {}
    /\ raced = FALSE
    /\ settled = param
    /\ requests = 0

Goto(e, label) == pc' = [pc EXCEPT ![e] = label]

\* SSM.List: everybody with a parameter.
Stored == {param[p] : p \in {x \in People : param[x] # NoEntry}}

-----------------------------------------------------------------------------
(* A request of the console.                                               *)

Begin(e, p) ==
    LET busy == {x \in Editors \ {e} : pc[x] # "idle"}
        same == {x \in busy : draft[x].name = p}
    IN  /\ p \notin Declared
        /\ pc[e] = "idle"
        /\ requests < MaxRequests
        /\ requests' = requests + 1
        /\ raced' = (raced \/ busy # {})
        /\ clean' = IF same = {} THEN clean \union {e} ELSE clean \ same
        /\ settled' = [settled EXCEPT ![p] = Unsure]

\* PutPerson; the overlay refuses who is declared in git.
PutPerson(e, d) ==
    /\ Begin(e, d.name)
    /\ draft' = [draft EXCEPT ![e] = d]
    /\ Goto(e, "stamp")
    /\ UNCHANGED <<param, existing, left, drop, unread>>

DeleteOrder == <<"name", "github", "emails", "k8s", "class", "pinned", "approved">>

DeletePerson(e, p) ==
    /\ Begin(e, p)
    /\ draft' = [draft EXCEPT ![e] = [NoEntry EXCEPT !.name = p]]
    /\ drop' = [drop EXCEPT ![e] = DeleteOrder]
    /\ Goto(e, "drop")
    /\ UNCHANGED <<param, existing, left, unread>>

\* Faulty variant: nobody signs.
StampNobody(e, known) ==
    draft' = [draft EXCEPT ![e].approved = param[draft[e].name].approved]

\* The approval of an edit is the one it had; a first one is the operator's.
\* An entry that cannot be read counts as new.
Stamp(e, known) ==
    LET before == param[draft[e].name].approved
    IN  draft' = [draft EXCEPT ![e].approved =
                    IF known /\ before # Blank THEN before ELSE e]

Approve(e) ==
    /\ pc[e] = "stamp"
    /\ \E known \in BOOLEAN :
        /\ Stamp(e, known)
        /\ unread' = IF known THEN unread ELSE unread \union {e}
    /\ Goto(e, "get")
    /\ UNCHANGED <<param, existing, left, drop, settled, memo>>

Get(e) ==
    /\ pc[e] = "get"
    /\ existing' = [existing EXCEPT ![e] = param[draft[e].name]]
    /\ Goto(e, "check")
    /\ UNCHANGED <<param, draft, left, drop, unread, settled, memo>>

\* Faulty variant: an address may be on two entries.
ClashesAddressAside(next, other) ==
    /\ other.name # next.name
    /\ \/ next.k8s # Blank /\ other.k8s = next.k8s
       \/ other.github = next.github

Clashes(next, other) ==
    /\ other.name # next.name
    /\ \/ next.k8s # Blank /\ other.k8s = next.k8s
       \/ other.github = next.github
       \/ EmailsIn(next) \intersect EmailsIn(other) # {}

\* Faulty variant: an abbreviation can be reassigned.
AcceptedAnyway(next, old) == \A other \in Stored : ~Clashes(next, other)

\* CheckInvariants.
Accepted(next, old) ==
    /\ old.k8s # Blank => next.k8s = old.k8s
    /\ \A other \in Stored : ~Clashes(next, other)

\* Faulty variant: what an edit empties is left behind.
EmptiedLeft(d) == <<>>

IfBlank(d, f) == IF d[f] = Blank THEN <<f>> ELSE <<>>

\* What Put deletes once it has written the rest.
Emptied(d) == IfBlank(d, "k8s") \o IfBlank(d, "emails")
              \o IfBlank(d, "pinned") \o IfBlank(d, "approved")

Check(e) ==
    /\ pc[e] = "check"
    /\ Accepted(draft[e], existing[e])
    /\ left' = [left EXCEPT ![e] = {f \in Fields : draft[e][f] # Blank}]
    /\ drop' = [drop EXCEPT ![e] = Emptied(draft[e])]
    /\ Goto(e, "write")
    /\ UNCHANGED <<param, draft, existing, unread, settled, memo>>

\* The fields to write are in a map: any order.
WriteField(e) ==
    /\ pc[e] = "write"
    /\ \E f \in left[e] :
        /\ param' = [param EXCEPT ![draft[e].name][f] = draft[e][f]]
        /\ left' = [left EXCEPT ![e] = @ \ {f}]
        /\ Goto(e, IF left[e] = {f} THEN "drop" ELSE "write")
    /\ UNCHANGED <<draft, existing, drop, unread, settled, memo>>

\* Deleting a parameter that is not there is no error.
DropField(e) ==
    /\ pc[e] = "drop"
    /\ drop[e] # <<>>
    /\ param' = [param EXCEPT ![draft[e].name][Head(drop[e])] = Blank]
    /\ drop' = [drop EXCEPT ![e] = Tail(@)]
    /\ UNCHANGED <<pc, draft, existing, left, unread, settled, memo>>

Leave(e) ==
    /\ Goto(e, "idle")
    /\ draft' = [draft EXCEPT ![e] = NoEntry]
    /\ existing' = [existing EXCEPT ![e] = NoEntry]
    /\ left' = [left EXCEPT ![e] = {}]
    /\ drop' = [drop EXCEPT ![e] = <<>>]
    /\ clean' = clean \ {e}
    /\ unread' = unread \ {e}
    /\ UNCHANGED <<raced, requests>>

\* A deletion is a draft with nothing but the name.
Deletes(e) == draft[e].github = Blank

Success(e) ==
    /\ pc[e] = "drop"
    /\ drop[e] = <<>>
    /\ settled' = [settled EXCEPT ![draft[e].name] =
                    IF e \notin clean THEN @ ELSE IF Deletes(e) THEN NoEntry ELSE draft[e]]
    /\ Leave(e)
    /\ UNCHANGED param

\* A refusal of Check, a call that fails, or a console that dies.
Failure(e) ==
    /\ pc[e] # "idle"
    /\ Leave(e)
    /\ UNCHANGED <<param, settled>>

Next ==
    \E e \in Editors :
        \/ \E d \in Drafts : PutPerson(e, d)
        \/ \E p \in People : DeletePerson(e, p)
        \/ Approve(e) \/ Get(e) \/ Check(e)
        \/ WriteField(e) \/ DropField(e)
        \/ Success(e) \/ Failure(e)

Spec == Init /\ [][Next]_vars

-----------------------------------------------------------------------------
(* Properties.                                                             *)

TypeOK ==
    /\ \A p \in People : DOMAIN param[p] = Fields /\ param[p].name \in {p, Blank}
    /\ pc \in [Editors -> {"idle", "stamp", "get", "check", "write", "drop"}]
    /\ \A e \in Editors :
        /\ pc[e] = "idle" <=> draft[e] = NoEntry
        /\ pc[e] \in {"get", "check", "write"} => draft[e].approved \in Editors
        /\ left[e] \subseteq Fields
    /\ clean \union unread \subseteq Editors
    /\ raced \in BOOLEAN
    /\ requests \in 0 .. MaxRequests

\* "Two people mapped to one account makes the join ambiguous" and "an address
\* on two entries is the same ambiguity one step earlier" (CheckInvariants): as
\* long as no two requests overlap, no login, address or abbreviation is stored
\* for two people - after whatever requests died half way.
Distinct ==
    ~raced => \A p, q \in People :
        p # q => /\ param[p].github # Blank => param[p].github # param[q].github
                 /\ param[p].k8s # Blank => param[p].k8s # param[q].k8s
                 /\ EmailsIn(param[p]) \intersect EmailsIn(param[q]) = {}

Deleting(p) == \E e \in Editors : pc[e] = "drop" /\ draft[e].name = p /\ Deletes(e)

\* An abbreviation is "immutable once assigned" and an edit of an approved
\* person preserves the approval (PutPerson): without overlapping requests both
\* go only with the entry, unless the approval could not be read.
AssignedForGood ==
    [][~raced => \A p \in People :
        /\ param[p].k8s # Blank
            => param'[p].k8s = param[p].k8s \/ Deleting(p)
        /\ param[p].approved # Blank
            => \/ param'[p].approved = param[p].approved
               \/ Deleting(p)
               \/ \E e \in unread : draft[e].name = p]_vars

\* A request that reported success, with the person for itself, is what everybody
\* reads until the next one: nothing of the former entry is left to "keep granting
\* a team membership the operator just took away" (Put), whoever died before.
SuccessIsWhole == \A p \in People : settled[p] # Unsure => param[p] = settled[p]
=============================================================================
