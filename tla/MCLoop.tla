------------------------------- MODULE MCLoop -------------------------------
(* Instances of Loop for TLC. *)
EXTENDS Loop

CONSTANTS git, store, p, owner, gg, gs, t, q

\* Address 1 and group gg are in the domain of git, the company's directory;
\* address 2 and group gs in that of store.
MCHome == [x \in Emails \union Groups |-> IF x \in {2, gs} THEN store ELSE git]

\* t draws from every group; q, where there is one, is pinned.
MCGroupsOf == [x \in Teams |-> IF x = q THEN {} ELSE Groups]
MCMembersOf == [x \in Teams |-> {}]

\* In one directory "P" goes by a longer name, in another by the entry's.
MCNameOf == [e \in Emails |-> IF e = 1 THEN "P. Long" ELSE "P"]

Entry(emails, pins) ==
    [name |-> "P", login |-> p, emails |-> emails, bot |-> FALSE, pinned |-> pins]

Dual == {Entry(<<1, 2>>, {})}
Partner == {Entry(<<2>>, {})}

\* Everybody live and listed where they belong, the owner in place.
Start(entry, members) ==
    [account |-> [e \in Emails |-> "live"],
     listed |-> [group \in Groups |-> {e \in Emails : MCHome[e] = MCHome[group]}],
     stored |-> {},
     entries |-> entry,
     gh |-> [admins |-> {owner}, members |-> members, invited |-> {},
             team |-> [x \in Teams |-> members], offered |-> [x \in Teams |-> {}]]]

Starting(entry) == {Start(entry, {}), Start(entry, {p})}

DualStarts == Starting(Dual)
AnyEntry == Dual \union Partner
AnyStarts == DualStarts \union
    {[start EXCEPT !.stored = {store}] : start \in Starting(Partner)}

\* What the theorems about who stays and who is denied suppose of the entries.
ASSUME EntriesAreApart == Apart /\ Unpinned /\ Company \in GitSources
=============================================================================
