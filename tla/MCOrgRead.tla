------------------------------- MODULE MCOrgRead -------------------------------
(* Instances of OrgRead for TLC: people of one directory, of whom the second *)
(* has been suspended, and a team that draws from its one group.             *)
EXTENDS OrgRead

CONSTANTS dir, group, t

MCHome == [x \in Emails \union Groups |-> dir]
MCGroupsOf == [x \in Teams |-> Groups]
MCMembersOf == [x \in Teams |-> {}]

\* Everybody's address and name is the number of their login.
MCEntry(l) ==
    [name |-> l, login |-> l, emails |-> <<l>>, bot |-> FALSE, pinned |-> {}]
Account(l) == [source |-> dir, name |-> l, email |-> l, live |-> l # 2]

MCRest ==
    [cfg |-> {dir},
     snaps |-> [s \in {dir} |->
                    [users |-> {Account(l) : l \in Logins},
                     groups |-> [g \in Groups |-> Emails], absent |-> {}]],
     unhealthy |-> {},
     entries |-> {MCEntry(l) : l \in Logins}]

MCStart ==
    [admins |-> {3} \intersect Logins, members |-> Logins \ {3}, invited |-> {},
     team |-> [x \in Teams |-> Logins \ {1}]]
===============================================================================
