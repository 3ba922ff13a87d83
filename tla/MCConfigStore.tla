----------------------------- MODULE MCConfigStore -----------------------------
(* Instances of ConfigStore for TLC: one directory an operator edits and one  *)
(* declared in git; one organization of the store, with a team, and one       *)
(* declared in git, whose App lives in the store.                             *)
EXTENDS ConfigStore

CONSTANTS d, g, o, p, t, h1, h2

Dir(endpoint, domains, probe) ==
    [endpoint |-> endpoint, domains |-> domains, probeGroup |-> probe]
Team(groups, members) == [groups |-> groups, members |-> members]

Add(x, want) == [op |-> "AddDirectory", of |-> x, want |-> want]
Del(x) == [op |-> "DeleteDirectory", of |-> x, want |-> Nothing(x)]

MCOrgOf == [x \in Teams |-> o]
MCStartApp == [x \in Orgs |-> IF x = p THEN [org |-> p, n |-> 0] ELSE Absent]

\* Operators added both directories; one is declared in git by now.
MCStartDirs == [x \in Dirs |-> Dir(1, 1, 1)]

MCEdits == {Add(d, Dir(2, 1, 2))}

MCMenus ==
    {[calls |-> MCEdits \union {Add(d, Dir(3, 1, Empty)), Del(d)},
      readings |-> {"directories"}, apps |-> {}, atMost |-> 2],
     [calls |->
        {[op |-> "StageOrg", of |-> t, want |-> Team(1, Absent)],
         [op |-> "PutOrgTeam", of |-> t, want |-> Team(Absent, 1)],
         [op |-> "PutOrgTeam", of |-> t, want |-> Team(2, Absent)],
         [op |-> "DeleteOrgTeam", of |-> t, want |-> Nothing(t)]},
      readings |-> {p}, apps |-> {}, atMost |-> 3],
     [calls |-> {}, readings |-> {p}, apps |-> Orgs, atMost |-> 0]}

MCEditing ==
    {[calls |-> MCEdits, readings |-> {"directories"}, apps |-> {}, atMost |-> 1]}
===============================================================================
