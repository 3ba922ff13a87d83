--------------------------- MODULE MCMappingStore ---------------------------
(* Instances of MappingStore for TLC. *)
EXTENDS MappingStore, TLC

CONSTANTS ann, bob, carol, octocat, hubot, team, ns

Draft(name, github, emails, k8s, pinned) ==
    [name |-> name, github |-> github, class |-> "employee", emails |-> emails,
     k8s |-> k8s, pinned |-> pinned, approved |-> Blank]

\* Two versions of Ann, each without fields of the other, and a Bob who clashes
\* with the first by his address and with the second by his login.
MCDrafts == {
    Draft(ann, octocat, <<1>>, Blank, {team}),
    Draft(ann, hubot, Blank, ns, Blank),
    Draft(bob, hubot, <<1>>, Blank, Blank)}

Operators == Permutations(Editors)
=============================================================================
