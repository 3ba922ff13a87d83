--------------------------- MODULE LastKnownGood ---------------------------
(***************************************************************************)
(* What the caches promise of the directories (src/pkg/directory/cache.go):*)
(* "a failed fetch must never look like everybody leaving".  A directory   *)
(* is a counter of its changes here, what is known of it one of its values.*)
(***************************************************************************)
EXTENDS Integers

CONSTANTS
    Dirs,
    Permanent,  \* declared in git: not forgotten while the process lives
    Nothing     \* never answered

VARIABLES
    now,        \* how often each directory has changed
    known,      \* the last good answer of each
    trusted,    \* the directories absence from which is evidence of absence
    serial      \* the fetches of one directory do not overlap

vars == <<now, known, trusted, serial>>

Init ==
    /\ known = [s \in Dirs |-> Nothing]
    /\ trusted = {}

\* An answer is one the directory gave; it may only be older than what is
\* known already when fetches overlap.
Learn(s) ==
    /\ \E answer \in 0 .. now[s] :
        /\ serial => known[s] = Nothing \/ answer >= known[s]
        /\ known' = [known EXCEPT ![s] = answer]
    /\ trusted' = trusted \union {s}
    /\ UNCHANGED <<now, serial>>

\* A failure takes away the trust, never the knowledge.
Fail(s) ==
    /\ trusted' = trusted \ {s}
    /\ UNCHANGED <<now, known, serial>>

Forget(gone) ==
    /\ known' = [s \in Dirs |-> IF s \in gone THEN Nothing ELSE known[s]]
    /\ trusted' = trusted \ gone
    /\ UNCHANGED <<now, serial>>

Change(s) ==
    /\ now' = [now EXCEPT ![s] = @ + 1]
    /\ UNCHANGED <<known, trusted, serial>>

Next ==
    \/ \E s \in Dirs : Learn(s) \/ Fail(s) \/ Change(s)
    \/ \E gone \in SUBSET (Dirs \ Permanent) : Forget(gone)

Spec == Init /\ [][Next]_vars
=============================================================================
