------------------------------ MODULE Narration ------------------------------
(***************************************************************************)
(* What the transcript of an asynchronous apply promises its readers,      *)
(* whatever the channels, locks and buffers behind it: an append-only log  *)
(* that is closed once with a verdict, and readers that each see its lines *)
(* in order.  A reader misses a line only after falling a whole buffer     *)
(* behind, and learns the verdict only of a closed log and only after      *)
(* every line it did not miss.  RunStream is shown to implement it.        *)
(***************************************************************************)
EXTENDS Naturals, Sequences

CONSTANTS Runs, Streams,
          Buffer,   \* how far behind a reader may fall and miss nothing
          NoRun

Verdicts == {"succeeded", "failed"}

VARIABLES
    length,     \* per run: the lines written so far
    verdict,    \* per run: "running" until closed, "lost" with the process
    reads,      \* per reader: its run, or NoRun
    seen,       \* per reader: the numbers of the lines it received
    lags,       \* readers that may have missed a line
    told        \* per reader: the verdict it was told, "none" before

vars == <<length, verdict, reads, seen, lags, told>>

Init ==
    /\ length = [r \in Runs |-> 0]
    /\ verdict = [r \in Runs |-> "running"]
    /\ reads = [s \in Streams |-> NoRun]
    /\ seen = [s \in Streams |-> <<>>]
    /\ lags = {}
    /\ told = [s \in Streams |-> "none"]

Behind(s) == length[reads[s]] - Len(seen[s]) >= Buffer

\* A line is written; readers a whole buffer behind may miss it.
Write(r) ==
    /\ verdict[r] = "running"
    /\ length' = [length EXCEPT ![r] = @ + 1]
    /\ \E late \in SUBSET {s \in Streams : reads[s] = r /\ Behind(s)} :
            lags' = lags \union late
    /\ UNCHANGED <<verdict, reads, seen, told>>

Close(r) ==
    /\ verdict[r] = "running"
    /\ \E v \in Verdicts : verdict' = [verdict EXCEPT ![r] = v]
    /\ UNCHANGED <<length, reads, seen, lags, told>>

Open(s, r) ==
    /\ reads[s] = NoRun
    /\ reads' = [reads EXCEPT ![s] = r]
    /\ UNCHANGED <<length, verdict, seen, lags, told>>

Last(lines) == IF lines = <<>> THEN 0 ELSE lines[Len(lines)]

\* The next line, or a later one for a reader that lags.
Show(s) ==
    /\ reads[s] # NoRun
    /\ told[s] = "none"
    /\ \E n \in (Last(seen[s]) + 1) .. length[reads[s]] :
        /\ s \notin lags => n = Last(seen[s]) + 1
        /\ seen' = [seen EXCEPT ![s] = Append(@, n)]
    /\ UNCHANGED <<length, verdict, reads, lags, told>>

Tell(s) ==
    /\ reads[s] # NoRun
    /\ told[s] = "none"
    /\ verdict[reads[s]] \in Verdicts
    /\ s \notin lags => Len(seen[s]) = length[reads[s]]
    /\ told' = [told EXCEPT ![s] = verdict[reads[s]]]
    /\ UNCHANGED <<length, verdict, reads, seen, lags>>

\* A reader goes away.
Leave(s) ==
    /\ reads' = [reads EXCEPT ![s] = NoRun]
    /\ seen' = [seen EXCEPT ![s] = <<>>]
    /\ lags' = lags \ {s}
    /\ UNCHANGED <<length, verdict, told>>

\* The process dies, and with it the logs and the connections of readers.
Lose ==
    /\ \E gone \in SUBSET Runs :
        /\ verdict' = [r \in Runs |-> IF r \in gone THEN "lost" ELSE verdict[r]]
        /\ length' = [r \in Runs |-> IF r \in gone THEN 0 ELSE length[r]]
    /\ reads' = [s \in Streams |-> NoRun]
    /\ seen' = [s \in Streams |-> <<>>]
    /\ lags' = {}
    /\ told' = [s \in Streams |-> "none"]

Next ==
    \/ \E r \in Runs : Write(r) \/ Close(r)
    \/ \E s \in Streams : Show(s) \/ Tell(s) \/ Leave(s) \/ \E r \in Runs : Open(s, r)
    \/ Lose

Spec == Init /\ [][Next]_vars
==============================================================================
