------------------------------ MODULE RunStream ------------------------------
(***************************************************************************)
(* Asynchronous apply runs and the streams that follow them                *)
(* (src/pkg/broker/runs.go), down to the audit record each run leaves.     *)
(*                                                                         *)
(* A run is a goroutine that takes the apply lock, narrates what it does   *)
(* into a transcript kept in memory, records itself in the bucket and      *)
(* finishes.  A stream is an HTTP handler that replays the transcript and  *)
(* then receives further lines on a buffered channel; a full channel drops *)
(* them.  Every r.mu critical section is one action.  What a run writes to *)
(* GitHub is in module Broker; here a line is its number and its kind.     *)
(***************************************************************************)
EXTENDS AuditTrail

CONSTANTS
    Runs,           \* run objects, numbered in the order they are created
    OrgOf,          \* the organization in the URL of each apply
    Streams,        \* requests for GET /runs/{id}/stream
    Buffer,         \* capacity of a subscriber's channel (64)
    TTL,            \* how long a finished run stays readable (an hour)
    PerSecond,      \* ticks of the clock per second
    MaxTime,        \* bound: ticks of the clock
    MaxWrites,      \* bound: writes of one plan
    Limit,          \* how many records a History page shows (50)
    Free, NoRun

Times == 0 .. MaxTime

ASSUME StreamConstants ==
    /\ Runs \subseteq Nat
    /\ OrgOf \in [Runs -> Orgs]
    /\ {Buffer, PerSecond, Limit} \subseteq Nat \ {0}
    /\ {TTL, MaxTime, MaxWrites} \subseteq Nat
    /\ {Free, NoRun} \intersect Runs = {}

VARIABLES
    now,            \* the clock, in ticks: run identifiers have its resolution
    bucket,         \* the audit bucket
    applyMu,        \* the apply lock
    registry,       \* the run each identifier stands for, or NoRun
    step,           \* per run: where its goroutine is
    id,             \* per run: its identifier
    lines,          \* per run: the transcript, a sequence of kinds
    status,         \* per run
    finishedAt,     \* per run
    entry,          \* per run: the key of its audit record, <<>> if it has none
    subscribers,    \* per run: the streams registered with it
    at,             \* per stream: where its handler is
    on,             \* per stream: the run it found
    left,           \* per stream: replayed lines not yet emitted
    queue, closed,  \* per stream: its channel
    shown,          \* per stream: the status its snapshot returned
    gone,           \* streams whose client has hung up
    \* What clients hold, and what the properties remember.
    got,            \* per stream: the lines its client received
    told,           \* per stream: the status its client was told
    dropped         \* streams one of whose lines found the channel full

runVars == <<step, id, lines, status, finishedAt, entry>>
streamVars == <<at, on, left, shown, got, told>>
channelVars == <<subscribers, queue, closed, dropped>>
vars == <<now, bucket, applyMu, registry, runVars, streamVars,
          channelVars, gone>>

Second(t) == t \div PerSecond

Init ==
    /\ now = 0
    /\ bucket = {}
    /\ applyMu = Free
    /\ registry = [t \in Times |-> NoRun]
    /\ step = [r \in Runs |-> "none"]
    /\ id = [r \in Runs |-> 0]
    /\ lines = [r \in Runs |-> <<>>]
    /\ status = [r \in Runs |-> "running"]
    /\ finishedAt = [r \in Runs |-> 0]
    /\ entry = [r \in Runs |-> <<>>]
    /\ subscribers = [r \in Runs |-> {}]
    /\ at = [s \in Streams |-> "idle"]
    /\ on = [s \in Streams |-> NoRun]
    /\ left = [s \in Streams |-> <<>>]
    /\ queue = [s \in Streams |-> <<>>]
    /\ closed = {}
    /\ shown = [s \in Streams |-> "none"]
    /\ gone = {}
    /\ got = [s \in Streams |-> <<>>]
    /\ told = [s \in Streams |-> "none"]
    /\ dropped = {}

-------------------------------------------------------------------------------
(* The critical sections of a run.                                           *)

\* append: the line goes to the transcript and to every channel with room.
Narrate(r, kind) ==
    LET line == Len(lines[r]) + 1
        full == {s \in subscribers[r] : Len(queue[s]) >= Buffer}
    IN  /\ lines' = [lines EXCEPT ![r] = Append(@, kind)]
        /\ queue' = [s \in Streams |-> IF s \in subscribers[r] \ full
                                       THEN Append(queue[s], line)
                                       ELSE queue[s]]
        /\ dropped' = dropped \union full
        /\ UNCHANGED <<subscribers, closed>>

\* Faulty variant: a run that has not finished has no finishing time.
ExpiredUnfinished(r) == now - finishedAt[r] > TTL

\* create forgets the runs that finished longer than the TTL ago.
Expired(r) == status[r] # "running" /\ now - finishedAt[r] > TTL

Purged == [t \in Times |-> IF registry[t] \in Runs /\ Expired(registry[t])
                           THEN NoRun ELSE registry[t]]

\* handleApplyAsync: a run is named for the clock's reading, and replaces
\* another one of that name.
Create(r) ==
    /\ step[r] = "none"
    /\ \A q \in Runs : q < r => step[q] # "none"
    /\ id' = [id EXCEPT ![r] = now]
    /\ registry' = [Purged EXCEPT ![now] = r]
    /\ step' = [step EXCEPT ![r] = "begin"]
    /\ UNCHANGED <<now, bucket, applyMu, lines, status, finishedAt,
                   entry, streamVars, channelVars, gone>>

\* A step of runApply or applyStreaming that appends one line.
Say(r, from, kind, to) ==
    /\ step[r] = from
    /\ Narrate(r, kind)
    /\ step' = [step EXCEPT ![r] = to]
    /\ UNCHANGED <<now, registry, id, status, finishedAt,
                   streamVars, gone>>

Waiting(r) ==
    /\ Say(r, "begin", "waiting", "wait")
    /\ UNCHANGED <<bucket, applyMu, entry>>

Lock(r) ==
    /\ applyMu = Free
    /\ applyMu' = r
    /\ Say(r, "wait", "recomputing", "compute")
    /\ UNCHANGED <<bucket, entry>>

\* The reads fail, or the organization changed since the plan was reviewed.
ComputeFails(r) ==
    /\ Say(r, "compute", "FAILED", "fail")
    /\ UNCHANGED <<bucket, applyMu, entry>>

Verified(r) ==
    /\ Say(r, "compute", "verified", "execute")
    /\ UNCHANGED <<bucket, applyMu, entry>>

Writes(r) == Cardinality({i \in DOMAIN lines[r] : lines[r][i] = "write"})

\* NewGitHubWriter fails, with nothing written and nothing to record.
WriterFails(r) ==
    /\ Writes(r) = 0
    /\ Say(r, "execute", "FAILED", "fail")
    /\ UNCHANGED <<bucket, applyMu, entry>>

ExecuteOne(r) ==
    /\ Writes(r) < MaxWrites
    /\ Say(r, "execute", "write", "execute")
    /\ UNCHANGED <<bucket, applyMu, entry>>

\* record: the whole plan was written, or a write failed; either way the sink
\* gets the record and a lost one is a line of the transcript.
Recorded(r, next) ==
    LET record == [org |-> OrgOf[r], at |-> Second(now)]
    IN  /\ step[r] = "execute"
        /\ bucket' = Put(bucket, record)
        /\ entry' = [entry EXCEPT ![r] = Key(record)]
        /\ step' = [step EXCEPT ![r] = next]
        /\ UNCHANGED <<now, applyMu, registry, id, lines, status,
                       finishedAt, streamVars, channelVars, gone>>

NotRecorded(r, next) ==
    /\ Say(r, "execute", "AUDIT", next)
    /\ UNCHANGED <<bucket, applyMu, entry>>

Executed(r) == \E next \in {"say done", "say failed"} :
                    Recorded(r, next) \/ NotRecorded(r, next)

Outcome(r) ==
    /\ \/ Say(r, "say done", "done", "finish")
       \/ Say(r, "say failed", "FAILED", "fail")
    /\ UNCHANGED <<bucket, applyMu, entry>>

\* Faulty variant: the channels are forgotten and not closed.
FinishSilently(r) ==
    /\ step[r] \in {"finish", "fail"}
    /\ status' = [status EXCEPT
            ![r] = IF step[r] = "finish" THEN "succeeded" ELSE "failed"]
    /\ finishedAt' = [finishedAt EXCEPT ![r] = now]
    /\ subscribers' = [subscribers EXCEPT ![r] = {}]
    /\ step' = [step EXCEPT ![r] = "over"]
    /\ applyMu' = Free
    /\ UNCHANGED <<now, bucket, registry, id, lines, entry, streamVars, queue,
                   closed, dropped, gone>>

\* finish: the status is final, every channel is closed and forgotten; the
\* deferred unlock follows at once.
Finish(r) ==
    /\ step[r] \in {"finish", "fail"}
    /\ status' = [status EXCEPT
            ![r] = IF step[r] = "finish" THEN "succeeded" ELSE "failed"]
    /\ finishedAt' = [finishedAt EXCEPT ![r] = now]
    /\ closed' = closed \union subscribers[r]
    /\ subscribers' = [subscribers EXCEPT ![r] = {}]
    /\ step' = [step EXCEPT ![r] = "over"]
    /\ applyMu' = Free
    /\ UNCHANGED <<now, bucket, registry, id, lines, entry, streamVars,
                   queue, dropped, gone>>

RunStep(r) ==
    \/ Waiting(r) \/ Lock(r) \/ ComputeFails(r) \/ Verified(r) \/ WriterFails(r)
    \/ ExecuteOne(r) \/ Executed(r) \/ Outcome(r) \/ Finish(r)

-------------------------------------------------------------------------------
(* The handler of a stream.                                                  *)

\* handleRunStream: the run an identifier stands for, if it is one of the
\* organization in the URL; otherwise the answer is 404.
Find(s) ==
    /\ at[s] = "idle"
    /\ \E t \in Times, o \in Orgs :
        IF registry[t] # NoRun /\ OrgOf[registry[t]] = o
        THEN /\ on' = [on EXCEPT ![s] = registry[t]]
             /\ at' = [at EXCEPT ![s] = "found"]
        ELSE /\ at' = [at EXCEPT ![s] = "over"]
             /\ UNCHANGED on
    /\ UNCHANGED <<now, bucket, applyMu, registry, runVars, left, shown,
                   got, told, channelVars, gone>>

Ended(r) == status[r] # "running"

\* Faulty variant: the handler subscribes in a critical section of its own,
\* after it copied the lines and before it replays them.
SubscribeLate(s) ==
    \/ /\ at[s] = "found"
       /\ left' = [left EXCEPT ![s] = [i \in 1 .. Len(lines[on[s]]) |-> i]]
       /\ shown' = [shown EXCEPT ![s] = status[on[s]]]
       /\ at' = [at EXCEPT ![s] = IF Ended(on[s]) THEN "replay" ELSE "copied"]
       /\ UNCHANGED <<subscribers, now, bucket, applyMu, registry, runVars,
                      on, got, told, queue, closed, dropped, gone>>
    \/ /\ at[s] = "copied"
       /\ at' = [at EXCEPT ![s] = "replay"]
       /\ IF Ended(on[s])
          THEN closed' = closed \union {s} /\ UNCHANGED subscribers
          ELSE /\ subscribers' = [subscribers EXCEPT ![on[s]] = @ \union {s}]
               /\ UNCHANGED closed
       /\ UNCHANGED <<now, bucket, applyMu, registry, runVars, left, shown,
                      on, got, told, queue, dropped, gone>>

\* snapshot: the lines so far, the status, and a channel if more can come.
Snapshot(s) ==
    /\ at[s] = "found"
    /\ left' = [left EXCEPT ![s] = [i \in 1 .. Len(lines[on[s]]) |-> i]]
    /\ shown' = [shown EXCEPT ![s] = status[on[s]]]
    /\ subscribers' = IF Ended(on[s]) THEN subscribers
                      ELSE [subscribers EXCEPT ![on[s]] = @ \union {s}]
    /\ at' = [at EXCEPT ![s] = "replay"]
    /\ UNCHANGED <<now, bucket, applyMu, registry, runVars, on, got, told,
                   queue, closed, dropped, gone>>

\* The handler returns; its local variables end with it.
Return(s) ==
    /\ at' = [at EXCEPT ![s] = "over"]
    /\ left' = [left EXCEPT ![s] = <<>>]
    /\ shown' = [shown EXCEPT ![s] = "none"]

\* emit writes to the connection; it fails once the client has hung up.
Emit(s, line) == got' = [got EXCEPT ![s] = Append(@, line)]

Replay(s) ==
    /\ at[s] = "replay"
    /\ s \notin gone
    /\ left[s] # <<>>
    /\ Emit(s, Head(left[s]))
    /\ left' = [left EXCEPT ![s] = Tail(@)]
    /\ UNCHANGED <<now, bucket, applyMu, registry, runVars, at, on, shown,
                   told, channelVars, gone>>

\* The replay ends early: the handler returns before it defers unsubscribe,
\* and its channel stays registered.
ReplayFails(s) ==
    /\ at[s] = "replay"
    /\ s \in gone
    /\ Return(s)
    /\ UNCHANGED <<now, bucket, applyMu, registry, runVars, on, got, told,
                   channelVars, gone>>

\* A run that was over at the snapshot has no tail: its status ends the stream.
Replayed(s) ==
    /\ at[s] = "replay"
    /\ s \notin gone
    /\ left[s] = <<>>
    /\ IF shown[s] = "running"
       THEN /\ at' = [at EXCEPT ![s] = "tail"]
            /\ UNCHANGED <<left, shown, told>>
       ELSE /\ Return(s)
            /\ told' = [told EXCEPT ![s] = shown[s]]
    /\ UNCHANGED <<now, bucket, applyMu, registry, runVars, on, got,
                   channelVars, gone>>

Follow(s) ==
    /\ at[s] = "tail"
    /\ s \notin gone
    /\ queue[s] # <<>>
    /\ Emit(s, Head(queue[s]))
    /\ queue' = [queue EXCEPT ![s] = Tail(@)]
    /\ UNCHANGED <<now, bucket, applyMu, registry, runVars, at, on, left,
                   shown, told, subscribers, closed, dropped, gone>>

\* Faulty variant: the channel is closed and stays registered.
UnsubscribeClosed(s) ==
    /\ closed' = closed \union {s}
    /\ UNCHANGED subscribers

\* unsubscribe: unless finish was first, which closed the channel itself.
Unsubscribe(s) ==
    IF s \in subscribers[on[s]]
    THEN /\ subscribers' = [subscribers EXCEPT ![on[s]] = @ \ {s}]
         /\ closed' = closed \union {s}
    ELSE UNCHANGED <<subscribers, closed>>

\* A line could not be emitted; the deferred unsubscribe runs.
FollowFails(s) ==
    /\ at[s] = "tail"
    /\ s \in gone
    /\ queue[s] # <<>>
    /\ queue' = [queue EXCEPT ![s] = <<>>]
    /\ Unsubscribe(s)
    /\ Return(s)
    /\ UNCHANGED <<now, bucket, applyMu, registry, runVars, on, got, told,
                   dropped, gone>>

\* Faulty variant: the status is the one of the first snapshot.
TailEndsAsShown(s) ==
    /\ at[s] = "tail"
    /\ queue[s] = <<>>
    /\ s \in closed
    /\ told' = [told EXCEPT ![s] = shown[s]]
    /\ Return(s)
    /\ UNCHANGED <<now, bucket, applyMu, registry, runVars, on, got,
                   channelVars, gone>>

\* The channel is closed and drained: a second snapshot reads the status.  It
\* would subscribe again if the run still ran.
TailEnds(s) ==
    /\ at[s] = "tail"
    /\ queue[s] = <<>>
    /\ s \in closed
    /\ told' = IF s \in gone THEN told ELSE [told EXCEPT ![s] = status[on[s]]]
    /\ subscribers' = IF Ended(on[s]) THEN subscribers
                      ELSE [subscribers EXCEPT ![on[s]] = @ \union {s}]
    /\ Return(s)
    /\ UNCHANGED <<now, bucket, applyMu, registry, runVars, on, got, queue,
                   closed, dropped, gone>>

\* What a client received, or would be sent, ends with its connection.
HangUp(s) ==
    /\ at[s] \in {"replay", "tail"}
    /\ s \notin gone
    /\ gone' = gone \union {s}
    /\ got' = [got EXCEPT ![s] = <<>>]
    /\ left' = [left EXCEPT ![s] = <<>>]
    /\ UNCHANGED <<now, bucket, applyMu, registry, runVars, at, on, shown,
                   told, channelVars>>

StreamStep(s) ==
    \/ Snapshot(s) \/ Replay(s) \/ ReplayFails(s) \/ Replayed(s)
    \/ Follow(s) \/ FollowFails(s) \/ TailEnds(s)

-------------------------------------------------------------------------------
(* The clock and the process.                                                *)

Tick ==
    /\ now < MaxTime
    /\ now' = now + 1
    /\ UNCHANGED <<bucket, applyMu, registry, runVars, streamVars,
                   channelVars, gone>>

\* The registry, the goroutines and the connections end with the process; the
\* bucket stays.  The next process knows nothing of them, so the instance ends
\* here: what follows is Init with another bucket.
Restart ==
    /\ \E r \in Runs : step[r] \notin {"none", "over", "lost"}
    /\ applyMu' = Free
    /\ registry' = [t \in Times |-> NoRun]
    /\ step' = [r \in Runs |-> "lost"]
    /\ status' = [r \in Runs |-> "lost"]
    /\ lines' = [r \in Runs |-> <<>>]
    /\ id' = [r \in Runs |-> 0]
    /\ finishedAt' = [r \in Runs |-> 0]
    /\ entry' = [r \in Runs |-> <<>>]
    /\ subscribers' = [r \in Runs |-> {}]
    /\ at' = [s \in Streams |-> "over"]
    /\ on' = [s \in Streams |-> NoRun]
    /\ left' = [s \in Streams |-> <<>>]
    /\ queue' = [s \in Streams |-> <<>>]
    /\ closed' = {}
    /\ shown' = [s \in Streams |-> "none"]
    /\ gone' = {}
    /\ got' = [s \in Streams |-> <<>>]
    /\ told' = [s \in Streams |-> "none"]
    /\ dropped' = {}
    /\ UNCHANGED <<now, bucket>>

\* The runs and the requests of the instance are over; any other state from
\* which nothing follows is a deadlock.
AllOver ==
    /\ \A r \in Runs : step[r] \in {"over", "lost"}
    /\ \A s \in Streams : at[s] = "over"
    /\ UNCHANGED vars

Next ==
    \/ \E r \in Runs : Create(r) \/ RunStep(r)
    \/ \E s \in Streams : Find(s) \/ StreamStep(s) \/ HangUp(s)
    \/ Tick
    \/ Restart
    \/ AllOver

Spec == Init /\ [][Next]_vars

\* A run's context ends its calls within ten minutes, so some run goes on as
\* long as one can (each takes finitely many steps); and a client reads or its
\* connection breaks.  Nothing is assumed of requests, clocks and restarts.
FairSpec ==
    /\ Spec
    /\ WF_vars(\E r \in Runs : RunStep(r))
    /\ \A s \in Streams : WF_vars(StreamStep(s))

-------------------------------------------------------------------------------
Kinds == {"waiting", "recomputing", "verified", "write", "AUDIT", "done",
          "FAILED"}
Steps == {"none", "begin", "wait", "compute", "execute", "say done",
          "say failed", "finish", "fail", "over", "lost"}
Statuses == {"running", "succeeded", "failed", "lost"}
MaxLines == MaxWrites + 5

\* The types of the variables.
TypeOK ==
    /\ now \in Times
    /\ \A record \in bucket :
        record \in [org : Orgs, at : 0 .. Second(MaxTime)]
    /\ applyMu \in Runs \union {Free}
    /\ registry \in [Times -> Runs \union {NoRun}]
    /\ step \in [Runs -> Steps]
    /\ id \in [Runs -> Times]
    /\ \A r \in Runs : lines[r] \in Seq(Kinds) /\ Len(lines[r]) <= MaxLines
    /\ status \in [Runs -> Statuses]
    /\ finishedAt \in [Runs -> Times]
    /\ subscribers \in [Runs -> SUBSET Streams]
    /\ at \in [Streams -> {"idle", "found", "copied", "replay", "tail", "over"}]
    /\ on \in [Streams -> Runs \union {NoRun}]
    /\ \A s \in Streams : {left[s], queue[s], got[s]} \subseteq Seq(Nat)
    /\ closed \subseteq Streams
    /\ shown \in [Streams -> Statuses \union {"none"}]
    /\ told \in [Streams -> {"none", "succeeded", "failed"}]
    /\ gone \subseteq Streams
    /\ dropped \subseteq Streams

\* A channel is registered only with the run its stream follows, only while
\* that run has not finished, and never once it is closed: append would panic
\* on a closed channel and finish on closing it again.  It also bounds the
\* channels that early returns leave behind (runs.go:263) by their run.
RegisteredChannelsAreOpen ==
    \A r \in Runs : \A s \in subscribers[r] :
        on[s] = r /\ status[r] = "running" /\ s \notin closed

\* A run can be found under its identifier until an hour after it finished,
\* unless a later run was given the same one.
Findable ==
    \A r \in Runs :
        /\ step[r] \notin {"none", "lost"}
        /\ status[r] = "running" \/ now - finishedAt[r] <= TTL
        => \/ registry[id[r]] = r
           \/ \E q \in Runs : q > r /\ step[q] # "none" /\ id[q] = id[r]

\* GetAudit: the records the History page of an organization shows.
History(org) == List(bucket, org, Limit)

\* A run that wrote to GitHub is on the History page of its organization when
\* it ends, unless a whole page of records as new took its place there, or its
\* transcript says that it has no record.
OnFile ==
    \A r \in Runs :
        /\ step[r] = "over"
        /\ Writes(r) > 0
        => LET page == History(OrgOf[r])
           IN  \/ \E i \in DOMAIN page :
                    page[i].org = OrgOf[r] /\ Key(page[i]) = entry[r]
               \/ Len(page) = Limit /\ \A i \in DOMAIN page :
                    page[i].org = OrgOf[r] /\ ~Later(entry[r], Key(page[i]))
               \/ \E i \in DOMAIN lines[r] : lines[r][i] = "AUDIT"

\* A request that finds a run ends, however often the apply lock is taken by
\* others: with the run, with its client or with the process.
StreamsEnd == \A s \in Streams : (at[s] = "found") ~> (at[s] = "over")

Narrated == INSTANCE Narration WITH
    length <- [r \in Runs |-> Len(lines[r])], verdict <- status,
    reads <- [s \in Streams |-> IF s \in gone THEN NoRun ELSE on[s]],
    seen <- got, lags <- dropped \ gone

\* Through channels, drops, early returns and restarts the streams keep what
\* Narration promises: lines in order, none missed before a whole buffer
\* behind, and the verdict last.
KeepsNarration == Narrated!Spec
===============================================================================
