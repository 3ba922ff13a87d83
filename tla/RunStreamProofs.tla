---------------------------- MODULE RunStreamProofs ----------------------------
(***************************************************************************)
(* Asynchronous runs and their streams, for any runs, streams, buffers and *)
(* bounds: the type invariant; a registered channel is open and of a run   *)
(* that goes on; a run is found under its identifier and its record on the *)
(* History page; and the streams implement the log that Narration          *)
(* describes.                                                              *)
(***************************************************************************)
EXTENDS RunStream, TLAPS, FiniteSetTheorems

-------------------------------------------------------------------------------
(* The inductive invariant.                                                  *)

Seconds == 0 .. Second(MaxTime)

Typed ==
    /\ now \in Times
    /\ bucket \subseteq [org : Orgs, at : Seconds]
    /\ applyMu \in Runs \union {Free}
    /\ registry \in [Times -> Runs \union {NoRun}]
    /\ step \in [Runs -> Steps]
    /\ id \in [Runs -> Times]
    /\ lines \in [Runs -> Seq(Kinds)]
    /\ status \in [Runs -> Statuses]
    /\ finishedAt \in [Runs -> Times]

Handling ==
    /\ subscribers \in [Runs -> SUBSET Streams]
    /\ at \in [Streams -> {"idle", "found", "replay", "tail", "over"}]
    /\ on \in [Streams -> Runs \union {NoRun}]
    /\ left \in [Streams -> Seq(Nat)]
    /\ queue \in [Streams -> Seq(Nat)]
    /\ got \in [Streams -> Seq(Nat)]
    /\ closed \subseteq Streams
    /\ shown \in [Streams -> {"none", "running", "succeeded", "failed"}]
    /\ told \in [Streams -> {"none", "succeeded", "failed"}]
    /\ gone \subseteq Streams
    /\ dropped \subseteq Streams

\* The status follows the goroutine; runs are created one after the other.
Phases ==
    \A r \in Runs :
        /\ step[r] = "over" => status[r] \in {"succeeded", "failed"}
        /\ step[r] = "lost" => status[r] = "lost"
        /\ step[r] \notin {"over", "lost"} => status[r] = "running"
        /\ step[r] # "none" => \A q \in Runs : q < r => step[q] # "none"

\* The lines of a run, by where its goroutine is, its writes apart.
Said(where) ==
    CASE where \in {"none", "begin", "lost"} -> 0
      [] where = "wait" -> 1
      [] where = "compute" -> 2
      [] where = "execute" -> 3
      [] where \in {"say done", "say failed"} -> 4
      [] where \in {"finish", "fail", "over"} -> 5

Bounded ==
    \A r \in Runs :
        /\ Writes(r) \in 0 .. MaxWrites
        /\ Len(lines[r]) <= Said(step[r]) + Writes(r)

Following(s) == at[s] \in {"replay", "tail"}

\* Where a handler is, and what it has by then.
Placed(s) ==
    /\ at[s] = "idle" => on[s] = NoRun
    /\ at[s] = "found" \/ Following(s) => on[s] # NoRun
    /\ on[s] # NoRun => step[on[s]] \notin {"none", "lost"}
    /\ at[s] \in {"idle", "found"} =>
        /\ s \notin gone \union dropped \union closed
        /\ got[s] = <<>> /\ queue[s] = <<>> /\ left[s] = <<>>
    /\ at[s] # "over" => told[s] = "none"
    /\ at[s] = "tail" => left[s] = <<>> /\ shown[s] = "running"

\* Who is registered: a handler at work, or one that left when its client did.
Belongs(s) ==
    \A r \in Runs : s \in subscribers[r] =>
        /\ on[s] = r /\ status[r] = "running" /\ s \notin closed
        /\ Following(s) \/ (at[s] = "over" /\ s \in gone)

\* A handler that read a running run is registered until the run ends, which
\* closes its channel; one that read its end has no channel.
Tuned(s) ==
    Following(s) =>
        /\ shown[s] # "none"
        /\ shown[s] = "running" => s \in subscribers[on[s]] \union closed
        /\ s \in closed => status[on[s]] # "running"
        /\ shown[s] # "running" => status[on[s]] = shown[s] /\ queue[s] = <<>>

Found == \A t \in Times : registry[t] # NoRun => step[registry[t]] \notin {"none", "lost"}

Latest(s) == IF got[s] = <<>> THEN 0 ELSE got[s][Len(got[s])]

\* What is on its way to a reader comes after what it has, in order.
Ordered(s) ==
    /\ Latest(s) + Len(left[s]) <= Len(lines[on[s]])
    /\ \A i \in 1 .. Len(left[s]) : left[s][i] = Latest(s) + i
    /\ \A i \in 1 .. Len(queue[s]) :
        /\ queue[s][i] > Latest(s) + Len(left[s])
        /\ queue[s][i] <= Len(lines[on[s]])
    /\ \A i, j \in 1 .. Len(queue[s]) : i < j => queue[s][i] < queue[s][j]

\* A reader none of whose lines was dropped has all the lines, or they are on
\* their way.
Complete(s) ==
    /\ Latest(s) = Len(got[s])
    /\ Len(got[s]) + Len(left[s]) + Len(queue[s]) = Len(lines[on[s]])
    /\ \A i \in 1 .. Len(queue[s]) : queue[s][i] = Len(got[s]) + Len(left[s]) + i

Served(s) ==
    Following(s) /\ s \notin gone =>
        /\ Ordered(s)
        /\ s \notin dropped => Complete(s)

IInv ==
    /\ Typed /\ Handling /\ Phases /\ Bounded /\ Found /\ Findable
    /\ \A s \in Streams : Placed(s) /\ Belongs(s) /\ Tuned(s) /\ Served(s)

-------------------------------------------------------------------------------
(* Sequences and the lines of a run.                                         *)

LEMMA Appended ==
    ASSUME NEW S, NEW s \in Seq(S), NEW x \in S
    PROVE  /\ Append(s, x) \in Seq(S)
           /\ Len(Append(s, x)) = Len(s) + 1
           /\ DOMAIN Append(s, x) = 1 .. Len(s) + 1
           /\ \A i \in 1 .. Len(s) : Append(s, x)[i] = s[i]
           /\ Append(s, x)[Len(s) + 1] = x
    OBVIOUS

LEMMA Taken ==
    ASSUME NEW S, NEW s \in Seq(S), s # <<>>
    PROVE  /\ Head(s) \in S /\ Head(s) = s[1]
           /\ Tail(s) \in Seq(S)
           /\ Len(s) \in Nat /\ Len(s) >= 1
           /\ Len(Tail(s)) = Len(s) - 1
           /\ \A i \in 1 .. Len(s) - 1 : Tail(s)[i] = s[i + 1]
    OBVIOUS

\* A line counts as a write if it is one.
LEMMA WritesAppended ==
    ASSUME Typed, NEW r \in Runs, NEW kind \in Kinds,
           lines' = [lines EXCEPT ![r] = Append(@, kind)]
    PROVE  /\ Writes(r) \in Nat
           /\ Writes(r)' = IF kind = "write" THEN Writes(r) + 1 ELSE Writes(r)
           /\ \A q \in Runs \ {r} : Writes(q)' = Writes(q)
<1> DEFINE W == {i \in DOMAIN lines[r] : lines[r][i] = "write"}
           n == Len(lines[r])
<1>1. lines[r] \in Seq(Kinds) /\ lines'[r] = Append(lines[r], kind)
      /\ \A q \in Runs \ {r} : lines'[q] = lines[q]
    BY DEF Typed
<1>2. /\ n \in Nat /\ DOMAIN lines[r] = 1 .. n
      /\ DOMAIN lines'[r] = 1 .. n + 1
      /\ \A i \in 1 .. n : lines'[r][i] = lines[r][i]
      /\ lines'[r][n + 1] = kind
    BY <1>1, Appended
<1>3. IsFiniteSet(W) /\ Cardinality(W) \in Nat /\ n + 1 \notin W
    <2>1. W \subseteq 1 .. n
        BY <1>2
    <2>2. IsFiniteSet(1 .. n)
        BY <1>2, FS_Interval
    <2>3. IsFiniteSet(W)
        BY <2>1, <2>2, FS_Subset
    <2> QED
        BY <1>2, <2>1, <2>3, FS_CardinalityType
<1>4. {i \in DOMAIN lines'[r] : lines'[r][i] = "write"} =
        IF kind = "write" THEN W \union {n + 1} ELSE W
    <2>1. DOMAIN lines'[r] = (1 .. n) \union {n + 1}
        BY <1>2
    <2> QED
        BY <1>2, <2>1
<1>5. Cardinality(W \union {n + 1}) = Cardinality(W) + 1
    BY <1>3, FS_AddElement
<1>6. Writes(r) = Cardinality(W)
    BY DEF Writes
<1>7. Writes(r)' = Cardinality({i \in DOMAIN lines'[r] : lines'[r][i] = "write"})
    BY DEF Writes
<1>8. \A q \in Runs \ {r} : Writes(q)' = Writes(q)
    BY <1>1 DEF Writes
<1> HIDE DEF W, n
<1> QED
    BY <1>3, <1>4, <1>5, <1>6, <1>7, <1>8

LEMMA InitIInv == Init => IInv
<1> SUFFICES ASSUME Init PROVE IInv
    OBVIOUS
<1>1. MaxTime \in Nat /\ MaxWrites \in Nat /\ 0 \in Times
    BY StreamConstants DEF Times
<1>2. Typed /\ Handling
    BY <1>1 DEF Init, Typed, Handling, Steps, Statuses
<1>3. Phases /\ Found
    BY <1>1 DEF Init, Phases, Found
<1>4. Bounded
    <2>1. SUFFICES ASSUME NEW r \in Runs
                   PROVE  Writes(r) = 0 /\ Len(lines[r]) = 0 /\ Said(step[r]) = 0
        <3>1. 0 \in 0 .. MaxWrites /\ 0 <= 0 + 0
            BY <1>1
        <3> QED
            BY <3>1 DEF Bounded
    <2>2. lines[r] = <<>> /\ step[r] = "none"
        BY DEF Init
    <2>3. {i \in DOMAIN lines[r] : lines[r][i] = "write"} = {}
        BY <2>2
    <2> QED
        BY <2>2, <2>3, FS_EmptySet DEF Writes, Said
<1>5. Findable
    BY DEF Init, Findable
<1>6. ASSUME NEW s \in Streams PROVE Placed(s) /\ Belongs(s) /\ Tuned(s) /\ Served(s)
    BY DEF Init, Placed, Belongs, Tuned, Served, Following
<1> QED
    BY <1>2, <1>3, <1>4, <1>5, <1>6 DEF IInv

-------------------------------------------------------------------------------
(* A line.                                                                   *)

Working == Steps \ {"none", "over", "lost"}

\* What a line changes: the transcript of its run and the channels of those
\* who follow it.
LEMMA SayFacts ==
    ASSUME IInv, NEW r \in Runs, NEW from \in Working, NEW to \in Working,
           NEW kind \in Kinds, Say(r, from, kind, to)
    PROVE  /\ status[r] = "running" /\ step[r] = from
           /\ step' = [step EXCEPT ![r] = to] /\ step' \in [Runs -> Steps]
           /\ lines' = [lines EXCEPT ![r] = Append(@, kind)]
           /\ lines' \in [Runs -> Seq(Kinds)]
           /\ Len(lines[r]) \in Nat /\ Len(lines'[r]) = Len(lines[r]) + 1
           /\ \A q \in Runs \ {r} : lines'[q] = lines[q] /\ step'[q] = step[q]
           /\ \A s \in subscribers[r] : on[s] = r
           /\ \A s \in Streams : Following(s) /\ on[s] = r => s \in subscribers[r]
           /\ \A s \in Streams :
                \/ s \notin subscribers[r] /\ queue'[s] = queue[s] /\ (s \in dropped' <=> s \in dropped)
                \/ /\ s \in subscribers[r] /\ Len(queue[s]) >= Buffer
                   /\ queue'[s] = queue[s] /\ s \in dropped'
                \/ /\ s \in subscribers[r] /\ Len(queue[s]) < Buffer
                   /\ queue'[s] = Append(queue[s], Len(lines[r]) + 1)
                   /\ (s \in dropped' <=> s \in dropped)
           /\ DOMAIN queue' = Streams /\ dropped' \subseteq Streams /\ dropped \subseteq dropped'
           /\ UNCHANGED <<now, registry, id, status, finishedAt, streamVars, subscribers, closed, gone>>
<1> USE DEF IInv
<1> DEFINE full == {s \in subscribers[r] : Len(queue[s]) >= Buffer}
<1>1. /\ step[r] = from /\ step' = [step EXCEPT ![r] = to]
      /\ lines' = [lines EXCEPT ![r] = Append(@, kind)]
      /\ queue' = [s \in Streams |-> IF s \in subscribers[r] \ full
                                     THEN Append(queue[s], Len(lines[r]) + 1)
                                     ELSE queue[s]]
      /\ dropped' = dropped \union full
      /\ UNCHANGED <<now, registry, id, status, finishedAt, streamVars, subscribers, closed, gone>>
    BY DEF Say, Narrate
<1>2. status[r] = "running"
    BY <1>1 DEF Phases, Working
<1>3. lines[r] \in Seq(Kinds) /\ lines'[r] = Append(lines[r], kind) /\ lines' \in [Runs -> Seq(Kinds)]
      /\ \A q \in Runs \ {r} : lines'[q] = lines[q] /\ step'[q] = step[q]
    BY <1>1 DEF Typed
<1>4. Len(lines[r]) \in Nat /\ Len(lines'[r]) = Len(lines[r]) + 1
    BY <1>3, Appended
<1>5. step' \in [Runs -> Steps]
    BY <1>1 DEF Typed, Working
<1>6. subscribers[r] \subseteq Streams /\ \A s \in subscribers[r] : on[s] = r
    BY DEF Handling, Belongs
<1>7. \A s \in Streams : Following(s) /\ on[s] = r => s \in subscribers[r]
    BY <1>2 DEF Tuned
<1>8. \A s \in Streams : Len(queue[s]) \in Nat /\ Buffer \in Nat
    BY StreamConstants DEF Handling
<1>9. \A s \in Streams :
        \/ s \notin subscribers[r] /\ queue'[s] = queue[s] /\ (s \in dropped' <=> s \in dropped)
        \/ s \in full /\ queue'[s] = queue[s] /\ s \in dropped'
        \/ /\ s \in subscribers[r] \ full
           /\ queue'[s] = Append(queue[s], Len(lines[r]) + 1)
           /\ (s \in dropped' <=> s \in dropped)
    BY <1>1, <1>6
<1>10. DOMAIN queue' = Streams /\ dropped' \subseteq Streams /\ dropped \subseteq dropped'
    BY <1>1, <1>6 DEF Handling
<1> QED
    BY <1>1, <1>2, <1>3, <1>4, <1>5, <1>6, <1>7, <1>8, <1>9, <1>10

\* Those who follow a run get its line or miss it; nobody else notices.
LEMMA SayServed ==
    ASSUME IInv, NEW r \in Runs, NEW from \in Working, NEW to \in Working,
           NEW kind \in Kinds, Say(r, from, kind, to)
    PROVE  \A s \in Streams : Served(s)'
<1> USE DEF IInv
<1>1. /\ Len(lines[r]) \in Nat /\ Len(lines'[r]) = Len(lines[r]) + 1
      /\ \A q \in Runs \ {r} : lines'[q] = lines[q]
      /\ \A s \in subscribers[r] : on[s] = r
      /\ \A s \in Streams : Following(s) /\ on[s] = r => s \in subscribers[r]
      /\ \A s \in Streams :
            \/ s \notin subscribers[r] /\ queue'[s] = queue[s] /\ (s \in dropped' <=> s \in dropped)
            \/ s \in subscribers[r] /\ queue'[s] = queue[s] /\ s \in dropped'
            \/ /\ s \in subscribers[r]
               /\ queue'[s] = Append(queue[s], Len(lines[r]) + 1)
               /\ (s \in dropped' <=> s \in dropped)
      /\ UNCHANGED <<streamVars, gone>>
    BY SayFacts
<1>2. UNCHANGED <<at, on, left, got, gone>>
    BY <1>1 DEF streamVars
<1>3. SUFFICES ASSUME NEW s \in Streams, Following(s)', s \notin gone'
               PROVE  Ordered(s)' /\ (s \notin dropped' => Complete(s)')
    BY DEF Served
<1>4. /\ Following(s) /\ s \notin gone /\ Latest(s)' = Latest(s)
      /\ on[s] \in Runs /\ queue[s] \in Seq(Nat) /\ left[s] \in Seq(Nat) /\ got[s] \in Seq(Nat)
    BY <1>2, <1>3 DEF Following, Handling, Placed, Latest
<1>5. Ordered(s) /\ (s \notin dropped => Complete(s))
    BY <1>4 DEF Served
<1>6. CASE on[s] # r
    <2>1. queue'[s] = queue[s] /\ (s \in dropped' <=> s \in dropped) /\ lines'[on[s]] = lines[on[s]]
        BY <1>1, <1>4, <1>6
    <2>2. Ordered(s)'
        BY <1>2, <1>4, <1>5, <2>1 DEF Ordered
    <2>3. Complete(s) => Complete(s)'
        BY <1>2, <1>4, <2>1 DEF Complete
    <2> QED
        BY <1>5, <2>1, <2>2, <2>3
<1>7. CASE on[s] = r /\ queue'[s] = queue[s] /\ s \in dropped'
    <2>1. Len(lines[on[s]]) \in Nat /\ Len(lines'[on[s]]) = Len(lines[on[s]]) + 1
        BY <1>1, <1>7
    <2>2. Latest(s) + Len(left[s]) \in Int /\ \A i \in 1 .. Len(queue[s]) : queue[s][i] \in Int
        <3>1. Latest(s) \in Nat
            BY <1>4 DEF Latest
        <3> QED
            BY <1>4, <3>1
    <2> QED
        BY <1>2, <1>4, <1>5, <1>7, <2>1, <2>2 DEF Ordered
<1>8. CASE /\ on[s] = r /\ queue'[s] = Append(queue[s], Len(lines[r]) + 1)
           /\ (s \in dropped' <=> s \in dropped)
    <2> DEFINE n == Len(lines[r])
               k == Len(queue[s])
    <2>1. /\ n \in Nat /\ Len(lines'[on[s]]) = n + 1 /\ k \in Nat /\ Len(left[s]) \in Nat
          /\ Len(got[s]) \in Nat
          /\ Len(queue'[s]) = k + 1 /\ queue'[s][k + 1] = n + 1
          /\ \A i \in 1 .. k : queue'[s][i] = queue[s][i]
        BY <1>1, <1>4, <1>8, Appended
    <2>2. Latest(s) \in Nat /\ \A i \in 1 .. k : queue[s][i] \in Nat
        BY <1>4 DEF Latest
    <2>3. Latest(s) + Len(left[s]) \in Nat
        BY <2>1, <2>2
    <2> HIDE DEF n, k
    <2>4. \A i \in 1 .. k + 1 : i \in 1 .. k \/ i = k + 1
        BY <2>1
    <2>5. Ordered(s)'
        <3>1. /\ Latest(s) + Len(left[s]) <= n
              /\ \A i \in 1 .. Len(left[s]) : left[s][i] = Latest(s) + i
              /\ \A i \in 1 .. k : queue[s][i] > Latest(s) + Len(left[s]) /\ queue[s][i] <= n
              /\ \A i, j \in 1 .. k : i < j => queue[s][i] < queue[s][j]
            BY <1>5, <1>8 DEF Ordered, n, k
        <3>2. Latest(s)' + Len(left'[s]) <= n + 1
              /\ \A i \in 1 .. Len(left'[s]) : left'[s][i] = Latest(s)' + i
            BY <1>2, <1>4, <2>1, <2>2, <3>1
        <3>3. ASSUME NEW i \in 1 .. k + 1
              PROVE  queue'[s][i] > Latest(s) + Len(left[s]) /\ queue'[s][i] <= n + 1
            <4>1. CASE i \in 1 .. k
                <5>1. queue'[s][i] = queue[s][i] /\ queue[s][i] \in Nat
                    BY <2>1, <2>2, <4>1
                <5>2. queue[s][i] > Latest(s) + Len(left[s]) /\ queue[s][i] <= n
                    BY <3>1, <4>1
                <5> QED
                    BY <2>1, <5>1, <5>2
            <4>2. CASE i = k + 1
                BY <2>1, <2>3, <3>1, <4>2
            <4> QED
                BY <2>4, <4>1, <4>2
        <3>4. ASSUME NEW i \in 1 .. k + 1, NEW j \in 1 .. k + 1, i < j
              PROVE  queue'[s][i] < queue'[s][j]
            <4>1. CASE j \in 1 .. k
                <5>1. i \in 1 .. k
                    BY <2>1, <3>4, <4>1
                <5> QED
                    BY <2>1, <3>1, <3>4, <4>1, <5>1
            <4>2. CASE j = k + 1
                <5>1. i \in 1 .. k
                    BY <2>1, <3>4, <4>2
                <5>2. queue'[s][i] = queue[s][i] /\ queue[s][i] \in Nat /\ queue[s][i] <= n
                    BY <2>1, <2>2, <3>1, <5>1
                <5>3. queue'[s][j] = n + 1
                    BY <2>1, <4>2
                <5> QED
                    BY <2>1, <5>2, <5>3
            <4> QED
                BY <2>4, <4>1, <4>2
        <3>5. Len(lines'[on[s]]) = n + 1 /\ Len(queue'[s]) = k + 1
            BY <2>1
        <3> QED
            BY <1>2, <1>4, <3>2, <3>3, <3>4, <3>5 DEF Ordered
    <2>6. Complete(s) => Complete(s)'
        <3> SUFFICES ASSUME Complete(s) PROVE Complete(s)'
            OBVIOUS
        <3>1. /\ Latest(s) = Len(got[s]) /\ Len(got[s]) + Len(left[s]) + k = n
              /\ \A i \in 1 .. k : queue[s][i] = Len(got[s]) + Len(left[s]) + i
            BY <1>8 DEF Complete, n, k
        <3> DEFINE g == Len(got[s])
                   l == Len(left[s])
        <3>9. g \in Nat /\ l \in Nat /\ g + l + k = n
            BY <2>1, <3>1
        <3> HIDE DEF g, l
        <3>10. g + l + (k + 1) = n + 1
            BY <2>1, <3>9
        <3>2. ASSUME NEW i \in 1 .. k + 1
              PROVE  queue'[s][i] = Len(got[s]) + Len(left[s]) + i
            <4>1. CASE i \in 1 .. k
                BY <2>1, <3>1, <4>1
            <4>2. CASE i = k + 1
                BY <2>1, <3>10, <4>2 DEF g, l
            <4> QED
                BY <2>4, <4>1, <4>2
        <3>4. Len(lines'[on[s]]) = n + 1 /\ Len(queue'[s]) = k + 1
            BY <2>1
        <3> QED
            BY <1>2, <1>4, <3>1, <3>2, <3>4, <3>10 DEF Complete, g, l
    <2> QED
        BY <1>5, <1>8, <2>5, <2>6
<1> QED
    BY <1>1, <1>4, <1>6, <1>7, <1>8

\* What holds between the parts of the state, the bucket and the lock apart.
Streaming ==
    /\ Handling /\ Phases /\ Found /\ Findable
    /\ \A s \in Streams : Placed(s) /\ Belongs(s) /\ Tuned(s) /\ Served(s)

LEMMA SayStreaming ==
    ASSUME IInv, NEW r \in Runs, NEW from \in Working, NEW to \in Working,
           NEW kind \in Kinds, Say(r, from, kind, to)
    PROVE  Streaming'
<1>1. /\ status[r] = "running" /\ step[r] = from
      /\ step' = [step EXCEPT ![r] = to]
      /\ Len(lines[r]) \in Nat
      /\ \A q \in Runs \ {r} : step'[q] = step[q]
      /\ \A s \in Streams :
            \/ s \notin subscribers[r] /\ queue'[s] = queue[s] /\ (s \in dropped' <=> s \in dropped)
            \/ s \in subscribers[r] /\ queue'[s] = queue[s]
            \/ s \in subscribers[r] /\ queue'[s] = Append(queue[s], Len(lines[r]) + 1)
      /\ DOMAIN queue' = Streams /\ dropped' \subseteq Streams
      /\ UNCHANGED <<now, registry, id, status, finishedAt, streamVars, subscribers, closed, gone>>
    BY SayFacts
<1>2. UNCHANGED <<now, registry, id, status, finishedAt, at, on, left, shown, got, told,
                  subscribers, closed, gone>>
    BY <1>1 DEF streamVars
<1>3. /\ Typed /\ Handling /\ Phases /\ Found /\ Findable
      /\ \A s \in Streams : Placed(s) /\ Belongs(s) /\ Tuned(s)
    BY DEF IInv
<1>4. from \notin {"none", "over", "lost"} /\ to \notin {"none", "over", "lost"}
    BY DEF Working
<1>5. \A q \in Runs : /\ step[q] \notin {"none", "lost"} <=> step'[q] \notin {"none", "lost"}
                      /\ step[q] = "none" <=> step'[q] = "none"
                      /\ step[q] = "lost" <=> step'[q] = "lost"
                      /\ step[q] = "over" <=> step'[q] = "over"
    <2>1. step'[r] = to
        BY <1>1, <1>3 DEF Typed
    <2> QED
        BY <1>1, <1>4, <2>1
<1>6. Handling'
    <2>1. ASSUME NEW s \in Streams PROVE queue'[s] \in Seq(Nat)
        <3>1. queue[s] \in Seq(Nat) /\ Len(lines[r]) + 1 \in Nat
            BY <1>1, <1>3 DEF Handling
        <3>2. Append(queue[s], Len(lines[r]) + 1) \in Seq(Nat)
            BY <3>1, Appended
        <3> QED
            BY <1>1, <3>1, <3>2
    <2>2. queue' \in [Streams -> Seq(Nat)]
        <3>1. queue' = [s \in Streams |-> queue'[s]]
            BY DEF Say, Narrate
        <3> QED
            BY <2>1, <3>1
    <2> QED
        BY <1>1, <1>2, <1>3, <2>2 DEF Handling
<1>7. Phases'
    BY <1>2, <1>3, <1>5 DEF Phases
<1>8. \A s \in subscribers[r] : at[s] \notin {"idle", "found"} /\ on[s] = r /\ status[on[s]] = "running"
    BY <1>3 DEF Handling, Belongs, Following
<1>9. ASSUME NEW s \in Streams PROVE Placed(s)'
    <2>1. on[s] # NoRun => step'[on[s]] \notin {"none", "lost"}
        <3>1. on[s] # NoRun => on[s] \in Runs
            BY <1>3 DEF Handling
        <3> QED
            BY <1>3, <1>5, <3>1 DEF Placed
    <2>2. at[s] \in {"idle", "found"} =>
            s \notin gone \union dropped' \union closed /\ queue'[s] = <<>>
        <3>1. at[s] \in {"idle", "found"} => s \notin subscribers[r]
            BY <1>8
        <3> QED
            BY <1>1, <1>3, <3>1 DEF Placed
    <2> QED
        BY <1>2, <1>3, <2>1, <2>2 DEF Placed, Following
<1>10. Found' /\ Findable'
    <2>1. \A t \in Times : registry[t] # NoRun => registry[t] \in Runs
        BY <1>3 DEF Typed
    <2>2. Found'
        BY <1>2, <1>3, <1>5, <2>1 DEF Found
    <2>3. Findable'
        BY <1>2, <1>3, <1>5 DEF Findable
    <2> QED
        BY <2>2, <2>3
<1>11. ASSUME NEW s \in Streams PROVE Belongs(s)'
    BY <1>2, <1>3 DEF Belongs, Following
<1>12. ASSUME NEW s \in Streams PROVE Tuned(s)'
    <2>1. Following(s) /\ shown[s] # "running" => queue'[s] = queue[s]
        BY <1>1, <1>3, <1>8 DEF Tuned
    <2> QED
        BY <1>2, <1>3, <2>1 DEF Tuned, Following
<1>13. \A s \in Streams : Served(s)'
    BY SayServed
<1> QED
    BY <1>6, <1>7, <1>9, <1>10, <1>11, <1>12, <1>13 DEF Streaming

Longer(from, to) == Said(from) \in Nat /\ Said(to) \in Nat /\ Said(from) < Said(to)

LEMMA SayBounded ==
    ASSUME IInv, NEW r \in Runs, NEW from \in Working, NEW to \in Working,
           NEW kind \in Kinds, Say(r, from, kind, to),
           \/ kind # "write" /\ Longer(from, to)
           \/ kind = "write" /\ to = from /\ Writes(r) < MaxWrites /\ Said(from) \in Nat
    PROVE  Bounded'
<1>1. /\ step[r] = from
      /\ step' = [step EXCEPT ![r] = to] /\ step'[r] = to
      /\ lines' = [lines EXCEPT ![r] = Append(@, kind)]
      /\ Len(lines[r]) \in Nat /\ Len(lines'[r]) = Len(lines[r]) + 1
      /\ \A q \in Runs \ {r} : lines'[q] = lines[q] /\ step'[q] = step[q]
    <2>1. step \in [Runs -> Steps]
        BY DEF IInv, Typed
    <2> QED
        BY <2>1, SayFacts
<1>2. /\ Writes(r) \in Nat
      /\ Writes(r)' = IF kind = "write" THEN Writes(r) + 1 ELSE Writes(r)
      /\ \A q \in Runs \ {r} : Writes(q)' = Writes(q)
    BY <1>1, WritesAppended DEF IInv
<1>3. /\ \A q \in Runs : Writes(q) \in 0 .. MaxWrites /\ Len(lines[q]) <= Said(step[q]) + Writes(q)
      /\ MaxWrites \in Nat
    BY StreamConstants DEF IInv, Bounded
<1>4. Writes(r)' \in 0 .. MaxWrites
    BY <1>2, <1>3
<1>5. Len(lines'[r]) <= Said(to) + Writes(r)'
    <2> DEFINE n == Len(lines[r])
               before == Said(from)
               after == Said(to)
               w == Writes(r)
    <2>1. n \in Nat /\ w \in Nat /\ n <= before + w /\ Len(lines'[r]) = n + 1
        BY <1>1, <1>2, <1>3
    <2>2. CASE kind # "write" /\ Longer(from, to)
        <3>1. Writes(r)' = w /\ before \in Nat /\ after \in Nat /\ before < after
            BY <1>2, <2>2 DEF Longer
        <3> HIDE DEF n, before, after, w
        <3>2. n + 1 <= after + w
            BY <2>1, <3>1
        <3> QED
            BY <2>1, <3>1, <3>2 DEF after
    <2>3. CASE kind = "write" /\ to = from /\ before \in Nat
        <3>1. Writes(r)' = w + 1 /\ after = before
            BY <1>2, <2>3
        <3> HIDE DEF n, before, after, w
        <3>2. n + 1 <= after + (w + 1)
            BY <2>1, <2>3, <3>1
        <3> QED
            BY <2>1, <3>1, <3>2 DEF after
    <2> QED
        BY <2>2, <2>3
<1>6. Bounded'
    <2>1. SUFFICES ASSUME NEW q \in Runs
                   PROVE  Writes(q)' \in 0 .. MaxWrites /\ Len(lines'[q]) <= Said(step'[q]) + Writes(q)'
        BY DEF Bounded
    <2>2. CASE q = r
        BY <1>1, <1>4, <1>5, <2>2
    <2>3. CASE q # r
        BY <1>1, <1>2, <1>3, <2>3
    <2> QED
        BY <2>2, <2>3
<1> QED
    BY <1>6

LEMMA SaidValues ==
    /\ Longer("begin", "wait") /\ Longer("wait", "compute") /\ Longer("compute", "execute")
    /\ Longer("compute", "fail") /\ Longer("execute", "fail") /\ Said("execute") \in Nat
    /\ \A next \in {"say done", "say failed"} : Longer("execute", next)
    /\ Longer("say done", "finish") /\ Longer("say failed", "fail")
    BY DEF Said, Longer

\* A line as some step of the goroutine appends it.
Says(r, from, kind, to) ==
    /\ Say(r, from, kind, to)
    /\ \/ kind # "write" /\ Longer(from, to)
       \/ kind = "write" /\ to = from /\ Writes(r) < MaxWrites /\ Said(from) \in Nat
    /\ bucket' = bucket /\ applyMu' \in Runs \union {Free}

Line(r) == \E from \in Working, to \in Working, kind \in Kinds : Says(r, from, kind, to)

LEMMA LineStep ==
    ASSUME IInv, NEW r \in Runs, Line(r)
    PROVE  IInv'
<1>1. PICK from \in Working, to \in Working, kind \in Kinds : Says(r, from, kind, to)
    BY DEF Line
<1>2. Say(r, from, kind, to)
    BY <1>1 DEF Says
<1>3. /\ step' \in [Runs -> Steps] /\ lines' \in [Runs -> Seq(Kinds)]
      /\ UNCHANGED <<now, registry, id, status, finishedAt>>
    BY <1>2, SayFacts
<1>4. Typed'
    BY <1>1, <1>3 DEF IInv, Typed, Says
<1>5. Streaming'
    BY <1>2, SayStreaming
<1>6. Bounded'
    BY <1>1, <1>2, SayBounded DEF Says
<1> QED
    BY <1>4, <1>5, <1>6 DEF IInv, Streaming

LEMMA Lines ==
    ASSUME IInv, NEW r \in Runs,
           \/ Waiting(r) \/ Lock(r) \/ ComputeFails(r) \/ Verified(r) \/ WriterFails(r)
           \/ ExecuteOne(r) \/ Outcome(r)
           \/ \E next \in {"say done", "say failed"} : NotRecorded(r, next)
    PROVE  Line(r)
<1>1. {"begin", "wait", "compute", "execute", "say done", "say failed", "finish", "fail"} \subseteq Working
    BY DEF Working, Steps
<1>2. {"waiting", "recomputing", "verified", "write", "AUDIT", "done", "FAILED"} \subseteq Kinds
    BY DEF Kinds
<1>3. applyMu \in Runs \union {Free}
    BY DEF IInv, Typed
<1>4. ASSUME NEW from \in Working, NEW to \in Working, NEW kind \in Kinds,
             Says(r, from, kind, to)
      PROVE  Line(r)
    BY <1>4 DEF Line
<1>5. CASE Waiting(r)
    <2>1. Says(r, "begin", "waiting", "wait")
        BY <1>3, <1>5, SaidValues DEF Waiting, Says
    <2> QED
        BY <1>1, <1>2, <1>4, <2>1
<1>6. CASE Lock(r)
    <2>1. Says(r, "wait", "recomputing", "compute")
        BY <1>3, <1>6, SaidValues DEF Lock, Says
    <2> QED
        BY <1>1, <1>2, <1>4, <2>1
<1>7. CASE ComputeFails(r)
    <2>1. Says(r, "compute", "FAILED", "fail")
        BY <1>3, <1>7, SaidValues DEF ComputeFails, Says
    <2> QED
        BY <1>1, <1>2, <1>4, <2>1
<1>8. CASE Verified(r)
    <2>1. Says(r, "compute", "verified", "execute")
        BY <1>3, <1>8, SaidValues DEF Verified, Says
    <2> QED
        BY <1>1, <1>2, <1>4, <2>1
<1>9. CASE WriterFails(r)
    <2>1. Says(r, "execute", "FAILED", "fail")
        BY <1>3, <1>9, SaidValues DEF WriterFails, Says
    <2> QED
        BY <1>1, <1>2, <1>4, <2>1
<1>10. CASE ExecuteOne(r)
    <2>1. Says(r, "execute", "write", "execute")
        BY <1>3, <1>10, SaidValues DEF ExecuteOne, Says
    <2> QED
        BY <1>1, <1>2, <1>4, <2>1
<1>11. CASE Outcome(r)
    <2>1. CASE Say(r, "say done", "done", "finish")
        <3>1. Says(r, "say done", "done", "finish")
            BY <1>3, <1>11, <2>1, SaidValues DEF Outcome, Says
        <3> QED
            BY <1>1, <1>2, <1>4, <3>1
    <2>2. CASE Say(r, "say failed", "FAILED", "fail")
        <3>1. Says(r, "say failed", "FAILED", "fail")
            BY <1>3, <1>11, <2>2, SaidValues DEF Outcome, Says
        <3> QED
            BY <1>1, <1>2, <1>4, <3>1
    <2> QED
        BY <1>11, <2>1, <2>2 DEF Outcome
<1>12. CASE \E next \in {"say done", "say failed"} : NotRecorded(r, next)
    <2>1. PICK next \in {"say done", "say failed"} : NotRecorded(r, next)
        BY <1>12
    <2>2. Says(r, "execute", "AUDIT", next)
        BY <1>3, <2>1, SaidValues DEF NotRecorded, Says
    <2> QED
        BY <1>1, <1>2, <1>4, <2>2
<1> QED
    BY <1>5, <1>6, <1>7, <1>8, <1>9, <1>10, <1>11, <1>12

-------------------------------------------------------------------------------
(* The other steps of a run.                                                 *)

LEMMA SecondType ==
    ASSUME NEW t \in Times
    PROVE  Second(t) \in Seconds
<1>1. t \in Nat /\ MaxTime \in Nat /\ t <= MaxTime /\ PerSecond \in Nat /\ PerSecond > 0
    BY StreamConstants DEF Times
<1>2. t \div PerSecond \in Nat /\ MaxTime \div PerSecond \in Nat
    BY <1>1
<1>3. t \div PerSecond <= MaxTime \div PerSecond
    BY <1>1, <1>2
<1> QED
    BY <1>2, <1>3 DEF Second, Seconds

\* What the streams see of a run is its lines, its status and whether it began.
LEMMA StreamsFrame ==
    ASSUME IInv, UNCHANGED <<lines, status, subscribers, at, on, left, queue, closed,
                             shown, gone, got, told, dropped>>,
           \A r \in Runs : step[r] \notin {"none", "lost"} => step'[r] \notin {"none", "lost"}
    PROVE  Handling' /\ \A s \in Streams : (Placed(s) /\ Belongs(s) /\ Tuned(s) /\ Served(s))'
<1>1. Handling'
    BY DEF IInv, Handling
<1>2. ASSUME NEW s \in Streams PROVE Placed(s)'
    <2>1. Placed(s) /\ (on[s] # NoRun => on[s] \in Runs)
        BY DEF IInv, Handling
    <2> QED
        BY <2>1 DEF Placed, Following
<1>3. ASSUME NEW s \in Streams PROVE Belongs(s)' /\ Tuned(s)'
    BY DEF IInv, Belongs, Tuned, Following
<1>4. ASSUME NEW s \in Streams PROVE Served(s)'
    BY DEF IInv, Served, Following, Ordered, Complete, Latest
<1> QED
    BY <1>1, <1>2, <1>3, <1>4

LEMMA CreateStep ==
    ASSUME IInv, NEW r \in Runs, Create(r)
    PROVE  IInv'
<1>1. /\ step[r] = "none" /\ \A q \in Runs : q < r => step[q] # "none"
      /\ id' = [id EXCEPT ![r] = now]
      /\ registry' = [Purged EXCEPT ![now] = r]
      /\ step' = [step EXCEPT ![r] = "begin"]
      /\ UNCHANGED <<now, bucket, applyMu, lines, status, finishedAt, entry, streamVars,
                     channelVars, gone>>
    BY DEF Create
<1>2. Typed /\ Phases /\ Bounded /\ Found /\ Findable
    BY DEF IInv
<1>3. /\ now \in Times
      /\ step'[r] = "begin" /\ \A q \in Runs \ {r} : step'[q] = step[q]
      /\ id'[r] = now /\ \A q \in Runs \ {r} : id'[q] = id[q]
    BY <1>1, <1>2 DEF Typed
<1>4. /\ registry'[now] = r
      /\ \A t \in Times \ {now} :
            registry'[t] = IF registry[t] \in Runs /\ Expired(registry[t]) THEN NoRun ELSE registry[t]
    BY <1>1, <1>3 DEF Purged
<1>5. Typed'
    <2>1. registry' \in [Times -> Runs \union {NoRun}]
        BY <1>1, <1>2, <1>3 DEF Typed, Purged
    <2>2. step' \in [Runs -> Steps] /\ id' \in [Runs -> Times]
        BY <1>1, <1>2, <1>3 DEF Typed, Steps
    <2> QED
        BY <1>1, <1>2, <2>1, <2>2 DEF Typed
<1>6. Phases'
    <2>1. \A q \in Runs : step[q] # "none" => step'[q] # "none"
        BY <1>1, <1>3
    <2>2. status' = status /\ status[r] = "running"
        BY <1>1, <1>2 DEF Phases
    <2>3. ASSUME NEW p \in Runs, step'[p] # "none", NEW q \in Runs, q < p PROVE step'[q] # "none"
        BY <1>1, <1>2, <1>3, <2>1, <2>3 DEF Phases
    <2> QED
        BY <1>2, <1>3, <2>2, <2>3 DEF Phases
<1>7. Bounded'
    <2>1. Said("none") = 0 /\ Said("begin") = 0
        BY DEF Said
    <2>2. \A q \in Runs : Said(step'[q]) = Said(step[q]) /\ Writes(q)' = Writes(q) /\ lines' = lines
        BY <1>1, <1>3, <2>1 DEF Writes
    <2> QED
        BY <1>2, <2>2 DEF Bounded
<1>8. Found'
    BY <1>2, <1>3, <1>4 DEF Found, Typed
<1>9. Findable'
    <2>1. SUFFICES ASSUME NEW q \in Runs, step'[q] \notin {"none", "lost"},
                          status[q] = "running" \/ now - finishedAt[q] <= TTL
                   PROVE  \/ registry'[id'[q]] = q
                          \/ \E p \in Runs : p > q /\ step'[p] # "none" /\ id'[p] = id'[q]
        BY <1>1 DEF Findable
    <2>2. CASE q = r
        BY <1>3, <1>4, <2>2
    <2>3. CASE q # r
        <3>1. step[q] \notin {"none", "lost"} /\ id'[q] = id[q] /\ id[q] \in Times
            BY <1>2, <1>3, <2>1, <2>3 DEF Typed
        <3>2. CASE id[q] = now
            <4>1. r > q
                <5>1. ~(r < q)
                    BY <1>1, <1>2, <3>1 DEF Phases
                <5>2. r \in Nat /\ q \in Nat
                    BY StreamConstants
                <5> QED
                    BY <2>3, <5>1, <5>2
            <4> QED
                BY <1>3, <3>1, <3>2, <4>1
        <3>3. CASE registry[id[q]] = q /\ id[q] # now
            <4>1. ~Expired(q)
                <5>1. now \in Int /\ finishedAt[q] \in Int /\ TTL \in Int
                    BY <1>2, StreamConstants DEF Typed, Times
                <5>2. now - finishedAt[q] \in Int
                    BY <5>1
                <5> QED
                    BY <2>1, <5>1, <5>2 DEF Expired
            <4> QED
                BY <1>4, <3>1, <3>3, <4>1
        <3>4. CASE \E p \in Runs : p > q /\ step[p] # "none" /\ id[p] = id[q]
            <4>1. PICK p \in Runs : p > q /\ step[p] # "none" /\ id[p] = id[q]
                BY <3>4
            <4>2. p # r
                BY <1>1, <4>1
            <4> QED
                BY <1>3, <3>1, <4>1, <4>2
        <3> QED
            BY <1>2, <2>1, <3>1, <3>2, <3>3, <3>4 DEF Findable
    <2> QED
        BY <2>2, <2>3
<1>10. Handling' /\ \A s \in Streams : (Placed(s) /\ Belongs(s) /\ Tuned(s) /\ Served(s))'
    <2>1. UNCHANGED <<lines, status, subscribers, at, on, left, queue, closed,
                      shown, gone, got, told, dropped>>
        BY <1>1 DEF streamVars, channelVars
    <2>2. \A q \in Runs : step[q] \notin {"none", "lost"} => step'[q] \notin {"none", "lost"}
        BY <1>3
    <2> QED
        BY <2>1, <2>2, StreamsFrame
<1> QED
    BY <1>5, <1>6, <1>7, <1>8, <1>9, <1>10 DEF IInv

LEMMA Slack ==
    ASSUME NEW n \in Nat, NEW w \in Nat, NEW least \in Nat, NEW most \in Nat,
           n <= least + w, least <= most
    PROVE  n <= most + w
    OBVIOUS

Reported == {"say done", "say failed"}

LEMMA RecordedStep ==
    ASSUME IInv, NEW r \in Runs, NEW next \in Reported, Recorded(r, next)
    PROVE  IInv'
<1> DEFINE record == [org |-> OrgOf[r], at |-> Second(now)]
<1>1. /\ step[r] = "execute" /\ bucket' = Put(bucket, record)
      /\ step' = [step EXCEPT ![r] = next]
      /\ UNCHANGED <<now, applyMu, registry, id, lines, status, finishedAt, streamVars,
                     channelVars, gone>>
    BY DEF Recorded
<1>2. Typed /\ Phases /\ Bounded /\ Found /\ Findable
    BY DEF IInv
<1>3. step'[r] = next /\ step' \in [Runs -> Steps] /\ \A q \in Runs \ {r} : step'[q] = step[q]
    BY <1>1, <1>2 DEF Typed, Steps, Reported
<1>4. record \in [org : Orgs, at : Seconds]
    <2>1. Second(now) \in Seconds
        BY <1>2, SecondType DEF Typed
    <2> QED
        BY <2>1, StreamConstants
<1>5. Typed'
    BY <1>1, <1>2, <1>3, <1>4 DEF Typed, Put
<1> HIDE DEF record
<1>6. Phases'
    BY <1>1, <1>2, <1>3 DEF Phases, Reported
<1>7. Bounded'
    <2>1. Said("execute") = 3 /\ Said(next) = 4
        BY DEF Said, Reported
    <2>2. \A q \in Runs : Writes(q)' = Writes(q) /\ lines' = lines
        BY <1>1 DEF Writes
    <2>3. SUFFICES ASSUME NEW q \in Runs PROVE Len(lines[q]) <= Said(step'[q]) + Writes(q)
        BY <1>2, <2>2 DEF Bounded
    <2>4. CASE q = r
        <3>1. lines[r] \in Seq(Kinds)
            BY <1>2 DEF Typed
        <3>2. Len(lines[r]) \in Nat
            BY <3>1
        <3>3. Writes(r) \in 0 .. MaxWrites /\ Len(lines[r]) <= Said(step[r]) + Writes(r)
            BY <1>2 DEF Bounded
        <3>4. Writes(r) \in Nat
            BY <3>3, StreamConstants
        <3>5. Len(lines[r]) <= Said("execute") + Writes(r)
            BY <1>1, <3>3
        <3>6. Said("execute") \in Nat /\ Said(next) \in Nat /\ Said("execute") <= Said(next)
            BY <2>1
        <3>7. Len(lines[r]) <= Said(next) + Writes(r)
            BY <3>2, <3>4, <3>5, <3>6, Slack
        <3> QED
            BY <1>3, <2>4, <3>7
    <2>5. CASE q # r
        BY <1>2, <1>3, <2>5 DEF Bounded
    <2> QED
        BY <2>4, <2>5
<1>8. Found' /\ Findable'
    <2>1. \A q \in Runs : /\ step'[q] \in {"none", "lost"} <=> step[q] \in {"none", "lost"}
                          /\ step'[q] = "none" <=> step[q] = "none"
        BY <1>1, <1>3 DEF Reported
    <2>2. \A t \in Times : registry[t] # NoRun => registry[t] \in Runs
        BY <1>2 DEF Typed
    <2>3. Found'
        BY <1>1, <1>2, <2>1, <2>2 DEF Found
    <2>4. Findable'
        BY <1>1, <1>2, <2>1 DEF Findable
    <2> QED
        BY <2>3, <2>4
<1>9. Handling' /\ \A s \in Streams : (Placed(s) /\ Belongs(s) /\ Tuned(s) /\ Served(s))'
    <2>1. UNCHANGED <<lines, status, subscribers, at, on, left, queue, closed,
                      shown, gone, got, told, dropped>>
        BY <1>1 DEF streamVars, channelVars
    <2>2. \A q \in Runs : step[q] \notin {"none", "lost"} => step'[q] \notin {"none", "lost"}
        BY <1>3 DEF Reported
    <2> QED
        BY <2>1, <2>2, StreamsFrame
<1> QED
    BY <1>5, <1>6, <1>7, <1>8, <1>9 DEF IInv

\* The end of a run closes the channels of those who follow it.
LEMMA FinishStep ==
    ASSUME IInv, NEW r \in Runs, Finish(r)
    PROVE  IInv'
<1>1. /\ step[r] \in {"finish", "fail"}
      /\ status' = [status EXCEPT ![r] = IF step[r] = "finish" THEN "succeeded" ELSE "failed"]
      /\ finishedAt' = [finishedAt EXCEPT ![r] = now]
      /\ closed' = closed \union subscribers[r]
      /\ subscribers' = [subscribers EXCEPT ![r] = {}]
      /\ step' = [step EXCEPT ![r] = "over"]
      /\ applyMu' = Free
      /\ UNCHANGED <<now, bucket, registry, id, lines, entry, streamVars, queue, dropped, gone>>
    BY DEF Finish
<1>2. /\ Typed /\ Handling /\ Phases /\ Bounded /\ Found /\ Findable
      /\ \A s \in Streams : Placed(s) /\ Belongs(s) /\ Tuned(s) /\ Served(s)
    BY DEF IInv
<1>3. /\ step'[r] = "over" /\ \A q \in Runs \ {r} : step'[q] = step[q]
      /\ status'[r] \in {"succeeded", "failed"} /\ \A q \in Runs \ {r} : status'[q] = status[q]
      /\ finishedAt'[r] = now /\ \A q \in Runs \ {r} : finishedAt'[q] = finishedAt[q]
      /\ subscribers'[r] = {} /\ \A q \in Runs \ {r} : subscribers'[q] = subscribers[q]
    BY <1>1, <1>2 DEF Typed, Handling
<1>4. status[r] = "running"
    BY <1>1, <1>2 DEF Phases
<1>5. UNCHANGED <<at, on, left, shown, got, told>>
    BY <1>1 DEF streamVars
<1>6. Typed'
    <2>1. step' \in [Runs -> Steps] /\ status' \in [Runs -> Statuses] /\ finishedAt' \in [Runs -> Times]
        BY <1>1, <1>2 DEF Typed, Steps, Statuses
    <2> QED
        BY <1>1, <1>2, <2>1 DEF Typed
<1>7. Handling'
    <2>1. subscribers' \in [Runs -> SUBSET Streams] /\ closed' \subseteq Streams
        BY <1>1, <1>2 DEF Handling
    <2> QED
        BY <1>1, <1>2, <1>5, <2>1 DEF Handling
<1>8. Phases'
    BY <1>1, <1>2, <1>3 DEF Phases
<1>9. Bounded'
    <2>1. Said("finish") = 5 /\ Said("fail") = 5 /\ Said("over") = 5
        BY DEF Said
    <2>2. \A q \in Runs : Said(step'[q]) = Said(step[q]) /\ Writes(q)' = Writes(q) /\ lines' = lines
        BY <1>1, <1>3, <2>1 DEF Writes
    <2> QED
        BY <1>2, <2>2 DEF Bounded
<1>10. Found'
    BY <1>1, <1>2, <1>3 DEF Found, Typed
<1>11. Findable'
    <2>1. \A q \in Runs : /\ step'[q] \in {"none", "lost"} <=> step[q] \in {"none", "lost"}
                          /\ step'[q] = "none" <=> step[q] = "none"
        BY <1>1, <1>3
    <2>2. \A q \in Runs : status'[q] = "running" \/ now - finishedAt'[q] <= TTL =>
                            status[q] = "running" \/ now - finishedAt[q] <= TTL
        BY <1>3, <1>4
    <2> QED
        BY <1>1, <1>2, <2>1, <2>2 DEF Findable
<1>12. ASSUME NEW s \in Streams PROVE Placed(s)'
    <2>1. on[s] # NoRun => on[s] \in Runs /\ step'[on[s]] \notin {"none", "lost"}
        <3>1. \A q \in Runs : step[q] \notin {"none", "lost"} => step'[q] \notin {"none", "lost"}
            BY <1>3
        <3>2. on[s] # NoRun => on[s] \in Runs
            BY <1>2 DEF Handling
        <3> QED
            BY <1>2, <3>1, <3>2 DEF Placed
    <2>2. at[s] \in {"idle", "found"} => s \notin closed'
        BY <1>1, <1>2 DEF Placed, Belongs, Following
    <2> QED
        BY <1>1, <1>2, <1>5, <2>1, <2>2 DEF Placed, Following
<1>13. ASSUME NEW s \in Streams PROVE Belongs(s)'
    <2>1. SUFFICES ASSUME NEW q \in Runs, s \in subscribers'[q]
                   PROVE  /\ on[s] = q /\ status'[q] = "running" /\ s \notin closed'
                          /\ Following(s) \/ (at[s] = "over" /\ s \in gone)
        BY <1>1, <1>5 DEF Belongs, Following
    <2>2. q # r /\ s \in subscribers[q]
        BY <1>3, <2>1
    <2>3. on[s] = q /\ s \notin subscribers[r]
        BY <1>2, <2>2 DEF Belongs
    <2> QED
        BY <1>1, <1>2, <1>3, <2>2, <2>3 DEF Belongs
<1>14. ASSUME NEW s \in Streams PROVE Tuned(s)'
    <2>1. SUFFICES ASSUME Following(s)
                   PROVE  /\ shown[s] # "none"
                          /\ shown[s] = "running" => s \in subscribers'[on[s]] \union closed'
                          /\ s \in closed' => status'[on[s]] # "running"
                          /\ shown[s] # "running" => status'[on[s]] = shown[s] /\ queue[s] = <<>>
        BY <1>1, <1>5 DEF Tuned, Following
    <2>2. on[s] \in Runs /\ Tuned(s) /\ Belongs(s)
        BY <1>2, <2>1 DEF Handling, Placed
    <2>3. CASE on[s] = r
        BY <1>1, <1>3, <1>4, <2>1, <2>2, <2>3 DEF Tuned
    <2>4. CASE on[s] # r
        <3>1. s \notin subscribers[r]
            BY <2>2, <2>4 DEF Belongs
        <3> QED
            BY <1>1, <1>3, <2>1, <2>2, <2>4, <3>1 DEF Tuned
    <2> QED
        BY <2>3, <2>4
<1>15. ASSUME NEW s \in Streams PROVE Served(s)'
    <2>1. Served(s) /\ UNCHANGED <<lines, at, on, left, queue, gone, got, dropped>>
        BY <1>1, <1>2, <1>5
    <2> QED
        BY <2>1 DEF Served, Following, Ordered, Complete, Latest
<1> QED
    BY <1>6, <1>7, <1>8, <1>9, <1>10, <1>11, <1>12, <1>13, <1>14, <1>15 DEF IInv

LEMMA RunStepKeeps ==
    ASSUME IInv, NEW r \in Runs, RunStep(r)
    PROVE  IInv'
<1>1. CASE Finish(r)
    BY <1>1, FinishStep
<1>2. CASE \E next \in {"say done", "say failed"} : Recorded(r, next)
    BY <1>2, RecordedStep DEF Reported
<1>3. CASE \/ Waiting(r) \/ Lock(r) \/ ComputeFails(r) \/ Verified(r) \/ WriterFails(r)
           \/ ExecuteOne(r) \/ Outcome(r)
           \/ \E next \in {"say done", "say failed"} : NotRecorded(r, next)
    <2>1. Line(r)
        BY <1>3, Lines
    <2> QED
        BY <2>1, LineStep
<1> QED
    BY <1>1, <1>2, <1>3 DEF RunStep, Executed

-------------------------------------------------------------------------------
(* The steps of a stream.                                                    *)

\* Nothing of stream q changes.
Same(q) ==
    /\ at'[q] = at[q] /\ on'[q] = on[q] /\ left'[q] = left[q] /\ queue'[q] = queue[q]
    /\ shown'[q] = shown[q] /\ got'[q] = got[q] /\ told'[q] = told[q]
    /\ q \in closed' <=> q \in closed
    /\ q \in gone' <=> q \in gone
    /\ q \in dropped' <=> q \in dropped
    /\ \A r \in Runs : q \in subscribers'[r] <=> q \in subscribers[r]

LEMMA SameKept ==
    ASSUME IInv, UNCHANGED <<step, lines, status>>, NEW q \in Streams, Same(q)
    PROVE  (Placed(q) /\ Belongs(q) /\ Tuned(q) /\ Served(q))'
<1>1. /\ Placed(q) /\ Belongs(q) /\ Tuned(q) /\ Served(q)
      /\ on[q] # NoRun => on[q] \in Runs
    BY DEF IInv, Handling
<1>2. Placed(q)'
    BY <1>1 DEF Placed, Same, Following
<1>3. Belongs(q)'
    BY <1>1 DEF Belongs, Same, Following
<1>4. Tuned(q)'
    <2>1. Following(q)' <=> Following(q)
        BY DEF Following, Same
    <2>2. Following(q) => on[q] \in Runs
        BY <1>1 DEF Placed
    <2> QED
        BY <1>1, <2>1, <2>2 DEF Tuned, Same
<1>5. Served(q)'
    BY <1>1 DEF Served, Same, Following, Ordered, Complete, Latest
<1> QED
    BY <1>2, <1>3, <1>4, <1>5

\* A step of one stream concerns no other and no run.
LEMMA StreamFrame ==
    ASSUME IInv, NEW s \in Streams,
           UNCHANGED <<now, bucket, applyMu, registry, runVars>>,
           Handling', \A q \in Streams \ {s} : Same(q),
           (Placed(s) /\ Belongs(s) /\ Tuned(s) /\ Served(s))'
    PROVE  IInv'
<1>1. UNCHANGED <<now, bucket, applyMu, registry, step, id, lines, status, finishedAt>>
    BY DEF runVars
<1>2. (Typed /\ Phases /\ Found /\ Findable)'
    BY <1>1 DEF IInv, Typed, Phases, Found, Findable
<1>3. Bounded'
    BY <1>1 DEF IInv, Bounded, Writes
<1>4. \A q \in Streams : (Placed(q) /\ Belongs(q) /\ Tuned(q) /\ Served(q))'
    BY <1>1, SameKept
<1> QED
    BY <1>2, <1>3, <1>4 DEF IInv

\* A run that a stream follows runs or has ended.
LEMMA RunRead ==
    ASSUME IInv, NEW s \in Streams, on[s] # NoRun
    PROVE  /\ on[s] \in Runs /\ lines[on[s]] \in Seq(Kinds)
           /\ status[on[s]] \in {"running", "succeeded", "failed"}
           /\ status \in [Runs -> Statuses]
<1>1. on[s] \in Runs /\ step[on[s]] \notin {"none", "lost"}
    BY DEF IInv, Handling, Placed
<1> QED
    BY <1>1 DEF IInv, Typed, Phases

LEMMA FindStep ==
    ASSUME IInv, NEW s \in Streams, Find(s)
    PROVE  IInv'
<1>1. /\ at[s] = "idle"
      /\ UNCHANGED <<now, bucket, applyMu, registry, runVars, left, shown, got, told,
                     channelVars, gone>>
    BY DEF Find
<1>2. /\ Typed /\ Handling /\ Found /\ Placed(s) /\ Belongs(s)
      /\ UNCHANGED <<step, subscribers, queue, closed, dropped>>
    BY <1>1 DEF IInv, channelVars, runVars
<1>3. \/ /\ at' = [at EXCEPT ![s] = "over"] /\ on' = on
      \/ \E r \in Runs : /\ step[r] \notin {"none", "lost"}
                         /\ on' = [on EXCEPT ![s] = r] /\ at' = [at EXCEPT ![s] = "found"]
    <2>1. \A t \in Times : registry[t] # NoRun =>
                registry[t] \in Runs /\ step[registry[t]] \notin {"none", "lost"}
        BY <1>2 DEF Typed, Found
    <2> QED
        BY <2>1 DEF Find
<1>4. at'[s] \in {"found", "over"} /\ on[s] = NoRun
    BY <1>2, <1>3, <1>1 DEF Handling, Placed
<1>5. Handling'
    <2>1. at' \in [Streams -> {"idle", "found", "replay", "tail", "over"}]
        BY <1>2, <1>3 DEF Handling
    <2>2. on' \in [Streams -> Runs \union {NoRun}]
        BY <1>2, <1>3 DEF Handling
    <2> QED
        BY <1>1, <1>2, <2>1, <2>2 DEF Handling
<1>6. ASSUME NEW q \in Streams \ {s} PROVE Same(q)
    BY <1>1, <1>2, <1>3 DEF Same, Handling
<1>7. Placed(s)'
    <2>1. /\ at'[s] = "found" => on'[s] # NoRun
          /\ on'[s] # NoRun => step[on'[s]] \notin {"none", "lost"}
        <3>1. CASE at' = [at EXCEPT ![s] = "over"] /\ on' = on
            BY <1>2, <1>4, <3>1 DEF Handling
        <3>2. CASE \E r \in Runs : /\ step[r] \notin {"none", "lost"}
                                   /\ on' = [on EXCEPT ![s] = r]
            <4>1. NoRun \notin Runs
                BY StreamConstants
            <4> QED
                BY <1>2, <3>2, <4>1 DEF Handling
        <3> QED
            BY <1>3, <3>1, <3>2
    <2> QED
        BY <1>1, <1>2, <1>4, <2>1 DEF Placed, Following
<1>8. Belongs(s)'
    BY <1>1, <1>2 DEF Belongs, Following
<1>9. Tuned(s)' /\ Served(s)'
    BY <1>4 DEF Tuned, Served, Following
<1> QED
    BY <1>1, <1>5, <1>6, <1>7, <1>8, <1>9, StreamFrame

LEMMA SnapshotStep ==
    ASSUME IInv, NEW s \in Streams, Snapshot(s)
    PROVE  IInv'
<1> DEFINE r == on[s]
           n == Len(lines[r])
<1>1. /\ at[s] = "found"
      /\ left' = [left EXCEPT ![s] = [i \in 1 .. n |-> i]]
      /\ shown' = [shown EXCEPT ![s] = status[r]]
      /\ subscribers' = IF Ended(r) THEN subscribers
                        ELSE [subscribers EXCEPT ![r] = @ \union {s}]
      /\ at' = [at EXCEPT ![s] = "replay"]
      /\ UNCHANGED <<now, bucket, applyMu, registry, runVars, on, got, told, queue, closed,
                     dropped, gone>>
    BY DEF Snapshot
<1>2. /\ Handling /\ Placed(s) /\ Belongs(s)
      /\ UNCHANGED <<step, lines, status>>
    BY <1>1 DEF IInv, runVars
<1>3. /\ r \in Runs /\ r # NoRun /\ lines[r] \in Seq(Kinds)
      /\ status[r] \in {"running", "succeeded", "failed"}
    BY <1>1, <1>2, RunRead DEF Placed
<1>4. n \in Nat /\ [i \in 1 .. n |-> i] \in Seq(Nat) /\ Len([i \in 1 .. n |-> i]) = n
    BY <1>3
<1>5. /\ at'[s] = "replay" /\ shown'[s] = status[r] /\ left'[s] = [i \in 1 .. n |-> i]
      /\ got[s] = <<>> /\ queue[s] = <<>> /\ s \notin closed /\ told[s] = "none"
    BY <1>1, <1>2 DEF Handling, Placed
<1>6. \A p \in Runs : s \notin subscribers[p]
    BY <1>1, <1>2 DEF Belongs, Following
<1> HIDE DEF n
<1>7. Handling'
    <2>1. subscribers' \in [Runs -> SUBSET Streams]
        BY <1>1, <1>2 DEF Handling
    <2>2. left' \in [Streams -> Seq(Nat)]
        BY <1>1, <1>2, <1>4 DEF Handling
    <2> QED
        BY <1>1, <1>2, <1>3, <2>1, <2>2 DEF Handling
<1>8. ASSUME NEW q \in Streams \ {s} PROVE Same(q)
    <2>1. \A p \in Runs : q \in subscribers'[p] <=> q \in subscribers[p]
        BY <1>1, <1>2 DEF Handling
    <2> QED
        BY <1>1, <1>2, <2>1 DEF Same, Handling
<1>9. Placed(s)'
    BY <1>1, <1>2, <1>3, <1>5 DEF Placed, Following
<1>10. ASSUME NEW p \in Runs PROVE s \in subscribers'[p] <=> (p = r /\ status[r] = "running")
    BY <1>1, <1>2, <1>3, <1>6 DEF Ended, Handling
<1>11. Belongs(s)'
    BY <1>1, <1>2, <1>5, <1>10 DEF Belongs, Following
<1>12. Tuned(s)'
    BY <1>1, <1>2, <1>3, <1>5, <1>10 DEF Tuned
<1>13. Served(s)'
    <2>1. Latest(s)' = 0 /\ Len(got'[s]) = 0 /\ Len(queue'[s]) = 0
        BY <1>1, <1>5 DEF Latest
    <2>2. Len(left'[s]) = n /\ Len(lines'[on'[s]]) = n /\ \A i \in 1 .. n : left'[s][i] = i
        BY <1>1, <1>2, <1>4, <1>5 DEF n
    <2>3. 0 + n <= n /\ 0 + n + 0 = n /\ \A i \in 1 .. n : 0 + i = i
        BY <1>4
    <2>4. Ordered(s)'
        BY <2>1, <2>2, <2>3 DEF Ordered
    <2>5. Complete(s)'
        BY <2>1, <2>2, <2>3 DEF Complete
    <2> QED
        BY <2>4, <2>5 DEF Served
<1> QED
    BY <1>1, <1>7, <1>8, <1>9, <1>11, <1>12, <1>13, StreamFrame

\* The next line of the transcript is the one after the last the client has.
LEMMA ReplayStep ==
    ASSUME IInv, NEW s \in Streams, Replay(s)
    PROVE  IInv'
<1>1. /\ at[s] = "replay" /\ s \notin gone /\ left[s] # <<>>
      /\ got' = [got EXCEPT ![s] = Append(@, Head(left[s]))]
      /\ left' = [left EXCEPT ![s] = Tail(@)]
      /\ UNCHANGED <<now, bucket, applyMu, registry, runVars, at, on, shown, told, channelVars, gone>>
    BY DEF Replay, Emit
<1>2. /\ Handling /\ Placed(s) /\ Belongs(s) /\ Tuned(s) /\ Served(s) /\ Following(s)
      /\ UNCHANGED <<step, lines, status, subscribers, queue, closed, dropped>>
    BY <1>1 DEF IInv, runVars, channelVars, Following
<1>3. /\ on[s] \in Runs /\ lines[on[s]] \in Seq(Kinds)
      /\ left[s] \in Seq(Nat) /\ got[s] \in Seq(Nat) /\ queue[s] \in Seq(Nat)
    BY <1>1, <1>2, RunRead DEF Placed, Handling
<1> DEFINE l == Len(left[s])
           g == Len(got[s])
           m == Latest(s)
           n == Len(lines[on[s]])
<1>4. /\ l \in Nat /\ l >= 1 /\ Head(left[s]) \in Nat /\ Head(left[s]) = left[s][1]
      /\ left'[s] \in Seq(Nat) /\ Len(left'[s]) = l - 1
      /\ \A i \in 1 .. l - 1 : left'[s][i] = left[s][i + 1]
    <2>1. left'[s] = Tail(left[s])
        BY <1>1, <1>2 DEF Handling
    <2> QED
        BY <1>1, <1>3, <2>1, Taken
<1>5. /\ g \in Nat /\ got'[s] \in Seq(Nat) /\ Len(got'[s]) = g + 1
      /\ got'[s][g + 1] = left[s][1]
    <2>1. got'[s] = Append(got[s], Head(left[s]))
        BY <1>1, <1>2 DEF Handling
    <2> QED
        BY <1>3, <1>4, <2>1, Appended
<1>6. Ordered(s) /\ (s \notin dropped => Complete(s))
    BY <1>1, <1>2 DEF Served
<1>7. left[s][1] = m + 1 /\ m \in Nat /\ n \in Nat
    <2>1. m \in Nat
        BY <1>3 DEF Latest
    <2>2. 1 \in 1 .. l
        BY <1>4
    <2> QED
        BY <1>3, <1>6, <2>1, <2>2 DEF Ordered
<1>8. Latest(s)' = m + 1
    BY <1>5, <1>7 DEF Latest
<1> HIDE DEF l, g, m, n
<1>9. /\ m + l = (m + 1) + (l - 1) /\ \A i \in 1 .. l - 1 : i + 1 \in 1 .. l /\ m + (i + 1) = (m + 1) + i
    BY <1>4, <1>7
<1>10. Ordered(s)'
    <2>1. /\ m + l <= n /\ \A i \in 1 .. l : left[s][i] = m + i
          /\ \A i \in 1 .. Len(queue[s]) : queue[s][i] > m + l /\ queue[s][i] <= n
          /\ \A i, j \in 1 .. Len(queue[s]) : i < j => queue[s][i] < queue[s][j]
        BY <1>6 DEF Ordered, l, m, n
    <2>2. /\ (m + 1) + (l - 1) <= n /\ \A i \in 1 .. l - 1 : left'[s][i] = (m + 1) + i
          /\ \A i \in 1 .. Len(queue[s]) : queue[s][i] > (m + 1) + (l - 1) /\ queue[s][i] <= n
        BY <1>4, <1>9, <2>1
    <2>3. queue' = queue /\ Len(lines'[on'[s]]) = n
        BY <1>1, <1>2 DEF n
    <2> QED
        BY <1>4, <1>8, <2>1, <2>2, <2>3 DEF Ordered
<1>11. Complete(s) => Complete(s)'
    <2> SUFFICES ASSUME Complete(s) PROVE Complete(s)'
        OBVIOUS
    <2> DEFINE k == Len(queue[s])
    <2>1. m = g /\ g + l + k = n /\ \A i \in 1 .. k : queue[s][i] = g + l + i
        BY DEF Complete, g, l, m, n
    <2>2. k \in Nat
        BY <1>3
    <2>3. queue' = queue /\ Len(lines'[on'[s]]) = n /\ Len(queue'[s]) = k
        BY <1>1, <1>2 DEF n
    <2> HIDE DEF k
    <2>4. (g + 1) + (l - 1) + k = n /\ \A i \in 1 .. k : queue[s][i] = (g + 1) + (l - 1) + i
        BY <1>4, <1>5, <2>1, <2>2
    <2> QED
        BY <1>4, <1>5, <1>8, <2>1, <2>3, <2>4 DEF Complete
<1>12. Handling'
    <2>1. got' \in [Streams -> Seq(Nat)] /\ left' \in [Streams -> Seq(Nat)]
        BY <1>1, <1>2, <1>4, <1>5 DEF Handling
    <2> QED
        BY <1>1, <1>2, <2>1 DEF Handling
<1>13. ASSUME NEW q \in Streams \ {s} PROVE Same(q)
    BY <1>1, <1>2 DEF Same, Handling
<1>14. Placed(s)' /\ Belongs(s)' /\ Tuned(s)'
    BY <1>1, <1>2 DEF Placed, Belongs, Tuned, Following
<1>15. Served(s)'
    BY <1>1, <1>2, <1>6, <1>10, <1>11 DEF Served
<1> QED
    BY <1>1, <1>12, <1>13, <1>14, <1>15, StreamFrame

\* A handler that returns holds nothing; its channel may still be registered,
\* when its client has hung up.
LEMMA ReturnStep ==
    ASSUME IInv, NEW s \in Streams, Following(s), Return(s),
           UNCHANGED <<now, bucket, applyMu, registry, runVars, on, got, dropped, gone>>,
           queue' \in [Streams -> Seq(Nat)], \A q \in Streams \ {s} : queue'[q] = queue[q],
           told' \in [Streams -> {"none", "succeeded", "failed"}],
           \A q \in Streams \ {s} : told'[q] = told[q],
           subscribers' \in [Runs -> SUBSET Streams], closed' \subseteq Streams,
           \A q \in Streams \ {s} : q \in closed' <=> q \in closed,
           \A q \in Streams \ {s}, r \in Runs : q \in subscribers'[r] <=> q \in subscribers[r],
           \A r \in Runs : s \in subscribers'[r] =>
                /\ s \in gone /\ s \in subscribers[r] /\ closed' = closed
    PROVE  IInv'
<1>1. /\ Handling /\ Placed(s) /\ Belongs(s)
      /\ UNCHANGED <<step, lines, status>>
    BY DEF IInv, runVars
<1>2. /\ at' = [at EXCEPT ![s] = "over"] /\ left' = [left EXCEPT ![s] = <<>>]
      /\ shown' = [shown EXCEPT ![s] = "none"]
    BY DEF Return
<1>3. Handling'
    <2>1. <<>> \in Seq(Nat)
        OBVIOUS
    <2> QED
        BY <1>1, <1>2, <2>1 DEF Handling
<1>4. ASSUME NEW q \in Streams \ {s} PROVE Same(q)
    BY <1>1, <1>2 DEF Same, Handling
<1>5. at'[s] = "over"
    BY <1>1, <1>2 DEF Handling
<1>6. Placed(s)'
    BY <1>1, <1>5 DEF Placed, Following
<1>7. Belongs(s)'
    BY <1>1, <1>5 DEF Belongs, Following
<1>8. Tuned(s)' /\ Served(s)'
    BY <1>5 DEF Tuned, Served, Following
<1> QED
    BY <1>3, <1>4, <1>6, <1>7, <1>8, StreamFrame

LEMMA ReplayFailsStep ==
    ASSUME IInv, NEW s \in Streams, ReplayFails(s)
    PROVE  IInv'
<1>1. /\ Following(s) /\ s \in gone /\ Return(s)
      /\ UNCHANGED <<now, bucket, applyMu, registry, runVars, on, got, told, dropped, gone,
                     subscribers, queue, closed>>
    BY DEF ReplayFails, channelVars, Following
<1> QED
    BY <1>1, ReturnStep DEF IInv, Handling

\* A stream that replayed a run that was over is registered with none.
LEMMA ReplayedStep ==
    ASSUME IInv, NEW s \in Streams, Replayed(s)
    PROVE  IInv'
<1>1. /\ at[s] = "replay" /\ s \notin gone /\ left[s] = <<>>
      /\ UNCHANGED <<now, bucket, applyMu, registry, runVars, on, got, gone,
                     subscribers, queue, closed, dropped>>
    BY DEF Replayed, channelVars
<1>2. /\ Handling /\ Placed(s) /\ Belongs(s) /\ Tuned(s) /\ Served(s) /\ Following(s)
      /\ UNCHANGED <<step, lines, status>>
    BY <1>1 DEF IInv, runVars, Following
<1>3. CASE shown[s] = "running"
    <2>1. at' = [at EXCEPT ![s] = "tail"] /\ UNCHANGED <<left, shown, told>>
        BY <1>3 DEF Replayed
    <2>2. Handling' /\ at'[s] = "tail"
        BY <1>1, <1>2, <2>1 DEF Handling
    <2>3. ASSUME NEW q \in Streams \ {s} PROVE Same(q)
        BY <1>1, <1>2, <2>1 DEF Same, Handling
    <2>4. Placed(s)' /\ Belongs(s)' /\ Tuned(s)'
        BY <1>1, <1>2, <1>3, <2>1, <2>2 DEF Placed, Belongs, Tuned, Following
    <2>5. Served(s)'
        BY <1>1, <1>2, <2>1, <2>2 DEF Served, Ordered, Complete, Latest, Following
    <2> QED
        BY <1>1, <2>2, <2>3, <2>4, <2>5, StreamFrame
<1>4. CASE shown[s] # "running"
    <2>1. Return(s) /\ told' = [told EXCEPT ![s] = shown[s]]
        BY <1>4 DEF Replayed
    <2>2. shown[s] \in {"succeeded", "failed"}
        BY <1>2, <1>4 DEF Handling, Tuned
    <2>3. told' \in [Streams -> {"none", "succeeded", "failed"}]
          /\ \A q \in Streams \ {s} : told'[q] = told[q]
        BY <1>2, <2>1, <2>2 DEF Handling
    <2>4. \A r \in Runs : s \notin subscribers[r]
        BY <1>2, <1>4 DEF Tuned, Belongs
    <2> QED
        BY <1>1, <1>2, <2>1, <2>3, <2>4, ReturnStep DEF Handling
<1> QED
    BY <1>3, <1>4

LEMMA FollowStep ==
    ASSUME IInv, NEW s \in Streams, Follow(s)
    PROVE  IInv'
<1>1. /\ at[s] = "tail" /\ s \notin gone /\ queue[s] # <<>>
      /\ got' = [got EXCEPT ![s] = Append(@, Head(queue[s]))]
      /\ queue' = [queue EXCEPT ![s] = Tail(@)]
      /\ UNCHANGED <<now, bucket, applyMu, registry, runVars, at, on, left, shown, told,
                     subscribers, closed, dropped, gone>>
    BY DEF Follow, Emit
<1>2. /\ Handling /\ Placed(s) /\ Belongs(s) /\ Tuned(s) /\ Served(s) /\ Following(s)
      /\ UNCHANGED <<step, lines, status>>
    BY <1>1 DEF IInv, runVars, Following
<1>3. /\ on[s] \in Runs /\ lines[on[s]] \in Seq(Kinds)
      /\ got[s] \in Seq(Nat) /\ queue[s] \in Seq(Nat) /\ left[s] = <<>> /\ shown[s] = "running"
    BY <1>1, <1>2, RunRead DEF Placed, Handling
<1> DEFINE k == Len(queue[s])
           g == Len(got[s])
           m == Latest(s)
           n == Len(lines[on[s]])
           first == queue[s][1]
<1>4. /\ k \in Nat /\ k >= 1 /\ Head(queue[s]) \in Nat /\ Head(queue[s]) = first
      /\ queue'[s] \in Seq(Nat) /\ Len(queue'[s]) = k - 1
      /\ \A i \in 1 .. k - 1 : queue'[s][i] = queue[s][i + 1]
    <2>1. queue'[s] = Tail(queue[s])
        BY <1>1, <1>2 DEF Handling
    <2> QED
        BY <1>1, <1>3, <2>1, Taken
<1>5. /\ g \in Nat /\ got'[s] \in Seq(Nat) /\ Len(got'[s]) = g + 1
      /\ got'[s][g + 1] = first
    <2>1. got'[s] = Append(got[s], Head(queue[s]))
        BY <1>1, <1>2 DEF Handling
    <2> QED
        BY <1>3, <1>4, <2>1, Appended
<1>6. Ordered(s) /\ (s \notin dropped => Complete(s))
    BY <1>1, <1>2 DEF Served
<1>7. m \in Nat /\ n \in Nat /\ Len(left[s]) = 0 /\ first \in Nat
    BY <1>3, <1>4 DEF Latest
<1>8. Latest(s)' = first
    BY <1>5 DEF Latest
<1>9. left' = left /\ Len(lines'[on'[s]]) = n
    BY <1>1, <1>2
<1> HIDE DEF k, g, m, n, first
<1>10. \A i \in 1 .. k - 1 : i + 1 \in 1 .. k /\ 1 < i + 1
    BY <1>4
<1>11. 1 \in 1 .. k
    BY <1>4
<1>12. Ordered(s)'
    <2>1. /\ \A i \in 1 .. k : queue[s][i] > m + 0 /\ queue[s][i] <= n
          /\ \A i, j \in 1 .. k : i < j => queue[s][i] < queue[s][j]
        BY <1>6, <1>7 DEF Ordered, k, m, n
    <2>2. first <= n
        BY <1>11, <2>1 DEF first
    <2>3. \A i \in 1 .. k : queue[s][i] \in Nat
        BY <1>3 DEF k
    <2>4. ASSUME NEW i \in 1 .. k - 1
          PROVE  queue'[s][i] > first + 0 /\ queue'[s][i] <= n
        <3>1. queue'[s][i] = queue[s][i + 1] /\ i + 1 \in 1 .. k /\ 1 < i + 1
            BY <1>4, <1>10
        <3>2. first < queue[s][i + 1] /\ queue[s][i + 1] <= n /\ queue[s][i + 1] \in Nat
            BY <1>11, <2>1, <2>3, <3>1 DEF first
        <3> QED
            BY <1>7, <3>1, <3>2
    <2>5. ASSUME NEW i \in 1 .. k - 1, NEW j \in 1 .. k - 1, i < j
          PROVE  queue'[s][i] < queue'[s][j]
        <3>1. i + 1 < j + 1
            BY <2>5
        <3> QED
            BY <1>4, <1>10, <2>1, <3>1
    <2>6. first + 0 <= n
        BY <1>7, <2>2
    <2>7. 1 .. Len(left'[s]) = {}
        BY <1>7, <1>9
    <2> QED
        BY <1>4, <1>7, <1>8, <1>9, <2>4, <2>5, <2>6, <2>7 DEF Ordered
<1>13. Complete(s) => Complete(s)'
    <2> SUFFICES ASSUME Complete(s) PROVE Complete(s)'
        OBVIOUS
    <2>1. m = g /\ g + 0 + k = n /\ \A i \in 1 .. k : queue[s][i] = g + 0 + i
        BY <1>7 DEF Complete, g, k, m, n
    <2>2. first = g + 1
        BY <1>5, <1>11, <2>1 DEF first
    <2>3. (g + 1) + 0 + (k - 1) = n
        BY <1>4, <1>5, <2>1
    <2>4. ASSUME NEW i \in 1 .. k - 1
          PROVE  queue'[s][i] = (g + 1) + 0 + i
        <3>1. queue'[s][i] = queue[s][i + 1] /\ queue[s][i + 1] = g + 0 + (i + 1)
            BY <1>4, <1>10, <2>1
        <3> QED
            BY <1>4, <1>5, <3>1
    <2> QED
        BY <1>4, <1>5, <1>7, <1>8, <1>9, <2>2, <2>3, <2>4 DEF Complete
<1>14. Handling'
    <2>1. got' \in [Streams -> Seq(Nat)] /\ queue' \in [Streams -> Seq(Nat)]
        BY <1>1, <1>2, <1>4, <1>5 DEF Handling
    <2> QED
        BY <1>1, <1>2, <2>1 DEF Handling
<1>15. ASSUME NEW q \in Streams \ {s} PROVE Same(q)
    BY <1>1, <1>2 DEF Same, Handling
<1>16. Placed(s)' /\ Belongs(s)' /\ Tuned(s)'
    BY <1>1, <1>2, <1>3 DEF Placed, Belongs, Tuned, Following
<1>17. Served(s)'
    BY <1>1, <1>6, <1>12, <1>13 DEF Served
<1> QED
    BY <1>1, <1>14, <1>15, <1>16, <1>17, StreamFrame

\* Unsubscribing leaves a stream registered nowhere, whoever came first.
LEMMA FollowFailsStep ==
    ASSUME IInv, NEW s \in Streams, FollowFails(s)
    PROVE  IInv'
<1>1. /\ at[s] = "tail" /\ s \in gone /\ Return(s) /\ Unsubscribe(s)
      /\ queue' = [queue EXCEPT ![s] = <<>>]
      /\ UNCHANGED <<now, bucket, applyMu, registry, runVars, on, got, told, dropped, gone>>
    BY DEF FollowFails
<1>2. Handling /\ Belongs(s) /\ Following(s)
    BY <1>1 DEF IInv, Following
<1>3. \A r \in Runs : s \in subscribers[r] => on[s] = r
    BY <1>2 DEF Belongs
<1>4. CASE s \in subscribers[on[s]] /\ on[s] \in Runs
    <2>1. /\ subscribers' = [subscribers EXCEPT ![on[s]] = @ \ {s}]
          /\ closed' = closed \union {s}
        BY <1>1, <1>4 DEF Unsubscribe
    <2>2. /\ subscribers' \in [Runs -> SUBSET Streams] /\ closed' \subseteq Streams
          /\ \A q \in Streams \ {s} : q \in closed' <=> q \in closed
        BY <1>2, <1>4, <2>1 DEF Handling
    <2>3. \A q \in Streams \ {s}, r \in Runs : q \in subscribers'[r] <=> q \in subscribers[r]
        BY <1>2, <1>4, <2>1 DEF Handling
    <2>4. \A r \in Runs : s \notin subscribers'[r]
        BY <1>2, <1>3, <1>4, <2>1 DEF Handling
    <2>5. queue' \in [Streams -> Seq(Nat)] /\ \A q \in Streams \ {s} : queue'[q] = queue[q]
        BY <1>1, <1>2 DEF Handling
    <2> QED
        BY <1>1, <1>2, <2>2, <2>3, <2>4, <2>5, ReturnStep DEF Handling
<1>5. CASE s \notin subscribers[on[s]] /\ on[s] \in Runs
    <2>1. UNCHANGED <<subscribers, closed>>
        BY <1>1, <1>5 DEF Unsubscribe
    <2>2. \A r \in Runs : s \notin subscribers[r]
        BY <1>3, <1>5
    <2>3. queue' \in [Streams -> Seq(Nat)] /\ \A q \in Streams \ {s} : queue'[q] = queue[q]
        BY <1>1, <1>2 DEF Handling
    <2> QED
        BY <1>1, <1>2, <2>1, <2>2, <2>3, ReturnStep DEF Handling
<1>6. on[s] \in Runs
    BY <1>1, RunRead DEF IInv, Placed, Following
<1> QED
    BY <1>4, <1>5, <1>6

\* The second snapshot subscribes nobody: the channel is closed, so the run
\* has ended.
LEMMA TailEndsStep ==
    ASSUME IInv, NEW s \in Streams, TailEnds(s)
    PROVE  IInv'
<1>1. /\ at[s] = "tail" /\ s \in closed /\ Return(s)
      /\ told' = IF s \in gone THEN told ELSE [told EXCEPT ![s] = status[on[s]]]
      /\ subscribers' = IF Ended(on[s]) THEN subscribers
                        ELSE [subscribers EXCEPT ![on[s]] = @ \union {s}]
      /\ UNCHANGED <<now, bucket, applyMu, registry, runVars, on, got, queue, closed,
                     dropped, gone>>
    BY DEF TailEnds
<1>2. Handling /\ Placed(s) /\ Belongs(s) /\ Tuned(s) /\ Following(s)
    BY <1>1 DEF IInv, Following
<1>3. on[s] # NoRun /\ status[on[s]] # "running"
    BY <1>1, <1>2 DEF Placed, Tuned
<1>4. status[on[s]] \in {"succeeded", "failed"}
    BY <1>3, RunRead
<1>5. subscribers' = subscribers
    BY <1>1, <1>3 DEF Ended
<1>6. told' \in [Streams -> {"none", "succeeded", "failed"}]
      /\ \A q \in Streams \ {s} : told'[q] = told[q]
    BY <1>1, <1>2, <1>4 DEF Handling
<1>7. \A r \in Runs : s \notin subscribers[r]
    BY <1>1, <1>2 DEF Belongs
<1>8. /\ queue' = queue /\ queue \in [Streams -> Seq(Nat)] /\ closed' = closed
      /\ closed \subseteq Streams /\ subscribers \in [Runs -> SUBSET Streams]
    BY <1>1, <1>2 DEF Handling
<1>9. UNCHANGED <<now, bucket, applyMu, registry, runVars, on, got, dropped, gone>>
    BY <1>1
<1> HIDE DEF Handling
<1> QED
    BY <1>1, <1>2, <1>5, <1>6, <1>7, <1>8, <1>9, ReturnStep

LEMMA HangUpStep ==
    ASSUME IInv, NEW s \in Streams, HangUp(s)
    PROVE  IInv'
<1>1. /\ at[s] \in {"replay", "tail"} /\ gone' = gone \union {s}
      /\ got' = [got EXCEPT ![s] = <<>>] /\ left' = [left EXCEPT ![s] = <<>>]
      /\ UNCHANGED <<now, bucket, applyMu, registry, runVars, at, on, shown, told,
                     subscribers, queue, closed, dropped>>
    BY DEF HangUp, channelVars
<1>2. /\ Handling /\ Placed(s) /\ Belongs(s) /\ Tuned(s)
      /\ UNCHANGED <<step, lines, status>>
    BY <1>1 DEF IInv, runVars
<1>3. Handling'
    <2>1. <<>> \in Seq(Nat)
        OBVIOUS
    <2> QED
        BY <1>1, <1>2, <2>1 DEF Handling
<1>4. ASSUME NEW q \in Streams \ {s} PROVE Same(q)
    BY <1>1, <1>2 DEF Same, Handling
<1>5. left'[s] = <<>> /\ s \in gone'
    BY <1>1, <1>2 DEF Handling
<1>6. Placed(s)' /\ Belongs(s)' /\ Tuned(s)'
    BY <1>1, <1>2, <1>5 DEF Placed, Belongs, Tuned, Following
<1>7. Served(s)'
    BY <1>5 DEF Served
<1> QED
    BY <1>1, <1>3, <1>4, <1>6, <1>7, StreamFrame

-------------------------------------------------------------------------------
(* The clock and the process.                                                *)

LEMMA TickStep ==
    ASSUME IInv, Tick
    PROVE  IInv'
<1>1. /\ now < MaxTime /\ now' = now + 1
      /\ UNCHANGED <<bucket, applyMu, registry, step, id, lines, status, finishedAt,
                     subscribers, at, on, left, queue, closed, shown, gone, got, told, dropped>>
    BY DEF Tick, runVars, streamVars, channelVars
<1>2. Typed /\ Phases /\ Bounded /\ Found /\ Findable
    BY DEF IInv
<1>3. now \in Nat /\ MaxTime \in Nat /\ now' \in Times
    BY <1>1, <1>2, StreamConstants DEF Typed, Times
<1>4. Typed'
    BY <1>1, <1>2, <1>3 DEF Typed
<1>5. (Phases /\ Found)'
    BY <1>1, <1>2 DEF Phases, Found
<1>6. Bounded'
    BY <1>1, <1>2 DEF Bounded, Writes
<1>7. Findable'
    <2>1. ASSUME NEW r \in Runs, now' - finishedAt[r] <= TTL PROVE now - finishedAt[r] <= TTL
        <3>1. finishedAt[r] \in Nat /\ TTL \in Nat
            BY <1>2, StreamConstants DEF Typed, Times
        <3> QED
            BY <1>1, <1>3, <2>1, <3>1
    <2> QED
        BY <1>1, <1>2, <2>1 DEF Findable
<1>8. Handling' /\ \A s \in Streams : (Placed(s) /\ Belongs(s) /\ Tuned(s) /\ Served(s))'
    BY <1>1, StreamsFrame
<1> QED
    BY <1>4, <1>5, <1>6, <1>7, <1>8 DEF IInv

\* The next process knows nothing of runs and streams.
LEMMA RestartStep ==
    ASSUME IInv, Restart
    PROVE  IInv'
<1>1. /\ applyMu' = Free /\ registry' = [t \in Times |-> NoRun]
      /\ step' = [r \in Runs |-> "lost"] /\ status' = [r \in Runs |-> "lost"]
      /\ lines' = [r \in Runs |-> <<>>] /\ id' = [r \in Runs |-> 0]
      /\ finishedAt' = [r \in Runs |-> 0]
      /\ subscribers' = [r \in Runs |-> {}]
      /\ at' = [s \in Streams |-> "over"] /\ on' = [s \in Streams |-> NoRun]
      /\ left' = [s \in Streams |-> <<>>] /\ queue' = [s \in Streams |-> <<>>]
      /\ closed' = {} /\ shown' = [s \in Streams |-> "none"] /\ gone' = {}
      /\ got' = [s \in Streams |-> <<>>] /\ told' = [s \in Streams |-> "none"]
      /\ dropped' = {} /\ UNCHANGED <<now, bucket>>
    BY DEF Restart
<1>2. 0 \in Times /\ MaxWrites \in Nat
    BY StreamConstants DEF Times
<1>3. Typed'
    <2>1. step' \in [Runs -> Steps] /\ status' \in [Runs -> Statuses]
        BY <1>1 DEF Steps, Statuses
    <2>2. lines' \in [Runs -> Seq(Kinds)]
        BY <1>1
    <2>3. /\ now' \in Times /\ bucket' \subseteq [org : Orgs, at : Seconds]
          /\ applyMu' \in Runs \union {Free} /\ registry' \in [Times -> Runs \union {NoRun}]
          /\ id' \in [Runs -> Times] /\ finishedAt' \in [Runs -> Times]
        BY <1>1, <1>2 DEF IInv, Typed
    <2> QED
        BY <2>1, <2>2, <2>3 DEF Typed
<1>4. Handling'
    BY <1>1 DEF Handling
<1>5. Phases' /\ Found' /\ Findable'
    BY <1>1 DEF Phases, Found, Findable
<1>6. Bounded'
    <2>1. SUFFICES ASSUME NEW r \in Runs
                   PROVE  Writes(r)' = 0 /\ Len(lines'[r]) = 0 /\ Said(step'[r]) = 0
        <3>1. 0 \in 0 .. MaxWrites /\ 0 <= 0 + 0
            BY <1>2
        <3> QED
            BY <3>1 DEF Bounded
    <2>2. lines'[r] = <<>> /\ step'[r] = "lost"
        BY <1>1
    <2>3. {i \in DOMAIN lines'[r] : lines'[r][i] = "write"} = {}
        BY <2>2
    <2> QED
        BY <2>2, <2>3, FS_EmptySet DEF Writes, Said
<1>7. ASSUME NEW s \in Streams PROVE (Placed(s) /\ Belongs(s) /\ Tuned(s) /\ Served(s))'
    BY <1>1 DEF Placed, Belongs, Tuned, Served, Following
<1> QED
    BY <1>3, <1>4, <1>5, <1>6, <1>7 DEF IInv

-------------------------------------------------------------------------------
(* What holds of every behaviour.                                            *)

LEMMA StepKeeps == IInv /\ [Next]_vars => IInv'
<1> SUFFICES ASSUME IInv, [Next]_vars PROVE IInv'
    OBVIOUS
<1>1. ASSUME NEW r \in Runs, Create(r) PROVE IInv'
    BY <1>1, CreateStep
<1>2. ASSUME NEW r \in Runs, RunStep(r) PROVE IInv'
    BY <1>2, RunStepKeeps
<1>3. ASSUME NEW s \in Streams, Find(s) PROVE IInv'
    BY <1>3, FindStep
<1>4. ASSUME NEW s \in Streams, StreamStep(s) PROVE IInv'
    BY <1>4, SnapshotStep, ReplayStep, ReplayFailsStep, ReplayedStep, FollowStep,
       FollowFailsStep, TailEndsStep DEF StreamStep
<1>5. ASSUME NEW s \in Streams, HangUp(s) PROVE IInv'
    BY <1>5, HangUpStep
<1>6. CASE vars' = vars
    <2>1. UNCHANGED <<now, bucket, applyMu, registry, step, id, lines, status, finishedAt,
                      subscribers, at, on, left, queue, closed, shown, gone, got, told, dropped>>
        BY <1>6 DEF vars, runVars, streamVars, channelVars
    <2>2. (Typed /\ Phases /\ Found /\ Findable)'
        BY <2>1 DEF IInv, Typed, Phases, Found, Findable
    <2>3. Bounded'
        BY <2>1 DEF IInv, Bounded, Writes
    <2>4. Handling' /\ \A s \in Streams : (Placed(s) /\ Belongs(s) /\ Tuned(s) /\ Served(s))'
        BY <2>1, StreamsFrame
    <2> QED
        BY <2>2, <2>3, <2>4 DEF IInv
<1>7. CASE Tick
    BY <1>7, TickStep
<1>8. CASE Restart
    BY <1>8, RestartStep
<1> QED
    BY <1>1, <1>2, <1>3, <1>4, <1>5, <1>6, <1>7, <1>8 DEF Next, AllOver

\* The inductive invariant holds: of the runs, of the registry and, for every
\* stream, of where its handler is, whom it is registered with and what is on
\* its way to its client.
THEOREM Inductive == Spec => []IInv
    BY InitIInv, StepKeeps, PTL DEF Spec

\* Every variable keeps its type, and a transcript has at most five lines
\* besides its writes: nothing a run does grows it further.
THEOREM TypeCorrect == Spec => []TypeOK
<1>1. ASSUME IInv PROVE TypeOK
    <2>1. Typed /\ Handling /\ Bounded
        BY <1>1 DEF IInv
    <2>2. ASSUME NEW r \in Runs PROVE lines[r] \in Seq(Kinds) /\ Len(lines[r]) <= MaxLines
        <3>1. lines[r] \in Seq(Kinds) /\ Writes(r) \in 0 .. MaxWrites /\ MaxWrites \in Nat
            BY <2>1, StreamConstants DEF Typed, Bounded
        <3>2. Said(step[r]) \in 0 .. 5
            <4>1. Said(step[r]) = 0 \/ Said(step[r]) = 1 \/ Said(step[r]) = 2
                  \/ Said(step[r]) = 3 \/ Said(step[r]) = 4 \/ Said(step[r]) = 5
                <5>1. step[r] \in Steps
                    BY <2>1 DEF Typed
                <5> QED
                    BY <5>1 DEF Steps, Said
            <4> QED
                BY <4>1
        <3> DEFINE n == Len(lines[r])
                   w == Writes(r)
                   before == Said(step[r])
        <3>3. n \in Nat
            BY <3>1
        <3>4. n <= before + w
            BY <2>1 DEF Bounded
        <3>5. w \in Nat /\ w <= MaxWrites /\ before \in Nat /\ before <= 5 /\ MaxWrites \in Nat
            BY <3>1, <3>2
        <3> HIDE DEF n, w, before
        <3>6. n <= MaxWrites + 5
            BY <3>3, <3>4, <3>5
        <3> QED
            BY <3>1, <3>6 DEF n, MaxLines
    <2>3. \A record \in bucket : record \in [org : Orgs, at : 0 .. Second(MaxTime)]
        BY <2>1 DEF Typed, Seconds
    <2>4. \A s \in Streams : {left[s], queue[s], got[s]} \subseteq Seq(Nat)
        BY <2>1 DEF Handling
    <2>5. /\ at \in [Streams -> {"idle", "found", "copied", "replay", "tail", "over"}]
          /\ shown \in [Streams -> Statuses \union {"none"}]
        BY <2>1 DEF Handling, Statuses
    <2> QED
        BY <2>1, <2>2, <2>3, <2>4, <2>5 DEF TypeOK, Typed, Handling
<1> QED
    BY <1>1, Inductive, PTL

\* No goroutine ever sends on a closed channel or closes one twice, although
\* the end of the run and the end of the handler race for it.
THEOREM ChannelsStayOpen == Spec => []RegisteredChannelsAreOpen
<1>1. ASSUME IInv PROVE RegisteredChannelsAreOpen
    BY <1>1 DEF IInv, Handling, Belongs, RegisteredChannelsAreOpen
<1> QED
    BY <1>1, Inductive, PTL

\* Creating a run purges only what may be purged: a run is found until an hour
\* after its end, unless a later run took its identifier.
THEOREM RunsAreFound == Spec => []Findable
<1>1. ASSUME IInv PROVE Findable
    BY <1>1 DEF IInv
<1> QED
    BY <1>1, Inductive, PTL

-------------------------------------------------------------------------------
(* The History page: the place of a record in the list of its organization.  *)

Records == [org : Orgs, at : Nat]

Ahead(F, r) == {q \in F : Newer(q, r)}
Rank(F, r) == Cardinality(Ahead(F, r))

\* With the organization in front, the records of one are in the order of time.
LEMMA InOrderOfTime ==
    ASSUME PrefixPerOrg, NEW q \in Records, NEW r \in Records, q.org = r.org
    PROVE  /\ Newer(q, r) <=> q.at > r.at
           /\ q.at = r.at => q = r
<1>1. q.org \in Nat /\ q.at \in Nat /\ r.at \in Nat
    BY OrgsAreNumbers DEF Records
<1>2. Key(q) = <<q.org, q.at>> /\ Key(r) = <<q.org, r.at>>
    BY DEF Key
<1>3. Newer(q, r) <=> q.at > r.at
    BY <1>1, <1>2 DEF Newer, Later
<1>4. q = [org |-> q.org, at |-> q.at] /\ r = [org |-> q.org, at |-> r.at]
    BY DEF Records
<1> QED
    BY <1>3, <1>4

\* Records of one organization.
Homogeneous(F) ==
    /\ F \subseteq Records
    /\ IsFiniteSet(F)
    /\ \A q, r \in F : q.org = r.org

LEMMA RankType ==
    ASSUME PrefixPerOrg, NEW F, Homogeneous(F), NEW r \in F
    PROVE  /\ IsFiniteSet(Ahead(F, r))
           /\ Rank(F, r) \in Nat /\ Cardinality(F) \in Nat
           /\ Rank(F, r) < Cardinality(F)
<1>1. IsFiniteSet(F) /\ r \in Records
    BY DEF Homogeneous
<1>2. r.at \in Nat
    BY <1>1 DEF Records
<1>3. r \notin Ahead(F, r)
    BY <1>1, <1>2, InOrderOfTime DEF Ahead
<1>4. Ahead(F, r) \subseteq F /\ Ahead(F, r) # F
    BY <1>3 DEF Ahead
<1>5. /\ IsFiniteSet(Ahead(F, r))
      /\ Rank(F, r) <= Cardinality(F)
      /\ Rank(F, r) # Cardinality(F)
    BY <1>1, <1>4, FS_Subset DEF Rank
<1>6. Rank(F, r) \in Nat /\ Cardinality(F) \in Nat
    BY <1>1, <1>5, FS_CardinalityType DEF Rank
<1> QED
    BY <1>5, <1>6

LEMMA RankFalls ==
    ASSUME PrefixPerOrg, NEW F, Homogeneous(F),
           NEW q \in F, NEW r \in F, Newer(q, r)
    PROVE  Rank(F, q) < Rank(F, r)
<1>1. \A x, y \in F : Newer(x, y) <=> x.at > y.at
    BY InOrderOfTime DEF Homogeneous
<1>2. \A x \in F : x.at \in Nat
    BY DEF Homogeneous, Records
<1>3. Ahead(F, q) \subseteq Ahead(F, r)
    BY <1>1, <1>2 DEF Ahead
<1>4. q \in Ahead(F, r) /\ q \notin Ahead(F, q)
    BY <1>1, <1>2 DEF Ahead
<1>5. /\ Rank(F, q) <= Rank(F, r)
      /\ Rank(F, q) # Rank(F, r)
    BY <1>3, <1>4, RankType, FS_Subset DEF Rank
<1> QED
    BY <1>5, RankType

LEMMA RanksDiffer ==
    ASSUME PrefixPerOrg, NEW F, Homogeneous(F), NEW q \in F, NEW r \in F,
           Rank(F, q) = Rank(F, r)
    PROVE  q = r
<1>1. q \in Records /\ r \in Records /\ q.org = r.org
    BY DEF Homogeneous
<1>2. q.at \in Nat /\ r.at \in Nat
    BY <1>1 DEF Records
<1>3. ~Newer(q, r) /\ ~Newer(r, q)
    BY RankFalls, RankType
<1>4. ~(q.at > r.at) /\ ~(r.at > q.at)
    BY <1>1, <1>3, InOrderOfTime
<1>5. q.at = r.at
    BY <1>2, <1>4
<1> QED
    BY <1>1, <1>5, InOrderOfTime

\* A set of numbers has a least one.
LEMMA Least ==
    ASSUME NEW T \in SUBSET Nat, T # {}
    PROVE  \E k \in T : \A j \in T : k <= j
<1>1. PICK k \in T : \A j \in T : ~(<<j, k>> \in OpToRel(<, Nat))
    BY NatLessThanWellFounded, WFMin
<1>2. ASSUME NEW j \in T PROVE k <= j
    <2>1. j \in Nat /\ k \in Nat
        OBVIOUS
    <2>2. ~(j < k)
        <3>1. SUFFICES ASSUME j < k PROVE FALSE
            OBVIOUS
        <3>2. <<j, k>> \in Nat \X Nat
            BY <2>1
        <3>3. <<j, k>>[1] < <<j, k>>[2]
            BY <3>1
        <3>4. <<j, k>> \in OpToRel(<, Nat)
            BY <3>2, <3>3, Zenon DEF OpToRel
        <3> QED
            BY <1>1, <3>4
    <2> QED
        BY <2>1, <2>2
<1> QED
    BY <1>2

\* No place before the one of a record is empty.
LEMMA PlacesAreTaken ==
    ASSUME PrefixPerOrg, NEW F, Homogeneous(F), NEW r \in F,
           NEW j \in Nat, j <= Rank(F, r)
    PROVE  \E m \in F : Rank(F, m) = j
<1> DEFINE S == {q \in F : j <= Rank(F, q)}
           T == {Rank(F, q) : q \in S}
<1>1. \A q \in F : Rank(F, q) \in Nat
    BY RankType
<1>2. r \in S /\ T \in SUBSET Nat /\ T # {}
    BY <1>1
<1>3. PICK k \in T : \A i \in T : k <= i
    <2> HIDE DEF T
    <2> QED
        BY <1>2, Least
<1>4. PICK m \in S : Rank(F, m) = k
    BY <1>3
<1>5. m \in F /\ j <= Rank(F, m) /\ \A q \in S : Rank(F, m) <= Rank(F, q)
    BY <1>3, <1>4
<1>6. ASSUME NEW q \in Ahead(F, m) PROVE Rank(F, q) \in 0 .. j - 1
    <2>1. q \in F /\ Rank(F, q) < Rank(F, m)
        BY <1>5, RankFalls DEF Ahead
    <2>2. Rank(F, q) \in Nat /\ Rank(F, m) \in Nat
        BY <1>1, <1>5, <2>1
    <2>3. ~(j <= Rank(F, q))
        BY <1>5, <2>1, <2>2
    <2> QED
        BY <2>2, <2>3
<1> DEFINE A == Ahead(F, m)
           f == [q \in A |-> Rank(F, q)]
<1>7. f \in Injection(A, 0 .. j - 1)
    <2>1. f \in [A -> 0 .. j - 1]
        BY <1>6
    <2>2. \A p, q \in A : f[p] = f[q] => p = q
        BY RanksDiffer DEF Ahead
    <2> QED
        BY <2>1, <2>2 DEF Injection, IsInjective
<1>8. IsFiniteSet(0 .. j - 1) /\ Cardinality(0 .. j - 1) = j
    <2>1. 0 \in Int /\ j - 1 \in Int /\ (0 > j - 1 => j = 0)
        OBVIOUS
    <2> QED
        BY <2>1, FS_Interval
<1>9. Cardinality(A) <= j
    <2> HIDE DEF f, A
    <2> QED
        BY <1>7, <1>8, FS_Injection
<1>10. Rank(F, m) <= j
    BY <1>9 DEF Rank
<1> QED
    BY <1>1, <1>5, <1>10

LEMMA PageShows ==
    ASSUME PrefixPerOrg, NEW o \in Orgs, bucket \subseteq Records, IsFiniteSet(bucket),
           NEW r \in bucket, r.org = o
    PROVE  \/ \E i \in DOMAIN History(o) : History(o)[i] = r
           \/ /\ Len(History(o)) = Limit
              /\ \A i \in DOMAIN History(o) :
                    History(o)[i].org = o /\ ~Newer(r, History(o)[i])
<1> DEFINE F == Under(bucket, o)
           count == Cardinality(F)
           length == IF count <= Limit THEN count ELSE Limit
           page == History(o)
<1>1. F = {q \in bucket : q.org = o}
    BY OrgsAreNumbers DEF Under
<1>2. Homogeneous(F) /\ r \in F
    <2>1. IsFiniteSet(F)
        BY <1>1, FS_Subset
    <2> QED
        BY <1>1, <2>1 DEF Homogeneous
<1> HIDE DEF F
<1>3. /\ count \in Nat /\ Rank(F, r) \in Nat /\ Rank(F, r) < count
      /\ Limit \in Nat /\ Limit > 0
    BY <1>2, RankType, StreamConstants
<1>4. page = [i \in 1 .. length |-> CHOOSE q \in F : Rank(F, q) = i - 1]
    BY DEF History, List, Rank, Ahead, F
<1> HIDE DEF page, count
<1>5. length \in Nat
    BY <1>3
<1>6. CASE Rank(F, r) < Limit
    <2>1. Rank(F, r) + 1 \in 1 .. length
        BY <1>3, <1>6
    <2>2. page[Rank(F, r) + 1] = CHOOSE q \in F : Rank(F, q) = (Rank(F, r) + 1) - 1
        BY <1>4, <2>1
    <2>3. (Rank(F, r) + 1) - 1 = Rank(F, r)
        BY <1>3
    <2>4. \A q \in F : Rank(F, q) = Rank(F, r) => q = r
        BY <1>2, RanksDiffer
    <2>5. page[Rank(F, r) + 1] = r
        BY <1>2, <2>2, <2>3, <2>4
    <2> QED
        BY <1>4, <2>1, <2>5 DEF page
<1>7. CASE Limit <= Rank(F, r)
    <2>1. length = Limit
        BY <1>3, <1>7
    <2>2. ASSUME NEW i \in 1 .. Limit
          PROVE  page[i] \in F /\ Rank(F, page[i]) = i - 1
        <3>1. i - 1 \in Nat /\ i - 1 <= Rank(F, r)
            BY <1>3, <1>7
        <3>2. \E m \in F : Rank(F, m) = i - 1
            BY <1>2, <3>1, PlacesAreTaken
        <3>3. page[i] = CHOOSE q \in F : Rank(F, q) = i - 1
            BY <1>4, <2>1
        <3> QED
            BY <3>2, <3>3
    <2>3. page \in Seq(F) /\ DOMAIN page = 1 .. Limit /\ Len(page) = Limit
        <3>1. page = [i \in 1 .. Limit |-> page[i]]
            BY <1>4, <2>1
        <3>2. Limit \in Nat
            BY <1>3
        <3> QED
            BY <2>2, <3>1, <3>2
    <2>4. ASSUME NEW i \in 1 .. Limit
          PROVE  page[i].org = o /\ ~Newer(r, page[i])
        <3>1. page[i] \in F /\ Rank(F, page[i]) = i - 1
            BY <2>2
        <3>2. ~Newer(r, page[i])
            <4>1. SUFFICES ASSUME Newer(r, page[i]) PROVE FALSE
                OBVIOUS
            <4>2. Rank(F, r) < Rank(F, page[i])
                BY <1>2, <3>1, <4>1, RankFalls
            <4>3. i - 1 < Limit /\ Rank(F, r) < i - 1
                BY <1>3, <3>1, <4>2
            <4> QED
                BY <1>3, <1>7, <4>3
        <3> QED
            BY <1>1, <3>1, <3>2
    <2> QED
        BY <2>3, <2>4 DEF page
<1> QED
    BY <1>3, <1>6, <1>7

-------------------------------------------------------------------------------
(* A run that wrote has its record, or says that it has none.                *)

Wrote(r) == \E i \in DOMAIN lines[r] : lines[r][i] = "write"
Excused(r) == \E i \in DOMAIN lines[r] : lines[r][i] = "AUDIT"
Kept(r) == \E q \in bucket : q.org = OrgOf[r] /\ Key(q) = entry[r]

\* Between its first write and its record a run executes.
Filed ==
    /\ IsFiniteSet(bucket)
    /\ entry \in [Runs -> {<<>>} \union (Nat \X Nat)]
    /\ \A r \in Runs : Wrote(r) => step[r] = "execute" \/ Kept(r) \/ Excused(r)

LEMMA SayFiled ==
    ASSUME Typed, Filed, NEW r \in Runs, NEW from, NEW kind \in Kinds, NEW to,
           Say(r, from, kind, to), bucket' = bucket, entry' = entry,
           kind = "write" => to = "execute",
           from = "execute" => to = "execute" \/ kind = "AUDIT" \/ ~Wrote(r)
    PROVE  Filed'
<1>1. /\ step[r] = from /\ step' = [step EXCEPT ![r] = to]
      /\ lines' = [lines EXCEPT ![r] = Append(@, kind)]
    BY DEF Say, Narrate
<1>2. step'[r] = to /\ \A q \in Runs \ {r} : step'[q] = step[q]
    BY <1>1 DEF Typed
<1>3. /\ lines'[r] = Append(lines[r], kind) /\ lines[r] \in Seq(Kinds)
      /\ \A q \in Runs \ {r} : lines'[q] = lines[q]
    BY <1>1 DEF Typed
<1>4. /\ Len(lines[r]) \in Nat /\ DOMAIN lines[r] = 1 .. Len(lines[r])
      /\ DOMAIN lines'[r] = 1 .. Len(lines[r]) + 1
      /\ \A i \in 1 .. Len(lines[r]) : lines'[r][i] = lines[r][i]
      /\ lines'[r][Len(lines[r]) + 1] = kind
    BY <1>3, Appended
<1>5. Kept(r)' <=> Kept(r)
    BY DEF Kept
<1>6. /\ Wrote(r)' => Wrote(r) \/ kind = "write"
      /\ Excused(r) \/ kind = "AUDIT" => Excused(r)'
    <2>1. DOMAIN lines'[r] = DOMAIN lines[r] \union {Len(lines[r]) + 1}
        BY <1>4
    <2> QED
        BY <1>4, <2>1 DEF Wrote, Excused
<1>7. Wrote(r)' => step'[r] = "execute" \/ Kept(r)' \/ Excused(r)'
    BY <1>1, <1>2, <1>5, <1>6 DEF Filed
<1>8. ASSUME NEW q \in Runs \ {r}
      PROVE  Wrote(q)' => step'[q] = "execute" \/ Kept(q)' \/ Excused(q)'
    BY <1>2, <1>3 DEF Filed, Wrote, Kept, Excused
<1> QED
    BY <1>7, <1>8 DEF Filed

LEMMA NoWrites ==
    ASSUME Typed, NEW r \in Runs
    PROVE  Wrote(r) <=> Writes(r) # 0
<1> DEFINE W == {i \in DOMAIN lines[r] : lines[r][i] = "write"}
<1>1. lines[r] \in Seq(Kinds)
    BY DEF Typed
<1>2. Len(lines[r]) \in Nat /\ DOMAIN lines[r] = 1 .. Len(lines[r])
    BY <1>1
<1>3. IsFiniteSet(1 .. Len(lines[r]))
    BY <1>2, FS_Interval
<1>4. IsFiniteSet(W)
    <2>1. W \subseteq 1 .. Len(lines[r])
        BY <1>2
    <2> QED
        BY <1>3, <2>1, FS_Subset
<1>5. Cardinality(W) = 0 <=> W = {}
    BY <1>4, FS_EmptySet
<1>6. Wrote(r) <=> W # {}
    BY DEF Wrote
<1>7. Writes(r) = Cardinality(W)
    BY DEF Writes
<1> HIDE DEF W
<1> QED
    BY <1>5, <1>6, <1>7

LEMMA RecordedFiled ==
    ASSUME PrefixPerOrg, Typed, Filed, NEW r \in Runs, NEW next, Recorded(r, next)
    PROVE  Filed'
<1> DEFINE record == [org |-> OrgOf[r], at |-> Second(now)]
<1>1. /\ bucket' = Put(bucket, record)
      /\ entry' = [entry EXCEPT ![r] = Key(record)]
      /\ step[r] = "execute" /\ step' = [step EXCEPT ![r] = next]
      /\ lines' = lines
    BY DEF Recorded
<1>2. record.org \in Nat /\ record.at \in Nat /\ Key(record) = <<record.org, record.at>>
    <2>1. Second(now) \in Nat /\ OrgOf[r] \in Orgs
        BY SecondType, StreamConstants DEF Typed, Seconds
    <2> QED
        BY <2>1, OrgsAreNumbers DEF Key
<1>3. bucket' = {q \in bucket : Key(q) # Key(record)} \union {record}
    BY <1>1 DEF Put
<1>4. record \in bucket' /\ record.org = OrgOf[r]
    BY <1>3
<1> HIDE DEF record
<1>5. IsFiniteSet(bucket')
    <2>1. IsFiniteSet({q \in bucket : Key(q) # Key(record)})
        BY FS_Subset DEF Filed
    <2> QED
        BY <1>3, <2>1, FS_AddElement
<1>6. entry' \in [Runs -> {<<>>} \union (Nat \X Nat)]
    BY <1>1, <1>2 DEF Filed
<1>7. entry'[r] = Key(record) /\ \A q \in Runs \ {r} : entry'[q] = entry[q]
    BY <1>1 DEF Filed
<1>8. Kept(r)'
    BY <1>4, <1>7 DEF Kept
<1>9. ASSUME NEW q \in Runs \ {r}
      PROVE  Wrote(q)' => step'[q] = "execute" \/ Kept(q)' \/ Excused(q)'
    <2>1. Wrote(q)' = Wrote(q) /\ Excused(q)' = Excused(q)
        BY <1>1 DEF Wrote, Excused
    <2>2. step'[q] = step[q]
        BY <1>1 DEF Typed
    <2>3. ASSUME Kept(q) PROVE Kept(q)'
        <3>1. PICK k \in bucket : k.org = OrgOf[q] /\ Key(k) = entry[q]
            BY <2>3 DEF Kept
        <3>2. CASE Key(k) # Key(record)
            <4>1. k \in bucket'
                BY <1>3, <3>2
            <4> QED
                BY <1>7, <3>1, <4>1 DEF Kept
        <3>3. CASE Key(k) = Key(record)
            <4>1. Key(k) = <<k.org, k.at>>
                BY DEF Key
            <4>2. k.org = record.org
                BY <1>2, <3>3, <4>1
            <4> QED
                BY <1>4, <1>7, <3>1, <3>3, <4>2 DEF Kept
        <3> QED
            BY <3>2, <3>3
    <2> QED
        BY <2>1, <2>2, <2>3 DEF Filed
<1> QED
    BY <1>5, <1>6, <1>8, <1>9 DEF Filed

LEMMA FiledStep ==
    ASSUME PrefixPerOrg, IInv, Filed, [Next]_vars
    PROVE  Filed'
<1>1. Typed
    BY DEF IInv
<1>2. ASSUME NEW r \in Runs, Create(r) PROVE Filed'
    <2>1. /\ step[r] = "none" /\ step' = [step EXCEPT ![r] = "begin"]
          /\ lines' = lines /\ entry' = entry /\ bucket' = bucket
        BY <1>2 DEF Create
    <2>2. \A q \in Runs : step'[q] = "execute" <=> step[q] = "execute"
        BY <1>1, <2>1 DEF Typed
    <2> QED
        BY <2>1, <2>2 DEF Filed, Wrote, Kept, Excused
<1>3. ASSUME NEW r \in Runs, NEW next \in {"say done", "say failed"}, Recorded(r, next)
      PROVE  Filed'
    BY <1>1, <1>3, RecordedFiled
<1>4. ASSUME NEW r \in Runs, NEW next \in {"say done", "say failed"}, NotRecorded(r, next)
      PROVE  Filed'
    <2>1. Say(r, "execute", "AUDIT", next) /\ bucket' = bucket /\ entry' = entry
        BY <1>4 DEF NotRecorded
    <2> QED
        BY <1>1, <2>1, SayFiled DEF Kinds
<1>5. ASSUME NEW r \in Runs, Waiting(r) \/ Lock(r) \/ ComputeFails(r) \/ Verified(r)
      PROVE  Filed'
    <2>1. bucket' = bucket /\ entry' = entry
        BY <1>5 DEF Waiting, Lock, ComputeFails, Verified
    <2>2. \/ Say(r, "begin", "waiting", "wait")
          \/ Say(r, "wait", "recomputing", "compute")
          \/ Say(r, "compute", "FAILED", "fail")
          \/ Say(r, "compute", "verified", "execute")
        BY <1>5 DEF Waiting, Lock, ComputeFails, Verified
    <2> QED
        BY <1>1, <2>1, <2>2, SayFiled DEF Kinds
<1>6. ASSUME NEW r \in Runs, WriterFails(r) PROVE Filed'
    <2>1. /\ Writes(r) = 0 /\ Say(r, "execute", "FAILED", "fail")
          /\ bucket' = bucket /\ entry' = entry
        BY <1>6 DEF WriterFails
    <2>2. ~Wrote(r)
        BY <1>1, <2>1, NoWrites
    <2> QED
        BY <1>1, <2>1, <2>2, SayFiled DEF Kinds
<1>7. ASSUME NEW r \in Runs, ExecuteOne(r) PROVE Filed'
    <2>1. Say(r, "execute", "write", "execute") /\ bucket' = bucket /\ entry' = entry
        BY <1>7 DEF ExecuteOne
    <2> QED
        BY <1>1, <2>1, SayFiled DEF Kinds
<1>8. ASSUME NEW r \in Runs, Outcome(r) PROVE Filed'
    <2>1. /\ \/ Say(r, "say done", "done", "finish")
             \/ Say(r, "say failed", "FAILED", "fail")
          /\ bucket' = bucket /\ entry' = entry
        BY <1>8 DEF Outcome
    <2> QED
        BY <1>1, <2>1, SayFiled DEF Kinds
<1>9. ASSUME NEW r \in Runs, Finish(r) PROVE Filed'
    <2>1. /\ step[r] \in {"finish", "fail"} /\ step' = [step EXCEPT ![r] = "over"]
          /\ lines' = lines /\ entry' = entry /\ bucket' = bucket
        BY <1>9 DEF Finish
    <2>2. \A q \in Runs : step'[q] = "execute" <=> step[q] = "execute"
        BY <1>1, <2>1 DEF Typed
    <2> QED
        BY <2>1, <2>2 DEF Filed, Wrote, Kept, Excused
<1>10. ASSUME UNCHANGED <<bucket, runVars>> PROVE Filed'
    BY <1>10 DEF runVars, Filed, Wrote, Kept, Excused
<1>11. ASSUME NEW s \in Streams, Find(s) \/ StreamStep(s) \/ HangUp(s) PROVE Filed'
    <2>1. UNCHANGED <<bucket, runVars>>
        BY <1>11 DEF Find, HangUp, StreamStep, Snapshot, Replay, ReplayFails, Replayed,
           Follow, FollowFails, TailEnds
    <2> QED
        BY <1>10, <2>1
<1>12. ASSUME Tick \/ AllOver \/ vars' = vars PROVE Filed'
    <2>1. UNCHANGED <<bucket, runVars>>
        BY <1>12 DEF Tick, AllOver, vars
    <2> QED
        BY <1>10, <2>1
<1>13. ASSUME Restart PROVE Filed'
    <2>1. /\ bucket' = bucket /\ entry' = [r \in Runs |-> <<>>]
          /\ lines' = [r \in Runs |-> <<>>]
        BY <1>13 DEF Restart
    <2>2. \A r \in Runs : lines'[r] = <<>>
        BY <2>1
    <2>3. \A r \in Runs : ~Wrote(r)'
        BY <2>2 DEF Wrote
    <2> QED
        BY <2>1, <2>3 DEF Filed
<1>14. ASSUME NEW r \in Runs, RunStep(r) PROVE Filed'
    BY <1>3, <1>4, <1>5, <1>6, <1>7, <1>8, <1>9, <1>14 DEF RunStep, Executed
<1> QED
    BY <1>2, <1>11, <1>12, <1>13, <1>14 DEF Next

\* Where keys begin with the organization (the default), a run that wrote to
\* GitHub and ended is on the History page of its organization, or a whole page
\* of records as new is, or its transcript says that it has no record: however
\* many runs, of whichever organizations, recorded in the same second, and
\* whatever the page has room for.
THEOREM RunsAreFiled ==
    ASSUME PrefixPerOrg
    PROVE  Spec => []OnFile
<1>1. Init => Filed
    <2> SUFFICES ASSUME Init PROVE Filed
        OBVIOUS
    <2>1. /\ bucket = {} /\ entry = [r \in Runs |-> <<>>]
          /\ lines = [r \in Runs |-> <<>>]
        BY DEF Init
    <2>2. \A r \in Runs : ~Wrote(r)
        BY <2>1 DEF Wrote
    <2> QED
        BY <2>1, <2>2, FS_EmptySet DEF Filed
<1>2. IInv /\ Filed /\ [Next]_vars => Filed'
    BY FiledStep
<1>3. ASSUME IInv, Filed PROVE OnFile
    <2>1. Typed /\ bucket \subseteq Records
        <3>1. Seconds \subseteq Nat
            BY DEF Seconds
        <3> QED
            BY <1>3, <3>1 DEF IInv, Typed, Records
    <2>2. SUFFICES ASSUME NEW r \in Runs, step[r] = "over", Writes(r) > 0, ~Excused(r)
                   PROVE  LET page == History(OrgOf[r])
                          IN  \/ \E i \in DOMAIN page :
                                    page[i].org = OrgOf[r] /\ Key(page[i]) = entry[r]
                              \/ Len(page) = Limit /\ \A i \in DOMAIN page :
                                    page[i].org = OrgOf[r] /\ ~Later(entry[r], Key(page[i]))
        BY DEF OnFile, Excused
    <2>3. Wrote(r)
        BY <2>1, <2>2, NoWrites
    <2>4. PICK q \in bucket : q.org = OrgOf[r] /\ Key(q) = entry[r]
        BY <1>3, <2>2, <2>3 DEF Filed, Kept
    <2>5. OrgOf[r] \in Orgs
        BY StreamConstants
    <2>6. \/ \E i \in DOMAIN History(OrgOf[r]) : History(OrgOf[r])[i] = q
          \/ /\ Len(History(OrgOf[r])) = Limit
             /\ \A i \in DOMAIN History(OrgOf[r]) :
                    History(OrgOf[r])[i].org = OrgOf[r] /\ ~Newer(q, History(OrgOf[r])[i])
        BY <1>3, <2>1, <2>4, <2>5, PageShows DEF Filed
    <2> QED
        BY <2>4, <2>6 DEF Newer
<1> QED
    BY <1>1, <1>2, <1>3, Inductive, PTL DEF Spec

-------------------------------------------------------------------------------
(* What the streams keep of Narration.  A client that hung up has left, and  *)
(* so have those of a process that died.                                     *)

Reads == [s \in Streams |-> IF s \in gone THEN NoRun ELSE on[s]]
Lengths == [r \in Runs |-> Len(lines[r])]

\* Each variable of the log, by its definition here.
LEMMA Log ==
    /\ Narrated!vars = <<Lengths, status, Reads, got, dropped \ gone, told>>
    BY DEF Narrated!vars, Lengths, Reads

LEMMA InitRefines == Init => Narrated!Init
<1> SUFFICES ASSUME Init PROVE Narrated!Init
    OBVIOUS
<1>1. \A r \in Runs : Len(lines[r]) = 0
    BY DEF Init
<1>2. [r \in Runs |-> Len(lines[r])] = [r \in Runs |-> 0]
    BY <1>1
<1>3. [s \in Streams |-> IF s \in gone THEN NoRun ELSE on[s]] = [s \in Streams |-> NoRun]
    BY DEF Init
<1> QED
    BY <1>2, <1>3 DEF Init, Narrated!Init

\* A reader whose channel is full is a whole buffer behind.
LEMMA FullIsBehind ==
    ASSUME IInv, NEW s \in Streams, Following(s), s \notin gone, s \notin dropped,
           Len(queue[s]) >= Buffer
    PROVE  Len(lines[on[s]]) - Len(got[s]) >= Buffer
<1> DEFINE k == Len(queue[s])
           g == Len(got[s])
           l == Len(left[s])
           n == Len(lines[on[s]])
<1>1. Complete(s)
    BY DEF IInv, Served
<1>2. g + l + k = n
    BY <1>1 DEF Complete
<1>3. queue[s] \in Seq(Nat) /\ got[s] \in Seq(Nat) /\ left[s] \in Seq(Nat)
    BY DEF IInv, Handling
<1>4. k \in Nat /\ g \in Nat /\ l \in Nat /\ Buffer \in Nat
    BY <1>3, StreamConstants
<1>5. k >= Buffer
    OBVIOUS
<1> HIDE DEF k, g, l, n
<1>6. n - g >= Buffer
    BY <1>2, <1>4, <1>5
<1> QED
    BY <1>6 DEF n, g

LEMMA SayRefines ==
    ASSUME IInv, NEW r \in Runs, Line(r)
    PROVE  Narrated!Write(r)
<1>1. PICK from \in Working, to \in Working, kind \in Kinds : Say(r, from, kind, to)
    BY DEF Line, Says
<1>2. /\ status[r] = "running"
      /\ lines' = [lines EXCEPT ![r] = Append(@, kind)]
      /\ Len(lines'[r]) = Len(lines[r]) + 1
      /\ \A q \in Runs \ {r} : lines'[q] = lines[q]
      /\ \A s \in subscribers[r] : on[s] = r
      /\ \A s \in Streams :
            \/ (s \in dropped' <=> s \in dropped)
            \/ s \in subscribers[r] /\ Len(queue[s]) >= Buffer /\ s \in dropped'
      /\ dropped' \subseteq Streams /\ dropped \subseteq dropped'
      /\ UNCHANGED <<status, streamVars, gone>>
    BY <1>1, SayFacts
<1>3. UNCHANGED <<status, at, on, got, told, gone>>
    BY <1>2 DEF streamVars
<1>4. Lengths' = [Lengths EXCEPT ![r] = @ + 1]
    <2>1. Lengths'[r] = Lengths[r] + 1 /\ \A q \in Runs \ {r} : Lengths'[q] = Lengths[q]
        BY <1>2 DEF Lengths
    <2>2. Lengths' = [q \in Runs |-> Lengths'[q]] /\ Lengths = [q \in Runs |-> Lengths[q]]
        BY DEF Lengths
    <2> HIDE DEF Lengths
    <2> QED
        BY <2>1, <2>2
<1>5. Reads' = Reads
    BY <1>3 DEF Reads
<1> DEFINE late == (dropped' \ dropped) \ gone
<1>6. dropped' \ gone' = (dropped \ gone) \union late
    BY <1>2, <1>3
<1>7. ASSUME NEW s \in late
      PROVE  s \in Streams /\ Reads[s] = r /\ Lengths[Reads[s]] - Len(got[s]) >= Buffer
    <2>1. s \in Streams /\ s \in subscribers[r] /\ Len(queue[s]) >= Buffer /\ s \notin gone /\ s \notin dropped
        BY <1>2, <1>7
    <2>2. on[s] = r /\ Following(s)
        BY <2>1 DEF IInv, Belongs
    <2>3. Len(lines[on[s]]) - Len(got[s]) >= Buffer
        BY <2>1, <2>2, FullIsBehind
    <2>4. Reads[s] = r /\ Lengths[r] = Len(lines[r])
        BY <2>1, <2>2 DEF Reads, Lengths
    <2> QED
        BY <2>1, <2>2, <2>3, <2>4
<1>8. late \in SUBSET {s \in Streams : Reads[s] = r /\ Lengths[Reads[s]] - Len(got[s]) >= Buffer}
    BY <1>7
<1> HIDE DEF late
<1> QED
    BY <1>2, <1>3, <1>4, <1>5, <1>6, <1>8 DEF Narrated!Write, Narrated!Behind, Lengths, Reads

LEMMA CloseRefines ==
    ASSUME IInv, NEW r \in Runs, Finish(r)
    PROVE  Narrated!Close(r)
<1>1. /\ step[r] \in {"finish", "fail"}
      /\ status' = [status EXCEPT ![r] = IF step[r] = "finish" THEN "succeeded" ELSE "failed"]
      /\ UNCHANGED <<lines, on, got, told, dropped, gone>>
    BY DEF Finish, streamVars
<1>2. status[r] = "running"
    BY <1>1 DEF IInv, Phases
<1>3. \E v \in Narrated!Verdicts : status' = [status EXCEPT ![r] = v]
    BY <1>1 DEF Narrated!Verdicts
<1> QED
    BY <1>1, <1>2, <1>3 DEF Narrated!Close

LEMMA OpenRefines ==
    ASSUME IInv, NEW s \in Streams, Find(s)
    PROVE  [Narrated!Next]_(Narrated!vars)
<1>1. /\ at[s] = "idle" /\ UNCHANGED <<lines, status, got, told, dropped, gone>>
    BY DEF Find, runVars, channelVars
<1>2. /\ Typed /\ Handling /\ s \notin gone /\ on[s] = NoRun
    BY <1>1 DEF IInv, Placed
<1>3. \/ on' = on
      \/ \E r \in Runs : on' = [on EXCEPT ![s] = r]
    <2>1. \A t \in Times : registry[t] # NoRun => registry[t] \in Runs
        BY <1>2 DEF Typed
    <2> QED
        BY <2>1 DEF Find
<1>4. CASE on' = on
    BY <1>1, <1>4 DEF Narrated!vars
<1>5. ASSUME NEW r \in Runs, on' = [on EXCEPT ![s] = r]
      PROVE  Narrated!Open(s, r)
    <2>1. Reads[s] = NoRun
        BY <1>2 DEF Reads
    <2>2. Reads' = [Reads EXCEPT ![s] = r]
        BY <1>1, <1>2, <1>5 DEF Reads, Handling
    <2> QED
        BY <1>1, <2>1, <2>2 DEF Narrated!Open, Reads
<1> QED
    BY <1>3, <1>4, <1>5 DEF Narrated!Next

\* A client is shown a line it does not have, and the very next one unless one
\* of its lines was dropped.
LEMMA ShowRefines ==
    ASSUME IInv, NEW s \in Streams, Following(s), s \notin gone, NEW n \in Nat,
           got' = [got EXCEPT ![s] = Append(@, n)],
           n > Latest(s), n <= Len(lines[on[s]]), s \notin dropped => n = Latest(s) + 1,
           UNCHANGED <<lines, status, on, told, dropped, gone>>
    PROVE  Narrated!Show(s)
<1>1. Handling /\ on[s] # NoRun /\ told[s] = "none"
    BY DEF IInv, Placed, Following
<1>2. on[s] \in Runs /\ lines[on[s]] \in Seq(Kinds)
    BY <1>1, RunRead
<1>3. Reads[s] = on[s] /\ Lengths[Reads[s]] = Len(lines[on[s]]) /\ Reads[s] # NoRun
    BY <1>1, <1>2 DEF Reads, Lengths
<1>4. Latest(s) \in Nat
    <2>1. got[s] \in Seq(Nat)
        BY <1>1 DEF Handling
    <2> QED
        BY <2>1 DEF Latest
<1>5. Narrated!Last(got[s]) = Latest(s)
    BY DEF Narrated!Last, Latest
<1> DEFINE m == Latest(s)
           most == Len(lines[on[s]])
<1>6. m \in Nat /\ most \in Nat /\ n > m /\ n <= most
    BY <1>2, <1>4
<1> HIDE DEF m, most
<1>7. n \in (m + 1) .. most
    BY <1>6
<1>8. n \in (Narrated!Last(got[s]) + 1) .. Lengths[Reads[s]]
    BY <1>3, <1>5, <1>7 DEF m, most
<1>9. s \notin dropped \ gone => n = Narrated!Last(got[s]) + 1
    BY <1>5
<1>10. Lengths' = Lengths /\ Reads' = Reads /\ (dropped \ gone)' = dropped \ gone
    BY DEF Lengths, Reads
<1> QED
    BY <1>1, <1>3, <1>8, <1>9, <1>10 DEF Narrated!Show, Lengths, Reads

LEMMA ReplayRefines ==
    ASSUME IInv, NEW s \in Streams, Replay(s)
    PROVE  Narrated!Show(s)
<1>1. /\ Following(s) /\ s \notin gone /\ left[s] # <<>>
      /\ got' = [got EXCEPT ![s] = Append(@, Head(left[s]))]
      /\ UNCHANGED <<lines, status, on, told, dropped, gone>>
    BY DEF Replay, Emit, Following, runVars, channelVars
<1>2. left[s] \in Seq(Nat) /\ got[s] \in Seq(Nat) /\ Ordered(s)
    BY <1>1 DEF IInv, Handling, Served
<1> DEFINE l == Len(left[s])
           m == Latest(s)
<1>3. Head(left[s]) \in Nat /\ Head(left[s]) = left[s][1] /\ l \in Nat /\ l >= 1 /\ m \in Nat
    BY <1>1, <1>2, Taken DEF Latest
<1>4. 1 \in 1 .. l
    BY <1>3
<1>5. Head(left[s]) = m + 1 /\ m + l <= Len(lines[on[s]])
    BY <1>2, <1>3, <1>4 DEF Ordered
<1>6. lines[on[s]] \in Seq(Kinds)
    BY <1>1, RunRead DEF IInv, Placed
<1> DEFINE n == Len(lines[on[s]])
<1>7. n \in Nat /\ m + l <= n
    BY <1>5, <1>6
<1> HIDE DEF l, m, n
<1>8. m + 1 > m /\ m + 1 <= n
    BY <1>3, <1>7
<1> QED
    BY <1>1, <1>3, <1>5, <1>8, ShowRefines DEF m, n

LEMMA FollowRefines ==
    ASSUME IInv, NEW s \in Streams, Follow(s)
    PROVE  Narrated!Show(s)
<1>1. /\ at[s] = "tail" /\ Following(s) /\ s \notin gone /\ queue[s] # <<>>
      /\ got' = [got EXCEPT ![s] = Append(@, Head(queue[s]))]
      /\ UNCHANGED <<lines, status, on, told, dropped, gone>>
    BY DEF Follow, Emit, Following, runVars
<1>2. /\ queue[s] \in Seq(Nat) /\ got[s] \in Seq(Nat) /\ left[s] = <<>>
      /\ Ordered(s) /\ (s \notin dropped => Complete(s))
    BY <1>1 DEF IInv, Handling, Placed, Served
<1> DEFINE k == Len(queue[s])
           m == Latest(s)
           first == Head(queue[s])
<1>3. first \in Nat /\ first = queue[s][1] /\ k \in Nat /\ k >= 1 /\ m \in Nat /\ Len(left[s]) = 0
    BY <1>1, <1>2, Taken DEF Latest
<1>4. 1 \in 1 .. k
    BY <1>3
<1>5. first > m + 0 /\ first <= Len(lines[on[s]])
    BY <1>2, <1>3, <1>4 DEF Ordered
<1>6. s \notin dropped => first = m + 0 + 1
    BY <1>2, <1>3, <1>4 DEF Complete
<1> HIDE DEF k, m, first
<1>7. first > m /\ (s \notin dropped => first = m + 1)
    BY <1>3, <1>5, <1>6
<1> QED
    BY <1>1, <1>3, <1>5, <1>7, ShowRefines DEF m, first

\* The verdict comes after every line that was not dropped.
LEMMA TellRefines ==
    ASSUME IInv, NEW s \in Streams, Following(s), s \notin gone,
           left[s] = <<>>, queue[s] = <<>>, status[on[s]] # "running",
           told' = [told EXCEPT ![s] = status[on[s]]],
           UNCHANGED <<lines, status, on, got, dropped, gone>>
    PROVE  Narrated!Tell(s)
<1>1. Handling /\ on[s] # NoRun /\ told[s] = "none" /\ (s \notin dropped => Complete(s))
    BY DEF IInv, Placed, Served, Following
<1>2. on[s] \in Runs /\ lines[on[s]] \in Seq(Kinds) /\ status[on[s]] \in Narrated!Verdicts
    BY <1>1, RunRead DEF Narrated!Verdicts
<1>3. Reads[s] = on[s] /\ Lengths[Reads[s]] = Len(lines[on[s]]) /\ Reads[s] # NoRun
    BY <1>1, <1>2 DEF Reads, Lengths
<1>4. s \notin dropped => Len(got[s]) = Len(lines[on[s]])
    <2> SUFFICES ASSUME s \notin dropped PROVE Len(got[s]) = Len(lines[on[s]])
        OBVIOUS
    <2>1. Len(got[s]) + 0 + 0 = Len(lines[on[s]])
        BY <1>1 DEF Complete
    <2>2. got[s] \in Seq(Nat)
        BY <1>1 DEF Handling
    <2> DEFINE g == Len(got[s])
    <2>3. g \in Nat /\ g + 0 + 0 = Len(lines[on[s]])
        BY <2>1, <2>2
    <2> HIDE DEF g
    <2>4. g = g + 0 + 0
        BY <2>3
    <2> QED
        BY <2>3, <2>4 DEF g
<1>5. Lengths' = Lengths /\ Reads' = Reads /\ (dropped \ gone)' = dropped \ gone
    BY DEF Lengths, Reads
<1> QED
    BY <1>1, <1>2, <1>3, <1>4, <1>5 DEF Narrated!Tell, Lengths, Reads

LEMMA ReplayedRefines ==
    ASSUME IInv, NEW s \in Streams, Replayed(s)
    PROVE  [Narrated!Next]_(Narrated!vars)
<1>1. /\ at[s] = "replay" /\ Following(s) /\ s \notin gone /\ left[s] = <<>>
      /\ UNCHANGED <<lines, status, on, got, dropped, gone>>
    BY DEF Replayed, runVars, channelVars, Following
<1>2. CASE shown[s] = "running"
    <2>1. told' = told
        BY <1>2 DEF Replayed
    <2> QED
        BY <1>1, <2>1 DEF Narrated!vars
<1>3. CASE shown[s] # "running"
    <2>1. told' = [told EXCEPT ![s] = shown[s]]
        BY <1>3 DEF Replayed
    <2>2. status[on[s]] = shown[s] /\ queue[s] = <<>>
        BY <1>1, <1>3 DEF IInv, Tuned
    <2>3. Narrated!Tell(s)
        BY <1>1, <1>3, <2>1, <2>2, TellRefines
    <2> QED
        BY <2>3 DEF Narrated!Next
<1> QED
    BY <1>2, <1>3

LEMMA TailEndsRefines ==
    ASSUME IInv, NEW s \in Streams, TailEnds(s)
    PROVE  [Narrated!Next]_(Narrated!vars)
<1>1. /\ at[s] = "tail" /\ Following(s) /\ s \in closed /\ queue[s] = <<>>
      /\ told' = IF s \in gone THEN told ELSE [told EXCEPT ![s] = status[on[s]]]
      /\ UNCHANGED <<lines, status, on, got, dropped, gone>>
    BY DEF TailEnds, runVars, Following
<1>2. left[s] = <<>> /\ status[on[s]] # "running"
    BY <1>1 DEF IInv, Placed, Tuned
<1>3. CASE s \in gone
    BY <1>1, <1>3 DEF Narrated!vars
<1>4. CASE s \notin gone
    <2>1. Narrated!Tell(s)
        BY <1>1, <1>2, <1>4, TellRefines
    <2> QED
        BY <2>1 DEF Narrated!Next
<1> QED
    BY <1>3, <1>4

LEMMA LeaveRefines ==
    ASSUME IInv, NEW s \in Streams, HangUp(s)
    PROVE  Narrated!Leave(s)
<1>1. /\ gone' = gone \union {s} /\ got' = [got EXCEPT ![s] = <<>>]
      /\ UNCHANGED <<lines, status, on, told, dropped>>
    BY DEF HangUp, runVars, channelVars
<1>2. Reads' = [Reads EXCEPT ![s] = NoRun]
    BY <1>1 DEF Reads
<1>3. dropped' \ gone' = (dropped \ gone) \ {s}
    BY <1>1
<1>4. Lengths' = Lengths
    BY <1>1 DEF Lengths
<1> QED
    BY <1>1, <1>2, <1>3, <1>4 DEF Narrated!Leave, Lengths, Reads

LEMMA LoseRefines ==
    ASSUME Restart
    PROVE  Narrated!Lose
<1>1. /\ status' = [r \in Runs |-> "lost"] /\ lines' = [r \in Runs |-> <<>>]
      /\ on' = [s \in Streams |-> NoRun] /\ got' = [s \in Streams |-> <<>>]
      /\ told' = [s \in Streams |-> "none"] /\ dropped' = {} /\ gone' = {}
    BY DEF Restart
<1>2. Reads' = [s \in Streams |-> NoRun] /\ dropped' \ gone' = {}
    BY <1>1 DEF Reads
<1>3. Lengths' = [r \in Runs |-> IF r \in Runs THEN 0 ELSE Lengths[r]]
    BY <1>1 DEF Lengths
<1>4. status' = [r \in Runs |-> IF r \in Runs THEN "lost" ELSE status[r]]
    BY <1>1
<1> QED
    BY <1>1, <1>2, <1>3, <1>4 DEF Narrated!Lose, Lengths, Reads

\* What happens to a run besides its lines and its end, or to a handler besides
\* what its client gets, is no step of the log.
LEMMA Unseen ==
    ASSUME UNCHANGED <<lines, status, on, got, told, dropped, gone>>
    PROVE  UNCHANGED Narrated!vars
    BY DEF Narrated!vars

LEMMA StepRefines == IInv /\ [Next]_vars => [Narrated!Next]_(Narrated!vars)
<1> SUFFICES ASSUME IInv, [Next]_vars PROVE [Narrated!Next]_(Narrated!vars)
    OBVIOUS
<1>1. ASSUME NEW r \in Runs, Create(r) PROVE UNCHANGED Narrated!vars
    BY <1>1, Unseen DEF Create, streamVars, channelVars
<1>2. ASSUME NEW r \in Runs, RunStep(r) PROVE [Narrated!Next]_(Narrated!vars)
    <2>1. CASE Finish(r)
        BY <2>1, CloseRefines DEF Narrated!Next
    <2>2. CASE \E next \in {"say done", "say failed"} : Recorded(r, next)
        BY <2>2, Unseen DEF Recorded, streamVars, channelVars
    <2>3. CASE Line(r)
        BY <2>3, SayRefines DEF Narrated!Next
    <2> QED
        BY <1>2, <2>1, <2>2, <2>3, Lines DEF RunStep, Executed
<1>3. ASSUME NEW s \in Streams, Find(s) PROVE [Narrated!Next]_(Narrated!vars)
    BY <1>3, OpenRefines
<1>4. ASSUME NEW s \in Streams, StreamStep(s) PROVE [Narrated!Next]_(Narrated!vars)
    <2>1. CASE Snapshot(s)
        BY <2>1, Unseen DEF Snapshot, runVars
    <2>2. CASE Replay(s)
        BY <2>2, ReplayRefines DEF Narrated!Next
    <2>3. CASE ReplayFails(s)
        BY <2>3, Unseen DEF ReplayFails, runVars, channelVars
    <2>4. CASE Replayed(s)
        BY <2>4, ReplayedRefines
    <2>5. CASE Follow(s)
        BY <2>5, FollowRefines DEF Narrated!Next
    <2>6. CASE FollowFails(s)
        BY <2>6, Unseen DEF FollowFails, runVars
    <2>7. CASE TailEnds(s)
        BY <2>7, TailEndsRefines
    <2> QED
        BY <1>4, <2>1, <2>2, <2>3, <2>4, <2>5, <2>6, <2>7 DEF StreamStep
<1>5. ASSUME NEW s \in Streams, HangUp(s) PROVE [Narrated!Next]_(Narrated!vars)
    BY <1>5, LeaveRefines DEF Narrated!Next
<1>6. CASE Tick
    BY <1>6, Unseen DEF Tick, runVars, streamVars, channelVars
<1>7. CASE Restart
    BY <1>7, LoseRefines DEF Narrated!Next
<1>8. CASE vars' = vars
    BY <1>8, Unseen DEF vars, runVars, streamVars, channelVars
<1> QED
    BY <1>1, <1>2, <1>3, <1>4, <1>5, <1>6, <1>7, <1>8 DEF Next, AllOver

\* Through buffered channels, drops, early returns and restarts, a client gets
\* the lines of its run in order, misses none unless it fell a whole buffer
\* behind, and is told the verdict of a run that ended after all of them.
THEOREM StreamsNarrate == Spec => KeepsNarration
<1>1. Spec => []IInv
    BY Inductive
<1>2. Spec => Narrated!Spec
    BY <1>1, InitRefines, StepRefines, PTL DEF Spec, Narrated!Spec
<1> QED
    BY <1>2 DEF KeepsNarration
================================================================================
