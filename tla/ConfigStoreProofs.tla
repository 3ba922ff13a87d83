---------------------------- MODULE ConfigStoreProofs ----------------------------
(***************************************************************************)
(* The configuration store, for any handlers, objects, calls and bounds:   *)
(* the type invariant; what stands is listed; what the last call asked for *)
(* is what is stored; an App's credentials are those of its organization.  *)
(***************************************************************************)
EXTENDS ConfigStore, TLAPS, FiniteSetTheorems

-------------------------------------------------------------------------------
(* The inductive invariant.                                                  *)

Wants == UNION {{c.want : c \in m.calls} : m \in Menus}
Values == {Absent, "app", "roster"} \union Apps
          \union UNION {{want[field] : field \in DOMAIN want} : want \in Wants}
Writing == [param : Param, value : Values]

Operations == {"AddDirectory", "DeleteDirectory", "StageOrg", "PutOrgTeam",
               "DeleteOrgTeam", "PutApp"}

Task == [op : Operations, of : Objects \union Orgs, want : Wants \union {Idle},
         steps : Seq(SUBSET Writing), clean : BOOLEAN]

Busy(h) == call[h] # Idle
Pending(steps) == UNION {steps[i] : i \in DOMAIN steps}
Left(h) == Pending(call[h].steps)

\* What a call may write: parameters of its object as it wants them, or
\* something lasting of an organization, credentials only of its own App.
OwnWrite(c, w) ==
    /\ c.of \in Objects
    /\ \E field \in FieldsOf(c.of) : w.param = <<c.of, field>> /\ w.value = c.want[field]

OrgWrite(w) ==
    /\ w.param[1] \in Orgs
    /\ w.value # Absent
    /\ w.param[2] \in AppFields => w.value \in Apps /\ w.value.org = w.param[1]

Typed ==
    /\ menu \in Menus
    /\ DOMAIN ssm = Param
    /\ call \in [Handlers -> Task \union {Idle}]
    /\ DOMAIN asked = Objects
    /\ standing \subseteq Objects
    /\ kept \subseteq standing
    /\ calls \in 0 .. menu.atMost
    /\ failures \in 0 .. MaxFailures

OwnApps ==
    \A o \in Orgs, field \in AppFields :
        ssm[<<o, field>>] # Absent =>
            ssm[<<o, field>>] \in Apps /\ ssm[<<o, field>>].org = o

Working ==
    \A h \in Handlers : Busy(h) =>
        /\ call[h].of \in Objects => IsCall(call[h])
        /\ call[h].of \in Orgs => call[h].op = "PutApp"
        /\ \A w \in Left(h) : OwnWrite(call[h], w) \/ OrgWrite(w)

Browsing ==
    /\ cookie \in Apps \union {Absent}
    /\ IsFiniteSet(returns)
    /\ returns \subseteq [state : Apps, app : Apps]
    /\ \A r \in returns : r.state.org = r.app.org
    /\ converted \subseteq Apps

\* A call that has not been disturbed has its object to itself.
Alone ==
    \A h \in Handlers : Busy(h) /\ call[h].clean =>
        \A g \in Handlers : Busy(g) /\ call[g].of = call[h].of => g = h

\* Nothing is settled of an object somebody is at work on, and a call that
\* has it to itself leaves what it wants where it has nothing left to write.
Asking ==
    \A h \in Handlers : Busy(h) /\ call[h].of \in Objects =>
        /\ asked[call[h].of] = Unsure
        /\ call[h].clean /\ call[h].op # "StageOrg" =>
            \A field \in FieldsOf(call[h].of) :
                \/ ssm[<<call[h].of, field>>] = call[h].want[field]
                \/ \E w \in Left(h) : w.param = <<call[h].of, field>>

\* How a call on a team that stands keeps its intent: it deletes nothing; or a
\* list it wants is there already; or writing one is next.
KeepsIntent(h) ==
    \/ \A w \in Left(h) : w.value # Absent
    \/ \E field \in TeamFields :
        ssm[<<call[h].of, field>>] # Absent /\ call[h].want[field] # Absent
    \/ /\ call[h].steps # <<>>
       /\ \A w \in Head(call[h].steps) : w.param[1] = call[h].of /\ w.value # Absent

Standing ==
    /\ \A object \in standing : IsListed(ssm, object)
    /\ \A h \in Handlers : Busy(h) /\ call[h].of \in standing =>
        /\ ~Removes(call[h])
        /\ call[h].of \in Teams =>
            /\ KeepsIntent(h)
            /\ \A g \in Handlers : Busy(g) /\ call[g].of = call[h].of => g = h

Reading ==
    /\ due \subseteq Readings
    /\ listing.what \in Readings \union {"nothing"}
    /\ listing = [what |-> listing.what, unread |-> listing.unread, found |-> listing.found]
    /\ listing.what = "nothing" => listing.unread = {}
    /\ listing.what # "nothing" => DOMAIN listing.found = ParamsOf(listing.what)
    /\ listing.what \in GitOrgs => \A field \in AppFields :
            listing.found[<<listing.what, field>>] \in Apps \union {Absent}
    /\ listing.what = "directories" => \A d \in kept \intersect Dirs :
        \A field \in {"endpoint", "domains"} :
            <<d, field>> \in listing.unread \/ listing.found[<<d, field>>] # Absent

Holding ==
    /\ DOMAIN held = Dirs
    /\ \A d \in Dirs \ GitDirs :
        held[d] # Absent => held[d].endpoint # Absent /\ held[d].domains # Absent
    /\ DOMAIN client = GitOrgs
    /\ \A o \in GitOrgs : client[o] = NoCredentials \/ client[o] \in [AppFields -> Apps]

IInv ==
    /\ Typed /\ OwnApps /\ Working /\ Browsing /\ Alone /\ Asking /\ AsLastAsked
    /\ Standing /\ Reading /\ Holding

-------------------------------------------------------------------------------
(* What a call has left to write.                                            *)

LEMMA PendingStep ==
    ASSUME NEW S \in SUBSET Writing
    PROVE  Step(S) \in Seq(SUBSET Writing) /\ Pending(Step(S)) = S
<1>1. CASE S = {}
    BY <1>1 DEF Step, Pending
<1>2. CASE S # {}
    <2>1. Step(S) = <<S>> /\ DOMAIN <<S>> = {1} /\ <<S>>[1] = S /\ <<S>> \in Seq(SUBSET Writing)
        BY <1>2 DEF Step
    <2> QED
        BY <2>1 DEF Pending
<1> QED
    BY <1>1, <1>2

LEMMA PendingOne ==
    ASSUME NEW S \in SUBSET Writing
    PROVE  <<S>> \in Seq(SUBSET Writing) /\ Pending(<<S>>) = S
<1>1. DOMAIN <<S>> = {1} /\ <<S>>[1] = S /\ <<S>> \in Seq(SUBSET Writing)
    OBVIOUS
<1> QED
    BY <1>1 DEF Pending

LEMMA PendingConcat ==
    ASSUME NEW s \in Seq(SUBSET Writing), NEW t \in Seq(SUBSET Writing)
    PROVE  s \o t \in Seq(SUBSET Writing) /\ Pending(s \o t) = Pending(s) \union Pending(t)
<1>1. /\ Len(s) \in Nat /\ Len(t) \in Nat
      /\ DOMAIN s = 1 .. Len(s) /\ DOMAIN t = 1 .. Len(t)
      /\ s \o t \in Seq(SUBSET Writing)
      /\ DOMAIN (s \o t) = 1 .. (Len(s) + Len(t))
      /\ \A i \in 1 .. Len(s) : (s \o t)[i] = s[i]
      /\ \A i \in 1 .. Len(t) : (s \o t)[Len(s) + i] = t[i]
    OBVIOUS
<1>2. ASSUME NEW i \in DOMAIN (s \o t)
      PROVE  (s \o t)[i] \subseteq Pending(s) \union Pending(t)
    <2>1. CASE i \in 1 .. Len(s)
        BY <1>1, <2>1 DEF Pending
    <2>2. CASE i \notin 1 .. Len(s)
        <3>1. i - Len(s) \in 1 .. Len(t) /\ i = Len(s) + (i - Len(s))
            BY <1>1, <2>2
        <3>2. (s \o t)[i] = t[i - Len(s)]
            BY <1>1, <3>1
        <3> QED
            BY <1>1, <3>1, <3>2 DEF Pending
    <2> QED
        BY <2>1, <2>2
<1>3. Pending(s) \subseteq Pending(s \o t)
    <2>1. \A i \in 1 .. Len(s) : i \in DOMAIN (s \o t)
        BY <1>1
    <2> QED
        BY <1>1, <2>1 DEF Pending
<1>4. Pending(t) \subseteq Pending(s \o t)
    <2>1. \A i \in 1 .. Len(t) : Len(s) + i \in DOMAIN (s \o t)
        BY <1>1
    <2> QED
        BY <1>1, <2>1 DEF Pending
<1>5. Pending(s \o t) \subseteq Pending(s) \union Pending(t)
    BY <1>2 DEF Pending
<1> QED
    BY <1>1, <1>3, <1>4, <1>5

LEMMA PendingHead ==
    ASSUME NEW s \in Seq(SUBSET Writing), s # <<>>
    PROVE  /\ Head(s) \in SUBSET Writing /\ Tail(s) \in Seq(SUBSET Writing)
           /\ Pending(s) = Head(s) \union Pending(Tail(s))
<1>1. /\ Len(s) \in Nat /\ Len(s) >= 1
      /\ DOMAIN s = 1 .. Len(s)
      /\ Tail(s) \in Seq(SUBSET Writing) /\ Head(s) \in SUBSET Writing /\ Head(s) = s[1]
      /\ DOMAIN Tail(s) = 1 .. Len(s) - 1
      /\ \A i \in 1 .. Len(s) - 1 : Tail(s)[i] = s[i + 1]
    OBVIOUS
<1>2. ASSUME NEW i \in DOMAIN s
      PROVE  s[i] \subseteq Head(s) \union Pending(Tail(s))
    <2>1. CASE i = 1
        BY <1>1, <2>1
    <2>2. CASE i # 1
        <3>1. i - 1 \in DOMAIN Tail(s) /\ Tail(s)[i - 1] = s[i]
            BY <1>1, <2>2
        <3> QED
            BY <3>1 DEF Pending
    <2> QED
        BY <2>1, <2>2
<1>3. Head(s) \subseteq Pending(s)
    BY <1>1 DEF Pending
<1>4. Pending(Tail(s)) \subseteq Pending(s)
    <2>1. \A i \in 1 .. Len(s) - 1 : i + 1 \in DOMAIN s
        BY <1>1
    <2> QED
        BY <1>1, <2>1 DEF Pending
<1>5. Pending(s) \subseteq Head(s) \union Pending(Tail(s))
    BY <1>2 DEF Pending
<1> QED
    BY <1>1, <1>3, <1>4, <1>5

\* Taking one write from the first step takes nothing else away.
LEMMA PendingRest ==
    ASSUME NEW s \in Seq(SUBSET Writing), s # <<>>, NEW w \in Head(s)
    PROVE  LET left == Step(Head(s) \ {w}) \o Tail(s)
           IN  /\ left \in Seq(SUBSET Writing)
               /\ w \in Pending(s)
               /\ Pending(left) \subseteq Pending(s)
               /\ Pending(s) \subseteq Pending(left) \union {w}
<1> DEFINE rest == Head(s) \ {w}
<1>1. /\ Tail(s) \in Seq(SUBSET Writing) /\ rest \in SUBSET Writing
      /\ Pending(s) = Head(s) \union Pending(Tail(s))
    BY PendingHead
<1>2. Step(rest) \in Seq(SUBSET Writing) /\ Pending(Step(rest)) = rest
    BY <1>1, PendingStep
<1>3. /\ Step(rest) \o Tail(s) \in Seq(SUBSET Writing)
      /\ Pending(Step(rest) \o Tail(s)) = rest \union Pending(Tail(s))
    BY <1>1, <1>2, PendingConcat
<1> QED
    BY <1>1, <1>3

LEMMA Kinds ==
    /\ \A object \in Objects : object \notin Orgs
    /\ \A d \in Dirs : FieldsOf(d) = DirFields
    /\ \A t \in Teams : t \notin Dirs /\ FieldsOf(t) = TeamFields
    /\ \A object \in Objects : \A field \in FieldsOf(object) : <<object, field>> \in Param
    /\ \A o \in Orgs, field \in OrgFields : <<o, field>> \in Param
    BY StoreAssumptions DEF Objects, FieldsOf, Param

\* A deletion writes what a call wants that wants nothing.
LEMMA CallWrites ==
    ASSUME menu \in Menus, NEW c \in menu.calls, NEW fields, fields \subseteq FieldsOf(c.of)
    PROVE  /\ Writes(c, fields) \in SUBSET Writing
           /\ \A w \in Writes(c, fields) : OwnWrite(c, w) /\ w.param[1] = c.of
           /\ \A w \in Writes(c, fields) : \E field \in fields : w.value = c.want[field]
           /\ \A field \in fields : \E w \in Writes(c, fields) : w.param = <<c.of, field>>
           /\ (\A field \in fields : c.want[field] = Absent) => Deletes(c, fields) = Writes(c, fields)
<1>1. IsCall(c) /\ c.of \in Objects /\ c.want \in Wants
    BY StoreAssumptions DEF IsCall, Objects, Wants
<1>2. DOMAIN c.want = FieldsOf(c.of)
    BY <1>1 DEF IsCall
<1>3. \A field \in fields : c.want[field] \in Values
    BY <1>1, <1>2 DEF Values
<1>4. \A field \in fields : <<c.of, field>> \in Param
    BY <1>1, Kinds
<1>5. Writes(c, fields) \in SUBSET Writing
    BY <1>3, <1>4 DEF Writes, Write, Writing
<1>6. \A w \in Writes(c, fields) : OwnWrite(c, w) /\ w.param[1] = c.of
    BY <1>1 DEF Writes, Write, OwnWrite
<1>7. (\A field \in fields : c.want[field] = Absent) => Deletes(c, fields) = Writes(c, fields)
    BY DEF Deletes, Writes
<1>8. \A field \in fields : /\ Write(c.of, field, c.want[field]) \in Writes(c, fields)
                            /\ Write(c.of, field, c.want[field]).param = <<c.of, field>>
    BY DEF Writes, Write
<1>9. \A w \in Writes(c, fields) : \E field \in fields : w.value = c.want[field]
    BY DEF Writes, Write
<1> QED
    BY <1>5, <1>6, <1>7, <1>8, <1>9

\* Everything a call wants is among its steps, and nothing else but what lasts
\* of an organization; a team is not emptied before it is filled.
LEMMA CallSteps ==
    ASSUME menu \in Menus, NEW c \in menu.calls
    PROVE  /\ Steps(c) \in Seq(SUBSET Writing)
           /\ \A w \in Pending(Steps(c)) : OwnWrite(c, w) \/ OrgWrite(w)
           /\ c.op # "StageOrg" => \A field \in FieldsOf(c.of) :
                \E w \in Pending(Steps(c)) : w.param = <<c.of, field>>
           /\ c.of \in Teams /\ ~Removes(c) =>
                \/ \A w \in Pending(Steps(c)) : w.value # Absent
                \/ /\ Steps(c) # <<>>
                   /\ \A w \in Head(Steps(c)) : w.param[1] = c.of /\ w.value # Absent
<1>1. IsCall(c) /\ c.of \in Objects
    BY StoreAssumptions DEF IsCall, Objects
<1>2. CASE c.op = "AddDirectory"
    <2>1. c.of \in Dirs /\ FieldsOf(c.of) = DirFields /\ c.of \notin Teams
        BY <1>1, <1>2, Kinds DEF IsCall
    <2>2. Steps(c) = <<Writes(c, DirFields)>>
        BY <1>2 DEF Steps, PutDirectory
    <2>3. Steps(c) \in Seq(SUBSET Writing) /\ Pending(Steps(c)) = Writes(c, DirFields)
        BY <2>1, <2>2, CallWrites, PendingOne
    <2>4. /\ \A w \in Writes(c, DirFields) : OwnWrite(c, w)
          /\ \A field \in DirFields : \E w \in Writes(c, DirFields) : w.param = <<c.of, field>>
        BY <2>1, CallWrites
    <2> QED
        BY <2>1, <2>3, <2>4
<1>3. CASE c.op = "DeleteDirectory"
    <2>1. c.of \in Dirs /\ FieldsOf(c.of) = DirFields /\ c.of \notin Teams /\ c.want = Nothing(c.of)
        BY <1>1, <1>3, Kinds DEF IsCall
    <2>2. \A field \in DirFields : c.want[field] = Absent
        BY <2>1 DEF Nothing
    <2> DEFINE a == Writes(c, {"endpoint"})
               b == Writes(c, {"domains"})
               e == Writes(c, {"probeGroup"})
    <2>3. Steps(c) = <<Deletes(c, {"endpoint"}), Deletes(c, {"domains"}), Deletes(c, {"probeGroup"})>>
        BY <1>3 DEF Steps, DeleteDirectory
    <2>4. {"endpoint"} \subseteq DirFields /\ {"domains"} \subseteq DirFields /\ {"probeGroup"} \subseteq DirFields
        BY DEF DirFields
    <2>5. /\ Deletes(c, {"endpoint"}) = a /\ Deletes(c, {"domains"}) = b
          /\ Deletes(c, {"probeGroup"}) = e
          /\ a \in SUBSET Writing /\ b \in SUBSET Writing /\ e \in SUBSET Writing
        BY <2>1, <2>2, <2>4, CallWrites
    <2>6. \A w \in a \union b \union e : OwnWrite(c, w)
        BY <2>1, <2>4, CallWrites
    <2>7. /\ \E w \in a : w.param = <<c.of, "endpoint">>
          /\ \E w \in b : w.param = <<c.of, "domains">>
          /\ \E w \in e : w.param = <<c.of, "probeGroup">>
        BY <2>1, <2>4, CallWrites
    <2> HIDE DEF a, b, e
    <2>8. Steps(c) = <<a, b, e>>
        BY <2>3, <2>5
    <2>9. /\ <<a, b, e>> \in Seq(SUBSET Writing) /\ DOMAIN <<a, b, e>> = 1 .. 3
          /\ <<a, b, e>>[1] = a /\ <<a, b, e>>[2] = b /\ <<a, b, e>>[3] = e
        BY <2>5
    <2>10. Pending(<<a, b, e>>) = a \union b \union e
        BY <2>9 DEF Pending
    <2> QED
        BY <2>1, <2>6, <2>7, <2>8, <2>9, <2>10 DEF DirFields
<1>4. CASE c.op = "StageOrg"
    <2>1. c.of \in Teams /\ FieldsOf(c.of) = TeamFields
        BY <1>1, <1>4, Kinds DEF IsCall
    <2> DEFINE p == Write(OrgOf[c.of], "consoleAppSSM", "app")
               a == Writes(c, Full(c) \intersect {"groups"})
               b == Writes(c, Full(c) \intersect {"members"})
    <2>2. Full(c) \subseteq TeamFields /\ \A field \in Full(c) : c.want[field] # Absent
        BY <1>1, <2>1 DEF Full, IsCall
    <2>3. Steps(c) = <<{p}>> \o Step(a) \o Step(b)
        BY <1>4 DEF Steps, PutOrg
    <2>4. a \in SUBSET Writing /\ b \in SUBSET Writing
        BY <2>1, <2>2, CallWrites
    <2>5. \A w \in a \union b : OwnWrite(c, w) /\ w.value # Absent
        <3>1. Full(c) \intersect {"groups"} \subseteq FieldsOf(c.of) /\ Full(c) \intersect {"members"} \subseteq FieldsOf(c.of)
            BY <2>1, <2>2
        <3> QED
            BY <2>2, <3>1, CallWrites
    <2>6. p \in Writing /\ OrgWrite(p) /\ p.value # Absent
        <3>1. OrgOf[c.of] \in Orgs /\ "consoleAppSSM" \in OrgFields /\ "consoleAppSSM" \notin AppFields
            BY <2>1, StoreAssumptions DEF OrgFields, AppFields
        <3>2. <<OrgOf[c.of], "consoleAppSSM">> \in Param /\ "app" # Absent
            BY <3>1, Kinds, StoreAssumptions
        <3> QED
            BY <3>1, <3>2 DEF OrgWrite, Write, Writing, Values
    <2> HIDE DEF p, a, b
    <2>7. <<{p}>> \in Seq(SUBSET Writing) /\ Pending(<<{p}>>) = {p}
        BY <2>6, PendingOne
    <2>8. /\ Step(a) \in Seq(SUBSET Writing) /\ Pending(Step(a)) = a
          /\ Step(b) \in Seq(SUBSET Writing) /\ Pending(Step(b)) = b
        BY <2>4, PendingStep
    <2>9. /\ <<{p}>> \o Step(a) \in Seq(SUBSET Writing)
          /\ Pending(<<{p}>> \o Step(a)) = {p} \union a
        BY <2>7, <2>8, PendingConcat
    <2>10. Steps(c) \in Seq(SUBSET Writing) /\ Pending(Steps(c)) = {p} \union a \union b
        BY <2>3, <2>8, <2>9, PendingConcat
    <2> QED
        BY <1>4, <2>5, <2>6, <2>10
<1>5. CASE c.op = "PutOrgTeam"
    <2>1. c.of \in Teams /\ FieldsOf(c.of) = TeamFields
        BY <1>1, <1>5, Kinds DEF IsCall
    <2> DEFINE a == Writes(c, Full(c))
               b == Writes(c, TeamFields \ Full(c))
    <2>2. /\ Full(c) \subseteq TeamFields /\ \A field \in Full(c) : c.want[field] # Absent
          /\ \A field \in TeamFields \ Full(c) : c.want[field] = Absent
        BY <1>1, <2>1 DEF Full, IsCall
    <2>3. b = Deletes(c, TeamFields \ Full(c))
        BY <2>1, <2>2, CallWrites
    <2>4. Steps(c) = <<a>> \o Step(b)
        BY <1>5, <2>3 DEF Steps, PutTeam
    <2>5. a \in SUBSET Writing /\ b \in SUBSET Writing
        BY <2>1, <2>2, CallWrites
    <2>6. \A w \in a \union b : OwnWrite(c, w)
        BY <2>1, <2>2, CallWrites
    <2>7. \A w \in a : w.param[1] = c.of /\ w.value # Absent
        BY <2>1, <2>2, CallWrites
    <2>8. \A field \in TeamFields : \E w \in a \union b : w.param = <<c.of, field>>
        <3>1. \A field \in Full(c) : \E w \in a : w.param = <<c.of, field>>
            BY <2>1, <2>2, CallWrites
        <3>2. \A field \in TeamFields \ Full(c) : \E w \in b : w.param = <<c.of, field>>
            BY <2>1, <2>2, CallWrites
        <3> QED
            BY <3>1, <3>2
    <2> HIDE DEF a, b
    <2>9. /\ <<a>> \in Seq(SUBSET Writing) /\ Pending(<<a>>) = a
          /\ Step(b) \in Seq(SUBSET Writing) /\ Pending(Step(b)) = b
        BY <2>5, PendingOne, PendingStep
    <2>10. Steps(c) \in Seq(SUBSET Writing) /\ Pending(Steps(c)) = a \union b
        BY <2>4, <2>9, PendingConcat
    <2>11. Steps(c) # <<>> /\ Head(Steps(c)) = a
        BY <2>4, <2>9
    <2> QED
        BY <2>1, <2>6, <2>7, <2>8, <2>10, <2>11
<1>6. CASE c.op = "DeleteOrgTeam"
    <2>1. c.of \in Teams /\ FieldsOf(c.of) = TeamFields /\ c.want = Nothing(c.of)
        BY <1>1, <1>6, Kinds DEF IsCall
    <2>2. \A field \in TeamFields : c.want[field] = Absent
        BY <2>1 DEF Nothing
    <2> DEFINE a == Writes(c, {"groups"})
               b == Writes(c, {"members"})
    <2>3. {"groups"} \subseteq TeamFields /\ {"members"} \subseteq TeamFields
        BY DEF TeamFields
    <2>4. /\ Deletes(c, {"groups"}) = a /\ Deletes(c, {"members"}) = b
          /\ a \in SUBSET Writing /\ b \in SUBSET Writing
        BY <2>1, <2>2, <2>3, CallWrites
    <2>5. Steps(c) = <<a, b>>
        BY <1>6, <2>4 DEF Steps, DeleteTeam
    <2>6. \A w \in a \union b : OwnWrite(c, w)
        BY <2>1, <2>3, CallWrites
    <2>7. /\ \E w \in a : w.param = <<c.of, "groups">>
          /\ \E w \in b : w.param = <<c.of, "members">>
        BY <2>1, <2>3, CallWrites
    <2> HIDE DEF a, b
    <2>8. /\ <<a, b>> \in Seq(SUBSET Writing) /\ DOMAIN <<a, b>> = 1 .. 2
          /\ <<a, b>>[1] = a /\ <<a, b>>[2] = b
        BY <2>4
    <2>9. Pending(<<a, b>>) = a \union b
        BY <2>8 DEF Pending
    <2> QED
        BY <1>6, <2>1, <2>5, <2>6, <2>7, <2>8, <2>9 DEF Removes, TeamFields
<1> QED
    BY <1>1, <1>2, <1>3, <1>4, <1>5, <1>6 DEF IsCall

LEMMA AppSteps ==
    ASSUME NEW o \in Orgs, NEW app \in Apps, app.org = o
    PROVE  /\ PutApp(o, app) \in Seq(SUBSET Writing)
           /\ \A w \in Pending(PutApp(o, app)) : OrgWrite(w)
<1> DEFINE a == Write(o, "github-app-id", app)
           b == Write(o, "github-private-key", app)
           p == Write(o, "consoleAppSSM", "app")
           q == Write(o, "provenance", "roster")
<1>1. {"github-app-id", "github-private-key", "consoleAppSSM", "provenance"} \subseteq OrgFields
    BY DEF OrgFields, AppFields
<1>2. "consoleAppSSM" \notin AppFields /\ "provenance" \notin AppFields
    BY DEF AppFields
<1>3. {a, b, p, q} \subseteq Writing
    BY <1>1, Kinds DEF Write, Writing, Values
<1>4. \A w \in {a, b, p, q} : OrgWrite(w)
    BY <1>2, StoreAssumptions DEF Write, OrgWrite
<1>5. PutApp(o, app) = <<{a}, {b}, {p}, {q}>>
    BY DEF PutApp
<1> HIDE DEF a, b, p, q
<1>6. /\ <<{a}, {b}, {p}, {q}>> \in Seq(SUBSET Writing)
      /\ \A i \in DOMAIN <<{a}, {b}, {p}, {q}>> : <<{a}, {b}, {p}, {q}>>[i] \subseteq {a, b, p, q}
    BY <1>3
<1> QED
    BY <1>4, <1>5, <1>6 DEF Pending

-------------------------------------------------------------------------------
(* What one write and one new call change.                                   *)

Alike(new, old) ==
    /\ new.op = old.op /\ new.of = old.of /\ new.want = old.want /\ new.steps = old.steps

\* A call disturbs nothing but the flag of those at work on the same object.
LEMMA TakenFacts ==
    ASSUME call \in [Handlers -> Task \union {Idle}],
           NEW h \in Handlers, NEW op \in Operations, NEW object \in Objects \union Orgs,
           NEW want \in Wants \union {Idle}, NEW steps \in Seq(SUBSET Writing),
           Taken(h, op, object, want, steps)
    PROVE  /\ call' \in [Handlers -> Task \union {Idle}]
           /\ call'[h] = [op |-> op, of |-> object, want |-> want, steps |-> steps,
                          clean |-> Overlaps(object) = {}]
           /\ \A g \in Handlers \ {h} : call'[g] # Idle =>
                /\ Busy(g) /\ Alike(call'[g], call[g])
                /\ call'[g].clean => call[g].clean /\ call[g].of # object
<1> DEFINE new == [op |-> op, of |-> object, want |-> want, steps |-> steps,
                   clean |-> Overlaps(object) = {}]
<1>1. new \in Task
    BY DEF Task
<1>2. \A g \in Overlaps(object) : /\ call[g] \in Task /\ Busy(g) /\ call[g].of = object
                                  /\ [call[g] EXCEPT !.clean = FALSE] \in Task
                                  /\ Alike([call[g] EXCEPT !.clean = FALSE], call[g])
                                  /\ [call[g] EXCEPT !.clean = FALSE].clean = FALSE
    BY DEF Overlaps, Busy, Task, Alike
<1>3. \A g \in Handlers \ Overlaps(object) : Busy(g) => call[g].of # object
    BY DEF Overlaps, Busy
<1>4. call' = [Disturbed(object) EXCEPT ![h] = new]
    BY DEF Taken
<1>5. /\ call' = [g \in Handlers |-> IF g = h THEN new ELSE Disturbed(object)[g]]
      /\ \A g \in Handlers : Disturbed(object)[g] =
            IF g \in Overlaps(object) THEN [call[g] EXCEPT !.clean = FALSE] ELSE call[g]
    BY <1>4 DEF Disturbed
<1> HIDE DEF new
<1>6. \A g \in Handlers : Disturbed(object)[g] \in Task \union {Idle}
    BY <1>2, <1>5
<1>7. call' \in [Handlers -> Task \union {Idle}] /\ call'[h] = new
    BY <1>1, <1>5, <1>6
<1>8. ASSUME NEW g \in Handlers \ {h}, call'[g] # Idle
      PROVE  /\ Busy(g) /\ Alike(call'[g], call[g])
             /\ call'[g].clean => call[g].clean /\ call[g].of # object
    <2>1. CASE g \in Overlaps(object)
        BY <1>2, <1>5, <1>8, <2>1
    <2>2. CASE g \notin Overlaps(object)
        BY <1>3, <1>5, <1>8, <2>2 DEF Busy, Alike
    <2> QED
        BY <2>1, <2>2
<1> QED
    BY <1>7, <1>8 DEF new

\* A write touches one parameter: of the object of its call as the call wants
\* it, or of an organization, where it leaves something.
LEMMA WriteFacts ==
    ASSUME Typed, Working, NEW h \in Handlers, Busy(h), NEW w \in Left(h),
           ssm' = [ssm EXCEPT ![w.param] = w.value]
    PROVE  /\ DOMAIN ssm' = Param
           /\ \A param \in Param : param # w.param => ssm'[param] = ssm[param]
           /\ ssm'[w.param] = w.value
           /\ OwnWrite(call[h], w) \/ OrgWrite(w)
           /\ \A object \in Objects : object # call[h].of =>
                \A field \in FieldsOf(object) :
                    ssm'[<<object, field>>] = ssm[<<object, field>>]
           /\ call[h].of \in Objects => \A field \in FieldsOf(call[h].of) :
                \/ ssm'[<<call[h].of, field>>] = call[h].want[field]
                \/ /\ ssm'[<<call[h].of, field>>] = ssm[<<call[h].of, field>>]
                   /\ w.param # <<call[h].of, field>>
           /\ \A o \in Orgs :
                ssm[<<o, "consoleAppSSM">>] # Absent => ssm'[<<o, "consoleAppSSM">>] # Absent
<1>1. call[h] \in Task /\ call[h].steps \in Seq(SUBSET Writing)
    BY DEF Typed, Busy, Task
<1>2. w \in Writing /\ w.param \in Param
    <2>1. \A i \in DOMAIN call[h].steps : call[h].steps[i] \in SUBSET Writing
        BY <1>1
    <2>2. w \in Writing
        BY <2>1 DEF Left, Pending
    <2> QED
        BY <2>2 DEF Writing
<1>3. DOMAIN ssm = Param
    BY DEF Typed
<1>4. /\ DOMAIN ssm' = Param
      /\ ssm'[w.param] = w.value
      /\ \A param \in Param : param # w.param => ssm'[param] = ssm[param]
    BY <1>2, <1>3
<1>5. OwnWrite(call[h], w) \/ OrgWrite(w)
    BY DEF Working
<1>6. ASSUME NEW object \in Objects, object # call[h].of, NEW field \in FieldsOf(object)
      PROVE  ssm'[<<object, field>>] = ssm[<<object, field>>]
    <2>1. <<object, field>> \in Param /\ object \notin Orgs
        BY Kinds
    <2>2. w.param # <<object, field>>
        BY <1>5, <1>6, <2>1 DEF OwnWrite, OrgWrite
    <2> QED
        BY <1>4, <2>1, <2>2
<1>7. ASSUME call[h].of \in Objects, NEW field \in FieldsOf(call[h].of)
      PROVE  \/ ssm'[<<call[h].of, field>>] = call[h].want[field]
             \/ /\ ssm'[<<call[h].of, field>>] = ssm[<<call[h].of, field>>]
                /\ w.param # <<call[h].of, field>>
    <2>1. <<call[h].of, field>> \in Param /\ call[h].of \notin Orgs
        BY <1>7, Kinds
    <2>2. CASE w.param = <<call[h].of, field>>
        BY <1>4, <1>5, <2>1, <2>2 DEF OwnWrite, OrgWrite
    <2>3. CASE w.param # <<call[h].of, field>>
        BY <1>4, <2>1, <2>3
    <2> QED
        BY <2>2, <2>3
<1>8. ASSUME NEW o \in Orgs, ssm[<<o, "consoleAppSSM">>] # Absent
      PROVE  ssm'[<<o, "consoleAppSSM">>] # Absent
    <2>1. <<o, "consoleAppSSM">> \in Param
        BY Kinds DEF OrgFields
    <2>2. CASE w.param = <<o, "consoleAppSSM">>
        <3>1. ~OwnWrite(call[h], w)
            BY <2>2, Kinds DEF OwnWrite
        <3> QED
            BY <1>4, <1>5, <2>2, <3>1 DEF OrgWrite
    <2>3. CASE w.param # <<o, "consoleAppSSM">>
        BY <1>4, <1>8, <2>1, <2>3
    <2> QED
        BY <2>2, <2>3
<1> QED
    BY <1>4, <1>5, <1>6, <1>7, <1>8

\* Credentials are written by the callbacks only, each its own organization's.
LEMMA WriteOwnApps ==
    ASSUME Typed, OwnApps, Working, NEW h \in Handlers, Busy(h), NEW w \in Left(h),
           ssm' = [ssm EXCEPT ![w.param] = w.value]
    PROVE  OwnApps'
<1>1. /\ \A param \in Param : param # w.param => ssm'[param] = ssm[param]
      /\ ssm'[w.param] = w.value
      /\ OwnWrite(call[h], w) \/ OrgWrite(w)
    BY WriteFacts
<1>2. SUFFICES ASSUME NEW o \in Orgs, NEW field \in AppFields, ssm'[<<o, field>>] # Absent
               PROVE  ssm'[<<o, field>>] \in Apps /\ ssm'[<<o, field>>].org = o
    BY DEF OwnApps
<1>3. <<o, field>> \in Param
    BY Kinds DEF OrgFields
<1>4. CASE w.param = <<o, field>>
    <2>1. ~OwnWrite(call[h], w)
        BY <1>4, Kinds DEF OwnWrite
    <2> QED
        BY <1>1, <1>4, <2>1 DEF OrgWrite
<1>5. CASE w.param # <<o, field>>
    BY <1>1, <1>2, <1>3, <1>5 DEF OwnApps
<1> QED
    BY <1>4, <1>5

\* A call on a team that stands keeps its intent.
LEMMA WriteIntent ==
    ASSUME Typed, Working, Standing, NEW h \in Handlers, Busy(h),
           call[h].of \in Teams \intersect standing,
           call[h].steps # <<>>, NEW w \in Head(call[h].steps),
           ssm' = [ssm EXCEPT ![w.param] = w.value]
    PROVE  /\ HasIntent(ssm', call[h].of)
           /\ \/ \A v \in Left(h) : v.value # Absent
              \/ \E field \in TeamFields :
                    ssm'[<<call[h].of, field>>] # Absent /\ call[h].want[field] # Absent
<1>1. /\ FieldsOf(call[h].of) = TeamFields /\ call[h].of \in Objects
      /\ call[h].of \notin Orgs /\ KeepsIntent(h) /\ HasIntent(ssm, call[h].of)
    <2>1. KeepsIntent(h) /\ IsListed(ssm, call[h].of)
        BY DEF Standing
    <2>2. call[h].of \notin Dirs /\ call[h].of \in Objects
        BY Kinds DEF Objects
    <2> QED
        BY <2>1, <2>2, Kinds DEF IsListed
<1>2. w \in Left(h)
    <2>1. call[h].steps \in Seq(SUBSET Writing)
        BY DEF Typed, Busy, Task
    <2> QED
        BY <2>1, PendingHead DEF Left
<1>3. /\ ssm'[w.param] = w.value
      /\ OwnWrite(call[h], w) \/ OrgWrite(w)
      /\ \A field \in TeamFields :
            \/ ssm'[<<call[h].of, field>>] = call[h].want[field]
            \/ /\ ssm'[<<call[h].of, field>>] = ssm[<<call[h].of, field>>]
               /\ w.param # <<call[h].of, field>>
    BY <1>1, <1>2, WriteFacts
<1>4. CASE \A v \in Left(h) : v.value # Absent
    <2>1. PICK field \in TeamFields : ssm[<<call[h].of, field>>] # Absent
        BY <1>1 DEF HasIntent
    <2>2. ssm'[<<call[h].of, field>>] # Absent
        BY <1>2, <1>3, <1>4, <2>1
    <2> QED
        BY <1>4, <2>2 DEF HasIntent
<1>5. CASE \E field \in TeamFields :
            ssm[<<call[h].of, field>>] # Absent /\ call[h].want[field] # Absent
    <2>1. PICK field \in TeamFields :
            ssm[<<call[h].of, field>>] # Absent /\ call[h].want[field] # Absent
        BY <1>5
    <2>2. ssm'[<<call[h].of, field>>] # Absent
        BY <1>3, <2>1
    <2> QED
        BY <2>1, <2>2 DEF HasIntent
<1>6. CASE \A v \in Head(call[h].steps) : v.param[1] = call[h].of /\ v.value # Absent
    <2>1. w.param[1] = call[h].of /\ w.value # Absent /\ OwnWrite(call[h], w)
        BY <1>1, <1>3, <1>6 DEF OrgWrite
    <2>2. PICK field \in TeamFields :
            w.param = <<call[h].of, field>> /\ w.value = call[h].want[field]
        BY <1>1, <2>1 DEF OwnWrite
    <2>3. ssm'[<<call[h].of, field>>] # Absent /\ call[h].want[field] # Absent
        BY <1>3, <2>1, <2>2
    <2> QED
        BY <2>3 DEF HasIntent
<1> QED
    BY <1>1, <1>4, <1>5, <1>6 DEF KeepsIntent

LEMMA WriteListed ==
    ASSUME Typed, Working, Standing, NEW h \in Handlers, Busy(h),
           call[h].steps # <<>>, NEW w \in Head(call[h].steps),
           ssm' = [ssm EXCEPT ![w.param] = w.value]
    PROVE  \A object \in standing : IsListed(ssm', object)
<1>1. w \in Left(h)
    <2>1. call[h].steps \in Seq(SUBSET Writing)
        BY DEF Typed, Busy, Task
    <2> QED
        BY <2>1, PendingHead DEF Left
<1>2. /\ \A object \in Objects : object # call[h].of =>
                \A field \in FieldsOf(object) :
                    ssm'[<<object, field>>] = ssm[<<object, field>>]
      /\ call[h].of \in Objects => \A field \in FieldsOf(call[h].of) :
            \/ ssm'[<<call[h].of, field>>] = call[h].want[field]
            \/ /\ ssm'[<<call[h].of, field>>] = ssm[<<call[h].of, field>>]
               /\ w.param # <<call[h].of, field>>
      /\ \A o \in Orgs :
            ssm[<<o, "consoleAppSSM">>] # Absent => ssm'[<<o, "consoleAppSSM">>] # Absent
    BY <1>1, WriteFacts
<1>3. SUFFICES ASSUME NEW object \in standing PROVE IsListed(ssm', object)
    OBVIOUS
<1>4. object \in Objects /\ IsListed(ssm, object)
    BY DEF Typed, Standing
<1>5. CASE object \in Dirs
    <2>1. /\ FieldsOf(object) = DirFields
          /\ ssm[<<object, "endpoint">>] # Absent /\ ssm[<<object, "domains">>] # Absent
        BY <1>4, <1>5, Kinds DEF IsListed, SourcesFrom
    <2>2. "endpoint" \in DirFields /\ "domains" \in DirFields
        BY DEF DirFields
    <2>3. CASE object = call[h].of
        <3>1. IsCall(call[h]) /\ ~Removes(call[h])
            BY <1>4, <2>3 DEF Working, Standing
        <3>2. call[h].op = "AddDirectory"
            BY <1>5, <2>3, <3>1, Kinds DEF IsCall, Removes
        <3>3. call[h].want.endpoint # Absent /\ call[h].want.domains # Absent
            BY <2>2, <3>1, <3>2 DEF IsCall
        <3>4. ssm'[<<object, "endpoint">>] # Absent /\ ssm'[<<object, "domains">>] # Absent
            BY <1>2, <1>4, <2>1, <2>2, <2>3, <3>3
        <3> QED
            BY <1>5, <3>4 DEF IsListed, SourcesFrom
    <2>4. CASE object # call[h].of
        <3>1. ssm'[<<object, "endpoint">>] # Absent /\ ssm'[<<object, "domains">>] # Absent
            BY <1>2, <1>4, <2>1, <2>2, <2>4
        <3> QED
            BY <1>5, <3>1 DEF IsListed, SourcesFrom
    <2> QED
        BY <2>3, <2>4
<1>6. CASE object \notin Dirs
    <2>1. object \in Teams /\ FieldsOf(object) = TeamFields
        BY <1>4, <1>6, Kinds DEF Objects
    <2>2. HasIntent(ssm, object) /\ OrgOf[object] \in OrgsFrom(ssm)
        BY <1>4, <1>6 DEF IsListed
    <2>3. HasIntent(ssm', object)
        <3>1. CASE object = call[h].of
            BY <2>1, <3>1, WriteIntent
        <3>2. CASE object # call[h].of
            BY <1>2, <1>4, <2>1, <2>2, <3>2 DEF HasIntent
        <3> QED
            BY <3>1, <3>2
    <2>4. OrgOf[object] \in OrgsFrom(ssm')
        BY <1>2, <2>1, <2>2, <2>3 DEF OrgsFrom
    <2> QED
        BY <1>6, <2>3, <2>4 DEF IsListed
<1> QED
    BY <1>5, <1>6

-------------------------------------------------------------------------------
(* The steps.                                                                *)

Calling == OwnApps /\ Working /\ Alone /\ Asking /\ AsLastAsked /\ Standing

LEMMA InitIInv == Init => IInv
<1> SUFFICES ASSUME Init PROVE IInv
    OBVIOUS
<1>1. Typed
    BY StoreAssumptions DEF Init, Typed, StartSSM
<1>2. \A h \in Handlers : ~Busy(h)
    BY DEF Init, Busy
<1>3. Working /\ Alone /\ Asking /\ Standing
    BY <1>2 DEF Init, Working, Alone, Asking, Standing
<1>4. \A o \in Orgs, field \in AppFields : ssm[<<o, field>>] = StartApp[o]
    <2>1. SUFFICES ASSUME NEW o \in Orgs, NEW field \in AppFields
                   PROVE  ssm[<<o, field>>] = StartApp[o]
        OBVIOUS
    <2>2. <<o, field>> \in Param
        BY Kinds DEF OrgFields
    <2>3. /\ <<o, field>>[2] \in AppFields /\ <<o, field>>[2] \notin DirFields
          /\ <<o, field>>[1] = o
        BY DEF AppFields, DirFields
    <2> QED
        BY <2>2, <2>3 DEF Init, StartSSM
<1>5. OwnApps
    BY <1>4, StoreAssumptions DEF OwnApps
<1>6. AsLastAsked
    <2>1. SUFFICES ASSUME NEW object \in Objects, NEW field \in FieldsOf(object)
                   PROVE  ssm[<<object, field>>] = asked[object][field]
        BY DEF AsLastAsked
    <2>2. <<object, field>> \in Param
        BY Kinds
    <2>3. CASE object \in Dirs
        <3>1. field \in DirFields /\ field \notin AppFields
            BY <2>3, Kinds DEF DirFields, AppFields
        <3> QED
            BY <2>2, <2>3, <3>1 DEF Init, StartSSM
    <2>4. CASE object \notin Dirs
        <3>1. field \in TeamFields /\ field \notin AppFields /\ field \notin DirFields
            BY <2>4, Kinds DEF Objects, DirFields, AppFields, TeamFields
        <3> QED
            BY <2>2, <2>4, <3>1 DEF Init, StartSSM, Nothing
    <2> QED
        BY <2>3, <2>4
<1>7. Browsing
    BY FS_EmptySet DEF Init, Browsing
<1>8. Reading
    BY StoreAssumptions DEF Init, Reading, NoListing, Readings
<1>9. Holding
    BY DEF Init, Holding, NoHeld
<1> QED
    BY <1>1, <1>3, <1>5, <1>6, <1>7, <1>8, <1>9 DEF IInv

LEMMA CallingFrame ==
    ASSUME Calling, UNCHANGED <<ssm, call, asked, standing>>
    PROVE  Calling'
<1>1. OwnApps' /\ AsLastAsked'
    BY DEF Calling, OwnApps, AsLastAsked
<1>2. Working' /\ Alone'
    BY DEF Calling, Working, Alone, Busy, Left
<1>3. Asking'
    BY DEF Calling, Asking, Busy, Left
<1>4. Standing'
    BY DEF Calling, Standing, Busy, Left, KeepsIntent
<1> QED
    BY <1>1, <1>2, <1>3, <1>4 DEF Calling

LEMMA BrowsingFrame ==
    ASSUME Browsing, UNCHANGED browser
    PROVE  Browsing'
    BY DEF Browsing, browser

LEMMA ReadingFrame ==
    ASSUME Reading, UNCHANGED <<due, listing>>, kept' \subseteq kept
    PROVE  Reading'
    BY DEF Reading

LEMMA HoldingFrame ==
    ASSUME Holding, UNCHANGED <<held, client>>
    PROVE  Holding'
    BY DEF Holding

LEMMA EndReading ==
    ASSUME Typed, Reading, EndListing, UNCHANGED menu
    PROVE  Reading' /\ kept' = {}
<1>1. menu.readings \subseteq Readings /\ due \subseteq Readings
    BY StoreAssumptions DEF Typed, Reading
<1>2. due' \subseteq Readings
    BY <1>1 DEF EndListing
<1>3. /\ listing' = listing'
      /\ listing'.what = "nothing" /\ listing'.unread = {}
      /\ listing' = [what |-> listing'.what, unread |-> listing'.unread, found |-> listing'.found]
    BY DEF EndListing, NoListing
<1>4. "nothing" \notin GitOrgs
    BY StoreAssumptions
<1> QED
    BY <1>2, <1>3, <1>4 DEF Reading, EndListing

LEMMA BeginStep ==
    ASSUME IInv, NEW h \in Handlers, NEW c \in menu.calls, Begin(h, c)
    PROVE  IInv'
<1> USE DEF IInv
<1>1. /\ menu \in Menus /\ c.of \in Objects /\ IsCall(c) /\ c.op \in Operations /\ c.want \in Wants
      /\ call \in [Handlers -> Task \union {Idle}]
      /\ menu.atMost \in Nat
    BY StoreAssumptions DEF Typed, IsCall, Objects, Wants, Operations
<1>2. /\ Steps(c) \in Seq(SUBSET Writing)
      /\ \A w \in Pending(Steps(c)) : OwnWrite(c, w) \/ OrgWrite(w)
      /\ c.op # "StageOrg" => \A field \in FieldsOf(c.of) :
            \E w \in Pending(Steps(c)) : w.param = <<c.of, field>>
      /\ c.of \in Teams /\ ~Removes(c) =>
            \/ \A w \in Pending(Steps(c)) : w.value # Absent
            \/ /\ Steps(c) # <<>>
               /\ \A w \in Head(Steps(c)) : w.param[1] = c.of /\ w.value # Absent
    BY <1>1, CallSteps
<1>3. /\ call' \in [Handlers -> Task \union {Idle}]
      /\ call'[h] = [op |-> c.op, of |-> c.of, want |-> c.want, steps |-> Steps(c),
                     clean |-> Overlaps(c.of) = {}]
      /\ \A g \in Handlers \ {h} : call'[g] # Idle =>
            /\ Busy(g) /\ Alike(call'[g], call[g])
            /\ call'[g].clean => call[g].clean /\ call[g].of # c.of
    BY <1>1, <1>2, TakenFacts DEF Begin
<1>4. /\ UNCHANGED <<menu, ssm, browser, console, failures>>
      /\ asked' = [asked EXCEPT ![c.of] = Unsure]
      /\ standing' = IF Falls(c) THEN standing \ {c.of} ELSE standing
      /\ kept' = IF Falls(c) THEN kept \ {c.of} ELSE kept
      /\ calls' = calls + 1 /\ calls < menu.atMost
    BY DEF Begin
<1>5. Typed'
    <2>1. calls' \in 0 .. menu'.atMost /\ DOMAIN asked' = Objects
        BY <1>1, <1>4 DEF Typed
    <2> QED
        BY <1>3, <1>4, <2>1 DEF Typed
<1>6. OwnApps'
    BY <1>4 DEF OwnApps
<1>7. /\ asked'[c.of] = Unsure
      /\ \A object \in Objects \ {c.of} : asked'[object] = asked[object]
    BY <1>1, <1>4 DEF Typed
<1>8. AsLastAsked'
    BY <1>4, <1>7 DEF AsLastAsked
<1>9. Working'
    <2>1. SUFFICES ASSUME NEW g \in Handlers, Busy(g)'
                   PROVE  /\ call'[g].of \in Objects => IsCall(call'[g])
                          /\ call'[g].of \in Orgs => call'[g].op = "PutApp"
                          /\ \A w \in Pending(call'[g].steps) :
                                OwnWrite(call'[g], w) \/ OrgWrite(w)
        BY DEF Working, Left
    <2>2. CASE g = h
        <3>1. IsCall(call'[h])
            <4>1. call'[h].op = c.op /\ call'[h].of = c.of /\ call'[h].want = c.want
                BY <1>3
            <4> QED
                BY <1>1, <4>1, Zenon DEF IsCall
        <3>2. c.of \notin Orgs
            BY <1>1, Kinds
        <3>3. \A w : OwnWrite(c, w) => OwnWrite(call'[h], w)
            BY <1>3 DEF OwnWrite
        <3> QED
            BY <1>2, <1>3, <2>2, <3>1, <3>2, <3>3
    <2>3. CASE g # h
        <3>1. Busy(g) /\ Alike(call'[g], call[g])
            BY <1>3, <2>1, <2>3 DEF Busy
        <3>2. IsCall(call[g]) => IsCall(call'[g])
            BY <3>1 DEF IsCall, Alike
        <3>3. \A w : OwnWrite(call[g], w) => OwnWrite(call'[g], w)
            BY <3>1 DEF OwnWrite, Alike
        <3> QED
            BY <3>1, <3>2, <3>3 DEF Working, Left, Alike
    <2> QED
        BY <2>2, <2>3
<1>10. \A g \in Handlers \ {h} : Busy(g) /\ call[g].of = c.of => Overlaps(c.of) # {}
    BY DEF Overlaps, Busy
<1>11. Alone'
    <2>1. SUFFICES ASSUME NEW g \in Handlers, Busy(g)', call'[g].clean,
                          NEW f \in Handlers, Busy(f)', call'[f].of = call'[g].of
                   PROVE  f = g
        BY DEF Alone
    <2>2. CASE g = h
        <3>1. ASSUME f # h PROVE FALSE
            <4>1. Busy(f) /\ call[f].of = c.of
                BY <1>3, <2>1, <2>2, <3>1 DEF Busy, Alike
            <4>2. Overlaps(c.of) # {}
                BY <1>10, <3>1, <4>1
            <4>3. call'[h].clean = (Overlaps(c.of) = {})
                BY <1>3
            <4> QED
                BY <2>1, <2>2, <4>2, <4>3
        <3> QED
            BY <2>2, <3>1
    <2>3. CASE g # h
        <3>1. Busy(g) /\ call[g].clean /\ call[g].of # c.of /\ call'[g].of = call[g].of
            BY <1>3, <2>1, <2>3 DEF Busy, Alike
        <3>2. f # h
            BY <1>3, <2>1, <3>1
        <3>3. Busy(f) /\ call[f].of = call[g].of
            BY <1>3, <2>1, <3>1, <3>2 DEF Busy, Alike
        <3> QED
            BY <3>1, <3>3 DEF Alone
    <2> QED
        BY <2>2, <2>3
<1>12. Asking'
    <2>1. SUFFICES ASSUME NEW g \in Handlers, Busy(g)', call'[g].of \in Objects
                   PROVE  /\ asked'[call'[g].of] = Unsure
                          /\ call'[g].clean /\ call'[g].op # "StageOrg" =>
                                \A field \in FieldsOf(call'[g].of) :
                                    \/ ssm'[<<call'[g].of, field>>] = call'[g].want[field]
                                    \/ \E w \in Pending(call'[g].steps) :
                                        w.param = <<call'[g].of, field>>
        BY DEF Asking, Left
    <2>2. CASE g = h
        <3>1. /\ call'[h].of = c.of /\ call'[h].op = c.op
              /\ call'[h].want = c.want /\ call'[h].steps = Steps(c)
            BY <1>3
        <3> QED
            BY <1>2, <1>7, <2>2, <3>1
    <2>3. CASE g # h
        <3>1. Busy(g) /\ Alike(call'[g], call[g]) /\ (call'[g].clean => call[g].clean)
            BY <1>3, <2>1, <2>3 DEF Busy
        <3>2. asked[call[g].of] = Unsure
            BY <2>1, <3>1 DEF Asking, Alike
        <3>3. asked'[call'[g].of] = Unsure
            BY <1>7, <2>1, <3>1, <3>2 DEF Alike
        <3> QED
            BY <1>4, <2>1, <3>1, <3>3 DEF Asking, Alike, Left
    <2> QED
        BY <2>2, <2>3
<1>13. Standing'
    <2>1. standing' \subseteq standing /\ ssm' = ssm
        BY <1>4
    <2>2. \A object \in standing' : IsListed(ssm', object)
        BY <2>1 DEF Standing
    <2>3. ASSUME NEW g \in Handlers, Busy(g)', call'[g].of \in standing'
          PROVE  /\ ~Removes(call'[g])
                 /\ call'[g].of \in Teams =>
                        /\ KeepsIntent(g)'
                        /\ \A f \in Handlers : Busy(f)' /\ call'[f].of = call'[g].of => f = g
        <3>1. CASE g = h
            <4>1. ~Falls(c)
                BY <1>3, <1>4, <2>3, <3>1
            <4>2. ~Removes(call'[h])
                BY <1>3, <4>1 DEF Falls, Removes
            <4>3. ASSUME c.of \in Teams PROVE KeepsIntent(h)'
                <5>1. ~Removes(c)
                    BY <4>1 DEF Falls
                <5> QED
                    BY <1>2, <1>3, <4>3, <5>1 DEF KeepsIntent, Left
            <4>4. ASSUME c.of \in Teams, NEW f \in Handlers, Busy(f)', call'[f].of = c.of, f # h
                  PROVE  FALSE
                <5>1. Overlaps(c.of) = {}
                    BY <4>1, <4>4 DEF Falls
                <5>2. Busy(f) /\ call[f].of = c.of
                    BY <1>3, <4>4 DEF Busy, Alike
                <5> QED
                    BY <1>10, <4>4, <5>1, <5>2
            <4> QED
                BY <1>3, <3>1, <4>2, <4>3, <4>4
        <3>2. CASE g # h
            <4>1. Busy(g) /\ Alike(call'[g], call[g]) /\ call[g].of \in standing
                BY <1>3, <2>1, <2>3, <3>2 DEF Busy, Alike
            <4>2. ~Removes(call'[g])
                BY <4>1 DEF Standing, Alike, Removes
            <4>3. ASSUME call'[g].of \in Teams PROVE KeepsIntent(g)'
                <5>1. KeepsIntent(g)
                    BY <4>1, <4>3 DEF Standing, Alike
                <5> QED
                    BY <2>1, <4>1, <5>1 DEF KeepsIntent, Left, Alike
            <4>4. ASSUME call'[g].of \in Teams, NEW f \in Handlers, Busy(f)', call'[f].of = call'[g].of
                  PROVE  f = g
                <5>1. call[g].of # c.of
                    <6>1. SUFFICES ASSUME call[g].of = c.of PROVE FALSE
                        OBVIOUS
                    <6>2. Falls(c)
                        BY <1>10, <3>2, <4>1, <4>4, <6>1 DEF Falls, Alike
                    <6> QED
                        BY <1>4, <2>3, <4>1, <6>1, <6>2 DEF Alike
                <5>2. f # h
                    BY <1>3, <4>1, <4>4, <5>1 DEF Alike
                <5>3. Busy(f) /\ call[f].of = call[g].of
                    BY <1>3, <4>1, <4>4, <5>2 DEF Busy, Alike
                <5> QED
                    BY <4>1, <4>4, <5>3 DEF Standing, Alike
            <4> QED
                BY <4>2, <4>3, <4>4
        <3> QED
            BY <3>1, <3>2
    <2> QED
        BY <2>2, <2>3 DEF Standing
<1>14. Browsing' /\ Holding' /\ Reading'
    <2>1. UNCHANGED browser /\ UNCHANGED <<due, listing>> /\ UNCHANGED <<held, client>>
        BY <1>4 DEF console
    <2> QED
        BY <1>4, <2>1, BrowsingFrame, HoldingFrame, ReadingFrame
<1> QED
    BY <1>5, <1>6, <1>8, <1>9, <1>11, <1>12, <1>13, <1>14

\* A write leaves what others are doing as it was: an object they have to
\* themselves is not the writer's.
LEMMA WriteLeaves ==
    ASSUME Typed, Calling, NEW h \in Handlers, Busy(h),
           call[h].steps # <<>>, NEW w \in Head(call[h].steps),
           ssm' = [ssm EXCEPT ![w.param] = w.value],
           \A g \in Handlers \ {h} : call'[g] = call[g],
           Busy(h)' => call'[h].of = call[h].of /\ call'[h].clean = call[h].clean,
           UNCHANGED <<asked, standing>>
    PROVE  /\ DOMAIN ssm' = Param
           /\ OwnApps' /\ Alone' /\ AsLastAsked'
           /\ \A object \in standing' : IsListed(ssm', object)
           /\ \A g \in Handlers : Busy(g)' /\ call'[g].of \in Objects => asked'[call'[g].of] = Unsure
           /\ \A g \in Handlers \ {h} : Busy(g)' =>
                /\ call'[g].of \in Objects => IsCall(call'[g])
                /\ call'[g].of \in Orgs => call'[g].op = "PutApp"
                /\ \A v \in Pending(call'[g].steps) : OwnWrite(call'[g], v) \/ OrgWrite(v)
                /\ call'[g].of \in Objects /\ call'[g].clean /\ call'[g].op # "StageOrg" =>
                    \A field \in FieldsOf(call'[g].of) :
                        \/ ssm'[<<call'[g].of, field>>] = call'[g].want[field]
                        \/ \E v \in Pending(call'[g].steps) : v.param = <<call'[g].of, field>>
                /\ call'[g].of \in standing' => ~Removes(call'[g])
                /\ call'[g].of \in standing' \intersect Teams => KeepsIntent(g)'
           /\ \A g \in Handlers : Busy(g)' /\ call'[g].of \in standing' \intersect Teams =>
                \A f \in Handlers : Busy(f)' /\ call'[f].of = call'[g].of => f = g
<1> USE DEF Calling
<1>1. w \in Left(h)
    <2>1. call[h].steps \in Seq(SUBSET Writing)
        BY DEF Typed, Busy, Task
    <2> QED
        BY <2>1, PendingHead DEF Left
<1>2. /\ DOMAIN ssm' = Param
      /\ \A object \in Objects : object # call[h].of =>
            \A field \in FieldsOf(object) : ssm'[<<object, field>>] = ssm[<<object, field>>]
    BY <1>1, WriteFacts
<1>3. OwnApps'
    BY <1>1, WriteOwnApps
<1>4. \A g \in Handlers : Busy(g)' =>
        Busy(g) /\ call'[g].of = call[g].of /\ call'[g].clean = call[g].clean
    BY DEF Busy
<1>5. Alone'
    BY <1>4 DEF Alone
<1>6. AsLastAsked'
    <2>1. SUFFICES ASSUME NEW object \in Objects, asked[object] # Unsure,
                          NEW field \in FieldsOf(object)
                   PROVE  ssm'[<<object, field>>] = asked[object][field]
        BY DEF AsLastAsked
    <2>2. object # call[h].of
        BY <2>1 DEF Asking
    <2> QED
        BY <1>2, <2>1, <2>2 DEF AsLastAsked
<1>7. \A object \in standing' : IsListed(ssm', object)
    BY WriteListed
<1>8. ASSUME NEW g \in Handlers, Busy(g)', call'[g].of \in Objects
      PROVE  asked'[call'[g].of] = Unsure
    BY <1>4, <1>8 DEF Asking
<1>9. ASSUME NEW g \in Handlers \ {h}, Busy(g)'
      PROVE  /\ call'[g].of \in Objects => IsCall(call'[g])
             /\ call'[g].of \in Orgs => call'[g].op = "PutApp"
             /\ \A v \in Pending(call'[g].steps) : OwnWrite(call'[g], v) \/ OrgWrite(v)
             /\ call'[g].of \in Objects /\ call'[g].clean /\ call'[g].op # "StageOrg" =>
                    \A field \in FieldsOf(call'[g].of) :
                        \/ ssm'[<<call'[g].of, field>>] = call'[g].want[field]
                        \/ \E v \in Pending(call'[g].steps) : v.param = <<call'[g].of, field>>
             /\ call'[g].of \in standing' => ~Removes(call'[g])
             /\ call'[g].of \in standing' \intersect Teams => KeepsIntent(g)'
    <2>1. Busy(g) /\ call'[g] = call[g]
        BY <1>9 DEF Busy
    <2>2. /\ call[g].of \in Objects => IsCall(call[g])
          /\ call[g].of \in Orgs => call[g].op = "PutApp"
          /\ \A v \in Pending(call[g].steps) : OwnWrite(call[g], v) \/ OrgWrite(v)
        BY <2>1 DEF Working, Left
    <2>3. ASSUME call[g].of \in Objects, call[g].clean, call[g].op # "StageOrg",
                 NEW field \in FieldsOf(call[g].of)
          PROVE  \/ ssm'[<<call[g].of, field>>] = call[g].want[field]
                 \/ \E v \in Pending(call[g].steps) : v.param = <<call[g].of, field>>
        <3>1. call[g].of # call[h].of
            BY <2>1, <2>3 DEF Alone
        <3>2. ssm'[<<call[g].of, field>>] = ssm[<<call[g].of, field>>]
            BY <1>2, <2>3, <3>1
        <3> QED
            BY <2>1, <2>3, <3>2 DEF Asking, Left
    <2>4. call[g].of \in standing => ~Removes(call[g])
        BY <2>1 DEF Standing
    <2>5. ASSUME call[g].of \in standing \intersect Teams
          PROVE  KeepsIntent(g)'
        <3>1. KeepsIntent(g) /\ call[g].of # call[h].of
            BY <2>1, <2>5 DEF Standing
        <3>2. call[g].of \in Objects /\ FieldsOf(call[g].of) = TeamFields
            BY <2>5, Kinds DEF Objects
        <3>3. \A field \in TeamFields :
                ssm'[<<call[g].of, field>>] = ssm[<<call[g].of, field>>]
            BY <1>2, <3>1, <3>2
        <3> QED
            BY <2>1, <3>1, <3>3 DEF KeepsIntent, Left
    <2> QED
        BY <2>1, <2>2, <2>3, <2>4, <2>5
<1>10. ASSUME NEW g \in Handlers, Busy(g)', call'[g].of \in standing' \intersect Teams,
              NEW f \in Handlers, Busy(f)', call'[f].of = call'[g].of
       PROVE  f = g
    BY <1>4, <1>10 DEF Standing
<1> QED
    BY <1>2, <1>3, <1>5, <1>6, <1>7, <1>8, <1>9, <1>10

LEMMA WriteOneStep ==
    ASSUME IInv, NEW h \in Handlers, WriteOne(h)
    PROVE  IInv'
<1> DEFINE left(w) == Step(Head(call[h].steps) \ {w}) \o Tail(call[h].steps)
<1>1. PICK w \in Head(call[h].steps) :
        /\ ssm' = [ssm EXCEPT ![w.param] = w.value]
        /\ call' = [call EXCEPT ![h].steps = left(w)]
    BY DEF WriteOne, Accepted
<1>2. /\ Busy(h) /\ call[h].steps # <<>>
      /\ UNCHANGED <<menu, browser, console, memo, calls, failures>>
    BY DEF WriteOne, Busy
<1>3. call[h] \in Task /\ call \in [Handlers -> Task \union {Idle}]
    BY <1>2 DEF IInv, Typed, Busy
<1>4. call[h].steps \in Seq(SUBSET Writing)
    BY <1>3 DEF Task
<1>5. /\ left(w) \in Seq(SUBSET Writing) /\ w \in Left(h)
      /\ Pending(left(w)) \subseteq Left(h) /\ Left(h) \subseteq Pending(left(w)) \union {w}
    BY <1>2, <1>4, PendingRest DEF Left
<1> HIDE DEF left
<1>6. /\ call'[h] = [call[h] EXCEPT !.steps = left(w)]
      /\ \A g \in Handlers \ {h} : call'[g] = call[g]
      /\ call' \in [Handlers -> Task \union {Idle}]
    <2>1. [call[h] EXCEPT !.steps = left(w)] \in Task
        BY <1>3, <1>5 DEF Task
    <2> QED
        BY <1>1, <1>3, <2>1
<1>7. /\ call'[h].of = call[h].of /\ call'[h].clean = call[h].clean /\ call'[h].op = call[h].op
      /\ call'[h].want = call[h].want /\ call'[h].steps = left(w)
    BY <1>3, <1>6 DEF Task
<1>8. Typed /\ Calling /\ UNCHANGED <<asked, standing>>
    BY <1>2 DEF IInv, Calling, memo
<1>9. /\ DOMAIN ssm' = Param
      /\ OwnApps' /\ Alone' /\ AsLastAsked'
      /\ \A object \in standing' : IsListed(ssm', object)
      /\ \A g \in Handlers : Busy(g)' /\ call'[g].of \in Objects => asked'[call'[g].of] = Unsure
    BY <1>1, <1>2, <1>6, <1>7, <1>8, WriteLeaves
<1>10. /\ \A g \in Handlers \ {h} : Busy(g)' =>
            /\ call'[g].of \in Objects => IsCall(call'[g])
            /\ call'[g].of \in Orgs => call'[g].op = "PutApp"
            /\ \A v \in Pending(call'[g].steps) : OwnWrite(call'[g], v) \/ OrgWrite(v)
            /\ call'[g].of \in Objects /\ call'[g].clean /\ call'[g].op # "StageOrg" =>
                \A field \in FieldsOf(call'[g].of) :
                    \/ ssm'[<<call'[g].of, field>>] = call'[g].want[field]
                    \/ \E v \in Pending(call'[g].steps) : v.param = <<call'[g].of, field>>
            /\ call'[g].of \in standing' => ~Removes(call'[g])
            /\ call'[g].of \in standing' \intersect Teams => KeepsIntent(g)'
       /\ \A g \in Handlers : Busy(g)' /\ call'[g].of \in standing' \intersect Teams =>
            \A f \in Handlers : Busy(f)' /\ call'[f].of = call'[g].of => f = g
    BY <1>1, <1>2, <1>6, <1>7, <1>8, WriteLeaves
<1>11. Typed'
    BY <1>2, <1>6, <1>9 DEF IInv, Typed, memo
<1>12. Working'
    <2>1. /\ call'[h].of \in Objects => IsCall(call'[h])
          /\ call'[h].of \in Orgs => call'[h].op = "PutApp"
        <3>1. IsCall(call[h]) => IsCall(call'[h])
            BY <1>7 DEF IsCall
        <3> QED
            BY <1>2, <1>7, <1>8, <3>1 DEF Calling, Working
    <2>2. \A v \in Pending(call'[h].steps) : OwnWrite(call'[h], v) \/ OrgWrite(v)
        <3>1. \A v : OwnWrite(call[h], v) => OwnWrite(call'[h], v)
            BY <1>7 DEF OwnWrite
        <3> QED
            BY <1>2, <1>5, <1>7, <1>8, <3>1 DEF Calling, Working
    <2> QED
        BY <1>10, <2>1, <2>2 DEF Working, Left
<1>13. Asking'
    <2>1. ASSUME call'[h].of \in Objects, call'[h].clean, call'[h].op # "StageOrg",
                 NEW field \in FieldsOf(call'[h].of)
          PROVE  \/ ssm'[<<call'[h].of, field>>] = call'[h].want[field]
                 \/ \E v \in Pending(call'[h].steps) : v.param = <<call'[h].of, field>>
        <3>1. \/ ssm'[<<call[h].of, field>>] = call[h].want[field]
              \/ /\ ssm'[<<call[h].of, field>>] = ssm[<<call[h].of, field>>]
                 /\ w.param # <<call[h].of, field>>
            <4>1. call[h].of \in Objects /\ field \in FieldsOf(call[h].of)
                BY <1>7, <2>1
            <4>2. Typed /\ Working /\ Busy(h) /\ w \in Left(h)
                BY <1>2, <1>5, <1>8 DEF Calling
            <4>3. ssm' = [ssm EXCEPT ![w.param] = w.value]
                BY <1>1
            <4>4. \A f \in FieldsOf(call[h].of) :
                    \/ ssm'[<<call[h].of, f>>] = call[h].want[f]
                    \/ /\ ssm'[<<call[h].of, f>>] = ssm[<<call[h].of, f>>]
                       /\ w.param # <<call[h].of, f>>
                BY <4>1, <4>2, <4>3, WriteFacts
            <4> QED
                BY <4>1, <4>4
        <3>2. \/ ssm[<<call[h].of, field>>] = call[h].want[field]
              \/ \E v \in Left(h) : v.param = <<call[h].of, field>>
            BY <1>2, <1>7, <1>8, <2>1 DEF Calling, Asking
        <3> QED
            BY <1>5, <1>7, <3>1, <3>2
    <2> QED
        BY <1>9, <1>10, <2>1 DEF Asking, Left
<1>14. Standing'
    <2>1. call'[h].of \in standing' => ~Removes(call'[h])
        BY <1>2, <1>7, <1>8 DEF Calling, Standing, Removes
    <2>2. ASSUME call'[h].of \in standing' \intersect Teams PROVE KeepsIntent(h)'
        <3>1. \/ \A v \in Left(h) : v.value # Absent
              \/ \E field \in TeamFields :
                    ssm'[<<call[h].of, field>>] # Absent /\ call[h].want[field] # Absent
            <4>1. call[h].of \in Teams \intersect standing
                BY <1>7, <1>8, <2>2
            <4> QED
                BY <1>1, <1>2, <1>8, <4>1, WriteIntent DEF Calling
        <3> QED
            BY <1>5, <1>7, <3>1 DEF KeepsIntent, Left
    <2> QED
        BY <1>9, <1>10, <2>1, <2>2 DEF Standing
<1>15. Browsing' /\ Holding' /\ Reading'
    <2>1. UNCHANGED browser /\ UNCHANGED <<due, listing>> /\ UNCHANGED <<held, client>> /\ UNCHANGED kept
        BY <1>2 DEF console, memo
    <2> QED
        BY <2>1, BrowsingFrame, HoldingFrame, ReadingFrame DEF IInv
<1> QED
    BY <1>9, <1>11, <1>12, <1>13, <1>14, <1>15 DEF IInv

\* A call that is over asks for nothing more.
LEMMA CallsEnd ==
    ASSUME Calling, UNCHANGED <<ssm, asked, standing>>,
           \A g \in Handlers : Busy(g)' => call'[g] = call[g]
    PROVE  Calling'
<1>1. \A g \in Handlers : Busy(g)' => Busy(g)
    BY DEF Busy
<1>2. OwnApps' /\ AsLastAsked'
    BY DEF Calling, OwnApps, AsLastAsked
<1>3. Working' /\ Alone'
    BY <1>1 DEF Calling, Working, Alone, Left
<1>4. Asking'
    <2>1. SUFFICES ASSUME NEW g \in Handlers, Busy(g)', call'[g].of \in Objects
                   PROVE  /\ asked'[call'[g].of] = Unsure
                          /\ call'[g].clean /\ call'[g].op # "StageOrg" =>
                            \A field \in FieldsOf(call'[g].of) :
                                \/ ssm'[<<call'[g].of, field>>] = call'[g].want[field]
                                \/ \E w \in Pending(call'[g].steps) :
                                    w.param = <<call'[g].of, field>>
        BY DEF Asking, Left
    <2>2. call'[g] = call[g] /\ Busy(g) /\ asked' = asked /\ ssm' = ssm
        BY <1>1, <2>1
    <2> QED
        BY <2>1, <2>2 DEF Calling, Asking, Left
<1>5. Standing'
    <2>1. ASSUME NEW g \in Handlers, Busy(g)'
          PROVE  /\ call'[g] = call[g] /\ Busy(g) /\ Removes(call'[g]) = Removes(call[g])
                 /\ KeepsIntent(g) => KeepsIntent(g)'
        BY <1>1, <2>1 DEF Left, KeepsIntent
    <2>2. \A object \in standing' : IsListed(ssm', object)
        BY DEF Calling, Standing
    <2>3. Standing /\ standing' = standing
        BY DEF Calling
    <2> QED
        BY <2>1, <2>2, <2>3 DEF Standing
<1> QED
    BY <1>2, <1>3, <1>4, <1>5 DEF Calling

\* A call that ends in an error, with or without one more write.
LEMMA BreaksOff ==
    ASSUME IInv, NEW h \in Handlers, Busy(h), call[h].steps # <<>>,
           call' = [call EXCEPT ![h] = Idle],
           \/ UNCHANGED ssm
           \/ \E w \in Head(call[h].steps) : ssm' = [ssm EXCEPT ![w.param] = w.value],
           failures' \in 0 .. MaxFailures,
           UNCHANGED <<menu, browser, console, memo, calls>>
    PROVE  IInv'
<1>1. /\ Busy(h) /\ call[h].steps # <<>>
      /\ call' = [call EXCEPT ![h] = Idle]
      /\ UNCHANGED <<menu, browser, console, memo, calls>>
    OBVIOUS
<1>2. /\ call'[h] = Idle /\ \A g \in Handlers \ {h} : call'[g] = call[g]
      /\ call' \in [Handlers -> Task \union {Idle}]
    BY <1>1 DEF IInv, Typed
<1>3. ~Busy(h)' /\ \A g \in Handlers : Busy(g)' => call'[g] = call[g]
    BY <1>2 DEF Busy
<1>4. Typed /\ Calling /\ UNCHANGED <<asked, standing>>
    BY <1>1 DEF IInv, Calling, memo
<1>5. DOMAIN ssm' = Param /\ Calling'
    <2>1. CASE UNCHANGED ssm
        BY <1>3, <1>4, <2>1, CallsEnd DEF Typed
    <2>2. CASE \E w \in Head(call[h].steps) : ssm' = [ssm EXCEPT ![w.param] = w.value]
        <3>1. PICK w \in Head(call[h].steps) : ssm' = [ssm EXCEPT ![w.param] = w.value]
            BY <2>2
        <3>2. /\ DOMAIN ssm' = Param
              /\ OwnApps' /\ Alone' /\ AsLastAsked'
              /\ \A object \in standing' : IsListed(ssm', object)
              /\ \A g \in Handlers : Busy(g)' /\ call'[g].of \in Objects => asked'[call'[g].of] = Unsure
            BY <1>1, <1>2, <1>3, <1>4, <3>1, WriteLeaves
        <3>3. \A g \in Handlers : Busy(g)' =>
                /\ call'[g].of \in Objects => IsCall(call'[g])
                /\ call'[g].of \in Orgs => call'[g].op = "PutApp"
                /\ \A v \in Pending(call'[g].steps) : OwnWrite(call'[g], v) \/ OrgWrite(v)
                /\ call'[g].of \in Objects /\ call'[g].clean /\ call'[g].op # "StageOrg" =>
                    \A field \in FieldsOf(call'[g].of) :
                        \/ ssm'[<<call'[g].of, field>>] = call'[g].want[field]
                        \/ \E v \in Pending(call'[g].steps) : v.param = <<call'[g].of, field>>
                /\ call'[g].of \in standing' => ~Removes(call'[g])
                /\ call'[g].of \in standing' \intersect Teams => KeepsIntent(g)'
            BY <1>1, <1>2, <1>3, <1>4, <3>1, WriteLeaves
        <3>4. \A g \in Handlers : Busy(g)' /\ call'[g].of \in standing' \intersect Teams =>
                \A f \in Handlers : Busy(f)' /\ call'[f].of = call'[g].of => f = g
            BY <1>1, <1>2, <1>3, <1>4, <3>1, WriteLeaves
        <3>5. Working'
            BY <3>3 DEF Working, Left
        <3>6. Asking'
            BY <3>2, <3>3 DEF Asking, Left
        <3>7. Standing'
            BY <3>2, <3>3, <3>4 DEF Standing
        <3> QED
            BY <3>2, <3>5, <3>6, <3>7 DEF Calling
    <2> QED
        BY <2>1, <2>2
<1>6. Typed'
    BY <1>1, <1>2, <1>5 DEF IInv, Typed, memo
<1>7. Browsing' /\ Holding' /\ Reading'
    <2>1. UNCHANGED browser /\ UNCHANGED <<due, listing>> /\ UNCHANGED <<held, client>> /\ UNCHANGED kept
        BY <1>1 DEF console, memo
    <2> QED
        BY <2>1, BrowsingFrame, HoldingFrame, ReadingFrame DEF IInv
<1> QED
    BY <1>5, <1>6, <1>7 DEF IInv, Calling

LEMMA WriteFailsStep ==
    ASSUME IInv, NEW h \in Handlers, WriteFails(h)
    PROVE  IInv'
<1>1. failures' \in 0 .. MaxFailures
    BY StoreAssumptions DEF WriteFails, Fails, IInv, Typed
<1>2. /\ Busy(h) /\ call[h].steps # <<>>
      /\ call' = [call EXCEPT ![h] = Idle]
      /\ \/ UNCHANGED ssm
         \/ \E w \in Head(call[h].steps) : ssm' = [ssm EXCEPT ![w.param] = w.value]
      /\ UNCHANGED <<menu, browser, console, memo, calls>>
    BY DEF WriteFails, Accepted, Busy
<1> QED
    BY <1>1, <1>2, BreaksOff

LEMMA WriteRefusedStep ==
    ASSUME IInv, NEW h \in Handlers, WriteRefused(h)
    PROVE  IInv'
<1>1. failures' \in 0 .. MaxFailures
    BY DEF WriteRefused, IInv, Typed
<1>2. /\ Busy(h) /\ call[h].steps # <<>>
      /\ call' = [call EXCEPT ![h] = Idle]
      /\ UNCHANGED <<ssm, menu, browser, console, memo, calls>>
    BY DEF WriteRefused, Busy
<1> QED
    BY <1>1, <1>2, BreaksOff

LEMMA AnswerStep ==
    ASSUME IInv, NEW h \in Handlers, Answer(h)
    PROVE  IInv'
<1> DEFINE object == call[h].of
<1>1. /\ Busy(h) /\ call[h].steps = <<>>
      /\ call' = [call EXCEPT ![h] = Idle]
      /\ asked' = IF Settles(call[h]) THEN [asked EXCEPT ![object] = call[h].want] ELSE asked
      /\ standing' = IF call[h].clean /\ object \in Objects /\ ~Removes(call[h])
                        /\ IsListed(ssm, object)
                     THEN standing \union {object} ELSE standing
      /\ UNCHANGED <<menu, ssm, browser, console, kept, calls, failures>>
    BY DEF Answer, Busy
<1>2. /\ call'[h] = Idle /\ \A g \in Handlers \ {h} : call'[g] = call[g]
      /\ call' \in [Handlers -> Task \union {Idle}]
    BY <1>1 DEF IInv, Typed
<1>3. \A g \in Handlers : Busy(g)' => g # h /\ Busy(g) /\ call'[g] = call[g] /\ Left(g)' = Left(g)
    BY <1>2 DEF Busy, Left
<1>4. Left(h) = {}
    <2>1. DOMAIN call[h].steps = {}
        BY <1>1
    <2> QED
        BY <2>1 DEF Left, Pending
<1>5. \A g \in Handlers : call[h].clean /\ Busy(g)' => call'[g].of # object
    BY <1>1, <1>3 DEF IInv, Alone
<1>6. /\ standing \subseteq standing' /\ standing' \subseteq standing \union {object}
      /\ standing' # standing => call[h].clean /\ object \in Objects /\ IsListed(ssm, object)
    BY <1>1
<1>7. Typed'
    <2>1. standing' \subseteq Objects
        BY <1>1 DEF IInv, Typed
    <2>2. DOMAIN asked' = Objects
        BY <1>1 DEF IInv, Typed
    <2> QED
        BY <1>1, <1>2, <1>6, <2>1, <2>2 DEF IInv, Typed
<1>8. OwnApps'
    BY <1>1 DEF IInv, OwnApps
<1>9. Working' /\ Alone'
    BY <1>3 DEF IInv, Working, Alone
<1>10. ASSUME NEW x \in Objects
       PROVE  asked'[x] = asked[x] \/ (x = object /\ Settles(call[h]) /\ asked'[x] = call[h].want)
    BY <1>1 DEF IInv, Typed
<1>11. Asking'
    <2>1. SUFFICES ASSUME NEW g \in Handlers, Busy(g)', call'[g].of \in Objects
                   PROVE  /\ asked'[call'[g].of] = Unsure
                          /\ call'[g].clean /\ call'[g].op # "StageOrg" =>
                                \A field \in FieldsOf(call'[g].of) :
                                    \/ ssm'[<<call'[g].of, field>>] = call'[g].want[field]
                                    \/ \E w \in Left(g)' : w.param = <<call'[g].of, field>>
        BY DEF Asking
    <2>2. Busy(g) /\ call'[g] = call[g] /\ Left(g)' = Left(g) /\ ssm' = ssm
        BY <1>1, <1>3, <2>1
    <2>3. asked'[call[g].of] = asked[call[g].of]
        BY <1>5, <1>10, <2>1, <2>2 DEF Settles
    <2> QED
        BY <2>1, <2>2, <2>3 DEF IInv, Asking
<1>12. AsLastAsked'
    <2>1. SUFFICES ASSUME NEW x \in Objects, asked'[x] # Unsure, NEW field \in FieldsOf(x)
                   PROVE  ssm[<<x, field>>] = asked'[x][field]
        BY <1>1 DEF AsLastAsked
    <2>2. CASE asked'[x] = asked[x]
        BY <2>1, <2>2 DEF IInv, AsLastAsked
    <2>3. CASE x = object /\ Settles(call[h]) /\ asked'[x] = call[h].want
        <3>1. call[h].clean /\ call[h].op # "StageOrg" /\ object \in Objects
            BY <2>1, <2>3 DEF Settles
        <3>2. \/ ssm[<<object, field>>] = call[h].want[field]
              \/ \E w \in Left(h) : w.param = <<object, field>>
            BY <1>1, <2>1, <2>3, <3>1 DEF IInv, Asking
        <3> QED
            BY <1>4, <2>3, <3>2
    <2> QED
        BY <1>10, <2>2, <2>3
<1>13. Standing'
    <2>1. ssm' = ssm /\ Standing
        BY <1>1 DEF IInv
    <2>2. \A x \in standing' : IsListed(ssm', x)
        BY <1>6, <2>1 DEF Standing
    <2>3. ASSUME NEW g \in Handlers, Busy(g)', call'[g].of \in standing'
          PROVE  /\ ~Removes(call'[g])
                 /\ call'[g].of \in Teams =>
                        /\ KeepsIntent(g)'
                        /\ \A f \in Handlers : Busy(f)' /\ call'[f].of = call'[g].of => f = g
        <3>1. Busy(g) /\ call'[g] = call[g] /\ Left(g)' = Left(g)
            BY <1>3, <2>3
        <3>2. call[g].of \in standing
            BY <1>5, <1>6, <2>3, <3>1
        <3>3. KeepsIntent(g) => KeepsIntent(g)'
            BY <2>1, <3>1 DEF KeepsIntent
        <3> QED
            BY <1>3, <2>1, <2>3, <3>1, <3>2, <3>3 DEF Standing, Removes
    <2> QED
        BY <2>2, <2>3 DEF Standing
<1>14. Browsing' /\ Holding' /\ Reading'
    <2>1. UNCHANGED browser /\ UNCHANGED <<due, listing>> /\ UNCHANGED <<held, client>> /\ UNCHANGED kept
        BY <1>1 DEF console
    <2> QED
        BY <2>1, BrowsingFrame, HoldingFrame, ReadingFrame DEF IInv
<1> QED
    BY <1>7, <1>8, <1>9, <1>11, <1>12, <1>13, <1>14 DEF IInv

\* A callback stores an App where GitHub created it.
LEMMA CallbackStep ==
    ASSUME IInv, NEW h \in Handlers, NEW r \in returns, Callback(h, r)
    PROVE  IInv'
<1> USE DEF IInv
<1> DEFINE o == cookie.org
<1>1. /\ cookie = r.state /\ cookie' = Absent /\ converted' = converted \union {r.app}
      /\ Taken(h, "PutApp", o, Idle, PutApp(o, r.app))
      /\ UNCHANGED <<menu, ssm, returns, console, memo, calls, failures>>
    BY DEF Callback, VerifyAppState
<1>2. r.state \in Apps /\ r.app \in Apps /\ r.app.org = o /\ o \in Orgs
    <2>1. r.state \in Apps /\ r.app \in Apps /\ r.state.org = r.app.org
        BY DEF Browsing
    <2>2. r.state.org \in Orgs
        BY <2>1 DEF Apps
    <2> QED
        BY <1>1, <2>1, <2>2
<1>3. Browsing'
    BY <1>1, <1>2 DEF Browsing
<1> HIDE DEF o
<1>4. /\ PutApp(o, r.app) \in Seq(SUBSET Writing)
      /\ \A w \in Pending(PutApp(o, r.app)) : OrgWrite(w)
    BY <1>2, AppSteps
<1>5. /\ call' \in [Handlers -> Task \union {Idle}]
      /\ call'[h] = [op |-> "PutApp", of |-> o, want |-> Idle, steps |-> PutApp(o, r.app),
                     clean |-> Overlaps(o) = {}]
      /\ \A g \in Handlers \ {h} : call'[g] # Idle =>
            /\ Busy(g) /\ Alike(call'[g], call[g])
            /\ call'[g].clean => call[g].clean /\ call[g].of # o
    <2> DEFINE op == "PutApp"
               steps == PutApp(o, r.app)
    <2>1. op \in Operations /\ o \in Objects \union Orgs /\ Idle \in Wants \union {Idle}
        BY <1>2 DEF Operations
    <2>2. call \in [Handlers -> Task \union {Idle}]
        BY DEF Typed
    <2>3. Taken(h, op, o, Idle, steps) /\ steps \in Seq(SUBSET Writing)
        BY <1>1, <1>4
    <2> HIDE DEF op, steps, IInv
    <2>4. /\ call' \in [Handlers -> Task \union {Idle}]
          /\ call'[h] = [op |-> op, of |-> o, want |-> Idle, steps |-> steps,
                         clean |-> Overlaps(o) = {}]
          /\ \A g \in Handlers \ {h} : call'[g] # Idle =>
                /\ Busy(g) /\ Alike(call'[g], call[g])
                /\ call'[g].clean => call[g].clean /\ call[g].of # o
        <3>1. \A y \in Operations : \A x \in Objects \union Orgs : \A want \in Wants \union {Idle} :
                \A s \in Seq(SUBSET Writing) : Taken(h, y, x, want, s) =>
                    /\ call' \in [Handlers -> Task \union {Idle}]
                    /\ call'[h] = [op |-> y, of |-> x, want |-> want, steps |-> s,
                                   clean |-> Overlaps(x) = {}]
                    /\ \A g \in Handlers \ {h} : call'[g] # Idle =>
                        /\ Busy(g) /\ Alike(call'[g], call[g])
                        /\ call'[g].clean => call[g].clean /\ call[g].of # x
            BY <2>2, TakenFacts
        <3> QED
            BY <2>1, <2>3, <3>1
    <2> QED
        BY <2>4 DEF op, steps
<1>6. call'[h].of = o /\ call'[h].op = "PutApp" /\ call'[h].steps = PutApp(o, r.app)
    BY <1>5
<1>7. o \notin Objects
    BY <1>2, Kinds
<1>8. ASSUME NEW g \in Handlers, Busy(g)', call'[g].of \in Objects
      PROVE  /\ g # h /\ Busy(g) /\ Alike(call'[g], call[g])
             /\ call'[g].clean => call[g].clean
    BY <1>5, <1>6, <1>7, <1>8 DEF Busy
<1>9. /\ ssm' = ssm /\ asked' = asked /\ standing' = standing /\ kept' = kept
      /\ UNCHANGED <<menu, calls, failures>>
    BY <1>1 DEF memo
<1>10. Typed'
    BY <1>5, <1>9 DEF Typed
<1>11. OwnApps' /\ AsLastAsked'
    BY <1>9 DEF OwnApps, AsLastAsked
<1>12. Working'
    <2>1. SUFFICES ASSUME NEW g \in Handlers, Busy(g)'
                   PROVE  /\ call'[g].of \in Objects => IsCall(call'[g])
                          /\ call'[g].of \in Orgs => call'[g].op = "PutApp"
                          /\ \A w \in Pending(call'[g].steps) :
                                OwnWrite(call'[g], w) \/ OrgWrite(w)
        BY DEF Working, Left
    <2>2. CASE g = h
        BY <1>4, <1>6, <1>7, <2>2
    <2>3. CASE g # h
        <3>1. Busy(g) /\ Alike(call'[g], call[g])
            BY <1>5, <2>1, <2>3 DEF Busy
        <3>2. IsCall(call[g]) => IsCall(call'[g])
            BY <3>1 DEF IsCall, Alike
        <3>3. \A w : OwnWrite(call[g], w) => OwnWrite(call'[g], w)
            BY <3>1 DEF OwnWrite, Alike
        <3> QED
            BY <3>1, <3>2, <3>3 DEF Working, Left, Alike
    <2> QED
        BY <2>2, <2>3
<1>13. \A g \in Handlers \ {h} : Busy(g) /\ call[g].of = o => Overlaps(o) # {}
    BY DEF Overlaps, Busy
<1>14. Alone'
    <2>1. SUFFICES ASSUME NEW g \in Handlers, Busy(g)', call'[g].clean,
                          NEW f \in Handlers, Busy(f)', call'[f].of = call'[g].of
                   PROVE  f = g
        BY DEF Alone
    <2>2. CASE g = h
        <3>1. ASSUME f # h PROVE FALSE
            <4>1. Busy(f) /\ call[f].of = o
                BY <1>5, <1>6, <2>1, <2>2, <3>1 DEF Busy, Alike
            <4>2. Overlaps(o) # {}
                BY <1>13, <3>1, <4>1
            <4>3. call'[h].clean = (Overlaps(o) = {})
                BY <1>5
            <4> QED
                BY <2>1, <2>2, <4>2, <4>3
        <3> QED
            BY <2>2, <3>1
    <2>3. CASE g # h
        <3>1. Busy(g) /\ call[g].clean /\ call[g].of # o /\ call'[g].of = call[g].of
            BY <1>5, <2>1, <2>3 DEF Busy, Alike
        <3>2. f # h
            BY <1>6, <2>1, <3>1
        <3>3. Busy(f) /\ call[f].of = call[g].of
            BY <1>5, <2>1, <3>1, <3>2 DEF Busy, Alike
        <3> QED
            BY <3>1, <3>3 DEF Alone
    <2> QED
        BY <2>2, <2>3
<1>15. Asking'
    BY <1>8, <1>9 DEF Asking, Left, Alike
<1>16. Standing'
    <2>1. \A object \in standing' : IsListed(ssm', object)
        BY <1>9 DEF Standing
    <2>2. ASSUME NEW g \in Handlers, Busy(g)', call'[g].of \in standing'
          PROVE  /\ ~Removes(call'[g])
                 /\ call'[g].of \in Teams =>
                        /\ KeepsIntent(g)'
                        /\ \A f \in Handlers : Busy(f)' /\ call'[f].of = call'[g].of => f = g
        <3>1. call'[g].of \in Objects
            BY <1>9, <2>2 DEF Typed
        <3>2. Busy(g) /\ Alike(call'[g], call[g]) /\ call[g].of \in standing
            BY <1>8, <1>9, <2>2, <3>1 DEF Alike
        <3>3. ~Removes(call'[g])
            BY <3>2 DEF Standing, Alike, Removes
        <3>4. ASSUME call'[g].of \in Teams PROVE KeepsIntent(g)'
            <4>1. KeepsIntent(g)
                BY <3>2, <3>4 DEF Standing, Alike
            <4> QED
                BY <1>9, <3>2, <4>1 DEF KeepsIntent, Left, Alike
        <3>5. ASSUME call'[g].of \in Teams, NEW f \in Handlers, Busy(f)', call'[f].of = call'[g].of
              PROVE  f = g
            <4>1. Busy(f) /\ call[f].of = call[g].of
                BY <1>8, <3>1, <3>2, <3>5 DEF Alike
            <4> QED
                BY <3>2, <3>5, <4>1 DEF Standing, Alike
        <3> QED
            BY <3>3, <3>4, <3>5
    <2> QED
        BY <2>1, <2>2 DEF Standing
<1>17. Holding' /\ Reading'
    <2>1. UNCHANGED <<due, listing>> /\ UNCHANGED <<held, client>>
        BY <1>1 DEF console
    <2> QED
        BY <1>9, <2>1, HoldingFrame, ReadingFrame
<1> QED
    BY <1>3, <1>10, <1>11, <1>12, <1>14, <1>15, <1>16, <1>17

LEMMA RestartStep ==
    ASSUME IInv, Restart
    PROVE  IInv'
<1>1. /\ failures < MaxFailures /\ failures' = failures + 1
      /\ call' = [h \in Handlers |-> Idle]
      /\ held' = NoHeld /\ client' = [o \in GitOrgs |-> NoCredentials]
      /\ due' = menu.readings /\ listing' = NoListing /\ kept' = {}
      /\ UNCHANGED <<menu, ssm, browser, asked, standing, calls>>
    BY DEF Restart, Fails
<1>2. failures' \in 0 .. MaxFailures
    BY <1>1, StoreAssumptions DEF IInv, Typed
<1>3. Typed'
    BY <1>1, <1>2 DEF IInv, Typed
<1>4. \A h \in Handlers : ~Busy(h)'
    BY <1>1 DEF Busy
<1>5. Calling'
    BY <1>1, <1>4, CallsEnd DEF IInv, Calling
<1>6. Browsing'
    BY <1>1, BrowsingFrame DEF IInv
<1>7. Reading'
    BY <1>1, StoreAssumptions DEF IInv, Typed, Reading, NoListing, Readings
<1>8. Holding'
    BY <1>1 DEF Holding, NoHeld
<1> QED
    BY <1>3, <1>5, <1>6, <1>7, <1>8 DEF IInv, Calling

-------------------------------------------------------------------------------
(* The browser.                                                              *)

\* What the browser does touches nothing of the store.
LEMMA BrowserStep ==
    ASSUME IInv, Browsing', failures' \in 0 .. MaxFailures,
           UNCHANGED <<menu, store, console, memo, calls>>
    PROVE  IInv'
<1>1. UNCHANGED <<ssm, call, due, listing, held, client, asked, standing, kept, menu, calls>>
    BY DEF store, console, memo
<1>2. Typed'
    BY <1>1 DEF IInv, Typed
<1>3. Calling'
    BY <1>1, CallingFrame DEF IInv, Calling
<1>4. Reading' /\ Holding'
    BY <1>1, ReadingFrame, HoldingFrame DEF IInv
<1> QED
    BY <1>2, <1>3, <1>4 DEF IInv, Calling

LEMMA CreateAppStep ==
    ASSUME IInv, NEW o \in Orgs, CreateApp(o)
    PROVE  IInv'
<1> DEFINE n == Cardinality(returns) + 1
           state == [org |-> o, n |-> n]
           return == [state |-> state, app |-> [org |-> o, n |-> n]]
<1>1. /\ n <= MaxFlows /\ cookie' = state /\ returns' = returns \union {return}
      /\ UNCHANGED <<menu, store, converted, console, memo, calls, failures>>
    BY DEF CreateApp
<1>2. Browsing /\ failures \in 0 .. MaxFailures
    BY DEF IInv, Typed
<1>3. n \in 0 .. MaxFlows
    <2>1. Cardinality(returns) \in Nat
        BY <1>2, FS_CardinalityType DEF Browsing
    <2> QED
        BY <1>1, <2>1, StoreAssumptions
<1>4. IsFiniteSet(returns')
    BY <1>1, <1>2, FS_AddElement DEF Browsing
<1> HIDE DEF n
<1>5. state \in Apps /\ return \in [state : Apps, app : Apps] /\ return.state.org = return.app.org
    BY <1>3 DEF Apps
<1>6. Browsing'
    BY <1>1, <1>2, <1>4, <1>5 DEF Browsing
<1> QED
    BY <1>1, <1>2, <1>6, BrowserStep

LEMMA CallbackRefusedStep ==
    ASSUME IInv, NEW r \in returns, CallbackRefused(r)
    PROVE  IInv'
<1>1. Browsing'
    BY DEF CallbackRefused, IInv, Browsing
<1>2. /\ failures' \in 0 .. MaxFailures
      /\ UNCHANGED <<menu, store, console, memo, calls>>
    BY DEF CallbackRefused, IInv, Typed
<1> QED
    BY <1>1, <1>2, BrowserStep

LEMMA CookieExpiresStep ==
    ASSUME IInv, CookieExpires
    PROVE  IInv'
<1>1. Browsing'
    BY DEF CookieExpires, IInv, Browsing
<1>2. failures' \in 0 .. MaxFailures
    BY StoreAssumptions DEF CookieExpires, Fails, IInv, Typed
<1>3. UNCHANGED <<menu, store, console, memo, calls>>
    BY DEF CookieExpires
<1> QED
    BY <1>1, <1>2, <1>3, BrowserStep

-------------------------------------------------------------------------------
(* The console.                                                              *)

\* What the console reads and holds touches nothing of the store.
LEMMA ConsoleStep ==
    ASSUME IInv, Reading', Holding', kept' \subseteq standing, failures' \in 0 .. MaxFailures,
           UNCHANGED <<menu, store, browser, asked, standing, calls>>
    PROVE  IInv'
<1>1. UNCHANGED <<menu, ssm, call, asked, standing, calls>>
    BY DEF store
<1>2. Typed'
    BY <1>1 DEF IInv, Typed
<1>3. Calling'
    BY <1>1, CallingFrame DEF IInv, Calling
<1>4. Browsing'
    BY BrowsingFrame DEF IInv
<1> QED
    BY <1>2, <1>3, <1>4 DEF IInv, Calling

LEMMA StartListingStep ==
    ASSUME IInv, NEW what \in Readings, StartListing(what)
    PROVE  IInv'
<1>1. /\ listing' = [what |-> what, unread |-> ParamsOf(what),
                     found |-> [p \in ParamsOf(what) |-> Absent]]
      /\ kept' = standing
      /\ UNCHANGED <<menu, store, browser, due, held, client, asked, standing, calls, failures>>
    BY DEF StartListing
<1>2. what # "nothing" /\ due \subseteq Readings
    BY StoreAssumptions DEF IInv, Reading, Readings
<1>3. what \in GitOrgs => \A field \in AppFields : <<what, field>> \in ParamsOf(what)
    BY StoreAssumptions DEF ParamsOf
<1>4. what = "directories" => \A d \in Dirs : \A field \in {"endpoint", "domains"} :
            <<d, field>> \in ParamsOf(what)
    BY DEF ParamsOf, DirFields
<1>5. Reading'
    BY <1>1, <1>2, <1>3, <1>4 DEF Reading
<1>6. Holding' /\ failures' \in 0 .. MaxFailures
    BY <1>1, HoldingFrame DEF IInv, Typed
<1> QED
    BY <1>1, <1>5, <1>6, ConsoleStep

LEMMA ReadOneStep ==
    ASSUME IInv, ReadOne
    PROVE  IInv'
<1> DEFINE next == CHOOSE x \in listing.unread : IsNext(x)
<1>1. /\ listing.unread # {}
      /\ listing' = [listing EXCEPT !.unread = @ \ {next}, !.found[next] = ssm[next]]
      /\ UNCHANGED <<menu, store, browser, due, held, client, memo, calls, failures>>
    BY DEF ReadOne
<1> HIDE DEF next
<1>2. Reading /\ OwnApps /\ Standing /\ kept \subseteq standing /\ failures \in 0 .. MaxFailures
    BY DEF IInv, Typed
<1>3. /\ listing = [what |-> listing.what, unread |-> listing.unread, found |-> listing.found]
      /\ listing.what # "nothing" /\ DOMAIN listing.found = ParamsOf(listing.what)
    BY <1>1, <1>2 DEF Reading
<1>4. /\ listing'.what = listing.what
      /\ listing'.unread = listing.unread \ {next}
      /\ listing'.found = [listing.found EXCEPT ![next] = ssm[next]]
      /\ listing' = [what |-> listing'.what, unread |-> listing'.unread, found |-> listing'.found]
    BY <1>1, <1>3
<1>5. \A x \in ParamsOf(listing.what) :
        listing'.found[x] = IF x = next THEN ssm[x] ELSE listing.found[x]
    BY <1>3, <1>4
<1>6. ASSUME listing.what \in GitOrgs, NEW field \in AppFields
      PROVE  listing'.found[<<listing.what, field>>] \in Apps \union {Absent}
    <2>1. <<listing.what, field>> \in ParamsOf(listing.what) /\ listing.what \in Orgs
        BY <1>6, StoreAssumptions DEF ParamsOf
    <2>2. ssm[<<listing.what, field>>] \in Apps \union {Absent}
        BY <1>2, <2>1 DEF OwnApps
    <2> QED
        BY <1>2, <1>5, <1>6, <2>1, <2>2 DEF Reading
<1>7. ASSUME listing.what = "directories", NEW d \in kept \intersect Dirs,
             NEW field \in {"endpoint", "domains"}
      PROVE  <<d, field>> \in listing'.unread \/ listing'.found[<<d, field>>] # Absent
    <2>1. <<d, field>> \in ParamsOf(listing.what)
        BY <1>7 DEF ParamsOf, DirFields
    <2>2. ssm[<<d, field>>] # Absent
        BY <1>2, <1>7 DEF Standing, IsListed, SourcesFrom
    <2>3. <<d, field>> \in listing.unread \/ listing.found[<<d, field>>] # Absent
        BY <1>2, <1>7 DEF Reading
    <2> QED
        BY <1>4, <1>5, <2>1, <2>2, <2>3
<1>8. Reading'
    <2>1. due' = due /\ kept' = kept /\ DOMAIN listing'.found = ParamsOf(listing'.what)
        BY <1>1, <1>3, <1>4 DEF memo
    <2> QED
        BY <1>2, <1>3, <1>4, <1>6, <1>7, <2>1 DEF Reading
<1>9. Holding'
    BY <1>1, HoldingFrame DEF IInv
<1> QED
    BY <1>1, <1>2, <1>8, <1>9, ConsoleStep DEF memo

LEMMA ReadFailsStep ==
    ASSUME IInv, ReadFails
    PROVE  IInv'
<1>1. /\ EndListing /\ failures < MaxFailures /\ failures' = failures + 1
      /\ UNCHANGED <<menu, store, browser, held, client, asked, standing, calls>>
    BY DEF ReadFails, Fails
<1>2. Reading' /\ kept' = {}
    BY <1>1, EndReading DEF IInv
<1>3. Holding'
    BY <1>1, HoldingFrame DEF IInv
<1>4. failures' \in 0 .. MaxFailures
    BY <1>1, StoreAssumptions DEF IInv, Typed
<1> QED
    BY <1>1, <1>2, <1>3, <1>4, ConsoleStep

LEMMA ReloadDirectoriesStep ==
    ASSUME IInv, ReloadDirectories
    PROVE  IInv'
<1>1. /\ EndListing /\ held' = Reconciled(SourcesFrom(listing.found))
      /\ UNCHANGED <<menu, store, browser, client, asked, standing, calls, failures>>
    BY DEF ReloadDirectories
<1>2. Reading' /\ kept' = {}
    BY <1>1, EndReading DEF IInv
<1>3. DOMAIN held' = Dirs
    BY <1>1 DEF Reconciled
<1>4. ASSUME NEW d \in Dirs \ GitDirs, held'[d] # Absent
      PROVE  held'[d].endpoint # Absent /\ held'[d].domains # Absent
    <2>1. /\ d \in SourcesFrom(listing.found)
          /\ held'[d] = IF held[d] # Absent THEN held[d] ELSE Source(listing.found, d)
        BY <1>1, <1>4 DEF Reconciled
    <2>2. CASE held[d] # Absent
        BY <2>1, <2>2 DEF IInv, Holding
    <2>3. CASE held[d] = Absent
        BY <2>1, <2>3 DEF SourcesFrom, Source, DirFields
    <2> QED
        BY <2>2, <2>3
<1>5. Holding'
    BY <1>1, <1>3, <1>4 DEF IInv, Holding
<1>6. failures' \in 0 .. MaxFailures
    BY <1>1 DEF IInv, Typed
<1> QED
    BY <1>1, <1>2, <1>5, <1>6, ConsoleStep

LEMMA ReloadOrgStep ==
    ASSUME IInv, NEW o \in GitOrgs, ReloadOrg(o)
    PROVE  IInv'
<1> DEFINE read == Credentials(listing.found, o)
<1>1. /\ EndListing /\ HasRead(o)
      /\ client' = IF (\E field \in AppFields : read[field] = Absent)
                      \/ Fingerprint(read) = Fingerprint(client[o])
                   THEN client
                   ELSE [client EXCEPT ![o] = read]
      /\ UNCHANGED <<menu, store, browser, held, asked, standing, calls, failures>>
    BY DEF ReloadOrg
<1>2. Reading' /\ kept' = {}
    BY <1>1, EndReading DEF IInv
<1>3. \A field \in AppFields : read[field] \in Apps \union {Absent}
    BY <1>1 DEF HasRead, Credentials, IInv, Reading
<1>4. (\A field \in AppFields : read[field] # Absent) => read \in [AppFields -> Apps]
    BY <1>3 DEF Credentials
<1> HIDE DEF read
<1>5. Holding'
    BY <1>1, <1>4 DEF IInv, Holding
<1>6. failures' \in 0 .. MaxFailures
    BY <1>1 DEF IInv, Typed
<1> QED
    BY <1>1, <1>2, <1>5, <1>6, ConsoleStep

-------------------------------------------------------------------------------
(* The theorems.                                                             *)

\* The inductive invariant: what stands under each path, what a call under way
\* has still to write, and what a listing under way has read.
THEOREM Inductive == Spec => []IInv
<1>1. IInv /\ [Next]_vars => IInv'
    <2> SUFFICES ASSUME IInv, [Next]_vars PROVE IInv'
        OBVIOUS
    <2>1. CASE Next
        <3>1. ASSUME NEW h \in Handlers, NEW c \in menu.calls, Begin(h, c) PROVE IInv'
            BY <3>1, BeginStep
        <3>2. ASSUME NEW h \in Handlers, WriteOne(h) PROVE IInv'
            BY <3>2, WriteOneStep
        <3>3. ASSUME NEW h \in Handlers, Answer(h) PROVE IInv'
            BY <3>3, AnswerStep
        <3>4. ASSUME NEW h \in Handlers, WriteFails(h) PROVE IInv'
            BY <3>4, WriteFailsStep
        <3>5. ASSUME NEW o \in Orgs, CreateApp(o) PROVE IInv'
            BY <3>5, CreateAppStep
        <3>6. ASSUME NEW r \in returns, CallbackRefused(r) PROVE IInv'
            BY <3>6, CallbackRefusedStep
        <3>7. ASSUME NEW r \in returns, NEW h \in Handlers, Callback(h, r) PROVE IInv'
            BY <3>7, CallbackStep
        <3>8. CASE CookieExpires
            BY <3>8, CookieExpiresStep
        <3>9. ASSUME NEW what \in Readings, StartListing(what) PROVE IInv'
            BY <3>9, StartListingStep
        <3>10. CASE ReadOne
            BY <3>10, ReadOneStep
        <3>11. CASE ReloadDirectories
            BY <3>11, ReloadDirectoriesStep
        <3>12. ASSUME NEW o \in GitOrgs, ReloadOrg(o) PROVE IInv'
            BY <3>12, ReloadOrgStep
        <3>13. CASE ReadFails
            BY <3>13, ReadFailsStep
        <3>14. CASE Restart
            BY <3>14, RestartStep
        <3>15. ASSUME NEW h \in Handlers, WriteRefused(h) PROVE IInv'
            BY <3>15, WriteRefusedStep
        <3> QED
            BY <2>1, <3>1, <3>2, <3>3, <3>4, <3>5, <3>6, <3>7, <3>8, <3>9, <3>10, <3>11,
               <3>12, <3>13, <3>14, <3>15 DEF Next, Handle, Console
    <2>2. CASE UNCHANGED vars
        <3>1. UNCHANGED <<menu, store, browser, console, memo, calls, failures>>
            BY <2>2 DEF vars
        <3>2. Browsing' /\ failures' \in 0 .. MaxFailures
            BY <3>1, BrowsingFrame DEF IInv, Typed
        <3> QED
            BY <3>1, <3>2, BrowserStep
    <2> QED
        BY <2>1, <2>2
<1> QED
    BY <1>1, InitIInv, PTL DEF Spec

\* TypeOK: whatever calls, failures, callbacks and readings interleave, what
\* the console holds of a directory is whole, a client has a whole set of
\* credentials, and what operators are said to keep are objects there are.
THEOREM TypeCorrect == Spec => []TypeOK
<1>1. IInv => TypeOK
    <2> SUFFICES ASSUME IInv PROVE TypeOK
        OBVIOUS
    <2>1. \A h \in Handlers : call[h] = Idle \/ call[h].of \in Objects \union Orgs
        BY DEF IInv, Typed, Task
    <2>2. \A o \in Orgs, field \in AppFields : ssm[<<o, field>>] \in Apps \union {Absent}
        BY DEF IInv, OwnApps
    <2>3. standing \union kept \subseteq Objects
        BY DEF IInv, Typed
    <2> QED
        BY <2>1, <2>2, <2>3 DEF IInv, Typed, Browsing, Reading, Holding, TypeOK
<1> QED
    BY <1>1, Inductive, PTL

\* StandingIsListed: however many requests edit the store at once and wherever
\* one of them fails, what has only ever been replaced is listed at every
\* moment, and by every listing that began after it was there (PutTeam's order
\* of writing before deleting, sourcesFrom's rule of a whole directory).
THEOREM EditsKeepListed == Spec => []StandingIsListed
<1>1. IInv => StandingIsListed
    <2> SUFFICES ASSUME IInv PROVE StandingIsListed
        OBVIOUS
    <2>1. \A object \in standing : IsListed(ssm, object)
        BY DEF IInv, Standing
    <2>2. ASSUME HasRead("directories"), NEW d \in kept \intersect Dirs
          PROVE  d \in SourcesFrom(listing.found)
        <3>1. listing.what = "directories" /\ listing.unread = {}
            BY <2>2 DEF HasRead
        <3> QED
            BY <2>2, <3>1 DEF IInv, Reading, SourcesFrom
    <2> QED
        BY <2>1, <2>2 DEF StandingIsListed
<1> QED
    BY <1>1, Inductive, PTL

\* AsLastAsked: once the last call on an object is answered and nobody got in
\* its way, the store holds what it asked for and nothing older.
THEOREM LastCallHolds == Spec => []AsLastAsked
<1>1. IInv => AsLastAsked
    BY DEF IInv
<1> QED
    BY <1>1, Inductive, PTL

\* AppToItsOrg: the state of a callback is the cookie's, and GitHub returns the
\* App it created for that state, so no interleaving of flows stores one
\* organization's credentials under another.
THEOREM AppsStayHome == Spec => []AppToItsOrg
<1>1. IInv => AppToItsOrg
    BY DEF IInv, OwnApps, AppToItsOrg
<1> QED
    BY <1>1, Inductive, PTL
===============================================================================
