------------------------------ MODULE ConfigStore ------------------------------
(***************************************************************************)
(* The configuration operators keep beside the reviewed one: directories,  *)
(* organizations, their teams and their GitHub Apps (src/pkg/configstore), *)
(* the console's handlers that write it, the flow that creates an App, and *)
(* the console's ticker, which follows the store without a restart.        *)
(*                                                                         *)
(* The store is a flat space of parameters without transactions: a call    *)
(* writes one parameter at a time, a listing reads one page at a time and  *)
(* credentials are read one by one, while other calls go on.  A page is    *)
(* one parameter here; a larger page is the same with nothing in between.  *)
(***************************************************************************)
EXTENDS Naturals, Sequences, FiniteSets

CONSTANTS
    Handlers,     \* concurrent requests to the console
    Dirs,         \* the directories anybody declares
    GitDirs,      \* those of the reviewed configuration
    Orgs,
    GitOrgs,      \* those of the reviewed configuration
    Teams,
    OrgOf,        \* the organization of a team
    Menus,        \* what goes on: calls [op, of, want], readings, and so on;
                  \* atMost bounds the calls
    StartApp,     \* the App each organization has when the console starts
    StartDirs,    \* what the store has of each directory by then
    MaxFlows,     \* bound: App creations
    MaxFailures,  \* bound: failed requests, restarts and expired cookies
    Absent,       \* the value of a parameter that is not there
    Empty,        \* the empty string
    Idle

DirFields == {"endpoint", "domains", "probeGroup"}
TeamFields == {"groups", "members"}

\* What a client is built from.  The installation id, which the console reads
\* and fingerprints along with these two, is data that does not change here: no
\* App flow writes it.
AppFields == {"github-app-id", "github-private-key"}

OrgFields == AppFields \union {"consoleAppSSM", "provenance"}

Param == (Dirs \X DirFields) \union (Teams \X TeamFields) \union (Orgs \X OrgFields)

Apps == [org : Orgs, n : 0 .. MaxFlows]

Objects == Dirs \union Teams
FieldsOf(object) == IF object \in Dirs THEN DirFields ELSE TeamFields
Nothing(object) == [field \in FieldsOf(object) |-> Absent]

\* What the handlers let through: a directory with an endpoint and domains, with
\* a probe group or an empty one, a team with a group or a member; a deletion
\* asks for nothing.
IsCall(c) ==
    /\ c.of \in IF c.op \in {"AddDirectory", "DeleteDirectory"} THEN Dirs ELSE Teams
    /\ c.want = [field \in FieldsOf(c.of) |-> c.want[field]]
    /\ \A field \in FieldsOf(c.of) : c.want[field] = Empty => field = "probeGroup"
    /\ \/ c.op = "AddDirectory" /\ \A field \in DirFields : c.want[field] # Absent
       \/ c.op \in {"StageOrg", "PutOrgTeam"} /\ \E field \in TeamFields : c.want[field] # Absent
       \/ c.op \in {"DeleteDirectory", "DeleteOrgTeam"} /\ c.want = Nothing(c.of)

Readings == {"directories"} \union GitOrgs

ASSUME StoreAssumptions ==
    /\ GitDirs \subseteq Dirs /\ GitOrgs \subseteq Orgs
    /\ Dirs \intersect Teams = {} /\ Orgs \intersect Objects = {}
    /\ {"nothing", "directories"} \intersect Orgs = {}
    /\ OrgOf \in [Teams -> Orgs]
    /\ StartApp \in [Orgs -> {Absent} \union Apps]
    /\ \A o \in GitOrgs : StartApp[o] # Absent
    /\ \A o \in Orgs : StartApp[o] # Absent => StartApp[o].org = o
    /\ \A d \in Dirs : DOMAIN StartDirs[d] = DirFields
    /\ \A m \in Menus :
        /\ \A c \in m.calls : IsCall(c)
        /\ m.readings \subseteq Readings
        /\ m.atMost \in Nat
    /\ MaxFlows \in Nat /\ MaxFailures \in Nat
    /\ Absent \notin Apps \union {"app", "roster", "git"}
    /\ Empty \notin Apps \union {"app", "roster", Absent}

VARIABLES
    menu,       \* the menu of this behaviour, one part of the store
    ssm,        \* the parameters
    call,       \* what each handler is doing: the writes it has left
    cookie,     \* browser: the state cookie of the App flow
    returns,    \* browser: the callbacks GitHub has sent it to
    converted,  \* GitHub: the Apps whose one-time code has been used
    due,        \* the console: what this tick has yet to read
    listing,    \* the console: what it is reading, what it has read
    held,       \* the console: its set of directories, each with its client
    client,     \* the console: the credentials of each organization's client
    \* What the properties remember; no action reads it.
    asked,      \* what the last undisturbed call on an object asked for
    standing,   \* what has been written and then only ever replaced
    kept,       \* the directories standing ever since the listing began
    calls, failures

store == <<ssm, call>>
browser == <<cookie, returns, converted>>
console == <<due, listing, held, client>>
memo == <<asked, standing, kept>>
vars == <<menu, store, browser, console, memo, calls, failures>>

Unsure == Idle

-------------------------------------------------------------------------------
(* Reading: what a set of parameters says.                                   *)

\* Faulty variant: an endpoint makes a directory.
SourcesFromEndpoint(view) == {d \in Dirs : view[<<d, "endpoint">>] # Absent}

\* sourcesFrom: a half-written directory is not one.
SourcesFrom(view) ==
    {d \in Dirs : /\ view[<<d, "endpoint">>] # Absent
                  /\ view[<<d, "domains">>] # Absent}

Source(view, d) == [field \in DirFields |-> view[<<d, field>>]]

HasIntent(view, t) == \E field \in TeamFields : view[<<t, field>>] # Absent

\* orgsFrom: no pointer to credentials, or no team with any intent, no
\* organization.
OrgsFrom(view) ==
    {o \in Orgs : /\ view[<<o, "consoleAppSSM">>] # Absent
                  /\ \E t \in Teams : OrgOf[t] = o /\ HasIntent(view, t)}

IsListed(view, object) ==
    IF object \in Dirs
    THEN object \in SourcesFrom(view)
    ELSE HasIntent(view, object) /\ OrgOf[object] \in OrgsFrom(view)

Credentials(view, o) == [field \in AppFields |-> view[<<o, field>>]]
NoCredentials == [field \in AppFields |-> Absent]

-------------------------------------------------------------------------------
(* Writing: the steps of a call, each a set of writes in any order.          *)

Write(object, field, value) == [param |-> <<object, field>>, value |-> value]

Full(c) == {field \in DOMAIN c.want : c.want[field] # Absent}

Writes(c, fields) == {Write(c.of, field, c.want[field]) : field \in fields}

Deletes(c, fields) == {Write(c.of, field, Absent) : field \in fields}

\* Writing or deleting nothing is no step.
Step(writes) == IF writes = {} THEN <<>> ELSE <<writes>>

\* Faulty variant: the old parameters go first.
PutDirectoryAfresh(c) == <<Deletes(c, DirFields), Writes(c, DirFields)>>

\* SSM.Put: every field, an empty probe group too, in the order of a Go map.
PutDirectory(c) == <<Writes(c, DirFields)>>

DeleteDirectory(c) ==
    <<Deletes(c, {"endpoint"}), Deletes(c, {"domains"}), Deletes(c, {"probeGroup"})>>

\* PutOrg: the pointer at the App's path first, then the non-empty lists.
\* The other scalars are data.
PutOrg(c) ==
    <<{Write(OrgOf[c.of], "consoleAppSSM", "app")}>>
    \o Step(Writes(c, Full(c) \intersect {"groups"}))
    \o Step(Writes(c, Full(c) \intersect {"members"}))

\* Faulty variant: what is empty now stays behind.
PutTeamKeepsStale(c) == <<Writes(c, Full(c))>>

\* PutTeam: the non-empty lists, and only then the empty ones are deleted.
PutTeam(c) == <<Writes(c, Full(c))>> \o Step(Deletes(c, TeamFields \ Full(c)))

DeleteTeam(c) == <<Deletes(c, {"groups"}), Deletes(c, {"members"})>>

\* PutApp and PutProvenance: the ids, the secrets, the pointer, the tag.
PutApp(o, app) ==
    <<{Write(o, "github-app-id", app)}, {Write(o, "github-private-key", app)},
      {Write(o, "consoleAppSSM", "app")}, {Write(o, "provenance", "roster")}>>

Steps(c) ==
    CASE c.op = "AddDirectory" -> PutDirectory(c)
      [] c.op = "DeleteDirectory" -> DeleteDirectory(c)
      [] c.op = "StageOrg" -> PutOrg(c)
      [] c.op = "PutOrgTeam" -> PutTeam(c)
      [] c.op = "DeleteOrgTeam" -> DeleteTeam(c)

\* refuseGitOrg guards the two team calls; staging has no such guard.
Refused(c) == c.op \in {"PutOrgTeam", "DeleteOrgTeam"} /\ OrgOf[c.of] \in GitOrgs

Removes(c) == c.op \in {"DeleteDirectory", "DeleteOrgTeam"}

Overlaps(object) == {h \in Handlers : call[h] # Idle /\ call[h].of = object}

\* Everybody at work on the object, the newcomer included, is disturbed.
Disturbed(object) ==
    [h \in Handlers |-> IF h \in Overlaps(object) THEN [call[h] EXCEPT !.clean = FALSE]
                                                  ELSE call[h]]

Taken(h, op, object, want, steps) ==
    call' = [Disturbed(object) EXCEPT ![h] =
        [op |-> op, of |-> object, want |-> want, steps |-> steps,
         clean |-> Overlaps(object) = {}]]

\* Two replacements of a team that overlap may each delete what the other
\* wrote; those of a directory delete nothing.
Falls(c) == Removes(c) \/ (c.of \in Teams /\ Overlaps(c.of) # {})

Begin(h, c) ==
    /\ call[h] = Idle
    /\ ~Refused(c)
    /\ calls < menu.atMost
    /\ calls' = calls + 1
    /\ Taken(h, c.op, c.of, c.want, Steps(c))
    /\ asked' = [asked EXCEPT ![c.of] = Unsure]
    /\ standing' = IF Falls(c) THEN standing \ {c.of} ELSE standing
    /\ kept' = IF Falls(c) THEN kept \ {c.of} ELSE kept
    /\ UNCHANGED <<menu, ssm, browser, console, failures>>

\* PutParameter refuses an empty value (external).
Accepted(writes) == {w \in writes : w.value # Empty}

WriteOne(h) ==
    /\ call[h] # Idle
    /\ call[h].steps # <<>>
    /\ \E w \in Accepted(Head(call[h].steps)) :
        LET rest == Head(call[h].steps) \ {w}
            left == Step(rest) \o Tail(call[h].steps)
        IN  /\ ssm' = [ssm EXCEPT ![w.param] = w.value]
            /\ call' = [call EXCEPT ![h].steps = left]
    /\ UNCHANGED <<menu, browser, console, memo, calls, failures>>

\* The refusal ends the call, wherever the order of the map has put it.
WriteRefused(h) ==
    /\ call[h] # Idle
    /\ call[h].steps # <<>>
    /\ Head(call[h].steps) # Accepted(Head(call[h].steps))
    /\ call' = [call EXCEPT ![h] = Idle]
    /\ UNCHANGED <<menu, ssm, browser, console, memo, calls, failures>>

\* Staging again leaves what it does not mention, so what it asks for is not
\* all there is.
Settles(c) == c.clean /\ c.of \in Objects /\ c.op # "StageOrg"

Answer(h) ==
    /\ call[h] # Idle
    /\ call[h].steps = <<>>
    /\ call' = [call EXCEPT ![h] = Idle]
    /\ asked' = IF Settles(call[h]) THEN [asked EXCEPT ![call[h].of] = call[h].want]
                                    ELSE asked
    /\ standing' = IF call[h].clean /\ call[h].of \in Objects /\ ~Removes(call[h])
                      /\ IsListed(ssm, call[h].of)
                   THEN standing \union {call[h].of}
                   ELSE standing
    /\ UNCHANGED <<menu, ssm, browser, console, kept, calls, failures>>

Fails ==
    /\ failures < MaxFailures
    /\ failures' = failures + 1

\* The first error ends the call; the store may have made the change.
WriteFails(h) ==
    /\ call[h] # Idle
    /\ call[h].steps # <<>>
    /\ Fails
    /\ \/ UNCHANGED ssm
       \/ \E w \in Accepted(Head(call[h].steps)) :
            ssm' = [ssm EXCEPT ![w.param] = w.value]
    /\ call' = [call EXCEPT ![h] = Idle]
    /\ UNCHANGED <<menu, browser, console, memo, calls>>

-------------------------------------------------------------------------------
(* Creating an App: one operator's browser, GitHub, and back.                *)

\* The console sets the state as a cookie and sends it along to GitHub, where
\* the owner creates the App (external), which returns with the same state.
CreateApp(o) ==
    LET n == Cardinality(returns) + 1
        state == [org |-> o, n |-> n]
    IN  /\ o \in menu.apps
        /\ n <= MaxFlows
        /\ cookie' = state
        /\ returns' = returns \union {[state |-> state, app |-> [org |-> o, n |-> n]]}
        /\ UNCHANGED <<menu, store, converted, console, memo, calls, failures>>

\* Faulty variant: the cookie alone says which organization it is.
VerifyAppStateByCookie(r) == cookie # Absent

VerifyAppState(r) == cookie # Absent /\ cookie = r.state

\* The cookie is cleared whatever comes of it.
CallbackRefused(r) ==
    /\ r \in returns
    /\ ~VerifyAppState(r) \/ r.app \in converted
    /\ cookie' = Absent
    /\ UNCHANGED <<menu, store, returns, converted, console, memo, calls, failures>>

Callback(h, r) ==
    /\ call[h] = Idle
    /\ r \in returns
    /\ VerifyAppState(r)
    /\ r.app \notin converted
    /\ cookie' = Absent
    /\ converted' = converted \union {r.app}
    /\ Taken(h, "PutApp", cookie.org, Idle, PutApp(cookie.org, r.app))
    /\ UNCHANGED <<menu, ssm, returns, console, memo, calls, failures>>

CookieExpires ==
    /\ cookie # Absent
    /\ Fails
    /\ cookie' = Absent
    /\ UNCHANGED <<menu, store, returns, converted, console, memo, calls>>

-------------------------------------------------------------------------------
(* The console's ticker lists the directories, then reads the credentials of *)
(* every organization of the reviewed configuration.                         *)

FieldOrder == <<"github-app-id", "github-private-key", "domains", "endpoint",
                "probeGroup">>

Path(p) == CHOOSE i \in DOMAIN FieldOrder : FieldOrder[i] = p[2]

NoListing == [what |-> "nothing", unread |-> {}, found |-> <<>>]

ParamsOf(what) ==
    IF what = "directories" THEN Dirs \X DirFields ELSE {what} \X AppFields

\* The directories come first, then one organization after the other.
StartListing(what) ==
    /\ what \in due
    /\ "directories" \in due => what = "directories"
    /\ listing = NoListing
    /\ listing' = [what |-> what, unread |-> ParamsOf(what),
                   found |-> [p \in ParamsOf(what) |-> Absent]]
    /\ kept' = standing
    /\ UNCHANGED <<menu, store, browser, due, held, client, asked, standing, calls,
                   failures>>

\* One object after the other, each in the order of its fields.
IsNext(p) ==
    /\ \A q \in listing.unread : q[1] = p[1] => Path(p) <= Path(q)
    /\ \A q \in ParamsOf(listing.what) \ listing.unread :
        q[1] # p[1] => \A x \in listing.unread : x[1] # q[1]

ReadOne ==
    /\ listing.unread # {}
    /\ LET next == CHOOSE x \in listing.unread : IsNext(x)
       IN  listing' = [listing EXCEPT !.unread = @ \ {next}, !.found[next] = ssm[next]]
    /\ UNCHANGED <<menu, store, browser, due, held, client, memo, calls, failures>>

\* After the last reading of a tick comes another tick.
EndListing ==
    /\ due' = IF due \subseteq {listing.what} THEN menu.readings ELSE due \ {listing.what}
    /\ listing' = NoListing
    /\ kept' = {}

ReadFails ==
    /\ listing # NoListing
    /\ Fails
    /\ EndListing
    /\ UNCHANGED <<menu, store, browser, held, client, asked, standing, calls>>

HasRead(what) == listing.what = what /\ listing.unread = {}

GitClient == "git"

\* Set.Reconcile, after git has won by name: a directory already present
\* keeps its cache, and with it its client.
Reconciled(sources) ==
    [d \in Dirs |->
        CASE d \in GitDirs -> GitClient
          [] d \notin GitDirs /\ d \notin sources -> Absent
          [] d \notin GitDirs /\ d \in sources ->
                IF held[d] # Absent THEN held[d] ELSE Source(listing.found, d)]

ReloadDirectories ==
    /\ HasRead("directories")
    /\ held' = Reconciled(SourcesFrom(listing.found))
    /\ EndListing
    /\ UNCHANGED <<menu, store, browser, client, asked, standing, calls, failures>>

\* Faulty variant: the id of the App stands for its credentials.
FingerprintOfApp(credentials) == credentials["github-app-id"]

Fingerprint(credentials) == credentials

\* reloadOrgs: the client is rebuilt if the credentials are another set; a
\* parameter that is missing keeps it.
ReloadOrg(o) ==
    LET read == Credentials(listing.found, o)
    IN  /\ HasRead(o)
        /\ client' =
            IF (\E field \in AppFields : read[field] = Absent)
               \/ Fingerprint(read) = Fingerprint(client[o])
            THEN client
            ELSE [client EXCEPT ![o] = read]
        /\ EndListing
        /\ UNCHANGED <<menu, store, browser, held, asked, standing, calls, failures>>

NoHeld == [d \in Dirs |-> IF d \in GitDirs THEN GitClient ELSE Absent]

\* The process ends between any two steps; requests end where they are.
Restart ==
    /\ Fails
    /\ call' = [h \in Handlers |-> Idle]
    /\ held' = NoHeld
    /\ client' = [o \in GitOrgs |-> NoCredentials]
    /\ due' = menu.readings
    /\ listing' = NoListing
    /\ kept' = {}
    /\ UNCHANGED <<menu, ssm, browser, asked, standing, calls>>

StartSSM ==
    [p \in Param |->
        CASE p[2] \in AppFields -> StartApp[p[1]]
          [] p[2] \in DirFields -> StartDirs[p[1]][p[2]]
          [] OTHER -> Absent]

Init ==
    /\ menu \in Menus
    /\ ssm = StartSSM
    /\ call = [h \in Handlers |-> Idle]
    /\ cookie = Absent
    /\ returns = {}
    /\ converted = {}
    /\ due = menu.readings
    /\ listing = NoListing
    /\ held = NoHeld
    /\ client = [o \in GitOrgs |-> NoCredentials]
    /\ asked = [object \in Objects |->
                IF object \in Dirs THEN StartDirs[object] ELSE Nothing(object)]
    /\ standing = {}
    /\ kept = {}
    /\ calls = 0
    /\ failures = 0

Console ==
    \/ \E what \in Readings : StartListing(what)
    \/ ReadOne
    \/ ReloadDirectories
    \/ \E o \in GitOrgs : ReloadOrg(o)

Handle(h) == WriteOne(h) \/ WriteRefused(h) \/ Answer(h)

Next ==
    \/ \E h \in Handlers : \E c \in menu.calls : Begin(h, c)
    \/ \E h \in Handlers : Handle(h) \/ WriteFails(h)
    \/ \E o \in Orgs : CreateApp(o)
    \/ \E r \in returns : CallbackRefused(r) \/ \E h \in Handlers : Callback(h, r)
    \/ CookieExpires
    \/ Console
    \/ ReadFails
    \/ Restart

Spec == Init /\ [][Next]_vars

\* Requests go on, and so does the ticker with its readings.
Fairness == WF_vars(\E h \in Handlers : Handle(h)) /\ WF_vars(Console)

FairSpec == Spec /\ Fairness

-------------------------------------------------------------------------------
(* Properties.                                                               *)

\* The types of the variables: what the console holds of a directory has an
\* endpoint and domains, and a client has a whole set of credentials.
TypeOK ==
    /\ DOMAIN ssm = Param
    /\ \A o \in Orgs, field \in AppFields : ssm[<<o, field>>] \in Apps \union {Absent}
    /\ \A h \in Handlers : call[h] = Idle \/ call[h].of \in Objects \union Orgs
    /\ cookie \in Apps \union {Absent}
    /\ returns \subseteq [state : Apps, app : Apps]
    /\ converted \subseteq Apps
    /\ due \subseteq Readings
    /\ listing.what \in Readings \union {"nothing"}
    /\ \A d \in Dirs \ GitDirs :
        held[d] # Absent => held[d].endpoint # Absent /\ held[d].domains # Absent
    /\ \A o \in GitOrgs : client[o] = NoCredentials \/ client[o] \in [AppFields -> Apps]
    /\ standing \union kept \subseteq Objects
    /\ calls \in 0 .. menu.atMost /\ failures \in 0 .. MaxFailures

\* What operators have only ever replaced stays listed, whatever writes a
\* listing overtakes and wherever one failed.  A directory that has stood ever
\* since a listing began is in it: no pass takes the people of a directory that
\* is being edited for people no directory is expected to know.  A team that
\* one call at a time replaces has its old lists, its new ones or both at any
\* moment: no organization reads as one without teams, "it would drive
\* removals" (orgs.go:204).
StandingIsListed ==
    /\ \A object \in standing : IsListed(ssm, object)
    /\ HasRead("directories") => kept \intersect Dirs \subseteq SourcesFrom(listing.found)

\* What the last call asked for is what the store holds, nothing left over
\* from an earlier one: "a stale groups parameter would keep granting a
\* membership the operator just took away" (orgs.go:421), nor a probe of the
\* directory that was there before.
AsLastAsked ==
    \A object \in Objects :
        asked[object] # Unsure =>
            \A field \in FieldsOf(object) : ssm[<<object, field>>] = asked[object][field]

\* Whatever flows one browser has open and in whichever order they return, an
\* App's credentials are stored for the organization it was created for.
AppToItsOrg ==
    \A o \in Orgs, field \in AppFields :
        ssm[<<o, field>>] # Absent => ssm[<<o, field>>].org = o

\* Once operators and failures rest, the console uses what the store says: its
\* set is git's directories and the whole ones of the store - added, deleted,
\* half-written ones alike - and an organization's client has the credentials
\* the store has, even if a reading met a rotation halfway and built a client
\* from the id of one App and the key of another.
ConsoleSettles ==
    /\ "directories" \in menu.readings =>
        <>[](\A d \in Dirs : held[d] # Absent <=> d \in GitDirs \union SourcesFrom(ssm))
    /\ \A o \in GitOrgs :
        o \in menu.readings => <>[](client[o] = Credentials(ssm, o))

\* "Put creates or replaces an operator-added directory" and the ticker
\* "keeps them current": an edit reaches the client that is in use.
EditsTakeEffect ==
    <>[](\A d \in SourcesFrom(ssm) \ GitDirs : held[d] = Source(ssm, d))
===============================================================================
