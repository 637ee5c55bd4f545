------------------------------- MODULE Sessions -------------------------------
(***************************************************************************)
(* Who is let into the panel: the effective settings a request finds in    *)
(* its isolate, the router that compares its path with them, the password  *)
(* of a login and the signed token of everything else.                     *)
(*                                                                         *)
(*   src/auth.ts        tokens, verifyPanelPassword, requireAuth           *)
(*   src/settings.ts    getEffectiveSettings and the envless fallback      *)
(*   src/index.ts       route, up to the panel's page and API              *)
(*   src/panel/api.ts   login, logout, and what needs a session            *)
(*   src/db/store.ts    ensureSchema, loadSettings and its cache           *)
(*                                                                         *)
(* No session is stored: a token carries its expiry, signed with a secret  *)
(* made of the password hash and the panel path, so that a change of       *)
(* either ends it - as soon as the isolate that is asked knows.  Here the  *)
(* settings row is what its writes make of it (SettingsStore has them step *)
(* by step), and the throttle of the login is a gate that may be shut      *)
(* (LoginThrottle).                                                        *)
(***************************************************************************)
EXTENDS Naturals, FiniteSets

CONSTANTS
    Isolates,     \* V8 isolates running the worker
    Clients,      \* browsers, each with a cookie jar and one request
    NoIso,
    Paths,        \* what panelPath can be
    DefaultPath,  \* DEFAULTS.panelPath
    CacheTtl,     \* DEFAULTS.cacheTtlMs in ticks
    SessionTtl,   \* DEFAULTS.sessionTtlMs in ticks
    MaxReply,     \* D1 answers a statement, or fails it, in so many ticks
    MaxChanges    \* bound: writes of the settings row

ASSUME SessionsAssumption ==
    /\ NoIso \notin Isolates
    /\ DefaultPath \in Paths
    /\ CacheTtl \in Nat \ {0}
    /\ SessionTtl \in Nat /\ MaxReply \in Nat /\ MaxChanges \in Nat

VARIABLES
    row,      \* the settings in D1, as far as the door is concerned
    changes,  \* how often the row was written
    halves,   \* password changes between their two writes
    schema,   \* per isolate: schemaPromise
    cache,    \* per isolate: the entry under SETTINGS_KEY
    req,      \* per client: its request
    jar,      \* per client: its gz_session cookie
    since     \* history: ticks since a blob was that of the row

vars == <<row, changes, halves, schema, cache, req, jar, since>>

-----------------------------------------------------------------------------
(* Password hashes are numbered: a change salts the new one afresh, so it  *)
(* is equal to none before.  Hash 0 is the one of the envless settings.    *)
Hashes == 0 .. MaxChanges + 1

(* fits: passwordSalt and pwIterations are those of passwordHash.  Between *)
(* the two writes of a password change they are not (SettingsStore).       *)
Blob == [path : Paths, hash : Hashes, fits : BOOLEAN]

(* envlessSettings: the default path and the default password.  *)
Envless == [path |-> DefaultPath, hash |-> 0, fits |-> TRUE]

(* sessionSecret.  *)
Secret(b) == [path |-> b.path, hash |-> b.hash]

Secrets == [path : Paths, hash : Hashes]

(* A token of a secret, and how many ticks ago it was made.  *)
Token == [secret : Secrets, age : 0 .. SessionTtl + 1]

(* No cookie, or one that the checks of its form refuse.  *)
NoToken == [secret |-> Secret(Envless), age |-> SessionTtl + 1]

(* The password that makes a hash: the default one (of the first boot)     *)
(* makes the envless hash as well.                                         *)
PasswordOf(h) == IF h = 0 THEN 1 ELSE h

Passwords == Hashes \ {0}

NoEntry == [kept |-> FALSE, age |-> 0, blob |-> Envless]

(* copy: the effective settings; wait: ticks since the D1 call it is in.   *)
(* Every request takes the same way to its settings: its path, its method  *)
(* and the password of a login are looked at afterwards, and named there.  *)
Idle == [phase |-> "idle", iso |-> NoIso, copy |-> Envless, wait |-> 0]

Request == [phase : {"idle", "schema", "row", "admin", "envless", "gate",
                     "result"},
            iso : Isolates \cup {NoIso}, copy : Blob, wait : 0 .. MaxReply]

(* How late the door can be about a change of the settings: a SELECT that  *)
(* was slow, a copy in the cache until its last tick, and the D1 calls a   *)
(* request makes between its settings and its check (getAdminUser, and the *)
(* throttle's SELECT of a login).                                          *)
Window(kind) ==
    CacheTtl + IF kind = "login" THEN 3 * MaxReply ELSE 2 * MaxReply

LongAgo == CacheTtl + 3 * MaxReply + 1

TypeOK ==
    /\ row \in [path : Paths, hash : Passwords, fits : BOOLEAN]
    /\ changes \in 0 .. MaxChanges
    /\ halves \in Nat
    /\ schema \in [Isolates -> {"none", "pending", "ready"}]
    /\ cache \in [Isolates -> [kept : BOOLEAN, age : 0 .. CacheTtl, blob : Blob]]
    /\ req \in [Clients -> Request]
    /\ jar \in [Clients -> Token]
    /\ since \in [Blob -> 0 .. LongAgo]

Init ==
    /\ row = [path |-> DefaultPath, hash |-> 1, fits |-> TRUE]
    /\ changes = 0
    /\ halves = 0
    /\ schema = [i \in Isolates |-> "none"]
    /\ cache = [i \in Isolates |-> NoEntry]
    /\ req = [c \in Clients |-> Idle]
    /\ jar = [c \in Clients |-> NoToken]
    /\ since = [b \in Blob |-> IF b = row THEN 0 ELSE LongAgo]

settingsVars == <<row, changes, halves, since>>
isolateVars  == <<schema, cache>>

-----------------------------------------------------------------------------
(* A request comes to an isolate.  ensureSchema joins the promise there    *)
(* is, or makes one.                                                       *)
Arrive(c, i) ==
    /\ req[c].phase = "idle"
    /\ req' = [req EXCEPT ![c] = [Idle EXCEPT !.phase = "schema", !.iso = i]]
    /\ schema' = [schema EXCEPT ![i] = IF @ = "none" THEN "pending" ELSE @]
    /\ UNCHANGED <<settingsVars, cache, jar>>

SchemaReady(i) ==
    /\ schema[i] = "pending"
    /\ schema' = [schema EXCEPT ![i] = "ready"]
    /\ UNCHANGED <<settingsVars, cache, req, jar>>

(* Mutant: the promise that failed is kept.  *)
SchemaFailsForGood(i) ==
    /\ schema[i] = "pending"
    /\ req' = [c \in Clients |->
                 IF req[c].iso = i /\ req[c].phase = "schema"
                 THEN [req[c] EXCEPT !.phase = "envless"] ELSE req[c]]
    /\ UNCHANGED <<settingsVars, isolateVars, jar>>

(* The promise is rejected for every request that waits for it, and the    *)
(* next one makes another.                                                 *)
SchemaFails(i) ==
    /\ schema[i] = "pending"
    /\ schema' = [schema EXCEPT ![i] = "none"]
    /\ req' = [c \in Clients |->
                 IF req[c].iso = i /\ req[c].phase = "schema"
                 THEN [req[c] EXCEPT !.phase = "envless"] ELSE req[c]]
    /\ UNCHANGED <<settingsVars, cache, jar>>

Young(i) == cache[i].kept /\ cache[i].age < CacheTtl

(* Mutant: an entry serves for as long as it is there.  *)
HitForever(i) == cache[i].kept

(* cached(SETTINGS_KEY).  *)
Hit(i) == Young(i)

(* loadSettings: the cached copy, or a SELECT of the row.  *)
Lookup(c) ==
    LET i == req[c].iso IN
    /\ req[c].phase = "schema" /\ schema[i] = "ready"
    /\ req' = [req EXCEPT ![c].phase = IF Hit(i) THEN "admin" ELSE "row",
                          ![c].copy = IF Hit(i) THEN cache[i].blob ELSE row]
    /\ UNCHANGED <<settingsVars, isolateVars, jar>>

(* The reply of the SELECT: putCache under the time of the reply.  *)
LoadReply(c) ==
    /\ req[c].phase = "row"
    /\ cache' = [cache EXCEPT ![req[c].iso] =
                   [kept |-> TRUE, age |-> 0, blob |-> req[c].copy]]
    /\ req' = [req EXCEPT ![c].phase = "admin", ![c].wait = 0]
    /\ UNCHANGED <<settingsVars, schema, jar>>

(* Every other route needs the settings as well (subscriptions, proxy      *)
(* connections) and fills the same cache, with a row SELECTed up to        *)
(* MaxReply ago.                                                           *)
OtherReply(i, blob) ==
    /\ schema[i] = "ready"
    /\ since[blob] <= MaxReply
    /\ cache' = [cache EXCEPT ![i] = [kept |-> TRUE, age |-> 0, blob |-> blob]]
    /\ UNCHANGED <<settingsVars, schema, req, jar>>

(* The SELECT, or the one of getAdminUser, fails: envless settings.  *)
LoadFails(c) ==
    /\ req[c].phase \in {"row", "admin"}
    /\ req' = [req EXCEPT ![c].phase = "envless", ![c].copy = Envless,
                          ![c].wait = 0]
    /\ UNCHANGED <<settingsVars, isolateVars, jar>>

-----------------------------------------------------------------------------
(* Mutant: a token is too old in the tick it expires.  *)
LiveBefore(t) == t.age < SessionTtl

(* Number(exp) < Date.now() is false.  *)
Live(t) == t.age <= SessionTtl

(* Mutant: the secret is made of the password hash alone.  *)
AcceptsAnyPath(b, t) == Live(t) /\ t.secret.hash = b.hash

(* verifySessionToken.  *)
Accepts(b, t) == Live(t) /\ t.secret = Secret(b)

(* verifyPanelPassword.  *)
Fits(b, password) == b.fits /\ password = PasswordOf(b.hash)

HasSettings(c) == req[c].phase \in {"admin", "envless"}

(* What the router and the API answer to a request for a path under the    *)
(* panel's, once getEffectiveSettings returned: public is the page or its  *)
(* /status, api what needs a session.                                      *)
Answer(c, kind, path) ==
    CASE path # req[c].copy.path -> "landing"
      [] /\ path = req[c].copy.path /\ kind = "api"
         /\ ~Accepts(req[c].copy, jar[c]) -> "unauthorized"
      [] OTHER -> kind

(* Everything but a login ends here.  A logout clears the cookie and       *)
(* nothing else: its token stays good.                                     *)
Dispatch(c, kind, path) ==
    /\ HasSettings(c) /\ Answer(c, kind, path) # "login"
    /\ req' = [req EXCEPT ![c] = Idle]
    /\ jar' = [jar EXCEPT ![c] = IF Answer(c, kind, path) = "logout" THEN NoToken
                                 ELSE @]
    /\ UNCHANGED <<settingsVars, isolateVars>>

(* POST login: checkLoginGate asks D1.  *)
DispatchLogin(c, path) ==
    /\ HasSettings(c) /\ Answer(c, "login", path) = "login"
    /\ req' = [req EXCEPT ![c].phase = "gate", ![c].wait = 0]
    /\ UNCHANGED <<settingsVars, isolateVars, jar>>

(* The gate is open: the right password goes on to the throttle's DELETE.  *)
Verify(c, password) ==
    /\ req[c].phase = "gate"
    /\ req' = [req EXCEPT ![c] = IF Fits(req[c].copy, password)
                                 THEN [req[c] EXCEPT !.phase = "result", !.wait = 0]
                                 ELSE Idle]
    /\ UNCHANGED <<settingsVars, isolateVars, jar>>

(* makeSessionToken, of the settings the request began with.  *)
Sign(c) ==
    /\ req[c].phase = "result"
    /\ jar' = [jar EXCEPT ![c] = [secret |-> Secret(req[c].copy), age |-> 0]]
    /\ req' = [req EXCEPT ![c] = Idle]
    /\ UNCHANGED <<settingsVars, isolateVars>>

(* 429 from the gate, or 500 when D1 fails a statement of the throttle.  *)
LoginEnds(c) ==
    /\ req[c].phase \in {"gate", "result"}
    /\ req' = [req EXCEPT ![c] = Idle]
    /\ UNCHANGED <<settingsVars, isolateVars, jar>>

-----------------------------------------------------------------------------
(* A write of the row.  The isolate that made it drops its copy, if it     *)
(* hears of it; the other isolates do not.                                 *)
WriteRow(i, blob) ==
    /\ changes < MaxChanges
    /\ changes' = changes + 1
    /\ row' = blob
    /\ since' = [since EXCEPT ![blob] = 0]
    /\ \/ cache' = [cache EXCEPT ![i] = NoEntry]
       \/ UNCHANGED cache
    /\ UNCHANGED <<schema, req, jar>>

(* POST settings: another path, or a new password and with it a new salt.  *)
(* What else it may change does not matter here.                           *)
Save(i, path, salted) ==
    /\ path # row.path \/ salted
    /\ WriteRow(i, [row EXCEPT !.path = path, !.fits = @ /\ ~salted])
    /\ halves' = IF salted THEN halves + 1 ELSE halves

(* The second write of a password change.  It stores the blob of the first *)
(* one whole, its path too, whatever the row has become, and hashes with   *)
(* the iterations its request knows, which are the row's or those of the   *)
(* fallback settings (SettingsStore).                                      *)
SaveHash(i, path, fits) ==
    /\ halves > 0
    /\ WriteRow(i, [path |-> path, hash |-> row.hash + 1, fits |-> fits])
    /\ halves' = halves - 1

-----------------------------------------------------------------------------
(* The runtime drops an isolate: its variables and requests are gone.  *)
Evict(i) ==
    /\ schema' = [schema EXCEPT ![i] = "none"]
    /\ cache' = [cache EXCEPT ![i] = NoEntry]
    /\ req' = [c \in Clients |-> IF req[c].iso = i THEN Idle ELSE req[c]]
    /\ UNCHANGED <<settingsVars, jar>>

Aged(n, most) == IF n < most THEN n + 1 ELSE n

InD1(q) == q.phase \in {"row", "admin", "gate"}

AgedToken(t) == [t EXCEPT !.age = Aged(@, SessionTtl + 1)]

Tick ==
    /\ \A c \in Clients : InD1(req[c]) => req[c].wait < MaxReply
    /\ cache' = [i \in Isolates |->
                   [cache[i] EXCEPT !.age = IF cache[i].kept THEN Aged(@, CacheTtl)
                                                             ELSE @]]
    /\ req' = [c \in Clients |->
                 [req[c] EXCEPT !.wait = IF InD1(req[c]) THEN @ + 1 ELSE @]]
    /\ jar' = [c \in Clients |-> AgedToken(jar[c])]
    /\ since' = [b \in Blob |-> IF b = row THEN 0 ELSE Aged(since[b], LongAgo)]
    /\ UNCHANGED <<row, changes, halves, schema>>

-----------------------------------------------------------------------------
Serving(c) ==
    \/ Lookup(c) \/ LoadReply(c) \/ LoadFails(c)
    \/ \E path \in Paths :
         \/ \E kind \in {"public", "logout", "api"} : Dispatch(c, kind, path)
         \/ DispatchLogin(c, path)
    \/ \E password \in Passwords : Verify(c, password)
    \/ Sign(c) \/ LoginEnds(c)

Next ==
    \/ \E c \in Clients : (\E i \in Isolates : Arrive(c, i)) \/ Serving(c)
    \/ \E i \in Isolates :
         \/ SchemaReady(i) \/ SchemaFails(i) \/ Evict(i)
         \/ \E blob \in Blob : OtherReply(i, blob)
         \/ \E path \in Paths :
              \E b \in BOOLEAN : Save(i, path, b) \/ SaveHash(i, path, b)
    \/ Tick

Spec == Init /\ [][Next]_vars

-----------------------------------------------------------------------------
(* What the row was no longer than a Window ago, and what it is.  *)
Lately(kind) == {b \in Blob : since[b] <= Window(kind)}

(***************************************************************************)
(* A session ends when the password or the panel path changes (auth.ts:18, *)
(* settings cached in store.ts:95-125): whatever isolate is asked, however *)
(* late its SELECT was answered and whatever writes ran in between, a call *)
(* is served only on an unexpired token whose secret was that of the row   *)
(* no longer than a Window ago.  A token made from the fallback settings   *)
(* (settings.ts:41-75) serves on them alone, and no other does there.      *)
(***************************************************************************)
SessionsEnd ==
    \A c \in Clients :
        HasSettings(c) /\ Answer(c, "api", req[c].copy.path) = "api" =>
            /\ jar[c].age <= SessionTtl
            /\ IF req[c].phase = "envless" THEN jar[c].secret = Secret(Envless)
               ELSE \E b \in Lately("api") : jar[c].secret = Secret(b)

(***************************************************************************)
(* Nobody is turned away for longer than that either: while D1 answers,    *)
(* the stored path leads to the landing page, and an unexpired token of    *)
(* the row's secret is refused, only if the row was another no longer than *)
(* a Window ago.                                                           *)
(***************************************************************************)
TurnedAwayBriefly ==
    \A c \in Clients :
        /\ req[c].phase = "admin"
        /\ \/ Answer(c, "public", row.path) = "landing"
           \/ /\ jar[c].age <= SessionTtl /\ jar[c].secret = Secret(row)
              /\ Answer(c, "api", row.path) # "api"
        => \E b \in Lately("api") : b # row

(***************************************************************************)
(* An old password opens the panel no longer than a Window after the       *)
(* change, the new one is wrong no longer either, and after writes that    *)
(* leave a hash nobody fits, as the first of a change does for a while, no *)
(* password does for longer than that (api.ts:143-166, auth.ts:22-25).     *)
(***************************************************************************)
PasswordsTimely ==
    \A c \in Clients, password \in Passwords :
        LET taken == Fits(req[c].copy, password) IN
        req[c].phase = "gate" /\ req[c].copy.hash # 0 =>
            /\ taken => \E b \in Lately("login") : Fits(b, password)
            /\ ~taken => \E b \in Lately("login") : ~Fits(b, password)

(***************************************************************************)
(* Whoever has the path and the password gets in: once the settings stay   *)
(* as they are, and their hash fits, a client who keeps logging in         *)
(* holds a token of theirs again and again, although an isolate may start  *)
(* with an old copy, a failed schema promise or an eviction (store.ts:72). *)
(***************************************************************************)
GetsIn ==
    \A c \in Clients : []<>(Accepts(row, jar[c]) \/ ~row.fits)

-----------------------------------------------------------------------------
(***************************************************************************)
(* Fairness: the runtime and time go on; a client tries again and again,   *)
(* and the tries with the right path and password are not unlucky every    *)
(* time: D1 does not fail, the gate is not shut and the isolate not        *)
(* evicted at each of them.                                                *)
(***************************************************************************)
RightPassword(c) ==
    \E password \in Passwords : Fits(row, password) /\ Verify(c, password)

Fairness ==
    /\ WF_vars(Tick)
    /\ \A i \in Isolates : SF_vars(SchemaReady(i))
    /\ \A c \in Clients :
         /\ WF_vars((\E i \in Isolates : Arrive(c, i)) \/ Serving(c))
         /\ SF_vars(Lookup(c)) /\ SF_vars(LoadReply(c))
         /\ SF_vars(req[c].phase = "admin" /\ DispatchLogin(c, row.path))
         /\ SF_vars(req[c].copy.hash # 0 /\ RightPassword(c))
         /\ SF_vars(req[c].copy.hash # 0 /\ Sign(c))

FairSpec == Spec /\ Fairness
=============================================================================
