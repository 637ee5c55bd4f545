# A verification project for gozargah

gozargah is a Cloudflare Worker: one `fetch` handler that is a VLESS/Trojan proxy over
WebSocket, a subscription server and an administration panel, with its users, settings and
login counters in a D1 database. The worker runs in many V8 isolates at once; an isolate keeps
caches and counters in module variables, loses them without notice when the runtime drops it,
and talks to the one database by statements that take time, may fail, and may run although
their reply is lost. Nearly everything that is hard about this program lies there, and that is
what the modules in this directory model.

Line references are to the repository (`src/db/users.ts` is the file of that name under its
root). `PROJECT.json` maps every definition to the lines it stands for.

## 1. Inventory

| component | state | operations | hard behaviour |
|---|---|---|---|
| Users and usage accounting (`src/db/users.ts`, `src/handlers/websocket.ts:103-177`, `src/index.ts:89-125`) | the `users` table in D1; per isolate `listCache`, `pendingUsage`, `lastFlush`; per connection its user and counters | list through the cache, admit or refuse, lazy maintenance (first-use stamp, rolling reset), queue and flush usage, create, patch, delete | admission on old copies; flushes in flight while connections close; maintenance decided on a copy and applied to whatever the row is by then; eviction |
| Settings (`src/db/store.ts:69-158`, `src/settings.ts`, `src/panel/api.ts:107-171`) | one row of `kv_store` with a `rev`; per isolate a cache entry with a time and the promise of `ensureSchema` | `loadSettings`, `bootstrapSettings`, `saveSettings` (three tries), `POST settings`, which writes twice when it changes the password; without an answer of D1 the envless settings | write races, a password change cut off half-way, late reads refilling a cache that was just invalidated, a schema promise everybody joins |
| Login throttle (`src/db/store.ts:184-210`, `src/auth.ts:70-110`) | one row per address in `auth_throttle`; without D1 a map in the isolate | gate, record a failure (a read, then a write), clear | requests side by side between gate and record, failures written late |
| Sessions (`src/auth.ts:12-71`, `src/index.ts:70-88`, `src/panel/api.ts:52-93`) | none on the server: a token signed under a secret derived from settings; in the browser a cookie | route by path, log in, sign, verify, log out | settings differ between isolates for a TTL, and more while D1 is slow; the fallback settings have a secret of their own |
| Protocol headers and pipes (`src/protocols/*`, `src/handlers/websocket.ts:34-101,129-223`) | per connection a growing buffer, two counters, two pipes | parse VLESS or Trojan; wait for more, or give up; forward both ways; close everything and queue the usage | a header split anywhere; "short" told apart from "wrong" by an error text; either side ending or breaking first |
| Outbound dial (`src/handlers/proxy.ts`) | none | try the direct address, then the fallbacks, each with a timeout | a socket that opens after its timeout |
| Event log (`src/db/store.ts:160-182`) | table `events` | insert, then trim to 50, in two statements | trims beside other inserts, failed trims |
| Subscriptions (`src/subscription.ts`, `src/sub/operators.ts`, `src/index.ts:89-131`, `src/panel/api.ts:230-265`) | none of their own: they read `listCache`; outside, what clients have imported | give out links, answer polls in four formats or with a page, rotate credentials | a token is made of the uuid, so a rotation ends links as well as connections, isolate by isolate; names that must agree across a generated profile; User-Agents that fit several tests |
| Request router (`src/index.ts`) | none | one route after another: static files, panel, subscription, landing page | an earlier route hides a later one |
| Panel page (`src/panel/script.ts`, `page.ts`) | in the browser: view, tab, form, dialog, disabled buttons, calls in flight | status, login, load, save, add, edit and the rest through `api()`; a redirect after a save that moves the panel | a 200 without JSON passes for success; answers come late, in any order, to a page that has moved on; creating again after an error |
| Other pages (`src/panel/userpage.ts`, `landing.ts`, `styles.ts`, `ui.ts`, `i18n.ts`) | none | rendering | none |
| Utilities (`src/utils/*`) | none | hashes, QR, log | none |

How they interact:

    WebSocket ──> header reader ──> listUsers (cache) ──> isUserAllowed ──> dial
                                        │                      │
                                        │                lazyMaintenance ──> D1 users
                                        │                                      ^  ^
    close ──> queueUsage ──> maybeFlushUsage ──> flushUsage ── db.batch ───────┘  │
    GET /sub ──> listUsers ──> lazyMaintenance ───────────────────────────────────┤
    panel ──> createUser / updateUser / deleteUser ──> invalidateUsers ───────────┘
    every request ──> getEffectiveSettings ──> settings cache / loadSettings / bootstrap ──> D1 kv_store
    panel login ──> checkLoginGate ──> verify ──> onLoginResult ──> D1 auth_throttle
    panel settings ──> saveSettings (once, or twice with a password) ──> D1 kv_store
    every panel call ──> addEvent ──> D1 events (insert, trim)
    browser: api() ──> route by path ──> requireAuth (cookie against settings) ──> panel, or landing page

What makes each correct, and which property says so, is under section 3. `PROJECT.json`
"hazards" lists, line by line, what tests of this code would hardly reach.

## 2. Modules

| module | what it is |
|---|---|
| `UserRules` | the pure rules of `users.ts` on one row: effective expiry, quota, reset due, verdict, columns of a maintenance UPDATE, effect of a PATCH |
| `Accounting` | the worker's accounting core on top of `UserRules` |
| `Ledger` | abstract: what became of each connection's traffic |
| `AccountingProofs`, `LedgerProofs` | theorems on `Accounting`, and that it implements `Ledger` |
| `SettingsStore` | settings row, caches, first boot, saves, password change |
| `SettingsRegister` | abstract: what saving the settings promises |
| `SettingsProofs` | theorems on `SettingsStore`, and that it implements `SettingsRegister` |
| `LoginThrottle` | `POST login` of one address: gate, failures in D1 or in the isolate's map, and the event ring its requests write to |
| `ThrottleProofs` | its theorems |
| `Sessions` | who is let into the panel: settings of an isolate (cached, late, or the fallback), route, password, token |
| `SessionProofs` | its theorems |
| `PanelClient` | the panel's page in a browser and its calls |
| `PanelProofs` | its theorems |
| `WireHeader` | pure: what the two parsers make of the first n bytes of a client's stream |
| `Connection` | one `pumpProxy` on top of it: header loop, verdict, dial, pipes, end |
| `ConnectionProofs` | theorems on both, and that `Connection` implements `Ledger` for its own traffic |
| `Profile` | pure: the four formats as the outbounds a client sees and what it sends to them, operator presets, choice of the format |
| `Subscription` | one user's credentials through rotation, cached lists, links, polls and connections, on top of `Profile` |
| `SubscriptionProofs` | theorems on both |
| `MC...` | values of the constants for TLC |

### Conventions of all modules

* A D1 statement is a step of its own. Code between two awaits of one isolate runs in one step,
  as JavaScript does. Where an await separates a read from a write, the model has two steps.
* Every statement can fail, and every write can run and have its reply lost (the code after the
  await then does not run: no invalidation, no second statement).
* `Evict` drops an isolate: its module variables and its sockets vanish, statements already sent
  do not.
* Variables marked *history* in the source exist for properties only, and no guard reads them.
* Operators marked *Mutant* are never part of a specification: each is a plausible mistake in the
  definition that follows it, which the property it is listed with in `PROJECT.json` finds.

### `Accounting` and the code

| model | code |
|---|---|
| `row` | table `users`; `used` is `used_up + used_down`, as the set of connections whose bytes were added |
| `listCache[i]` | `listCache`, users.ts:57; `at` is the time of the call, as in the code |
| `barredSince`, `stampedSince`, `windowSince` | history: since when the row of a user has barred it (deleted, disabled, out of quota or, as time passes, expired), had `first_used_at`, and had the reset anchor it has |
| `pending[i]`, `lastFlush[i]` | `pendingUsage`, `lastFlush`, users.ts:230-236 |
| `conn[c]` | one run of `pumpProxy`; `seen` is its copy of the row, `start` the time of its lookup |
| `batch[c]` | `db.batch` of a `flushUsage`, awaiting its reply |
| `job[r]` | the UPDATE of a `lazyMaintenance`, awaiting its reply |
| `Resolve`, `Refuse`, `Admit` | websocket.ts:88-109: lookup and verdict |
| `Dial` | websocket.ts:110-126, after the await of `getResetCycle`: `lazyMaintenance` starts with the cycle or, if the settings could not be read, with `'none'`, and the dial begins |
| `Dialed`, `DialFailed` | the outcome of `dialWithFallback` |
| `Close` | websocket.ts:169-177 with `queueUsage`, `maybeFlushUsage`, `flushUsage` up to its await |
| `BatchCommit`, `BatchFail` | the batch runs as one transaction (reply or none), or fails and the `catch` does nothing |
| `SubRead` | the subscription route, index.ts:89-125; its cycle is that of the settings, or `'none'` of the fallback |
| `MaintenanceLands`, `MaintenanceFails` | the UPDATE of users.ts:148-151 |
| `CreateUser`, `DeleteUser`, `PatchUser` | the functions of these names with their `invalidateUsers` |
| `ReadList` | any request that only lists users |

Abstractions. A connection carries one lump of traffic, and thresholds and quotas are in lumps:
what the properties tell apart is which connection's bytes went where, and a sum of sets loses
nothing of that. `listUsers` runs its SELECT and remembers it in one step, under the time of the
call: in the code the promise is remembered before its SELECT has run, so what a list says is
never older than in the model, and a SELECT that fails (users.ts:65) only drops a copy or refuses
requests, which other steps do as well. The reset cycle, a setting, is a constant that a request
has or has not (`Cycles`). A usage reset
by PATCH has no effect: the two clauses it adds bind no value but do advance the numbering of the placeholders (users.ts:206-216),
D1 takes a statement only if its highest placeholder is the number of values, and the request
fails before it changes anything (`Binds` in `UserRules`).

### `SettingsStore` and the code

| model | code |
|---|---|
| `stored` | the `settings` row: `rev` and blob. Of a password the blob keeps which password the hash was made of, whether with the salt beside it (`salted`), in how many iterations (`rounds`), the `pwIterations` it names (`iters`), and the `__newPw` of a change in progress. `Opens` is whether the password of the hash logs in: salt and iterations both agree |
| `cache[i]` | the entry under `SETTINGS_KEY`, with its age instead of its time |
| `read[i]` | SELECTs of `loadSettings` whose replies have not come; nothing joins two of them |
| `LoadSelect`, `LoadReply`, `LoadFails` | store.ts:114-125 |
| `BootStart`, `BootSettings`, `BootAdmin`, `BootFails` | `bootstrapSettings`, settings.ts:82-113 |
| `SaveStart` | `POST settings`, api.ts:107-109, with a body that names some settings and perhaps a new password, under settings of `EffIterations`: those of the row, of a cached copy, or of the fallback, which `getEffectiveSettings` takes whenever D1 does not answer, be it only for the admin user |
| `SaveSelect`, `SaveWrites`, `SaveConflicts`, `SaveFails` | `saveSettings`, store.ts:127-158; `Mutate` is the callback of its two uses in api.ts:111-164 |
| `Hashed` | api.ts:155-164: the blob of the second write, hashed in the iterations of the settings the request runs under |

Any request that runs beside a password change finds the change's `__newPw` in the row and
finishes the change as if it were its own; the model does the same, because the code looks at
the blob it wrote and not at its own body. With three requests this lets a slow finisher put an
older password over a newer one that was acknowledged (A stores `__newPw` p, B inherits it, A
finishes, C stores and finishes q, B's second write puts p back). And it lets a request lock
everybody out: B hashes p in the iterations of its own settings, 2048 if it runs under the fallback
(settings.ts:68), and stores it beside the `pwIterations` that A has written, 100000, which is what
a login uses. Then no password opens the panel, none waits in the row, and both requests were
answered with success. Of a password that a request brings itself both numbers are its own and
agree (`AckedMeansStored`, `LocksOnlyWhatItFound`). A session under the fallback is one whose cookie
was made under it, with the default password, in a request that D1 did not answer.

`SettingsRegister` is what all this amounts to: the settings are one value and a request changes
it at one point, as of that moment. Its value is the `View` of the stored blob: the settings, the
password that logs in (none while the row does not open) and the one that waits. A boot changes
nothing of it, since the row it inserts says what the built-in defaults say without a row. Of a
request, `CallOf` keeps whether it is asked, half done, acknowledged or failed, and what it made:
SELECTs, conflicts and retries are stutters, and its write is its step. Two things of the code had
to go into the register. A request in whose value a password waits (its own, or one it found there)
has a second step, at which it stores the value it made at the first and not what the settings are
by then: that is the second write that undoes others, and the slow finisher above. And a request
that fails takes its next step at that moment or never, as the reply to its write may be what was
lost.

### `LoginThrottle` and the code

| model | code |
|---|---|
| `bound` | whether `env.GZ_DB` is there |
| `row` | the address in `auth_throttle`, or without D1 in `memThrottle`, auth.ts:110 |
| `Pass`, `Block` | the gate's answer in `POST login`, api.ts:66-70; `AttemptsLeft` is `checkLoginGate` |
| `Wrong`, `Right` | the result of the password check |
| `Decide`; `Open`, `Add` | the SELECT of `recordLoginFailure`; its two possible writes |
| `Remember` | `onLoginResult` without D1, in one step, as nothing in it waits |
| `Clear` | `clearLoginThrottle`, or `memThrottle.delete` |
| `Log`, `Trim` | the two statements of `addEvent`, after each of the three answers |
| `Breaks`, `Evict` | a failed statement; an isolate and its map gone |

The time of a write is the time its function began, so requests carry the age of that time; ages
stop at `Window + 1`, beyond which no comparison changes. The map's window ends a tick before
the table's (`<` against `>`). The ring is counted and not listed: ids only grow
(AUTOINCREMENT), and the trim goes by ids, so that what it leaves are the newest. `written` and
`missed` are history. A failure on its way to the row counts when it arrives: one that is to open
a window leaves a count of one although a success has cleared the row meanwhile, one that is to be
added finds no row (`NeverOverCounts` is about what is written). The other routes write events in the same two statements.

### `Sessions` and the code

| model | code |
|---|---|
| `row` | of the settings row, `panelPath`, the password hash (numbered), and whether the salt beside it is its own |
| `schema[i]` | `schemaPromise`, store.ts:69: none, pending, or done; requests wait on it together |
| `cache[i]` | the entry under `SETTINGS_KEY`, with its age |
| `req[c]` | a request between its awaits: schema, the SELECT of the settings, `getAdminUser`, the gate's SELECT, the result's DELETE; `copy` is its `eff`, `wait` how long D1 takes |
| `jar[c]` | the browser's cookie: the secret its token was signed with, and its age |
| `Lookup`, `LoadReply`, `LoadFails`, `OtherReply` | `loadSettings` for this request and for others that fill the same cache; the `catch` of settings.ts:41 |
| `Dispatch`, `DispatchLogin` | `route` by path, then `handlePanelApi` |
| `Verify`, `Sign`, `LoginEnds` | `POST login` past its gate |
| `Save`, `SaveHash` | the two writes of `POST settings` as far as they matter here; `halves` counts the changes that are between them |

Every request takes the same way to its settings, so its path and its password are named only
where they are compared. The settings row is what its writes make of it; their races are those
of `SettingsStore`, and `SaveHash` may put back any earlier path and leave a hash that does not fit,
as that module shows it can.
The gate of a login is open or not (`LoginThrottle`). A SELECT takes up to `MaxReply` ticks and
then has failed: the code has no such bound, but the platform ends requests, and without one
nothing could be said of how late a check is. `Window` is what that adds up to: a slow SELECT, a
TTL in the cache, and the awaits between the settings and the check. Logging out clears the
cookie and nothing else; a token that was copied stays good, and no property denies it.

### `PanelClient` and the code

| model | code |
|---|---|
| `row`, `copies` | the settings as stored, and what isolates may still serve |
| `ui` | the page: its address, view, tab, form, `S.settings.panelPath`, disabled buttons, the announced redirect, the dialog |
| `calls` | calls of `api()` in flight, each with the answer once there is one |
| `AnswerRefused`, `AnswerLoad`, `AnswerSave`, `AnswerAdd` | the server's side: the landing page under another path, 401, an error, or what the route does - whose answer may be lost all the same |
| `Status`, `Me`, `Login`, `Logout`, `Other` | calls answered and heard of in one step, as nothing that matters can come between |
| `TakeLoad`, `TakeSave`, `TakeAdd` | the `then` and `catch` of `loadSettings`, `saveSettings`, the dialog |
| `PressSave`, `PressAdd`, ... | what the admin does, through buttons that are shown and on |
| `Elsewhere` | another browser saves a form that was filled |
| `Open`, `Leave`, `Retry`, `Reopen` | the address is loaded: first, by the redirect, by the setup view's button, by hand |

`Good` is the heart of it: `api()` takes every 200 for a success, and the landing page, which
answers every path that is no other route's, is a 200 without JSON. A form is the panel path and
the rest, of which a blank one is stored as the built-in default. Names are compared as they are
typed and stored in lower case.

### `Connection` and the code

A stream is the record of its header's fields, and a parser sees how many of its bytes have
come. `Parse` has four answers: wait, an error, a target, and the empty host that a VLESS
header yields when it is cut just before the length of its domain (`chunk[i]` is `undefined`,
the comparison with `NaN` is false, `slice(NaN)` is the whole buffer).

| model | code |
|---|---|
| `have`, `limit` | bytes of the stream read so far, and bytes its client sends before it leaves |
| `ReadFrame`, `EndOfInput`, `TooManyFrames` | the header loop, websocket.ts:86-95, over `wsReadable` |
| `RefuseHeader`, `RefuseUdp`, `RefuseUser` | its errors and the early returns |
| `Accept`, `DialOpens`, `DialFails` | `dialWithFallback`, one candidate after another |
| `SendLeftover`, `Forward`, `UpFinishes`, `UpBreaks` | `upPipe`: `pull`, the end of its input, `cancel` and `catch`; an empty frame resolves a `pull` without a chunk, and the stream need not pull again (`stalled`) |
| `Deliver`, `DownEnds` | `downPipe` |
| `Settle` | websocket.ts:169-177, up to `queueUsage` |

Frames are cut when they are read, which nobody can tell from cuts made before. Lookup and
verdict, which `Accounting` has in detail, are one step. The list of fallbacks is fixed while a
connection lasts and has no blank entries; a connection to an empty host never opens. That
`server.send` throws on a closed WebSocket is a `DownEnds`. Usage is queued only for users with
an id; `Settle` stands for the point where it is.

### `Profile`, `Subscription` and the code

A profile is what a client makes of the generated text: its outbounds, each with its tag, whose
credentials it has, its fingerprint, ECH and what it is dialed through; the names its traffic is
sent to; the names that are measured. A tag is a base and the operator's name that may follow
it. Credentials are numbered by the rotations before them; a uuid, its trojan password and its
token are one number.

| model | code |
|---|---|
| `creds` | the user's `uuid` and `trojan_pass` in D1 |
| `listCache[i]` | `listCache`, users.ts:51; its time and what the row said |
| `url`, `profile` | in the client: its subscription link, and what it imported last |
| `answer` | the last response: its kind, the credentials it was about, the request, the time |
| `Links` | `GET users/:id/links`, api.ts:248-265 |
| `Serve`, `UnknownToken` | the subscription route, index.ts:89-131, the token found or not |
| `Connect` | `getUserByUuid` or `findUserByTrojanHash` on the credentials of an outbound in use |
| `Rotate` | `PATCH users/:id` with `rotateCredentials`, its UPDATE and `invalidateUsers`, or the reply lost before that |
| `ListFails` | the SELECT of `listUsers` fails: the `catch` of the router answers a poll with the landing page (index.ts:30-39), a connection is closed, the panel gets an error - for current credentials as for others |
| `PathUnknown` | a poll routed by settings with another `subPath`: the landing page |

The words of a User-Agent are five classes, by which of the two tests in subscription.ts:324-343
know them. A connection's verdict on quota and expiry, which a poll
does not take, and lazy maintenance are in `Accounting`. The SELECT of `listUsers` and its result
are one step. A client imports what it polls unless it gets a page, and keeps what it has when its token is unknown.
The routes never pass a port, so it is 443. An `ech` parameter without a value, as in the base64
links (subscription.ts:46), turns nothing on. Whether Xray takes `dialerProxy` from the place
where the builder writes it is a matter of Xray; the model takes it as meant. Clash's group lists the servers' names without the quotes that their
definitions have (subscription.ts:97, 133): the model has one name for both, which is true of names
that YAML reads alike, and not of a user called `a: b`.

## 3. What TLC checks

Bounds are named in each `.cfg`; those that are not parameters of the code are `MaxTime` (the
clock stops), the sizes of the sets of connections and requests, one maintenance UPDATE in
flight per slot, `MaxReads` (unanswered SELECTs per isolate).

| run | question | why its bounds are enough |
|---|---|---|
| `accounting_flow` | `CountedOnce`: are the bytes of a closed connection always in exactly one place? `PendingBounded`: does an isolate hold less than one flush between requests? `ImplementsLedger`: does every step move traffic as `Ledger` allows? | two isolates and two users give every pair of placements; the threshold of two lumps makes a close both gather and flush, and a batch carry two users, one of whom may be deleted under way |
| `accounting_time` | `LateAdmission`: does a bar set in D1 reach every admission within a TTL? `LateStamp`: is a first use stamped again only on a lookup made less than a TTL after the stamp? `MaintenanceNeverBars`: does an UPDATE of lazy maintenance, decided on a copy and landing up to a day later, bar nobody whom the row admits? `LateReset`: is a window reset before its time only on a lookup made less than a TTL after it began? `QuotaResetReached`: with somebody polling the subscription, does a user blocked by quota come out of the block once the window has elapsed? | one isolate whose invalidations get lost is as stale as a second one; the clock starts at 3 (`StartTime`), so that a user may have a past, and runs to 4: with a TTL of one tick a copy is taken before a change, used inside the TTL and outlives it. A user is created in the run, or has been there since time 1 with a first-use expiry, or has used its window of two ticks, which is due, and expires at 3; all have a quota that one connection spends, and an edit may lift it and set a date of expiry that has passed. That a user is disabled, or has several connections, is left to the theorems |
| `settings_save` | `HashFits`: does a row on which no password fits still carry the one to be hashed, unless its hash was made in other iterations than it names? `SavesAsAsked`: has an acknowledged request had its way, its own password opening the panel; did it leave everything else as it was, but for the second write of a password change; and does only a password found in the row lock anybody out? `ImplementsRegister`: is every step one of `SettingsRegister`? `CacheConverges`: do the caches come to show what is stored? All over first boot, late reads, two settings requests, each perhaps a password change, and all failures | two requests race for one row, two tries make the second retry reachable, two SELECTs in flight make replies overtake each other; each request runs under the row's settings, the cached ones or the fallback |
| `login_throttle` | `NeverOverCounts`: does the count hold no failure that was written before the last success or window? `FailuresBounded`: how many failures get through before the gate closes? `GateReopens`: does it open again? `RingHolds`: does the event ring keep the newest, and no more than its writers explain? | three requests and three attempts reach the bound of `FailuresBounded` exactly; a ring of two overflows by every way it can; with D1 and without |
| `sessions` | `SessionsEnd`: is a call served only on a token of settings that were current within `Window`? `TurnedAwayBriefly`: is a good token, or the right path, refused no longer? `PasswordsTimely`: does an old password fit, or a new one not, no longer? `GetsIn`: does who has path and password get in, again and again? | one isolate that misses invalidations and gets its cache filled late by others is every isolate; two writes are a password change with its two steps, the second fitting or not, or two changes; two paths, one of them the fallback's; TTL, token life and waits of one tick each reach both sides of every comparison |
| `panel` | `NothingWiped`: is a form that never got its settings never stored over them? `SavedIsTrue`: is "saved" shown falsely only after the panel has moved? `MadeOnce`: does a dialog create a second user only after an error? `ComesToRest`: do calls end and buttons come on again, and is an announced redirect made? | two calls in flight answer in either order, with a third only queued behind; one write of the settings, by this page or another; one dialog; three presses are enough to save, add and log out across each other; a path typed in capitals |
| `connection` | `WaitsForHeaderOnly`: is more read only while the header is incomplete? `ReadsWhatIsThere`: does what is read depend on the cut at two known places only? `PayloadOnce`: is every byte forwarded and counted once? `DialsWell`: one socket at a time, none left over, every address tried? `EndsCounted`: does the end of the remote, or an error of the client that can be read, end the connection and get its bytes counted, whatever the other side does? | thirteen shapes of header: each protocol, address type, option length 0 and more, the shortest and longer ones, and each kind of error; three frames of any length, which cut a header anywhere, with early data of any length before them (the code reads 64); a list of fallbacks with an address twice, from each start |
| `subscription` | `ProfileRoutes`: can what a client imported be used, every name resolved and every server reached? `TunedAsAsked`: is a preset in all of it when asked for and in none of it otherwise? `PageForBrowsers`: does a proxy client never get the page? `AnswersTimely`: are rotated credentials given out and accepted, and new ones refused where a list is looked in, for less than a TTL? `LinkComesToWork`: does a client that imported current credentials get in? | one rotation is between two versions, and another only repeats it with both older; two isolates give one that has seen the rotation and one that has not; TTL 2 and four ticks reach a list before the rotation, its use just inside the TTL and after it; a SELECT may fail at any time, a path be unknown; fourteen requests: all formats, tuned and not, an operator without fragment, `auto`, unknown keys, and User-Agents with words of several classes |

Each of the following runs asks for something a comment or the README promises, and TLC finds
the behaviour of the code that breaks it ("findings" in `PROJECT.json` quotes the lines):

| run | promise | what happens |
|---|---|---|
| `flush_retry` | users.ts:281 "counters stay in memory; next flush retries" | the map was cleared before the await: a failed batch is gone |
| `settings_lockout` | api.ts:153 "password hashing needs async - apply post-write if requested"; on its way also store.ts:6-7 "fixes the JSON-blob write race" and README.md:180, no plaintext password in the database | of two requests, both acknowledged, one runs under the fallback. A's first write leaves the password in plaintext in the row; B's inherits it; A's second write undoes the setting B has just stored; B's second write stores a hash in other iterations than the row names, and nobody can log in |
| `five_attempts` | README.md:182, at most five attempts in fifteen minutes, locked in D1 | two requests pass a gate that is about to close, and one that read no row sets the count back to one: more failures are written in a window than attempts are allowed (`FailuresBounded` has how many) |
| `header_cut` | websocket.ts:85 "early data may carry only a partial header" | a Trojan header cut before the end of its second CRLF is refused, its error does not say "short" |

Without a run of their own, met while modelling:

* A first boot cut off between its two INSERTs leaves settings and no admin row, and every later
  boot returns at settings.ts:87 because there are settings (`BootSettings`, `BootFails`, theorem
  `BootNotMadeUpFor`).
* README.md:224 has ECH as an opt-in of all formats; Xray's configuration has no place for it
  (subscription.ts:223-320), and the base64 links have `ech=` without a value (46). The theorem
  `EchOnlyInClashAndSingBox` says which formats have it.
* users.ts:123-124 has maintenance roll the window "when due", by "one conditional UPDATE". The
  UPDATE is conditional on the id alone (148): two requests decide on copies of one row, and the
  second zeroes usage that was counted after the first reset. `Accounting!ResetsOnlyWhenDue` states
  the promise, and TLC refutes it as a property of `MCAccounting_time.cfg` (a poll decides on a copy
  from before the connection's UPDATE and lands after it). What holds is `LateReset`: such a
  decision is made for less than a TTL.
* store.ts:6-7, in a form of its own: `SettingsStore!EveryWriteKeepsOthers` is refuted with
  `MCSettingsStore_lockout.cfg`; what holds is `FirstWriteKeepsOthers`, a part of `SavesAsAsked`.
* subscription.ts:208 calls the `gzx-*` outbounds probed; the observatory's only selector is
  `gz-`, which is no prefix of theirs. `ProfileRoutes` asks only that what is balanced is probed.
* A poll with a token that a rotation has ended is answered with the landing page, status 200, and
  so is any poll whose SELECT fails (index.ts:33) or that is routed by the fallback's `subPath`.
  What a client does with such a body is its own; in the model it keeps what it has.
* `subscription-userinfo` has `expire=0` for a user whose days run from the first use, because
  it is made of `expiryAt` alone (subscription.ts:386-393).
* A client that only connects is never reset: over quota is refused (websocket.ts:104) before
  maintenance runs, and only a poll of the subscription (`SubRead`) reaches it. `QuotaResetReached`
  assumes polling, and does not hold without.
* A usage reset by the panel fails, every time (`Binds`, users.ts:206-216, above), and with it
  whatever else the same PATCH asked for.
* A PATCH of `expiryAt` alone on a user whose days run from the first use leaves both expiry modes
  set, which api.ts:226 calls mutually exclusive; the first use then wins (`EffectiveExpiry`).
* i18n.ts:165 says that one is redirected to the new address after saving. The path is stored in
  lower case, and the redirect goes to it as typed (script.ts:411): one with capitals leads to the
  landing page, and stays there through every reload (theorem `CapitalsLeadAstray`). One in lower
  case may lead to an isolate that does not know it yet, for which a reload is the remedy. So
  `ComesToRest` asks that the redirect is made, and of where it leads nothing.
* A save that the landing page answers, because the panel has moved meanwhile, is shown as
  "saved"; a load that it answers blanks the form (script.ts:382-390). `SavedIsTrue` says that
  nothing else does, and `NothingWiped` that the server's check of the paths keeps such a form out
  unless a path is typed into it.
* The user dialog shows an expiry as a UTC date and stores the end of that day in local time
  (script.ts:304, 339): west of UTC an edit that changes nothing moves it.
* The panel's chip for a user looks at "not started" before the quota (script.ts:200-208), the
  status page at the quota first.
* A panel path of `healthz` is accepted and hidden by the route before it (index.ts:65).
* Without D1 the throttle is per isolate; `FailuresBounded` is then a bound for one isolate.

Symmetry is used in the runs of `Accounting` that check no liveness. Deadlock is checked in every
run but those of `Connection` and `panel`: a connection does end, and there eviction is left out
and the end is the last state; a page on which nothing is pressed any more does nothing.

### Fairness

`Accounting`: time passes, the subscription of a user is polled again and again (the subscription's
headers set the clients' interval) by a request that has the settings, not every time but now and
then (strong fairness), its UPDATE ends, and one that resets, asked for again and again, lands now
and then (strong fairness: single failures and evictions may happen at any point). Nothing is assumed of connections: no client need come back, none need
close, no batch need commit. Nor is anything assumed of the panel.

`SettingsStore`: replies come or fail, requests that have started end, requests that find no
settings keep coming, time passes. `LoginThrottle`: time passes, and nothing more.
`Subscription`: time passes, and the client keeps connecting, to whichever isolate, until a try is
looked up (weak fairness; tries that D1 fails may come any number of times in between, but not
for ever); nothing makes it poll.

`Sessions`: time passes, requests go on, a client keeps trying with the right path and password,
and these tries are not unlucky every time (strong fairness of the schema promise, the SELECT and
the steps of a login): failures, evictions and a shut gate may come any number of times but do
not come at every single try. Nothing is assumed of who changes the settings.

`PanelClient`: calls end, if only by a failure (weak fairness of the refusal or the answer of some
call, which is enough as calls are bounded), and the redirect's timer fires. Nothing makes the
admin press or reload anything.

`Connection`: the runtime's own steps only. The first pull is made, an error of the WebSocket that
can be read and a socket that is closed are noticed by the pipes, and pipes that are done are gone
on from. Neither the client nor the remote is assumed to send, to answer a close or to end
anything: a remote that keeps its side open after the client has gone, or an up pipe that an empty
frame has stalled, keeps the connection, and the usage it carries, uncounted. `EndsCounted` is what
remains without them.

## 4. What TLAPS proves

For all sets of users, isolates, connections and requests, all thresholds, TTLs and cycles
(the assumptions are the named `ASSUME`s of the modules, which say that the constants have their
types, that `Conns` is finite and the list of fallbacks not empty).

| theorem | statement | argument |
|---|---|---|
| `TypeCorrect` | `Accounting!Spec => []TypeOK` | inductive with one addition: a connection beyond its lookup has a user |
| `CountsOnce` | `=> []CountedOnce` | `CountedOnce` is inductive given the types once the history sets are in it: a close adds a connection that was nowhere, a commit moves a batch that nobody else holds. Disjointness of the places and of the batches is what makes the next move safe |
| `PendingStaysBounded` | `=> []PendingBounded` | what a close leaves in the map has just failed `FlushDue` |
| `BarredWithinTtl` | `=> LateAdmission` | the invariant `CopiesRecent` relates three things: the time of each cached list, of each lookup, and since when D1 has barred the user, or had the stamp; a list newer than that shows it, so a copy that does not is older, and a list is used for less than a TTL. The row is barred by time as well as by writes; that a barred row stays barred while nobody writes it (`StaysBarred`) makes the date of the bar meaningful |
| `StampedWithinTtl` | `=> LateStamp` | the same invariant: maintenance stamps only on a copy without a stamp |
| `ResetWithinTtl` | `=> LateReset` | the same invariant for the reset anchor: a copy at least as new as the window has its anchor, and what is due on the anchor of the row is due (`SameWindow`) |
| `MaintenanceBarsNobody` | `=> MaintenanceNeverBars` | an UPDATE resets usage, which bars nobody, and stamps a first use with the time of its decision, which leaves a day or more of service from then (`DayOrMore`); `JobsTimely` says that no decision lies in the future. The day in the property is exact: TLC finds a stamp that lands later and ends the service of a user the row still admits |
| `AccountingImplementsLedger` | `=> Ledger!Spec` under the mapping `Fate` | one lemma per kind of move; `CountsOnce` makes the cases of `Fate` exclusive |
| `SettingsTypeCorrect` | `SettingsStore!Spec => []TypeOK` | inductive |
| `PasswordRecoverable` | `=> []HashFits` | the invariant `SafeToWrite`: every blob in flight (read by a request, about to be written) is itself recoverable, and a row a request read is what is stored if the revs agree. A hash made in other iterations than the row names is the one case without a remedy, and excepted by name |
| `RevCheckKeepsOthers` | `=> [][FirstWriteKeepsOthers]_vars` | the same invariant: equal revs mean equal rows, so the write applies to the row that is there |
| `AcknowledgedIsStored` | `=> [][AckedMeansStored]_vars` | of a second write nothing in the row says what it will store, so the invariant `KnowsWhatToWrite` adds that a request past its first write holds a value with all it asked for, and one that opens if the password is its own |
| `OnlyFoundPasswordsLock` | `=> [][LocksOnlyWhatItFound]_vars` | the same invariant: only a second write stores a hash, and one that does not open is of a request that brought no password |
| `SavesAreAsAsked` | `=> SavesAsAsked` | all three |
| `SavingImplementsRegister` | `=> SettingsRegister!Spec` under `View` and `CallOf` | every action is a stutter, one step of one request, or a failure; `SafeToWrite` gives the value the register has where the code has the row that was read |
| `BootNotMadeUpFor` | `=> FirstBootIsFinal` | a row is never removed, and a boot begins only where none is |
| `ThrottleTypeCorrect`, `ThrottleNeverOverCounts` | `LoginThrottle!Spec => []TypeOK`, `[](TypeOK /\ NeverOverCounts)` | the count of the row and the history of recorded failures change together, but for a window opened anew, which counts one |
| `RingStaysSmall` | `=> []RingHolds` | every event beyond the ring is one whose writer is about to trim, or whose trim failed |
| `FailuresStayBounded` | `=> []FailuresBounded` | the bound alone is not inductive. `Budget` adds up what was recorded, what the requests past the gate may still record (`Spend`) and what the `k` requests that will open a window anew may set free (`Openings(k)`, quadratic in `k`): each step moves from one account to another, and the sum stays below the bound |
| `SessionProofs!TypeCorrect` | `Sessions!Spec => []TypeOK` | inductive with the isolates of requests |
| `SessionsDoEnd`, `TurnedAwayOnlyBriefly`, `PasswordsAreTimely` | `=> []SessionsEnd`, `[]TurnedAwayBriefly`, `[]PasswordsTimely` | the invariant `CopiesLately` dates every copy: one in the cache was the row its age and a wait ago, one in a request a TTL and its waits ago. The three properties read the sums off |
| `PanelTypeCorrect` | `PanelClient!Spec => []TypeOK` | inductive with the number of a password bounded by the writes, and an add naming its dialog |
| `FormsAreSafe` | `=> []NothingWiped` | whatever a form, a call or a copy of the settings holds was chosen, or has no path and will be refused |
| `SavedMeansSaved` | `=> []SavedIsTrue` | while the panel has not moved, every isolate has its path, and a page under another has no calls |
| `CapitalsLeadAstray` | where the address is no panel path the page is the landing page; a redirect goes to the path as typed | `Astray`: a page at such an address has no calls, no dialog and no redirect, and nothing it does leaves it |
| `SecondOnlyAfterError` | `=> []MadeOnce` | of a dialog without an error there is at most one call, while it is on the screen its button is off from that call on, and it is not shown again |
| `EveryCut`, `EnoughIsEnough` | what `Parse` answers on each prefix of a well-formed header | arithmetic on the offsets, case by case |
| `ConnectionTypeCorrect`, `HeaderWaits`, `HeaderReads` | `Connection!Spec => []TypeOK`, `[]WaitsForHeaderOnly`, `[]ReadsWhatIsThere` | the invariant `Typed` adds that nothing is forwarded before the dial; the other two are `EveryCut` and `EnoughIsEnough` at `have` |
| `PayloadCounted` | `=> []PayloadOnce` | inductive given `Typed` |
| `ConnectionImplementsLedger` | `=> Ledger!Spec` with the one connection as its only debtor | bytes are queued at most once, and only after a socket carried them (`FateStep`) |
| `DialsWellAlways` | `=> []DialsWell` | the plan is the direct address and a rotation; a rotation is a bijection of the positions, so every address occurs as often as in the list; the number of closed sockets is the number of candidates given up |
| `EveryProfile` | for every credentials, options and format, what `renderSub` makes routes and is tuned as asked | format by format; the tags of one profile differ in their base and share their suffix |
| `EchOnlyInClashAndSingBox` | in which formats ECH is on if asked for | the servers of each format |
| `SubscriptionInvariant`, `SubscriptionTypeCorrect` | `Subscription!Spec => []Inv`, `[]TypeOK` | `Inv` adds the dates: versions began in order, and a list made at a time holds the version of that time |
| `RotationTakesEffect` | `=> []AnswersTimely` | an answer given without a list dates nothing, and turns away only; a list is used for less than a TTL, and by its date it holds a version that had not ended when it was made, so not long before |
| `ProfilesSound`, `ProfilesTuned` | `=> [](ProfileRoutes /\ TunedAsAsked)` | what a client has imported is a `renderSub`, and `EveryProfile` |
| `PagesForBrowsersOnly` | `=> []PageForBrowsers` | of the words of a User-Agent that `resolveApp` answers with a page, all tests but the last leave only the browser's |

Liveness (`QuotaResetReached`, `CacheConverges`, `GateReopens`, `EndsCounted`, `LinkComesToWork`,
`GetsIn`, `ComesToRest`) is out of the prover's reach and is model-checked only. Every invariant,
action property and refinement that a passing run checks is proved.

Some theorems state what no run checks. `FirstBootIsFinal`, `EchOnlyInClashAndSingBox` and
`CapitalsLeadAstray` are faults of the code put as facts. The type invariants of `Accounting`,
`Connection` and `Sessions` are proved and not checked. `Connection!ImplementsLedger` ties the
connection in detail to the ledger of `Accounting`; it is proved for
all headers, frames and lists, where a run would show it for thirteen headers.

## 5. What is left out, and why

* The text of subscriptions beyond what `Profile` keeps of it, their headers, pages and QR codes:
  formatting, without state. Hashing and encodings: a hash is the value it was made of, and
  credentials are "the credentials of user u". Logging; deployment files.
* `last_seen`, names and notes, which influence no verdict; the statistics of `GET users`.
* What the panel's page draws from its answers; its languages, themes and preview mode.
* The promise behind `listCache`: see `Accounting` above.
* `subscription-userinfo` (subscription.ts:386-393).
* Which settings of `panelPath` and `subPath` hide routes from one another (index.ts:70-125): the
  order of the tests is modelled for the panel and the subscription alone.

What could be added: `subscription-userinfo` and the status page against the verdict of
`UserRules`, and the router with all its paths.
