------------------------------ MODULE Accounting ------------------------------
(***************************************************************************)
(* The accounting core of the worker: connections are admitted against a   *)
(* cached copy of the users table, their bytes are gathered per isolate    *)
(* and flushed to D1 in batches when a connection closes, and every        *)
(* admission or subscription read runs a maintenance UPDATE on the row.    *)
(*                                                                         *)
(*   src/db/users.ts           cache, lazyMaintenance, CRUD, coalescing    *)
(*   src/handlers/websocket.ts pumpProxy: lookup, verdict, dial, close     *)
(*   src/index.ts              the subscription route's maintenance        *)
(*                                                                         *)
(* D1 is one database; listCache, pendingUsage and lastFlush are module    *)
(* variables, one instance per isolate.  A statement reaches D1 in a step  *)
(* of its own, may fail, and may succeed without the isolate learning it.  *)
(***************************************************************************)
EXTENDS UserRules

CONSTANTS
    Isolates,       \* V8 isolates running the worker
    Reads,          \* slots for subscription/status requests in progress
    NoUser, NoIso,  \* "no user" and "no isolate"
    CacheTtl,       \* DEFAULTS.cacheTtlMs
    FlushBytes,     \* DEFAULTS.usageFlushBytes, in lumps
    FlushUsers,     \* DEFAULTS.usageFlushUsers
    FlushInterval,  \* DEFAULTS.usageFlushIntervalMs
    InitialRows,    \* rows a user may have when the model starts
    NewRows,        \* <<quota, expiryAt, expiryDays>> of the create requests
    Patches,        \* the PATCH requests administrators send
    StartTime,      \* the time when the model starts
    MaxTime         \* bound: the clock stops here

ASSUME AccountingAssumption ==
    /\ CacheTtl \in Nat \ {0}
    /\ FlushBytes \in Nat /\ FlushUsers \in Nat /\ FlushInterval \in Nat
    /\ NoUser \notin Users /\ NoIso \notin Isolates
    /\ Conns \cap Reads = {}
    /\ InitialRows \subseteq {r \in Row : r.used = {}}
    /\ NewRows \subseteq Nat \X Nat \X Nat
    /\ Patches \subseteq Patch
    /\ StartTime \in Nat \ {0} /\ MaxTime \in Nat \ {0}

VARIABLES
    now,         \* the clock (StartTime .. MaxTime; 0 means "not set")
    row,         \* the users table in D1
    listCache,   \* per isolate: listCache of users.ts, at = 0 for null
    pending,     \* per isolate: pendingUsage, as the lumps waiting in it
    lastFlush,   \* per isolate: lastFlush
    conn,        \* the proxy connections
    batch,       \* per closing connection: the flush it has in flight
    job,         \* per request: the maintenance UPDATE it has in flight
    cleared,     \* history: lumps a reset or a DELETE removed from a row
    lost,        \* history: lumps that will never be counted
    barredSince, \* history: when D1 last began to bar each user; 0 if not
    stampedSince, \* history: when first_used_at came into each row; 0 if not
    windowSince  \* history: when each row's quota window last began anew

vars == <<now, row, listCache, pending, lastFlush, conn, batch, job,
          cleared, lost, barredSince, stampedSince, windowSince>>

-----------------------------------------------------------------------------
NoList == [at |-> 0, rows |-> [u \in Users |-> Unborn]]

NoJob == [user |-> NoUser, iso |-> NoIso, at |-> 0,
          stamp |-> FALSE, anchor |-> FALSE, reset |-> FALSE]

(* start: when listUsers was called; seen: the copy it gave of the row.    *)
IdleConn == [phase |-> "idle", user |-> NoUser, iso |-> NoIso,
             start |-> 0, seen |-> Unborn]

Requests == Conns \cup Reads

(* Judged on the row itself, no connection of the user is admitted.  *)
Barred(r, t) == ~Live(r) \/ ~IsUserAllowed(r, t)

Stamped(r) == r.firstUsed # 0

List == [at : Nat, rows : [Users -> Row]]

Job == [user : Users \cup {NoUser}, iso : Isolates \cup {NoIso}, at : Nat,
        stamp : BOOLEAN, anchor : BOOLEAN, reset : BOOLEAN]

ConnState == [phase : {"idle", "resolved", "allowed", "dialing", "open", "closed"},
              user : Users \cup {NoUser}, iso : Isolates \cup {NoIso},
              start : Nat, seen : Row]

TypeOK ==
    /\ now \in Nat \ {0}
    /\ row \in [Users -> Row]
    /\ listCache \in [Isolates -> List]
    /\ pending \in [Isolates -> SUBSET Conns]
    /\ lastFlush \in [Isolates -> Nat]
    /\ conn \in [Conns -> ConnState]
    /\ batch \in [Conns -> SUBSET Conns]
    /\ job \in [Requests -> Job]
    /\ cleared \subseteq Conns
    /\ lost \subseteq Conns
    /\ barredSince \in [Users -> Nat]
    /\ stampedSince \in [Users -> Nat]
    /\ windowSince \in [Users -> Nat]

Init ==
    /\ now = StartTime
    /\ row \in [Users -> InitialRows]
    /\ listCache = [i \in Isolates |-> NoList]
    /\ pending = [i \in Isolates |-> {}]
    /\ lastFlush = [i \in Isolates |-> now]
    /\ conn = [c \in Conns |-> IdleConn]
    /\ batch = [c \in Conns |-> {}]
    /\ job = [r \in Requests |-> NoJob]
    /\ cleared = {}
    /\ lost = {}
    /\ barredSince = [u \in Users |-> IF Barred(row[u], now) THEN now ELSE 0]
    /\ stampedSince = [u \in Users |-> IF Stamped(row[u]) THEN now ELSE 0]
    /\ windowSince = [u \in Users |-> now]

-----------------------------------------------------------------------------
(* Mutant: a list is served at the age of the TTL, too.  *)
ListUsersLonger(i) ==
    IF listCache[i].at # 0 /\ now - listCache[i].at <= CacheTtl
    THEN listCache[i]
    ELSE [at |-> now, rows |-> row]

(* listUsers: the cached list while it is younger than the TTL, else a new *)
(* SELECT, remembered under the time of the call.                          *)
ListUsers(i) ==
    IF listCache[i].at # 0 /\ now - listCache[i].at < CacheTtl
    THEN listCache[i]
    ELSE [at |-> now, rows |-> row]

(* invalidateUsers, in an isolate that is still there to run it.  *)
InvalidateUsers(i) ==
    listCache' = [j \in Isolates |-> IF j = i THEN NoList ELSE listCache[j]]

(* The code after an awaited D1 call runs only if the reply arrives.  *)
InvalidateOnReply(i) == InvalidateUsers(i) \/ UNCHANGED listCache

(* Since when something is so that was so or not before this step.  *)
Since(before, was, is) == IF ~is THEN 0 ELSE IF was THEN before ELSE now'

(* A user is barred by a change of the row, or as time passes.  *)
TrackBars ==
    barredSince' = [u \in Users |-> Since(barredSince[u], Barred(row[u], now),
                                                         Barred(row'[u], now'))]

(* What a change of the users table does to the history variables.  *)
TrackRows ==
    /\ cleared' = cleared \cup
                    UNION {row[u].used \ row'[u].used : u \in Users}
    /\ TrackBars
    /\ stampedSince' = [u \in Users |->
                          Since(stampedSince[u], Stamped(row[u]), Stamped(row'[u]))]
    /\ windowSince' = [u \in Users |->
                         IF ResetAnchor(row'[u]) = ResetAnchor(row[u])
                         THEN windowSince[u] ELSE now']

rowVars   == <<row, cleared, barredSince, stampedSince, windowSince>>
usageVars == <<pending, lastFlush, batch>>

-----------------------------------------------------------------------------
(* A request that only lists the users: the panel's user list, its links   *)
(* and rotate requests, a connection or a link with unknown credentials.   *)
ReadList(i) ==
    /\ listCache' = [listCache EXCEPT ![i] = ListUsers(i)]
    /\ UNCHANGED <<now, rowVars, usageVars, conn, job, lost>>

(* tryParseAndResolve found the credentials of u in the list.  The slot c  *)
(* waits for its last maintenance UPDATE (bound: one in flight per slot).  *)
Resolve(c, u, i) ==
    /\ conn[c].phase = "idle"
    /\ job[c] = NoJob
    /\ Live(ListUsers(i).rows[u])
    /\ listCache' = [listCache EXCEPT ![i] = ListUsers(i)]
    /\ conn' = [conn EXCEPT ![c] =
                  [phase |-> "resolved", user |-> u, iso |-> i,
                   start |-> now, seen |-> ListUsers(i).rows[u]]]
    /\ UNCHANGED <<now, rowVars, usageVars, job, lost>>

(* The verdict on the copy is negative: the socket is closed.  *)
Refuse(c) ==
    /\ conn[c].phase = "resolved"
    /\ ~IsUserAllowed(conn[c].seen, now)
    /\ conn' = [conn EXCEPT ![c] = IdleConn]
    /\ UNCHANGED <<now, rowVars, listCache, usageVars, job, lost>>

(* lazyMaintenance up to its await: the UPDATE is on its way.  *)
StartMaintenance(r, u, i, copy, cycle) ==
    LET m == Maintenance(copy, now, cycle) IN
    job' = [job EXCEPT ![r] = [user |-> u, iso |-> i, at |-> m.at,
                               stamp |-> m.stamp, anchor |-> m.anchor,
                               reset |-> m.reset]]

(* The verdict is positive: the connection waits for the settings, where   *)
(* the reset cycle is.                                                     *)
Admit(c) ==
    /\ conn[c].phase = "resolved"
    /\ IsUserAllowed(conn[c].seen, now)
    /\ conn' = [conn EXCEPT ![c].phase = "allowed"]
    /\ UNCHANGED <<now, rowVars, listCache, usageVars, job, lost>>

(* They are there, or could not be read: maintenance starts on the copy of *)
(* the lookup, and the dial begins without waiting for it.                 *)
Dial(c, cycle) ==
    /\ conn[c].phase = "allowed"
    /\ conn' = [conn EXCEPT ![c].phase = "dialing", ![c].start = 0,
                            ![c].seen = Unborn]
    /\ StartMaintenance(c, conn[c].user, conn[c].iso, conn[c].seen, cycle)
    /\ UNCHANGED <<now, rowVars, listCache, usageVars, lost>>

Dialed(c) ==
    /\ conn[c].phase = "dialing"
    /\ conn' = [conn EXCEPT ![c].phase = "open"]
    /\ UNCHANGED <<now, rowVars, listCache, usageVars, job, lost>>

(* Every candidate failed: pumpProxy throws, and no bytes are counted.  *)
DialFailed(c) ==
    /\ conn[c].phase = "dialing"
    /\ conn' = [conn EXCEPT ![c] = IdleConn]
    /\ UNCHANGED <<now, rowVars, listCache, usageVars, job, lost>>

-----------------------------------------------------------------------------
(* Mutant: the thresholds must be exceeded.  *)
FlushDueLate(q, i) ==
    \/ Cardinality(q) > FlushBytes
    \/ Cardinality({conn[c].user : c \in q}) > FlushUsers
    \/ now - lastFlush[i] >= FlushInterval

(* maybeFlushUsage's condition on the lumps q gathered in isolate i.  *)
FlushDue(q, i) ==
    \/ Cardinality(q) >= FlushBytes
    \/ Cardinality({conn[c].user : c \in q}) >= FlushUsers
    \/ now - lastFlush[i] >= FlushInterval

(* Mutant: the map keeps what the flush took (no clear before the await).  *)
CloseKeeping(c) ==
    LET i == conn[c].iso
        q == pending[i] \cup {c}
    IN  /\ conn[c].phase = "open"
        /\ conn' = [conn EXCEPT ![c].phase = "closed"]
        /\ batch' = [batch EXCEPT ![c] = IF FlushDue(q, i) THEN q ELSE {}]
        /\ pending' = [pending EXCEPT ![i] = q]
        /\ lastFlush' = [lastFlush EXCEPT ![i] = IF FlushDue(q, i) THEN now ELSE @]
        /\ UNCHANGED <<now, rowVars, listCache, job, lost>>

(* Both pipes are done: queueUsage, then maybeFlushUsage and flushUsage up *)
(* to the await.  When a flush is due the map is emptied before db.batch.  *)
Close(c) ==
    LET i == conn[c].iso
        q == pending[i] \cup {c}
    IN  /\ conn[c].phase = "open"
        /\ conn' = [conn EXCEPT ![c].phase = "closed"]
        /\ \/ /\ FlushDue(q, i)
              /\ batch' = [batch EXCEPT ![c] = q]
              /\ pending' = [pending EXCEPT ![i] = {}]
              /\ lastFlush' = [lastFlush EXCEPT ![i] = now]
           \/ /\ ~FlushDue(q, i)
              /\ pending' = [pending EXCEPT ![i] = q]
              /\ UNCHANGED <<batch, lastFlush>>
        /\ UNCHANGED <<now, rowVars, listCache, job, lost>>

(* Mutant: a reply that never comes leaves the batch to be sent again.  *)
BatchCommitTwice(c) ==
    /\ batch[c] # {}
    /\ row' = [u \in Users |->
                 IF Live(row[u])
                 THEN [row[u] EXCEPT !.used =
                         @ \cup {b \in batch[c] : conn[b].user = u}]
                 ELSE row[u]]
    /\ lost' = lost \cup {b \in batch[c] : ~Live(row[conn[b].user])}
    /\ UNCHANGED <<now, listCache, pending, lastFlush, conn, batch, job>>
    /\ TrackRows

(* D1 runs the batch (one transaction).  An UPDATE of a deleted row        *)
(* changes nothing and is no error: its lumps are gone.                    *)
BatchCommit(c) ==
    /\ batch[c] # {}
    /\ row' = [u \in Users |->
                 IF Live(row[u])
                 THEN [row[u] EXCEPT !.used =
                         @ \cup {b \in batch[c] : conn[b].user = u}]
                 ELSE row[u]]
    /\ lost' = lost \cup {b \in batch[c] : ~Live(row[conn[b].user])}
    /\ batch' = [batch EXCEPT ![c] = {}]
    /\ InvalidateOnReply(conn[c].iso)
    /\ UNCHANGED <<now, pending, lastFlush, conn, job>>
    /\ TrackRows

(* D1 fails the batch: the catch block of flushUsage does nothing.  *)
BatchFail(c) ==
    /\ batch[c] # {}
    /\ lost' = lost \cup batch[c]
    /\ batch' = [batch EXCEPT ![c] = {}]
    /\ UNCHANGED <<now, rowVars, listCache, pending, lastFlush, conn, job>>

-----------------------------------------------------------------------------
(* Mutant: maintenance only for users who pass the verdict.  *)
SubReadIfAllowed(r, u, i, cycle) ==
    /\ job[r] = NoJob
    /\ Live(ListUsers(i).rows[u]) /\ IsUserAllowed(ListUsers(i).rows[u], now)
    /\ listCache' = [listCache EXCEPT ![i] = ListUsers(i)]
    /\ StartMaintenance(r, u, i, ListUsers(i).rows[u], cycle)
    /\ UNCHANGED <<now, rowVars, usageVars, conn, lost>>

(* GET /{subPath}/{token}: the user is looked up in the same cached list,  *)
(* and maintenance starts whether or not the user is allowed.  The         *)
(* settings were read before; a request on the fallback has no cycle.      *)
SubRead(r, u, i, cycle) ==
    /\ job[r] = NoJob
    /\ Live(ListUsers(i).rows[u])
    /\ listCache' = [listCache EXCEPT ![i] = ListUsers(i)]
    /\ StartMaintenance(r, u, i, ListUsers(i).rows[u], cycle)
    /\ UNCHANGED <<now, rowVars, usageVars, conn, lost>>

(* D1 runs the UPDATE, guarded by the id and is_admin = 0 only.  *)
MaintenanceLands(r) ==
    LET u == job[r].user
        hit == Live(row[u]) /\ u \notin Admins
    IN  /\ job[r] # NoJob
        /\ row' = [v \in Users |-> IF v = u /\ hit
                                   THEN Maintained(row[u], job[r])
                                   ELSE row[v]]
        /\ job' = [job EXCEPT ![r] = NoJob]
        /\ InvalidateOnReply(job[r].iso)
        /\ UNCHANGED <<now, usageVars, conn, lost>>
        /\ TrackRows

MaintenanceFails(r) ==
    /\ job[r] # NoJob
    /\ job' = [job EXCEPT ![r] = NoJob]
    /\ UNCHANGED <<now, rowVars, listCache, usageVars, conn, lost>>

-----------------------------------------------------------------------------
(* The panel's requests.  Each is one statement followed, on its reply, by *)
(* invalidateUsers in the isolate that ran it, whether or not the          *)
(* statement found a row to change.                                        *)
CreateUser(u, i, n) ==
    /\ row[u].status = "unborn"
    /\ row' = [row EXCEPT ![u] = NewRow(n[1], n[2], n[3], now)]
    /\ InvalidateOnReply(i)
    /\ UNCHANGED <<now, usageVars, conn, job, lost>>
    /\ TrackRows

DeleteUser(u, i) ==
    /\ row' = [row EXCEPT ![u] = IF Live(row[u]) /\ u \notin Admins
                                 THEN [Unborn EXCEPT !.status = "deleted"]
                                 ELSE row[u]]
    /\ InvalidateOnReply(i)
    /\ UNCHANGED <<now, usageVars, conn, job, lost>>
    /\ TrackRows

(* A statement D1 does not take makes the request fail before the          *)
(* invalidation, and before the flushUsage that would follow a reset.      *)
PatchUser(u, i, p) ==
    /\ Binds(p) /\ p.fields # {}
    /\ row' = [row EXCEPT ![u] = IF Live(row[u]) THEN Patched(row[u], p)
                                                ELSE row[u]]
    /\ InvalidateOnReply(i)
    /\ UNCHANGED <<now, usageVars, conn, job, lost>>
    /\ TrackRows

-----------------------------------------------------------------------------
(* The runtime drops an isolate: its module variables and its sockets go,  *)
(* statements already sent stay on their way.                              *)
Evict(i) ==
    LET mine == {c \in Conns : conn[c].iso = i}
    IN  /\ listCache' = [listCache EXCEPT ![i] = NoList]
        /\ pending' = [pending EXCEPT ![i] = {}]
        /\ lastFlush' = [lastFlush EXCEPT ![i] = now]
        /\ lost' = lost \cup pending[i]
                        \cup {c \in mine : conn[c].phase = "open"}
        /\ conn' = [c \in Conns |->
                      IF c \notin mine THEN conn[c]
                      ELSE IF conn[c].phase \in {"open", "closed"}
                      THEN [conn[c] EXCEPT !.phase = "closed", !.iso = NoIso]
                      ELSE IdleConn]
        /\ job' = [r \in Requests |-> IF job[r].iso = i
                                      THEN [job[r] EXCEPT !.iso = NoIso]
                                      ELSE job[r]]
        /\ UNCHANGED <<now, rowVars, batch>>

Tick ==
    /\ now < MaxTime
    /\ now' = now + 1
    /\ UNCHANGED <<row, cleared, stampedSince, windowSince, listCache, usageVars, conn, job, lost>>
    /\ TrackBars

-----------------------------------------------------------------------------
Connection(c) ==
    \/ \E u \in Users, i \in Isolates : Resolve(c, u, i)
    \/ Refuse(c) \/ Admit(c) \/ Dialed(c) \/ DialFailed(c)
    \/ \E cycle \in Cycles : Dial(c, cycle)
    \/ Close(c) \/ BatchCommit(c) \/ BatchFail(c)

Upkeep ==
    \/ \E r \in Reads, u \in Users, i \in Isolates, cycle \in Cycles :
          SubRead(r, u, i, cycle)
    \/ \E r \in Requests : MaintenanceLands(r) \/ MaintenanceFails(r)

Panel(i) ==
    \/ ReadList(i)
    \/ \E u \in Users :
         \/ \E n \in NewRows : CreateUser(u, i, n)
         \/ DeleteUser(u, i)
         \/ \E p \in Patches : PatchUser(u, i, p)

Next ==
    \/ \E c \in Conns : Connection(c)
    \/ Upkeep
    \/ \E i \in Isolates : Panel(i) \/ Evict(i)
    \/ Tick

Spec == Init /\ [][Next]_vars

-----------------------------------------------------------------------------
(* Where the lumps of closed connections are.  *)
Gathered == UNION {pending[i] : i \in Isolates}
InFlight == UNION {batch[b] : b \in Conns}
Counted  == UNION {row[u].used : u \in Users}

(***************************************************************************)
(* The bytes of a connection are in exactly one place from the moment it   *)
(* closes: waiting in one isolate, in one flush on its way to D1, added to *)
(* the row of its own user, removed by a reset, or lost.  So no flush adds *)
(* them twice, and nobody is charged for another user's traffic, however   *)
(* closes, flushes, resets and evictions interleave (users.ts:233-283).    *)
(***************************************************************************)
SettledIffClosed ==
    \A c \in Conns :
        (conn[c].phase = "closed") <=>
            (c \in Gathered \cup InFlight \cup Counted \cup cleared \cup lost)

PlacesDisjoint ==
    /\ Gathered \cap (InFlight \cup Counted \cup cleared \cup lost) = {}
    /\ InFlight \cap (Counted \cup cleared \cup lost) = {}
    /\ Counted \cap (cleared \cup lost) = {}
    /\ cleared \cap lost = {}

HeldOnce ==
    /\ \A i, j \in Isolates : i # j => pending[i] \cap pending[j] = {}
    /\ \A b, d \in Conns : b # d => batch[b] \cap batch[d] = {}
    /\ \A u \in Users : \A c \in row[u].used : conn[c].user = u

CountedOnce == SettledIffClosed /\ PlacesDisjoint /\ HeldOnce

(***************************************************************************)
(* The ledger a reader of the code has in mind: what became of the traffic *)
(* of a connection.  The accounting implements Ledger (users.ts:233-283,   *)
(* websocket.ts:129-177): every step of the worker settles, clears or      *)
(* loses traffic as the ledger allows, or leaves it alone.                 *)
(***************************************************************************)
Fate(c) ==
    CASE c \in lost                  -> "lost"
      [] c \in cleared               -> "cleared"
      [] c \in Counted               -> "counted"
      [] c \in Gathered \cup InFlight -> "owed"
      [] conn[c].phase = "open"      -> "carried"
      [] OTHER                       -> "none"

Book == INSTANCE Ledger WITH fate <- [c \in Conns |-> Fate(c)]

ImplementsLedger == Book!Spec

(***************************************************************************)
(* Between requests an isolate holds less than a flush's worth of traffic, *)
(* so an eviction loses less than FlushBytes of closed connections         *)
(* (users.ts:253-262: the check runs after every queueUsage).              *)
(***************************************************************************)
PendingBounded ==
    \A i \in Isolates : pending[i] # {} =>
        /\ Cardinality(pending[i]) < FlushBytes
        /\ Cardinality({conn[c].user : c \in pending[i]}) < FlushUsers

(***************************************************************************)
(* Once the row of a user bars every connection (deleted, disabled, quota  *)
(* spent, expired), no isolate admits one on a lookup it made CacheTtl or  *)
(* more later, whichever isolates hold old copies of the row               *)
(* (users.ts:57-67 and 104-118, websocket.ts:103-109).                     *)
(***************************************************************************)
LateAdmission ==
    [][\A c \in Conns :
         conn[c].phase = "resolved" /\ conn'[c].phase = "allowed" =>
            LET since == barredSince[conn[c].user] IN
            since = 0 \/ conn[c].start < since + CacheTtl]_vars

(***************************************************************************)
(* The clock of a first-use user is not set again: once first_used_at is   *)
(* in D1, no request stamps the row on a lookup made CacheTtl or more      *)
(* later, whichever isolates hold copies without it (users.ts:129-139).    *)
(***************************************************************************)
LateStamp ==
    [][\A r \in Requests :
         job[r] = NoJob /\ job'[r].stamp =>
            LET since == stampedSince[job'[r].user]
                asked == IF r \in Conns THEN conn[r].start ELSE now
            IN  since = 0 \/ asked < since + CacheTtl]_vars

(***************************************************************************)
(* A quota window is not reset before its time for longer than a TTL: once *)
(* a window began in D1 (a first use, a reset, another user), a request    *)
(* decides to reset it before it has elapsed only on a lookup made less    *)
(* than CacheTtl later, whichever isolates hold copies of the window       *)
(* before it (users.ts:57-67 and 104-111, websocket.ts:97-115).            *)
(***************************************************************************)
LateReset ==
    [][\A r \in Requests :
         job[r] = NoJob /\ job'[r].reset =>
            LET u     == job'[r].user
                asked == IF r \in Conns THEN conn[r].start ELSE now
            IN  \/ ResetDue(row[u], now, CycleLen)
                \/ asked < windowSince[u] + CacheTtl]_vars

(***************************************************************************)
(* Maintenance does not end anyone's service: an UPDATE that lands within  *)
(* a day of its decision bars no user D1 did not bar, whatever became of   *)
(* the row in between and whatever other requests write (users.ts:126-153).*)
(* One that lands later may stamp a first use that is over already.        *)
(***************************************************************************)
MaintenanceNeverBars ==
    [][\A r \in Requests :
         job[r] # NoJob /\ job'[r] = NoJob /\ now <= job[r].at + DayLen =>
            \A u \in Users : ~Barred(row[u], now) => ~Barred(row'[u], now')]_vars

(***************************************************************************)
(* A user who has spent the quota and whose reset window has elapsed gets  *)
(* service again (users.ts:120-125, README "rolling auto-reset cycles -    *)
(* no Cron worker needed").  The clock of the model stops at MaxTime, and  *)
(* copies with it: what is asked is about users blocked a TTL before that. *)
(***************************************************************************)
BlockedUntilReset(u) ==
    /\ Live(row[u]) /\ u \notin Admins
    /\ OverQuota(row[u]) /\ ResetDue(row[u], now, CycleLen)

QuotaResetReached ==
    \A u \in Users :
        BlockedUntilReset(u) /\ now + CacheTtl <= MaxTime
            ~> ~BlockedUntilReset(u)

-----------------------------------------------------------------------------
(***************************************************************************)
(* What comments and the README say, and the code does not do.             *)
(*                                                                         *)
(* users.ts:281 of a failed flush: "counters stay in memory; next flush    *)
(* retries".  Whatever ends a flush, its lumps are in their rows or back   *)
(* in the map, except those of users deleted meanwhile.                    *)
(***************************************************************************)
FailedFlushKeepsCounters ==
    [][\A b \in Conns : batch[b] # {} /\ batch'[b] = {} =>
         \A c \in batch[b] :
            \/ c \in row'[conn[c].user].used
            \/ c \in pending'[conn[b].iso]
            \/ ~Live(row[conn[c].user])]_vars

(***************************************************************************)
(* users.ts:123-124: maintenance rolls the quota window "when due", by     *)
(* "one conditional UPDATE".  Usage is zeroed only when the window of the  *)
(* row being zeroed has elapsed.                                           *)
(***************************************************************************)
ResetsOnlyWhenDue ==
    [][\A u \in Users :
         Live(row'[u]) /\ ~(row[u].used \subseteq row'[u].used) =>
            ResetDue(row[u], now, CycleLen)]_vars

-----------------------------------------------------------------------------
(***************************************************************************)
(* Fairness.  Time passes, subscription clients poll                       *)
(* (profile-update-interval, subscription.ts), every statement ends, and   *)
(* D1, asked again and again, does not fail every time: not for the        *)
(* settings, so that a poll has the reset cycle, and not for the statement *)
(* that resets.  Connections owe nothing: no client need come back, and    *)
(* none need ever close.                                                   *)
(***************************************************************************)
Fairness ==
    /\ WF_vars(Tick)
    /\ \A r \in Reads :
         /\ \A u \in Users : SF_vars(\E i \in Isolates : SubRead(r, u, i, CycleLen))
         /\ WF_vars(MaintenanceLands(r) \/ MaintenanceFails(r))
         /\ SF_vars(job[r].reset /\ MaintenanceLands(r))

FairSpec == Spec /\ Fairness
=============================================================================
