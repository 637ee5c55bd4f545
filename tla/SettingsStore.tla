----------------------------- MODULE SettingsStore -----------------------------
(***************************************************************************)
(* The settings row of kv_store: its first boot, its cache in each isolate *)
(* and the read-modify-write that changes it.                              *)
(*                                                                         *)
(*   src/db/store.ts    loadSettings, saveSettings, cached/putCache        *)
(*   src/settings.ts    getEffectiveSettings, bootstrapSettings            *)
(*   src/panel/api.ts   POST settings, the password change included        *)
(*                                                                         *)
(* Each statement reaches D1 in a step of its own, may fail, and may run   *)
(* without its reply arriving.  A cache entry carries its age instead of   *)
(* the time it was put.                                                    *)
(***************************************************************************)
EXTENDS Naturals, FiniteSets

CONSTANTS
    Isolates,    \* V8 isolates running the worker
    Hosts,       \* host names the worker is reached by
    Boots,       \* slots for requests that find no settings
    Saves,       \* POST settings requests, each made once
    NoIso, NoHost,
    Opts,        \* settings other than the password: panelPath, subPath, ...
    Values,      \* what a setting can be set to
    DefaultValue,
    Passwords,   \* new passwords a request can carry
    DefaultPw,   \* DEFAULTS.defaultPassword
    NoPw,        \* "no __newPw in the blob"
    Asks,        \* what requests ask for: the settings named, newPassword
    PwIterations,       \* DEFAULTS.pwIterations
    EnvlessIterations,  \* the pwIterations of the envless settings
    Attempts,    \* how often saveSettings tries
    CacheTtl,    \* DEFAULTS.cacheTtlMs in ticks
    MaxReads     \* bound: loadSettings SELECTs in flight in an isolate

ASSUME SettingsAssumption ==
    /\ NoIso \notin Isolates /\ NoHost \notin Hosts
    /\ NoPw \notin Passwords \cup {DefaultPw}
    /\ DefaultValue \in Values
    /\ Attempts \in Nat \ {0}
    /\ CacheTtl \in Nat \ {0}
    /\ MaxReads \in Nat \ {0}

VARIABLES
    stored,   \* the settings row, rev = 0 while there is none
    admins,   \* hosts whose admin user is in the users table
    cache,    \* per isolate: the entry under SETTINGS_KEY
    read,     \* per isolate: loadSettings calls waiting for their row
    boot,     \* the first-boot requests
    save      \* the POST settings requests

vars == <<stored, admins, cache, read, boot, save>>

-----------------------------------------------------------------------------
Counts == {PwIterations, EnvlessIterations}

(* A settings blob.  password is the one passwordHash was made of, in      *)
(* rounds iterations; salted says whether it was made with the             *)
(* passwordSalt beside it; iters is pwIterations; newPw is the __newPw a   *)
(* password change leaves in the blob between its two writes.              *)
Blob == [opts      : [Opts -> Values],
         password  : Passwords \cup {DefaultPw},
         salted    : BOOLEAN,
         rounds    : Counts,
         iters     : Counts,
         newPw     : Passwords \cup {NoPw},
         isDefault : BOOLEAN]

(* verifyPanelPassword accepts the password of the blob, and no other.     *)
Opens(b) == b.salted /\ b.rounds = b.iters

DefaultBlob(n) == [opts |-> [o \in Opts |-> DefaultValue], password |-> DefaultPw,
                   salted |-> TRUE, rounds |-> n, iters |-> n,
                   newPw |-> NoPw, isDefault |-> TRUE]

(* The blob of a first boot, and the envless settings, which a save        *)
(* changes when there is no row.                                           *)
FreshBlob == DefaultBlob(PwIterations)

EnvlessBlob == DefaultBlob(EnvlessIterations)

Rows == [rev : Nat, blob : Blob]

NoRow == [rev |-> 0, blob |-> EnvlessBlob]

NoEntry == [kept |-> FALSE, age |-> 0, blob |-> FreshBlob]

IdleBoot == [phase |-> "idle", iso |-> NoIso, host |-> NoHost]

(* A body names some settings and their new values.  *)
Bodies == UNION {[S -> Values] : S \in SUBSET Opts}

NoChange == [o \in {} |-> DefaultValue]

ASSUME AsksAssumption == Asks \subseteq [body : Bodies, pw : Passwords \cup {NoPw}]

(* body: the settings the request names, with their values; pw: its        *)
(* newPassword; iters: the pwIterations of the settings it runs under;     *)
(* second: it is in the write that carries the hash; mine: the blob that   *)
(* write stores; prev: the row saveSettings read.                          *)
IdleSave == [phase |-> "idle", iso |-> NoIso, body |-> NoChange, pw |-> NoPw,
             iters |-> PwIterations, second |-> FALSE, mine |-> FreshBlob,
             prev |-> NoRow, tries |-> 0]

(* How a request ends: its variables are gone.  *)
Ended(how) == [IdleSave EXCEPT !.phase = how]

Entry == [kept : BOOLEAN, age : 0 .. CacheTtl, blob : Blob]

BootState == [phase : {"idle", "hashing", "admin"},
              iso : Isolates \cup {NoIso}, host : Hosts \cup {NoHost}]

SaveState == [phase : {"idle", "select", "update", "acked", "failed"},
              iso : Isolates \cup {NoIso}, body : Bodies,
              pw : Passwords \cup {NoPw}, iters : Counts,
              second : BOOLEAN, mine : Blob, prev : Rows,
              tries : 0 .. Attempts - 1]

TypeOK ==
    /\ stored \in Rows
    /\ admins \subseteq Hosts
    /\ cache \in [Isolates -> Entry]
    /\ read \in [Isolates -> SUBSET Rows]
    /\ boot \in [Boots -> BootState]
    /\ save \in [Saves -> SaveState]

Init ==
    /\ stored = NoRow
    /\ admins = {}
    /\ cache = [i \in Isolates |-> NoEntry]
    /\ read = [i \in Isolates |-> {}]
    /\ boot = [b \in Boots |-> IdleBoot]
    /\ save = [s \in Saves |-> IdleSave]

-----------------------------------------------------------------------------
Young(i) == cache[i].kept /\ cache[i].age < CacheTtl

(* Mutant: an entry never grows too old.  *)
HitForever(i) == cache[i].kept

(* cached(SETTINGS_KEY).  *)
Hit(i) == Young(i)

(* invalidateCache in isolate i.  *)
Invalidated(i) == [j \in Isolates |-> IF j = i THEN NoEntry ELSE cache[j]]

(* loadSettings without a hit: the SELECT has run, its reply is on its way.*)
(* Nothing joins two calls: each has a SELECT of its own.                  *)
LoadSelect(i) ==
    /\ ~Hit(i)
    /\ stored.rev # 0
    /\ Cardinality(read[i]) < MaxReads
    /\ read' = [read EXCEPT ![i] = @ \cup {stored}]
    /\ UNCHANGED <<stored, admins, cache, boot, save>>

(* The reply: putCache, under the time of the reply.  *)
LoadReply(i, r) ==
    /\ r \in read[i]
    /\ read' = [read EXCEPT ![i] = @ \ {r}]
    /\ cache' = [cache EXCEPT ![i] = [kept |-> TRUE, age |-> 0, blob |-> r.blob]]
    /\ UNCHANGED <<stored, admins, boot, save>>

LoadFails(i, r) ==
    /\ r \in read[i]
    /\ read' = [read EXCEPT ![i] = @ \ {r}]
    /\ UNCHANGED <<stored, admins, cache, boot, save>>

-----------------------------------------------------------------------------
(* getEffectiveSettings found no row: bootstrapSettings is called, finds   *)
(* none either and hashes the default password.                            *)
BootStart(b, i, h) ==
    /\ boot[b].phase = "idle"
    /\ ~Hit(i) /\ stored.rev = 0
    /\ boot' = [boot EXCEPT ![b] = [phase |-> "hashing", iso |-> i, host |-> h]]
    /\ UNCHANGED <<stored, admins, cache, read, save>>

(* INSERT OR IGNORE of the settings row.  *)
BootSettings(b) ==
    /\ boot[b].phase = "hashing"
    /\ stored' = IF stored.rev = 0 THEN [rev |-> 1, blob |-> FreshBlob] ELSE stored
    /\ boot' = [boot EXCEPT ![b].phase = "admin"]
    /\ UNCHANGED <<admins, cache, read, save>>

(* INSERT OR IGNORE of the host's admin user.  *)
BootAdmin(b) ==
    /\ boot[b].phase = "admin"
    /\ admins' = admins \cup {boot[b].host}
    /\ boot' = [boot EXCEPT ![b] = IdleBoot]
    /\ UNCHANGED <<stored, cache, read, save>>

(* A statement fails, or runs without a reply: the request falls back to   *)
(* the envless settings and boots nothing more.                            *)
BootFails(b) ==
    /\ boot[b].phase # "idle"
    /\ boot' = [boot EXCEPT ![b] = IdleBoot]
    /\ \/ UNCHANGED <<stored, admins>>
       \/ /\ boot[b].phase = "hashing" /\ stored.rev = 0
          /\ stored' = [rev |-> 1, blob |-> FreshBlob]
          /\ UNCHANGED admins
       \/ /\ boot[b].phase = "admin"
          /\ admins' = admins \cup {boot[b].host}
          /\ UNCHANGED stored
    /\ UNCHANGED <<cache, read, save>>

-----------------------------------------------------------------------------
(* The pwIterations a request may find: of the isolate's entry or of the   *)
(* row, or the envless ones, which getEffectiveSettings falls back to      *)
(* whenever D1 does not answer (the admin user is read on a hit as well).  *)
EffIterations(i) ==
    {EnvlessIterations} \cup (IF Hit(i) THEN {cache[i].blob.iters}
                              ELSE IF stored.rev # 0 THEN {stored.blob.iters} ELSE {})

(* POST settings with a valid body.  The request may come before any row.  *)
SaveStart(s, i, a, n) ==
    /\ save[s].phase = "idle"
    /\ n \in EffIterations(i)
    /\ save' = [save EXCEPT ![s] = [IdleSave EXCEPT
                  !.phase = "select", !.iso = i, !.body = a.body, !.pw = a.pw,
                  !.iters = n]]
    /\ UNCHANGED <<stored, admins, cache, read, boot>>

SaveSelect(s) ==
    /\ save[s].phase = "select"
    /\ save' = [save EXCEPT ![s].phase = "update", ![s].prev = stored]
    /\ UNCHANGED <<stored, admins, cache, read, boot>>

(* Mutant: a request without a password drops the one left in the row.  *)
MutateDropping(q) ==
    LET old == q.prev.blob IN
    IF q.second THEN q.mine
    ELSE [old EXCEPT
            !.opts   = [o \in Opts |-> IF o \in DOMAIN q.body THEN q.body[o]
                                                             ELSE old.opts[o]],
            !.salted = @ /\ q.pw = NoPw,
            !.iters  = IF q.pw = NoPw THEN @ ELSE q.iters,
            !.newPw  = q.pw]

(* What the two calls of saveSettings make of the row they read: the first *)
(* changes it as the body says and leaves the password to be hashed; the   *)
(* second (password hashed by now) does not look at it.                    *)
Mutate(q) ==
    LET old == q.prev.blob IN
    IF q.second THEN q.mine
    ELSE [old EXCEPT
            !.opts   = [o \in Opts |-> IF o \in DOMAIN q.body THEN q.body[o]
                                                             ELSE old.opts[o]],
            !.salted = @ /\ q.pw = NoPw,
            !.iters  = IF q.pw = NoPw THEN @ ELSE q.iters,
            !.newPw  = IF q.pw = NoPw THEN @ ELSE q.pw]

(* The written blob with its password hashed: new salt, its hash, no       *)
(* __newPw.  The hash is made in as many iterations as the request runs    *)
(* under; pwIterations stays what the first write left.                    *)
Hashed(q) ==
    LET b == Mutate(q) IN
    [opts |-> b.opts, password |-> b.newPw, salted |-> TRUE, rounds |-> q.iters,
     iters |-> b.iters, newPw |-> NoPw, isDefault |-> FALSE]

(* Mutant: UPDATE ... WHERE key = ? only.  *)
MatchesAny(q) == TRUE

(* UPDATE ... WHERE rev = ?, or INSERT when there was no row.  *)
Matches(q) == q.prev.rev = stored.rev

Written(q) == stored' = [rev |-> stored.rev + 1, blob |-> Mutate(q)]

(* The row was written and the reply came: invalidateCache, and the hash   *)
(* of a password if the written blob carries one.                          *)
SaveWrites(s) ==
    LET q == save[s] IN
    /\ q.phase = "update" /\ Matches(q)
    /\ Written(q)
    /\ cache' = Invalidated(q.iso)
    /\ save' = [save EXCEPT ![s] =
                  IF Mutate(q).newPw = NoPw THEN Ended("acked")
                  ELSE [q EXCEPT !.phase = "select", !.second = TRUE,
                                 !.mine = Hashed(q), !.tries = 0]]
    /\ UNCHANGED <<admins, read, boot>>

(* Mutant: the attempts are counted from zero.  *)
SaveConflictsLonger(s) ==
    LET q == save[s] IN
    /\ q.phase = "update" /\ ~Matches(q)
    /\ save' = [save EXCEPT ![s] =
                  IF q.prev.rev = 0 \/ q.tries = Attempts THEN Ended("failed")
                  ELSE [q EXCEPT !.phase = "select", !.tries = @ + 1]]
    /\ UNCHANGED <<stored, admins, cache, read, boot>>

(* Mutant: the loop ends without its throw.  *)
SaveConflictsQuietly(s) ==
    LET q == save[s] IN
    /\ q.phase = "update" /\ ~Matches(q)
    /\ save' = [save EXCEPT ![s] =
                  IF q.prev.rev = 0 \/ q.tries + 1 = Attempts
                  THEN Ended("acked")
                  ELSE [q EXCEPT !.phase = "select", !.tries = @ + 1]]
    /\ UNCHANGED <<stored, admins, cache, read, boot>>

(* Another write came first: read again, three times at most.  An INSERT   *)
(* meets the other row and is an error.                                    *)
SaveConflicts(s) ==
    LET q == save[s] IN
    /\ q.phase = "update" /\ ~Matches(q)
    /\ save' = [save EXCEPT ![s] =
                  IF q.prev.rev = 0 \/ q.tries + 1 = Attempts
                  THEN Ended("failed")
                  ELSE [q EXCEPT !.phase = "select", !.tries = @ + 1]]
    /\ UNCHANGED <<stored, admins, cache, read, boot>>

(* D1 fails a statement, or runs the write and the reply is lost.  *)
SaveFails(s) ==
    LET q == save[s] IN
    /\ q.phase \in {"select", "update"}
    /\ \/ stored' = stored
       \/ q.phase = "update" /\ Matches(q) /\ Written(q)
    /\ save' = [save EXCEPT ![s] = Ended("failed")]
    /\ UNCHANGED <<admins, cache, read, boot>>

-----------------------------------------------------------------------------
(* The runtime drops an isolate and the requests it serves.  *)
Evict(i) ==
    /\ cache' = Invalidated(i)
    /\ read' = [read EXCEPT ![i] = {}]
    /\ boot' = [b \in Boots |-> IF boot[b].iso = i THEN IdleBoot ELSE boot[b]]
    /\ save' = [s \in Saves |->
                  IF save[s].iso = i /\ save[s].phase \in {"select", "update"}
                  THEN Ended("failed") ELSE save[s]]
    /\ UNCHANGED <<stored, admins>>

Tick ==
    /\ \E i \in Isolates : Young(i)
    /\ cache' = [i \in Isolates |-> IF Young(i) THEN [cache[i] EXCEPT !.age = @ + 1]
                                               ELSE cache[i]]
    /\ UNCHANGED <<stored, admins, read, boot, save>>

-----------------------------------------------------------------------------
Reading(i) ==
    \/ LoadSelect(i)
    \/ \E r \in read[i] : LoadReply(i, r) \/ LoadFails(i, r)

Booting(b) ==
    \/ \E i \in Isolates, h \in Hosts : BootStart(b, i, h)
    \/ BootSettings(b) \/ BootAdmin(b) \/ BootFails(b)

Saving(s) ==
    \/ \E i \in Isolates, a \in Asks, n \in Counts : SaveStart(s, i, a, n)
    \/ SaveSelect(s) \/ SaveWrites(s) \/ SaveConflicts(s) \/ SaveFails(s)

Next ==
    \/ \E i \in Isolates : Reading(i) \/ Evict(i)
    \/ \E b \in Boots : Booting(b)
    \/ \E s \in Saves : Saving(s)
    \/ Tick

Spec == Init /\ [][Next]_vars

-----------------------------------------------------------------------------
(***************************************************************************)
(* Between the two writes of a password change the row holds a new salt    *)
(* beside the old hash, and nobody can log in.  Whatever fails there, and  *)
(* whichever requests run beside it, such a row still carries the password *)
(* that the next save of any kind will hash (api.ts:143-166).  A row that  *)
(* opens to nobody and carries none has one cause: its hash was made in    *)
(* other iterations than it names.                                         *)
(***************************************************************************)
HashFits == \/ Opens(stored.blob)
            \/ stored.blob.newPw # NoPw
            \/ stored.blob.rounds # stored.blob.iters

(***************************************************************************)
(* The rev check does what it is for (store.ts:127-158): a write that      *)
(* applies a request to the row it read leaves every setting the request   *)
(* does not name as it finds it, and so does a boot.                       *)
(***************************************************************************)
WriteOf(s) == save[s].phase = "update" /\ save'[s].phase # "update"

KeepsOthers(s) ==
    \A o \in Opts \ DOMAIN save[s].body : stored'.blob.opts[o] = stored.blob.opts[o]

FirstWriteKeepsOthers ==
    stored.rev # 0 /\ stored' # stored =>
        \E s \in Saves : WriteOf(s) /\ (save[s].second \/ KeepsOthers(s))

(***************************************************************************)
(* An acknowledged request has had its way (store.ts:127-158,              *)
(* api.ts:95-167): as the acknowledgement goes out, the stored row holds   *)
(* every setting the request names at the value it names, no password      *)
(* waits in it, and if the request carried one, that one logs in: its own  *)
(* writes agree on the iterations, whatever settings it ran under.         *)
(***************************************************************************)
Asked(q, b) ==
    /\ \A o \in DOMAIN q.body : b.opts[o] = q.body[o]
    /\ b.newPw = NoPw
    /\ q.pw # NoPw => b.password = q.pw /\ Opens(b)

AckedMeansStored ==
    \A s \in Saves : save[s].phase = "update" /\ save'[s].phase = "acked"
                        => Asked(save[s], stored'.blob)

(***************************************************************************)
(* The password an admin sets does not lock anybody out, acknowledged or   *)
(* not: the write after which none logs in and none waits is one that      *)
(* hashes a password its request has found in the row (api.ts:155-164).    *)
(***************************************************************************)
LockedOut(b) == ~Opens(b) /\ b.newPw = NoPw

LocksOnlyWhatItFound ==
    LockedOut(stored'.blob) /\ ~LockedOut(stored.blob) =>
        \E s \in Saves : WriteOf(s) /\ save[s].second /\ save[s].pw = NoPw

(***************************************************************************)
(* So a save changes what it was asked to change and, but for the second   *)
(* write of a password change, nothing else (store.ts:127-158).            *)
(***************************************************************************)
SavesAsAsked ==
    [][FirstWriteKeepsOthers /\ AckedMeansStored /\ LocksOnlyWhatItFound]_vars

(***************************************************************************)
(* Saving behaves as one register (store.ts:127-158, api.ts:95-167): a     *)
(* boot changes nothing anybody can tell, a request changes the settings   *)
(* at one point, a new password at two, and a failed one not at all later. *)
(***************************************************************************)
View(b) == [opts |-> b.opts, open |-> IF Opens(b) THEN b.password ELSE NoPw,
            next |-> b.newPw]

Progress(q) == IF q.phase \notin {"select", "update"} THEN q.phase
               ELSE IF q.second THEN "half" ELSE "asked"

CallOf(q) == [phase |-> Progress(q), body |-> q.body, pw |-> q.pw, fin |-> View(q.mine)]

Register == INSTANCE SettingsRegister WITH
    value <- View(stored.blob),
    call <- [s \in Saves |-> CallOf(save[s])]

ImplementsRegister == Register!Spec

(***************************************************************************)
(* Once there is a settings row and no first boot is under way, no admin   *)
(* user is ever made again (settings.ts:86-87): a boot cut off between its *)
(* INSERTs stays without one.                                              *)
(***************************************************************************)
BootOver == stored.rev # 0 /\ \A b \in Boots : boot[b].phase = "idle"

FirstBootIsFinal == [][BootOver => BootOver' /\ admins' = admins]_vars

(***************************************************************************)
(* Once the saves are over, every isolate comes to serve the stored        *)
(* settings, although a SELECT answered late puts back what a save has     *)
(* just invalidated (store.ts:95-125).                                     *)
(***************************************************************************)
CacheConverges ==
    <>[](\A i \in Isolates : Hit(i) => cache[i].blob = stored.blob)

-----------------------------------------------------------------------------
(***************************************************************************)
(* What the comments say, and the code does not do.                        *)
(*                                                                         *)
(* api.ts:153: "password hashing needs async - apply post-write if         *)
(* requested".  Once every request has been acknowledged, the password is  *)
(* applied: there is one that logs in.                                     *)
(***************************************************************************)
AppliedPostWrite ==
    (\A s \in Saves : save[s].phase = "acked") => Opens(stored.blob)

(***************************************************************************)
(* store.ts:6-7: settings are kept "with OPTIMISTIC locking (rev counter)  *)
(* -> fixes the JSON-blob write race".  No write of any request undoes a   *)
(* setting that the request does not name.                                 *)
(***************************************************************************)
EveryWriteKeepsOthers ==
    [][stored.rev # 0 /\ stored' # stored =>
         \E s \in Saves : WriteOf(s) /\ KeepsOthers(s)]_vars

-----------------------------------------------------------------------------
(***************************************************************************)
(* Fairness: requests that find no settings keep coming, the runtime runs  *)
(* what was started until it ends one way or another, and time passes.     *)
(***************************************************************************)
Fairness ==
    /\ WF_vars(Tick)
    /\ \A i \in Isolates :
         WF_vars(\E r \in read[i] : LoadReply(i, r) \/ LoadFails(i, r))
    /\ \A b \in Boots : WF_vars(Booting(b))
    /\ \A s \in Saves :
         WF_vars(SaveSelect(s) \/ SaveWrites(s) \/ SaveConflicts(s) \/ SaveFails(s))

FairSpec == Spec /\ Fairness
=============================================================================
