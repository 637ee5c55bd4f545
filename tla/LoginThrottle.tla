----------------------------- MODULE LoginThrottle -----------------------------
(***************************************************************************)
(* POST login, for one client address: the gate reads the count, the       *)
(* password is checked, the result is recorded - in D1 by a read and then  *)
(* a write, without D1 in a map of the isolate - and an event is written   *)
(* into a ring that its writers trim.  Requests of the same address run    *)
(* beside one another.                                                     *)
(*                                                                         *)
(*   src/panel/api.ts   POST login                                         *)
(*   src/auth.ts        checkLoginGate, onLoginResult, memThrottle         *)
(*   src/db/store.ts    loginAttemptsLeft, recordLoginFailure,             *)
(*                      clearLoginThrottle, addEvent                       *)
(*                                                                         *)
(* Rows and requests carry ages instead of times; ages stop at Window + 1, *)
(* where every comparison with the window has its final answer.  Events    *)
(* are counted: their ids only grow, and the trim goes by ids.             *)
(***************************************************************************)
EXTENDS Integers, FiniteSets

CONSTANTS
    Logins,       \* slots for login requests in progress
    MaxAttempts,  \* DEFAULTS.loginMaxAttempts
    Window,       \* DEFAULTS.loginWindowMs in ticks
    Keep,         \* the events a trim leaves: the OFFSET of addEvent
    MaxMissed     \* bound: trims that fail, one after another

ASSUME ThrottleAssumption ==
    /\ IsFiniteSet(Logins)
    /\ MaxAttempts \in Nat \ {0}
    /\ Window \in Nat \ {0}
    /\ Keep \in Nat /\ MaxMissed \in Nat

VARIABLES
    bound,    \* D1 is bound (env.GZ_DB)
    row,      \* the address in auth_throttle, or in memThrottle;
              \* kept = FALSE while it is not there
    login,    \* the login requests
    ring,     \* how many events there are
    failed,   \* history: failures written since the count had to start at zero
    written,  \* history: events ever written, as far as they should be kept
    missed    \* history: trims that failed since one ran

events == <<ring, written, missed>>
vars   == <<bound, row, login, failed, events>>

Ages == 0 .. Window + 1

NoRow == [kept |-> FALSE, count |-> 0, age |-> 0]

(* age: since recordLoginFailure took the time its INSERT will write.  *)
Idle == [phase |-> "idle", age |-> 0]

(* The last two are addEvent's statements.  *)
Phases == {"idle", "checking", "recording", "opening", "adding", "clearing",
           "logging", "trimming"}

Init ==
    /\ bound \in BOOLEAN
    /\ row = NoRow
    /\ login = [l \in Logins |-> Idle]
    /\ ring = 0
    /\ failed = 0 /\ written = 0 /\ missed = 0

-----------------------------------------------------------------------------
(* Mutant: the window is not looked at.  *)
OutdatedNever(r) == ~r.kept

(* There is no count, or its window is over: in the map a tick earlier.  *)
Outdated(r) == ~r.kept \/ IF bound THEN r.age > Window ELSE r.age >= Window

(* Mutant: without the Math.max.  *)
AttemptsLeftOver ==
    IF Outdated(row) THEN MaxAttempts ELSE MaxAttempts - row.count

(* loginAttemptsLeft, and checkLoginGate without D1.  *)
AttemptsLeft ==
    IF Outdated(row) THEN MaxAttempts
    ELSE IF row.count >= MaxAttempts THEN 0 ELSE MaxAttempts - row.count

(* The attempts a login answers are left are a number from none to all,    *)
(* however far the count has run past the limit.                           *)
TypeOK ==
    /\ bound \in BOOLEAN
    /\ row \in [kept : BOOLEAN, count : Nat, age : Ages]
    /\ login \in [Logins -> [phase : Phases, age : Ages]]
    /\ ring \in Nat
    /\ failed \in Nat /\ written \in 0 .. Keep /\ missed \in 0 .. MaxMissed
    /\ AttemptsLeft \in 0 .. MaxAttempts

Moves(l, from, to) ==
    /\ login[l].phase = from
    /\ login' = [login EXCEPT ![l] = [phase |-> to, age |-> 0]]
    /\ UNCHANGED bound

(* addEvent comes next; without D1 it fails at once.  *)
Afterwards == IF bound THEN "logging" ELSE "idle"

(* checkLoginGate lets the request pass.  *)
Pass(l) ==
    /\ AttemptsLeft > 0
    /\ Moves(l, "idle", "checking")
    /\ UNCHANGED <<row, failed, events>>

(* Otherwise it is answered 429, after an event.  *)
Block(l) ==
    /\ AttemptsLeft = 0
    /\ Moves(l, "idle", Afterwards)
    /\ UNCHANGED <<row, failed, events>>

(* verifyPanelPassword has its result.  *)
Wrong(l) == Moves(l, "checking", "recording") /\ UNCHANGED <<row, failed, events>>
Right(l) == Moves(l, "checking", "clearing") /\ UNCHANGED <<row, failed, events>>

(* The counts after a failure, and the failures it should hold.  *)
FirstFailure(age) ==
    /\ row' = [kept |-> TRUE, count |-> 1, age |-> age]
    /\ failed' = IF Outdated(row) THEN 1 ELSE failed + 1

NextFailure ==
    /\ row' = [row EXCEPT !.count = @ + 1]
    /\ failed' = failed + 1

(* onLoginResult without D1: one step, as nothing in it waits.  *)
Remember(l) ==
    /\ ~bound
    /\ Moves(l, "recording", "idle")
    /\ \/ Outdated(row) /\ FirstFailure(0)
       \/ ~Outdated(row) /\ NextFailure
    /\ UNCHANGED events

(* Mutant: every failure opens a window.  *)
DecideToOpen(l) ==
    /\ bound
    /\ Moves(l, "recording", "opening")
    /\ UNCHANGED <<row, failed, events>>

(* recordLoginFailure reads the clock and the row (in one step: the reply  *)
(* of the SELECT is what takes time) and so decides its next statement.    *)
Decide(l) ==
    /\ bound
    /\ Moves(l, "recording", IF Outdated(row) THEN "opening" ELSE "adding")
    /\ UNCHANGED <<row, failed, events>>

(* Mutant: ON CONFLICT keeps counting.  *)
OpenAdding(l) ==
    /\ Moves(l, "opening", Afterwards)
    /\ row' = [kept |-> TRUE, count |-> row.count + 1, age |-> login[l].age]
    /\ failed' = IF Outdated(row) THEN 1 ELSE failed + 1
    /\ UNCHANGED events

(* INSERT ... ON CONFLICT DO UPDATE SET count = 1, window_start = now.  *)
Open(l) ==
    /\ Moves(l, "opening", Afterwards)
    /\ FirstFailure(login[l].age)
    /\ UNCHANGED events

(* UPDATE ... SET count = count + 1, which finds no row after a success.  *)
Add(l) ==
    /\ Moves(l, "adding", Afterwards)
    /\ \/ row.kept /\ NextFailure
       \/ ~row.kept /\ UNCHANGED <<row, failed>>
    /\ UNCHANGED events

(* clearLoginThrottle, or memThrottle.delete.  *)
Clear(l) ==
    /\ Moves(l, "clearing", Afterwards)
    /\ row' = NoRow
    /\ failed' = 0
    /\ UNCHANGED events

(* addEvent: INSERT INTO events.  *)
Log(l) ==
    /\ Moves(l, "logging", "trimming")
    /\ ring' = ring + 1
    /\ written' = IF written < Keep THEN written + 1 ELSE written
    /\ UNCHANGED <<row, failed, missed>>

(* Mutant: the OFFSET is one less.  *)
TrimmedShort(n) == IF n >= Keep /\ n > 0 THEN Keep - 1 ELSE n

(* DELETE up to the id at OFFSET 49 from the newest, if there is one.  *)
Trimmed(n) == IF n > Keep THEN Keep ELSE n

Trim(l) ==
    /\ Moves(l, "trimming", "idle")
    /\ ring' = Trimmed(ring)
    /\ missed' = 0
    /\ UNCHANGED <<row, failed, written>>

(* A statement fails, or its isolate goes: the request ends where it is.   *)
(* addEvent hides its failures from the request.                           *)
Breaks(l) ==
    /\ login[l].phase # "idle"
    /\ login' = [login EXCEPT ![l] = Idle]
    /\ \/ login[l].phase # "trimming" /\ UNCHANGED missed
       \/ /\ login[l].phase = "trimming" /\ missed < MaxMissed
          /\ missed' = missed + 1
    /\ UNCHANGED <<bound, row, failed, ring, written>>

(* Without D1 the isolate takes the map with it.  *)
Evict ==
    /\ ~bound /\ row.kept
    /\ row' = NoRow /\ failed' = 0
    /\ login' = [l \in Logins |-> Idle]
    /\ UNCHANGED <<bound, events>>

Older(age) == IF age > Window THEN age ELSE age + 1

Tick ==
    /\ \/ row.kept /\ row.age <= Window
       \/ \E l \in Logins : login[l].phase = "opening" /\ login[l].age <= Window
    /\ row' = IF row.kept THEN [row EXCEPT !.age = Older(@)] ELSE row
    /\ login' = [l \in Logins |->
                   IF login[l].phase = "opening"
                   THEN [login[l] EXCEPT !.age = Older(@)] ELSE login[l]]
    /\ UNCHANGED <<bound, failed, events>>

Next ==
    \/ \E l \in Logins :
         \/ Pass(l) \/ Block(l) \/ Wrong(l) \/ Right(l)
         \/ Remember(l) \/ Decide(l) \/ Open(l) \/ Add(l) \/ Clear(l)
         \/ Log(l) \/ Trim(l) \/ Breaks(l)
    \/ Evict \/ Tick

Spec == Init /\ [][Next]_vars

(* Time passes; nothing else need ever happen.  *)
FairSpec == Spec /\ WF_vars(Tick)

-----------------------------------------------------------------------------
(***************************************************************************)
(* The count holds no failure that was written before the last success or  *)
(* the last window: nobody is locked out by what a success has cleared     *)
(* (store.ts:193-210).  A failure on its way to the row counts when it     *)
(* arrives: one that was to open a window leaves a count of one although   *)
(* it was before the success, one that was to be added finds no row.       *)
(***************************************************************************)
NeverOverCounts == row.kept => row.count <= failed

(***************************************************************************)
(* A failure that reads the row before a window opens and writes after it  *)
(* sets the count back to one, so the count alone bounds nothing; that     *)
(* requests run side by side does.  Before the gate closes for the rest of *)
(* the window it lets through, for n requests at a time, n * MaxAttempts   *)
(* failures and one more for each pair of requests (store.ts:186-205).     *)
(***************************************************************************)
FailuresBounded ==
    LET n == Cardinality(Logins) IN
    2 * failed <= 2 * n * MaxAttempts + n * (n - 1)

(***************************************************************************)
(* The ring holds the newest events, as many as it should, although every  *)
(* writer trims it, beside the others; and it holds more only by those     *)
(* that wait for their trim, and by the trims that failed (store.ts:162).  *)
(***************************************************************************)
Trimming == {l \in Logins : login[l].phase = "trimming"}

RingHolds == written <= ring /\ ring <= Keep + missed + Cardinality(Trimming)

(***************************************************************************)
(* A closed gate opens again when the window is over, whatever the         *)
(* requests caught behind it still write (store.ts:189).                   *)
(***************************************************************************)
GateReopens == AttemptsLeft = 0 ~> AttemptsLeft > 0

-----------------------------------------------------------------------------
(***************************************************************************)
(* What the README says, and the code does not do.                         *)
(*                                                                         *)
(* README.md:182: at most five attempts in a quarter of an hour, then a    *)
(* lock that lasts in D1.  In a window no more failures are written to it  *)
(* than are allowed.                                                       *)
(***************************************************************************)
AtMostMaxAttempts == bound => failed <= MaxAttempts
=============================================================================
