------------------------------ MODULE UserRules ------------------------------
(***************************************************************************)
(* The rules src/db/users.ts applies to one user row: when it has expired, *)
(* when its rolling quota window has elapsed, whether a connection may be  *)
(* admitted, and which columns a maintenance UPDATE writes.  No state here:*)
(* the modules that own users rows and cached copies of them extend this.  *)
(*                                                                         *)
(* Traffic is measured in lumps, one per connection: all the bytes a       *)
(* connection carries are counted together when it closes, so `used', the  *)
(* sum used_up + used_down, is the set of connections added up so far.     *)
(***************************************************************************)
EXTENDS Naturals, FiniteSets

CONSTANTS
    Conns,      \* connections, each carrying one lump of traffic
    Users,      \* ids of the users table (AUTOINCREMENT: never used twice)
    Admins,     \* the ids whose row has is_admin = 1
    CycleLen,   \* resetCycleMs(cycle) in ticks; 0 is the cycle 'none'
    DayLen      \* 86_400_000 ms in ticks

ASSUME UserRulesAssumption ==
    /\ Admins \subseteq Users
    /\ IsFiniteSet(Conns)
    /\ CycleLen \in Nat
    /\ DayLen \in Nat \ {0}

(* A row of the users table.  Times are ticks, and 0 is "not set".  *)
Row == [status     : {"unborn", "live", "deleted"},
        enabled    : BOOLEAN,
        quota      : Nat,
        used       : SUBSET Conns,
        expiryAt   : Nat,
        expiryDays : Nat,
        firstUsed  : Nat,
        anchor     : Nat,
        created    : Nat]

(* The row slot of an id no INSERT has taken yet.  *)
Unborn == [status |-> "unborn", enabled |-> FALSE, quota |-> 0, used |-> {},
           expiryAt |-> 0, expiryDays |-> 0, firstUsed |-> 0, anchor |-> 0,
           created |-> 0]

(* What createUser inserts: enabled, unused, no clock started.  *)
NewRow(quota, expiryAt, expiryDays, t) ==
    [Unborn EXCEPT !.status = "live", !.enabled = TRUE, !.quota = quota,
                   !.expiryAt = expiryAt, !.expiryDays = expiryDays,
                   !.created = t]

Live(u) == u.status = "live"

FirstNonZero(a, b, c) == IF a # 0 THEN a ELSE IF b # 0 THEN b ELSE c

-----------------------------------------------------------------------------
(* In first-use mode there is no expiry before the first connection.  *)
EffectiveExpiry(u) ==
    IF u.expiryDays > 0
    THEN IF u.firstUsed = 0 THEN 0 ELSE u.firstUsed + u.expiryDays * DayLen
    ELSE u.expiryAt

Expired(u, t) == EffectiveExpiry(u) # 0 /\ t > EffectiveExpiry(u)

OverQuota(u) == u.quota # 0 /\ Cardinality(u.used) >= u.quota

ResetAnchor(u) == FirstNonZero(u.anchor, u.firstUsed, u.created)

ResetDue(u, t, cycle) ==
    /\ cycle # 0
    /\ ResetAnchor(u) # 0
    /\ t >= ResetAnchor(u) + cycle

IsUserAllowed(u, t) == u.enabled /\ ~Expired(u, t) /\ ~OverQuota(u)

-----------------------------------------------------------------------------
(* What a request has for the reset cycle when maintenance starts: the     *)
(* setting, or 'none' when the settings cannot be read.                    *)
Cycles == {CycleLen, 0}

(* Mutant: the first use is stamped on every use.  *)
MaintenanceStamping(u, t, cycle) ==
    [at |-> t, stamp |-> TRUE,
     anchor |-> ResetDue(u, t, cycle), reset |-> ResetDue(u, t, cycle)]

(* Mutant: the window rolls from the first use, whatever resets came since. *)
MaintenanceUnrolled(u, t, cycle) ==
    LET due == ResetDue([u EXCEPT !.anchor = 0], t, cycle) IN
    [at     |-> t,
     stamp  |-> u.firstUsed = 0,
     anchor |-> (u.firstUsed = 0 /\ u.anchor = 0 /\ cycle # 0) \/ due,
     reset  |-> due]

(* The columns lazyMaintenance decides to write, from the copy u and the   *)
(* cycle it was given and the clock when it runs.                          *)
Maintenance(u, t, cycle) ==
    [at     |-> t,
     stamp  |-> u.firstUsed = 0,
     anchor |-> \/ u.firstUsed = 0 /\ u.anchor = 0 /\ cycle # 0
                \/ ResetDue(u, t, cycle),
     reset  |-> ResetDue(u, t, cycle)]

(* Mutant: the first use is taken to be the time the user was made.  *)
MaintainedFromStart(row, m) ==
    [row EXCEPT !.firstUsed = IF m.stamp THEN row.created ELSE @,
                !.anchor    = IF m.anchor THEN m.at ELSE @,
                !.used      = IF m.reset THEN {} ELSE @]

(* The row after that UPDATE ran: what it holds by now is not looked at.  *)
Maintained(row, m) ==
    [row EXCEPT !.firstUsed = IF m.stamp THEN m.at ELSE @,
                !.anchor    = IF m.anchor THEN m.at ELSE @,
                !.used      = IF m.reset THEN {} ELSE @]

(***************************************************************************)
(* A patch: the fields the request carries and their values.  The API      *)
(* clears expiry_at whenever it sets expiry_days, so that the two expiry   *)
(* modes exclude each other.                                               *)
(***************************************************************************)
Patch == [fields     : SUBSET {"enabled", "quota", "expiryAt", "expiryDays",
                               "resetUsage"},
          enabled    : BOOLEAN,
          quota      : Nat,
          expiryAt   : Nat,
          expiryDays : Nat]

(* Every SET clause of updateUser advances the ?n numbering, but the two   *)
(* clauses of a usage reset that are written as constants bind no value.   *)
ConstantClauses(p) ==
    IF "resetUsage" \in p.fields THEN {"used_up", "used_down"} ELSE {}

(* D1 takes a statement only if its highest ?n is the number of values.    *)
Binds(p) == ConstantClauses(p) = {}

(* The row after updateUser's UPDATE.  *)
Patched(row, p) ==
    [row EXCEPT
        !.enabled    = IF "enabled" \in p.fields THEN p.enabled ELSE @,
        !.quota      = IF "quota" \in p.fields THEN p.quota ELSE @,
        !.expiryDays = IF "expiryDays" \in p.fields THEN p.expiryDays ELSE @,
        !.expiryAt   = IF "expiryDays" \in p.fields /\ p.expiryDays > 0 THEN 0
                       ELSE IF "expiryAt" \in p.fields THEN p.expiryAt ELSE @]
=============================================================================
