---------------------------- MODULE MCAccounting ----------------------------
(***************************************************************************)
(* Finite values for the constants of Accounting.                          *)
(***************************************************************************)
EXTENDS Accounting, TLC

(* A user made at time 1 without limits, and one with a quota of one lump. *)
Unlimited == NewRow(0, 0, 0, 1)
OneLump   == NewRow(1, 0, 0, 1)

NoPatch == [fields |-> {}, enabled |-> TRUE, quota |-> 0,
            expiryAt |-> 0, expiryDays |-> 0]
(* An edit: the quota is taken off, so that of a user who has spent it the *)
(* bar goes, and the account ends at time 1, so that it comes back.        *)
Edit == [NoPatch EXCEPT !.fields = {"quota", "expiryAt", "expiryDays"},
                        !.expiryAt = 1]

OnlyUnlimited == {Unlimited}
OnlyOneLump   == {OneLump}
(* Not there yet; there since time 1, a quota of one lump: with an expiry  *)
(* DayLen after the first connection, or one at time 3 and a window that   *)
(* began with the first connection, at once.                               *)
Various       == {Unborn, NewRow(1, 0, 1, 1),
                  [NewRow(1, 3, 0, 1) EXCEPT !.firstUsed = 1, !.anchor = 1]}
(* quota of one lump, and an expiry DayLen after the first connection *)
FirstUseOnly  == {<<1, 0, 1>>}
None          == {}
Edited        == {Edit}

Symmetry == Permutations(Conns) \cup Permutations(Isolates)
=============================================================================
