--------------------------- MODULE MCSettingsStore ---------------------------
(***************************************************************************)
(* Finite values for the constants of SettingsStore.                       *)
(***************************************************************************)
EXTENDS SettingsStore, TLC

(* New values for the settings, and no body but for a password.  *)
Changes == [Opts -> Values \ {DefaultValue}]

AllAsks == [body : Changes, pw : Passwords \cup {NoPw}]
             \cup [body : {NoChange}, pw : Passwords]

(* One request names a setting, another only a password.  *)
TwoAsks == [body : Changes, pw : {NoPw}] \cup [body : {NoChange}, pw : Passwords]

Symmetry == Permutations(Saves) \cup Permutations(Isolates)
=============================================================================
