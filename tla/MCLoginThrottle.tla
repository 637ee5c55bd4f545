--------------------------- MODULE MCLoginThrottle ---------------------------
(***************************************************************************)
(* Finite values for the constants of LoginThrottle.                       *)
(***************************************************************************)
EXTENDS LoginThrottle
=============================================================================
