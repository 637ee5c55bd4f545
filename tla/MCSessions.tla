----------------------------- MODULE MCSessions -----------------------------
(***************************************************************************)
(* Finite values for the constants of Sessions.                            *)
(***************************************************************************)
EXTENDS Sessions
=============================================================================
