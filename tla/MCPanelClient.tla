---------------------------- MODULE MCPanelClient ----------------------------
(***************************************************************************)
(* Finite values for the constants of PanelClient: two paths and one of    *)
(* them in capitals.                                                       *)
(***************************************************************************)
EXTENDS PanelClient

TheNames == {"old", "new", "NEW"}
ToLower == [n \in TheNames |-> IF n = "NEW" THEN "new" ELSE n]
=============================================================================
