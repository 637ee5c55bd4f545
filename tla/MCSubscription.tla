---------------------------- MODULE MCSubscription ----------------------------
(***************************************************************************)
(* Finite values for the constants of Subscription.                        *)
(***************************************************************************)
EXTENDS Subscription

Ask(override, ua, key, ech) ==
    [override |-> override, ua |-> ua, opts |-> [opKey |-> key, ech |-> ech]]

(* User-Agents of each kind, without anything else.  *)
Plain == {Ask("none", ua, "absent", FALSE) :
            ua \in {{}, {"browser"}, {"client", "browser"}, {"vera", "browser"},
                    {"clash", "singbox"}, {"singbox", "browser"}}}

(* Every format with tuning and without, by name; Xray with a preset that  *)
(* has no fragment, too.                                                   *)
Tuned == {Ask(override, {"browser"}, "mci", TRUE) :
            override \in {"clash", "singbox", "xray", "base64"}}
      \cup {Ask("xray", {}, "shatel", FALSE), Ask("xray", {}, "auto", TRUE),
            Ask("clash", {}, "unknown", TRUE)}

Pages == {Ask("status", {"client"}, "tci", TRUE)}

AllRequests == Plain \cup Tuned \cup Pages
=============================================================================
