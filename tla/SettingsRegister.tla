--------------------------- MODULE SettingsRegister ---------------------------
(***************************************************************************)
(* What saving the settings promises, without revs, SELECTs, retries,      *)
(* caches, isolates or boots.  The settings are one value.  A request      *)
(* changes it in one step; a new password takes a second step, in which    *)
(* the request stores the value it made at the first.  A request that      *)
(* fails takes its next step at that moment or never, and one that is      *)
(* acknowledged has taken them all.                                        *)
(***************************************************************************)
CONSTANTS Saves, Opts, DefaultValue, DefaultPw, NoPw, Asks

VARIABLES
    value,    \* the settings
    call      \* the requests

(* open: the password that logs in, or NoPw while none does; next: the one *)
(* that waits to be hashed.                                                *)
Default == [opts |-> [o \in Opts |-> DefaultValue], open |-> DefaultPw, next |-> NoPw]

(* fin: the value the second step stores.  *)
NewCall == [phase |-> "idle", body |-> [o \in {} |-> DefaultValue],
            pw |-> NoPw, fin |-> Default]

Closed(how) == [NewCall EXCEPT !.phase = how]

Init == value = Default /\ call = [s \in Saves |-> NewCall]

(* The settings a request names take its values; its password locks the    *)
(* panel until it is hashed.                                               *)
Applied(c) ==
    [opts |-> [o \in Opts |-> IF o \in DOMAIN c.body THEN c.body[o] ELSE value.opts[o]],
     open |-> IF c.pw = NoPw THEN value.open ELSE NoPw,
     next |-> IF c.pw = NoPw THEN value.next ELSE c.pw]

(* The value with its password hashed, which opens it, or locks it.  *)
Hashed(v, open) == [opts |-> v.opts, open |-> open, next |-> NoPw]

Ask(s, a) ==
    /\ call[s].phase = "idle"
    /\ call' = [call EXCEPT ![s] = [NewCall EXCEPT !.phase = "asked", !.body = a.body, !.pw = a.pw]]
    /\ UNCHANGED value

(* A password waits, the request's own or one another request has left: it *)
(* is hashed and stored in a second step.  The request's own will open the *)
(* settings; one it found there may lock them.                             *)
Apply(s) ==
    /\ call[s].phase = "asked"
    /\ value' = Applied(call[s])
    /\ \/ /\ value'.next = NoPw
          /\ call' = [call EXCEPT ![s] = Closed("acked")]
       \/ /\ value'.next # NoPw
          /\ \E open \in {value'.next} \cup (IF call[s].pw = NoPw THEN {NoPw} ELSE {}) :
               call' = [call EXCEPT ![s] = [@ EXCEPT !.phase = "half",
                                                     !.fin = Hashed(value', open)]]

Finish(s) ==
    /\ call[s].phase = "half"
    /\ value' = call[s].fin
    /\ call' = [call EXCEPT ![s] = Closed("acked")]

(* Requests fail together; of one that fails alone the step may be taken.  *)
Fail(S) ==
    /\ \A s \in S : call[s].phase \in {"asked", "half"}
    /\ call' = [s \in Saves |-> IF s \in S THEN Closed("failed") ELSE call[s]]
    /\ \/ UNCHANGED value
       \/ \E s \in Saves : /\ S = {s}
                           /\ value' = IF call[s].phase = "half" THEN call[s].fin
                                                                 ELSE Applied(call[s])

Next ==
    \/ \E s \in Saves : \/ \E a \in Asks : Ask(s, a)
                        \/ Apply(s) \/ Finish(s)
    \/ \E S \in SUBSET Saves : Fail(S)

Spec == Init /\ [][Next]_<<value, call>>
=============================================================================
