-------------------------------- MODULE Ledger --------------------------------
(***************************************************************************)
(* What the byte accounting promises, without isolates, caches, flushes or *)
(* a database: the traffic of a connection is owed once the connection     *)
(* ends, is then either counted for its user or lost, and once counted can *)
(* only be cleared.  Nothing is counted twice, and nothing comes back.     *)
(***************************************************************************)
CONSTANT Conns      \* connections, each carrying one lump of traffic

VARIABLE fate       \* per connection: none, carried, owed, counted,
                    \* cleared or lost

Init == fate = [c \in Conns |-> "none"]

Move(S, from, to) ==
    /\ \A c \in S : fate[c] \in from
    /\ fate' = [c \in Conns |-> IF c \in S THEN to ELSE fate[c]]

(* A connection starts to carry traffic, or ends.  *)
Begin(c)  == Move({c}, {"none"}, "carried")
Finish(c) == Move({c}, {"carried"}, "owed")

(* A group of debts is settled together; T of them are lost.  *)
Settle(S, T) ==
    /\ \A c \in S \cup T : fate[c] = "owed"
    /\ fate' = [c \in Conns |-> IF c \in T THEN "lost"
                                ELSE IF c \in S THEN "counted"
                                ELSE fate[c]]

(* A reset clears what was counted; a failure loses what was not yet.  *)
Clear(S) == Move(S, {"counted"}, "cleared")
Lose(S)  == Move(S, {"carried", "owed"}, "lost")

Next ==
    \/ \E c \in Conns : Begin(c) \/ Finish(c)
    \/ \E S, T \in SUBSET Conns : Settle(S, T)
    \/ \E S \in SUBSET Conns : Clear(S) \/ Lose(S)

Spec == Init /\ [][Next]_fate
=============================================================================
