----------------------------- MODULE LedgerProofs -----------------------------
(***************************************************************************)
(* Accounting implements Ledger: through the mapping Fate, every step of   *)
(* the worker is a step of the ledger or leaves it alone.                  *)
(***************************************************************************)
EXTENDS AccountingProofs

TheFates == [c \in Conns |-> Fate(c)]

(* Where a lump is decides its fate: the places are disjoint.  *)
LEMMA FateOf ==
    ASSUME CountedOnce, NEW c \in Conns
    PROVE  /\ Fate(c) = "lost" <=> c \in lost
           /\ Fate(c) = "cleared" <=> c \in cleared
           /\ Fate(c) = "counted" <=> c \in Counted
           /\ Fate(c) = "owed" <=> c \in Gathered \cup InFlight
           /\ Fate(c) = "carried" <=> conn[c].phase = "open"
           /\ Fate(c) \in {"lost", "cleared", "counted", "owed", "carried", "none"}
<1>1. PlacesDisjoint
  BY DEF CountedOnce
<1>2. conn[c].phase = "closed" <=>
        c \in Gathered \cup InFlight \cup Counted \cup cleared \cup lost
  BY DEF CountedOnce, SettledIffClosed
<1> QED BY <1>1, <1>2 DEF Fate, PlacesDisjoint

(* A lump whose place and connection stay has the fate it had.  *)
LEMMA FateStays ==
    ASSUME NEW c \in Conns,
           c \in lost' <=> c \in lost, c \in cleared' <=> c \in cleared,
           c \in Counted' <=> c \in Counted,
           c \in (Gathered \cup InFlight)' <=> c \in Gathered \cup InFlight,
           conn'[c].phase = "open" <=> conn[c].phase = "open"
    PROVE  Fate(c)' = Fate(c)
BY DEF Fate

(* The fate a lump gets from the place it goes to.  *)
LEMMA FateNow ==
    ASSUME CountedOnce', NEW c \in Conns
    PROVE  /\ c \in lost' => Fate(c)' = "lost"
           /\ c \in cleared' /\ c \notin lost' => Fate(c)' = "cleared"
           /\ c \in Counted' /\ c \notin lost' \cup cleared' => Fate(c)' = "counted"
<1>1. PlacesDisjoint'
  BY DEF CountedOnce
<1>2. conn'[c].phase = "closed" <=>
        c \in (Gathered \cup InFlight \cup Counted \cup cleared \cup lost)'
  BY DEF CountedOnce, SettledIffClosed
<1> QED BY <1>1, <1>2 DEF Fate, PlacesDisjoint

(* Steps at which nothing settles: a connection may begin to carry.  *)
LEMMA NothingSettles ==
    ASSUME TypeOK, CountedOnce, CountedOnce',
           \A u \in Users : row'[u].used = row[u].used,
           pending' = pending, batch' = batch, cleared' = cleared, lost' = lost,
           \A c \in Conns : conn'[c].phase = "open" <=> conn[c].phase = "open"
    PROVE  TheFates' = TheFates
<1>1. Gathered' = Gathered /\ InFlight' = InFlight /\ Counted' = Counted
  BY DEF Gathered, InFlight, Counted
<1>2. ASSUME NEW c \in Conns PROVE Fate(c)' = Fate(c)
  BY <1>1 DEF Fate
<1> QED BY <1>2 DEF TheFates

LEMMA DialedBegins ==
    ASSUME TypeOK, CountedOnce, CountedOnce', NEW c \in Conns, Dialed(c)
    PROVE  Book!Begin(c)
<1>1. UNCHANGED <<row, pending, batch, cleared, lost>>
  BY DEF Dialed, rowVars, usageVars
<1>2. Gathered' = Gathered /\ InFlight' = InFlight /\ Counted' = Counted
  BY <1>1 DEF Gathered, InFlight, Counted
<1>3. \A d \in Conns : conn'[d].phase = IF d = c THEN "open" ELSE conn[d].phase
  BY DEF Dialed, TypeOK, ConnState
<1>4. conn[c].phase = "dialing"
  BY DEF Dialed
<1>5. c \notin Gathered \cup InFlight \cup Counted \cup cleared \cup lost
  BY <1>4 DEF CountedOnce, SettledIffClosed
<1>6. ASSUME NEW d \in Conns PROVE Fate(d)' = IF d = c THEN "carried" ELSE Fate(d)
  BY <1>1, <1>2, <1>3, <1>5 DEF Fate
<1>7. Fate(c) = "none"
  BY <1>4, <1>5 DEF Fate
<1>8. TheFates' = [d \in Conns |-> IF d \in {c} THEN "carried" ELSE TheFates[d]]
  BY <1>6 DEF TheFates
<1> QED BY <1>7, <1>8 DEF Book!Begin, Book!Move, TheFates

LEMMA CloseFinishes ==
    ASSUME TypeOK, Attached, CountedOnce, CountedOnce', NEW c \in Conns, Close(c)
    PROVE  Book!Finish(c)
<1>1. /\ conn[c].phase = "open" /\ UNCHANGED <<cleared, lost>> /\ Counted' = Counted
      /\ c \notin Gathered \cup InFlight \cup Counted \cup cleared \cup lost
      /\ Gathered' \cup InFlight' = Gathered \cup InFlight \cup {c}
      /\ \A d \in Conns : conn'[d].phase = "open" <=> conn[d].phase = "open" /\ d # c
  BY CloseMoves
<1>2. ASSUME NEW d \in Conns PROVE Fate(d)' = IF d = c THEN "owed" ELSE Fate(d)
  BY <1>1 DEF Fate
<1>3. Fate(c) = "carried"
  BY <1>1 DEF Fate
<1>4. TheFates' = [d \in Conns |-> IF d \in {c} THEN "owed" ELSE TheFates[d]]
  BY <1>2 DEF TheFates
<1> QED BY <1>3, <1>4 DEF Book!Finish, Book!Move, TheFates

LEMMA CommitSettles ==
    ASSUME TypeOK, Attached, CountedOnce, CountedOnce', NEW c \in Conns, BatchCommit(c)
    PROVE  \E S, T \in SUBSET Conns : Book!Settle(S, T)
<1> DEFINE S == {b \in batch[c] : Live(row[conn[b].user])}
           T == {b \in batch[c] : ~Live(row[conn[b].user])}
<1>1. /\ \A b \in batch[c] : b \in Conns /\ b \in InFlight
      /\ UNCHANGED <<conn, cleared>> /\ Gathered' = Gathered
      /\ InFlight' = InFlight \ batch[c]
      /\ Counted' = Counted \cup S /\ lost' = lost \cup T
  BY CommitMoves
<1>2. S \in SUBSET Conns /\ T \in SUBSET Conns
  BY <1>1
<1>3. \A b \in S \cup T : Fate(b) = "owed"
  BY <1>1, FateOf
<1>4. ASSUME NEW d \in Conns
      PROVE  Fate(d)' = IF d \in T THEN "lost" ELSE IF d \in S THEN "counted" ELSE Fate(d)
  <2>1. batch[c] = S \cup T /\ S \cap T = {}
    OBVIOUS
  <2>2. CASE d \in batch[c]
    <3>1. d \in InFlight /\ d \notin Gathered \cup Counted \cup cleared \cup lost
      BY <1>1, <2>2 DEF CountedOnce, PlacesDisjoint
    <3>2. d \in T => d \in lost'
      BY <1>1
    <3>3. d \in S => d \in Counted' /\ d \notin lost' \cup cleared'
      BY <1>1, <2>1, <3>1
    <3> HIDE DEF S, T
    <3> QED BY <2>1, <2>2, <3>2, <3>3, FateNow
  <2>3. CASE d \notin batch[c]
    <3>1. d \notin S \cup T
      BY <2>1, <2>3
    <3>2. /\ d \in lost' <=> d \in lost
          /\ d \in cleared' <=> d \in cleared
          /\ d \in Counted' <=> d \in Counted
          /\ d \in (Gathered \cup InFlight)' <=> d \in Gathered \cup InFlight
          /\ conn'[d].phase = "open" <=> conn[d].phase = "open"
      BY <1>1, <2>3, <3>1
    <3> HIDE DEF S, T
    <3> QED BY <3>1, <3>2, FateStays
  <2> QED BY <2>2, <2>3
<1>5. TheFates' = [d \in Conns |-> IF d \in T THEN "lost"
                                   ELSE IF d \in S THEN "counted" ELSE TheFates[d]]
  <2> HIDE DEF S, T
  <2> QED BY <1>4 DEF TheFates
<1>6. Book!Settle(S, T)
  <2> HIDE DEF S, T
  <2> QED BY <1>2, <1>3, <1>5 DEF Book!Settle, TheFates
<1> QED BY <1>2, <1>6

LEMMA FailLoses ==
    ASSUME TypeOK, CountedOnce, CountedOnce', NEW c \in Conns, BatchFail(c)
    PROVE  \E S \in SUBSET Conns : Book!Lose(S)
<1>1. /\ UNCHANGED <<cleared, conn>> /\ Gathered' = Gathered /\ Counted' = Counted
      /\ InFlight' = InFlight \ batch[c] /\ batch[c] \subseteq InFlight
      /\ lost' = lost \cup batch[c]
  BY FailMoves
<1>2. batch[c] \in SUBSET Conns
  BY DEF TypeOK
<1>3. ASSUME NEW d \in Conns
      PROVE  Fate(d)' = IF d \in batch[c] THEN "lost" ELSE Fate(d)
  <2>1. CASE d \in batch[c]
    BY <1>1, <2>1, FateNow
  <2>2. CASE d \notin batch[c]
    <3>1. /\ d \in lost' <=> d \in lost
          /\ d \in cleared' <=> d \in cleared
          /\ d \in Counted' <=> d \in Counted
          /\ d \in (Gathered \cup InFlight)' <=> d \in Gathered \cup InFlight
          /\ conn'[d].phase = "open" <=> conn[d].phase = "open"
      BY <1>1, <2>2
    <3> QED BY <2>2, <3>1, FateStays
  <2> QED BY <2>1, <2>2
<1>4. \A d \in batch[c] : Fate(d) = "owed"
  BY <1>1, <1>2, FateOf
<1>5. TheFates' = [d \in Conns |-> IF d \in batch[c] THEN "lost" ELSE TheFates[d]]
  BY <1>3 DEF TheFates
<1>6. Book!Lose(batch[c])
  BY <1>2, <1>4, <1>5 DEF Book!Lose, Book!Move, TheFates
<1> QED BY <1>2, <1>6

LEMMA EvictLoses ==
    ASSUME TypeOK, CountedOnce, CountedOnce', NEW i \in Isolates, Evict(i)
    PROVE  \E S \in SUBSET Conns : Book!Lose(S)
<1> DEFINE S == pending[i] \cup Carried(i)
<1>1. /\ UNCHANGED cleared /\ Counted' = Counted /\ InFlight' = InFlight
      /\ pending[i] \subseteq Gathered /\ Gathered' = Gathered \ pending[i]
      /\ lost' = lost \cup S
      /\ \A d \in Conns : conn'[d].phase = "open" <=>
                             conn[d].phase = "open" /\ d \notin Carried(i)
  BY EvictMoves
<1>2. S \in SUBSET Conns
  BY DEF TypeOK, Carried
<1>3. \A d \in S : Fate(d) = "owed" \/ Fate(d) = "carried"
  <2>1. \A d \in Carried(i) : conn[d].phase = "open"
    BY DEF Carried
  <2> QED BY <1>1, <1>2, <2>1, FateOf
<1>4. ASSUME NEW d \in Conns PROVE Fate(d)' = IF d \in S THEN "lost" ELSE Fate(d)
  <2>1. CASE d \in S
    BY <1>1, <2>1, FateNow
  <2>2. CASE d \notin S
    <3>1. /\ d \in lost' <=> d \in lost
          /\ d \in cleared' <=> d \in cleared
          /\ d \in Counted' <=> d \in Counted
          /\ d \in (Gathered \cup InFlight)' <=> d \in Gathered \cup InFlight
          /\ conn'[d].phase = "open" <=> conn[d].phase = "open"
      BY <1>1, <2>2
    <3> QED BY <2>2, <3>1, FateStays
  <2> QED BY <2>1, <2>2
<1>5. TheFates' = [d \in Conns |-> IF d \in S THEN "lost" ELSE TheFates[d]]
  <2> HIDE DEF S
  <2> QED BY <1>4 DEF TheFates
<1>6. Book!Lose(S)
  <2> HIDE DEF S
  <2> QED BY <1>2, <1>3, <1>5 DEF Book!Lose, Book!Move, TheFates
<1> QED BY <1>2, <1>6

LEMMA ShrinkClears ==
    ASSUME TypeOK, CountedOnce, CountedOnce', TrackRows,
           \A u \in Users : row'[u].used \subseteq row[u].used,
           pending' = pending, batch' = batch, lost' = lost, conn' = conn
    PROVE  \E S \in SUBSET Conns : Book!Clear(S)
<1> DEFINE S == Counted \ Counted'
<1>1. Gathered' = Gathered /\ InFlight' = InFlight
  BY DEF Gathered, InFlight
<1>2. S \in SUBSET Conns
  BY UsedLumps DEF Counted
<1>3. cleared' = cleared \cup S
  BY ShrinkMoves DEF CountedOnce, PlacesDisjoint
<1>4. Counted' = Counted \ S
  BY ShrinkMoves
<1>5. \A d \in S : d \in Counted
  OBVIOUS
<1> HIDE DEF S
<1>6. ASSUME NEW d \in Conns PROVE Fate(d)' = IF d \in S THEN "cleared" ELSE Fate(d)
  <2>1. CASE d \in S
    <3>1. d \in cleared' /\ d \notin lost'
      BY <1>3, <1>5, <2>1 DEF CountedOnce, PlacesDisjoint
    <3> QED BY <2>1, <3>1, FateNow
  <2>2. CASE d \notin S
    <3>1. /\ d \in lost' <=> d \in lost
          /\ d \in cleared' <=> d \in cleared
          /\ d \in Counted' <=> d \in Counted
          /\ d \in (Gathered \cup InFlight)' <=> d \in Gathered \cup InFlight
          /\ conn'[d].phase = "open" <=> conn[d].phase = "open"
      BY <1>1, <1>3, <1>4, <2>2
    <3> QED BY <2>2, <3>1, FateStays
  <2> QED BY <2>1, <2>2
<1>7. \A d \in S : Fate(d) = "counted"
  BY <1>2, <1>5, FateOf
<1>8. TheFates' = [d \in Conns |-> IF d \in S THEN "cleared" ELSE TheFates[d]]
  BY <1>6 DEF TheFates
<1>9. Book!Clear(S)
  BY <1>2, <1>7, <1>8 DEF Book!Clear, Book!Move, TheFates
<1> QED BY <1>2, <1>9

LEMMA LedgerStep ==
    TypeOK /\ Attached /\ CountedOnce /\ CountedOnce' /\ [Next]_vars
        => Book!Next \/ TheFates' = TheFates
<1> SUFFICES ASSUME TypeOK, Attached, CountedOnce, CountedOnce', [Next]_vars
             PROVE  Book!Next \/ TheFates' = TheFates
  OBVIOUS
<1>1. ASSUME NEW c \in Conns, Connection(c)
      PROVE  Book!Next \/ TheFates' = TheFates
  <2>1. ASSUME NEW u \in Users, NEW i \in Isolates, Resolve(c, u, i)
        PROVE  TheFates' = TheFates
    <3>1. \A d \in Conns : conn'[d].phase = "open" <=> conn[d].phase = "open"
      BY <2>1 DEF Resolve, TypeOK
    <3> QED BY <2>1, <3>1, NothingSettles DEF Resolve, rowVars, usageVars
  <2>2. CASE Refuse(c) \/ DialFailed(c)
    <3>1. \A d \in Conns : conn'[d].phase = "open" <=> conn[d].phase = "open"
      BY <2>2 DEF Refuse, DialFailed, IdleConn, TypeOK
    <3> QED BY <2>2, <3>1, NothingSettles DEF Refuse, DialFailed, rowVars, usageVars
  <2>3. CASE Admit(c)
    <3>1. \A d \in Conns : conn'[d].phase = "open" <=> conn[d].phase = "open"
      BY <2>3 DEF Admit, TypeOK, ConnState
    <3> QED BY <2>3, <3>1, NothingSettles DEF Admit, rowVars, usageVars
  <2>8. ASSUME NEW cycle \in Cycles, Dial(c, cycle) PROVE TheFates' = TheFates
    <3>1. \A d \in Conns : conn'[d].phase = "open" <=> conn[d].phase = "open"
      BY <2>8 DEF Dial, TypeOK, ConnState
    <3> QED BY <2>8, <3>1, NothingSettles DEF Dial, rowVars, usageVars
  <2>4. CASE Dialed(c)
    BY <2>4, DialedBegins DEF Book!Next
  <2>5. CASE Close(c)
    BY <2>5, CloseFinishes DEF Book!Next
  <2>6. CASE BatchCommit(c)
    BY <2>6, CommitSettles DEF Book!Next
  <2>7. CASE BatchFail(c)
    BY <2>7, FailLoses DEF Book!Next
  <2> QED BY <1>1, <2>1, <2>2, <2>3, <2>4, <2>5, <2>6, <2>7, <2>8 DEF Connection
<1>2. CASE Upkeep
  <2>1. ASSUME NEW r \in Requests, MaintenanceLands(r) PROVE Book!Next
    BY <2>1, ShrinkClears, ShrinkingSteps DEF MaintenanceLands, usageVars, Book!Next
  <2>2. ASSUME NEW r \in Requests, MaintenanceFails(r) PROVE TheFates' = TheFates
    BY <2>2, NothingSettles DEF MaintenanceFails, rowVars, usageVars
  <2>3. ASSUME NEW r \in Reads, NEW u \in Users, NEW i \in Isolates,
               NEW cycle \in Cycles, SubRead(r, u, i, cycle)
        PROVE  TheFates' = TheFates
    BY <2>3, NothingSettles DEF SubRead, rowVars, usageVars
  <2> QED BY <1>2, <2>1, <2>2, <2>3 DEF Upkeep
<1>3. ASSUME NEW i \in Isolates, Panel(i)
      PROVE  Book!Next \/ TheFates' = TheFates
  <2>1. CASE ReadList(i)
    BY <2>1, NothingSettles DEF ReadList, rowVars, usageVars
  <2>2. ASSUME NEW u \in Users, NEW n \in NewRows, CreateUser(u, i, n) PROVE Book!Next
    BY <2>2, ShrinkClears, ShrinkingSteps DEF CreateUser, usageVars, Book!Next
  <2>3. ASSUME NEW u \in Users, DeleteUser(u, i) PROVE Book!Next
    BY <2>3, ShrinkClears, ShrinkingSteps DEF DeleteUser, usageVars, Book!Next
  <2>4. ASSUME NEW u \in Users, NEW p \in Patches, PatchUser(u, i, p) PROVE Book!Next
    BY <2>4, ShrinkClears, ShrinkingSteps DEF PatchUser, usageVars, Book!Next
  <2> QED BY <1>3, <2>1, <2>2, <2>3, <2>4 DEF Panel
<1>4. ASSUME NEW i \in Isolates, Evict(i) PROVE Book!Next
  BY <1>4, EvictLoses DEF Book!Next
<1>5. CASE Tick \/ UNCHANGED vars
  BY <1>5, NothingSettles DEF Tick, vars, usageVars
<1> QED BY <1>1, <1>2, <1>3, <1>4, <1>5 DEF Next

LEMMA LedgerInit == Init => Book!Init
<1> SUFFICES ASSUME Init PROVE Book!Init
  OBVIOUS
<1>1. Gathered = {} /\ InFlight = {} /\ lost = {} /\ cleared = {}
  BY DEF Init, Gathered, InFlight
<1>2. Counted = {}
  BY AccountingAssumption DEF Init, Counted
<1>3. \A c \in Conns : conn[c].phase = "idle"
  BY DEF Init, IdleConn
<1> QED BY <1>1, <1>2, <1>3 DEF Book!Init, Fate

(***************************************************************************)
(* Whatever the isolates, D1, the panel and the runtime do, the traffic of *)
(* the connections lives by the ledger: settled once, never recounted.     *)
(***************************************************************************)
THEOREM AccountingImplementsLedger == Spec => ImplementsLedger
<1>1. TypeOK /\ Attached /\ CountedOnce /\ CountedOnce' /\ [Next]_vars
        => [Book!Next]_([c \in Conns |-> Fate(c)])
  BY LedgerStep DEF TheFates
<1> QED BY <1>1, LedgerInit, TypeCorrect, CountsOnce, PTL
    DEF Spec, ImplementsLedger, Book!Spec
=============================================================================
