---------------------------- MODULE ThrottleProofs ----------------------------
(***************************************************************************)
(* Theorems about LoginThrottle, for any number of requests, attempts, any *)
(* window and any size of the ring.                                        *)
(***************************************************************************)
EXTENDS LoginThrottle, FiniteSetTheorems, TLAPS

LEMMA AgesKnown ==
    /\ 0 \in Ages
    /\ \A age \in Ages : Older(age) \in Ages
BY ThrottleAssumption DEF Ages, Older

(* Math.max keeps the attempts left in range, whatever the count.  *)
LEMMA LeftInRange ==
    ASSUME row.count \in Nat
    PROVE  AttemptsLeft \in 0 .. MaxAttempts
BY ThrottleAssumption DEF AttemptsLeft

(* What is left of TypeOK to show.  *)
Shapes ==
    /\ bound \in BOOLEAN
    /\ row \in [kept : BOOLEAN, count : Nat, age : Ages]
    /\ login \in [Logins -> [phase : Phases, age : Ages]]
    /\ ring \in Nat
    /\ failed \in Nat /\ written \in 0 .. Keep /\ missed \in 0 .. MaxMissed

LEMMA ShapesDo == TypeOK <=> Shapes
BY LeftInRange DEF TypeOK, Shapes

LEMMA ShapesThen == Shapes' => TypeOK'
<1>1. TypeOK <=> Shapes
  BY ShapesDo
<1> QED BY <1>1, PTL

LEMMA MovesType ==
    ASSUME TypeOK, NEW l \in Logins, NEW from, NEW to \in Phases, Moves(l, from, to)
    PROVE  login' \in [Logins -> [phase : Phases, age : Ages]]
BY AgesKnown DEF Moves, TypeOK

LEMMA AfterwardsKnown == Afterwards \in Phases
BY DEF Afterwards, Phases

LEMMA Nexts ==
    ASSUME TypeOK, NEW age \in Ages
    PROVE  /\ FirstFailure(age) =>
                /\ row' = [kept |-> TRUE, count |-> 1, age |-> age]
                /\ row' \in [kept : BOOLEAN, count : Nat, age : Ages]
                /\ failed' \in Nat \ {0}
           /\ NextFailure =>
                /\ row' = [kept |-> row.kept, count |-> row.count + 1, age |-> row.age]
                /\ row' \in [kept : BOOLEAN, count : Nat, age : Ages]
                /\ failed' = failed + 1
<1>1. ASSUME NextFailure
      PROVE  row' = [kept |-> row.kept, count |-> row.count + 1, age |-> row.age]
  BY <1>1 DEF NextFailure, TypeOK
<1>2. /\ row.kept \in BOOLEAN /\ row.count \in Nat /\ row.age \in Ages
      /\ failed \in Nat
  BY DEF TypeOK
<1>3. ASSUME FirstFailure(age)
      PROVE  /\ row' = [kept |-> TRUE, count |-> 1, age |-> age]
             /\ failed' \in Nat \ {0}
  BY <1>2, <1>3 DEF FirstFailure
<1>4. [kept |-> TRUE, count |-> 1, age |-> age]
        \in [kept : BOOLEAN, count : Nat, age : Ages]
  OBVIOUS
<1>5. [kept |-> row.kept, count |-> row.count + 1, age |-> row.age]
        \in [kept : BOOLEAN, count : Nat, age : Ages]
  BY <1>2
<1>6. NextFailure => failed' = failed + 1
  BY DEF NextFailure
<1> QED BY <1>1, <1>3, <1>4, <1>5, <1>6

-----------------------------------------------------------------------------
(* How many requests are in some phases.  *)
Count(F) == Cardinality({l \in Logins : login[l].phase \in F})

N == Cardinality(Logins)

LEMMA CountKnown ==
    ASSUME NEW CONSTANT F
    PROVE  Count(F) \in Nat /\ Count(F) <= N /\ N \in Nat
<1>1. {l \in Logins : login[l].phase \in F} \subseteq Logins
  OBVIOUS
<1> QED BY <1>1, ThrottleAssumption, FS_Subset, FS_CardinalityType DEF Count, N

(* What a move of one request does to every such number.  *)
LEMMA MovesCount ==
    ASSUME TypeOK, NEW CONSTANT F, NEW l \in Logins, NEW from, NEW to \in Phases,
           Moves(l, from, to)
    PROVE  /\ (from \in F <=> to \in F) => Count(F)' = Count(F)
           /\ from \in F /\ to \notin F => Count(F)' = Count(F) - 1
           /\ from \notin F /\ to \in F => Count(F)' = Count(F) + 1
<1> DEFINE Old == {m \in Logins : login[m].phase \in F}
           New == {m \in Logins : login'[m].phase \in F}
<1>1. Count(F) = Cardinality(Old) /\ Count(F)' = Cardinality(New)
  BY DEF Count
<1>2. /\ login[l].phase = from /\ login'[l].phase = to
      /\ \A m \in Logins \ {l} : login'[m].phase = login[m].phase
  BY DEF Moves, TypeOK
<1>3. IsFiniteSet(Old)
  BY ThrottleAssumption, FS_Subset, Old \subseteq Logins
<1>4. CASE from \in F <=> to \in F
  <2>1. New = Old
    BY <1>2, <1>4
  <2> QED BY <1>1, <1>4, <2>1
<1>5. CASE from \in F /\ to \notin F
  <2>1. New = Old \ {l} /\ l \in Old
    BY <1>2, <1>5
  <2> HIDE DEF Old, New
  <2>2. Cardinality(New) = Cardinality(Old) - 1
    BY <2>1, <1>3, FS_RemoveElement
  <2> QED BY <1>1, <1>5, <2>2
<1>6. CASE from \notin F /\ to \in F
  <2>1. New = Old \cup {l} /\ l \notin Old
    BY <1>2, <1>6
  <2> HIDE DEF Old, New
  <2>2. Cardinality(New) = Cardinality(Old) + 1
    BY <2>1, <1>3, FS_AddElement
  <2> QED BY <1>1, <1>6, <2>2
<1> QED BY <1>4, <1>5, <1>6

-----------------------------------------------------------------------------
(* Without D1 nobody is in its statements.  *)
InMemory ==
    ~bound => \A l \in Logins :
                login[l].phase \in {"idle", "checking", "recording", "clearing"}

Counting == TypeOK /\ NeverOverCounts /\ RingHolds /\ InMemory

LEMMA TrimmingCount == Cardinality(Trimming) = Count({"trimming"})
BY DEF Trimming, Count

LEMMA QuietStep ==
    ASSUME Counting, NEW l \in Logins,
           Pass(l) \/ Block(l) \/ Wrong(l) \/ Right(l) \/ Decide(l)
    PROVE  Counting'
<1> USE DEF Counting
<1>1. UNCHANGED <<bound, row, failed, ring, written, missed>>
  BY DEF Pass, Block, Wrong, Right, Decide, Moves, events
<1>2. PICK from \in Phases \ {"trimming"}, to \in Phases \ {"trimming"} :
        Moves(l, from, to)
  BY DEF Pass, Block, Wrong, Right, Decide, Afterwards, Phases
<1>3. TypeOK'
  BY <1>1, <1>2, MovesType, ShapesThen DEF TypeOK, Shapes
<1>4. Count({"trimming"})' = Count({"trimming"})
  BY <1>2, MovesCount
<1>5. (Cardinality(Trimming))' = Cardinality(Trimming)
  BY <1>4 DEF Trimming, Count
<1>6. InMemory'
  BY DEF Pass, Block, Wrong, Right, Decide, Afterwards, Moves, InMemory, TypeOK
<1> QED BY <1>1, <1>3, <1>5, <1>6 DEF NeverOverCounts, RingHolds

LEMMA RecordStep ==
    ASSUME Counting, NEW l \in Logins, Remember(l) \/ Open(l) \/ Add(l) \/ Clear(l)
    PROVE  Counting'
<1> USE DEF Counting
<1>1. UNCHANGED <<bound, ring, written, missed>>
  BY DEF Remember, Open, Add, Clear, Moves, events
<1>2. PICK from \in Phases \ {"trimming"}, to \in Phases \ {"trimming"} :
        Moves(l, from, to)
  BY DEF Remember, Open, Add, Clear, Afterwards, Phases
<1>3. login' \in [Logins -> [phase : Phases, age : Ages]]
  BY <1>2, MovesType
<1>4. Count({"trimming"})' = Count({"trimming"})
  BY <1>2, MovesCount
<1>5. (Cardinality(Trimming))' = Cardinality(Trimming)
  BY <1>4 DEF Trimming, Count
<1>6. login[l].age \in Ages
  BY DEF TypeOK
<1>7. /\ row' \in [kept : BOOLEAN, count : Nat, age : Ages]
      /\ failed' \in Nat
      /\ row'.kept => row'.count <= failed'
  <2>1. CASE Remember(l) \/ Open(l)
    <3>1. PICK age \in Ages : FirstFailure(age) \/ (NextFailure /\ ~Outdated(row))
      BY <2>1, <1>6, AgesKnown DEF Remember, Open
    <3> QED BY <3>1, Nexts DEF TypeOK, Outdated, NeverOverCounts
  <2>2. CASE Add(l)
    BY <2>2, <1>6, Nexts DEF Add, TypeOK, NeverOverCounts
  <2>3. CASE Clear(l)
    BY <2>3, AgesKnown DEF Clear, NoRow
  <2> QED BY <2>1, <2>2, <2>3
<1>8. InMemory'
  BY DEF Remember, Open, Add, Clear, Afterwards, Moves, InMemory, TypeOK
<1>9. TypeOK'
  BY <1>1, <1>3, <1>7, ShapesThen DEF TypeOK, Shapes
<1> QED BY <1>1, <1>5, <1>7, <1>8, <1>9 DEF NeverOverCounts, RingHolds

LEMMA EventStep ==
    ASSUME Counting, NEW l \in Logins, Log(l) \/ Trim(l) \/ Breaks(l)
    PROVE  Counting'
<1> USE DEF Counting
<1>1. UNCHANGED <<bound, row, failed>>
  BY DEF Log, Trim, Breaks, Moves
<1>7. InMemory'
  BY DEF Log, Trim, Breaks, Moves, Idle, InMemory, TypeOK
<1>2. Count({"trimming"}) \in Nat /\ Keep \in Nat /\ MaxMissed \in Nat
  BY CountKnown, ThrottleAssumption
<1>3. (Cardinality(Trimming))' = Count({"trimming"})'
  BY DEF Trimming, Count
<1>4. CASE Log(l)
  <2>1. Moves(l, "logging", "trimming")
    BY <1>4 DEF Log
  <2>2. login' \in [Logins -> [phase : Phases, age : Ages]]
    BY <2>1, MovesType DEF Phases
  <2>3. Count({"trimming"})' = Count({"trimming"}) + 1
    BY <2>1, MovesCount DEF Phases
  <2>4. ring' = ring + 1 /\ written' \in 0 .. Keep /\ written' <= written + 1
        /\ missed' = missed
    BY <1>2, <1>4 DEF Log, TypeOK
  <2> QED BY <1>1, <1>2, <1>3, <1>7, <2>2, <2>3, <2>4, TrimmingCount, ShapesThen
          DEF TypeOK, Shapes, NeverOverCounts, RingHolds
<1>5. CASE Trim(l)
  <2>1. Moves(l, "trimming", "idle")
    BY <1>5 DEF Trim
  <2>2. login' \in [Logins -> [phase : Phases, age : Ages]]
    BY <2>1, MovesType DEF Phases
  <2>3. Count({"trimming"})' \in Nat
    <3>1. Count({"trimming"})' = Count({"trimming"}) - 1
      BY <2>1, MovesCount DEF Phases
    <3>2. l \in Trimming
      BY <2>1 DEF Moves, Trimming
    <3>3. Cardinality(Trimming) # 0
      BY <3>2, ThrottleAssumption, FS_Subset, FS_EmptySet, Trimming \subseteq Logins
         DEF Trimming
    <3> QED BY <1>2, <3>1, <3>3, TrimmingCount
  <2>4. ring' \in Nat /\ ring' <= Keep /\ written <= ring' /\ written' = written
        /\ missed' = 0
    BY <1>2, <1>5 DEF Trim, Trimmed, TypeOK, RingHolds
  <2> QED BY <1>1, <1>2, <1>3, <1>7, <2>2, <2>3, <2>4, ShapesThen
         DEF TypeOK, Shapes, NeverOverCounts, RingHolds
<1>6. CASE Breaks(l)
  <2>1. PICK from \in Phases : from = login[l].phase /\ from # "idle"
    BY <1>6 DEF Breaks, TypeOK
  <2>2. Moves(l, from, "idle")
    BY <1>6, <2>1 DEF Breaks, Moves, Idle
  <2>3. login' \in [Logins -> [phase : Phases, age : Ages]]
    BY <2>2, MovesType DEF Phases
  <2>4. ring' = ring /\ written' = written
    BY <1>6 DEF Breaks
  <2>5. CASE from = "trimming"
    <3>1. Count({"trimming"})' = Count({"trimming"}) - 1
      BY <2>2, <2>5, MovesCount DEF Phases
    <3>2. missed' = missed + 1 /\ missed' \in 0 .. MaxMissed
      BY <1>2, <1>6, <2>1, <2>5 DEF Breaks, TypeOK
    <3> QED BY <1>1, <1>2, <1>3, <1>7, <2>3, <2>4, <3>1, <3>2, TrimmingCount, ShapesThen
            DEF TypeOK, Shapes, NeverOverCounts, RingHolds
  <2>6. CASE from # "trimming"
    <3>1. Count({"trimming"})' = Count({"trimming"})
      BY <2>2, <2>6, MovesCount DEF Phases
    <3>2. missed' = missed
      BY <1>6, <2>1, <2>6 DEF Breaks
    <3> QED BY <1>1, <1>2, <1>3, <1>7, <2>3, <2>4, <3>1, <3>2, TrimmingCount, ShapesThen
            DEF TypeOK, Shapes, NeverOverCounts, RingHolds
  <2> QED BY <2>5, <2>6
<1> QED BY <1>4, <1>5, <1>6

(* Time and evictions: who is in which phase.  *)
LEMMA TickCounts ==
    ASSUME TypeOK, Tick, NEW CONSTANT F
    PROVE  Count(F)' = Count(F)
<1>1. \A m \in Logins : login'[m].phase = login[m].phase
  BY DEF Tick, TypeOK
<1> QED BY <1>1 DEF Count

LEMMA EvictCounts ==
    ASSUME Evict, NEW CONSTANT F, "idle" \notin F
    PROVE  Count(F)' = 0
<1>1. {m \in Logins : login'[m].phase \in F} = {}
  BY DEF Evict, Idle
<1> QED BY <1>1, FS_EmptySet DEF Count

LEMMA ClockStep ==
    ASSUME Counting, Tick \/ Evict
    PROVE  Counting'
<1> USE DEF Counting
<1>0. Keep \in Nat /\ MaxMissed \in Nat
  BY ThrottleAssumption
<1>1. (Cardinality(Trimming))' = Count({"trimming"})'
  BY DEF Trimming, Count
<1>2. CASE Tick
  <2>1. row' = IF row.kept
               THEN [kept |-> row.kept, count |-> row.count, age |-> Older(row.age)]
               ELSE row
    BY <1>2 DEF Tick, TypeOK
  <2>2. login' \in [Logins -> [phase : Phases, age : Ages]]
    BY <1>2, AgesKnown DEF Tick, TypeOK
  <2>3. (Cardinality(Trimming))' = Cardinality(Trimming)
    BY <1>1, <1>2, TickCounts, TrimmingCount
  <2>4. TypeOK' /\ NeverOverCounts'
    BY <1>2, <2>1, <2>2, AgesKnown, ShapesThen
       DEF Tick, events, TypeOK, Shapes, NeverOverCounts
  <2>5. InMemory'
    BY <1>2 DEF Tick, InMemory, TypeOK
  <2> QED BY <1>2, <2>3, <2>4, <2>5 DEF Tick, events, RingHolds
<1>3. CASE Evict
  <2>1. login' \in [Logins -> [phase : Phases, age : Ages]]
    BY <1>3, AgesKnown DEF Evict, Idle, Phases
  <2>2. TypeOK' /\ NeverOverCounts'
    BY <1>3, <2>1, AgesKnown, ShapesThen
       DEF Evict, events, NoRow, TypeOK, Shapes, NeverOverCounts
  <2>3. (Cardinality(Trimming))' = 0
    BY <1>1, <1>3, EvictCounts
  <2>4. UNCHANGED <<ring, written, missed>>
    BY <1>3 DEF Evict, events
  <2>5. Cardinality(Trimming) = 0
    <3>1. Trimming = {}
      BY <1>3 DEF Evict, InMemory, Trimming
    <3> QED BY <3>1, FS_EmptySet
  <2>6. InMemory'
    BY <1>3 DEF Evict, Idle, InMemory
  <2> QED BY <2>2, <2>3, <2>4, <2>5, <2>6 DEF RingHolds
<1> QED BY <1>2, <1>3

(***************************************************************************)
(* The count holds no failure written before the last success or window,   *)
(* and the ring holds what it should.                                      *)
(***************************************************************************)
THEOREM ThrottleCounts == Spec => []Counting
<1>1. Init => Counting
  <2> SUFFICES ASSUME Init PROVE Counting
    OBVIOUS
  <2>1. Cardinality(Trimming) = 0
    <3>1. Trimming = {}
      BY DEF Init, Idle, Trimming
    <3> QED BY <3>1, FS_EmptySet
  <2>2. TypeOK
    BY AgesKnown, ThrottleAssumption, ShapesDo DEF Init, Shapes, NoRow, Idle, Phases
  <2> QED BY <2>1, <2>2, ThrottleAssumption
          DEF Init, Counting, NeverOverCounts, RingHolds, InMemory, NoRow, Idle
<1>2. ASSUME Counting, [Next]_vars PROVE Counting'
  <2> USE <1>2
  <2>1. CASE UNCHANGED vars
    <3>1. (Cardinality(Trimming))' = Cardinality(Trimming)
      BY <2>1 DEF vars, Trimming
    <3> QED BY <2>1, <3>1, ShapesThen
            DEF vars, events, Counting, TypeOK, Shapes, NeverOverCounts, RingHolds, InMemory
  <2> QED BY <2>1, QuietStep, RecordStep, EventStep, ClockStep DEF Next
<1> QED BY <1>1, <1>2, PTL DEF Spec

(***************************************************************************)
(* Requests, the row or map entry, the ring and the histories keep their   *)
(* types: every phase a request is in is one of the login handler's.       *)
(***************************************************************************)
THEOREM ThrottleTypeCorrect == Spec => []TypeOK
<1>1. Counting => TypeOK
  BY DEF Counting
<1> QED BY <1>1, ThrottleCounts, PTL

(***************************************************************************)
(* What the row counts in an open window was written since the last        *)
(* success: clearLoginThrottle leaves nothing to lock anybody out with,    *)
(* but for what is still on its way to the row.                            *)
(***************************************************************************)
THEOREM ThrottleNeverOverCounts == Spec => [](TypeOK /\ NeverOverCounts)
<1>1. Counting => TypeOK /\ NeverOverCounts
  BY DEF Counting
<1> QED BY <1>1, ThrottleCounts, PTL

(***************************************************************************)
(* addEvent's ring keeps the newest it should, and more than that only by  *)
(* trims that are under way or have failed.                                *)
(***************************************************************************)
THEOREM RingStaysSmall == Spec => []RingHolds
<1>1. Counting => RingHolds
  BY DEF Counting
<1> QED BY <1>1, ThrottleCounts, PTL

-----------------------------------------------------------------------------
(***************************************************************************)
(* Failures are bounded although the count is not kept: what has failed,   *)
(* what may still fail before the gate closes, and what every request that *)
(* is about to set the count back to one may let through after that, stay  *)
(* within the limit.  Once the window is over, only those count that are   *)
(* on their way to the row.                                                *)
(***************************************************************************)
M == MaxAttempts

Limit == 2 * N * M + N * (N - 1)

(* Twice what k requests about to open a window can add: M + N - j each.   *)
Openings(k) == k * (2 * (M + N) - k - 1)

(* With a count of c, k about to open and p past the gate.  *)
Spend(c, k, p) == IF c < M THEN (M - c) + (N - k) - 1 ELSE p

PastGate == {"checking", "recording", "adding"}

K == Count({"opening"})
P == Count(PastGate)
A == Count({"adding"})

Budget ==
    IF Outdated(row) THEN 2 * (failed + A) <= Limit
    ELSE 2 * (failed + Spend(row.count, K, P)) + Openings(K) <= Limit

LEMMA LimitKnown ==
    /\ N \in Nat /\ M \in Nat \ {0}
    /\ Limit \in Nat /\ 2 * N <= Limit
<1>1. N \in Nat /\ M \in Nat \ {0}
  BY ThrottleAssumption, FS_CardinalityType DEF N, M
<1>2. N * M \in Nat /\ N <= N * M
  BY <1>1
<1>3. N * (N - 1) \in Nat
  <2>1. CASE N = 0
    BY <2>1
  <2>2. CASE N > 0
    BY <1>1, <2>2
  <2> QED BY <1>1, <2>1, <2>2
<1>4. 2 * N * M = 2 * (N * M)
  BY <1>1
<1> QED BY <1>1, <1>2, <1>3, <1>4 DEF Limit

LEMMA OpeningsRise ==
    ASSUME NEW k \in Nat, k <= N
    PROVE  /\ Openings(k) \in Nat /\ Openings(k) <= Limit
           /\ k > 0 => Openings(k) = Openings(k - 1) + 2 * (M + N - k)
<1> USE LimitKnown
<1>1. k > 0 => Openings(k) = Openings(k - 1) + 2 * (M + N - k)
  BY DEF Openings
<1>2. 2 * (M + N) - k - 1 \in Nat
  OBVIOUS
<1>3. Openings(k) \in Nat
  BY <1>2 DEF Openings
<1>4. Limit - Openings(k) = (N - k) * (2 * M + N - k - 1)
  BY DEF Limit, Openings
<1>5. N - k \in Nat /\ 2 * M + N - k - 1 \in Nat
  OBVIOUS
<1>6. (N - k) * (2 * M + N - k - 1) \in Nat
  BY <1>5
<1> QED BY <1>1, <1>3, <1>4, <1>6

(* Where the requests are: k, p and a stand for K, P and A.  *)
PlacedAs(k, p, a) == K = k /\ P = p /\ A = a /\ a <= p /\ k + p <= N

Placed == \E k \in Nat, p \in Nat, a \in Nat : PlacedAs(k, p, a)

LEMMA Places == Placed
<1> DEFINE In(F) == {l \in Logins : login[l].phase \in F}
<1>1. /\ In({"opening"}) \subseteq Logins /\ In(PastGate) \subseteq Logins
      /\ In({"adding"}) \subseteq In(PastGate)
  BY DEF PastGate
<1>2. In({"opening"}) \cap In(PastGate) = {}
  BY DEF PastGate
<1>3. /\ K = Cardinality(In({"opening"})) /\ P = Cardinality(In(PastGate))
      /\ A = Cardinality(In({"adding"}))
  BY DEF K, P, A, Count
<1>4. K \in Nat /\ P \in Nat /\ A \in Nat
  BY CountKnown DEF K, P, A
<1> HIDE DEF In
<1>5. IsFiniteSet(In({"opening"})) /\ IsFiniteSet(In(PastGate))
  BY <1>1, ThrottleAssumption, FS_Subset
<1>6. A <= P
  BY <1>1, <1>3, <1>5, FS_Subset
<1>7. K + P <= N
  <2>1. Cardinality(In({"opening"}) \cap In(PastGate)) = 0
    <3>1. Cardinality({}) = 0
      BY FS_EmptySet
    <3> QED BY <1>2, <3>1, Zenon
  <2>2. Cardinality(In({"opening"}) \cup In(PastGate))
          = Cardinality(In({"opening"})) + Cardinality(In(PastGate))
              - Cardinality(In({"opening"}) \cap In(PastGate))
    BY <1>5, FS_Union
  <2>3. Cardinality(In({"opening"}) \cup In(PastGate)) <= Cardinality(Logins)
    BY <1>1, ThrottleAssumption, FS_Subset,
       In({"opening"}) \cup In(PastGate) \subseteq Logins
  <2> QED BY <1>3, <1>4, <2>1, <2>2, <2>3 DEF N
<1> QED BY <1>4, <1>6, <1>7 DEF Placed, PlacedAs

(* The same, after a step.  *)
LEMMA PlacesThen ==
    \E k \in Nat, p \in Nat, a \in Nat :
      K' = k /\ P' = p /\ A' = a /\ a <= p /\ k + p <= N
<1>1. Placed'
  <2>1. Placed
    BY Places
  <2> QED BY <2>1, PTL
<1> QED BY <1>1 DEF Placed, PlacedAs, N

LEMMA BudgetThen ==
    Budget' <=> IF Outdated(row)' THEN 2 * (failed' + A') <= Limit
                ELSE 2 * (failed' + Spend(row'.count, K', P')) + Openings(K') <= Limit
BY DEF Budget, Limit, Spend, Openings, M, N

(* What a move of one request does to the three numbers.  *)
LEMMA MovedOn ==
    ASSUME TypeOK, NEW l \in Logins, NEW from \in Phases, NEW to \in Phases,
           Moves(l, from, to)
    PROVE  /\ from # "opening" /\ to # "opening" => K' = K
           /\ from = "opening" /\ to # "opening" => K' = K - 1
           /\ from \in PastGate /\ to \in PastGate => P' = P
           /\ from \in PastGate /\ to \notin PastGate => P' = P - 1
           /\ from \notin PastGate /\ to \notin PastGate => P' = P
           /\ from # "adding" /\ to # "adding" => A' = A
           /\ from = "adding" /\ to # "adding" => A' = A - 1
BY MovesCount DEF K, P, A

(* A step that records nothing.  *)
LEMMA NothingRecorded ==
    ASSUME TypeOK, Budget, UNCHANGED <<bound, row, failed>>,
           \/ Outdated(row) /\ A' <= A
           \/ /\ ~Outdated(row) /\ (K' = K \/ K' = K - 1)
              /\ (P' <= P \/ row.count < M)
    PROVE  Budget'
<1>1. PICK k \in Nat, p \in Nat, a \in Nat :
        K = k /\ P = p /\ A = a /\ a <= p /\ k + p <= N
  BY Places DEF Placed, PlacedAs
<1>2. PICK kk \in Nat, pp \in Nat, aa \in Nat :
        K' = kk /\ P' = pp /\ A' = aa /\ aa <= pp /\ kk + pp <= N
  BY PlacesThen
<1>3. PICK f \in Nat, c \in Nat : failed = f /\ row.count = c
  BY DEF TypeOK
<1>4. N \in Nat /\ M \in Nat /\ Limit \in Nat
  BY LimitKnown
<1>5. Outdated(row)' = Outdated(row)
  BY DEF Outdated
<1>6. CASE Outdated(row)
  <2>1. 2 * (f + a) <= Limit
    BY <1>1, <1>3, <1>6 DEF Budget
  <2>2. aa <= a
    BY <1>1, <1>2, <1>6
  <2>3. 2 * (f + aa) <= Limit
    BY <1>4, <2>1, <2>2
  <2> QED BY <1>2, <1>3, <1>5, <1>6, <2>3, BudgetThen
<1>7. CASE ~Outdated(row)
  <2>1. 2 * (f + Spend(c, k, p)) + Openings(k) <= Limit
    BY <1>1, <1>3, <1>7 DEF Budget
  <2>2. (kk = k \/ kk = k - 1) /\ (pp <= p \/ c < M)
    BY <1>1, <1>2, <1>3, <1>7
  <2>3. /\ Openings(k) \in Nat /\ Openings(kk) \in Nat
        /\ k > 0 => Openings(k) = Openings(k - 1) + 2 * (M + N - k)
    BY <1>1, <1>2, <1>4, OpeningsRise
  <2>4. 2 * (f + Spend(c, kk, pp)) + Openings(kk) <= Limit
    <3>1. CASE kk = k
      BY <1>1, <1>2, <1>4, <2>1, <2>2, <2>3, <3>1 DEF Spend
    <3>2. CASE kk = k - 1
      BY <1>1, <1>2, <1>4, <2>1, <2>2, <2>3, <3>2 DEF Spend
    <3> QED BY <2>2, <3>1, <3>2
  <2> QED BY <1>2, <1>3, <1>5, <1>7, <2>4, BudgetThen
<1> QED BY <1>6, <1>7

(* A failure that opens a window: by a request that decided so earlier, or *)
(* by one that just found the window over.                                 *)
LEMMA WindowOpened ==
    ASSUME TypeOK, Budget, NEW age \in Ages, FirstFailure(age), bound' = bound,
           K' + 1 = K \/ (K' = K /\ Outdated(row) /\ P' + 1 = P), P' <= P
    PROVE  Budget'
<1>1. PICK k \in Nat, p \in Nat, a \in Nat :
        K = k /\ P = p /\ A = a /\ a <= p /\ k + p <= N
  BY Places DEF Placed, PlacedAs
<1>2. PICK kk \in Nat, pp \in Nat, aa \in Nat :
        K' = kk /\ P' = pp /\ A' = aa /\ aa <= pp /\ kk + pp <= N
  BY PlacesThen
<1>3. PICK f \in Nat, c \in Nat : failed = f /\ row.count = c
  BY DEF TypeOK
<1>4. N \in Nat /\ M \in Nat \ {0} /\ Limit \in Nat
  BY LimitKnown
<1>5. kk + pp + 1 <= N /\ (kk + 1 = k \/ Outdated(row))
  <2>1. (kk + 1 = k /\ pp <= p) \/ (kk = k /\ Outdated(row) /\ pp + 1 = p)
    BY <1>1, <1>2
  <2> QED BY <1>1, <1>4, <2>1
<1>6. /\ Openings(kk) \in Nat /\ Openings(kk + 1) \in Nat /\ Openings(kk + 1) <= Limit
      /\ Openings(kk + 1) = Openings(kk) + 2 * (M + N - (kk + 1))
  <2>1. kk + 1 \in Nat /\ kk + 1 <= N /\ kk <= N /\ (kk + 1) - 1 = kk /\ kk + 1 > 0
    BY <1>4, <1>5
  <2>2. Openings(kk) \in Nat /\ Openings(kk + 1) \in Nat /\ Openings(kk + 1) <= Limit
    BY <2>1, OpeningsRise
  <2>3. Openings(kk + 1) = Openings((kk + 1) - 1) + 2 * (M + N - (kk + 1))
    BY <2>1, OpeningsRise
  <2> QED BY <2>1, <2>2, <2>3
<1>7. PICK ff \in Nat : failed' = ff /\ ff = (IF Outdated(row) THEN 1 ELSE f + 1)
  BY <1>3 DEF FirstFailure
<1>8. row'.count = 1
  BY DEF FirstFailure
<1>9. 2 * ff + 2 * (M + N - (kk + 1)) - 2 + Openings(kk) <= Limit
  <2>1. CASE Outdated(row)
    BY <1>4, <1>6, <1>7, <2>1
  <2>2. CASE ~Outdated(row)
    <3>1. 2 * (f + Spend(c, k, p)) + Openings(k) <= Limit
      BY <1>1, <1>3, <2>2 DEF Budget
    <3>2. k = kk + 1 /\ Spend(c, k, p) \in Nat
      BY <1>1, <1>3, <1>4, <1>5, <2>2 DEF Spend
    <3> QED BY <1>4, <1>6, <1>7, <2>2, <3>1, <3>2
  <2> QED BY <2>1, <2>2
<1>10. 2 * (ff + aa) <= Limit
  BY <1>2, <1>4, <1>5, <1>6, <1>9
<1>11. 2 * (ff + Spend(1, kk, pp)) + Openings(kk) <= Limit
  BY <1>2, <1>4, <1>5, <1>6, <1>9 DEF Spend
<1> QED BY <1>2, <1>7, <1>8, <1>10, <1>11, BudgetThen

(* A failure that is added to the count.  *)
LEMMA Counted ==
    ASSUME TypeOK, Budget, NextFailure, bound' = bound, K' = K, P' + 1 = P,
           ~Outdated(row) \/ A' + 1 = A
    PROVE  Budget'
<1>1. PICK k \in Nat, p \in Nat, a \in Nat :
        K = k /\ P = p /\ A = a /\ a <= p /\ k + p <= N
  BY Places DEF Placed, PlacedAs
<1>2. PICK kk \in Nat, pp \in Nat, aa \in Nat :
        K' = kk /\ P' = pp /\ A' = aa /\ aa <= pp /\ kk + pp <= N
  BY PlacesThen
<1>3. PICK f \in Nat, c \in Nat : failed = f /\ row.count = c
  BY DEF TypeOK
<1>4. N \in Nat /\ M \in Nat \ {0} /\ Limit \in Nat
  BY LimitKnown
<1>5. /\ failed' = f + 1 /\ row'.count = c + 1
      /\ row'.kept = row.kept /\ row'.age = row.age
  BY <1>3, AgesKnown, Nexts
<1>6. Outdated(row)' = Outdated(row)
  BY <1>5 DEF Outdated
<1>7. kk = k /\ pp + 1 = p
  BY <1>1, <1>2
<1>8. CASE Outdated(row)
  <2>1. 2 * (f + a) <= Limit /\ aa + 1 = a
    BY <1>1, <1>2, <1>3, <1>8 DEF Budget
  <2>2. 2 * ((f + 1) + aa) <= Limit
    BY <1>4, <2>1
  <2> QED BY <1>2, <1>5, <1>6, <1>8, <2>2, BudgetThen
<1>9. CASE ~Outdated(row)
  <2>1. 2 * (f + Spend(c, k, p)) + Openings(k) <= Limit
    BY <1>1, <1>3, <1>9 DEF Budget
  <2>2. Openings(k) \in Nat
    BY <1>1, <1>4, OpeningsRise
  <2>3. 2 * ((f + 1) + Spend(c + 1, k, pp)) + Openings(k) <= Limit
    BY <1>1, <1>4, <1>7, <2>1, <2>2 DEF Spend
  <2> QED BY <1>2, <1>5, <1>6, <1>7, <1>9, <2>3, BudgetThen
<1> QED BY <1>8, <1>9

(* After a success, or without the map, nothing has failed.  *)
LEMMA Forgotten ==
    ASSUME row' = NoRow, failed' = 0
    PROVE  Budget'
<1>1. PICK kk \in Nat, pp \in Nat, aa \in Nat :
        K' = kk /\ P' = pp /\ A' = aa /\ aa <= pp /\ kk + pp <= N
  BY PlacesThen
<1>2. Outdated(row)'
  BY DEF Outdated, NoRow
<1>3. 2 * (0 + aa) <= Limit
  BY <1>1, LimitKnown
<1> QED BY <1>1, <1>2, <1>3, BudgetThen

LEMMA BudgetTick ==
    ASSUME TypeOK, Budget, Tick
    PROVE  Budget'
<1>1. PICK k \in Nat, p \in Nat, a \in Nat :
        K = k /\ P = p /\ A = a /\ a <= p /\ k + p <= N
  BY Places DEF Placed, PlacedAs
<1>2. K' = k /\ P' = p /\ A' = a
  BY <1>1, TickCounts DEF K, P, A
<1>3. PICK f \in Nat, c \in Nat : failed = f /\ row.count = c
  BY DEF TypeOK
<1>4. N \in Nat /\ M \in Nat \ {0} /\ Limit \in Nat
  BY LimitKnown
<1>5. /\ failed' = f /\ row'.count = c /\ row'.kept = row.kept
      /\ row'.age = (IF row.kept THEN Older(row.age) ELSE row.age)
      /\ bound' = bound
  BY <1>3 DEF Tick, events, TypeOK
<1>6. Outdated(row) => Outdated(row)'
  <2>1. Window \in Nat /\ row.age \in Nat
    BY ThrottleAssumption DEF TypeOK, Ages
  <2> QED BY <1>5, <2>1 DEF Outdated, Older
<1>7. CASE Outdated(row)
  <2>1. 2 * (f + a) <= Limit
    BY <1>1, <1>3, <1>7 DEF Budget
  <2> QED BY <1>2, <1>5, <1>6, <1>7, <2>1, BudgetThen
<1>8. CASE ~Outdated(row)
  <2>1. 2 * (f + Spend(c, k, p)) + Openings(k) <= Limit
    BY <1>1, <1>3, <1>8 DEF Budget
  <2>2. Openings(k) \in Nat /\ a <= Spend(c, k, p) /\ Spend(c, k, p) \in Nat
    BY <1>1, <1>4, OpeningsRise DEF Spend
  <2>3. 2 * (f + a) <= Limit
    BY <1>4, <2>1, <2>2
  <2> QED BY <1>2, <1>5, <2>1, <2>3, BudgetThen
<1> QED BY <1>7, <1>8

LEMMA BudgetStep ==
    ASSUME Counting, Budget, [Next]_vars
    PROVE  Budget'
<1>1. TypeOK
  BY DEF Counting
<1>2. ASSUME NEW l \in Logins, Pass(l) PROVE Budget'
  <2>1. Moves(l, "idle", "checking") /\ UNCHANGED <<bound, row, failed>>
    BY <1>2 DEF Pass, Moves
  <2>2. K' = K /\ A' = A
    BY <1>1, <2>1, MovedOn DEF Phases
  <2>3. Outdated(row) \/ row.count < M
    <3>1. row.count \in Nat /\ M \in Nat
      BY <1>1, LimitKnown DEF TypeOK
    <3> QED BY <1>2, <3>1 DEF Pass, AttemptsLeft, M
  <2>4. A' <= A
    BY <2>2, Places DEF Placed, PlacedAs
  <2> QED BY <1>1, <2>1, <2>2, <2>3, <2>4, NothingRecorded
<1>3. ASSUME NEW l \in Logins, Block(l) \/ Wrong(l) \/ Right(l) \/ Log(l) \/ Trim(l)
      PROVE  Budget'
  <2>1. UNCHANGED <<bound, row, failed>>
    BY <1>3 DEF Block, Wrong, Right, Log, Trim, Moves
  <2>2. PICK from \in Phases, to \in Phases :
          /\ Moves(l, from, to) /\ from \notin {"opening", "adding"}
          /\ to \notin {"opening", "adding"} /\ (to \in PastGate => from \in PastGate)
    BY <1>3 DEF Block, Wrong, Right, Log, Trim, Afterwards, Phases, PastGate
  <2>3. K' = K /\ A' = A /\ (P' = P \/ P' = P - 1)
    BY <1>1, <2>2, MovedOn
  <2>4. A' <= A /\ P' <= P
    BY <2>3, Places DEF Placed, PlacedAs
  <2> QED BY <1>1, <2>1, <2>3, <2>4, NothingRecorded
<1>4. ASSUME NEW l \in Logins, Breaks(l) PROVE Budget'
  <2>1. UNCHANGED <<bound, row, failed>>
    BY <1>4 DEF Breaks
  <2>2. PICK from \in Phases : Moves(l, from, "idle")
    BY <1>1, <1>4 DEF Breaks, Moves, Idle, TypeOK
  <2>3. (K' = K \/ K' = K - 1) /\ (A' = A \/ A' = A - 1) /\ (P' = P \/ P' = P - 1)
    BY <1>1, <2>2, MovedOn DEF Phases, PastGate
  <2>4. A' <= A /\ P' <= P
    BY <2>3, Places DEF Placed, PlacedAs
  <2> QED BY <1>1, <2>1, <2>3, <2>4, NothingRecorded
<1>5. ASSUME NEW l \in Logins, Decide(l) PROVE Budget'
  <2>1. UNCHANGED <<bound, row, failed>>
    BY <1>5 DEF Decide, Moves
  <2>2. CASE Outdated(row)
    <3>1. A' = A
      BY <1>1, <1>5, <2>2, MovedOn DEF Decide, Phases
    <3>2. A' <= A
      BY <3>1, Places DEF Placed, PlacedAs
    <3> QED BY <1>1, <2>1, <2>2, <3>2, NothingRecorded
  <2>3. CASE ~Outdated(row)
    <3>1. K' = K /\ P' = P
      BY <1>1, <1>5, <2>3, MovedOn DEF Decide, Phases, PastGate
    <3>2. P' <= P
      BY <3>1, Places DEF Placed, PlacedAs
    <3> QED BY <1>1, <2>1, <2>3, <3>1, <3>2, NothingRecorded
  <2> QED BY <2>2, <2>3
<1>6. ASSUME NEW l \in Logins, Remember(l) PROVE Budget'
  <2>1. Moves(l, "recording", "idle")
    BY <1>6 DEF Remember
  <2>2. K' = K /\ P' = P - 1 /\ bound' = bound
    BY <1>1, <2>1, MovedOn DEF Moves, Phases, PastGate
  <2>3. P' + 1 = P /\ P' <= P
    BY <2>2, Places DEF Placed, PlacedAs
  <2>4. (Outdated(row) /\ FirstFailure(0)) \/ (~Outdated(row) /\ NextFailure)
    BY <1>6 DEF Remember
  <2> QED BY <1>1, <2>2, <2>3, <2>4, AgesKnown, WindowOpened, Counted
<1>7. ASSUME NEW l \in Logins, Open(l) PROVE Budget'
  <2>1. Moves(l, "opening", Afterwards) /\ FirstFailure(login[l].age)
    BY <1>7 DEF Open
  <2>2. K' = K - 1 /\ P' = P /\ bound' = bound
    BY <1>1, <2>1, MovedOn DEF Moves, Afterwards, Phases, PastGate
  <2>3. K' + 1 = K /\ P' <= P /\ login[l].age \in Ages
    BY <1>1, <2>2, Places DEF Placed, PlacedAs, TypeOK
  <2> QED BY <1>1, <2>1, <2>2, <2>3, WindowOpened
<1>8. ASSUME NEW l \in Logins, Add(l) PROVE Budget'
  <2>1. Moves(l, "adding", Afterwards)
    BY <1>8 DEF Add
  <2>2. K' = K /\ P' = P - 1 /\ A' = A - 1 /\ bound' = bound
    BY <1>1, <2>1, MovedOn DEF Moves, Afterwards, Phases, PastGate
  <2>3. P' + 1 = P /\ A' + 1 = A /\ A' <= A /\ P' <= P
    BY <2>2, Places DEF Placed, PlacedAs
  <2>4. CASE NextFailure
    BY <1>1, <2>2, <2>3, <2>4, Counted
  <2>5. CASE ~row.kept /\ UNCHANGED <<row, failed>>
    BY <1>1, <2>2, <2>3, <2>5, NothingRecorded DEF Outdated
  <2> QED BY <1>8, <2>4, <2>5 DEF Add
<1>9. ASSUME NEW l \in Logins, Clear(l) PROVE Budget'
  BY <1>9, Forgotten DEF Clear
<1>10. Evict => Budget'
  BY Forgotten DEF Evict
<1>11. Tick => Budget'
  BY <1>1, BudgetTick
<1>12. UNCHANGED vars => Budget'
  <2>1. UNCHANGED vars => K' = K /\ P' = P /\ A' = A /\ UNCHANGED <<bound, row, failed>>
    BY DEF vars, K, P, A, Count
  <2>2. P <= P /\ A <= A
    BY Places DEF Placed, PlacedAs
  <2> QED BY <1>1, <2>1, <2>2, NothingRecorded
<1> QED BY <1>2, <1>3, <1>4, <1>5, <1>6, <1>7, <1>8, <1>9, <1>10, <1>11, <1>12 DEF Next

(***************************************************************************)
(* However the requests interleave, so many failures are let through and   *)
(* no more.                                                                *)
(***************************************************************************)
THEOREM FailuresStayBounded == Spec => []FailuresBounded
<1>1. Init => Budget
  <2> SUFFICES ASSUME Init PROVE Budget
    OBVIOUS
  <2>1. Count({"adding"}) = 0
    <3>1. {l \in Logins : login[l].phase \in {"adding"}} = {}
      BY DEF Init, Idle
    <3> QED BY <3>1, FS_EmptySet DEF Count
  <2>2. Outdated(row) /\ failed = 0
    BY DEF Init, NoRow, Outdated
  <2> QED BY <2>1, <2>2, LimitKnown DEF Budget, A
<1>2. Counting /\ Budget /\ [Next]_vars => Budget'
  BY BudgetStep
<1>3. Counting /\ Budget => FailuresBounded
  <2> SUFFICES ASSUME Counting, Budget PROVE FailuresBounded
    OBVIOUS
  <2>1. PICK k \in Nat, p \in Nat, a \in Nat :
          K = k /\ P = p /\ A = a /\ a <= p /\ k + p <= N
    BY Places DEF Placed, PlacedAs
  <2>2. PICK f \in Nat, c \in Nat : failed = f /\ row.count = c
    BY DEF Counting, TypeOK
  <2>3. /\ N \in Nat /\ M \in Nat \ {0} /\ Limit \in Nat
        /\ Openings(k) \in Nat /\ Spend(c, k, p) \in Nat
    BY <2>1, LimitKnown, OpeningsRise DEF Spend
  <2>4. \/ 2 * (f + a) <= Limit
        \/ 2 * (f + Spend(c, k, p)) + Openings(k) <= Limit
    BY <2>1, <2>2 DEF Budget
  <2>5. 2 * failed <= Limit
    BY <2>2, <2>3, <2>4
  <2> QED BY <2>5 DEF FailuresBounded, Limit, M, N
<1> QED BY <1>1, <1>2, <1>3, ThrottleCounts, PTL DEF Spec
=============================================================================
