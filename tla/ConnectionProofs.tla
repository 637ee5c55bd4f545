--------------------------- MODULE ConnectionProofs ---------------------------
(***************************************************************************)
(* Theorems about WireHeader and Connection: what the parsers make of any  *)
(* cut of any stream, and what a connection does with it, for every list   *)
(* of proxies and every number of frames.                                  *)
(***************************************************************************)
EXTENDS Connection, TLAPS, FiniteSetTheorems, FunctionTheorems

LEMMA StreamNumbers ==
    ASSUME NEW s \in Stream
    PROVE  /\ AtypAt(s) \in Nat /\ AddressEnd(s) \in Nat
           /\ HeaderLen(s) \in Nat /\ HeaderLen(s) >= 22
           /\ Total(s) \in Nat /\ HeaderLen(s) <= Total(s)
<1>1. AddressLen(s) \in Nat
  BY DEF AddressLen, Stream
<1>2. AtypAt(s) \in Nat /\ AtypAt(s) >= 21
  BY DEF AtypAt, Stream
<1> QED BY <1>1, <1>2 DEF AddressEnd, HeaderLen, Total, Stream

(***************************************************************************)
(* However many bytes of a well-formed header have come, the parsers wait, *)
(* read it, refuse a Trojan header cut in its second CRLF, or read a VLESS *)
(* header with options cut before the length of its domain as empty.       *)
(***************************************************************************)
THEOREM EveryCut ==
    ASSUME NEW s \in Stream, NEW n \in Nat, WellFormed(s)
    PROVE  /\ Parse(s, n) = "bad" =>
                s.proto = "trojan" /\ n >= AddressEnd(s) /\ n < HeaderLen(s)
           /\ Parse(s, n) = "empty" =>
                s.proto = "vless" /\ s.opt >= 4 /\ LengthMissing(s, n)
           /\ Parse(s, n) = "target" => n >= HeaderLen(s)
<1>1. AtypAt(s) \in Nat /\ AddressEnd(s) \in Nat /\ HeaderLen(s) \in Nat
  BY StreamNumbers
<1>2. ~BadStart(s) /\ s.fault = "none" /\ s.proto \in {"vless", "trojan"}
  BY DEF WellFormed, BadStart, Stream, Protocols
<1>3. ASSUME LengthMissing(s, n), ~TooShort(s, n)
      PROVE  s.proto = "vless" /\ s.opt >= 4
  BY <1>2, <1>3 DEF LengthMissing, TooShort, AtypAt, Stream
<1>4. ~AddressShort(s, n) /\ ~LengthMissing(s, n) => n >= AddressEnd(s)
  BY <1>1 DEF AddressShort
<1>5. BadTail(s, n) <=> s.proto = "trojan" /\ n < HeaderLen(s)
  BY <1>2 DEF BadTail
<1>6. s.proto = "vless" => HeaderLen(s) = AddressEnd(s)
  BY DEF HeaderLen
<1> QED BY <1>1, <1>2, <1>3, <1>4, <1>5, <1>6 DEF Parse

(***************************************************************************)
(* More is asked for only while a header is not whole, if its domain has   *)
(* three characters or more.                                               *)
(***************************************************************************)
THEOREM EnoughIsEnough ==
    ASSUME NEW s \in Stream, NEW n \in Nat, WellFormed(s),
           s.atyp = "domain" => s.name >= 3, Parse(s, n) = "wait"
    PROVE  n < HeaderLen(s)
<1>1. AddressLen(s) \in Nat /\ AddressLen(s) >= 4
  BY DEF AddressLen, WellFormed, Stream
<1>2. s.opt \in Nat /\ s.proto \in {"vless", "trojan"} /\ ~BadStart(s)
  BY DEF WellFormed, BadStart, Stream, Protocols
<1>3. CASE TooShort(s, n)
  BY <1>1, <1>2, <1>3 DEF TooShort, HeaderLen, AddressEnd, AtypAt
<1>4. CASE AddressShort(s, n)
  BY <1>1, <1>2, <1>4 DEF AddressShort, HeaderLen, AddressEnd, AtypAt
<1> QED BY <1>2, <1>3, <1>4 DEF Parse

-----------------------------------------------------------------------------
(* What a connection that has not dialed yet has not touched, and that an  *)
(* attempt to dial has a socket.                                           *)
Untouched ==
    /\ phase = "reading" => plan = <<>> /\ socks = <<>> /\ first = 0
    /\ phase \in {"reading", "dialing"} =>
         /\ up = 0 /\ ~leftover /\ outcome = "none"
    /\ phase \in {"dialing", "open"} => socks # <<>>
    /\ phase = "open" => outcome = "none"
    /\ phase = "dialing" => first \in {0, HeaderLen(stream)}

Typed == TypeOK /\ Untouched

LEMMA InitTyped == Init => Typed
<1> SUFFICES ASSUME Init PROVE Typed
  OBVIOUS
<1>1. stream \in Stream
  BY ConnectionAssumption DEF Init
<1>2. Total(stream) \in Nat
  BY <1>1, StreamNumbers
<1>3. limit \in 0 .. Total(stream) /\ have \in 0 .. limit /\ first \in 0 .. have
  BY <1>2 DEF Init
<1>4. plan \in Seq(Addresses) /\ socks \in Seq(SockStates) /\ Len(socks) <= Len(plan)
  BY DEF Init
<1>5. reads \in 0 .. MaxReads /\ up \in Nat /\ down \in 0 .. MaxDown
  BY ConnectionAssumption DEF Init
<1>6. TypeOK
  BY <1>3, <1>4, <1>5 DEF Init, TypeOK, Outcomes
<1> QED BY <1>6 DEF Init, Typed, Untouched

LEMMA StreamKnown ==
    ASSUME TypeOK
    PROVE  /\ stream \in Stream /\ Total(stream) \in Nat
           /\ HeaderLen(stream) \in Nat /\ HeaderLen(stream) >= 22
           /\ limit \in Nat /\ have \in Nat /\ first \in Nat /\ reads \in Nat
           /\ have <= limit /\ limit <= Total(stream) /\ first <= have
<1>1. stream \in Stream
  BY ConnectionAssumption DEF TypeOK
<1>2. Total(stream) \in Nat /\ HeaderLen(stream) \in Nat /\ HeaderLen(stream) >= 22
  BY <1>1, StreamNumbers
<1> QED BY <1>1, <1>2, ConnectionAssumption DEF TypeOK

LEMMA GiveUpTyped ==
    ASSUME Typed, phase = "reading", NEW why \in Outcomes \ {"none"}, GiveUp(why)
    PROVE  Typed'
BY DEF GiveUp, Typed, TypeOK, Untouched, readVars, dialVars, pipeVars

(* Where the payload begins is known when the header is parsed.  *)
LEMMA FirstByteKnown ==
    ASSUME TypeOK, Parse(stream, have) \in {"target", "empty"}
    PROVE  FirstByte \in 0 .. have /\ FirstByte \in {0, HeaderLen(stream)}
<1>1. CASE Parse(stream, have) = "empty"
  BY <1>1, StreamKnown DEF FirstByte
<1>2. CASE Parse(stream, have) = "target"
  <2>1. ~BadTail(stream, have) /\ ~AddressShort(stream, have)
        /\ ~LengthMissing(stream, have)
    BY <1>2 DEF Parse
  <2>2. stream.proto = "trojan" => have >= HeaderLen(stream)
    BY <2>1, StreamKnown DEF BadTail
  <2>3. have >= AddressEnd(stream)
    BY <2>1, StreamKnown, StreamNumbers DEF AddressShort
  <2>4. have >= HeaderLen(stream)
    BY <2>2, <2>3 DEF HeaderLen
  <2> QED BY <1>2, <2>4, StreamKnown DEF FirstByte
<1> QED BY <1>1, <1>2

(* The plan holds the list, from its start all the way round.  *)
LEMMA Wraps ==
    ASSUME NEW n \in Nat \ {0}, NEW i \in 0 .. n - 1, NEW j \in 0 .. n - 1
    PROVE  (i + j) % n = IF i + j < n THEN i + j ELSE i + j - n
OBVIOUS

LEMMA RotationKnown ==
    ASSUME NEW start \in Starts
    PROVE  /\ Rotation(start) \in Seq(Addresses)
           /\ Len(Rotation(start)) = Len(ProxyIPs)
           /\ \A k \in 1 .. Len(ProxyIPs) :
                Rotation(start)[k] =
                  ProxyIPs[IF start + k <= Len(ProxyIPs) THEN start + k
                           ELSE start + k - Len(ProxyIPs)]
<1> DEFINE n == Len(ProxyIPs)
<1>1. n \in Nat \ {0}
  BY ConnectionAssumption DEF Starts
<1>2. ASSUME NEW k \in 1 .. n
      PROVE  (start + k - 1) % n =
               IF start + k <= n THEN start + k - 1 ELSE start + k - 1 - n
  <2>1. start \in 0 .. n - 1 /\ k - 1 \in 0 .. n - 1
    BY <1>1 DEF Starts
  <2>2. (start + (k - 1)) % n =
           IF start + (k - 1) < n THEN start + (k - 1) ELSE start + (k - 1) - n
    BY <1>1, <2>1, Wraps
  <2>3. start + (k - 1) = start + k - 1
    BY <2>1
  <2> QED BY <2>1, <2>2, <2>3, <1>1
<1>3. ASSUME NEW k \in 1 .. n
      PROVE  /\ ((start + k - 1) % n) + 1 =
                  (IF start + k <= n THEN start + k ELSE start + k - n)
             /\ ((start + k - 1) % n) + 1 \in 1 .. n
  <2>1. start \in 0 .. n - 1 /\ k \in 1 .. n
    BY DEF Starts
  <2>2. CASE start + k <= n
    <3>1. (start + k - 1) % n = start + k - 1
      BY <1>2, <2>2
    <3> QED BY <1>1, <2>1, <2>2, <3>1
  <2>3. CASE ~(start + k <= n)
    <3>1. (start + k - 1) % n = start + k - 1 - n
      BY <1>2, <2>3
    <3> QED BY <1>1, <2>1, <2>3, <3>1
  <2> QED BY <2>2, <2>3
<1>4. \A k \in 1 .. n : ProxyIPs[((start + k - 1) % n) + 1] \in Addresses
  BY <1>3, ConnectionAssumption
<1>5. Rotation(start) = [k \in 1 .. n |-> ProxyIPs[((start + k - 1) % n) + 1]]
  BY DEF Rotation
<1>6. Rotation(start) \in Seq(Addresses) /\ Len(Rotation(start)) = n
  BY <1>1, <1>4, <1>5
<1> QED BY <1>3, <1>5, <1>6

-----------------------------------------------------------------------------
LEMMA HeaderTyped ==
    ASSUME Typed, Header
    PROVE  Typed'
<1>1. ASSUME NEW k \in 0 .. Total(stream), ReadFrame(k)
      PROVE  Typed'
  <2>1. have' \in 0 .. limit /\ reads' \in 0 .. MaxReads /\ first' \in 0 .. have'
    BY <1>1, StreamKnown, ConnectionAssumption DEF ReadFrame, Waiting, Typed, TypeOK
  <2> QED BY <1>1, <2>1 DEF ReadFrame, Waiting, Typed, TypeOK, Untouched, dialVars,
             pipeVars
<1>2. CASE EndOfInput
  BY <1>2, GiveUpTyped DEF EndOfInput, Waiting, Outcomes
<1>3. CASE TooManyFrames
  BY <1>3, GiveUpTyped DEF TooManyFrames, Outcomes
<1>4. CASE RefuseHeader
  BY <1>4, GiveUpTyped DEF RefuseHeader, Outcomes
<1>5. CASE RefuseUdp
  BY <1>5, GiveUpTyped DEF RefuseUdp, Parsed, Outcomes
<1>6. CASE RefuseUser
  BY <1>6, GiveUpTyped DEF RefuseUser, Parsed, Outcomes
<1>7. ASSUME NEW start \in Starts, Accept(start)
      PROVE  Typed'
  <2>1. FirstByte \in 0 .. have /\ FirstByte \in {0, HeaderLen(stream)}
    BY <1>7, FirstByteKnown DEF Accept, Parsed, Typed
  <2>2. <<Direct>> \o Rotation(start) \in Seq(Addresses)
        /\ Len(<<Direct>> \o Rotation(start)) = Len(ProxyIPs) + 1
    BY RotationKnown, ConnectionAssumption
  <2>3. plan' \in Seq(Addresses) /\ Len(plan') >= 1
    BY <1>7, <2>2, ConnectionAssumption DEF Accept
  <2>4. socks' \in Seq(SockStates) /\ Len(socks') = 1 /\ socks' # <<>>
    BY <1>7 DEF Accept, SockStates
  <2>5. Len(socks') <= Len(plan')
    BY <2>3, <2>4
  <2> QED BY <1>7, <2>1, <2>3, <2>4, <2>5
          DEF Accept, Parsed, Typed, TypeOK, Untouched, readVars, pipeVars
<1> QED BY <1>1, <1>2, <1>3, <1>4, <1>5, <1>6, <1>7 DEF Header

LEMMA SocksForms ==
    ASSUME Typed, phase \in {"dialing", "open"}, NEW v \in SockStates
    PROVE  /\ Trying \in 1 .. Len(plan)
           /\ [socks EXCEPT ![Trying] = v] \in Seq(SockStates)
           /\ Len([socks EXCEPT ![Trying] = v]) = Len(socks)
           /\ [socks EXCEPT ![Trying] = v] # <<>>
<1>1. socks \in Seq(SockStates) /\ socks # <<>> /\ Len(socks) \in Nat \ {0}
  BY DEF Typed, TypeOK, Untouched
<1>2. Trying \in 1 .. Len(plan)
  BY <1>1 DEF Trying, Typed, TypeOK
<1>3. Trying \in 1 .. Len(socks)
  BY <1>1 DEF Trying
<1>4. ASSUME NEW q \in Seq(SockStates), NEW t \in 1 .. Len(q)
      PROVE  [q EXCEPT ![t] = v] \in Seq(SockStates)
             /\ Len([q EXCEPT ![t] = v]) = Len(q)
  OBVIOUS
<1>5. [socks EXCEPT ![Trying] = v] \in Seq(SockStates)
      /\ Len([socks EXCEPT ![Trying] = v]) = Len(socks)
  BY <1>1, <1>3, <1>4
<1> QED BY <1>1, <1>2, <1>5

LEMMA DialTyped ==
    ASSUME Typed, DialOpens \/ DialFails
    PROVE  Typed'
<1>1. CASE DialOpens
  <2>1. socks' \in Seq(SockStates) /\ Len(socks') = Len(socks) /\ socks' # <<>>
    BY <1>1, SocksForms DEF DialOpens, SockStates
  <2> QED BY <1>1, <2>1 DEF DialOpens, Typed, TypeOK, Untouched, readVars
<1>2. CASE DialFails
  <2> DEFINE shut == [socks EXCEPT ![Trying] = "closed"]
  <2>1. phase = "dialing"
    BY <1>2 DEF DialFails
  <2>2. shut \in Seq(SockStates) /\ Len(shut) = Len(socks) /\ shut # <<>>
    BY <2>1, SocksForms DEF SockStates
  <2> HIDE DEF shut
  <2>3. CASE Trying < Len(plan) /\ socks' = Append(shut, "opening")
             /\ UNCHANGED <<phase, outcome, closing>>
    <3>1. socks' \in Seq(SockStates) /\ Len(socks') = Len(socks) + 1
      BY <2>2, <2>3 DEF SockStates
    <3>2. Len(socks') <= Len(plan)
      BY <2>2, <2>3, <3>1 DEF Trying, Typed, TypeOK
    <3>3. socks' # <<>>
      BY <2>2, <3>1
    <3> QED BY <1>2, <2>3, <3>1, <3>2, <3>3
            DEF DialFails, Typed, TypeOK, Untouched, readVars, pipeVars
  <2>4. CASE socks' = shut /\ phase' = "ended" /\ outcome' = "nodial"
             /\ closing' = TRUE
    BY <1>2, <2>2, <2>4
       DEF DialFails, Typed, TypeOK, Untouched, Outcomes, readVars, pipeVars
  <2> QED BY <1>2, <2>3, <2>4 DEF DialFails, shut
<1> QED BY <1>1, <1>2

LEMMA PipeTyped ==
    ASSUME Typed, UpPipe \/ Deliver \/ DownEnds \/ Settle
    PROVE  Typed'
<1> USE DEF Piping, Typed, TypeOK, Untouched, readVars, dialVars
<1>1. CASE SendLeftover
  <2>1. up' \in Nat
    BY <1>1, StreamKnown DEF SendLeftover
  <2> QED BY <1>1, <2>1 DEF SendLeftover
<1>2. CASE UpFinishes
  BY <1>2 DEF UpFinishes
<1>3. CASE UpBreaks
  <2>1. socks' \in Seq(SockStates) /\ Len(socks') = Len(socks) /\ socks' # <<>>
    BY <1>3, SocksForms DEF UpBreaks, UpCut, SockStates
  <2> QED BY <1>3, <2>1 DEF UpBreaks, UpCut
<1>4. ASSUME NEW k \in 0 .. Total(stream), Forward(k)
      PROVE  Typed'
  <2>1. have' \in 0 .. limit /\ up' \in Nat /\ first' \in 0 .. have'
    BY <1>4, StreamKnown DEF Forward
  <2>2. stalled' \in BOOLEAN
    BY <1>4 DEF Forward
  <2>3. UNCHANGED <<stream, client, limit, reads, phase, outcome, first,
                    dialVars, leftover, down, pipes, closing>>
    BY <1>4 DEF Forward
  <2>4. phase = "open"
    BY <1>4 DEF Forward
  <2> QED BY <2>1, <2>2, <2>3, <2>4
<1>5. CASE Deliver
  <2>1. down' \in 0 .. MaxDown
    BY <1>5, ConnectionAssumption DEF Deliver
  <2> QED BY <1>5, <2>1 DEF Deliver
<1>6. CASE DownEnds
  <2>1. socks' \in Seq(SockStates) /\ Len(socks') = Len(socks) /\ socks' # <<>>
    BY <1>6, SocksForms DEF DownEnds, SockStates
  <2> QED BY <1>6, <2>1 DEF DownEnds
<1>7. CASE Settle
  <2>1. socks' \in Seq(SockStates) /\ Len(socks') = Len(socks)
    BY <1>7, SocksForms DEF Settle, SockStates
  <2> QED BY <1>7, <2>1 DEF Settle, Outcomes, pipeVars
<1> QED BY <1>1, <1>2, <1>3, <1>4, <1>5, <1>6, <1>7 DEF UpPipe

LEMMA LeaveTyped ==
    ASSUME Typed, NEW m \in 0 .. Total(stream), ClientLeaves(m)
    PROVE  Typed'
<1>1. limit' \in 0 .. Total(stream) /\ have \in 0 .. limit'
  BY StreamKnown DEF ClientLeaves, Typed
<1> QED BY <1>1 DEF ClientLeaves, Typed, TypeOK, Untouched, readVars, dialVars, pipeVars

(***************************************************************************)
(* Every variable of a connection keeps its type: no more bytes are taken  *)
(* than the client sent, and no more candidates are tried than there are.  *)
(***************************************************************************)
THEOREM ConnectionTyped == Spec => []Typed
<1>1. ASSUME Typed, [Next]_vars PROVE Typed'
  <2>1. CASE UNCHANGED vars
    BY <1>1, <2>1 DEF vars, readVars, dialVars, pipeVars, Typed, TypeOK, Untouched
  <2> QED BY <1>1, <2>1, HeaderTyped, DialTyped, PipeTyped, LeaveTyped DEF Next
<1> QED BY <1>1, InitTyped, PTL DEF Spec

(***************************************************************************)
(* A connection keeps its types: pumpProxy never reads more of a stream    *)
(* than its client sent, nor more frames for a header than its limit.      *)
(***************************************************************************)
THEOREM ConnectionTypeCorrect == Spec => []TypeOK
<1>1. Typed => TypeOK
  BY DEF Typed
<1> QED BY <1>1, ConnectionTyped, PTL

(***************************************************************************)
(* More of the header is read only while it is not whole.                  *)
(***************************************************************************)
THEOREM HeaderWaits == Spec => []WaitsForHeaderOnly
<1>1. Typed => WaitsForHeaderOnly
  BY StreamKnown, EnoughIsEnough DEF Typed, WaitsForHeaderOnly, Waiting
<1> QED BY <1>1, ConnectionTyped, PTL

(***************************************************************************)
(* A header is misread at the two named cuts only.                         *)
(***************************************************************************)
THEOREM HeaderReads == Spec => []ReadsWhatIsThere
<1>1. Typed => ReadsWhatIsThere
  BY StreamKnown, EveryCut DEF Typed, ReadsWhatIsThere, CutInTail, CutAtLength
<1> QED BY <1>1, ConnectionTyped, PTL

-----------------------------------------------------------------------------
(***************************************************************************)
(* Every byte taken from the client beyond the header is forwarded, and    *)
(* counted, once.                                                          *)
(***************************************************************************)
THEOREM PayloadCounted == Spec => []PayloadOnce
<1>1. Init => PayloadOnce
  BY DEF Init, PayloadOnce
<1>2. ASSUME Typed, PayloadOnce, [Next]_vars
      PROVE  PayloadOnce'
  <2> USE <1>2 DEF PayloadOnce, Typed, Untouched, readVars, dialVars, pipeVars
  <2>1. CASE UNCHANGED vars
    BY <2>1 DEF vars
  <2>2. CASE Header
    BY <2>2 DEF Header, ReadFrame, Waiting, EndOfInput, TooManyFrames, RefuseHeader,
                RefuseUdp, RefuseUser, Parsed, GiveUp, Accept
  <2>3. CASE DialOpens
    BY <2>3 DEF DialOpens
  <2>4. CASE DialFails
    BY <2>4 DEF DialFails
  <2>5. CASE SendLeftover
    <3>1. up = 0 /\ up' = have - first
      BY <2>5, StreamKnown DEF SendLeftover, Piping
    <3> QED BY <2>5, <3>1 DEF SendLeftover, Piping
  <2>6. ASSUME NEW k \in 0 .. Total(stream), Forward(k)
        PROVE  PayloadOnce'
    <3>1. up' = (have + k) - first
      BY <2>6, StreamKnown DEF Forward, Piping
    <3> QED BY <2>6, <3>1 DEF Forward, Piping
  <2>7. CASE UpFinishes \/ UpBreaks \/ Deliver \/ DownEnds \/ Settle
    BY <2>7 DEF UpFinishes, UpBreaks, UpCut, Deliver, DownEnds, Settle, Piping
  <2>8. ASSUME NEW m \in 0 .. Total(stream), ClientLeaves(m)
        PROVE  PayloadOnce'
    BY <2>8 DEF ClientLeaves
  <2> QED BY <2>1, <2>2, <2>3, <2>4, <2>5, <2>6, <2>7, <2>8 DEF Next, UpPipe
<1> QED BY <1>1, <1>2, ConnectionTyped, PTL DEF Spec

-----------------------------------------------------------------------------
(* The way round from the start is a bijection of the list's places: every *)
(* address is as often in the plan as in the list.                         *)
LEMMA RotationCounts ==
    ASSUME NEW start \in Starts, NEW a
    PROVE  Cardinality({k \in 1 .. Len(ProxyIPs) : Rotation(start)[k] = a})
             = Cardinality({k \in 1 .. Len(ProxyIPs) : ProxyIPs[k] = a})
<1> DEFINE n == Len(ProxyIPs)
           S == {k \in 1 .. n : Rotation(start)[k] = a}
           T == {k \in 1 .. n : ProxyIPs[k] = a}
           F == [k \in S |-> IF start + k <= n THEN start + k ELSE start + k - n]
<1>1. n \in Nat \ {0} /\ start \in 0 .. n - 1
  BY ConnectionAssumption DEF Starts
<1>2. \A k \in 1 .. n :
         Rotation(start)[k] =
           ProxyIPs[IF start + k <= n THEN start + k ELSE start + k - n]
  BY RotationKnown
<1> HIDE DEF n
<1>3. IsFiniteSet(S)
  <2>1. IsFiniteSet(1 .. n)
    BY <1>1, FS_Interval
  <2> QED BY <2>1, FS_Subset
<1>4. F \in [S -> T]
  BY <1>1, <1>2
<1>5. \A i, j \in S : F[i] = F[j] => i = j
  BY <1>1
<1>6. ASSUME NEW t \in T
      PROVE  \E k \in S : F[k] = t
  <2> DEFINE k == IF t > start THEN t - start ELSE t + n - start
  <2>1. k \in 1 .. n /\ (IF start + k <= n THEN start + k ELSE start + k - n) = t
    BY <1>1
  <2>2. k \in S
    BY <1>2, <2>1
  <2> QED BY <2>1, <2>2
<1>7. F \in Bijection(S, T)
  <2> HIDE DEF F, S, T
  <2> QED BY <1>4, <1>5, <1>6, Fun_IsBij
<1>8. ExistsBijection(S, T)
  BY <1>7, Fun_ExistsBij
<1>9. Cardinality(T) = Cardinality(S)
  <2> HIDE DEF S, T
  <2> QED BY <1>3, <1>8, FS_Bijection
<1> QED BY <1>9 DEF n

-----------------------------------------------------------------------------
PlanKnown ==
    phase = "dialing" \/ outcome = "nodial" =>
        \E start \in Starts : plan = <<Direct>> \o Rotation(start)

AllTried == outcome = "nodial" => Len(socks) = Len(plan)

Dialing == OneSocket /\ PlanKnown /\ AllTried

LEMMA TriedAll ==
    ASSUME PlanKnown, AllTried
    PROVE  TriesAll
<1> SUFFICES ASSUME outcome = "nodial" PROVE TriesAll
  BY DEF TriesAll
<1>1. PICK start \in Starts : plan = <<Direct>> \o Rotation(start)
  BY DEF PlanKnown
<1> DEFINE R == Rotation(start)
           n == Len(ProxyIPs)
<1>2. R \in Seq(Addresses) /\ Len(R) = n /\ n \in Nat
  BY RotationKnown, ConnectionAssumption
<1> HIDE DEF R, n
<1>3. Len(plan) = n + 1 /\ plan[1] = Direct /\ \A k \in 1 .. n : plan[k + 1] = R[k]
  <2>1. plan = <<Direct>> \o R
    BY <1>1 DEF R
  <2>2. ASSUME NEW q \in Seq(Addresses)
        PROVE  /\ Len(<<Direct>> \o q) = Len(q) + 1
               /\ (<<Direct>> \o q)[1] = Direct
               /\ \A k \in 1 .. Len(q) : (<<Direct>> \o q)[k + 1] = q[k]
    BY ConnectionAssumption
  <2> QED BY <1>2, <2>1, <2>2
<1>4. ASSUME NEW a \in Addresses
      PROVE  Cardinality({k \in 1 .. n : plan[k + 1] = a})
               = Cardinality({k \in 1 .. n : ProxyIPs[k] = a})
  <2>1. {k \in 1 .. n : plan[k + 1] = a} = {k \in 1 .. n : R[k] = a}
    BY <1>3
  <2> QED BY <2>1, RotationCounts DEF R, n
<1> QED BY <1>3, <1>4 DEF TriesAll, AllTried, n

LEMMA DialStep ==
    ASSUME Typed, Dialing, DialOpens \/ DialFails
    PROVE  Dialing'
<1> DEFINE t == Len(socks)
<1>1. socks \in Seq(SockStates) /\ t \in Nat \ {0} /\ phase = "dialing"
      /\ outcome = "none"
  BY DEF Typed, TypeOK, Untouched, DialOpens, DialFails
<1>2. \A k \in 1 .. t : k # t => socks[k] = "closed"
  BY <1>1 DEF Dialing, OneSocket, Trying
<1>3. CASE DialOpens
  <2>1. Len(socks') = t /\ \A k \in 1 .. t : k # t => socks'[k] = "closed"
    BY <1>1, <1>2, <1>3 DEF DialOpens, Trying
  <2> QED BY <1>1, <1>3, <2>1
          DEF DialOpens, Dialing, OneSocket, PlanKnown, AllTried, Trying
<1>4. CASE DialFails
  <2> DEFINE shut == [socks EXCEPT ![Trying] = "closed"]
  <2>1. shut \in Seq(SockStates) /\ Len(shut) = t
        /\ \A k \in 1 .. t : shut[k] = "closed"
    BY <1>1, <1>2 DEF Trying, SockStates
  <2> HIDE DEF shut
  <2>2. CASE Trying < Len(plan) /\ socks' = Append(shut, "opening")
             /\ UNCHANGED <<phase, outcome, closing>>
    <3>1. Len(socks') = t + 1 /\ \A k \in 1 .. t : socks'[k] = "closed"
      BY <2>1, <2>2 DEF SockStates
    <3>2. OneSocket'
      BY <1>1, <2>2, <3>1 DEF OneSocket, Trying
    <3> QED BY <1>1, <1>4, <2>2, <3>2
            DEF DialFails, Dialing, PlanKnown, AllTried
  <2>3. CASE Trying = Len(plan) /\ socks' = shut
             /\ phase' = "ended" /\ outcome' = "nodial" /\ closing' = TRUE
    BY <1>1, <1>4, <2>1, <2>3
       DEF DialFails, Dialing, OneSocket, PlanKnown, AllTried, Trying
  <2> QED BY <1>4, <2>2, <2>3 DEF DialFails, shut
<1> QED BY <1>3, <1>4

LEMMA PipeStep ==
    ASSUME Typed, Dialing, UpPipe \/ Deliver \/ DownEnds \/ Settle
    PROVE  Dialing'
<1> DEFINE t == Len(socks)
<1>1. phase = "open" /\ outcome = "none"
  BY DEF UpPipe, SendLeftover, UpFinishes, UpBreaks, UpCut, Forward, Deliver,
         DownEnds, Settle, Piping, Typed, Untouched
<1>2. socks \in Seq(SockStates) /\ t \in Nat \ {0}
  BY <1>1 DEF Typed, TypeOK, Untouched
<1>3. \A k \in 1 .. t : k # t => socks[k] = "closed"
  BY <1>1, <1>2 DEF Dialing, OneSocket, Trying
<1>4. CASE UNCHANGED <<socks, plan, phase, outcome>>
  BY <1>4 DEF Dialing, OneSocket, PlanKnown, AllTried, Trying
<1>5. CASE socks' = [socks EXCEPT ![Trying] = "closed"]
           /\ (UpBreaks \/ DownEnds \/ Settle)
  <2>1. Len(socks') = t /\ \A k \in 1 .. t : socks'[k] = "closed"
    BY <1>2, <1>3, <1>5 DEF Trying
  <2>2. phase' # "dialing" /\ outcome' # "nodial"
    BY <1>1, <1>5 DEF UpBreaks, UpCut, DownEnds, Settle
  <2> QED BY <2>1, <2>2 DEF Dialing, OneSocket, PlanKnown, AllTried
<1> QED BY <1>4, <1>5 DEF UpPipe, SendLeftover, UpFinishes, UpBreaks, Forward,
           Deliver, DownEnds, Settle, dialVars

(***************************************************************************)
(* At most one socket is open or opening, none when the connection has     *)
(* ended, and a dial is only given up when the whole list was tried.       *)
(***************************************************************************)
THEOREM DialsWellAlways == Spec => []DialsWell
<1>1. Init => Dialing
  BY DEF Init, Dialing, OneSocket, PlanKnown, AllTried
<1>2. ASSUME Typed, Dialing, [Next]_vars
      PROVE  Dialing'
  <2> USE <1>2
  <2>1. CASE UNCHANGED vars
    BY <2>1 DEF vars, dialVars, Dialing, OneSocket, PlanKnown, AllTried, Trying
  <2>2. CASE Header
    <3>1. socks = <<>> /\ phase = "reading" /\ outcome = "none"
      BY <2>2 DEF Typed, Untouched, Header, ReadFrame, Waiting, EndOfInput,
                  TooManyFrames, RefuseHeader, RefuseUdp, RefuseUser, Parsed, Accept
    <3>2. ASSUME NEW start \in Starts, Accept(start)
          PROVE  Dialing'
      <4>1. socks' = <<"opening">> /\ phase' = "dialing" /\ outcome' = "none"
            /\ plan' = <<Direct>> \o Rotation(start)
        BY <3>1, <3>2 DEF Accept
      <4> QED BY <4>1 DEF Dialing, OneSocket, PlanKnown, AllTried, Trying
    <3>3. ASSUME NEW why \in Outcomes \ {"nodial"}, GiveUp(why)
          PROVE  Dialing'
      BY <3>1, <3>3 DEF GiveUp, dialVars, Dialing, OneSocket, PlanKnown, AllTried
    <3>4. ASSUME NEW k \in 0 .. Total(stream), ReadFrame(k)
          PROVE  Dialing'
      BY <3>1, <3>4 DEF ReadFrame, dialVars, Dialing, OneSocket, PlanKnown, AllTried
    <3> QED BY <2>2, <3>2, <3>3, <3>4
            DEF Header, EndOfInput, TooManyFrames, RefuseHeader, RefuseUdp,
                RefuseUser, Outcomes
  <2>3. ASSUME NEW m \in 0 .. Total(stream), ClientLeaves(m)
        PROVE  Dialing'
    BY <2>3 DEF ClientLeaves, dialVars, Dialing, OneSocket, PlanKnown, AllTried, Trying
  <2> QED BY <2>1, <2>2, <2>3, DialStep, PipeStep DEF Next
<1>3. Dialing => DialsWell
  BY TriedAll DEF Dialing, DialsWell
<1> QED BY <1>1, <1>2, <1>3, ConnectionTyped, PTL DEF Spec

-----------------------------------------------------------------------------
(* What a step of the connection does to the one line of its ledger.  *)
LEMMA FateStep ==
    ASSUME Typed, [Next]_vars
    PROVE  \/ Fate' = Fate
           \/ Fate = "none" /\ Fate' = "carried"
           \/ Fate = "carried" /\ Fate' = "owed"
<1> USE DEF Typed, Untouched
<1>1. ASSUME UNCHANGED <<phase, outcome>> PROVE Fate' = Fate
  BY <1>1 DEF Fate
<1>2. ASSUME phase # "open", phase' # "open", outcome = "none", outcome' # "counted"
      PROVE  Fate' = Fate
  BY <1>2 DEF Fate
<1>3. CASE UNCHANGED vars
  BY <1>1, <1>3 DEF vars
<1>4. CASE Header
  <2>1. ASSUME NEW why \in Outcomes \ {"counted"}, phase = "reading", GiveUp(why)
        PROVE  Fate' = Fate
    BY <1>2, <2>1 DEF GiveUp
  <2>2. ASSUME NEW start \in Starts, Accept(start) PROVE Fate' = Fate
    BY <1>2, <2>2 DEF Accept, Parsed
  <2>3. ASSUME NEW k \in 0 .. Total(stream), ReadFrame(k) PROVE Fate' = Fate
    BY <1>1, <2>3 DEF ReadFrame
  <2> QED BY <1>4, <2>1, <2>2, <2>3
          DEF Header, EndOfInput, Waiting, TooManyFrames, RefuseHeader, RefuseUdp,
              RefuseUser, Parsed, Outcomes
<1>5. CASE DialOpens
  BY <1>5 DEF DialOpens, Fate
<1>6. CASE DialFails
  BY <1>6 DEF DialFails, Fate
<1>7. CASE UpPipe \/ Deliver \/ DownEnds
  BY <1>1, <1>7 DEF UpPipe, SendLeftover, UpFinishes, UpBreaks, UpCut,
                    Forward, Deliver, DownEnds
<1>8. CASE Settle
  BY <1>8 DEF Settle, Fate
<1>9. ASSUME NEW m \in 0 .. Total(stream), ClientLeaves(m) PROVE Fate' = Fate
  BY <1>1, <1>9 DEF ClientLeaves
<1> QED BY <1>3, <1>4, <1>5, <1>6, <1>7, <1>8, <1>9 DEF Next

(***************************************************************************)
(* A connection keeps the ledger the accounting keeps for all of them: its *)
(* bytes are queued at most once, and only after a socket carried them.    *)
(***************************************************************************)
THEOREM ConnectionImplementsLedger == Spec => ImplementsLedger
<1> DEFINE line == [c \in {"this"} |-> Fate]
<1>1. Init => Book!Init
  BY DEF Init, Book!Init, Fate
<1>2. ASSUME Typed, [Next]_vars PROVE [Book!Next]_line
  <2>1. CASE Fate' = Fate
    BY <2>1
  <2>2. CASE Fate = "none" /\ Fate' = "carried"
    BY <2>2 DEF Book!Next, Book!Begin, Book!Move
  <2>3. CASE Fate = "carried" /\ Fate' = "owed"
    BY <2>3 DEF Book!Next, Book!Finish, Book!Move
  <2> QED BY <1>2, <2>1, <2>2, <2>3, FateStep
<1> QED BY <1>1, <1>2, ConnectionTyped, PTL
    DEF Spec, ImplementsLedger, Book!Spec
=============================================================================
