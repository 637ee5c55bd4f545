------------------------------ MODULE Connection ------------------------------
(***************************************************************************)
(* One proxy connection, from the WebSocket upgrade to the bytes it leaves *)
(* for the accounting: the header gathered frame by frame, the verdict,    *)
(* the dial through the candidates, the two pipes, and the end.            *)
(*                                                                         *)
(*   src/handlers/websocket.ts   acceptWebSocket, wsReadable, pumpProxy    *)
(*   src/handlers/proxy.ts       dialWithFallback                          *)
(*                                                                         *)
(* Accounting has the lookup, the verdict and the counting in detail; here *)
(* they are one step each.  The frames a client sends are only cut when    *)
(* they are read, which no one can tell from cuts made before.             *)
(***************************************************************************)
EXTENDS WireHeader, Sequences, FiniteSets

CONSTANTS
    Streams,      \* what clients may want to send
    Addresses,    \* what can be dialed
    Direct,       \* the address a header asks for
    ProxyIPs,     \* settings.proxyIPs, or the default list
    MaxReads,     \* 64: frames read before a header is given up
    MaxDown       \* bound: chunks a remote sends back

ASSUME ConnectionAssumption ==
    /\ Streams \subseteq Stream
    /\ Direct \in Addresses
    /\ ProxyIPs \in Seq(Addresses) /\ ProxyIPs # <<>>
    /\ MaxReads \in Nat \ {0}
    /\ MaxDown \in Nat

VARIABLES
    stream,     \* what this client wants to send
    client,     \* "here", "left" (close event) or "broken" (error event)
    limit,      \* how many bytes of the stream it sends before it leaves
    have,       \* how many of them pumpProxy has taken
    reads,      \* frames read for the header
    phase,      \* "reading", "dialing", "open" or "ended"
    outcome,    \* how it ended
    first,      \* where the bytes for the remote begin in the stream
    plan,       \* the candidates to dial, in order
    socks,      \* their sockets, as far as they were tried
    leftover,   \* bytes read with the header are still to be forwarded
    up, down,   \* the counters
    pipes,      \* the pipes ("up", "down") still running
    stalled,    \* the up pipe waits for a chunk no pull() will bring
    closing     \* server.close() was called

readVars == <<have, reads>>
dialVars == <<plan, socks>>
pipeVars == <<leftover, up, down, pipes, stalled>>
vars == <<stream, client, limit, readVars, phase, outcome, first, dialVars,
          pipeVars, closing>>

Outcomes == {"none", "eof", "bad", "long", "udp", "barred", "nodial", "counted"}

SockStates == {"opening", "open", "closed"}

TypeOK ==
    /\ stream \in Streams
    /\ client \in {"here", "left", "broken"}
    /\ limit \in 0 .. Total(stream) /\ have \in 0 .. limit
    /\ reads \in 0 .. MaxReads
    /\ phase \in {"reading", "dialing", "open", "ended"}
    /\ outcome \in Outcomes
    /\ first \in 0 .. have
    /\ plan \in Seq(Addresses)
    /\ socks \in Seq(SockStates) /\ Len(socks) <= Len(plan)
    /\ leftover \in BOOLEAN /\ stalled \in BOOLEAN /\ closing \in BOOLEAN
    /\ up \in Nat /\ down \in 0 .. MaxDown
    /\ pipes \subseteq {"up", "down"}

(* Early data is any part of the stream that fits its HTTP header.  *)
Init ==
    /\ stream \in Streams
    /\ client = "here"
    /\ limit = Total(stream)
    /\ have \in 0 .. limit
    /\ reads = 0
    /\ phase = "reading" /\ outcome = "none"
    /\ first = 0
    /\ plan = <<>> /\ socks = <<>>
    /\ leftover = FALSE
    /\ up = 0 /\ down = 0
    /\ pipes = {} /\ stalled = FALSE
    /\ closing = FALSE

-----------------------------------------------------------------------------
(* pumpProxy returns or throws before anything is dialed.  *)
GiveUp(why) ==
    /\ phase' = "ended" /\ outcome' = why
    /\ closing' = TRUE
    /\ UNCHANGED <<stream, client, limit, readVars, first, dialVars, pipeVars>>

Waiting == phase = "reading" /\ reads < MaxReads /\ Parse(stream, have) = "wait"

(* A frame of k bytes, maybe none, is added to the buffer.  *)
ReadFrame(k) ==
    /\ Waiting
    /\ client # "broken"
    /\ have + k <= limit
    /\ have' = have + k
    /\ reads' = reads + 1
    /\ UNCHANGED <<stream, client, limit, phase, outcome, first, dialVars,
                   pipeVars, closing>>

EndOfInput ==
    /\ Waiting
    /\ client = "broken" \/ (client = "left" /\ have = limit)
    /\ GiveUp("eof")

(* After the last frame the buffer is not looked at any more.  *)
TooManyFrames == phase = "reading" /\ reads = MaxReads /\ GiveUp("long")

RefuseHeader ==
    /\ phase = "reading" /\ reads < MaxReads
    /\ Parse(stream, have) = "bad"
    /\ GiveUp("bad")

Parsed ==
    /\ phase = "reading" /\ reads < MaxReads
    /\ Parse(stream, have) \in {"target", "empty"}

RefuseUdp == Parsed /\ stream.cmd = "udp" /\ GiveUp("udp")

(* The credentials are unknown, the verdict is negative, or D1 failed.  *)
RefuseUser == Parsed /\ GiveUp("barred")

-----------------------------------------------------------------------------
(* Mutant: the list is not wrapped around.  *)
RotationCut(start) == SubSeq(ProxyIPs, start + 1, Len(ProxyIPs))

(* The list from its stable start, all the way round.  *)
Rotation(start) ==
    [k \in 1 .. Len(ProxyIPs) |->
        ProxyIPs[((start + k - 1) % Len(ProxyIPs)) + 1]]

(* stableIndex: a hash of the uuid, modulo the length of the list.  *)
Starts == 0 .. Len(ProxyIPs) - 1

(* buf.slice(headerLen); a header length that is not a number slices at 0. *)
FirstByte ==
    IF Parse(stream, have) = "empty" THEN 0 ELSE HeaderLen(stream)

(* The user is allowed: connect() to the first candidate.  *)
Accept(start) ==
    /\ Parsed /\ stream.cmd # "udp"
    /\ phase' = "dialing"
    /\ first' = FirstByte
    /\ plan' = <<Direct>> \o Rotation(start)
    /\ socks' = <<"opening">>
    /\ UNCHANGED <<stream, client, limit, readVars, outcome, pipeVars, closing>>

Trying == Len(socks)

(* The socket opens in time.  (connect to an empty host never does.)  *)
DialOpens ==
    /\ phase = "dialing"
    /\ first = 0 => Trying > 1
    /\ phase' = "open"
    /\ socks' = [socks EXCEPT ![Trying] = "open"]
    /\ leftover' = TRUE
    /\ pipes' = {"up", "down"}
    /\ UNCHANGED <<stream, client, limit, readVars, outcome, first, plan, up,
                   down, stalled, closing>>

(* Mutant: the socket of a failed attempt is left as it is.  *)
DialFailsOpen ==
    /\ phase = "dialing"
    /\ \/ /\ Trying < Len(plan)
          /\ socks' = Append(socks, "opening")
          /\ UNCHANGED <<phase, outcome, closing>>
       \/ /\ Trying = Len(plan)
          /\ UNCHANGED socks
          /\ phase' = "ended" /\ outcome' = "nodial"
          /\ closing' = TRUE
    /\ UNCHANGED <<stream, client, limit, readVars, first, plan, pipeVars>>

(* It fails, or its time is up: it is closed, and the next one tried.  *)
DialFails ==
    LET shut == [socks EXCEPT ![Trying] = "closed"] IN
    /\ phase = "dialing"
    /\ \/ /\ Trying < Len(plan)
          /\ socks' = Append(shut, "opening")
          /\ UNCHANGED <<phase, outcome, closing>>
       \/ /\ Trying = Len(plan)
          /\ socks' = shut
          /\ phase' = "ended" /\ outcome' = "nodial"
          /\ closing' = TRUE
    /\ UNCHANGED <<stream, client, limit, readVars, first, plan, pipeVars>>

-----------------------------------------------------------------------------
Piping(p) == phase = "open" /\ p \in pipes

(* Mutant: leftover is not taken away.  *)
SendLeftoverKept ==
    /\ Piping("up") /\ leftover /\ up <= Total(stream)
    /\ up' = up + (have - first)
    /\ UNCHANGED <<stream, client, limit, readVars, phase, outcome, first,
                   dialVars, leftover, down, pipes, stalled, closing>>

(* The first pull: what was read beyond the header.  *)
SendLeftover ==
    /\ Piping("up") /\ leftover
    /\ leftover' = FALSE
    /\ up' = up + (have - first)
    /\ UNCHANGED <<stream, client, limit, readVars, phase, outcome, first,
                   dialVars, down, pipes, stalled, closing>>

(* A frame of k bytes.  An empty one resolves the pull without a chunk, and *)
(* the stream need not pull again: the reader then waits for good.         *)
Forward(k) ==
    /\ Piping("up") /\ ~leftover /\ ~stalled
    /\ client # "broken"
    /\ have + k <= limit
    /\ have' = have + k
    /\ up' = up + k
    /\ stalled' \in BOOLEAN /\ (stalled' => k = 0)
    /\ UNCHANGED <<stream, client, limit, reads, phase, outcome, first,
                   dialVars, leftover, down, pipes, closing>>

(* The client has left and all it sent is forwarded: writable is closed.   *)
UpFinishes ==
    /\ Piping("up") /\ ~leftover /\ ~stalled
    /\ client = "left" /\ have = limit
    /\ pipes' = pipes \ {"up"}
    /\ UNCHANGED <<stream, client, limit, readVars, phase, outcome, first,
                   dialVars, leftover, up, down, stalled, closing>>

(* The next read finds that the WebSocket has an error; or the socket takes *)
(* no more, which ends a stalled pipe, too.                                *)
UpCut ==
    /\ Piping("up")
    /\ \/ client = "broken" /\ ~leftover /\ ~stalled /\ UNCHANGED closing
       \/ closing' = TRUE
    /\ pipes' = pipes \ {"up"}
    /\ UNCHANGED <<stream, client, limit, readVars, phase, outcome, first, plan,
                   leftover, up, down, stalled>>

(* Mutant: the catch handler leaves the socket as it is.  *)
UpBreaksOpen == UpCut /\ UNCHANGED socks

(* The catch handler closes the socket.  *)
UpBreaks == UpCut /\ socks' = [socks EXCEPT ![Trying] = "closed"]

Deliver ==
    /\ Piping("down")
    /\ socks[Trying] = "open"
    /\ down < MaxDown
    /\ down' = down + 1
    /\ UNCHANGED <<stream, client, limit, readVars, phase, outcome, first,
                   dialVars, leftover, up, pipes, stalled, closing>>

(* The remote's output ends, with which the socket closes both ways, or the *)
(* socket is closed already; or send() fails, and the socket stays.        *)
DownEnds ==
    /\ Piping("down")
    /\ \/ socks' = [socks EXCEPT ![Trying] = "closed"]
       \/ (client # "here" \/ closing) /\ UNCHANGED socks
    /\ pipes' = pipes \ {"down"}
    /\ closing' = TRUE
    /\ UNCHANGED <<stream, client, limit, readVars, phase, outcome, first, plan,
                   leftover, up, down, stalled>>

(* Promise.allSettled: everything is closed and the bytes are queued.  *)
Settle ==
    /\ phase = "open" /\ pipes = {}
    /\ phase' = "ended" /\ outcome' = "counted"
    /\ socks' = [socks EXCEPT ![Trying] = "closed"]
    /\ closing' = TRUE
    /\ UNCHANGED <<stream, client, limit, readVars, first, plan, pipeVars>>

-----------------------------------------------------------------------------
(* The client closes, answers our close, or its connection breaks, with    *)
(* some of what it sent still to be read.                                  *)
ClientLeaves(m) ==
    /\ client = "here"
    /\ client' \in {"left", "broken"}
    /\ m >= have /\ m <= limit
    /\ limit' = m
    /\ UNCHANGED <<stream, readVars, phase, outcome, first, dialVars, pipeVars,
                   closing>>

Header ==
    \/ \E k \in 0 .. Total(stream) : ReadFrame(k)
    \/ EndOfInput \/ TooManyFrames \/ RefuseHeader \/ RefuseUdp \/ RefuseUser
    \/ \E start \in Starts : Accept(start)

UpPipe ==
    \/ SendLeftover \/ UpFinishes \/ UpBreaks
    \/ \E k \in 0 .. Total(stream) : Forward(k)

Next ==
    \/ Header
    \/ DialOpens \/ DialFails
    \/ UpPipe
    \/ Deliver \/ DownEnds \/ Settle
    \/ \E m \in 0 .. Total(stream) : ClientLeaves(m)

Spec == Init /\ [][Next]_vars

-----------------------------------------------------------------------------
(***************************************************************************)
(* However the frames are cut, more is read only while the header is not   *)
(* complete: the lengths asked for up front (24, 26, 68) never make a      *)
(* whole header wait for payload the client will not send before it hears  *)
(* from the remote (websocket.ts:192-223).  Domains of one or two          *)
(* characters are shorter than the lengths asked for.                      *)
(***************************************************************************)
WaitsForHeaderOnly ==
    Waiting /\ WellFormed(stream) /\ (stream.atyp = "domain" => stream.name >= 3)
        => have < HeaderLen(stream)

(***************************************************************************)
(* What a header is read as does not depend on how it was cut, with two    *)
(* exceptions: Trojan, cut between the address and the end of the second   *)
(* CRLF, is refused; VLESS, with options, cut before the length of a       *)
(* domain, is read as an empty host (protocols/*.ts).                      *)
(***************************************************************************)
CutInTail ==
    stream.proto = "trojan" /\ have >= AddressEnd(stream) /\ have < HeaderLen(stream)

CutAtLength ==
    stream.proto = "vless" /\ stream.opt >= 4 /\ LengthMissing(stream, have)

ReadsWhatIsThere ==
    phase = "reading" /\ WellFormed(stream) =>
        /\ Parse(stream, have) = "bad" => CutInTail
        /\ Parse(stream, have) = "empty" => CutAtLength
        /\ Parse(stream, have) = "target" => have >= HeaderLen(stream)

(***************************************************************************)
(* Each byte of the client's that is taken is forwarded and counted once:  *)
(* those read with the header, less the header, and those read by the pipe *)
(* (websocket.ts:129-150).                                                 *)
(***************************************************************************)
PayloadOnce ==
    phase = "open" \/ outcome = "counted" =>
        /\ up = IF leftover THEN 0 ELSE have - first
        /\ first \in {0, HeaderLen(stream)}

(***************************************************************************)
(* At most one socket is not closed, and none once the connection has      *)
(* ended; and the dial is given up only when every address of the list has *)
(* been tried, as often as it is in it (proxy.ts:22-48, websocket.ts:170). *)
(***************************************************************************)
OneSocket ==
    \A k \in 1 .. Len(socks) :
        socks[k] # "closed" => k = Trying /\ phase \in {"dialing", "open"}

TriesAll ==
    outcome = "nodial" =>
        /\ Len(socks) = Len(ProxyIPs) + 1
        /\ plan[1] = Direct
        /\ \A a \in Addresses :
             Cardinality({k \in 1 .. Len(ProxyIPs) : plan[k + 1] = a})
                = Cardinality({k \in 1 .. Len(ProxyIPs) : ProxyIPs[k] = a})

DialsWell == OneSocket /\ TriesAll

(***************************************************************************)
(* The ledger of Accounting, kept by one connection: it carries traffic    *)
(* from the moment a socket opens, and owes it once, when both pipes are   *)
(* done, however it was cut, refused, dialed or broken off before that     *)
(* (websocket.ts:110-177: queueUsage comes after Promise.allSettled).      *)
(***************************************************************************)
Fate == IF phase = "open" THEN "carried"
        ELSE IF outcome = "counted" THEN "owed" ELSE "none"

Book == INSTANCE Ledger WITH Conns <- {"this"}, fate <- [c \in {"this"} |-> Fate]

ImplementsLedger == Book!Spec

(***************************************************************************)
(* Once the remote has ended an open connection, or an error of the client *)
(* can still be read, both pipes come to their ends and the bytes to be    *)
(* counted, whether anybody answers or not (websocket.ts:129-177).  Not so *)
(* when the client merely leaves: its close ends one pipe, and the remote  *)
(* may hold the other; nor when an empty frame has stalled the up pipe.    *)
(***************************************************************************)
EndsCounted ==
    phase = "open" /\ (socks[Trying] = "closed" \/ (client = "broken" /\ ~stalled))
        ~> outcome = "counted"

-----------------------------------------------------------------------------
(***************************************************************************)
(* websocket.ts:85: "buffered header read (early data may carry only a     *)
(* partial header)".  A header that is well formed is never refused, nor   *)
(* read as anything else, because of where it was cut.                     *)
(***************************************************************************)
PartialHeaderIsWaitedFor ==
    WellFormed(stream) =>
        /\ outcome # "bad"
        /\ phase = "dialing" => first = HeaderLen(stream)

-----------------------------------------------------------------------------
(***************************************************************************)
(* Fairness: the runtime's own steps only.  The first pull is made, an     *)
(* error that can be read and a socket that is closed are noticed, and     *)
(* settled pipes are gone on from.  Neither the client nor the remote is   *)
(* assumed to send, to answer or to end anything.                          *)
(***************************************************************************)
Fairness ==
    /\ WF_vars(SendLeftover)
    /\ WF_vars(UpBreaks /\ (client = "broken" \/ socks[Trying] = "closed"))
    /\ WF_vars(DownEnds /\ socks[Trying] = "closed")
    /\ WF_vars(Settle)

FairSpec == Spec /\ Fairness
=============================================================================
