---------------------------- MODULE SessionProofs ----------------------------
(***************************************************************************)
(* Sessions and passwords end in time, and start in time, for any number   *)
(* of isolates, clients, paths and changes, any cache TTL, session length  *)
(* and any bound on the time D1 takes.  What is carried through the steps  *)
(* is how old a copy of the settings can be at each place it can be in.    *)
(***************************************************************************)
EXTENDS Sessions, TLAPS

(* Every request has an isolate, and a hash is new when it is written.  *)
Placed ==
    /\ \A c \in Clients : req[c].phase # "idle" => req[c].iso \in Isolates
    /\ row.hash <= changes + 1

(* How long ago at most the copies were the row.  *)
CachedLately ==
    \A i \in Isolates : Young(i) => since[cache[i].blob] <= cache[i].age + MaxReply

CopyLately(c) ==
    LET q == req[c] IN
    /\ q.phase = "row" => since[q.copy] <= q.wait
    /\ q.phase = "admin" => since[q.copy] <= CacheTtl + MaxReply + q.wait
    /\ q.phase = "gate" /\ q.copy.hash # 0 =>
            since[q.copy] <= CacheTtl + 2 * MaxReply + q.wait
    /\ q.phase \in {"schema", "envless"} => q.copy = Envless

CopiesLately ==
    /\ since[row] = 0
    /\ CachedLately
    /\ \A c \in Clients : CopyLately(c)

Inv == TypeOK /\ Placed /\ CopiesLately

-----------------------------------------------------------------------------
(* Facts about the sets the definitions are made of.  *)
LEMMA RowIsBlob ==
    ASSUME TypeOK PROVE row \in Blob /\ Envless \in Blob
BY SessionsAssumption DEF TypeOK, Blob, Passwords, Hashes, Envless

LEMMA InitInv == Init => Inv
<1> SUFFICES ASSUME Init PROVE Inv
  OBVIOUS
<1>1. Envless \in Blob /\ Secret(Envless) \in Secrets
  BY SessionsAssumption DEF Blob, Hashes, Envless, Secret, Secrets
<1>2. row \in [path : Paths, hash : Passwords, fits : BOOLEAN]
  BY SessionsAssumption DEF Init, Passwords, Hashes
<1>3. row \in Blob
  BY <1>2 DEF Blob, Passwords
<1>4. NoToken \in Token
  BY <1>1, SessionsAssumption DEF NoToken, Token
<1>5. Idle \in Request
  BY <1>1, SessionsAssumption DEF Idle, Request
<1>6. LongAgo \in Nat
  BY SessionsAssumption DEF LongAgo
<1>7. TypeOK
  BY <1>1, <1>2, <1>3, <1>4, <1>5, <1>6, SessionsAssumption
  DEF Init, TypeOK, NoEntry
<1>8. Placed
  BY <1>2, SessionsAssumption DEF Init, Placed, Idle
<1>9. CopiesLately
  BY <1>3 DEF Init, CopiesLately, CachedLately, CopyLately, Young, NoEntry, Idle
<1> QED BY <1>7, <1>8, <1>9 DEF Inv

-----------------------------------------------------------------------------
(***************************************************************************)
(* Most steps change the request of one client and leave the row, its      *)
(* history and the caches alone: then only that request is in question.    *)
(***************************************************************************)
LEMMA OneRequest ==
    ASSUME Inv, NEW c \in Clients, NEW q \in Request,
           req' = [req EXCEPT ![c] = q],
           UNCHANGED <<row, changes, halves, since, cache>>,
           schema' \in [Isolates -> {"none", "pending", "ready"}],
           jar' \in [Clients -> Token],
           q.phase # "idle" => q.iso \in Isolates,
           q.phase = "row" => since[q.copy] <= q.wait,
           q.phase = "admin" => since[q.copy] <= CacheTtl + MaxReply + q.wait,
           q.phase = "gate" /\ q.copy.hash # 0 =>
                since[q.copy] <= CacheTtl + 2 * MaxReply + q.wait,
           q.phase \in {"schema", "envless"} => q.copy = Envless
    PROVE  Inv'
<1>1. /\ req'[c] = q
      /\ \A d \in Clients \ {c} : req'[d] = req[d]
  BY DEF Inv, TypeOK
<1>2. TypeOK'
  BY DEF Inv, TypeOK
<1>3. Placed'
  BY <1>1 DEF Inv, Placed
<1>4. \A d \in Clients : CopyLately(d)'
  BY <1>1 DEF Inv, CopiesLately, CopyLately
<1>5. CopiesLately'
  BY <1>4 DEF Inv, CopiesLately, CachedLately, Young
<1> QED BY <1>2, <1>3, <1>5 DEF Inv

(* What the steps do to a request keeps its type.  *)
LEMMA Moved ==
    ASSUME NEW q \in Request, NEW copy \in Blob, NEW wait \in 0 .. MaxReply,
           NEW phase \in {"row", "admin", "envless", "gate", "result"}
    PROVE  /\ [q EXCEPT !.phase = phase, !.wait = wait] \in Request
           /\ [q EXCEPT !.phase = phase, !.copy = copy, !.wait = wait] \in Request
BY DEF Request

LEMMA IdleIsRequest == Idle \in Request /\ Idle.phase = "idle"
BY SessionsAssumption DEF Idle, Request, Blob, Envless, Hashes

LEMMA ArriveInv ==
    ASSUME Inv, NEW c \in Clients, NEW i \in Isolates, Arrive(c, i) PROVE Inv'
<1> DEFINE q == [Idle EXCEPT !.phase = "schema", !.iso = i]
<1>1. q \in Request /\ q.phase = "schema" /\ q.iso \in Isolates /\ q.copy = Envless
  BY IdleIsRequest DEF Request, Idle
<1>2. schema' \in [Isolates -> {"none", "pending", "ready"}]
  BY DEF Inv, TypeOK, Arrive
<1>3. /\ UNCHANGED <<row, changes, halves, since, cache, jar>>
      /\ req' = [req EXCEPT ![c] = q]
  BY DEF Arrive, settingsVars
<1> HIDE DEF q
<1> QED BY <1>1, <1>2, <1>3, OneRequest DEF Inv, TypeOK

LEMMA LookupInv == ASSUME Inv, NEW c \in Clients, Lookup(c) PROVE Inv'
<1> DEFINE i == req[c].iso
           q == [req[c] EXCEPT !.phase = IF Hit(i) THEN "admin" ELSE "row",
                               !.copy = IF Hit(i) THEN cache[i].blob ELSE row]
<1>1. req[c] \in Request /\ i \in Isolates /\ req[c].phase = "schema"
  BY DEF Inv, TypeOK, Placed, Lookup
<1>2. cache[i].blob \in Blob /\ row \in Blob /\ cache[i].age \in 0 .. CacheTtl
  BY <1>1, RowIsBlob DEF Inv, TypeOK
<1>3. q \in Request /\ q.iso = i
  BY <1>1, <1>2 DEF Request
<1>4. req' = [req EXCEPT ![c] = q]
  BY DEF Lookup, Inv, TypeOK
<1>5. /\ Hit(i) => q.phase = "admin" /\ q.copy = cache[i].blob
      /\ ~Hit(i) => q.phase = "row" /\ q.copy = row
  BY <1>1 DEF Request
<1>6. q.wait \in Nat
  <2> HIDE DEF q
  <2> QED BY <1>3, SessionsAssumption DEF Request
<1>7. since[cache[i].blob] \in Nat /\ since[row] = 0
  BY <1>2, SessionsAssumption DEF Inv, TypeOK, CopiesLately, LongAgo
<1>8. CASE Hit(i)
  <2>1. since[cache[i].blob] <= cache[i].age + MaxReply /\ cache[i].age < CacheTtl
    BY <1>1, <1>8 DEF Inv, CopiesLately, CachedLately, Hit, Young
  <2>2. since[q.copy] <= CacheTtl + MaxReply + q.wait
    BY <2>1, <1>2, <1>5, <1>6, <1>7, <1>8, SessionsAssumption
  <2> HIDE DEF q
  <2> QED BY <1>1, <1>3, <1>4, <1>5, <1>8, <2>2, OneRequest
          DEF Lookup, settingsVars, isolateVars, Inv, TypeOK
<1>9. CASE ~Hit(i)
  <2>1. since[q.copy] <= q.wait
    BY <1>5, <1>6, <1>7, <1>9
  <2> HIDE DEF q
  <2> QED BY <1>1, <1>3, <1>4, <1>5, <1>9, <2>1, OneRequest
          DEF Lookup, settingsVars, isolateVars, Inv, TypeOK
<1> QED BY <1>8, <1>9

LEMMA LoadReplyInv == ASSUME Inv, NEW c \in Clients, LoadReply(c) PROVE Inv'
<1> DEFINE i == req[c].iso
           entry == [kept |-> TRUE, age |-> 0, blob |-> req[c].copy]
           q == [req[c] EXCEPT !.phase = "admin", !.wait = 0]
<1>1. /\ req[c] \in Request /\ i \in Isolates
      /\ req[c].wait \in 0 .. MaxReply /\ req[c].copy \in Blob
  BY DEF Inv, TypeOK, Placed, LoadReply, Request
<1>2. since[req[c].copy] <= req[c].wait
  BY DEF LoadReply, Inv, CopiesLately, CopyLately
<1>3. since[req[c].copy] <= MaxReply /\ since[req[c].copy] \in Nat
  BY <1>1, <1>2, SessionsAssumption DEF Inv, TypeOK, LongAgo
<1>4. /\ q \in Request /\ q.phase = "admin" /\ q.iso = i
      /\ q.copy = req[c].copy /\ q.wait = 0
  <2>1. 0 \in 0 .. MaxReply
    BY SessionsAssumption
  <2>2. q \in Request
    BY <1>1, <2>1, Moved
  <2> QED BY <1>1, <2>2 DEF Request
<1>5. entry \in [kept : BOOLEAN, age : 0 .. CacheTtl, blob : Blob]
  BY <1>1, SessionsAssumption
<1>6. /\ req' = [req EXCEPT ![c] = q]
      /\ cache' = [cache EXCEPT ![i] = entry]
      /\ UNCHANGED <<row, changes, halves, since, schema, jar>>
  BY DEF LoadReply, settingsVars, Inv, TypeOK
<1>7. entry.age = 0 /\ entry.blob = req[c].copy
  OBVIOUS
<1> HIDE DEF q, entry
<1>8. /\ req'[c] = q /\ \A d \in Clients \ {c} : req'[d] = req[d]
      /\ cache'[i] = entry /\ \A j \in Isolates \ {i} : cache'[j] = cache[j]
  BY <1>1, <1>6 DEF Inv, TypeOK
<1>9. TypeOK'
  BY <1>4, <1>5, <1>6 DEF Inv, TypeOK
<1>10. Placed'
  BY <1>1, <1>4, <1>6, <1>8 DEF Inv, Placed
<1>11. CachedLately'
  BY <1>3, <1>6, <1>7, <1>8, SessionsAssumption
  DEF Inv, CopiesLately, CachedLately, Young
<1>12. \A d \in Clients \ {c} : CopyLately(d)'
  BY <1>6, <1>8 DEF Inv, CopiesLately, CopyLately
<1>13. CopyLately(c)'
  BY <1>3, <1>4, <1>6, <1>8, SessionsAssumption DEF CopyLately
<1>14. since'[row'] = 0
  BY <1>6 DEF Inv, CopiesLately
<1> QED BY <1>9, <1>10, <1>11, <1>12, <1>13, <1>14 DEF Inv, CopiesLately

LEMMA OtherReplyInv ==
    ASSUME Inv, NEW i \in Isolates, NEW blob \in Blob, OtherReply(i, blob)
    PROVE  Inv'
<1> DEFINE entry == [kept |-> TRUE, age |-> 0, blob |-> blob]
<1>1. /\ entry \in [kept : BOOLEAN, age : 0 .. CacheTtl, blob : Blob]
      /\ entry.age = 0 /\ entry.blob = blob
  BY SessionsAssumption
<1>2. /\ cache' = [cache EXCEPT ![i] = entry]
      /\ since[blob] <= MaxReply
      /\ UNCHANGED <<row, changes, halves, since, schema, req, jar>>
  BY DEF OtherReply, settingsVars
<1> HIDE DEF entry
<1>3. cache'[i] = entry /\ \A j \in Isolates \ {i} : cache'[j] = cache[j]
  BY <1>2 DEF Inv, TypeOK
<1>4. TypeOK'
  BY <1>1, <1>2 DEF Inv, TypeOK
<1>5. Placed'
  BY <1>2 DEF Inv, Placed
<1>6. CachedLately'
  BY <1>1, <1>2, <1>3, SessionsAssumption
  DEF Inv, CopiesLately, CachedLately, Young
<1>7. \A d \in Clients : CopyLately(d)'
  BY <1>2 DEF Inv, CopiesLately, CopyLately
<1>8. since'[row'] = 0
  BY <1>2 DEF Inv, CopiesLately
<1> QED BY <1>4, <1>5, <1>6, <1>7, <1>8 DEF Inv, CopiesLately

LEMMA LoadFailsInv == ASSUME Inv, NEW c \in Clients, LoadFails(c) PROVE Inv'
<1> DEFINE q == [req[c] EXCEPT !.phase = "envless", !.copy = Envless, !.wait = 0]
<1>1. req[c] \in Request /\ req[c].iso \in Isolates
  BY DEF Inv, TypeOK, Placed, LoadFails
<1>2. /\ q \in Request /\ q.phase = "envless" /\ q.copy = Envless
      /\ q.iso = req[c].iso
  <2>1. 0 \in 0 .. MaxReply /\ Envless \in Blob
    BY SessionsAssumption, RowIsBlob DEF Inv
  <2>2. q \in Request
    BY <1>1, <2>1, Moved
  <2> QED BY <1>1, <2>2 DEF Request
<1>3. /\ req' = [req EXCEPT ![c] = q]
      /\ UNCHANGED <<row, changes, halves, since, schema, cache, jar>>
  BY DEF LoadFails, settingsVars, isolateVars, Inv, TypeOK
<1> HIDE DEF q
<1> QED BY <1>1, <1>2, <1>3, OneRequest DEF Inv, TypeOK

-----------------------------------------------------------------------------
LEMMA DispatchInv ==
    ASSUME Inv, NEW c \in Clients, NEW kind, NEW path, Dispatch(c, kind, path)
    PROVE  Inv'
<1>1. NoToken \in Token
  BY SessionsAssumption, RowIsBlob
  DEF NoToken, Token, Secret, Secrets, Envless, Hashes, Inv
<1>2. /\ req' = [req EXCEPT ![c] = Idle]
      /\ UNCHANGED <<row, changes, halves, since, schema, cache>>
      /\ jar' = [jar EXCEPT ![c] = IF Answer(c, kind, path) = "logout"
                                   THEN NoToken ELSE @]
  BY DEF Dispatch, settingsVars, isolateVars
<1>3. jar' \in [Clients -> Token]
  BY <1>1, <1>2 DEF Inv, TypeOK
<1> QED BY <1>2, <1>3, IdleIsRequest, OneRequest DEF Inv, TypeOK

LEMMA DispatchLoginInv ==
    ASSUME Inv, NEW c \in Clients, NEW path, DispatchLogin(c, path) PROVE Inv'
<1> DEFINE q == [req[c] EXCEPT !.phase = "gate", !.wait = 0]
<1>1. /\ req[c] \in Request /\ req[c].iso \in Isolates /\ req[c].copy \in Blob
      /\ req[c].wait \in 0 .. MaxReply
  BY DEF Inv, TypeOK, Placed, DispatchLogin, HasSettings, Request
<1>2. /\ q \in Request /\ q.phase = "gate" /\ q.copy = req[c].copy
      /\ q.iso = req[c].iso /\ q.wait = 0
  <2>1. 0 \in 0 .. MaxReply
    BY SessionsAssumption
  <2>2. q \in Request
    BY <1>1, <2>1, Moved
  <2> QED BY <1>1, <2>2 DEF Request
<1>3. /\ req' = [req EXCEPT ![c] = q]
      /\ UNCHANGED <<row, changes, halves, since, schema, cache, jar>>
  BY DEF DispatchLogin, settingsVars, isolateVars, Inv, TypeOK
<1>4. ASSUME q.copy.hash # 0
      PROVE  since[q.copy] <= CacheTtl + 2 * MaxReply
  <2>1. req[c].phase = "admin"
    BY <1>2, <1>4 DEF DispatchLogin, HasSettings, Inv, CopiesLately, CopyLately,
                      Envless
  <2>2. since[req[c].copy] <= CacheTtl + MaxReply + req[c].wait
    BY <2>1 DEF Inv, CopiesLately, CopyLately
  <2>3. since[req[c].copy] \in Nat
    BY <1>1, SessionsAssumption DEF Inv, TypeOK, LongAgo
  <2> HIDE DEF q
  <2> QED BY <1>1, <1>2, <2>2, <2>3, SessionsAssumption
<1> HIDE DEF q
<1>5. q.copy.hash # 0 => since[q.copy] <= CacheTtl + 2 * MaxReply + q.wait
  BY <1>2, <1>4, SessionsAssumption
<1> QED BY <1>1, <1>2, <1>3, <1>5, OneRequest DEF Inv, TypeOK

LEMMA VerifyInv ==
    ASSUME Inv, NEW c \in Clients, NEW password, Verify(c, password) PROVE Inv'
<1> DEFINE q == [req[c] EXCEPT !.phase = "result", !.wait = 0]
<1>1. req[c] \in Request /\ req[c].iso \in Isolates /\ req[c].copy \in Blob
  BY DEF Inv, TypeOK, Placed, Verify, Request
<1>2. q \in Request /\ q.phase = "result" /\ q.iso = req[c].iso
  <2>1. 0 \in 0 .. MaxReply
    BY SessionsAssumption
  <2>2. q \in Request
    BY <1>1, <2>1, Moved
  <2> QED BY <1>1, <2>2 DEF Request
<1>3. /\ \/ req' = [req EXCEPT ![c] = q]
         \/ req' = [req EXCEPT ![c] = Idle]
      /\ UNCHANGED <<row, changes, halves, since, schema, cache, jar>>
  BY DEF Verify, settingsVars, isolateVars
<1> HIDE DEF q
<1>4. CASE req' = [req EXCEPT ![c] = q]
  BY <1>1, <1>2, <1>3, <1>4, OneRequest DEF Inv, TypeOK
<1>5. CASE req' = [req EXCEPT ![c] = Idle]
  BY <1>3, <1>5, IdleIsRequest, OneRequest DEF Inv, TypeOK
<1> QED BY <1>3, <1>4, <1>5

LEMMA SignInv == ASSUME Inv, NEW c \in Clients, Sign(c) PROVE Inv'
<1>1. req[c].copy \in Blob
  BY DEF Inv, TypeOK, Request
<1>2. Secret(req[c].copy) \in Secrets
  BY <1>1 DEF Blob, Secret, Secrets
<1>3. [secret |-> Secret(req[c].copy), age |-> 0] \in Token
  BY <1>2, SessionsAssumption DEF Token
<1>4. jar' \in [Clients -> Token]
  BY <1>3 DEF Sign, Inv, TypeOK
<1> QED BY <1>4, IdleIsRequest, OneRequest
        DEF Sign, settingsVars, isolateVars, Inv, TypeOK

LEMMA LoginEndsInv == ASSUME Inv, NEW c \in Clients, LoginEnds(c) PROVE Inv'
BY IdleIsRequest, OneRequest DEF LoginEnds, settingsVars, isolateVars, Inv, TypeOK

-----------------------------------------------------------------------------
(* What happens to an isolate happens to all of its requests.  *)
LEMMA SchemaInv ==
    ASSUME Inv, NEW i \in Isolates, SchemaReady(i) \/ SchemaFails(i)
    PROVE  Inv'
<1>1. /\ UNCHANGED <<row, changes, halves, since, cache, jar>>
      /\ schema' \in [Isolates -> {"none", "pending", "ready"}]
  BY DEF SchemaReady, SchemaFails, settingsVars, Inv, TypeOK
<1>2. /\ req' \in [Clients -> Request]
      /\ \A c \in Clients :
           \/ req'[c] = req[c]
           \/ /\ req[c].phase = "schema" /\ req'[c].phase = "envless"
              /\ req'[c].iso = req[c].iso /\ req'[c].copy = req[c].copy
  <2>1. CASE SchemaReady(i)
    BY <2>1 DEF SchemaReady, Inv, TypeOK
  <2>2. CASE SchemaFails(i)
    <3>1. ASSUME NEW c \in Clients
          PROVE  LET q == [req[c] EXCEPT !.phase = "envless"]
                 IN  /\ q \in Request /\ q.phase = "envless"
                     /\ q.iso = req[c].iso /\ q.copy = req[c].copy
      BY DEF Inv, TypeOK, Request
    <3> QED BY <2>2, <3>1 DEF SchemaFails, Inv, TypeOK
  <2> QED BY <2>1, <2>2
<1>3. TypeOK'
  BY <1>1, <1>2 DEF Inv, TypeOK
<1>4. Placed'
  BY <1>1, <1>2 DEF Inv, Placed
<1>5. \A c \in Clients : CopyLately(c)'
  BY <1>1, <1>2 DEF Inv, CopiesLately, CopyLately
<1>6. since'[row'] = 0 /\ CachedLately'
  BY <1>1 DEF Inv, CopiesLately, CachedLately, Young
<1> QED BY <1>3, <1>4, <1>5, <1>6 DEF Inv, CopiesLately

LEMMA NoEntryIsEntry ==
    /\ NoEntry \in [kept : BOOLEAN, age : 0 .. CacheTtl, blob : Blob]
    /\ NoEntry.kept = FALSE
BY SessionsAssumption DEF NoEntry, Blob, Envless, Hashes

LEMMA EvictInv == ASSUME Inv, NEW i \in Isolates, Evict(i) PROVE Inv'
<1>1. /\ UNCHANGED <<row, changes, halves, since, jar>>
      /\ schema' \in [Isolates -> {"none", "pending", "ready"}]
      /\ cache' = [cache EXCEPT ![i] = NoEntry]
      /\ req' = [c \in Clients |-> IF req[c].iso = i THEN Idle ELSE req[c]]
  BY DEF Evict, settingsVars, Inv, TypeOK
<1>2. TypeOK'
  BY <1>1, NoEntryIsEntry, IdleIsRequest DEF Inv, TypeOK
<1>3. Placed'
  BY <1>1, IdleIsRequest DEF Inv, Placed
<1>4. cache'[i] = NoEntry /\ \A j \in Isolates \ {i} : cache'[j] = cache[j]
  BY <1>1 DEF Inv, TypeOK
<1>5. CachedLately'
  BY <1>1, <1>4, NoEntryIsEntry DEF Inv, CopiesLately, CachedLately, Young
<1>6. \A c \in Clients : CopyLately(c)'
  BY <1>1, IdleIsRequest DEF Inv, CopiesLately, CopyLately
<1>7. since'[row'] = 0
  BY <1>1 DEF Inv, CopiesLately
<1> QED BY <1>2, <1>3, <1>5, <1>6, <1>7 DEF Inv, CopiesLately

-----------------------------------------------------------------------------
(* A write makes its blob the youngest there is, and no other one older.  *)
LEMMA WriteInv ==
    ASSUME Inv, NEW i \in Isolates, NEW blob \in Blob, WriteRow(i, blob),
           blob.hash \in Passwords, blob.hash <= changes + 2,
           halves' \in Nat
    PROVE  Inv'
<1>1. /\ row' = blob /\ changes' = changes + 1 /\ changes < MaxChanges
      /\ since' = [since EXCEPT ![blob] = 0]
      /\ UNCHANGED <<schema, req, jar>>
      /\ cache' = [cache EXCEPT ![i] = NoEntry] \/ cache' = cache
  BY DEF WriteRow
<1>2. /\ changes' \in 0 .. MaxChanges
      /\ row' \in [path : Paths, hash : Passwords, fits : BOOLEAN]
  BY <1>1, SessionsAssumption DEF Inv, TypeOK, Blob
<1>3. cache' \in [Isolates -> [kept : BOOLEAN, age : 0 .. CacheTtl, blob : Blob]]
  BY <1>1, NoEntryIsEntry DEF Inv, TypeOK
<1>4. /\ since' \in [Blob -> 0 .. LongAgo] /\ since'[blob] = 0
      /\ \A b \in Blob : since'[b] = 0 \/ since'[b] = since[b]
  BY <1>1, SessionsAssumption DEF Inv, TypeOK, LongAgo
<1>5. TypeOK'
  BY <1>1, <1>2, <1>3, <1>4 DEF Inv, TypeOK
<1>6. Placed'
  BY <1>1, SessionsAssumption DEF Inv, Placed, TypeOK
<1>7. \A j \in Isolates : cache'[j] = cache[j] \/ cache'[j] = NoEntry
  BY <1>1 DEF Inv, TypeOK
<1>8. CachedLately'
  <2> SUFFICES ASSUME NEW j \in Isolates, Young(j)'
               PROVE  since'[cache'[j].blob] <= cache'[j].age + MaxReply
    BY DEF CachedLately
  <2>1. cache'[j] = cache[j]
    BY <1>7, NoEntryIsEntry DEF Young
  <2>2. /\ since[cache[j].blob] <= cache[j].age + MaxReply
        /\ cache[j].blob \in Blob /\ cache[j].age \in Nat
    BY <2>1, SessionsAssumption DEF Inv, CopiesLately, CachedLately, Young, TypeOK
  <2> QED BY <1>4, <2>1, <2>2, SessionsAssumption
<1>9. ASSUME NEW c \in Clients PROVE CopyLately(c)'
  <2>1. req[c].copy \in Blob /\ req[c].wait \in Nat
    BY SessionsAssumption DEF Inv, TypeOK, Request
  <2>2. since'[req[c].copy] = 0 \/ since'[req[c].copy] = since[req[c].copy]
    BY <1>4, <2>1
  <2>3. req'[c] = req[c] /\ CopyLately(c)
    BY <1>1 DEF Inv, CopiesLately
  <2>4. CASE since'[req[c].copy] = 0
    BY <2>1, <2>3, <2>4, SessionsAssumption DEF CopyLately
  <2>5. CASE since'[req[c].copy] = since[req[c].copy]
    BY <2>3, <2>5 DEF CopyLately
  <2> QED BY <2>2, <2>4, <2>5
<1> QED BY <1>1, <1>4, <1>5, <1>6, <1>8, <1>9 DEF Inv, CopiesLately

LEMMA SaveInv ==
    ASSUME Inv, NEW i \in Isolates, NEW path \in Paths, NEW salted \in BOOLEAN,
           Save(i, path, salted)
    PROVE  Inv'
<1> DEFINE blob == [row EXCEPT !.path = path, !.fits = @ /\ ~salted]
<1>1. row \in [path : Paths, hash : Passwords, fits : BOOLEAN]
  BY DEF Inv, TypeOK
<1>2. /\ blob \in Blob
      /\ blob.hash = row.hash
  BY <1>1 DEF Blob, Passwords
<1>3. WriteRow(i, blob)
  BY DEF Save
<1>4. row.hash <= changes + 2 /\ row.hash \in Passwords
  BY <1>1, SessionsAssumption DEF Inv, Placed, TypeOK, Passwords, Hashes
<1>5. halves' \in Nat
  BY DEF Save, Inv, TypeOK
<1> HIDE DEF blob
<1> QED BY <1>2, <1>3, <1>4, <1>5, WriteInv

LEMMA SaveHashInv ==
    ASSUME Inv, NEW i \in Isolates, NEW path \in Paths, NEW fits \in BOOLEAN,
           SaveHash(i, path, fits)
    PROVE  Inv'
<1> DEFINE blob == [path |-> path, hash |-> row.hash + 1, fits |-> fits]
<1>1. WriteRow(i, blob) /\ changes < MaxChanges
  BY DEF SaveHash, WriteRow
<1>2. /\ row.hash \in Nat /\ row.hash # 0 /\ row.hash <= changes + 1
      /\ changes \in Nat
  BY SessionsAssumption DEF Inv, TypeOK, Placed, Passwords, Hashes
<1>3. /\ row.hash + 1 \in Hashes /\ row.hash + 1 \in Passwords
      /\ row.hash + 1 <= changes + 2
  BY <1>1, <1>2, SessionsAssumption DEF Passwords, Hashes
<1>4. blob \in Blob /\ blob.hash = row.hash + 1
  BY <1>3 DEF Blob
<1>5. halves' \in Nat
  BY DEF SaveHash, Inv, TypeOK
<1> HIDE DEF blob
<1> QED BY <1>1, <1>3, <1>4, <1>5, WriteInv

-----------------------------------------------------------------------------
(* A tick makes everything one tick older at most, and a copy that could   *)
(* be too old for its place is at its last.                                *)
LEMMA TickInv == ASSUME Inv, Tick PROVE Inv'
<1>1. /\ UNCHANGED <<row, changes, halves, schema>>
      /\ \A c \in Clients : InD1(req[c]) => req[c].wait < MaxReply
      /\ cache' = [i \in Isolates |->
                     [cache[i] EXCEPT !.age = IF cache[i].kept
                                              THEN Aged(@, CacheTtl) ELSE @]]
      /\ req' = [c \in Clients |->
                   [req[c] EXCEPT !.wait = IF InD1(req[c]) THEN @ + 1 ELSE @]]
      /\ jar' = [c \in Clients |-> AgedToken(jar[c])]
      /\ since' = [b \in Blob |-> IF b = row THEN 0 ELSE Aged(since[b], LongAgo)]
  BY DEF Tick
<1>2. LongAgo \in Nat
  BY SessionsAssumption DEF LongAgo
<1>3. /\ since' \in [Blob -> 0 .. LongAgo]
      /\ \A b \in Blob : since'[b] <= since[b] + 1 /\ since[b] \in Nat
                                                    /\ since'[b] \in Nat
  <2>1. ASSUME NEW b \in Blob
        PROVE  /\ since[b] \in 0 .. LongAgo /\ since'[b] \in 0 .. LongAgo
               /\ since'[b] <= since[b] + 1
    BY <1>1, <1>2 DEF Aged, Inv, TypeOK
  <2> QED BY <1>1, <1>2, <2>1
<1>4. ASSUME NEW i \in Isolates
      PROVE  /\ cache'[i] \in [kept : BOOLEAN, age : 0 .. CacheTtl, blob : Blob]
             /\ cache'[i].kept = cache[i].kept /\ cache'[i].blob = cache[i].blob
             /\ Young(i)' => Young(i) /\ cache'[i].age = cache[i].age + 1
  <2> DEFINE age == IF cache[i].kept THEN Aged(cache[i].age, CacheTtl)
                    ELSE cache[i].age
  <2>1. cache[i] \in [kept : BOOLEAN, age : 0 .. CacheTtl, blob : Blob]
    BY DEF Inv, TypeOK
  <2>2. age \in 0 .. CacheTtl
    BY <2>1, SessionsAssumption DEF Aged
  <2>3. cache[i].kept /\ age < CacheTtl =>
            cache[i].age < CacheTtl /\ age = cache[i].age + 1
    BY <2>1, SessionsAssumption DEF Aged
  <2>4. cache'[i] = [cache[i] EXCEPT !.age = age]
    BY <1>1
  <2> HIDE DEF age
  <2>5. /\ cache'[i] \in [kept : BOOLEAN, age : 0 .. CacheTtl, blob : Blob]
        /\ cache'[i].kept = cache[i].kept /\ cache'[i].blob = cache[i].blob
        /\ cache'[i].age = age
    BY <2>1, <2>2, <2>4
  <2> QED BY <2>3, <2>5 DEF Young
<1>5. ASSUME NEW c \in Clients
      PROVE  /\ req'[c] \in Request
             /\ req'[c].phase = req[c].phase /\ req'[c].iso = req[c].iso
             /\ req'[c].copy = req[c].copy
             /\ InD1(req[c]) => req'[c].wait = req[c].wait + 1
  <2> DEFINE wait == IF InD1(req[c]) THEN req[c].wait + 1 ELSE req[c].wait
  <2>1. req[c] \in Request /\ req[c].wait \in 0 .. MaxReply
    BY DEF Inv, TypeOK, Request
  <2>2. wait \in 0 .. MaxReply /\ (InD1(req[c]) => wait = req[c].wait + 1)
    BY <1>1, <2>1, SessionsAssumption
  <2>3. req'[c] = [req[c] EXCEPT !.wait = wait]
    BY <1>1
  <2> HIDE DEF wait
  <2> QED BY <2>1, <2>2, <2>3 DEF Request
<1>6. ASSUME NEW c \in Clients PROVE jar'[c] \in Token
  <2>1. jar[c] \in Token /\ jar[c].age \in 0 .. SessionTtl + 1
    BY DEF Inv, TypeOK, Token
  <2>2. Aged(jar[c].age, SessionTtl + 1) \in 0 .. SessionTtl + 1
    BY <2>1, SessionsAssumption DEF Aged
  <2>3. jar'[c] = [jar[c] EXCEPT !.age = Aged(jar[c].age, SessionTtl + 1)]
    BY <1>1 DEF AgedToken
  <2> QED BY <2>1, <2>2, <2>3 DEF Token
<1>7. TypeOK'
  BY <1>1, <1>3, <1>4, <1>5, <1>6 DEF Inv, TypeOK
<1>8. Placed'
  BY <1>1, <1>5 DEF Inv, Placed
<1>9. CachedLately'
  <2> SUFFICES ASSUME NEW i \in Isolates, Young(i)'
               PROVE  since'[cache'[i].blob] <= cache'[i].age + MaxReply
    BY DEF CachedLately
  <2>1. /\ cache'[i].age = cache[i].age + 1 /\ cache'[i].blob = cache[i].blob
        /\ since[cache[i].blob] <= cache[i].age + MaxReply
    BY <1>4 DEF Inv, CopiesLately, CachedLately
  <2>2. cache[i].blob \in Blob /\ cache[i].age \in Nat
    BY SessionsAssumption DEF Inv, TypeOK
  <2> QED BY <1>3, <2>1, <2>2, SessionsAssumption
<1>10. ASSUME NEW c \in Clients PROVE CopyLately(c)'
  <2>1. req[c].copy \in Blob /\ req[c].wait \in Nat
    BY SessionsAssumption DEF Inv, TypeOK, Request
  <2>2. /\ since'[req[c].copy] <= since[req[c].copy] + 1
        /\ since[req[c].copy] \in Nat /\ since'[req[c].copy] \in Nat
    BY <1>3, <2>1
  <2>3. CopyLately(c)
    BY DEF Inv, CopiesLately
  <2> QED BY <1>5, <2>1, <2>2, <2>3, SessionsAssumption DEF CopyLately, InD1
<1>11. since'[row'] = 0
  BY <1>1, RowIsBlob DEF Inv
<1> QED BY <1>7, <1>8, <1>9, <1>10, <1>11 DEF Inv, CopiesLately

-----------------------------------------------------------------------------
LEMMA NextInv == Inv /\ [Next]_vars => Inv'
<1> SUFFICES ASSUME Inv, [Next]_vars PROVE Inv'
  OBVIOUS
<1>1. ASSUME NEW c \in Clients, NEW i \in Isolates, Arrive(c, i) PROVE Inv'
  BY <1>1, ArriveInv
<1>2. ASSUME NEW c \in Clients, Serving(c) PROVE Inv'
  <2>1. CASE Lookup(c)
    BY <2>1, LookupInv
  <2>2. CASE LoadReply(c)
    BY <2>2, LoadReplyInv
  <2>3. CASE LoadFails(c)
    BY <2>3, LoadFailsInv
  <2>4. ASSUME NEW path \in Paths, NEW kind \in {"public", "logout", "api"},
               Dispatch(c, kind, path)
        PROVE  Inv'
    BY <2>4, DispatchInv
  <2>5. ASSUME NEW path \in Paths, DispatchLogin(c, path) PROVE Inv'
    BY <2>5, DispatchLoginInv
  <2>6. ASSUME NEW password \in Passwords, Verify(c, password) PROVE Inv'
    BY <2>6, VerifyInv
  <2>7. CASE Sign(c)
    BY <2>7, SignInv
  <2>8. CASE LoginEnds(c)
    BY <2>8, LoginEndsInv
  <2> QED BY <1>2, <2>1, <2>2, <2>3, <2>4, <2>5, <2>6, <2>7, <2>8 DEF Serving
<1>3. ASSUME NEW i \in Isolates, SchemaReady(i) \/ SchemaFails(i) PROVE Inv'
  BY <1>3, SchemaInv
<1>4. ASSUME NEW i \in Isolates, Evict(i) PROVE Inv'
  BY <1>4, EvictInv
<1>5. ASSUME NEW i \in Isolates, NEW blob \in Blob, OtherReply(i, blob) PROVE Inv'
  BY <1>5, OtherReplyInv
<1>6. ASSUME NEW i \in Isolates, NEW path \in Paths, NEW salted \in BOOLEAN,
             Save(i, path, salted)
      PROVE  Inv'
  BY <1>6, SaveInv
<1>7. ASSUME NEW i \in Isolates, NEW path \in Paths, NEW fits \in BOOLEAN,
           SaveHash(i, path, fits) PROVE Inv'
  BY <1>7, SaveHashInv
<1>8. CASE Tick
  BY <1>8, TickInv
<1>9. CASE UNCHANGED vars
  <2>1. UNCHANGED <<row, changes, halves, schema, cache, req, jar, since>>
    BY <1>9 DEF vars
  <2>2. TypeOK' /\ Placed'
    BY <2>1 DEF Inv, TypeOK, Placed
  <2>3. CopiesLately'
    BY <2>1 DEF Inv, CopiesLately, CachedLately, CopyLately, Young
  <2> QED BY <2>2, <2>3 DEF Inv
<1> QED BY <1>1, <1>2, <1>3, <1>4, <1>5, <1>6, <1>7, <1>8, <1>9 DEF Next

LEMMA Invariance == Spec => []Inv
<1> QED BY InitInv, NextInv, PTL DEF Spec

-----------------------------------------------------------------------------
(* The settings of a request whose D1 calls were answered are not older    *)
(* than its window.                                                        *)
LEMMA InWindow ==
    ASSUME Inv, NEW c \in Clients
    PROVE  /\ req[c].phase = "admin" => req[c].copy \in Lately("api")
           /\ req[c].phase = "gate" /\ req[c].copy.hash # 0 =>
                  req[c].copy \in Lately("login")
<1>1. req[c].copy \in Blob /\ req[c].wait \in 0 .. MaxReply
  BY DEF Inv, TypeOK, Request
<1>2. since[req[c].copy] \in Nat
  BY <1>1, SessionsAssumption DEF Inv, TypeOK, LongAgo
<1>3. CopyLately(c)
  BY DEF Inv, CopiesLately
<1> QED BY <1>1, <1>2, <1>3, SessionsAssumption DEF CopyLately, Lately, Window

(***************************************************************************)
(* Every variable of the door stays in its type: an age stops at what it   *)
(* is compared with, a wait at MaxReply (store.ts:92-125, auth.ts:26-41).  *)
(***************************************************************************)
THEOREM TypeCorrect == Spec => []TypeOK
<1>1. Inv => TypeOK
  BY DEF Inv
<1> QED BY <1>1, Invariance, PTL

(***************************************************************************)
(* A call is served only on an unexpired token whose secret was the row's  *)
(* no longer than a Window ago (auth.ts:18, 32-41).                        *)
(***************************************************************************)
THEOREM SessionsDoEnd == Spec => []SessionsEnd
<1>1. Inv => SessionsEnd
  <2> SUFFICES ASSUME Inv, NEW c \in Clients, HasSettings(c),
                      Answer(c, "api", req[c].copy.path) = "api"
               PROVE  /\ jar[c].age <= SessionTtl
                      /\ IF req[c].phase = "envless"
                         THEN jar[c].secret = Secret(Envless)
                         ELSE \E b \in Lately("api") : jar[c].secret = Secret(b)
    BY DEF SessionsEnd
  <2>1. Accepts(req[c].copy, jar[c])
    BY DEF Answer
  <2>2. req[c].phase = "envless" => req[c].copy = Envless
    BY DEF Inv, CopiesLately, CopyLately
  <2>3. req[c].phase # "envless" => req[c].copy \in Lately("api")
    BY InWindow DEF HasSettings
  <2> QED BY <2>1, <2>2, <2>3 DEF Accepts, Live
<1> QED BY <1>1, Invariance, PTL

(***************************************************************************)
(* The stored path leads to the panel and an unexpired token of the row's  *)
(* secret is taken, but for a Window after a change (index.ts:71-87).      *)
(***************************************************************************)
THEOREM TurnedAwayOnlyBriefly == Spec => []TurnedAwayBriefly
<1>1. Inv => TurnedAwayBriefly
  <2> SUFFICES ASSUME Inv, NEW c \in Clients, req[c].phase = "admin",
                      \/ Answer(c, "public", row.path) = "landing"
                      \/ /\ jar[c].age <= SessionTtl /\ jar[c].secret = Secret(row)
                         /\ Answer(c, "api", row.path) # "api"
               PROVE  \E b \in Lately("api") : b # row
    BY DEF TurnedAwayBriefly
  <2>1. req[c].copy \in Lately("api")
    BY InWindow
  <2>2. req[c].copy # row
    BY DEF Answer, Accepts, Live
  <2> QED BY <2>1, <2>2
<1> QED BY <1>1, Invariance, PTL

(***************************************************************************)
(* What a login takes for the password, and what it does not, is right of  *)
(* a row no older than a Window (api.ts:65-81, auth.ts:22-25).             *)
(***************************************************************************)
THEOREM PasswordsAreTimely == Spec => []PasswordsTimely
<1>1. Inv => PasswordsTimely
  BY InWindow DEF PasswordsTimely
<1> QED BY <1>1, Invariance, PTL
=============================================================================
