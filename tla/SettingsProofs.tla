---------------------------- MODULE SettingsProofs ----------------------------
(***************************************************************************)
(* SettingsStore for every number of isolates, requests, settings and      *)
(* attempts: its types, the password a half-written row still carries, the *)
(* rev check, what an acknowledgement means, the register that saving      *)
(* implements, and that a first boot happens once.                         *)
(***************************************************************************)
EXTENDS SettingsStore, TLAPS

-----------------------------------------------------------------------------
(* The values the operators of SettingsStore build.  *)
LEMMA ValueForms ==
    /\ FreshBlob \in Blob /\ EnvlessBlob \in Blob /\ NoRow \in Rows /\ NoEntry \in Entry
    /\ IdleBoot \in BootState /\ IdleSave \in SaveState
    /\ Ended("failed") \in SaveState /\ Ended("acked") \in SaveState
<1>1. FreshBlob \in Blob /\ EnvlessBlob \in Blob
  BY SettingsAssumption DEF FreshBlob, EnvlessBlob, DefaultBlob, Blob, Counts
<1>2. NoRow \in Rows /\ NoEntry \in Entry
  BY <1>1, SettingsAssumption DEF NoRow, Rows, NoEntry, Entry
<1>3. IdleBoot \in BootState
  BY DEF IdleBoot, BootState
<1>4. NoChange \in Bodies
  <2>1. NoChange \in [{} -> Values]
    BY DEF NoChange
  <2> QED BY <2>1 DEF Bodies
<1>5. 0 \in 0 .. Attempts - 1
  BY SettingsAssumption
<1>6. IdleSave \in SaveState
  BY <1>1, <1>2, <1>4, <1>5 DEF IdleSave, SaveState, Counts
<1>7. Ended("failed") \in SaveState /\ Ended("acked") \in SaveState
  BY <1>6 DEF Ended, SaveState
<1> QED BY <1>1, <1>2, <1>3, <1>6, <1>7

(* The blob a save writes is a blob, and changes only the named settings.  *)
LEMMA MutateForms ==
    ASSUME NEW q \in SaveState
    PROVE  /\ Mutate(q) \in Blob
           /\ q.second => Mutate(q) = q.mine
           /\ ~q.second =>
                /\ \A o \in Opts \ DOMAIN q.body :
                      Mutate(q).opts[o] = q.prev.blob.opts[o]
                /\ \A o \in DOMAIN q.body : Mutate(q).opts[o] = q.body[o]
                /\ Mutate(q).opts = [o \in Opts |-> IF o \in DOMAIN q.body THEN q.body[o]
                                                    ELSE q.prev.blob.opts[o]]
                /\ Mutate(q).password = q.prev.blob.password
                /\ Mutate(q).salted = (q.prev.blob.salted /\ q.pw = NoPw)
                /\ Mutate(q).rounds = q.prev.blob.rounds
                /\ Mutate(q).iters = IF q.pw = NoPw THEN q.prev.blob.iters ELSE q.iters
                /\ Mutate(q).newPw = IF q.pw = NoPw THEN q.prev.blob.newPw ELSE q.pw
<1>1. /\ q.prev.blob \in Blob /\ q.mine \in Blob /\ q.pw \in Passwords \cup {NoPw}
      /\ q.iters \in Counts
  BY DEF SaveState, Rows
<1>2. q.second \in BOOLEAN
  BY DEF SaveState
<1>3. CASE q.second
  BY <1>1, <1>3 DEF Mutate
<1>4. CASE ~q.second
  <2> DEFINE new == [o \in Opts |-> IF o \in DOMAIN q.body THEN q.body[o]
                                                     ELSE q.prev.blob.opts[o]]
  <2>1. PICK S \in SUBSET Opts : q.body \in [S -> Values]
    BY DEF SaveState, Bodies
  <2>2. new \in [Opts -> Values]
    BY <1>1, <2>1 DEF Blob
  <2>3. Mutate(q) = [opts |-> new, password |-> q.prev.blob.password,
                     salted |-> q.prev.blob.salted /\ q.pw = NoPw,
                     rounds |-> q.prev.blob.rounds,
                     iters |-> IF q.pw = NoPw THEN q.prev.blob.iters ELSE q.iters,
                     newPw |-> IF q.pw = NoPw THEN q.prev.blob.newPw ELSE q.pw,
                     isDefault |-> q.prev.blob.isDefault]
    BY <1>1, <1>4 DEF Mutate, Blob
  <2>4. /\ \A o \in Opts \ DOMAIN q.body : new[o] = q.prev.blob.opts[o]
        /\ \A o \in DOMAIN q.body : new[o] = q.body[o]
    BY <2>1
  <2>5. new = [o \in Opts |-> IF o \in DOMAIN q.body THEN q.body[o]
                                                   ELSE q.prev.blob.opts[o]]
    OBVIOUS
  <2> HIDE DEF new
  <2>6. Mutate(q) \in Blob
    BY <1>1, <2>2, <2>3 DEF Blob
  <2>7. /\ Mutate(q).opts = new /\ Mutate(q).password = q.prev.blob.password
        /\ Mutate(q).salted = (q.prev.blob.salted /\ q.pw = NoPw)
        /\ Mutate(q).rounds = q.prev.blob.rounds
        /\ Mutate(q).iters = IF q.pw = NoPw THEN q.prev.blob.iters ELSE q.iters
        /\ Mutate(q).newPw = IF q.pw = NoPw THEN q.prev.blob.newPw ELSE q.pw
    BY <2>3
  <2> QED BY <1>4, <2>4, <2>5, <2>6, <2>7
<1> QED BY <1>2, <1>3, <1>4

LEMMA HashedForms ==
    ASSUME NEW q \in SaveState, Mutate(q).newPw # NoPw
    PROVE  /\ Hashed(q) \in Blob
           /\ Hashed(q).opts = Mutate(q).opts /\ Hashed(q).newPw = NoPw
           /\ Hashed(q).password = Mutate(q).newPw /\ Hashed(q).salted
           /\ Hashed(q).rounds = q.iters /\ Hashed(q).iters = Mutate(q).iters
<1>1. Mutate(q) \in Blob /\ q.iters \in Counts
  BY MutateForms DEF SaveState
<1>2. /\ Mutate(q).opts \in [Opts -> Values] /\ Mutate(q).newPw \in Passwords
      /\ Mutate(q).iters \in Counts
  BY <1>1 DEF Blob
<1> QED BY <1>1, <1>2 DEF Hashed, Blob

-----------------------------------------------------------------------------
(* What SaveWrites and SaveConflicts make of the request.  *)
LEMMA SaveForms ==
    ASSUME TypeOK, NEW s \in Saves
    PROVE  /\ [save[s] EXCEPT !.phase = "update", !.prev = stored] \in SaveState
           /\ Mutate(save[s]).newPw # NoPw =>
                [save[s] EXCEPT !.phase = "select", !.second = TRUE,
                    !.mine = Hashed(save[s]), !.tries = 0] \in SaveState
           /\ save[s].tries + 1 # Attempts =>
                [save[s] EXCEPT !.phase = "select", !.tries = @ + 1] \in SaveState
<1>1. save[s] \in SaveState /\ stored \in Rows
  BY DEF TypeOK
<1>2. [save[s] EXCEPT !.phase = "update", !.prev = stored] \in SaveState
  BY <1>1 DEF SaveState
<1>3. ASSUME Mutate(save[s]).newPw # NoPw
      PROVE  [save[s] EXCEPT !.phase = "select", !.second = TRUE,
                    !.mine = Hashed(save[s]), !.tries = 0] \in SaveState
  <2>1. Hashed(save[s]) \in Blob
    BY <1>1, <1>3, HashedForms
  <2>2. 0 \in 0 .. Attempts - 1
    BY SettingsAssumption
  <2> QED BY <1>1, <2>1, <2>2 DEF SaveState
<1>4. ASSUME save[s].tries + 1 # Attempts
      PROVE  [save[s] EXCEPT !.phase = "select", !.tries = @ + 1] \in SaveState
  <2>1. save[s].tries + 1 \in 0 .. Attempts - 1
    BY <1>1, <1>4, SettingsAssumption DEF SaveState
  <2> QED BY <1>1, <2>1 DEF SaveState
<1> QED BY <1>2, <1>3, <1>4

(* A boot under way knows the host it makes the admin of.  *)
HostKnown == \A b \in Boots : boot[b].phase # "idle" => boot[b].host \in Hosts

LEMMA ReadingType ==
    ASSUME TypeOK, HostKnown, NEW i \in Isolates, Reading(i)
    PROVE  TypeOK' /\ HostKnown'
<1> USE DEF TypeOK, HostKnown
<1>1. CASE LoadSelect(i)
  BY <1>1 DEF LoadSelect
<1>2. ASSUME NEW r \in read[i], LoadReply(i, r) PROVE TypeOK' /\ HostKnown'
  <2>1. r \in Rows
    OBVIOUS
  <2>2. [kept |-> TRUE, age |-> 0, blob |-> r.blob] \in Entry
    BY <2>1, SettingsAssumption DEF Entry, Rows
  <2> QED BY <1>2, <2>2 DEF LoadReply
<1>3. ASSUME NEW r \in read[i], LoadFails(i, r) PROVE TypeOK' /\ HostKnown'
  BY <1>3 DEF LoadFails
<1> QED BY <1>1, <1>2, <1>3 DEF Reading

LEMMA BootingType ==
    ASSUME TypeOK, HostKnown, NEW b \in Boots, Booting(b)
    PROVE  TypeOK' /\ HostKnown'
<1> USE DEF TypeOK, HostKnown
<1>1. [rev |-> 1, blob |-> FreshBlob] \in Rows /\ IdleBoot \in BootState
  BY ValueForms DEF Rows
<1>2. [boot[b] EXCEPT !.phase = "admin"] \in BootState
  BY DEF BootState
<1>3. ASSUME NEW i \in Isolates, NEW h \in Hosts, BootStart(b, i, h)
      PROVE  TypeOK' /\ HostKnown'
  <2>1. [phase |-> "hashing", iso |-> i, host |-> h] \in BootState
    BY DEF BootState
  <2> QED BY <1>3, <2>1 DEF BootStart
<1>4. CASE BootSettings(b)
  <2>1. stored' \in Rows
    BY <1>1, <1>4 DEF BootSettings
  <2>2. boot' \in [Boots -> BootState]
    BY <1>2, <1>4 DEF BootSettings
  <2>3. HostKnown'
    BY <1>4 DEF BootSettings, BootState
  <2> QED BY <1>4, <2>1, <2>2, <2>3 DEF BootSettings
<1>5. ASSUME boot' = [boot EXCEPT ![b] = IdleBoot]
      PROVE  boot' \in [Boots -> BootState] /\ HostKnown'
  BY <1>1, <1>5 DEF IdleBoot
<1>6. CASE BootAdmin(b)
  BY <1>5, <1>6 DEF BootAdmin
<1>7. CASE BootFails(b)
  <2>1. boot[b].phase = "admin" => boot[b].host \in Hosts
    OBVIOUS
  <2>2. stored' \in Rows /\ admins' \subseteq Hosts
    BY <1>1, <1>7, <2>1 DEF BootFails
  <2> QED BY <1>5, <1>7, <2>2 DEF BootFails
<1> QED BY <1>3, <1>4, <1>6, <1>7 DEF Booting

LEMMA SavingType ==
    ASSUME TypeOK, HostKnown, NEW s \in Saves, Saving(s)
    PROVE  TypeOK' /\ HostKnown'
<1>1. save \in [Saves -> SaveState] /\ stored \in Rows /\ cache \in [Isolates -> Entry]
  BY DEF TypeOK
<1>2. ASSUME NEW i \in Isolates, NEW a \in Asks, NEW n \in Counts, SaveStart(s, i, a, n)
      PROVE  save' \in [Saves -> SaveState]
  <2>1. [IdleSave EXCEPT !.phase = "select", !.iso = i, !.body = a.body, !.pw = a.pw,
                         !.iters = n]
           \in SaveState
    <3>1. a.body \in Bodies /\ a.pw \in Passwords \cup {NoPw}
      BY AsksAssumption
    <3> QED BY <3>1, ValueForms DEF SaveState
  <2> QED BY <1>1, <1>2, <2>1 DEF SaveStart
<1>3. CASE SaveSelect(s)
  <2>1. save' = [save EXCEPT ![s] = [save[s] EXCEPT !.phase = "update", !.prev = stored]]
    BY <1>3 DEF SaveSelect
  <2> QED BY <1>1, <1>3, <2>1, SaveForms DEF SaveSelect, TypeOK, HostKnown
<1>4. Mutate(save[s]) \in Blob /\ [rev |-> stored.rev + 1, blob |-> Mutate(save[s])] \in Rows
  <2>1. Mutate(save[s]) \in Blob
    BY <1>1, MutateForms
  <2> QED BY <1>1, <2>1 DEF Rows
<1>5. CASE SaveWrites(s)
  <2>1. save' \in [Saves -> SaveState]
    BY <1>1, <1>5, SaveForms, ValueForms DEF SaveWrites
  <2>2. cache' \in [Isolates -> Entry]
    BY <1>1, <1>5, ValueForms DEF SaveWrites, Invalidated
  <2>3. stored' \in Rows
    BY <1>4, <1>5 DEF SaveWrites, Written
  <2> QED BY <1>5, <2>1, <2>2, <2>3 DEF SaveWrites, TypeOK, HostKnown
<1>6. CASE SaveConflicts(s)
  <2>1. save' \in [Saves -> SaveState]
    BY <1>1, <1>6, SaveForms, ValueForms DEF SaveConflicts
  <2> QED BY <1>6, <2>1 DEF SaveConflicts, TypeOK, HostKnown
<1>7. CASE SaveFails(s)
  <2>1. save' \in [Saves -> SaveState]
    BY <1>1, <1>7, ValueForms DEF SaveFails
  <2>2. stored' \in Rows
    BY <1>1, <1>4, <1>7 DEF SaveFails, Written
  <2> QED BY <1>7, <2>1, <2>2 DEF SaveFails, TypeOK, HostKnown
<1>8. ASSUME NEW i \in Isolates, NEW a \in Asks, NEW n \in Counts, SaveStart(s, i, a, n)
      PROVE  TypeOK' /\ HostKnown'
  BY <1>2, <1>8 DEF SaveStart, TypeOK, HostKnown
<1> QED BY <1>3, <1>5, <1>6, <1>7, <1>8 DEF Saving

LEMMA EvictType ==
    ASSUME TypeOK, HostKnown, NEW i \in Isolates, Evict(i)
    PROVE  TypeOK' /\ HostKnown'
<1>1. cache' \in [Isolates -> Entry]
  BY ValueForms DEF Evict, Invalidated, TypeOK
<1>2. boot' \in [Boots -> BootState] /\ HostKnown'
  BY ValueForms DEF Evict, TypeOK, HostKnown, IdleBoot
<1>3. save' \in [Saves -> SaveState]
  BY ValueForms DEF Evict, TypeOK
<1>4. read' \in [Isolates -> SUBSET Rows]
  BY DEF Evict, TypeOK
<1> QED BY <1>1, <1>2, <1>3, <1>4 DEF Evict, TypeOK

LEMMA TickType ==
    ASSUME TypeOK, HostKnown, Tick
    PROVE  TypeOK' /\ HostKnown'
<1>1. ASSUME NEW i \in Isolates, Young(i)
      PROVE  [cache[i] EXCEPT !.age = @ + 1] \in Entry
  BY <1>1, SettingsAssumption DEF Young, TypeOK, Entry
<1>2. cache' \in [Isolates -> Entry]
  BY <1>1 DEF Tick, TypeOK
<1> QED BY <1>2 DEF Tick, TypeOK, HostKnown

(***************************************************************************)
(* Types of SettingsStore, for every value of its constants: the row, the  *)
(* entries and the requests of store.ts, settings.ts and api.ts.           *)
(***************************************************************************)
THEOREM SettingsTypeCorrect == Spec => [](TypeOK /\ HostKnown)
<1>1. Init => TypeOK /\ HostKnown
  BY ValueForms DEF Init, TypeOK, HostKnown, IdleBoot
<1>2. TypeOK /\ HostKnown /\ [Next]_vars => (TypeOK /\ HostKnown)'
  <2> SUFFICES ASSUME TypeOK, HostKnown, [Next]_vars PROVE TypeOK' /\ HostKnown'
    OBVIOUS
  <2>1. CASE UNCHANGED vars
    BY <2>1 DEF vars, TypeOK, HostKnown
  <2> QED BY <2>1, ReadingType, BootingType, SavingType, EvictType, TickType DEF Next
<1> QED BY <1>1, <1>2, PTL DEF Spec

-----------------------------------------------------------------------------
(* The hash was made beside the salt, or the password waits to be hashed.  *)
Sound(b) == b.salted \/ b.newPw # NoPw

(* Whatever a request may yet write is sound.  *)
BlobsSound ==
    /\ Sound(stored.blob)
    /\ \A s \in Saves : Sound(save[s].prev.blob) /\ Sound(save[s].mine)

(* A row a request has read is older than the stored one, or is it.  *)
PrevTells ==
    /\ stored.rev = 0 => stored = NoRow
    /\ \A s \in Saves : /\ save[s].prev.rev <= stored.rev
                        /\ save[s].prev.rev = stored.rev => save[s].prev = stored

LEMMA MutateSound ==
    ASSUME TypeOK, NEW s \in Saves, BlobsSound
    PROVE  /\ Sound(Mutate(save[s]))
           /\ Mutate(save[s]).newPw # NoPw => Sound(Hashed(save[s]))
<1>1. save[s] \in SaveState
  BY DEF TypeOK
<1>2. save[s].second \in BOOLEAN
  BY <1>1 DEF SaveState
<1>3. Sound(Mutate(save[s]))
  BY <1>1, <1>2, MutateForms DEF BlobsSound, Sound
<1> QED BY <1>1, <1>3, HashedForms DEF Sound

(* What a request writes, or will write, is sound and the row's successor. *)
SafeToWrite == TypeOK /\ HostKnown /\ BlobsSound /\ PrevTells

LEMMA SavingSafe ==
    ASSUME SafeToWrite, NEW s \in Saves, Saving(s)
    PROVE  BlobsSound' /\ PrevTells'
<1> USE DEF SafeToWrite
<1>1. save \in [Saves -> SaveState] /\ stored \in Rows /\ stored.rev \in Nat
  BY DEF TypeOK, Rows
<1>2. \A t \in Saves : save[t].prev \in Rows /\ save[t].prev.rev \in Nat
  BY <1>1 DEF SaveState, Rows
<1>3. NoRow.rev = 0 /\ Sound(NoRow.blob) /\ Sound(FreshBlob)
  BY DEF NoRow, FreshBlob, EnvlessBlob, DefaultBlob, Sound
<1>4. ASSUME NEW q, save' = [save EXCEPT ![s] = q],
             stored' = stored \/ Written(save[s]),
             q.prev = save[s].prev \/ q.prev = NoRow \/ (q.prev = stored /\ stored' = stored),
             Sound(q.mine)
      PROVE  BlobsSound' /\ PrevTells'
  <2>1. Sound(stored'.blob) /\ stored'.rev \in Nat
        /\ (stored' # stored => stored'.rev = stored.rev + 1)
    BY <1>1, <1>4, MutateSound DEF Written, BlobsSound
  <2>2. \A t \in Saves : save'[t] = IF t = s THEN q ELSE save[t]
    BY <1>1, <1>4
  <2>3. BlobsSound'
    BY <1>3, <1>4, <2>1, <2>2 DEF BlobsSound
  <2>4. stored'.rev = 0 => stored' = NoRow
    BY <1>1, <2>1 DEF PrevTells
  <2>5. ASSUME NEW t \in Saves
        PROVE  /\ save'[t].prev.rev <= stored'.rev
               /\ save'[t].prev.rev = stored'.rev => save'[t].prev = stored'
    BY <1>1, <1>2, <1>3, <1>4, <2>1, <2>2, <2>4 DEF PrevTells
  <2> QED BY <2>3, <2>4, <2>5 DEF PrevTells
<1>5. \A how : Ended(how).prev = NoRow /\ Sound(Ended(how).mine)
  BY <1>3 DEF Ended, IdleSave
<1>6. ASSUME NEW i \in Isolates, NEW a \in Asks, NEW n \in Counts, SaveStart(s, i, a, n)
      PROVE  BlobsSound' /\ PrevTells'
  <2> DEFINE q == [IdleSave EXCEPT !.phase = "select", !.iso = i, !.body = a.body, !.pw = a.pw,
                         !.iters = n]
  <2>1. q.prev = NoRow /\ Sound(q.mine)
    BY <1>3 DEF IdleSave
  <2> QED BY <1>4, <1>6, <2>1 DEF SaveStart
<1>7. CASE SaveSelect(s)
  <2> DEFINE q == [save[s] EXCEPT !.phase = "update", !.prev = stored]
  <2>1. q.prev = stored /\ q.mine = save[s].mine
    BY <1>1 DEF SaveState
  <2>2. save' = [save EXCEPT ![s] = q] /\ stored' = stored
    BY <1>7 DEF SaveSelect
  <2> HIDE DEF q
  <2> QED BY <1>4, <2>1, <2>2 DEF BlobsSound
<1>8. CASE SaveWrites(s)
  <2> DEFINE q == [save[s] EXCEPT !.phase = "select", !.second = TRUE,
                                  !.mine = Hashed(save[s]), !.tries = 0]
  <2>1. q.prev = save[s].prev /\ q.mine = Hashed(save[s])
    BY <1>1 DEF SaveState
  <2>2. save' = [save EXCEPT ![s] = IF Mutate(save[s]).newPw = NoPw
                                    THEN Ended("acked") ELSE q]
    BY <1>8 DEF SaveWrites
  <2> HIDE DEF q
  <2>3. Written(save[s])
    BY <1>8 DEF SaveWrites
  <2>4. CASE Mutate(save[s]).newPw = NoPw
    <3>1. save' = [save EXCEPT ![s] = Ended("acked")]
      BY <2>2, <2>4
    <3> QED BY <1>4, <1>5, <2>3, <3>1
  <2>5. CASE Mutate(save[s]).newPw # NoPw
    <3>1. save' = [save EXCEPT ![s] = q]
      BY <2>2, <2>5
    <3>2. Sound(q.mine)
      BY <2>1, <2>5, MutateSound
    <3> QED BY <1>4, <2>1, <2>3, <3>1, <3>2
  <2> QED BY <2>4, <2>5
<1>9. CASE SaveConflicts(s)
  <2> DEFINE q == [save[s] EXCEPT !.phase = "select", !.tries = @ + 1]
  <2>1. q.prev = save[s].prev /\ q.mine = save[s].mine
    BY <1>1 DEF SaveState
  <2>2. save' = [save EXCEPT ![s] = Ended("failed")] \/ save' = [save EXCEPT ![s] = q]
    BY <1>9 DEF SaveConflicts
  <2>3. Sound(save[s].mine) /\ stored' = stored
    BY <1>9 DEF BlobsSound, SaveConflicts
  <2> HIDE DEF q
  <2> QED BY <1>4, <1>5, <2>1, <2>2, <2>3
<1>10. CASE SaveFails(s)
  <2>1. save' = [save EXCEPT ![s] = Ended("failed")]
    BY <1>10 DEF SaveFails
  <2>2. stored' = stored \/ Written(save[s])
    BY <1>10 DEF SaveFails
  <2> QED BY <1>4, <1>5, <2>1, <2>2
<1> QED BY <1>6, <1>7, <1>8, <1>9, <1>10 DEF Saving

LEMMA BootingSafe ==
    ASSUME SafeToWrite, NEW b \in Boots, Booting(b)
    PROVE  BlobsSound' /\ PrevTells'
<1>1. save' = save
  BY DEF Booting, BootStart, BootSettings, BootAdmin, BootFails
<1>2. \/ stored' = stored
      \/ stored.rev = 0 /\ stored' = [rev |-> 1, blob |-> FreshBlob]
  <2>1. CASE BootSettings(b)
    BY <2>1 DEF BootSettings
  <2>2. CASE BootFails(b)
    BY <2>2 DEF BootFails
  <2> QED BY <2>1, <2>2 DEF Booting, BootStart, BootAdmin
<1>3. \A s \in Saves : save[s].prev.rev \in Nat
  BY DEF SafeToWrite, TypeOK, SaveState, Rows
<1>4. Sound(FreshBlob)
  BY DEF Sound, FreshBlob, DefaultBlob
<1>5. BlobsSound'
  BY <1>1, <1>2, <1>4 DEF BlobsSound, SafeToWrite
<1>6. PrevTells'
  BY <1>1, <1>2, <1>3 DEF PrevTells, SafeToWrite
<1> QED BY <1>5, <1>6

LEMMA EvictSafe ==
    ASSUME SafeToWrite, NEW i \in Isolates, Evict(i)
    PROVE  BlobsSound' /\ PrevTells'
<1>1. stored' = stored /\ stored.rev \in Nat
  BY DEF Evict, SafeToWrite, TypeOK, Rows
<1>2. \A s \in Saves : save'[s] = save[s] \/ save'[s] = Ended("failed")
  BY DEF Evict, SafeToWrite, TypeOK
<1>3. /\ Ended("failed").prev = NoRow /\ Ended("failed").mine = FreshBlob
      /\ NoRow.rev = 0 /\ Sound(NoRow.blob) /\ Sound(FreshBlob)
  BY DEF Ended, IdleSave, NoRow, FreshBlob, EnvlessBlob, DefaultBlob, Sound
<1>4. BlobsSound'
  BY <1>1, <1>2, <1>3 DEF BlobsSound, SafeToWrite
<1>5. PrevTells'
  BY <1>1, <1>2, <1>3 DEF PrevTells, SafeToWrite
<1> QED BY <1>4, <1>5

(* The inductive invariant of the rev check.  *)
LEMMA SafeToWriteAlways == Spec => []SafeToWrite
<1>1. Init => BlobsSound /\ PrevTells
  <2>1. NoRow.rev = 0 /\ Sound(NoRow.blob) /\ Sound(FreshBlob)
        /\ IdleSave.prev = NoRow /\ IdleSave.mine = FreshBlob
    BY DEF NoRow, FreshBlob, EnvlessBlob, DefaultBlob, Sound, IdleSave
  <2> QED BY <2>1 DEF Init, BlobsSound, PrevTells
<1>2. SafeToWrite /\ [Next]_vars => (BlobsSound /\ PrevTells)'
  <2> SUFFICES ASSUME SafeToWrite, [Next]_vars PROVE BlobsSound' /\ PrevTells'
    OBVIOUS
  <2>1. ASSUME UNCHANGED <<stored, save>> PROVE BlobsSound' /\ PrevTells'
    BY <2>1 DEF SafeToWrite, BlobsSound, PrevTells
  <2>2. CASE UNCHANGED vars
    BY <2>1, <2>2 DEF vars
  <2>3. CASE Tick
    BY <2>1, <2>3 DEF Tick
  <2>4. ASSUME NEW i \in Isolates, Reading(i) PROVE BlobsSound' /\ PrevTells'
    BY <2>1, <2>4 DEF Reading, LoadSelect, LoadReply, LoadFails
  <2> QED BY <2>2, <2>3, <2>4, SavingSafe, BootingSafe, EvictSafe DEF Next
<1> QED BY <1>1, <1>2, SettingsTypeCorrect, PTL DEF Spec, SafeToWrite

(***************************************************************************)
(* A row that opens to nobody carries the password that the next save      *)
(* hashes (api.ts:143-166), or was hashed in other iterations than it      *)
(* names, however many requests change the settings and wherever one of    *)
(* them is cut off.                                                        *)
(***************************************************************************)
THEOREM PasswordRecoverable == Spec => []HashFits
<1>1. SafeToWrite => HashFits
  BY DEF SafeToWrite, BlobsSound, Sound, HashFits, Opens
<1> QED BY <1>1, SafeToWriteAlways, PTL

-----------------------------------------------------------------------------
(* The rev check at work: the row a first write replaces is the row that   *)
(* the request has read.                                                   *)
LEMMA FirstWriteStep ==
    ASSUME SafeToWrite, NEW s \in Saves, Saving(s), stored' # stored
    PROVE  WriteOf(s) /\ (save[s].second \/ KeepsOthers(s))
<1>1. save \in [Saves -> SaveState] /\ save[s] \in SaveState
  BY DEF SafeToWrite, TypeOK
<1>2. SaveWrites(s) \/ SaveFails(s)
  BY DEF Saving, SaveStart, SaveSelect, SaveConflicts
<1>3. save[s].phase = "update" /\ Matches(save[s]) /\ Written(save[s])
  BY <1>2 DEF SaveWrites, SaveFails
<1>4. save'[s].phase # "update"
  <2>1. \A how \in {"acked", "failed"} : Ended(how).phase = how
    BY DEF Ended, IdleSave
  <2>2. [save[s] EXCEPT !.phase = "select", !.second = TRUE,
             !.mine = Hashed(save[s]), !.tries = 0].phase = "select"
    BY <1>1 DEF SaveState
  <2>3. CASE SaveWrites(s)
    BY <1>1, <2>1, <2>2, <2>3 DEF SaveWrites
  <2>4. CASE SaveFails(s)
    BY <1>1, <2>1, <2>4 DEF SaveFails
  <2> QED BY <1>2, <2>3, <2>4
<1>5. save[s].prev = stored
  BY <1>3 DEF Matches, SafeToWrite, PrevTells
<1>6. stored'.blob = Mutate(save[s])
  BY <1>3 DEF Written
<1>7. save[s].second \/ KeepsOthers(s)
  BY <1>1, <1>5, <1>6, MutateForms DEF KeepsOthers
<1> QED BY <1>3, <1>4, <1>7 DEF WriteOf

(***************************************************************************)
(* Optimistic locking (store.ts:127-158), for any number of isolates and   *)
(* concurrent requests: a write that applies a request to the row it read  *)
(* keeps every setting the request does not name.                          *)
(***************************************************************************)
THEOREM RevCheckKeepsOthers == Spec => [][FirstWriteKeepsOthers]_vars
<1>1. SafeToWrite /\ [Next]_vars => [FirstWriteKeepsOthers]_vars
  <2> SUFFICES ASSUME SafeToWrite, Next, stored.rev # 0, stored' # stored
               PROVE  \E s \in Saves : WriteOf(s) /\ (save[s].second \/ KeepsOthers(s))
    BY DEF vars, FirstWriteKeepsOthers
  <2>1. ~Tick /\ \A i \in Isolates : ~Reading(i) /\ ~Evict(i)
    BY DEF Tick, Reading, LoadSelect, LoadReply, LoadFails, Evict
  <2>2. \A b \in Boots : ~Booting(b)
    BY DEF Booting, BootStart, BootSettings, BootAdmin, BootFails
  <2>3. PICK s \in Saves : Saving(s)
    BY <2>1, <2>2 DEF Next
  <2> QED BY <2>3, FirstWriteStep
<1> QED BY <1>1, SafeToWriteAlways, PTL DEF Spec

-----------------------------------------------------------------------------
(* The write that carries the hash stores what the request asked for.  *)
SecondKnows == \A s \in Saves : save[s].second => Asked(save[s], save[s].mine)

KnowsWhatToWrite == SafeToWrite /\ SecondKnows

(* What the first write of a request leaves is what the request asked for, *)
(* once it is hashed if a password waits in it.                            *)
LEMMA FirstWriteAsked ==
    ASSUME NEW q \in SaveState, ~q.second
    PROVE  /\ Mutate(q).newPw # NoPw => Asked(q, Hashed(q))
           /\ Mutate(q).newPw = NoPw => Asked(q, Mutate(q))
<1>1. /\ \A o \in DOMAIN q.body : Mutate(q).opts[o] = q.body[o]
      /\ Mutate(q).newPw = IF q.pw = NoPw THEN q.prev.blob.newPw ELSE q.pw
      /\ q.pw # NoPw => Mutate(q).iters = q.iters
  BY MutateForms
<1>2. ASSUME Mutate(q).newPw # NoPw PROVE Asked(q, Hashed(q))
  BY <1>1, <1>2, HashedForms DEF Asked, Opens
<1>3. ASSUME Mutate(q).newPw = NoPw PROVE Asked(q, Mutate(q))
  BY <1>1, <1>3 DEF Asked
<1> QED BY <1>2, <1>3

LEMMA SecondWritesMine ==
    ASSUME KnowsWhatToWrite, NEW s \in Saves, save[s].second
    PROVE  /\ Mutate(save[s]) = save[s].mine
           /\ Mutate(save[s]).newPw = NoPw
           /\ Asked(save[s], Mutate(save[s]))
<1>1. save[s] \in SaveState
  BY DEF KnowsWhatToWrite, SafeToWrite, TypeOK
<1>2. Mutate(save[s]) = save[s].mine
  BY <1>1, MutateForms
<1>3. Asked(save[s], save[s].mine)
  BY DEF KnowsWhatToWrite, SecondKnows
<1> QED BY <1>2, <1>3 DEF Asked

LEMMA SavingChangesOne ==
    ASSUME TypeOK, NEW s \in Saves, Saving(s)
    PROVE  \A t \in Saves \ {s} : save'[t] = save[t]
<1>1. save \in [Saves -> SaveState]
  BY DEF TypeOK
<1>2. \E q : save' = [save EXCEPT ![s] = q]
  <2>1. CASE SaveSelect(s)
    <3>1. save' = [save EXCEPT ![s] = [save[s] EXCEPT !.phase = "update", !.prev = stored]]
      BY <2>1 DEF SaveSelect
    <3> QED BY <3>1
  <2>2. CASE SaveWrites(s)
    BY <2>2 DEF SaveWrites
  <2>3. CASE SaveConflicts(s)
    BY <2>3 DEF SaveConflicts
  <2>4. CASE SaveFails(s)
    BY <2>4 DEF SaveFails
  <2> QED BY <2>1, <2>2, <2>3, <2>4 DEF Saving, SaveStart
<1> QED BY <1>1, <1>2

LEMMA SavingKnows ==
    ASSUME KnowsWhatToWrite, NEW s \in Saves, Saving(s)
    PROVE  SecondKnows'
<1>1. save \in [Saves -> SaveState] /\ save[s] \in SaveState
  BY DEF KnowsWhatToWrite, SafeToWrite, TypeOK
<1>2. ASSUME NEW q, save' = [save EXCEPT ![s] = q], q.second => Asked(q, q.mine)
      PROVE  SecondKnows'
  BY <1>1, <1>2 DEF KnowsWhatToWrite, SecondKnows
<1>3. \A how : ~Ended(how).second
  BY DEF Ended, IdleSave
<1>4. ASSUME NEW q,
             q.second = save[s].second, q.mine = save[s].mine,
             q.body = save[s].body, q.pw = save[s].pw
      PROVE  q.second => Asked(q, q.mine)
  BY <1>4 DEF KnowsWhatToWrite, SecondKnows, Asked
<1>5. ASSUME NEW i \in Isolates, NEW a \in Asks, NEW n \in Counts, SaveStart(s, i, a, n)
      PROVE  SecondKnows'
  <2>1. ~[IdleSave EXCEPT !.phase = "select", !.iso = i, !.body = a.body, !.pw = a.pw,
                         !.iters = n].second
    BY DEF IdleSave
  <2> QED BY <1>2, <1>5, <2>1 DEF SaveStart
<1>6. CASE SaveSelect(s)
  <2> DEFINE q == [save[s] EXCEPT !.phase = "update", !.prev = stored]
  <2>1. /\ q.second = save[s].second /\ q.mine = save[s].mine
        /\ q.body = save[s].body /\ q.pw = save[s].pw
    BY <1>1 DEF SaveState
  <2>2. save' = [save EXCEPT ![s] = q]
    BY <1>6 DEF SaveSelect
  <2> HIDE DEF q
  <2> QED BY <1>2, <1>4, <2>1, <2>2
<1>7. CASE SaveWrites(s)
  <2> DEFINE q == [save[s] EXCEPT !.phase = "select", !.second = TRUE,
                                  !.mine = Hashed(save[s]), !.tries = 0]
  <2>1. /\ q.mine = Hashed(save[s])
        /\ q.body = save[s].body /\ q.pw = save[s].pw
    BY <1>1 DEF SaveState
  <2>2. save' = [save EXCEPT ![s] = IF Mutate(save[s]).newPw = NoPw
                                    THEN Ended("acked") ELSE q]
    BY <1>7 DEF SaveWrites
  <2> HIDE DEF q
  <2>3. CASE Mutate(save[s]).newPw = NoPw
    <3>1. save' = [save EXCEPT ![s] = Ended("acked")]
      BY <2>2, <2>3
    <3> QED BY <1>2, <1>3, <3>1
  <2>4. CASE Mutate(save[s]).newPw # NoPw
    <3>1. save' = [save EXCEPT ![s] = q]
      BY <2>2, <2>4
    <3>2. ~save[s].second
      BY <2>4, SecondWritesMine
    <3>3. Asked(save[s], q.mine)
      BY <1>1, <2>1, <2>4, <3>2, FirstWriteAsked
    <3>4. Asked(q, q.mine)
      BY <2>1, <3>3 DEF Asked
    <3> QED BY <1>2, <3>1, <3>4
  <2> QED BY <2>3, <2>4
<1>8. CASE SaveConflicts(s)
  <2> DEFINE q == [save[s] EXCEPT !.phase = "select", !.tries = @ + 1]
  <2>1. /\ q.second = save[s].second /\ q.mine = save[s].mine
        /\ q.body = save[s].body /\ q.pw = save[s].pw
    BY <1>1 DEF SaveState
  <2>2. save' = [save EXCEPT ![s] = Ended("failed")] \/ save' = [save EXCEPT ![s] = q]
    BY <1>8 DEF SaveConflicts
  <2> HIDE DEF q
  <2> QED BY <1>2, <1>3, <1>4, <2>1, <2>2
<1>9. CASE SaveFails(s)
  <2>1. save' = [save EXCEPT ![s] = Ended("failed")]
    BY <1>9 DEF SaveFails
  <2> QED BY <1>2, <1>3, <2>1
<1> QED BY <1>5, <1>6, <1>7, <1>8, <1>9 DEF Saving

LEMMA KnowsWhatToWriteAlways == Spec => []KnowsWhatToWrite
<1>1. Init => SecondKnows
  BY DEF Init, SecondKnows, IdleSave
<1>2. KnowsWhatToWrite /\ [Next]_vars => SecondKnows'
  <2> SUFFICES ASSUME KnowsWhatToWrite, [Next]_vars PROVE SecondKnows'
    OBVIOUS
  <2>1. ASSUME save' = save PROVE SecondKnows'
    BY <2>1 DEF KnowsWhatToWrite, SecondKnows
  <2>2. CASE UNCHANGED vars \/ Tick
    BY <2>1, <2>2 DEF vars, Tick
  <2>3. ASSUME NEW i \in Isolates, Reading(i) PROVE SecondKnows'
    BY <2>1, <2>3 DEF Reading, LoadSelect, LoadReply, LoadFails
  <2>4. ASSUME NEW b \in Boots, Booting(b) PROVE SecondKnows'
    BY <2>1, <2>4 DEF Booting, BootStart, BootSettings, BootAdmin, BootFails
  <2>5. ASSUME NEW i \in Isolates, Evict(i) PROVE SecondKnows'
    <3>1. ~Ended("failed").second
      BY DEF Ended, IdleSave
    <3>2. \A s \in Saves : save'[s] = save[s] \/ save'[s] = Ended("failed")
      BY <2>5 DEF Evict
    <3> QED BY <3>1, <3>2 DEF KnowsWhatToWrite, SecondKnows
  <2> QED BY <2>2, <2>3, <2>4, <2>5, SavingKnows DEF Next
<1> QED BY <1>1, <1>2, SafeToWriteAlways, PTL DEF Spec, KnowsWhatToWrite

(* Only a write acknowledges.  *)
LEMMA AckStep ==
    ASSUME KnowsWhatToWrite, Next, NEW s \in Saves,
           save[s].phase = "update", save'[s].phase = "acked"
    PROVE  Asked(save[s], stored'.blob)
<1>1. save \in [Saves -> SaveState] /\ save[s] \in SaveState
  BY DEF KnowsWhatToWrite, SafeToWrite, TypeOK
<1>2. save' # save
  OBVIOUS
<1>3. \A how : Ended(how).phase = how
  BY DEF Ended, IdleSave
<1>4. PICK t \in Saves : Saving(t)
  <2>1. ~Tick /\ \A i \in Isolates : ~Reading(i)
    BY <1>2 DEF Tick, Reading, LoadSelect, LoadReply, LoadFails
  <2>2. \A b \in Boots : ~Booting(b)
    BY <1>2 DEF Booting, BootStart, BootSettings, BootAdmin, BootFails
  <2>3. \A i \in Isolates : ~Evict(i)
    BY <1>3 DEF Evict
  <2> QED BY <2>1, <2>2, <2>3 DEF Next
<1>5. t = s
  BY <1>4, SavingChangesOne DEF KnowsWhatToWrite, SafeToWrite
<1>6. SaveWrites(s) /\ Mutate(save[s]).newPw = NoPw
  <2>1. ~SaveSelect(s) /\ ~(\E i \in Isolates, a \in Asks, n \in Counts :
                              SaveStart(s, i, a, n))
    BY DEF SaveSelect, SaveStart
  <2>2. ~SaveFails(s)
    BY <1>1, <1>3 DEF SaveFails
  <2>3. [save[s] EXCEPT !.phase = "select", !.tries = @ + 1].phase = "select"
    BY <1>1 DEF SaveState
  <2>4. ~SaveConflicts(s)
    BY <1>1, <1>3, <2>3 DEF SaveConflicts
  <2>5. SaveWrites(s)
    BY <1>4, <1>5, <2>1, <2>2, <2>4 DEF Saving
  <2>6. [save[s] EXCEPT !.phase = "select", !.second = TRUE,
             !.mine = Hashed(save[s]), !.tries = 0].phase = "select"
    BY <1>1 DEF SaveState
  <2>7. save'[s].phase = IF Mutate(save[s]).newPw = NoPw THEN "acked" ELSE "select"
    BY <1>1, <1>3, <2>5, <2>6 DEF SaveWrites
  <2> QED BY <2>5, <2>7
<1>7. stored'.blob = Mutate(save[s])
  BY <1>6 DEF SaveWrites, Written
<1>8. CASE save[s].second
  BY <1>7, <1>8, SecondWritesMine
<1>9. CASE ~save[s].second
  BY <1>1, <1>6, <1>7, <1>9, FirstWriteAsked
<1> QED BY <1>1, <1>8, <1>9 DEF SaveState

(***************************************************************************)
(* "ok" means stored (store.ts:127-158, api.ts:95-167), however many       *)
(* requests conflict with this one, and for a password change after either *)
(* of its two writes was retried.                                          *)
(***************************************************************************)
THEOREM AcknowledgedIsStored == Spec => [][AckedMeansStored]_vars
<1>1. KnowsWhatToWrite /\ [Next]_vars => [AckedMeansStored]_vars
  BY AckStep DEF vars, AckedMeansStored
<1> QED BY <1>1, KnowsWhatToWriteAlways, PTL DEF Spec

LEMMA LockStep ==
    ASSUME KnowsWhatToWrite, Next, LockedOut(stored'.blob), ~LockedOut(stored.blob)
    PROVE  \E s \in Saves : WriteOf(s) /\ save[s].second /\ save[s].pw = NoPw
<1>1. stored' # stored
  OBVIOUS
<1>2. ~Tick /\ \A i \in Isolates : ~Reading(i) /\ ~Evict(i)
  BY <1>1 DEF Tick, Reading, LoadSelect, LoadReply, LoadFails, Evict
<1>3. ASSUME NEW b \in Boots PROVE ~Booting(b)
  <2>1. Opens(FreshBlob)
    BY DEF Opens, FreshBlob, DefaultBlob
  <2>2. stored'.blob # FreshBlob
    BY <2>1 DEF LockedOut
  <2> QED BY <1>1, <2>2 DEF Booting, BootStart, BootSettings, BootAdmin, BootFails
<1>4. PICK s \in Saves : Saving(s)
  BY <1>2, <1>3 DEF Next
<1>5. WriteOf(s)
  BY <1>1, <1>4, FirstWriteStep DEF KnowsWhatToWrite
<1>6. save[s] \in SaveState
  BY DEF KnowsWhatToWrite, SafeToWrite, TypeOK
<1>7. Matches(save[s]) /\ Written(save[s])
  BY <1>1, <1>4 DEF Saving, SaveStart, SaveSelect, SaveConflicts, SaveWrites, SaveFails
<1>8. save[s].prev = stored /\ stored'.blob = Mutate(save[s])
  BY <1>7 DEF Matches, Written, KnowsWhatToWrite, SafeToWrite, PrevTells
<1>9. save[s].second
  <2> SUFFICES ASSUME ~save[s].second PROVE FALSE
    BY <1>6 DEF SaveState
  <2>1. /\ Mutate(save[s]).salted = (stored.blob.salted /\ save[s].pw = NoPw)
        /\ Mutate(save[s]).rounds = stored.blob.rounds
        /\ Mutate(save[s]).iters = IF save[s].pw = NoPw THEN stored.blob.iters
                                                       ELSE save[s].iters
        /\ Mutate(save[s]).newPw = IF save[s].pw = NoPw THEN stored.blob.newPw
                                                       ELSE save[s].pw
    BY <1>6, <1>8, MutateForms
  <2>2. CASE save[s].pw = NoPw
    <3>1. LockedOut(Mutate(save[s])) = LockedOut(stored.blob)
      BY <2>1, <2>2 DEF LockedOut, Opens
    <3> QED BY <1>8, <3>1
  <2>3. CASE save[s].pw # NoPw
    <3>1. ~LockedOut(Mutate(save[s]))
      BY <2>1, <2>3 DEF LockedOut
    <3> QED BY <1>8, <3>1
  <2> QED BY <2>2, <2>3
<1>10. Asked(save[s], stored'.blob)
  BY <1>8, <1>9, SecondWritesMine
<1> QED BY <1>5, <1>9, <1>10 DEF Asked, LockedOut

(***************************************************************************)
(* The password an admin sets locks nobody out (api.ts:155-164), for any   *)
(* number of isolates and requests and whatever fails: a write after which *)
(* nobody can log in hashes a password that its request did not bring.     *)
(***************************************************************************)
THEOREM OnlyFoundPasswordsLock == Spec => [][LocksOnlyWhatItFound]_vars
<1>1. KnowsWhatToWrite /\ [Next]_vars => [LocksOnlyWhatItFound]_vars
  BY LockStep DEF vars, LocksOnlyWhatItFound
<1> QED BY <1>1, KnowsWhatToWriteAlways, PTL DEF Spec

(***************************************************************************)
(* A save changes what it was asked to change, and leaves the rest alone   *)
(* (store.ts:127-158, api.ts:95-167).                                      *)
(***************************************************************************)
THEOREM SavesAreAsAsked == Spec => SavesAsAsked
BY RevCheckKeepsOthers, AcknowledgedIsStored, OnlyFoundPasswordsLock, PTL DEF SavesAsAsked

-----------------------------------------------------------------------------
(* The requests as the register sees them.  *)
Calls == [s \in Saves |-> CallOf(save[s])]

LEMMA RegisterForms ==
    /\ View(FreshBlob) = Register!Default /\ View(EnvlessBlob) = Register!Default
    /\ CallOf(IdleSave) = Register!NewCall
    /\ \A how \in {"acked", "failed"} : CallOf(Ended(how)) = Register!Closed(how)
<1>1. View(FreshBlob) = Register!Default /\ View(EnvlessBlob) = Register!Default
  BY DEF View, Opens, FreshBlob, EnvlessBlob, DefaultBlob, Register!Default
<1>2. CallOf(IdleSave) = Register!NewCall
  BY <1>1 DEF CallOf, Progress, IdleSave, NoChange, Register!NewCall
<1>3. ASSUME NEW how \in {"acked", "failed"}
      PROVE  CallOf(Ended(how)) = Register!Closed(how)
  BY <1>1, <1>3 DEF CallOf, Progress, Ended, IdleSave, NoChange, Register!NewCall,
                    Register!Closed
<1> QED BY <1>1, <1>2, <1>3

(* A step of one request, seen by the register.  *)
LEMMA OneCall ==
    ASSUME TypeOK, NEW s \in Saves, NEW q, save' = [save EXCEPT ![s] = q]
    PROVE  Calls' = [Calls EXCEPT ![s] = CallOf(q)]
  BY DEF TypeOK, Calls

(* What a write makes of the row, seen by the register.  *)
LEMMA WriteSeen ==
    ASSUME KnowsWhatToWrite, NEW s \in Saves,
           save[s].phase = "update", Matches(save[s]), Written(save[s])
    PROVE  /\ View(stored'.blob) = View(Mutate(save[s]))
           /\ ~save[s].second =>
                /\ Calls[s].phase = "asked"
                /\ View(Mutate(save[s])) = Register!Applied(Calls[s])
           /\ save[s].second =>
                /\ Calls[s].phase = "half"
                /\ View(Mutate(save[s])) = Calls[s].fin
<1>1. save[s] \in SaveState /\ stored.rev \in Nat
  BY DEF KnowsWhatToWrite, SafeToWrite, TypeOK, Rows
<1>2. stored'.blob = Mutate(save[s])
  BY DEF Written
<1>3. save[s].prev = stored
  BY DEF KnowsWhatToWrite, SafeToWrite, PrevTells, Matches
<1>4. Calls[s] = CallOf(save[s])
  BY DEF Calls
<1>5. /\ CallOf(save[s]).phase = IF save[s].second THEN "half" ELSE "asked"
      /\ CallOf(save[s]).body = save[s].body /\ CallOf(save[s]).pw = save[s].pw
      /\ CallOf(save[s]).fin = View(save[s].mine)
  BY DEF CallOf, Progress
<1>6. ASSUME ~save[s].second
      PROVE  View(Mutate(save[s])) = Register!Applied(Calls[s])
  <2> DEFINE q == save[s]
             new == [o \in Opts |-> IF o \in DOMAIN q.body THEN q.body[o]
                                                         ELSE stored.blob.opts[o]]
  <2>1. /\ Mutate(q).opts = new /\ Mutate(q).password = stored.blob.password
        /\ Mutate(q).salted = (stored.blob.salted /\ q.pw = NoPw)
        /\ Mutate(q).rounds = stored.blob.rounds
        /\ Mutate(q).iters = IF q.pw = NoPw THEN stored.blob.iters ELSE q.iters
        /\ Mutate(q).newPw = IF q.pw = NoPw THEN stored.blob.newPw ELSE q.pw
    BY <1>1, <1>3, <1>6, MutateForms
  <2>2. View(stored.blob).opts = stored.blob.opts
        /\ View(stored.blob).next = stored.blob.newPw
        /\ View(stored.blob).open = IF Opens(stored.blob) THEN stored.blob.password ELSE NoPw
    BY DEF View
  <2>3. Register!Applied(Calls[s]) =
          [opts |-> new,
           open |-> IF q.pw = NoPw THEN View(stored.blob).open ELSE NoPw,
           next |-> IF q.pw = NoPw THEN stored.blob.newPw ELSE q.pw]
    BY <1>4, <1>5, <2>2 DEF Register!Applied
  <2>4. View(Mutate(q)) =
          [opts |-> Mutate(q).opts,
           open |-> IF Opens(Mutate(q)) THEN Mutate(q).password ELSE NoPw,
           next |-> Mutate(q).newPw]
    BY DEF View
  <2>5. Opens(Mutate(q)) = (Opens(stored.blob) /\ q.pw = NoPw)
    BY <2>1 DEF Opens
  <2> HIDE DEF q, new
  <2> QED BY <2>1, <2>2, <2>3, <2>4, <2>5 DEF q
<1>7. ASSUME save[s].second PROVE View(Mutate(save[s])) = Calls[s].fin
  BY <1>4, <1>5, <1>7, SecondWritesMine
<1> QED BY <1>2, <1>4, <1>5, <1>6, <1>7

LEMMA WritesImplements ==
    ASSUME KnowsWhatToWrite, NEW s \in Saves, SaveWrites(s)
    PROVE  Register!Apply(s) \/ Register!Finish(s)
<1> DEFINE q == [save[s] EXCEPT !.phase = "select", !.second = TRUE,
                                !.mine = Hashed(save[s]), !.tries = 0]
<1>1. save[s] \in SaveState /\ TypeOK
  BY DEF KnowsWhatToWrite, SafeToWrite, TypeOK
<1>2. save[s].phase = "update" /\ Matches(save[s]) /\ Written(save[s])
  BY DEF SaveWrites
<1>3. View(Mutate(save[s])).next = Mutate(save[s]).newPw
  BY DEF View
<1>4. CASE save[s].second
  <2>1. save' = [save EXCEPT ![s] = Ended("acked")]
    BY <1>4, SecondWritesMine DEF SaveWrites
  <2>2. Calls' = [Calls EXCEPT ![s] = Register!Closed("acked")]
    BY <1>1, <2>1, OneCall, RegisterForms
  <2>3. Calls[s].phase = "half" /\ View(stored'.blob) = Calls[s].fin
    BY <1>2, <1>4, WriteSeen
  <2> QED BY <2>2, <2>3 DEF Register!Finish, Calls
<1>5. CASE ~save[s].second
  <2>1. Calls[s].phase = "asked" /\ View(stored'.blob) = Register!Applied(Calls[s])
        /\ View(stored'.blob).next = Mutate(save[s]).newPw
    BY <1>2, <1>3, <1>5, WriteSeen
  <2>2. CASE Mutate(save[s]).newPw = NoPw
    <3>1. save' = [save EXCEPT ![s] = Ended("acked")]
      BY <2>2 DEF SaveWrites
    <3>2. Calls' = [Calls EXCEPT ![s] = Register!Closed("acked")]
      BY <1>1, <3>1, OneCall, RegisterForms
    <3> QED BY <2>1, <2>2, <3>2 DEF Register!Apply, Calls
  <2>3. CASE Mutate(save[s]).newPw # NoPw
    <3>1. save' = [save EXCEPT ![s] = q]
      BY <2>3 DEF SaveWrites
    <3>2. /\ q.phase = "select" /\ q.second /\ q.mine = Hashed(save[s])
          /\ q.body = save[s].body /\ q.pw = save[s].pw
      BY <1>1 DEF SaveState
    <3> HIDE DEF q
    <3>3. Calls' = [Calls EXCEPT ![s] = CallOf(q)]
      BY <1>1, <3>1, OneCall
    <3> DEFINE open == View(q.mine).open
    <3>4. /\ View(q.mine) = Register!Hashed(View(stored'.blob), open)
          /\ open \in {View(stored'.blob).next}
                       \cup (IF Calls[s].pw = NoPw THEN {NoPw} ELSE {})
      <4>1. View(stored'.blob) = View(Mutate(save[s]))
        BY <1>2, WriteSeen
      <4>2. /\ Hashed(save[s]).opts = Mutate(save[s]).opts /\ Hashed(save[s]).salted
            /\ Hashed(save[s]).newPw = NoPw
            /\ Hashed(save[s]).password = Mutate(save[s]).newPw
            /\ Hashed(save[s]).rounds = save[s].iters
            /\ Hashed(save[s]).iters = Mutate(save[s]).iters
        BY <1>1, <2>3, HashedForms
      <4>3. View(Mutate(save[s])).opts = Mutate(save[s]).opts
        BY DEF View
      <4>4. save[s].pw # NoPw => Mutate(save[s]).iters = save[s].iters
        BY <1>1, <1>5, MutateForms
      <4>5. Calls[s].pw = save[s].pw
        BY DEF Calls, CallOf
      <4>6. open = IF Opens(q.mine) THEN Mutate(save[s]).newPw ELSE NoPw
        BY <3>2, <4>2 DEF View
      <4>7. save[s].pw # NoPw => Opens(q.mine)
        BY <3>2, <4>2, <4>4 DEF Opens
      <4>8. View(q.mine) = [opts |-> Mutate(save[s]).opts, open |-> open, next |-> NoPw]
        BY <3>2, <4>2 DEF View
      <4>9. View(q.mine) = Register!Hashed(View(stored'.blob), open)
        BY <4>1, <4>3, <4>8 DEF Register!Hashed
      <4> QED BY <1>3, <4>1, <4>5, <4>6, <4>7, <4>9
    <3> HIDE DEF open
    <3>5. CallOf(q) = [Calls[s] EXCEPT !.phase = "half",
                                       !.fin = Register!Hashed(View(stored'.blob), open)]
      <4>1. CallOf(q) = [phase |-> "half", body |-> save[s].body, pw |-> save[s].pw,
                         fin |-> Register!Hashed(View(stored'.blob), open)]
        BY <3>2, <3>4 DEF CallOf, Progress
      <4>2. Calls[s] = [phase |-> Progress(save[s]), body |-> save[s].body,
                        pw |-> save[s].pw, fin |-> View(save[s].mine)]
        BY DEF Calls, CallOf
      <4>3. ASSUME NEW d, d = [Calls[s] EXCEPT !.phase = "half",
                                               !.fin = Register!Hashed(View(stored'.blob), open)]
            PROVE  d = CallOf(q)
        <5>1. /\ d.phase = "half" /\ d.body = save[s].body /\ d.pw = save[s].pw
              /\ d.fin = Register!Hashed(View(stored'.blob), open)
          BY <4>2, <4>3
        <5>2. d = [phase |-> d.phase, body |-> d.body, pw |-> d.pw, fin |-> d.fin]
          BY <4>2, <4>3
        <5> QED BY <4>1, <5>1, <5>2
      <4> QED BY <4>3
    <3>6. Register!Apply(s)
      BY <2>1, <2>3, <3>3, <3>4, <3>5 DEF Register!Apply, Calls
    <3> QED BY <3>6
  <2> QED BY <2>2, <2>3
<1> QED BY <1>1, <1>4, <1>5 DEF SaveState

RegisterVars == <<View(stored.blob), Calls>>

LEMMA SavingImplements ==
    ASSUME KnowsWhatToWrite, NEW s \in Saves, Saving(s)
    PROVE  Register!Next \/ UNCHANGED RegisterVars
<1>1. save[s] \in SaveState /\ TypeOK /\ save \in [Saves -> SaveState]
  BY DEF KnowsWhatToWrite, SafeToWrite, TypeOK
<1>2. Calls[s] = CallOf(save[s]) /\ Calls = [Calls EXCEPT ![s] = CallOf(save[s])]
  BY DEF Calls
<1>3. ASSUME save[s].phase \in {"select", "update"},
             save' = [save EXCEPT ![s] = Ended("failed")],
             \/ stored' = stored
             \/ save[s].phase = "update" /\ Matches(save[s]) /\ Written(save[s])
      PROVE  Register!Next
  <2>1. Calls' = [Calls EXCEPT ![s] = Register!Closed("failed")]
    BY <1>1, <1>3, OneCall, RegisterForms
  <2>2. Calls' = [t \in Saves |-> IF t \in {s} THEN Register!Closed("failed") ELSE Calls[t]]
    BY <2>1 DEF Calls
  <2>3. Calls[s].phase \in {"asked", "half"}
    BY <1>2, <1>3 DEF CallOf, Progress
  <2>4. \/ View(stored'.blob) = View(stored.blob)
        \/ View(stored'.blob) = IF Calls[s].phase = "half" THEN Calls[s].fin
                                                    ELSE Register!Applied(Calls[s])
    <3>1. CASE stored' = stored
      BY <3>1
    <3>2. CASE save[s].phase = "update" /\ Matches(save[s]) /\ Written(save[s])
      BY <1>1, <3>2, WriteSeen DEF SaveState
    <3> QED BY <1>3, <3>1, <3>2
  <2>5. Register!Fail({s})
    BY <2>2, <2>3, <2>4 DEF Register!Fail, Calls
  <2> QED BY <2>5 DEF Register!Next
<1>4. ASSUME NEW i \in Isolates, NEW a \in Asks, NEW n \in Counts, SaveStart(s, i, a, n)
      PROVE  Register!Next
  <2> DEFINE q == [IdleSave EXCEPT !.phase = "select", !.iso = i, !.body = a.body, !.pw = a.pw,
                         !.iters = n]
  <2>1. /\ q.phase = "select" /\ ~q.second /\ q.body = a.body /\ q.pw = a.pw
        /\ q.mine = IdleSave.mine
    BY DEF IdleSave
  <2>2. save' = [save EXCEPT ![s] = q] /\ stored' = stored /\ save[s].phase = "idle"
    BY <1>4 DEF SaveStart
  <2> HIDE DEF q
  <2>3. CallOf(q) = [CallOf(IdleSave) EXCEPT !.phase = "asked", !.body = a.body, !.pw = a.pw]
    <3>1. CallOf(q) = [phase |-> "asked", body |-> a.body, pw |-> a.pw,
                       fin |-> View(IdleSave.mine)]
      BY <2>1 DEF CallOf, Progress
    <3>2. CallOf(IdleSave) = [phase |-> Progress(IdleSave), body |-> IdleSave.body,
                              pw |-> IdleSave.pw, fin |-> View(IdleSave.mine)]
      BY DEF CallOf
    <3>3. ASSUME NEW d,
                 d = [CallOf(IdleSave) EXCEPT !.phase = "asked", !.body = a.body, !.pw = a.pw]
          PROVE  d = CallOf(q)
      <4>1. /\ d.phase = "asked" /\ d.body = a.body /\ d.pw = a.pw
            /\ d.fin = View(IdleSave.mine)
        BY <3>2, <3>3
      <4>2. d = [phase |-> d.phase, body |-> d.body, pw |-> d.pw, fin |-> d.fin]
        BY <3>2, <3>3
      <4> QED BY <3>1, <4>1, <4>2
    <3> QED BY <3>3
  <2>4. Calls' = [Calls EXCEPT ![s] =
                    [Register!NewCall EXCEPT !.phase = "asked", !.body = a.body, !.pw = a.pw]]
    BY <1>1, <2>2, <2>3, OneCall, RegisterForms
  <2>5. Calls[s].phase = "idle"
    BY <1>2, <2>2 DEF CallOf, Progress
  <2>6. Register!Ask(s, a)
    BY <2>2, <2>4, <2>5 DEF Register!Ask, Calls
  <2> QED BY <2>6 DEF Register!Next
<1>5. ASSUME NEW q, save' = [save EXCEPT ![s] = q], stored' = stored,
             save[s].phase \in {"select", "update"}, q.phase \in {"select", "update"},
             q.second = save[s].second, q.mine = save[s].mine,
             q.body = save[s].body, q.pw = save[s].pw
      PROVE  UNCHANGED RegisterVars
  <2>1. CallOf(q) = CallOf(save[s])
    BY <1>5 DEF CallOf, Progress
  <2>2. Calls' = [Calls EXCEPT ![s] = CallOf(q)]
    BY <1>1, <1>5, OneCall
  <2>3. Calls' = Calls
    BY <1>2, <2>1, <2>2
  <2> QED BY <1>5, <2>3 DEF RegisterVars
<1>6. CASE SaveSelect(s)
  <2> DEFINE q == [save[s] EXCEPT !.phase = "update", !.prev = stored]
  <2>1. /\ q.phase = "update" /\ q.second = save[s].second /\ q.mine = save[s].mine
        /\ q.body = save[s].body /\ q.pw = save[s].pw
    BY <1>1 DEF SaveState
  <2>2. save' = [save EXCEPT ![s] = q] /\ stored' = stored /\ save[s].phase = "select"
    BY <1>6 DEF SaveSelect
  <2> HIDE DEF q
  <2> QED BY <1>5, <2>1, <2>2
<1>7. CASE SaveWrites(s)
  BY <1>7, WritesImplements DEF Register!Next
<1>8. CASE SaveConflicts(s)
  <2> DEFINE q == [save[s] EXCEPT !.phase = "select", !.tries = @ + 1]
  <2>1. /\ q.phase = "select" /\ q.second = save[s].second /\ q.mine = save[s].mine
        /\ q.body = save[s].body /\ q.pw = save[s].pw
    BY <1>1 DEF SaveState
  <2>2. save' = [save EXCEPT ![s] = Ended("failed")] \/ save' = [save EXCEPT ![s] = q]
    BY <1>8 DEF SaveConflicts
  <2>3. stored' = stored /\ save[s].phase = "update"
    BY <1>8 DEF SaveConflicts
  <2> HIDE DEF q
  <2> QED BY <1>3, <1>5, <2>1, <2>2, <2>3
<1>9. CASE SaveFails(s)
  BY <1>3, <1>9 DEF SaveFails
<1> QED BY <1>4, <1>6, <1>7, <1>8, <1>9 DEF Saving

(* A boot writes the blob that was served while there was no row.  *)
LEMMA BootingStutters ==
    ASSUME KnowsWhatToWrite, NEW b \in Boots, Booting(b)
    PROVE  UNCHANGED RegisterVars
<1>1. save' = save
  BY DEF Booting, BootStart, BootSettings, BootAdmin, BootFails
<1>2. \/ stored' = stored
      \/ stored.rev = 0 /\ stored' = [rev |-> 1, blob |-> FreshBlob]
  <2>1. CASE BootSettings(b)
    BY <2>1 DEF BootSettings
  <2>2. CASE BootFails(b)
    BY <2>2 DEF BootFails
  <2> QED BY <2>1, <2>2 DEF Booting, BootStart, BootAdmin
<1>3. stored.rev = 0 => stored.blob = EnvlessBlob
  BY DEF KnowsWhatToWrite, SafeToWrite, PrevTells, NoRow
<1>4. View(stored'.blob) = View(stored.blob)
  BY <1>2, <1>3, RegisterForms
<1> QED BY <1>1, <1>4 DEF RegisterVars, Calls

LEMMA EvictImplements ==
    ASSUME KnowsWhatToWrite, NEW i \in Isolates, Evict(i)
    PROVE  Register!Next
<1> DEFINE S == {s \in Saves : save[s].iso = i /\ save[s].phase \in {"select", "update"}}
<1>1. stored' = stored
  BY DEF Evict
<1>2. \A s \in Saves : save'[s] = IF s \in S THEN Ended("failed") ELSE save[s]
  BY DEF Evict
<1>3. \A s \in S : Calls[s].phase \in {"asked", "half"}
  BY DEF Calls, CallOf, Progress
<1>4. S \in SUBSET Saves
  OBVIOUS
<1> HIDE DEF S
<1>5. Calls' = [s \in Saves |-> IF s \in S THEN Register!Closed("failed") ELSE Calls[s]]
  BY <1>2, RegisterForms DEF Calls
<1>6. Register!Fail(S)
  BY <1>1, <1>3, <1>5 DEF Register!Fail, Calls
<1> QED BY <1>4, <1>6 DEF Register!Next

(***************************************************************************)
(* Saving the settings is a register (store.ts:127-158, api.ts:95-167,     *)
(* settings.ts:87-116), for any number of isolates, requests, settings and *)
(* attempts: with its SELECTs, retries, caches and boots taken away, a     *)
(* request acts at one point, or at two if it hashes a password, which     *)
(* opens the settings if it is its own, and a failed one never acts later. *)
(***************************************************************************)
THEOREM SavingImplementsRegister == Spec => ImplementsRegister
<1>1. Init => Register!Init
  BY RegisterForms DEF Init, NoRow, Register!Init
<1>2. KnowsWhatToWrite /\ [Next]_vars => [Register!Next]_RegisterVars
  <2> SUFFICES ASSUME KnowsWhatToWrite, [Next]_vars
               PROVE  Register!Next \/ UNCHANGED RegisterVars
    OBVIOUS
  <2>1. ASSUME stored' = stored, save' = save PROVE UNCHANGED RegisterVars
    BY <2>1 DEF RegisterVars, Calls
  <2>2. CASE UNCHANGED vars \/ Tick
    BY <2>1, <2>2 DEF vars, Tick
  <2>3. ASSUME NEW i \in Isolates, Reading(i) PROVE UNCHANGED RegisterVars
    BY <2>1, <2>3 DEF Reading, LoadSelect, LoadReply, LoadFails
  <2> QED BY <2>2, <2>3, SavingImplements, BootingStutters, EvictImplements DEF Next
<1>3. KnowsWhatToWrite /\ [Next]_vars
        => [Register!Next]_<<View(stored.blob), [s \in Saves |-> CallOf(save[s])]>>
  BY <1>2 DEF RegisterVars, Calls
<1> QED BY <1>1, <1>3, KnowsWhatToWriteAlways, PTL DEF Spec, ImplementsRegister, Register!Spec
-----------------------------------------------------------------------------
(***************************************************************************)
(* A first boot is not made up for (settings.ts:86-87 against 106-117):    *)
(* with a settings row and no boot under way, the admins of the users      *)
(* table are what they will always be, for any number of hosts, isolates   *)
(* and requests.                                                           *)
(***************************************************************************)
THEOREM BootNotMadeUpFor == Spec => FirstBootIsFinal
<1>1. SafeToWrite /\ [Next]_vars => [BootOver => BootOver' /\ admins' = admins]_vars
  <2> SUFFICES ASSUME SafeToWrite, Next, BootOver
               PROVE  BootOver' /\ admins' = admins
    BY DEF vars
  <2>1. stored.rev \in Nat /\ stored.rev # 0
    BY DEF SafeToWrite, TypeOK, Rows, BootOver
  <2>2. ASSUME stored' = stored, boot' = boot, admins' = admins
        PROVE  BootOver' /\ admins' = admins
    BY <2>2 DEF BootOver
  <2>3. CASE Tick
    BY <2>2, <2>3 DEF Tick
  <2>4. ASSUME NEW i \in Isolates, Reading(i) PROVE BootOver' /\ admins' = admins
    BY <2>2, <2>4 DEF Reading, LoadSelect, LoadReply, LoadFails
  <2>5. ASSUME NEW i \in Isolates, Evict(i) PROVE BootOver' /\ admins' = admins
    <3>1. \A b \in Boots : boot'[b].phase = "idle"
      BY <2>5 DEF Evict, BootOver, IdleBoot
    <3> QED BY <2>5, <3>1 DEF Evict, BootOver
  <2>6. ASSUME NEW b \in Boots PROVE ~Booting(b)
    BY DEF BootOver, Booting, BootStart, BootSettings, BootAdmin, BootFails
  <2>7. ASSUME NEW s \in Saves, Saving(s) PROVE BootOver' /\ admins' = admins
    <3>1. boot' = boot /\ admins' = admins
      BY <2>7 DEF Saving, SaveStart, SaveSelect, SaveWrites, SaveConflicts, SaveFails
    <3>2. stored' = stored \/ Written(save[s])
      BY <2>7 DEF Saving, SaveStart, SaveSelect, SaveWrites, SaveConflicts, SaveFails
    <3>3. stored'.rev # 0
      BY <2>1, <3>2 DEF Written
    <3> QED BY <3>1, <3>3 DEF BootOver
  <2> QED BY <2>3, <2>4, <2>5, <2>6, <2>7 DEF Next
<1> QED BY <1>1, SafeToWriteAlways, PTL DEF Spec, FirstBootIsFinal
=============================================================================
