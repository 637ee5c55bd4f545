--------------------------- MODULE AccountingProofs ---------------------------
(***************************************************************************)
(* Theorems about Accounting, for every set of users, isolates and         *)
(* connections, every bound and every reset cycle.                         *)
(***************************************************************************)
EXTENDS Accounting, FiniteSetTheorems, TLAPS

(* The forms a row takes: each operator that makes a row makes one.  *)
LEMMA RowForms ==
    /\ Unborn \in Row
    /\ [Unborn EXCEPT !.status = "deleted"] \in Row
    /\ \A n \in Nat \X Nat \X Nat, t \in Nat : NewRow(n[1], n[2], n[3], t) \in Row
    /\ \A r \in Row, S \in SUBSET Conns : [r EXCEPT !.used = S] \in Row
BY DEF Unborn, Row, NewRow

LEMMA MaintainedRow ==
    ASSUME NEW r \in Row, NEW m, m.at \in Nat, m.stamp \in BOOLEAN,
           m.anchor \in BOOLEAN, m.reset \in BOOLEAN
    PROVE  Maintained(r, m) \in Row
BY DEF Maintained, Row

LEMMA PatchedRow ==
    ASSUME NEW r \in Row, NEW p \in Patch
    PROVE  Patched(r, p) \in Row
BY DEF Patched, Patch, Row

LEMMA MaintenanceType ==
    ASSUME NEW r \in Row, NEW t \in Nat, NEW cycle \in Cycles
    PROVE  Maintenance(r, t, cycle) \in [at : Nat, stamp : BOOLEAN,
                                  anchor : BOOLEAN, reset : BOOLEAN]
BY DEF Maintenance, ResetDue

(* A list an isolate reads is one it kept or the table as it is now.  *)
LEMMA ListType ==
    ASSUME TypeOK, NEW i \in Isolates
    PROVE  ListUsers(i) \in List
BY DEF TypeOK, ListUsers, List

(* The forms of a connection record.  *)
LEMMA ConnForms ==
    /\ IdleConn \in ConnState
    /\ \A k \in ConnState : \A ph \in {"allowed", "open", "closed"} :
         [k EXCEPT !.phase = ph] \in ConnState
    /\ \A k \in ConnState :
         [k EXCEPT !.phase = "dialing", !.start = 0, !.seen = Unborn] \in ConnState
    /\ \A k \in ConnState :
         [k EXCEPT !.phase = "closed", !.iso = NoIso] \in ConnState
<1>1. IdleConn \in ConnState
  BY RowForms DEF IdleConn, ConnState
<1>2. ASSUME NEW k \in ConnState, NEW ph \in {"allowed", "open", "closed"}
      PROVE  [k EXCEPT !.phase = ph] \in ConnState
  BY DEF ConnState
<1>3. ASSUME NEW k \in ConnState
      PROVE  [k EXCEPT !.phase = "dialing", !.start = 0, !.seen = Unborn] \in ConnState
  BY RowForms DEF ConnState
<1>4. ASSUME NEW k \in ConnState
      PROVE  [k EXCEPT !.phase = "closed", !.iso = NoIso] \in ConnState
  BY DEF ConnState
<1> QED BY <1>1, <1>2, <1>3, <1>4

(* A connection that is not idle has a user, one that still runs has an    *)
(* isolate, and a flush carries the lump whose close started it: without   *)
(* this a close could not be shown to gather and send what it should.      *)
Attached ==
    \A c \in Conns :
        /\ conn[c].phase # "idle" => conn[c].user \in Users
        /\ conn[c].phase \in {"resolved", "allowed", "dialing", "open"} =>
              conn[c].iso \in Isolates
        /\ batch[c] # {} => c \in batch[c]

LEMMA AttachedStep == TypeOK /\ Attached /\ [Next]_vars => Attached'
<1> SUFFICES ASSUME TypeOK, Attached, [Next]_vars PROVE Attached'
  OBVIOUS
<1> USE DEF Attached
<1>1. (\A c \in Conns : conn'[c] = conn[c]) /\ batch' = batch => Attached'
  OBVIOUS
<1>2. ASSUME NEW c \in Conns, Connection(c) PROVE Attached'
  <2> USE DEF TypeOK, ConnState
  <2>1. ASSUME NEW u \in Users, NEW i \in Isolates, Resolve(c, u, i)
        PROVE  Attached'
    BY <2>1 DEF Resolve, usageVars
  <2>2. CASE Refuse(c) \/ DialFailed(c)
    BY <2>2 DEF Refuse, DialFailed, IdleConn, usageVars
  <2>3. ASSUME NEW cycle \in Cycles, Dial(c, cycle) PROVE Attached'
    BY <2>3 DEF Dial, usageVars
  <2>4. CASE Admit(c) \/ Dialed(c)
    BY <2>4 DEF Admit, Dialed, usageVars
  <2>5. CASE Close(c)
    BY <2>5 DEF Close
  <2>6. CASE BatchCommit(c) \/ BatchFail(c)
    BY <2>6 DEF BatchCommit, BatchFail
  <2> QED BY <1>2, <2>1, <2>2, <2>3, <2>4, <2>5, <2>6 DEF Connection
<1>3. CASE Upkeep
  BY <1>1, <1>3 DEF Upkeep, SubRead, MaintenanceLands,
     MaintenanceFails, usageVars
<1>4. ASSUME NEW i \in Isolates, Panel(i) PROVE Attached'
  BY <1>1, <1>4 DEF Panel, ReadList, CreateUser, DeleteUser,
     PatchUser, usageVars
<1>5. ASSUME NEW i \in Isolates, Evict(i) PROVE Attached'
  <2>1. ASSUME NEW d \in Conns
        PROVE  \/ conn'[d] = conn[d]
               \/ /\ conn[d].phase \in {"open", "closed"}
                  /\ conn'[d].phase = "closed" /\ conn'[d].user = conn[d].user
               \/ conn'[d].phase = "idle"
    BY <1>5 DEF Evict, IdleConn, TypeOK, ConnState
  <2>2. batch' = batch
    BY <1>5 DEF Evict
  <2> QED BY <2>1, <2>2
<1>6. CASE Tick \/ UNCHANGED vars
  BY <1>1, <1>6 DEF Tick, vars, usageVars
<1> QED BY <1>2, <1>3, <1>4, <1>5, <1>6 DEF Next

(***************************************************************************)
(* Every variable keeps its type.                                          *)
(***************************************************************************)
THEOREM TypeCorrect == Spec => [](TypeOK /\ Attached)
<1>1. Init => TypeOK
  BY AccountingAssumption, RowForms
  DEF Init, TypeOK, NoList, IdleConn, NoJob, List, Job, ConnState
<1>2. TypeOK /\ Attached /\ [Next]_vars => TypeOK'
  <2> SUFFICES ASSUME TypeOK, Attached, [Next]_vars PROVE TypeOK'
    OBVIOUS
  <2> USE DEF TypeOK, List, Job
  <2>1. ASSUME NEW i \in Isolates PROVE ReadList(i) => TypeOK'
    BY ListType DEF ReadList, rowVars, usageVars
  <2>2. ASSUME NEW c \in Conns, NEW u \in Users, NEW i \in Isolates
        PROVE  Resolve(c, u, i) => TypeOK'
    <3> SUFFICES ASSUME Resolve(c, u, i) PROVE TypeOK'
      OBVIOUS
    <3>1. ListUsers(i) \in List
      BY ListType
    <3>2. conn' \in [Conns -> ConnState]
      BY <3>1 DEF Resolve, ConnState
    <3> QED BY <3>1, <3>2 DEF Resolve, rowVars, usageVars
  <2>3. ASSUME NEW c \in Conns PROVE Refuse(c) => TypeOK'
    BY ConnForms DEF Refuse, rowVars, usageVars
  <2>4. ASSUME NEW c \in Conns, NEW cycle \in Cycles PROVE Dial(c, cycle) => TypeOK'
    <3> SUFFICES ASSUME Dial(c, cycle) PROVE TypeOK'
      OBVIOUS
    <3>0. conn[c] \in ConnState
      OBVIOUS
    <3>1. Maintenance(conn[c].seen, now, cycle) \in [at : Nat, stamp : BOOLEAN,
                                              anchor : BOOLEAN, reset : BOOLEAN]
      BY <3>0, MaintenanceType DEF ConnState
    <3>2. job' \in [Requests -> Job]
      BY <3>0, <3>1 DEF Dial, StartMaintenance, Requests, ConnState
    <3>3. conn' \in [Conns -> ConnState]
      <4>1. conn' \in [Conns -> ConnState] <=>
              [conn EXCEPT ![c] = [conn[c] EXCEPT !.phase = "dialing",
                                     !.start = 0, !.seen = Unborn]]
                \in [Conns -> ConnState]
        BY Zenon DEF Dial
      <4> QED BY <4>1, <3>0, ConnForms
    <3> QED BY <3>2, <3>3 DEF Dial, rowVars, usageVars
  <2>5. ASSUME NEW c \in Conns PROVE Admit(c) \/ Dialed(c) \/ DialFailed(c) => TypeOK'
    <3> SUFFICES ASSUME Admit(c) \/ Dialed(c) \/ DialFailed(c) PROVE TypeOK'
      OBVIOUS
    <3>1. conn' \in [Conns -> ConnState]
      <4>1. CASE Dialed(c)
        <5>1. conn' = [conn EXCEPT ![c] = [conn[c] EXCEPT !.phase = "open"]]
          BY <4>1, Zenon DEF Dialed
        <5>2. [conn[c] EXCEPT !.phase = "open"] \in ConnState
          BY ConnForms
        <5> QED BY <5>1, <5>2
      <4>2. CASE Admit(c)
        <5>1. conn' = [conn EXCEPT ![c] = [conn[c] EXCEPT !.phase = "allowed"]]
          BY <4>2, Zenon DEF Admit
        <5>2. [conn[c] EXCEPT !.phase = "allowed"] \in ConnState
          BY ConnForms
        <5> QED BY <5>1, <5>2
      <4>3. CASE DialFailed(c)
        BY <4>3, ConnForms DEF DialFailed
      <4> QED BY <4>1, <4>2, <4>3
    <3> QED BY <3>1 DEF Admit, Dialed, DialFailed, rowVars, usageVars
  <2>6. ASSUME NEW c \in Conns PROVE Close(c) => TypeOK'
    <3> SUFFICES ASSUME Close(c) PROVE TypeOK'
      OBVIOUS
    <3>1. conn' \in [Conns -> ConnState]
      BY ConnForms DEF Close
    <3>2. conn[c].iso \in Isolates
      BY DEF Close, Attached
    <3> DEFINE q == pending[conn[c].iso] \cup {c}
    <3>3. q \in SUBSET Conns
      BY <3>2
    <3>4. /\ batch' \in [Conns -> SUBSET Conns]
          /\ pending' \in [Isolates -> SUBSET Conns]
      <4>1. \/ batch' = [batch EXCEPT ![c] = q]
               /\ pending' = [pending EXCEPT ![conn[c].iso] = {}]
            \/ batch' = batch /\ pending' = [pending EXCEPT ![conn[c].iso] = q]
        BY DEF Close
      <4> HIDE DEF q
      <4> QED BY <4>1, <3>2, <3>3
    <3>5. lastFlush' \in [Isolates -> Nat]
      BY <3>2 DEF Close
    <3> QED BY <3>1, <3>4, <3>5 DEF Close, rowVars
  <2>7. ASSUME NEW i, InvalidateOnReply(i)
        PROVE  listCache' \in [Isolates -> List]
    BY <2>7, RowForms DEF InvalidateOnReply, InvalidateUsers, NoList
  <2>8. ASSUME TrackRows, now' = now
        PROVE  /\ cleared' \subseteq Conns
               /\ barredSince' \in [Users -> Nat] /\ stampedSince' \in [Users -> Nat]
               /\ windowSince' \in [Users -> Nat]
    BY <2>8 DEF TrackRows, TrackBars, Since, Row
  <2>9. ASSUME NEW c \in Conns PROVE BatchCommit(c) => TypeOK'
    <3> SUFFICES ASSUME BatchCommit(c) PROVE TypeOK'
      OBVIOUS
    <3>1. \A u \in Users :
            row[u].used \cup {b \in batch[c] : conn[b].user = u} \in SUBSET Conns
      BY DEF Row
    <3>2. row' \in [Users -> Row]
      BY <3>1, RowForms DEF BatchCommit
    <3> QED BY <2>7, <2>8, <3>2 DEF BatchCommit
  <2>10. ASSUME NEW c \in Conns PROVE BatchFail(c) => TypeOK'
    BY DEF BatchFail, rowVars
  <2>11. ASSUME NEW r \in Reads, NEW u \in Users, NEW i \in Isolates,
                NEW cycle \in Cycles
         PROVE  SubRead(r, u, i, cycle) => TypeOK'
    <3> SUFFICES ASSUME SubRead(r, u, i, cycle) PROVE TypeOK'
      OBVIOUS
    <3>1. ListUsers(i) \in List
      BY ListType
    <3>2. Maintenance(ListUsers(i).rows[u], now, cycle)
            \in [at : Nat, stamp : BOOLEAN, anchor : BOOLEAN, reset : BOOLEAN]
      BY <3>1, MaintenanceType
    <3>3. job' \in [Requests -> Job]
      BY <3>2 DEF SubRead, StartMaintenance, Requests
    <3> QED BY <3>1, <3>3 DEF SubRead, rowVars, usageVars
  <2>12. ASSUME NEW r \in Requests PROVE MaintenanceLands(r) => TypeOK'
    <3> SUFFICES ASSUME MaintenanceLands(r) PROVE TypeOK'
      OBVIOUS
    <3>1. \A u \in Users : Maintained(row[u], job[r]) \in Row
      BY MaintainedRow
    <3>2. row' \in [Users -> Row]
      BY <3>1 DEF MaintenanceLands
    <3>3. job' \in [Requests -> Job]
      BY DEF MaintenanceLands, NoJob
    <3> QED BY <2>7, <2>8, <3>2, <3>3 DEF MaintenanceLands, usageVars
  <2>13. ASSUME NEW r \in Requests PROVE MaintenanceFails(r) => TypeOK'
    BY DEF MaintenanceFails, NoJob, rowVars, usageVars
  <2>14. ASSUME NEW u \in Users, NEW i \in Isolates, NEW n \in NewRows
         PROVE  CreateUser(u, i, n) => TypeOK'
    <3> SUFFICES ASSUME CreateUser(u, i, n) PROVE TypeOK'
      OBVIOUS
    <3>1. row' \in [Users -> Row]
      BY RowForms, AccountingAssumption DEF CreateUser
    <3> QED BY <2>7, <2>8, <3>1 DEF CreateUser, usageVars
  <2>15. ASSUME NEW u \in Users, NEW i \in Isolates
         PROVE  DeleteUser(u, i) => TypeOK'
    <3> SUFFICES ASSUME DeleteUser(u, i) PROVE TypeOK'
      OBVIOUS
    <3>1. row' \in [Users -> Row]
      BY RowForms DEF DeleteUser
    <3> QED BY <2>7, <2>8, <3>1 DEF DeleteUser, usageVars
  <2>16. ASSUME NEW u \in Users, NEW i \in Isolates, NEW p \in Patches
         PROVE  PatchUser(u, i, p) => TypeOK'
    <3> SUFFICES ASSUME PatchUser(u, i, p) PROVE TypeOK'
      OBVIOUS
    <3>1. row' \in [Users -> Row]
      BY PatchedRow, AccountingAssumption DEF PatchUser
    <3> QED BY <2>7, <2>8, <3>1 DEF PatchUser, usageVars
  <2>17. ASSUME NEW i \in Isolates PROVE Evict(i) => TypeOK'
    <3> SUFFICES ASSUME Evict(i) PROVE TypeOK'
      OBVIOUS
    <3>1. conn' \in [Conns -> ConnState]
      BY ConnForms DEF Evict
    <3>2. job' \in [Requests -> Job]
      BY DEF Evict
    <3>3. listCache' \in [Isolates -> List]
      BY RowForms DEF Evict, NoList
    <3> QED BY <3>1, <3>2, <3>3 DEF Evict, rowVars
  <2>18. Tick => TypeOK'
    BY DEF Tick, TrackBars, Since, usageVars
  <2>19. UNCHANGED vars => TypeOK'
    BY DEF vars
  <2> QED
    BY <2>1, <2>2, <2>3, <2>4, <2>5, <2>6, <2>9, <2>10, <2>11, <2>12, <2>13,
       <2>14, <2>15, <2>16, <2>17, <2>18, <2>19
    DEF Next, Connection, Upkeep, Panel
<1>3. Init => Attached
  BY DEF Init, Attached, IdleConn
<1> QED BY <1>1, <1>2, <1>3, AttachedStep, PTL DEF Spec

-----------------------------------------------------------------------------
(***************************************************************************)
(* CountedOnce.  It is inductive once types and Attached are known.  Three *)
(* lemmas cover the steps that leave the lumps where they are, the steps   *)
(* that only take lumps out of rows, and the flushes.                      *)
(***************************************************************************)
(* What the set names of CountedOnce say, lump by lump.  *)
LEMMA UsedLumps == TypeOK => \A u \in Users : row[u].used \subseteq Conns
BY DEF TypeOK, Row

(* Steps that move no lump: nothing closes, no place changes.  *)
LEMMA NothingMoves ==
    ASSUME TypeOK, CountedOnce,
           \A u \in Users : row'[u].used = row[u].used,
           pending' = pending, batch' = batch,
           cleared' = cleared, lost' = lost,
           \A c \in Conns :
              /\ conn'[c].phase = "closed" <=> conn[c].phase = "closed"
              /\ conn[c].phase = "closed" => conn'[c].user = conn[c].user
    PROVE  CountedOnce'
<1>1. Gathered' = Gathered /\ InFlight' = InFlight /\ Counted' = Counted
  BY DEF Gathered, InFlight, Counted
<1>2. SettledIffClosed'
  BY <1>1 DEF CountedOnce, SettledIffClosed
<1>3. PlacesDisjoint'
  BY <1>1 DEF CountedOnce, PlacesDisjoint
<1>4. ASSUME NEW u \in Users, NEW c \in row'[u].used
      PROVE  conn'[c].user = u
  <2>1. c \in Counted /\ c \in Conns
    BY <1>4, UsedLumps DEF Counted
  <2>2. conn[c].phase = "closed"
    BY <2>1 DEF CountedOnce, SettledIffClosed
  <2> QED BY <1>4, <2>1, <2>2 DEF CountedOnce, HeldOnce
<1> QED BY <1>2, <1>3, <1>4 DEF CountedOnce, HeldOnce

(* Steps that only take lumps out of rows: TrackRows clears what they took. *)
LEMMA ShrinkMoves ==
    ASSUME TypeOK, CountedOnce, TrackRows,
           \A u \in Users : row'[u].used \subseteq row[u].used
    PROVE  /\ Counted' \cup cleared' = Counted \cup cleared
           /\ Counted' \subseteq Counted /\ cleared \subseteq cleared'
           /\ Counted' \cap cleared' = {}
<1>1. ASSUME NEW c
      PROVE  /\ c \in Counted' \cup cleared' <=> c \in Counted \cup cleared
             /\ c \in cleared => c \in cleared'
  BY DEF Counted, TrackRows
<1>2. ASSUME NEW c, c \in Counted'
      PROVE  c \in Counted /\ c \notin cleared'
  <2>1. PICK u \in Users : c \in row'[u].used
    BY <1>2 DEF Counted
  <2>2. c \in row[u].used /\ c \in Counted /\ c \in Conns
    BY <2>1, UsedLumps DEF Counted
  <2>3. \A v \in Users : c \in row[v].used => v = u
    BY <2>2 DEF CountedOnce, HeldOnce
  <2>4. c \notin cleared
    BY <2>2 DEF CountedOnce, PlacesDisjoint
  <2> QED BY <2>1, <2>2, <2>3, <2>4 DEF TrackRows
<1> QED BY <1>1, <1>2

LEMMA RowsShrink ==
    ASSUME TypeOK, CountedOnce, TrackRows,
           \A u \in Users : row'[u].used \subseteq row[u].used,
           pending' = pending, batch' = batch, lost' = lost, conn' = conn
    PROVE  CountedOnce'
<1>1. Gathered' = Gathered /\ InFlight' = InFlight
  BY DEF Gathered, InFlight
<1>2. SettledIffClosed'
  BY <1>1, ShrinkMoves DEF CountedOnce, SettledIffClosed
<1>3. PlacesDisjoint'
  BY <1>1, ShrinkMoves DEF CountedOnce, PlacesDisjoint
<1> QED BY <1>2, <1>3 DEF CountedOnce, HeldOnce

(* A close: the lump joins what its isolate holds, or leaves with it.  *)
LEMMA CloseMoves ==
    ASSUME TypeOK, Attached, CountedOnce, NEW c \in Conns, Close(c)
    PROVE  /\ \A d \in Conns : /\ conn'[d].user = conn[d].user
                               /\ conn'[d].phase = "closed" <=>
                                     conn[d].phase = "closed" \/ d = c
                               /\ conn'[d].phase = "open" <=>
                                     conn[d].phase = "open" /\ d # c
           /\ conn[c].phase = "open"
           /\ c \notin Gathered \cup InFlight \cup Counted \cup cleared \cup lost
           /\ UNCHANGED <<row, cleared, lost>> /\ Counted' = Counted
           /\ Gathered' \cup InFlight' = Gathered \cup InFlight \cup {c}
           /\ Gathered' \cap InFlight' = {}
           /\ \A j, k \in Isolates : j # k => pending'[j] \cap pending'[k] = {}
           /\ \A b, d \in Conns : b # d => batch'[b] \cap batch'[d] = {}
<1> DEFINE i == conn[c].iso
           q == pending[i] \cup {c}
<1>1. /\ i \in Isolates
      /\ \A d \in Conns : conn'[d].user = conn[d].user
      /\ \A d \in Conns : conn'[d].phase = "closed" <=>
                             conn[d].phase = "closed" \/ d = c
      /\ \A d \in Conns : conn'[d].phase = "open" <=>
                             conn[d].phase = "open" /\ d # c
      /\ conn[c].phase = "open"
  BY DEF Close, Attached, TypeOK, ConnState
<1>2. c \notin Gathered \cup InFlight \cup Counted \cup cleared \cup lost
  BY <1>1 DEF CountedOnce, SettledIffClosed
<1>3. UNCHANGED <<row, cleared, lost>> /\ Counted' = Counted
  BY DEF Close, rowVars, Counted
<1>4. \A u \in Users : row[u].used \subseteq Conns
  BY UsedLumps
<1>5. \A d \in Conns : batch[d] # {} => d # c
  <2> SUFFICES ASSUME batch[c] # {} PROVE FALSE
    OBVIOUS
  <2>1. c \in InFlight
    BY DEF Attached, InFlight
  <2> QED BY <1>2, <2>1
<1>6. /\ \A j \in Isolates : pending'[j] \subseteq pending[j] \cup {c}
      /\ \A b \in Conns : batch'[b] \subseteq batch[b] \cup q
      /\ \/ FlushDue(q, i) /\ pending' = [pending EXCEPT ![i] = {}]
                           /\ batch' = [batch EXCEPT ![c] = q]
         \/ batch' = batch /\ pending' = [pending EXCEPT ![i] = q]
  BY <1>1 DEF Close, TypeOK
<1>7. \A j \in Isolates : \A k \in Isolates :
         j # k => pending[j] \cap pending[k] = {}
  BY DEF CountedOnce, HeldOnce
<1>8. Gathered' \cup InFlight' = Gathered \cup InFlight \cup {c}
  <2>1. CASE batch' = batch /\ pending' = [pending EXCEPT ![i] = q]
    BY <1>1, <2>1 DEF Gathered, InFlight, TypeOK
  <2>2. CASE batch' = [batch EXCEPT ![c] = q] /\ pending' = [pending EXCEPT ![i] = {}]
    BY <1>1, <1>5, <2>2 DEF Gathered, InFlight, TypeOK
  <2> QED BY <1>6, <2>1, <2>2
<1>9. Gathered' \cap InFlight' = {}
  <2>1. CASE batch' = batch /\ pending' = [pending EXCEPT ![i] = q]
    <3>1. Gathered' = Gathered \cup {c} /\ InFlight' = InFlight
      BY <1>1, <2>1 DEF Gathered, InFlight, TypeOK
    <3> QED BY <1>2, <3>1 DEF CountedOnce, PlacesDisjoint
  <2>2. CASE batch' = [batch EXCEPT ![c] = q] /\ pending' = [pending EXCEPT ![i] = {}]
    <3>1. InFlight' = InFlight \cup q
      BY <1>5, <2>2 DEF InFlight, TypeOK
    <3>2. Gathered' \subseteq Gathered /\ Gathered' \cap pending[i] = {}
      BY <1>1, <1>7, <2>2 DEF Gathered, TypeOK
    <3> QED BY <1>2, <3>1, <3>2 DEF CountedOnce, PlacesDisjoint
  <2> QED BY <1>6, <2>1, <2>2
<1>10. \A j, k \in Isolates : j # k => pending'[j] \cap pending'[k] = {}
  BY <1>1, <1>2, <1>6, <1>7 DEF Gathered, TypeOK
<1>11. \A b, d \in Conns : b # d => batch'[b] \cap batch'[d] = {}
  <2>1. \A b, d \in Conns : b # d => batch[b] \cap batch[d] = {}
    BY DEF CountedOnce, HeldOnce
  <2>2. \A b \in Conns : batch[b] \cap q = {}
    BY <1>1, <1>2 DEF CountedOnce, PlacesDisjoint, Gathered, InFlight
  <2> QED BY <1>6, <2>1, <2>2 DEF TypeOK
<1> QED BY <1>1, <1>2, <1>3, <1>8, <1>9, <1>10, <1>11

LEMMA CloseCountsOnce ==
    ASSUME TypeOK, Attached, CountedOnce, NEW c \in Conns, Close(c)
    PROVE  CountedOnce'
<1>1. SettledIffClosed'
  BY CloseMoves DEF CountedOnce, SettledIffClosed
<1>2. PlacesDisjoint'
  BY CloseMoves DEF CountedOnce, PlacesDisjoint
<1>3. HeldOnce'
  BY CloseMoves, UsedLumps DEF CountedOnce, HeldOnce
<1> QED BY <1>1, <1>2, <1>3 DEF CountedOnce

(* A flush lands: each lump goes to the row of its user, or is lost with it. *)
LEMMA CommitMoves ==
    ASSUME TypeOK, Attached, CountedOnce, NEW c \in Conns, BatchCommit(c)
    PROVE  /\ \A b \in batch[c] : /\ b \in Conns /\ b \in InFlight
                                  /\ conn[b].phase = "closed"
           /\ UNCHANGED <<pending, conn, cleared>> /\ Gathered' = Gathered
           /\ InFlight' = InFlight \ batch[c]
           /\ Counted' = Counted \cup {b \in batch[c] : Live(row[conn[b].user])}
           /\ lost' = lost \cup {b \in batch[c] : ~Live(row[conn[b].user])}
           /\ \A u \in Users : \A d \in row'[u].used : conn[d].user = u
<1> DEFINE sent == batch[c]
<1>1. \A u \in Users : row[u].used \subseteq Conns
  BY UsedLumps
<1>2. \A b \in sent : /\ b \in Conns /\ b \in InFlight
                       /\ conn[b].phase = "closed" /\ conn[b].user \in Users
                       /\ b \notin Gathered \cup Counted \cup cleared \cup lost
  BY DEF TypeOK, InFlight, CountedOnce, SettledIffClosed, PlacesDisjoint, Attached
<1>3. UNCHANGED <<pending, conn>> /\ Gathered' = Gathered
  BY DEF BatchCommit, Gathered
<1>4. \A u \in Users : row'[u].used =
         IF Live(row[u]) THEN row[u].used \cup {b \in sent : conn[b].user = u}
         ELSE row[u].used
  BY DEF BatchCommit, TypeOK, Row
<1>5. cleared' = cleared
  BY <1>4 DEF BatchCommit, TrackRows
<1>6. lost' = lost \cup {b \in sent : ~Live(row[conn[b].user])}
  BY DEF BatchCommit
<1>7. Counted' = Counted \cup {b \in sent : Live(row[conn[b].user])}
  <2>1. ASSUME NEW d, d \in Counted'
        PROVE  d \in Counted \/ (d \in sent /\ Live(row[conn[d].user]))
    BY <2>1, <1>4 DEF Counted
  <2>2. ASSUME NEW d, d \in Counted PROVE d \in Counted'
    BY <2>2, <1>4 DEF Counted
  <2>3. ASSUME NEW d \in sent, Live(row[conn[d].user]) PROVE d \in Counted'
    <3>1. conn[d].user \in Users
      BY <1>2
    <3>2. d \in row'[conn[d].user].used
      BY <2>3, <3>1, <1>4
    <3> QED BY <3>1, <3>2 DEF Counted
  <2> QED BY <2>1, <2>2, <2>3
<1>8. InFlight' = InFlight \ sent
  <2>1. batch' = [batch EXCEPT ![c] = {}]
    BY DEF BatchCommit
  <2>2. \A d \in Conns : d # c => batch[d] \cap sent = {}
    BY DEF CountedOnce, HeldOnce
  <2> QED BY <2>1, <2>2 DEF InFlight, TypeOK
<1>9. \A u \in Users : \A d \in row'[u].used : conn[d].user = u
  BY <1>4 DEF CountedOnce, HeldOnce
<1> QED BY <1>2, <1>3, <1>5, <1>6, <1>7, <1>8, <1>9

LEMMA CommitCountsOnce ==
    ASSUME TypeOK, Attached, CountedOnce, NEW c \in Conns, BatchCommit(c)
    PROVE  CountedOnce'
<1>1. SettledIffClosed'
  BY CommitMoves DEF CountedOnce, SettledIffClosed
<1>2. PlacesDisjoint'
  BY CommitMoves DEF CountedOnce, PlacesDisjoint
<1>3. HeldOnce'
  <2>1. \A b \in Conns : batch'[b] \subseteq batch[b]
    BY DEF BatchCommit, TypeOK
  <2> QED BY CommitMoves, <2>1 DEF CountedOnce, HeldOnce
<1> QED BY <1>1, <1>2, <1>3 DEF CountedOnce

(* A flush fails: its lumps are lost.  *)
LEMMA FailMoves ==
    ASSUME TypeOK, CountedOnce, NEW c \in Conns, BatchFail(c)
    PROVE  /\ UNCHANGED <<row, cleared, pending, conn>>
           /\ Gathered' = Gathered /\ Counted' = Counted
           /\ InFlight' = InFlight \ batch[c] /\ batch[c] \subseteq InFlight
           /\ lost' = lost \cup batch[c]
<1>1. UNCHANGED <<row, cleared, pending, conn>>
  BY DEF BatchFail, rowVars
<1>2. Gathered' = Gathered /\ Counted' = Counted
  BY <1>1 DEF Gathered, Counted
<1>3. InFlight' = InFlight \ batch[c] /\ batch[c] \subseteq InFlight
  <2>1. batch' = [batch EXCEPT ![c] = {}]
    BY DEF BatchFail
  <2>2. \A d \in Conns : d # c => batch[d] \cap batch[c] = {}
    BY DEF CountedOnce, HeldOnce
  <2> QED BY <2>1, <2>2 DEF InFlight, TypeOK
<1>4. lost' = lost \cup batch[c]
  BY DEF BatchFail
<1> QED BY <1>1, <1>2, <1>3, <1>4

LEMMA FailCountsOnce ==
    ASSUME TypeOK, CountedOnce, NEW c \in Conns, BatchFail(c)
    PROVE  CountedOnce'
<1>1. SettledIffClosed'
  BY FailMoves DEF CountedOnce, SettledIffClosed
<1>2. PlacesDisjoint'
  BY FailMoves DEF CountedOnce, PlacesDisjoint
<1>3. HeldOnce'
  <2>1. \A b \in Conns : batch'[b] \subseteq batch[b]
    BY DEF BatchFail, TypeOK
  <2> QED BY FailMoves, <2>1 DEF CountedOnce, HeldOnce
<1> QED BY <1>1, <1>2, <1>3 DEF CountedOnce

(* The connections an isolate carries: an eviction loses what they moved. *)
Carried(i) == {c \in Conns : conn[c].iso = i /\ conn[c].phase = "open"}

(* An eviction: what the isolate gathered and what it carried is lost.  *)
LEMMA EvictMoves ==
    ASSUME TypeOK, CountedOnce, NEW i \in Isolates, Evict(i)
    PROVE  /\ UNCHANGED <<row, cleared, batch>>
           /\ Counted' = Counted /\ InFlight' = InFlight
           /\ pending[i] \subseteq Gathered /\ Gathered' = Gathered \ pending[i]
           /\ lost' = lost \cup pending[i] \cup Carried(i)
           /\ \A c \in Conns :
                /\ conn'[c].phase = "closed" <=>
                      conn[c].phase = "closed" \/ c \in Carried(i)
                /\ conn'[c].phase = "open" <=>
                      conn[c].phase = "open" /\ c \notin Carried(i)
                /\ conn[c].phase = "closed" => conn'[c].user = conn[c].user
           /\ \A c \in Carried(i) : c \notin Gathered \cup InFlight \cup Counted
                                             \cup cleared \cup lost
<1>1. UNCHANGED <<row, cleared, batch>> /\ Counted' = Counted /\ InFlight' = InFlight
  BY DEF Evict, rowVars, Counted, InFlight
<1>2. lost' = lost \cup pending[i] \cup Carried(i)
  BY DEF Evict, Carried
<1>3. \A c \in Conns :
         /\ conn'[c].phase = "closed" <=>
               conn[c].phase = "closed" \/ c \in Carried(i)
         /\ conn'[c].phase = "open" <=>
               conn[c].phase = "open" /\ c \notin Carried(i)
         /\ conn[c].phase = "closed" => conn'[c].user = conn[c].user
  BY DEF Evict, TypeOK, ConnState, IdleConn, Carried
<1>4. pending[i] \subseteq Gathered /\ Gathered' = Gathered \ pending[i]
  <2>1. pending' = [pending EXCEPT ![i] = {}]
    BY DEF Evict
  <2>2. \A j \in Isolates : j # i => pending[j] \cap pending[i] = {}
    BY DEF CountedOnce, HeldOnce
  <2> QED BY <2>1, <2>2 DEF Gathered, TypeOK
<1>5. \A c \in Carried(i) :
         c \notin Gathered \cup InFlight \cup Counted \cup cleared \cup lost
  BY DEF CountedOnce, SettledIffClosed, Carried
<1> QED BY <1>1, <1>2, <1>3, <1>4, <1>5

LEMMA EvictCountsOnce ==
    ASSUME TypeOK, CountedOnce, NEW i \in Isolates, Evict(i)
    PROVE  CountedOnce'
<1>1. SettledIffClosed'
  BY EvictMoves DEF CountedOnce, SettledIffClosed
<1>2. PlacesDisjoint'
  BY EvictMoves DEF CountedOnce, PlacesDisjoint
<1>3. HeldOnce'
  <2>1. \A j \in Isolates : pending'[j] \subseteq pending[j]
    BY DEF Evict, TypeOK
  <2>2. ASSUME NEW u \in Users, NEW c \in row'[u].used PROVE conn'[c].user = u
    <3>1. c \in Counted /\ c \in Conns /\ conn[c].user = u
      BY EvictMoves, <2>2, UsedLumps DEF Counted, CountedOnce, HeldOnce
    <3>2. conn[c].phase = "closed"
      BY <3>1 DEF CountedOnce, SettledIffClosed
    <3> QED BY EvictMoves, <3>1, <3>2
  <2> QED BY EvictMoves, <2>1, <2>2 DEF CountedOnce, HeldOnce
<1> QED BY <1>1, <1>2, <1>3 DEF CountedOnce

(* The statements of the panel and of maintenance only take lumps away.  *)
LEMMA ShrinkingSteps ==
    ASSUME TypeOK, NEW u \in Users
    PROVE  /\ \A r \in Requests : MaintenanceLands(r) => row'[u].used \subseteq row[u].used
           /\ \A v \in Users, i \in Isolates, n \in NewRows :
                 CreateUser(v, i, n) => row'[u].used \subseteq row[u].used
           /\ \A v \in Users, i \in Isolates :
                 DeleteUser(v, i) => row'[u].used \subseteq row[u].used
           /\ \A v \in Users, i \in Isolates, p \in Patches :
                 PatchUser(v, i, p) => row'[u].used \subseteq row[u].used
<1> USE DEF TypeOK, Row
<1>1. ASSUME NEW r \in Requests, MaintenanceLands(r)
      PROVE  row'[u].used \subseteq row[u].used
  BY <1>1 DEF MaintenanceLands, Maintained
<1>2. ASSUME NEW v \in Users, NEW i \in Isolates, NEW n \in NewRows, CreateUser(v, i, n)
      PROVE  row'[u].used \subseteq row[u].used
  BY <1>2 DEF CreateUser, NewRow, Unborn
<1>3. ASSUME NEW v \in Users, NEW i \in Isolates, DeleteUser(v, i)
      PROVE  row'[u].used \subseteq row[u].used
  BY <1>3 DEF DeleteUser, Unborn
<1>4. ASSUME NEW v \in Users, NEW i \in Isolates, NEW p \in Patches, PatchUser(v, i, p)
      PROVE  row'[u].used \subseteq row[u].used
  BY <1>4 DEF PatchUser, Patched
<1> QED BY <1>1, <1>2, <1>3, <1>4

LEMMA CountedOnceStep ==
    TypeOK /\ Attached /\ CountedOnce /\ [Next]_vars => CountedOnce'
<1> SUFFICES ASSUME TypeOK, Attached, CountedOnce, [Next]_vars PROVE CountedOnce'
  OBVIOUS
<1>1. ASSUME NEW c \in Conns, Connection(c) PROVE CountedOnce'
  <2>1. ASSUME NEW u \in Users, NEW i \in Isolates, Resolve(c, u, i)
        PROVE  CountedOnce'
    <3>1. \A d \in Conns :
             /\ conn'[d].phase = "closed" <=> conn[d].phase = "closed"
             /\ conn[d].phase = "closed" => conn'[d].user = conn[d].user
      BY <2>1 DEF Resolve, TypeOK
    <3> QED BY <2>1, <3>1, NothingMoves DEF Resolve, rowVars, usageVars
  <2>2. CASE Refuse(c) \/ DialFailed(c)
    <3>1. \A d \in Conns :
             /\ conn'[d].phase = "closed" <=> conn[d].phase = "closed"
             /\ conn[d].phase = "closed" => conn'[d].user = conn[d].user
      BY <2>2 DEF Refuse, DialFailed, IdleConn, TypeOK
    <3> QED BY <2>2, <3>1, NothingMoves DEF Refuse, DialFailed, rowVars, usageVars
  <2>3. ASSUME Admit(c) \/ Dialed(c) \/ \E cycle \in Cycles : Dial(c, cycle)
        PROVE  CountedOnce'
    <3>1. \A d \in Conns :
             /\ conn'[d].phase = "closed" <=> conn[d].phase = "closed"
             /\ conn'[d].user = conn[d].user
      <4>1. conn \in [Conns -> ConnState]
        BY DEF TypeOK
      <4>2. CASE Admit(c)
        BY <4>1, <4>2 DEF Admit, ConnState
      <4>3. CASE Dialed(c)
        BY <4>1, <4>3 DEF Dialed, ConnState
      <4>4. ASSUME NEW cycle \in Cycles, Dial(c, cycle)
            PROVE  \A d \in Conns :
                      /\ conn'[d].phase = "closed" <=> conn[d].phase = "closed"
                      /\ conn'[d].user = conn[d].user
        BY <4>1, <4>4 DEF Dial, ConnState
      <4> QED BY <2>3, <4>2, <4>3, <4>4
    <3> QED BY <2>3, <3>1, NothingMoves DEF Admit, Dial, Dialed, rowVars, usageVars
  <2>4. CASE Close(c) \/ BatchCommit(c) \/ BatchFail(c)
    BY <2>4, CloseCountsOnce, CommitCountsOnce, FailCountsOnce
  <2> QED BY <1>1, <2>1, <2>2, <2>3, <2>4 DEF Connection
<1>2. CASE Upkeep
  <2>1. ASSUME NEW r \in Requests, MaintenanceLands(r) PROVE CountedOnce'
    BY <2>1, RowsShrink, ShrinkingSteps DEF MaintenanceLands, usageVars
  <2>2. ASSUME NEW r \in Requests, MaintenanceFails(r) PROVE CountedOnce'
    BY <2>2, NothingMoves DEF MaintenanceFails, rowVars, usageVars
  <2>3. ASSUME NEW r \in Reads, NEW u \in Users, NEW i \in Isolates,
               NEW cycle \in Cycles, SubRead(r, u, i, cycle)
        PROVE  CountedOnce'
    BY <2>3, NothingMoves DEF SubRead, rowVars, usageVars
  <2> QED BY <1>2, <2>1, <2>2, <2>3 DEF Upkeep
<1>3. ASSUME NEW i \in Isolates, Panel(i) PROVE CountedOnce'
  <2>1. CASE ReadList(i)
    BY <2>1, NothingMoves DEF ReadList, rowVars, usageVars
  <2>2. ASSUME NEW u \in Users, NEW n \in NewRows, CreateUser(u, i, n)
        PROVE  CountedOnce'
    BY <2>2, RowsShrink, ShrinkingSteps DEF CreateUser, usageVars
  <2>3. ASSUME NEW u \in Users, DeleteUser(u, i) PROVE CountedOnce'
    BY <2>3, RowsShrink, ShrinkingSteps DEF DeleteUser, usageVars
  <2>4. ASSUME NEW u \in Users, NEW p \in Patches, PatchUser(u, i, p)
        PROVE  CountedOnce'
    BY <2>4, RowsShrink, ShrinkingSteps DEF PatchUser, usageVars
  <2> QED BY <1>3, <2>1, <2>2, <2>3, <2>4 DEF Panel
<1>4. ASSUME NEW i \in Isolates, Evict(i) PROVE CountedOnce'
  BY <1>4, EvictCountsOnce
<1>5. CASE Tick \/ UNCHANGED vars
  BY <1>5, NothingMoves DEF Tick, vars, usageVars
<1> QED BY <1>1, <1>2, <1>3, <1>4, <1>5 DEF Next

(***************************************************************************)
(* The traffic of every connection is counted at most once, for its own    *)
(* user, and accounted for wherever the worker is between its steps.       *)
(***************************************************************************)
THEOREM CountsOnce == Spec => []CountedOnce
<1>1. Init => CountedOnce
  BY AccountingAssumption
  DEF Init, CountedOnce, SettledIffClosed, PlacesDisjoint, HeldOnce,
      Gathered, InFlight, Counted, IdleConn
<1> QED BY <1>1, TypeCorrect, CountedOnceStep, PTL DEF Spec

-----------------------------------------------------------------------------
(***************************************************************************)
(* PendingBounded.  A close leaves behind only what was not due.           *)
(***************************************************************************)
LEMMA PendingBoundedStep ==
    TypeOK /\ Attached /\ CountedOnce /\ PendingBounded /\ [Next]_vars
        => PendingBounded'
<1> SUFFICES ASSUME TypeOK, Attached, CountedOnce, PendingBounded, [Next]_vars,
                    NEW i \in Isolates, pending'[i] # {}
             PROVE  /\ Cardinality(pending'[i]) < FlushBytes
                    /\ Cardinality({conn'[c].user : c \in pending'[i]}) < FlushUsers
  BY DEF PendingBounded
<1>1. \A c \in pending[i] : c \in Conns /\ conn[c].phase = "closed"
  BY DEF TypeOK, CountedOnce, SettledIffClosed, Gathered
<1>2. ASSUME pending' = pending,
             \A c \in Conns : conn[c].phase = "closed" => conn'[c].user = conn[c].user
      PROVE  {conn'[c].user : c \in pending'[i]} = {conn[c].user : c \in pending[i]}
  BY <1>1, <1>2
<1>3. CASE pending' = pending /\
           \A c \in Conns : conn[c].phase = "closed" => conn'[c].user = conn[c].user
  BY <1>2, <1>3 DEF PendingBounded
<1>4. ASSUME NEW c \in Conns, Close(c)
      PROVE  /\ Cardinality(pending'[i]) < FlushBytes
             /\ Cardinality({conn'[d].user : d \in pending'[i]}) < FlushUsers
  <2> DEFINE q == pending[conn[c].iso] \cup {c}
  <2>1. conn[c].iso \in Isolates
    BY <1>4 DEF Close, Attached
  <2>2. \A d \in Conns : conn'[d].user = conn[d].user
    BY <1>4, CloseMoves
  <2>3. CASE i # conn[c].iso
    <3>1. pending'[i] = pending[i]
      BY <1>4, <2>1, <2>3 DEF Close, TypeOK
    <3>2. {conn'[d].user : d \in pending'[i]} = {conn[d].user : d \in pending[i]}
      BY <1>1, <2>2, <3>1
    <3> QED BY <3>1, <3>2 DEF PendingBounded
  <2>4. CASE i = conn[c].iso
    <3>1. pending'[i] = q /\ ~FlushDue(q, i)
      BY <1>4, <2>1, <2>4 DEF Close, TypeOK
    <3> DEFINE who    == [d \in q |-> conn[d].user]
               owing  == {conn[d].user : d \in q}
               owing1 == {conn'[d].user : d \in pending'[i]}
    <3>2. owing1 = owing
      BY <1>1, <2>2, <2>4, <3>1
    <3>3. IsFiniteSet(q) /\ who \in Surjection(q, owing)
      <4>1. q \subseteq Conns
        BY <1>1, <2>4
      <4>2. IsFiniteSet(q)
        BY <4>1, UserRulesAssumption, FS_Subset
      <4> QED BY <4>2 DEF Surjection
    <3>4. ~(Cardinality(q) >= FlushBytes) /\ ~(Cardinality(owing) >= FlushUsers)
      BY <3>1 DEF FlushDue
    <3> HIDE DEF q, who, owing, owing1
    <3>5. Cardinality(q) \in Nat /\ Cardinality(owing) \in Nat
      BY <3>3, FS_Surjection, FS_CardinalityType
    <3>6. Cardinality(q) < FlushBytes /\ Cardinality(owing) < FlushUsers
      BY <3>4, <3>5, AccountingAssumption
    <3>7. Cardinality(pending'[i]) < FlushBytes /\ Cardinality(owing1) < FlushUsers
      BY <3>1, <3>2, <3>6
    <3> QED BY <3>7 DEF owing1
  <2> QED BY <2>3, <2>4
<1>5. ASSUME NEW c \in Conns, Connection(c), ~Close(c)
      PROVE  pending' = pending /\
             \A d \in Conns : conn[d].phase = "closed" => conn'[d].user = conn[d].user
  <2>1. CASE \E u \in Users, j \in Isolates : Resolve(c, u, j)
    BY <2>1 DEF Resolve, TypeOK, usageVars
  <2>2. CASE Refuse(c) \/ DialFailed(c)
    BY <2>2 DEF Refuse, DialFailed, TypeOK, usageVars
  <2>3. CASE Admit(c) \/ \E cycle \in Cycles : Dial(c, cycle)
    BY <2>3 DEF Admit, Dial, TypeOK, usageVars, ConnState
  <2>4. CASE Dialed(c)
    BY <2>4 DEF Dialed, TypeOK, usageVars, ConnState
  <2>5. CASE BatchCommit(c) \/ BatchFail(c)
    BY <2>5 DEF BatchCommit, BatchFail
  <2> QED BY <1>5, <2>1, <2>2, <2>3, <2>4, <2>5 DEF Connection
<1>6. ASSUME NEW j \in Isolates, Evict(j)
      PROVE  /\ Cardinality(pending'[i]) < FlushBytes
             /\ Cardinality({conn'[d].user : d \in pending'[i]}) < FlushUsers
  <2>1. pending'[i] = pending[i]
    BY <1>6 DEF Evict, TypeOK
  <2>2. {conn'[d].user : d \in pending'[i]} = {conn[d].user : d \in pending[i]}
    BY <1>1, <1>6, <2>1, EvictMoves
  <2> QED BY <2>1, <2>2 DEF PendingBounded
<1>7. CASE Upkeep
  BY <1>3, <1>7 DEF Upkeep, SubRead, MaintenanceLands, MaintenanceFails, usageVars
<1>8. ASSUME NEW j \in Isolates, Panel(j)
      PROVE  pending' = pending /\ conn' = conn
  BY <1>8 DEF Panel, ReadList, CreateUser, DeleteUser, PatchUser, usageVars
<1>9. CASE Tick \/ UNCHANGED vars
  BY <1>3, <1>9 DEF Tick, vars, usageVars
<1> QED BY <1>3, <1>4, <1>5, <1>6, <1>7, <1>8, <1>9 DEF Next

(***************************************************************************)
(* However long a worker runs, an isolate holds less than a flush.         *)
(***************************************************************************)
THEOREM PendingStaysBounded == Spec => []PendingBounded
<1>1. Init => PendingBounded
  BY DEF Init, PendingBounded
<1> QED BY <1>1, TypeCorrect, CountsOnce, PendingBoundedStep, PTL DEF Spec

-----------------------------------------------------------------------------
(***************************************************************************)
(* LateAdmission.  The strengthening says how old a copy can be that does  *)
(* not yet show its user barred: it was read before D1 began to bar the    *)
(* user, and a lookup that used it was made less than CacheTtl after that. *)
(***************************************************************************)
BarsTracked ==
    \A u \in Users : /\ barredSince[u] <= now
                     /\ barredSince[u] # 0 <=> Barred(row[u], now)
                     /\ stampedSince[u] <= now
                     /\ stampedSince[u] # 0 <=> Stamped(row[u])
                     /\ windowSince[u] <= now

ListsRecent ==
    \A i \in Isolates :
        /\ listCache[i].at <= now
        /\ \A u \in Users :
             listCache[i].at # 0 /\ ~Barred(listCache[i].rows[u], listCache[i].at)
                 /\ barredSince[u] # 0 => listCache[i].at <= barredSince[u]
        /\ \A u \in Users :
             listCache[i].at # 0 /\ ~Stamped(listCache[i].rows[u])
                 /\ stampedSince[u] # 0 => listCache[i].at <= stampedSince[u]
        /\ \A u \in Users :
             listCache[i].at # 0 /\ ResetAnchor(listCache[i].rows[u]) # ResetAnchor(row[u])
                 => listCache[i].at <= windowSince[u]

LookedUp == {c \in Conns : conn[c].phase \in {"resolved", "allowed"}}

LookupsRecent ==
    \A c \in LookedUp :
        /\ conn[c].start <= now
        /\ Live(conn[c].seen)
        /\ ~Barred(conn[c].seen, conn[c].start) /\ barredSince[conn[c].user] # 0 =>
              conn[c].start < barredSince[conn[c].user] + CacheTtl
        /\ ~Stamped(conn[c].seen) /\ stampedSince[conn[c].user] # 0 =>
              conn[c].start < stampedSince[conn[c].user] + CacheTtl
        /\ ResetAnchor(conn[c].seen) # ResetAnchor(row[conn[c].user]) =>
              conn[c].start < windowSince[conn[c].user] + CacheTtl

CopiesRecent == BarsTracked /\ ListsRecent /\ LookupsRecent

(* A user is barred from some time on, if no change of the row ends it.  *)
LEMMA ExpiryType ==
    ASSUME NEW r \in Row
    PROVE  EffectiveExpiry(r) \in Nat
<1>1. r.expiryDays \in Nat /\ r.firstUsed \in Nat /\ r.expiryAt \in Nat
  BY DEF Row
<1>2. r.expiryDays * DayLen \in Nat
  BY <1>1, UserRulesAssumption
<1> QED BY <1>1, <1>2 DEF EffectiveExpiry

LEMMA StaysBarred ==
    ASSUME NEW r \in Row, NEW t \in Nat, NEW s \in Nat, t <= s, Barred(r, t)
    PROVE  Barred(r, s)
BY ExpiryType DEF Barred, IsUserAllowed, Expired

(* What a lookup returns, from the cache or from D1.  *)
LEMMA LookupRecent ==
    ASSUME TypeOK, CopiesRecent, NEW i \in Isolates
    PROVE  LET list == ListUsers(i) IN
           /\ list.at # 0 /\ list.at <= now
           /\ \A u \in Users : ~Barred(list.rows[u], list.at) /\ barredSince[u] # 0 =>
                 list.at <= barredSince[u]
           /\ \A u \in Users : ~Barred(list.rows[u], now) /\ barredSince[u] # 0 =>
                 now < barredSince[u] + CacheTtl
           /\ \A u \in Users : ~Stamped(list.rows[u]) /\ stampedSince[u] # 0 =>
                 /\ list.at <= stampedSince[u]
                 /\ now < stampedSince[u] + CacheTtl
           /\ \A u \in Users : ResetAnchor(list.rows[u]) # ResetAnchor(row[u]) =>
                 /\ list.at <= windowSince[u]
                 /\ now < windowSince[u] + CacheTtl
<1>1. CASE listCache[i].at # 0 /\ now - listCache[i].at < CacheTtl
  <2>1. /\ ListUsers(i) = listCache[i] /\ listCache[i] \in List
        /\ listCache[i].at <= now /\ now \in Nat
    BY <1>1 DEF ListUsers, CopiesRecent, ListsRecent, TypeOK
  <2>2. ASSUME NEW u \in Users, ~Barred(listCache[i].rows[u], now)
        PROVE  ~Barred(listCache[i].rows[u], listCache[i].at)
    BY <2>1, <2>2, StaysBarred DEF List
  <2>3. /\ barredSince \in [Users -> Nat] /\ stampedSince \in [Users -> Nat]
        /\ windowSince \in [Users -> Nat]
    BY DEF TypeOK
  <2> QED BY <1>1, <2>1, <2>2, <2>3, AccountingAssumption
          DEF CopiesRecent, ListsRecent, List
<1>2. CASE ~(listCache[i].at # 0 /\ now - listCache[i].at < CacheTtl)
  <2>1. ListUsers(i) = [at |-> now, rows |-> row]
    BY <1>2 DEF ListUsers
  <2> QED BY <2>1 DEF CopiesRecent, BarsTracked, TypeOK
<1> QED BY <1>1, <1>2

(* Steps that change rows or the time, and at most empty a cache.  *)
LEMMA RowStepRecent ==
    ASSUME TypeOK, CopiesRecent, TrackRows, now' \in Nat, now <= now', conn' = conn,
           \A j \in Isolates : listCache'[j] = listCache[j] \/ listCache'[j] = NoList,
           Attached
    PROVE  CopiesRecent'
<1>0. \A u \in Users :
        /\ Stamped(row'[u]) => stampedSince'[u] = stampedSince[u]
                               \/ stampedSince'[u] = now'
        /\ ~Stamped(row'[u]) => stampedSince'[u] = 0
        /\ Stamped(row[u]) /\ Stamped(row'[u]) => stampedSince'[u] = stampedSince[u]
        /\ ~Stamped(row[u]) /\ Stamped(row'[u]) => stampedSince'[u] = now'
  BY DEF TrackRows, Since
<1>a. \A u \in Users :
        \/ windowSince'[u] = now'
        \/ /\ windowSince'[u] = windowSince[u]
           /\ ResetAnchor(row'[u]) = ResetAnchor(row[u])
  BY DEF TrackRows
<1>1. \A u \in Users :
        /\ Barred(row'[u], now') => barredSince'[u] = barredSince[u]
                                    \/ barredSince'[u] = now'
        /\ ~Barred(row'[u], now') => barredSince'[u] = 0
        /\ Barred(row[u], now) /\ Barred(row'[u], now') =>
              barredSince'[u] = barredSince[u]
        /\ ~Barred(row[u], now) /\ Barred(row'[u], now') => barredSince'[u] = now'
  BY DEF TrackRows, TrackBars, Since
<1>2. /\ now \in Nat /\ now # 0 /\ now' # 0
      /\ barredSince \in [Users -> Nat] /\ stampedSince \in [Users -> Nat]
      /\ windowSince \in [Users -> Nat]
  BY DEF TypeOK
<1>3. BarsTracked'
  BY <1>0, <1>a, <1>1, <1>2 DEF CopiesRecent, BarsTracked
<1>4. ListsRecent'
  <2> SUFFICES ASSUME NEW j \in Isolates
               PROVE  /\ listCache'[j].at <= now'
                      /\ \A u \in Users :
                           listCache'[j].at # 0
                              /\ ~Barred(listCache'[j].rows[u], listCache'[j].at)
                              /\ barredSince'[u] # 0 =>
                                 listCache'[j].at <= barredSince'[u]
                      /\ \A u \in Users :
                           listCache'[j].at # 0 /\ ~Stamped(listCache'[j].rows[u])
                              /\ stampedSince'[u] # 0 =>
                                 listCache'[j].at <= stampedSince'[u]
                      /\ \A u \in Users :
                           listCache'[j].at # 0
                              /\ ResetAnchor(listCache'[j].rows[u]) # ResetAnchor(row'[u])
                                 => listCache'[j].at <= windowSince'[u]
    BY DEF ListsRecent
  <2>2. CASE listCache'[j] = NoList
    BY <1>2, <2>2 DEF NoList
  <2>3. CASE listCache'[j] = listCache[j]
    <3>1. listCache[j].at \in Nat /\ listCache[j].at <= now
      BY DEF TypeOK, List, CopiesRecent, ListsRecent
    <3>2. \A u \in Users :
            listCache'[j].at # 0
               /\ ResetAnchor(listCache'[j].rows[u]) # ResetAnchor(row'[u])
                  => listCache'[j].at <= windowSince'[u]
      BY <1>a, <1>2, <2>3, <3>1 DEF CopiesRecent, ListsRecent
    <3> QED BY <1>0, <1>1, <1>2, <2>3, <3>1, <3>2
            DEF CopiesRecent, ListsRecent, BarsTracked
  <2> QED BY <2>2, <2>3
<1>5. LookupsRecent'
  <2>0. LookedUp' = LookedUp
    BY DEF LookedUp
  <2> SUFFICES ASSUME NEW c \in LookedUp
               PROVE  /\ conn[c].start <= now'
                      /\ Live(conn[c].seen)
                      /\ ~Barred(conn[c].seen, conn[c].start) /\ barredSince'[conn[c].user] # 0 =>
                            conn[c].start < barredSince'[conn[c].user] + CacheTtl
                      /\ ~Stamped(conn[c].seen) /\ stampedSince'[conn[c].user] # 0 =>
                            conn[c].start < stampedSince'[conn[c].user] + CacheTtl
                      /\ ResetAnchor(conn[c].seen) # ResetAnchor(row'[conn[c].user]) =>
                            conn[c].start < windowSince'[conn[c].user] + CacheTtl
    BY <2>0 DEF LookupsRecent
  <2>1. /\ conn[c].user \in Users /\ conn[c].start \in Nat /\ conn[c].start <= now
        /\ conn[c].start <= now'
    BY <1>2 DEF Attached, LookedUp, TypeOK, ConnState, CopiesRecent, LookupsRecent
  <2>2. ~Barred(conn[c].seen, conn[c].start) /\ barredSince'[conn[c].user] # 0 =>
           conn[c].start < barredSince'[conn[c].user] + CacheTtl
    <3>1. CASE barredSince'[conn[c].user] = now'
      BY <1>2, <2>1, <3>1, AccountingAssumption
    <3>2. CASE barredSince'[conn[c].user] = barredSince[conn[c].user]
      BY <3>2 DEF CopiesRecent, LookupsRecent
    <3>3. CASE barredSince'[conn[c].user] = 0
      BY <3>3
    <3> QED BY <1>1, <2>1, <3>1, <3>2, <3>3
  <2>3. ~Stamped(conn[c].seen) /\ stampedSince'[conn[c].user] # 0 =>
           conn[c].start < stampedSince'[conn[c].user] + CacheTtl
    <3>1. CASE stampedSince'[conn[c].user] = now'
      BY <1>2, <2>1, <3>1, AccountingAssumption
    <3>2. CASE stampedSince'[conn[c].user] = stampedSince[conn[c].user]
      BY <3>2 DEF CopiesRecent, LookupsRecent
    <3>3. CASE stampedSince'[conn[c].user] = 0
      BY <3>3
    <3> QED BY <1>0, <2>1, <3>1, <3>2, <3>3
  <2>4. ResetAnchor(conn[c].seen) # ResetAnchor(row'[conn[c].user]) =>
           conn[c].start < windowSince'[conn[c].user] + CacheTtl
    <3>1. CASE windowSince'[conn[c].user] = now'
      BY <1>2, <2>1, <3>1, AccountingAssumption
    <3>2. CASE /\ windowSince'[conn[c].user] = windowSince[conn[c].user]
               /\ ResetAnchor(row'[conn[c].user]) = ResetAnchor(row[conn[c].user])
      BY <3>2 DEF CopiesRecent, LookupsRecent
    <3> QED BY <1>a, <2>1, <3>1, <3>2
  <2> QED BY <2>1, <2>2, <2>3, <2>4 DEF CopiesRecent, LookupsRecent
<1> QED BY <1>3, <1>4, <1>5 DEF CopiesRecent

(* The statements that reach D1, at one time.  *)
LEMMA StatementRecent ==
    ASSUME TypeOK, Attached, CopiesRecent, TrackRows, UNCHANGED <<now, conn>>,
           NEW i, InvalidateOnReply(i)
    PROVE  CopiesRecent'
<1>1. now' \in Nat /\ now <= now'
  BY DEF TypeOK
<1>2. \A j \in Isolates : listCache'[j] = listCache[j] \/ listCache'[j] = NoList
  BY DEF InvalidateOnReply, InvalidateUsers
<1> QED BY <1>1, <1>2, RowStepRecent

(* A change of the time alone: what is stamped stays so.  *)
LEMMA TickRecent ==
    ASSUME TypeOK, Attached, CopiesRecent, Tick
    PROVE  CopiesRecent'
<1>1. /\ now' \in Nat /\ now <= now'
      /\ UNCHANGED <<row, cleared, stampedSince, windowSince, listCache, conn>>
  BY DEF Tick, TypeOK
<1>2. stampedSince' = [u \in Users |->
                         Since(stampedSince[u], Stamped(row[u]), Stamped(row'[u]))]
  BY <1>1 DEF Since, TypeOK, CopiesRecent, BarsTracked
<1>3. UNION {row[u].used \ row'[u].used : u \in Users} = {}
  BY <1>1
<1>4. windowSince' = [u \in Users |->
                        IF ResetAnchor(row'[u]) = ResetAnchor(row[u])
                        THEN windowSince[u] ELSE now']
  BY <1>1 DEF TypeOK
<1>5. TrackRows
  BY <1>1, <1>2, <1>3, <1>4 DEF TrackRows, Tick
<1> QED BY <1>1, <1>5, RowStepRecent

(* Steps that change no row and read at most one list.  *)
LEMMA ReadStepRecent ==
    ASSUME TypeOK, CopiesRecent, UNCHANGED <<now, rowVars>>, NEW i \in Isolates,
           listCache' = [listCache EXCEPT ![i] = ListUsers(i)]
    PROVE  BarsTracked' /\ ListsRecent'
<1>1. \A j \in Isolates : listCache'[j] = IF j = i THEN ListUsers(i) ELSE listCache[j]
  BY DEF TypeOK
<1>2. BarsTracked'
  BY DEF CopiesRecent, BarsTracked, rowVars
<1>3. ListsRecent'
  BY <1>1, LookupRecent DEF CopiesRecent, ListsRecent, rowVars
<1> QED BY <1>2, <1>3

LEMMA CopiesRecentStep ==
    TypeOK /\ Attached /\ CopiesRecent /\ [Next]_vars => CopiesRecent'
<1> SUFFICES ASSUME TypeOK, Attached, CopiesRecent, [Next]_vars PROVE CopiesRecent'
  OBVIOUS
<1>1. ASSUME UNCHANGED <<now, rowVars>>
      PROVE  BarsTracked'
  BY <1>1 DEF CopiesRecent, BarsTracked, rowVars
<1>2. ASSUME UNCHANGED <<now, rowVars, listCache>>
      PROVE  ListsRecent'
  BY <1>2 DEF CopiesRecent, ListsRecent, rowVars
<1>3. ASSUME UNCHANGED <<now, rowVars>>,
             \A c \in LookedUp' :
                /\ c \in LookedUp /\ conn'[c].user = conn[c].user
                /\ conn'[c].start = conn[c].start /\ conn'[c].seen = conn[c].seen
      PROVE  LookupsRecent'
  BY <1>3 DEF CopiesRecent, LookupsRecent, rowVars
<1>4. ASSUME NEW c \in Conns, Connection(c) PROVE CopiesRecent'
  <2>1. ASSUME NEW u \in Users, NEW i \in Isolates, Resolve(c, u, i)
        PROVE  CopiesRecent'
    <3>1. BarsTracked' /\ ListsRecent'
      BY <2>1, ReadStepRecent DEF Resolve
    <3>2. ASSUME NEW d \in LookedUp'
          PROVE  /\ conn'[d].start <= now
                 /\ Live(conn'[d].seen)
                 /\ ~Barred(conn'[d].seen, conn'[d].start) /\ barredSince[conn'[d].user] # 0 =>
                       conn'[d].start < barredSince[conn'[d].user] + CacheTtl
                 /\ ~Stamped(conn'[d].seen) /\ stampedSince[conn'[d].user] # 0 =>
                       conn'[d].start < stampedSince[conn'[d].user] + CacheTtl
                 /\ ResetAnchor(conn'[d].seen) # ResetAnchor(row[conn'[d].user]) =>
                       conn'[d].start < windowSince[conn'[d].user] + CacheTtl
      <4>1. CASE d = c
        <5>1. /\ conn'[c].start = now /\ conn'[c].user = u
              /\ conn'[c].seen = ListUsers(i).rows[u]
          BY <2>1 DEF Resolve, TypeOK
        <5>2. Live(ListUsers(i).rows[u]) /\ now \in Nat
          BY <2>1 DEF Resolve, TypeOK
        <5>3. ~Barred(ListUsers(i).rows[u], now) /\ barredSince[u] # 0 =>
                 now < barredSince[u] + CacheTtl
          BY LookupRecent
        <5>4. ~Stamped(ListUsers(i).rows[u]) /\ stampedSince[u] # 0 =>
                 now < stampedSince[u] + CacheTtl
          BY LookupRecent
        <5>5. ResetAnchor(ListUsers(i).rows[u]) # ResetAnchor(row[u]) =>
                 now < windowSince[u] + CacheTtl
          BY LookupRecent
        <5> QED BY <4>1, <5>1, <5>2, <5>3, <5>4, <5>5
      <4>2. CASE d # c
        <5>1. conn'[d] = conn[d] /\ d \in LookedUp
          BY <2>1, <3>2, <4>2 DEF LookedUp, Resolve, TypeOK
        <5> QED BY <3>2, <5>1 DEF CopiesRecent, LookupsRecent
      <4> QED BY <4>1, <4>2
    <3>3. LookupsRecent'
      BY <2>1, <3>2 DEF LookupsRecent, Resolve, rowVars
    <3> QED BY <3>1, <3>3 DEF CopiesRecent
  <2>2. CASE Refuse(c) \/ DialFailed(c)
    <3>1. \A d \in LookedUp' : d \in LookedUp /\ conn'[d] = conn[d]
      BY <2>2 DEF LookedUp, Refuse, DialFailed, IdleConn, TypeOK
    <3> QED BY <1>1, <1>2, <1>3, <2>2, <3>1 DEF CopiesRecent, Refuse, DialFailed
  <2>3. CASE Dialed(c) \/ Close(c)
    <3>1. \A d \in LookedUp' : d \in LookedUp /\ conn'[d] = conn[d]
      BY <2>3 DEF LookedUp, Dialed, Close, TypeOK, ConnState
    <3> QED BY <1>1, <1>2, <1>3, <2>3, <3>1 DEF CopiesRecent, Dialed, Close
  <2>6. ASSUME NEW cycle \in Cycles, Dial(c, cycle) PROVE CopiesRecent'
    <3>1. \A d \in LookedUp' : d \in LookedUp /\ conn'[d] = conn[d]
      BY <2>6 DEF LookedUp, Dial, TypeOK, ConnState
    <3> QED BY <1>1, <1>2, <1>3, <2>6, <3>1 DEF CopiesRecent, Dial
  <2>7. CASE Admit(c)
    <3>1. \A d \in LookedUp' :
            /\ d \in LookedUp /\ conn'[d].user = conn[d].user
            /\ conn'[d].start = conn[d].start /\ conn'[d].seen = conn[d].seen
      BY <2>7 DEF LookedUp, Admit, TypeOK, ConnState
    <3> QED BY <1>1, <1>2, <1>3, <2>7, <3>1 DEF CopiesRecent, Admit
  <2>4. CASE BatchCommit(c)
    BY <2>4, StatementRecent DEF BatchCommit
  <2>5. CASE BatchFail(c)
    BY <1>1, <1>2, <1>3, <2>5 DEF CopiesRecent, BatchFail, LookedUp
  <2> QED BY <1>4, <2>1, <2>2, <2>3, <2>4, <2>5, <2>6, <2>7 DEF Connection
<1>5. CASE Upkeep
  <2>0. conn' = conn => LookedUp' = LookedUp
    BY DEF LookedUp
  <2>1. ASSUME NEW r \in Requests, MaintenanceLands(r) PROVE CopiesRecent'
    BY <2>1, StatementRecent DEF MaintenanceLands
  <2>2. ASSUME NEW r \in Requests, MaintenanceFails(r) PROVE CopiesRecent'
    BY <2>0, <1>1, <1>2, <1>3, <2>2 DEF CopiesRecent, MaintenanceFails
  <2>3. ASSUME NEW r \in Reads, NEW u \in Users, NEW i \in Isolates,
               NEW cycle \in Cycles, SubRead(r, u, i, cycle)
        PROVE  CopiesRecent'
    BY <2>0, <1>3, <2>3, ReadStepRecent DEF CopiesRecent, SubRead
  <2> QED BY <1>5, <2>1, <2>2, <2>3 DEF Upkeep
<1>6. ASSUME NEW i \in Isolates, Panel(i) PROVE CopiesRecent'
  <2>1. CASE ReadList(i)
    BY <1>3, <2>1, ReadStepRecent DEF CopiesRecent, ReadList, LookedUp
  <2>2. ASSUME NEW u \in Users, NEW n \in NewRows, CreateUser(u, i, n)
        PROVE  CopiesRecent'
    BY <2>2, StatementRecent DEF CreateUser
  <2>3. ASSUME NEW u \in Users, DeleteUser(u, i) PROVE CopiesRecent'
    BY <2>3, StatementRecent DEF DeleteUser
  <2>4. ASSUME NEW u \in Users, NEW p \in Patches, PatchUser(u, i, p)
        PROVE  CopiesRecent'
    BY <2>4, StatementRecent DEF PatchUser
  <2> QED BY <1>6, <2>1, <2>2, <2>3, <2>4 DEF Panel
<1>7. ASSUME NEW i \in Isolates, Evict(i) PROVE CopiesRecent'
  <2>1. \A d \in LookedUp' : d \in LookedUp /\ conn'[d] = conn[d]
    BY <1>7 DEF LookedUp, Evict, IdleConn, TypeOK, ConnState
  <2>2. ListsRecent'
    <3>1. UNCHANGED <<now, row, barredSince, stampedSince, windowSince>> /\ now \in Nat
      BY <1>7 DEF Evict, rowVars, TypeOK
    <3>2. \A j \in Isolates : listCache'[j] = IF j = i THEN NoList ELSE listCache[j]
      BY <1>7 DEF Evict, TypeOK
    <3>3. NoList.at = 0
      BY DEF NoList
    <3> QED BY <3>1, <3>2, <3>3 DEF CopiesRecent, ListsRecent
  <2> QED BY <1>1, <1>3, <1>7, <2>1, <2>2 DEF CopiesRecent, Evict
<1>8. CASE Tick
  BY <1>8, TickRecent
<1>9. CASE UNCHANGED vars
  BY <1>1, <1>2, <1>3, <1>9 DEF CopiesRecent, LookedUp, vars, rowVars
<1> QED BY <1>4, <1>5, <1>6, <1>7, <1>8, <1>9 DEF Next

(* A copy that passes the verdict did not show its user barred before.  *)
LEMMA AllowedNotBarred ==
    ASSUME NEW u \in Row, NEW t \in Nat, NEW s \in Nat, s <= t,
           Live(u), IsUserAllowed(u, t)
    PROVE  ~Barred(u, s)
BY StaysBarred DEF Barred

(* The step from a recent copy to a verdict.  *)
LEMMA VerdictStep ==
    TypeOK /\ Attached /\ CopiesRecent /\ [Next]_vars =>
        [\A c \in Conns :
           conn[c].phase = "resolved" /\ conn'[c].phase = "allowed" =>
              LET since == barredSince[conn[c].user] IN
              since = 0 \/ conn[c].start < since + CacheTtl]_vars
<1> SUFFICES ASSUME TypeOK, Attached, CopiesRecent, [Next]_vars,
                    NEW c \in Conns,
                    conn[c].phase = "resolved", conn'[c].phase = "allowed"
             PROVE  barredSince[conn[c].user] = 0 \/
                    conn[c].start < barredSince[conn[c].user] + CacheTtl
  OBVIOUS
<1>1. IsUserAllowed(conn[c].seen, now)
  <2>1. ASSUME NEW d \in Conns, Connection(d) PROVE IsUserAllowed(conn[c].seen, now)
    <3>1. CASE Admit(d)
      BY <3>1 DEF Admit, TypeOK
    <3>2. CASE ~Admit(d)
      <4>1. conn'[c] = conn[c] \/ conn'[c].phase # "allowed"
        BY <2>1, <3>2 DEF Connection, Resolve, Refuse, Dial, Dialed, DialFailed, IdleConn,
           Close, BatchCommit, BatchFail, TypeOK, ConnState
      <4> QED BY <4>1
    <3> QED BY <3>1, <3>2
  <2>2. ASSUME NEW i \in Isolates, Evict(i) PROVE FALSE
    BY <2>2 DEF Evict, IdleConn, TypeOK, ConnState
  <2>3. CASE conn' = conn
    BY <2>3
  <2>4. Upkeep \/ Tick \/ UNCHANGED vars \/ (\E i \in Isolates : Panel(i)) => conn' = conn
    BY DEF Upkeep, SubRead, MaintenanceLands, MaintenanceFails, Tick, vars,
       Panel, ReadList, CreateUser, DeleteUser, PatchUser
  <2> QED BY <2>1, <2>2, <2>3, <2>4 DEF Next
<1>2. /\ conn[c].seen \in Row /\ conn[c].start \in Nat /\ now \in Nat
      /\ conn[c].start <= now /\ Live(conn[c].seen)
  BY DEF TypeOK, ConnState, CopiesRecent, LookupsRecent, LookedUp
<1>3. ~Barred(conn[c].seen, conn[c].start)
  BY <1>1, <1>2, AllowedNotBarred
<1> QED BY <1>3 DEF CopiesRecent, LookupsRecent, LookedUp

(***************************************************************************)
(* A user D1 bars is admitted nowhere on a lookup made CacheTtl later.     *)
(***************************************************************************)
THEOREM BarredWithinTtl == Spec => LateAdmission
<1>1. Init => CopiesRecent
  BY AccountingAssumption DEF Init, CopiesRecent, BarsTracked, ListsRecent,
     LookupsRecent, LookedUp, NoList, IdleConn
<1> QED BY <1>1, TypeCorrect, CopiesRecentStep, VerdictStep, PTL
    DEF Spec, LateAdmission

-----------------------------------------------------------------------------
(* What a request starts, and on what: a lookup of its own, or the cached  *)
(* list.  No other step gives an idle request a statement to send.         *)
LEMMA JobStarts ==
    ASSUME TypeOK, [Next]_vars, NEW r \in Requests, job[r] = NoJob, job'[r] # NoJob
    PROVE  /\ UNCHANGED <<now, row, stampedSince, windowSince>>
           /\ \E cycle \in Cycles :
                \/ /\ r \in Conns /\ r \in LookedUp
                   /\ StartMaintenance(r, conn[r].user, conn[r].iso, conn[r].seen, cycle)
                \/ /\ r \notin Conns
                   /\ \E u \in Users, i \in Isolates :
                        StartMaintenance(r, u, i, ListUsers(i).rows[u], cycle)
<1>1. ASSUME NEW c \in Conns, NEW cycle \in Cycles, Dial(c, cycle)
      PROVE  r = c /\ r \in LookedUp /\ UNCHANGED <<now, rowVars>>
  BY <1>1 DEF Dial, StartMaintenance, TypeOK, LookedUp
<1>2. ASSUME NEW s \in Reads, NEW u \in Users, NEW i \in Isolates,
             NEW cycle \in Cycles, SubRead(s, u, i, cycle)
      PROVE  r = s /\ r \notin Conns /\ UNCHANGED <<now, rowVars>>
  BY <1>2, AccountingAssumption DEF SubRead, StartMaintenance, TypeOK
<1>3. ASSUME NEW s \in Requests, MaintenanceLands(s) \/ MaintenanceFails(s) PROVE FALSE
  BY <1>3 DEF MaintenanceLands, MaintenanceFails, TypeOK
<1>4. ASSUME NEW i \in Isolates, Evict(i) PROVE FALSE
  <2>1. job'[r] = IF job[r].iso = i THEN [job[r] EXCEPT !.iso = NoIso] ELSE job[r]
    BY <1>4 DEF Evict
  <2>2. NoJob.iso = NoIso /\ NoIso # i
    BY AccountingAssumption DEF NoJob
  <2> QED BY <2>1, <2>2
<1>5. ASSUME NEW c \in Conns, Connection(c), ~(\E cycle \in Cycles : Dial(c, cycle))
      PROVE  FALSE
  BY <1>5 DEF Connection, Resolve, Refuse, Admit, Dialed, DialFailed, Close,
     BatchCommit, BatchFail
<1>6. ~(Tick \/ UNCHANGED vars \/ \E i \in Isolates : Panel(i))
  BY DEF Tick, vars, Panel, ReadList, CreateUser, DeleteUser, PatchUser
<1>7. \/ \E c \in Conns, cycle \in Cycles : Dial(c, cycle)
      \/ \E s \in Reads, u \in Users, i \in Isolates, cycle \in Cycles :
            SubRead(s, u, i, cycle)
  BY <1>3, <1>4, <1>5, <1>6 DEF Next, Upkeep
<1>8. CASE \E c \in Conns, cycle \in Cycles : Dial(c, cycle)
  <2>1. PICK c \in Conns, cycle \in Cycles : Dial(c, cycle)
    BY <1>8
  <2> QED BY <1>1, <2>1 DEF Dial, rowVars
<1>9. CASE \E s \in Reads, u \in Users, i \in Isolates, cycle \in Cycles :
              SubRead(s, u, i, cycle)
  <2>1. PICK s \in Reads, u \in Users, i \in Isolates, cycle \in Cycles :
              SubRead(s, u, i, cycle)
    BY <1>9
  <2> QED BY <1>2, <2>1 DEF SubRead, rowVars
<1> QED BY <1>7, <1>8, <1>9

(* The step from a recent copy to a stamp.  *)
LEMMA StampStep ==
    TypeOK /\ Attached /\ CopiesRecent /\ [Next]_vars =>
        [\A r \in Requests :
           job[r] = NoJob /\ job'[r].stamp =>
              LET since == stampedSince[job'[r].user]
                  asked == IF r \in Conns THEN conn[r].start ELSE now
              IN  since = 0 \/ asked < since + CacheTtl]_vars
<1> SUFFICES ASSUME TypeOK, Attached, CopiesRecent, [Next]_vars,
                    NEW r \in Requests, job[r] = NoJob, job'[r].stamp
             PROVE  LET since == stampedSince[job'[r].user]
                        asked == IF r \in Conns THEN conn[r].start ELSE now
                    IN  since = 0 \/ asked < since + CacheTtl
  OBVIOUS
<1>1. job'[r] # NoJob
  BY DEF NoJob
<1>2. ASSUME NEW cycle \in Cycles, r \in LookedUp, r \in Conns,
             StartMaintenance(r, conn[r].user, conn[r].iso, conn[r].seen, cycle)
      PROVE  stampedSince[job'[r].user] = 0 \/
             conn[r].start < stampedSince[job'[r].user] + CacheTtl
  <2>1. job'[r].user = conn[r].user /\ ~Stamped(conn[r].seen)
    BY <1>2 DEF StartMaintenance, Maintenance, Stamped, TypeOK
  <2> QED BY <1>2, <2>1 DEF CopiesRecent, LookupsRecent
<1>3. ASSUME NEW cycle \in Cycles, NEW u \in Users, NEW i \in Isolates,
             StartMaintenance(r, u, i, ListUsers(i).rows[u], cycle)
      PROVE  stampedSince[job'[r].user] = 0 \/ now < stampedSince[job'[r].user] + CacheTtl
  <2>1. job'[r].user = u /\ ~Stamped(ListUsers(i).rows[u])
    BY <1>3 DEF StartMaintenance, Maintenance, Stamped, TypeOK
  <2>2. stampedSince[u] # 0 => now < stampedSince[u] + CacheTtl
    BY <2>1, LookupRecent
  <2> QED BY <2>1, <2>2
<1> QED BY <1>1, <1>2, <1>3, JobStarts

(***************************************************************************)
(* First use is stamped nowhere on a lookup made CacheTtl after it was.    *)
(***************************************************************************)
THEOREM StampedWithinTtl == Spec => LateStamp
<1>1. Init => CopiesRecent
  BY AccountingAssumption DEF Init, CopiesRecent, BarsTracked, ListsRecent,
     LookupsRecent, LookedUp, NoList, IdleConn
<1> QED BY <1>1, TypeCorrect, CopiesRecentStep, StampStep, PTL DEF Spec, LateStamp

(* What a reset was decided on: a copy of the window that is there, or one *)
(* of a window before it.                                                  *)
LEMMA ResetDecided ==
    ASSUME NEW copy, NEW cycle \in Cycles, NEW r \in Requests, NEW u, NEW i,
           job \in [Requests -> Job], StartMaintenance(r, u, i, copy, cycle),
           job'[r].reset
    PROVE  job'[r].user = u /\ ResetDue(copy, now, CycleLen)
<1>1. job'[r].user = u /\ ResetDue(copy, now, cycle)
  BY DEF StartMaintenance, Maintenance
<1> QED BY <1>1 DEF ResetDue, Cycles

LEMMA SameWindow ==
    ASSUME NEW r, NEW s, ResetAnchor(r) = ResetAnchor(s), ResetDue(r, now, CycleLen)
    PROVE  ResetDue(s, now, CycleLen)
BY DEF ResetDue

LEMMA ResetStep ==
    TypeOK /\ Attached /\ CopiesRecent /\ [Next]_vars =>
        [\A r \in Requests :
           job[r] = NoJob /\ job'[r].reset =>
              LET u     == job'[r].user
                  asked == IF r \in Conns THEN conn[r].start ELSE now
              IN  \/ ResetDue(row[u], now, CycleLen)
                  \/ asked < windowSince[u] + CacheTtl]_vars
<1> SUFFICES ASSUME TypeOK, Attached, CopiesRecent, [Next]_vars,
                    NEW r \in Requests, job[r] = NoJob, job'[r].reset
             PROVE  LET u     == job'[r].user
                        asked == IF r \in Conns THEN conn[r].start ELSE now
                    IN  \/ ResetDue(row[u], now, CycleLen)
                        \/ asked < windowSince[u] + CacheTtl
  OBVIOUS
<1>1. job'[r] # NoJob /\ job \in [Requests -> Job]
  BY DEF NoJob, TypeOK
<1>2. ASSUME NEW cycle \in Cycles, r \in LookedUp, r \in Conns,
             StartMaintenance(r, conn[r].user, conn[r].iso, conn[r].seen, cycle)
      PROVE  \/ ResetDue(row[job'[r].user], now, CycleLen)
             \/ conn[r].start < windowSince[job'[r].user] + CacheTtl
  <2>1. job'[r].user = conn[r].user /\ ResetDue(conn[r].seen, now, CycleLen)
    BY <1>1, <1>2, ResetDecided
  <2> QED BY <1>2, <2>1, SameWindow DEF CopiesRecent, LookupsRecent
<1>3. ASSUME NEW cycle \in Cycles, NEW u \in Users, NEW i \in Isolates,
             StartMaintenance(r, u, i, ListUsers(i).rows[u], cycle)
      PROVE  \/ ResetDue(row[job'[r].user], now, CycleLen)
             \/ now < windowSince[job'[r].user] + CacheTtl
  <2>1. job'[r].user = u /\ ResetDue(ListUsers(i).rows[u], now, CycleLen)
    BY <1>1, <1>3, ResetDecided
  <2> QED BY <2>1, SameWindow, LookupRecent
<1> QED BY <1>1, <1>2, <1>3, JobStarts

(***************************************************************************)
(* A window that began is reset early on no lookup made CacheTtl later.    *)
(***************************************************************************)
THEOREM ResetWithinTtl == Spec => LateReset
<1>1. Init => CopiesRecent
  BY AccountingAssumption DEF Init, CopiesRecent, BarsTracked, ListsRecent,
     LookupsRecent, LookedUp, NoList, IdleConn
<1> QED BY <1>1, TypeCorrect, CopiesRecentStep, ResetStep, PTL DEF Spec, LateReset

-----------------------------------------------------------------------------
(***************************************************************************)
(* MaintenanceNeverBars.  A stamp leaves a day or more, and a reset leaves *)
(* nothing counted; a request decides before its statement lands.          *)
(***************************************************************************)
LEMMA DayOrMore ==
    ASSUME NEW d \in Nat, d > 0
    PROVE  d * DayLen >= DayLen /\ d * DayLen \in Nat
<1>1. DayLen \in Nat
  BY UserRulesAssumption
<1>2. PICK e \in Nat : d = e + 1
  <2>1. d - 1 \in Nat /\ d = (d - 1) + 1
    OBVIOUS
  <2> QED BY <2>1
<1>3. d * DayLen = e * DayLen + DayLen
  BY <1>1, <1>2
<1>4. e * DayLen \in Nat
  BY <1>1
<1> QED BY <1>1, <1>3, <1>4

LEMMA MaintainedAllowed ==
    ASSUME NEW r \in Row, NEW m, m.at \in Nat, m.stamp \in BOOLEAN,
           m.anchor \in BOOLEAN, m.reset \in BOOLEAN,
           NEW t \in Nat, t <= m.at + DayLen, ~Barred(r, t)
    PROVE  ~Barred(Maintained(r, m), t)
<1> DEFINE n == Maintained(r, m)
<1>1. /\ n.status = r.status /\ n.enabled = r.enabled /\ n.quota = r.quota
      /\ n.expiryAt = r.expiryAt /\ n.expiryDays = r.expiryDays
      /\ n.firstUsed = IF m.stamp THEN m.at ELSE r.firstUsed
      /\ n.used = IF m.reset THEN {} ELSE r.used
  BY DEF Maintained, Row
<1> HIDE DEF n
<1>2. Live(n) /\ n.enabled
  BY <1>1 DEF Barred, Live, IsUserAllowed
<1>3. ~OverQuota(n)
  <2>1. r.quota \in Nat /\ Cardinality({}) = 0
    BY FS_EmptySet DEF Row
  <2>2. ~OverQuota(r)
    BY DEF Barred, IsUserAllowed
  <2>3. CASE m.reset
    BY <1>1, <2>1, <2>3 DEF OverQuota
  <2>4. CASE ~m.reset
    BY <1>1, <2>2, <2>4 DEF OverQuota
  <2> QED BY <2>3, <2>4
<1>4. ~Expired(n, t)
  <2>1. ~Expired(r, t)
    BY DEF Barred, IsUserAllowed
  <2>2. CASE n.expiryDays > 0 /\ m.stamp
    <3>1. r.expiryDays \in Nat /\ DayLen \in Nat
      BY UserRulesAssumption DEF Row
    <3>2. n.expiryDays * DayLen >= DayLen /\ n.expiryDays * DayLen \in Nat
      BY <1>1, <2>2, <3>1, DayOrMore
    <3>3. PICK span \in Nat : span = n.expiryDays * DayLen
      BY <3>2
    <3>4. EffectiveExpiry(n) = 0 \/ EffectiveExpiry(n) = m.at + span
      BY <1>1, <2>2, <3>3 DEF EffectiveExpiry
    <3>5. t <= m.at + span
      BY <3>1, <3>2, <3>3
    <3> QED BY <3>4, <3>5 DEF Expired
  <2>3. CASE ~(n.expiryDays > 0 /\ m.stamp)
    <3>1. EffectiveExpiry(n) = EffectiveExpiry(r)
      BY <1>1, <2>3 DEF EffectiveExpiry
    <3> QED BY <2>1, <3>1 DEF Expired
  <2> QED BY <2>2, <2>3
<1>5. IsUserAllowed(n, t)
  BY <1>2, <1>3, <1>4 DEF IsUserAllowed
<1>6. ~Barred(n, t)
  BY <1>2, <1>5 DEF Barred
<1> QED BY <1>6 DEF n

(* What a request has decided, it decided some time ago: without this an   *)
(* eviction could not be told from the end of a request.                   *)
JobsTimely ==
    \A r \in Requests : job[r] # NoJob => job[r].at # 0 /\ job[r].at <= now

LEMMA JobsTimelyStep == TypeOK /\ JobsTimely /\ [Next]_vars => JobsTimely'
<1> SUFFICES ASSUME TypeOK, JobsTimely, [Next]_vars PROVE JobsTimely'
  OBVIOUS
<1>1. now \in Nat /\ now # 0 /\ job \in [Requests -> Job]
  BY DEF TypeOK
<1>2. ASSUME now' = now, \A r \in Requests : \/ job'[r] = job[r] \/ job'[r] = NoJob
                                             \/ job'[r].at = now
      PROVE  JobsTimely'
  BY <1>1, <1>2 DEF JobsTimely
<1>3. ASSUME NEW c \in Conns, Connection(c) PROVE JobsTimely'
  <2>1. ASSUME NEW cycle \in Cycles, Dial(c, cycle) PROVE JobsTimely'
    <3>1. \A r \in Requests : job'[r] = job[r] \/ job'[r].at = now
      BY <1>1, <2>1 DEF Dial, StartMaintenance, Maintenance
    <3> QED BY <1>2, <2>1, <3>1 DEF Dial
  <2>2. CASE ~(\E cycle \in Cycles : Dial(c, cycle))
    <3>1. now' = now /\ job' = job
      BY <1>3, <2>2 DEF Connection, Resolve, Refuse, Admit, Dialed, DialFailed, Close,
         BatchCommit, BatchFail
    <3> QED BY <1>2, <3>1
  <2> QED BY <2>1, <2>2
<1>4. CASE Upkeep
  <2>1. ASSUME NEW r \in Reads, NEW u \in Users, NEW i \in Isolates,
               NEW cycle \in Cycles, SubRead(r, u, i, cycle)
        PROVE  JobsTimely'
    <3>1. \A s \in Requests : job'[s] = job[s] \/ job'[s].at = now
      BY <1>1, <2>1 DEF SubRead, StartMaintenance, Maintenance
    <3> QED BY <1>2, <2>1, <3>1 DEF SubRead
  <2>2. ASSUME NEW r \in Requests, MaintenanceLands(r) \/ MaintenanceFails(r)
        PROVE  JobsTimely'
    <3>1. \A s \in Requests : job'[s] = job[s] \/ job'[s] = NoJob
      BY <1>1, <2>2 DEF MaintenanceLands, MaintenanceFails
    <3> QED BY <1>2, <2>2, <3>1 DEF MaintenanceLands, MaintenanceFails
  <2> QED BY <1>4, <2>1, <2>2 DEF Upkeep
<1>5. ASSUME NEW i \in Isolates, Panel(i) PROVE JobsTimely'
  <2>1. now' = now /\ job' = job
    BY <1>5 DEF Panel, ReadList, CreateUser, DeleteUser, PatchUser
  <2> QED BY <1>2, <2>1
<1>6. ASSUME NEW i \in Isolates, Evict(i) PROVE JobsTimely'
  <2>1. ASSUME NEW r \in Requests
        PROVE  job'[r].at = job[r].at /\ (job[r] = NoJob => job'[r] = NoJob)
    <3>1. job'[r] = IF job[r].iso = i THEN [job[r] EXCEPT !.iso = NoIso] ELSE job[r]
      BY <1>6 DEF Evict
    <3>2. job[r] \in Job
      BY <1>1
    <3>3. job'[r].at = job[r].at
      BY <3>1, <3>2 DEF Job
    <3>4. NoJob.iso = NoIso /\ NoIso # i
      BY AccountingAssumption DEF NoJob
    <3>5. ASSUME job[r] = NoJob PROVE job'[r] = NoJob
      BY <3>1, <3>4, <3>5
    <3> QED BY <3>3, <3>5
  <2>2. now' = now
    BY <1>6 DEF Evict
  <2> QED BY <2>1, <2>2 DEF JobsTimely
<1>7. CASE Tick
  <2>1. now' = now + 1 /\ job' = job
    BY <1>7 DEF Tick
  <2>2. \A r \in Requests : job[r].at \in Nat
    BY <1>1 DEF Job
  <2> QED BY <1>1, <2>1, <2>2 DEF JobsTimely
<1>8. CASE UNCHANGED vars
  BY <1>2, <1>8 DEF vars
<1> QED BY <1>3, <1>4, <1>5, <1>6, <1>7, <1>8 DEF Next

(* How a request's maintenance ends: its statement lands, or fails.  *)
LEMMA MaintenanceEnds ==
    ASSUME TypeOK, JobsTimely, [Next]_vars, NEW r \in Requests,
           job[r] # NoJob, job'[r] = NoJob
    PROVE  MaintenanceLands(r) \/ MaintenanceFails(r)
<1>1. now # 0 /\ job \in [Requests -> Job] /\ job[r].at # 0 /\ NoJob.at = 0
  BY DEF TypeOK, JobsTimely, NoJob
<1>2. ASSUME NEW c \in Conns, Connection(c) PROVE FALSE
  <2>1. ASSUME NEW cycle \in Cycles, Dial(c, cycle) PROVE FALSE
    BY <1>1, <2>1 DEF Dial, StartMaintenance, Maintenance
  <2>2. CASE ~(\E cycle \in Cycles : Dial(c, cycle))
    BY <1>2, <2>2 DEF Connection, Resolve, Refuse, Admit, Dialed, DialFailed, Close,
       BatchCommit, BatchFail
  <2> QED BY <2>1, <2>2
<1>3. ASSUME NEW s \in Reads, NEW u \in Users, NEW i \in Isolates,
             NEW cycle \in Cycles, SubRead(s, u, i, cycle)
      PROVE  FALSE
  BY <1>1, <1>3 DEF SubRead, StartMaintenance, Maintenance
<1>4. ASSUME NEW s \in Requests, s # r, MaintenanceLands(s) \/ MaintenanceFails(s)
      PROVE  FALSE
  BY <1>1, <1>4 DEF MaintenanceLands, MaintenanceFails
<1>5. ASSUME NEW i \in Isolates, Panel(i) PROVE FALSE
  BY <1>5 DEF Panel, ReadList, CreateUser, DeleteUser, PatchUser
<1>6. ASSUME NEW i \in Isolates, Evict(i) PROVE FALSE
  <2>1. job'[r].at = job[r].at
    BY <1>1, <1>6 DEF Evict, Job
  <2> QED BY <1>1, <2>1
<1>7. Tick \/ UNCHANGED vars => FALSE
  BY DEF Tick, vars
<1> QED BY <1>2, <1>3, <1>4, <1>5, <1>6, <1>7 DEF Next, Upkeep

LEMMA MaintenanceStep ==
    TypeOK /\ JobsTimely /\ [Next]_vars =>
        [\A r \in Requests :
           job[r] # NoJob /\ job'[r] = NoJob /\ now <= job[r].at + DayLen =>
              \A u \in Users : ~Barred(row[u], now) => ~Barred(row'[u], now')]_vars
<1> SUFFICES ASSUME TypeOK, JobsTimely, [Next]_vars, NEW r \in Requests,
                    job[r] # NoJob, job'[r] = NoJob, now <= job[r].at + DayLen,
                    NEW u \in Users, ~Barred(row[u], now)
             PROVE  ~Barred(row'[u], now')
  OBVIOUS
<1>1. CASE MaintenanceFails(r)
  BY <1>1 DEF MaintenanceFails, rowVars
<1>2. CASE MaintenanceLands(r)
  <2>1. now' = now /\ (row'[u] = row[u] \/ row'[u] = Maintained(row[u], job[r]))
    BY <1>2 DEF MaintenanceLands
  <2>2. /\ row[u] \in Row /\ now \in Nat /\ job[r].at \in Nat
        /\ job[r].stamp \in BOOLEAN /\ job[r].anchor \in BOOLEAN
        /\ job[r].reset \in BOOLEAN
    BY DEF TypeOK, Job
  <2>3. ~Barred(Maintained(row[u], job[r]), now)
    BY <2>2, MaintainedAllowed
  <2> QED BY <2>1, <2>3
<1> QED BY <1>1, <1>2, MaintenanceEnds

(***************************************************************************)
(* No maintenance statement that lands within a day of its decision turns  *)
(* a user away whom D1 would have let in.                                  *)
(***************************************************************************)
THEOREM MaintenanceBarsNobody == Spec => []JobsTimely /\ MaintenanceNeverBars
<1>1. Init => JobsTimely
  BY DEF Init, JobsTimely
<1> QED BY <1>1, TypeCorrect, JobsTimelyStep, MaintenanceStep, PTL
    DEF Spec, MaintenanceNeverBars
=============================================================================
