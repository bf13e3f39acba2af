--------------------------- MODULE PrefixdProofs ---------------------------
(* Theorems about Prefixd for every number of requests, scopes and         *)
(* customers, every bound and every set of faults.                         *)
EXTENDS Prefixd, TLAPS

(* The handlers' calls to GoBGP.                                           *)
Announce(r) == BanAnnounce(r) \/ CreateAnnounce(r)
WithdrawRib(r) == UnbanRemove(r) \/ WithdrawRemove(r)

-----------------------------------------------------------------------------
(* Types: the inductive invariant adds to TypeOK that whoever is at a step *)
(* that uses its input, its hand or its current row has one.               *)

HandSteps == {"extend", "announce", "insert", "reject", "withdrawRib", "update"}

InHand ==
  /\ \A r \in Reqs : pc[r] # "new" => input[r] \in Input
  /\ \A r \in Reqs : pc[r] \in HandSteps => hand[r] \in Hand
  /\ \A p \in Pops : rpc[p] = "markExpired" => cur[p] \in Hand

TypeInv == TypeOK /\ InHand

(* Deadlines stay within the type: extend_ttl never passes now + ttl.      *)
LEMMA ExtendedType ==
  ASSUME NEW row \in Row, NEW ttl \in 0..MaxTtl, now \in 0..MaxTime
  PROVE  Extended(row, ttl) \in Row
BY ConstantsAssumption DEF Extended, Later, Row

LEMMA NewRowType ==
  ASSUME NEW i \in Input, now \in 0..MaxTime
  PROVE  NewRow(i) \in Row
BY ConstantsAssumption DEF NewRow, Row, Input, Statuses, LiveStatuses

LEMMA StatusType ==
  ASSUME NEW row \in Row, NEW st \in Statuses, NEW w \in {"policy", "operator", "unban"}
  PROVE  /\ [row EXCEPT !.status = st] \in Row
         /\ [row EXCEPT !.status = st, !.why = w] \in Row
BY DEF Row

LEMMA InitType == Init => TypeInv
BY ConstantsAssumption
DEF Init, TypeInv, TypeOK, InHand, HandSteps, Steps, Replies

(* Handing a row on keeps the types: the shapes of Goto, Take and Write.   *)
LEMMA WriteType ==
  ASSUME TypeOK, NEW m \in Reqs, NEW row \in Row, Write(m, row)
  PROVE  rows' \in [Reqs -> Row \cup {NoRow}]
BY DEF TypeOK, Write

LEMMA SnapshotType ==
  ASSUME TypeOK, NEW ms \in SUBSET Reqs, \A m \in ms : Stored(m)
  PROVE  Snapshot(ms) \in SUBSET Hand
BY DEF TypeOK, Snapshot, Hand, Stored

LEMMA RibType ==
  ASSUME TypeOK, NEW p \in Pops, NEW s \in Scopes, NEW a \in Acts, NEW by \in Reqs \cup {Sync}
  PROVE  /\ Announced(p, s, a, by) \in [Pops -> [Scopes -> Rule \cup {NoRule}]]
         /\ Removed(p, s) \in [Pops -> [Scopes -> Rule \cup {NoRule}]]
BY DEF TypeOK, Announced, Removed, Rule

LEMMA FaultType == ASSUME TypeOK, NEW f, Fault(f) PROVE faults' \in 0..MaxFaults
BY ConstantsAssumption DEF TypeOK, Fault

THEOREM TypeStep == TypeInv /\ [Next]_vars => TypeInv'
<1> SUFFICES ASSUME TypeInv, [Next]_vars PROVE TypeInv'
  OBVIOUS
<1> USE DEF TypeInv, InHand, HandSteps, Steps, Replies
<1> USE DEF db, handlers, loop, Goto, Take, Reply, Receive, RGoto, Todo, NoFault
<1>1. ASSUME NEW r \in Reqs, NEW i \in Inputs,
             BanArrive(r, i) \/ CreateArrive(r, i) \/ UnbanArrive(r, i) \/ WithdrawArrive(r, i)
      PROVE  TypeInv'
  <2>0. i \in Input BY ConstantsAssumption
  <2>1. CASE BanArrive(r, i)
    <3>1. faults' \in 0..MaxFaults BY <2>1, FaultType DEF BanArrive, TypeOK
    <3>2. QED BY <2>0, <2>1, <3>1 DEF BanArrive, TypeOK
  <2>2. CASE CreateArrive(r, i)
    BY <2>0, <2>2 DEF CreateArrive, TypeOK
  <2>3. CASE UnbanArrive(r, i)
    <3>1. CASE pc' = [pc EXCEPT ![r] = "ignored"] /\ hand' = [hand EXCEPT ![r] = NoHand]
                 /\ UNCHANGED events
      BY <2>0, <2>3, <3>1 DEF UnbanArrive, TypeOK
    <3>2. ASSUME NEW e \in BanEvents(i.key), Live(e),
                 hand' = [hand EXCEPT ![r] = [id |-> e, row |-> rows[e]]],
                 pc' = [pc EXCEPT ![r] = "withdrawRib"],
                 events' = IF KeyFree(i.key) THEN events \cup {r} ELSE events
          PROVE  TypeInv'
      <4>1. [id |-> e, row |-> rows[e]] \in Hand
        BY <3>2 DEF TypeOK, Hand, Live, Stored, BanEvents
      <4>2. events' \subseteq Reqs BY <3>2 DEF TypeOK
      <4>3. QED BY <2>0, <2>3, <3>2, <4>1, <4>2 DEF UnbanArrive, TypeOK
    <3>3. QED BY <2>3, <3>1, <3>2 DEF UnbanArrive
  <2>4. CASE WithdrawArrive(r, i)
    <3>1. PICK m \in Reqs :
            /\ Stored(m)
            /\ \/ /\ hand' = [hand EXCEPT ![r] = [id |-> m, row |-> rows[m]]]
                  /\ pc' = [pc EXCEPT ![r] = "withdrawRib"]
               \/ /\ hand' = [hand EXCEPT ![r] = NoHand]
                  /\ pc' = [pc EXCEPT ![r] = "refused"]
      BY <2>4 DEF WithdrawArrive
    <3>2. [id |-> m, row |-> rows[m]] \in Hand
      BY <3>1 DEF TypeOK, Hand, Stored
    <3>3. hand' \in [Reqs -> Hand \cup {NoHand}] BY <3>1, <3>2 DEF TypeOK
    <3>4. pc' \in [Reqs -> {"new"} \cup Steps \cup Replies]
      BY <3>1 DEF TypeOK
    <3>5. input' = [input EXCEPT ![r] = i] BY <2>4 DEF WithdrawArrive
    <3>6. \A q \in Reqs : pc'[q] \in HandSteps => hand'[q] \in Hand
      BY <3>1, <3>2 DEF TypeOK
    <3>7. TypeOK' BY <2>0, <2>4, <3>3, <3>4 DEF WithdrawArrive, TypeOK
    <3>8. QED BY <2>0, <2>4, <3>1, <3>5, <3>6, <3>7 DEF WithdrawArrive, TypeOK
  <2>5. QED BY <1>1, <2>1, <2>2, <2>3, <2>4
<1>2. ASSUME NEW r \in Reqs, Serve(r)
      PROVE  TypeInv'
  <2>1. CASE BanStore(r)
    BY <2>1 DEF BanStore, TypeOK
  <2>2. CASE BanLookup(r)
    <3>1. faults' \in 0..MaxFaults BY <2>2, FaultType DEF BanLookup, TypeOK
    <3>2. CASE pc' = [pc EXCEPT ![r] = "guard"] /\ UNCHANGED hand
      BY <2>2, <3>1, <3>2 DEF BanLookup, TypeOK
    <3>3. ASSUME NEW m \in InScope(input[r]),
                 Take(r, [id |-> m, row |-> Extended(rows[m], input[r].ttl)]), Goto(r, "extend")
          PROVE  TypeInv'
      <4>1. /\ m \in Reqs /\ rows[m] \in Row /\ input[r] \in Input
        BY <2>2 DEF BanLookup, TypeOK, InScope, Live, Stored
      <4>2. Extended(rows[m], input[r].ttl) \in Row
        BY <4>1, ExtendedType DEF Input, TypeOK
      <4>3. [id |-> m, row |-> Extended(rows[m], input[r].ttl)] \in Hand
        BY <4>1, <4>2 DEF Hand
      <4>4. QED BY <2>2, <3>1, <3>3, <4>3 DEF BanLookup, TypeOK
    <3>4. QED BY <2>2, <3>2, <3>3 DEF BanLookup
  <2>3. CASE BanExtend(r)
    <3>1. hand[r].id \in Reqs /\ hand[r].row \in Row BY <2>3 DEF BanExtend, Hand
    <3>2. rows' \in [Reqs -> Row \cup {NoRow}] BY <2>3, <3>1, WriteType DEF BanExtend, TypeOK
    <3>3. QED BY <2>3, <3>2 DEF BanExtend, TypeOK
  <2>4. CASE Guard(r)
    <3>1. faults' \in 0..MaxFaults BY <2>4, FaultType DEF Guard, TypeOK
    <3>2. [id |-> r, row |-> NewRow(input[r])] \in Hand
      BY <2>4, NewRowType DEF Guard, Hand, TypeOK
    <3>3. QED BY <2>4, <3>1, <3>2 DEF Guard, TypeOK
  <2>5. CASE Announce(r)
    <3>1. hand[r].row \in Row /\ input[r] \in Input
      BY <2>5 DEF Announce, BanAnnounce, CreateAnnounce, Hand
    <3>2. Announced(input[r].pop, hand[r].row.scope, hand[r].row.act, r)
            \in [Pops -> [Scopes -> Rule \cup {NoRule}]]
      BY <3>1, RibType DEF Row, Input
    <3>3. rib' \in [Pops -> [Scopes -> Rule \cup {NoRule}]] /\ faults' \in 0..MaxFaults
      BY <2>5, <3>2, FaultType
         DEF Announce, BanAnnounce, CreateAnnounce, NoCall, CallOk, CallFails, TypeOK
    <3>4. CASE BanAnnounce(r)
      BY <3>3, <3>4 DEF BanAnnounce, TypeOK
    <3>5. CASE CreateAnnounce(r)
      BY <3>3, <3>5 DEF CreateAnnounce, TypeOK
    <3>6. QED BY <2>5, <3>4, <3>5 DEF Announce
  <2>6. CASE Insert(r)
    <3>1. Activated(hand[r].row) \in Row
      BY <2>6, StatusType DEF Insert, Activated, Hand, Statuses, LiveStatuses
    <3>2. rows' \in [Reqs -> Row \cup {NoRow}] BY <2>6, <3>1, WriteType DEF Insert, TypeOK
    <3>3. QED BY <2>6, <3>2 DEF Insert, TypeOK
  <2>7. CASE InsertRejected(r)
    <3>1. [hand[r].row EXCEPT !.status = "rejected"] \in Row
      BY <2>7, StatusType DEF InsertRejected, Hand, Statuses
    <3>2. rows' \in [Reqs -> Row \cup {NoRow}]
      BY <2>7, <3>1, WriteType DEF InsertRejected, TypeOK
    <3>3. QED BY <2>7, <3>2 DEF InsertRejected, TypeOK
  <2>8. CASE WithdrawRib(r)
    <3>1. hand[r].row \in Row /\ input[r] \in Input
      BY <2>8 DEF WithdrawRib, UnbanRemove, WithdrawRemove, Hand
    <3>2. \A a \in Acts : Removed(input[r].pop, hand[r].row.scope)
            \in [Pops -> [Scopes -> Rule \cup {NoRule}]]
      BY <3>1, RibType DEF Row, Input
    <3>3. rib' \in [Pops -> [Scopes -> Rule \cup {NoRule}]] /\ faults' \in 0..MaxFaults
      BY <2>8, <3>1, <3>2, FaultType
         DEF WithdrawRib, UnbanRemove, WithdrawRemove, NoCall, CallOk, CallFails, TypeOK, Row
    <3>4. CASE UnbanRemove(r)
      BY <3>3, <3>4 DEF UnbanRemove, TypeOK
    <3>5. CASE WithdrawRemove(r)
      BY <3>3, <3>5 DEF WithdrawRemove, TypeOK
    <3>6. QED BY <2>8, <3>4, <3>5 DEF WithdrawRib
  <2>9. CASE MarkWithdrawn(r)
    <3>1. hand[r].id \in Reqs /\ hand[r].row \in Row BY <2>9 DEF MarkWithdrawn, Hand
    <3>2. [hand[r].row EXCEPT !.status = "withdrawn",
             !.why = IF input[r].kind = "unban" THEN "unban" ELSE "operator"] \in Row
      BY <3>1, StatusType DEF Statuses
    <3>3. rows' \in [Reqs -> Row \cup {NoRow}]
      BY <2>9, <3>1, <3>2, WriteType DEF MarkWithdrawn, TypeOK
    <3>4. QED BY <2>9, <3>3 DEF MarkWithdrawn, TypeOK
  <2>10. QED
       BY <1>2, <2>1, <2>2, <2>3, <2>4, <2>5, <2>6, <2>7, <2>8, <2>9
       DEF Serve, Announce, WithdrawRib
<1>3. ASSUME NEW r \in Reqs, Abort(r)
      PROVE  TypeInv'
  <2>1. faults' \in 0..MaxFaults BY <1>3, FaultType DEF Abort, TypeOK
  <2>2. QED BY <1>3, <2>1 DEF Abort, TypeOK
<1>4. ASSUME NEW p \in Pops, Reconcile(p)
      PROVE  TypeInv'
  <2>1. CASE ExpireFind(p)
    <3>1. Snapshot(Expired) \in SUBSET Hand BY SnapshotType DEF Expired, Syncable
    <3>2. QED BY <2>1, <3>1 DEF ExpireFind, TypeOK
  <2>2. CASE ExpireWithdraw(p)
    <3>1. PICK h \in todo[p] :
            /\ NoCall \/ CallOk(Removed(p, h.row.scope)) \/ CallFails(Removed(p, h.row.scope))
            /\ cur' = [cur EXCEPT ![p] = h]
            /\ todo' = [todo EXCEPT ![p] = todo[p] \ {h}]
      BY <2>2 DEF ExpireWithdraw
    <3>2. h \in Hand BY <3>1 DEF TypeOK
    <3>3. PICK a \in Acts : TRUE BY <3>2 DEF Hand, Row
    <3>4. Removed(p, h.row.scope) \in [Pops -> [Scopes -> Rule \cup {NoRule}]]
      BY <3>2, <3>3, RibType DEF Hand, Row
    <3>5. rib' \in [Pops -> [Scopes -> Rule \cup {NoRule}]] /\ faults' \in 0..MaxFaults
      BY <3>1, <3>4, FaultType DEF NoCall, CallOk, CallFails, TypeOK
    <3>6. QED BY <2>2, <3>1, <3>2, <3>5 DEF ExpireWithdraw, TypeOK
  <2>3. CASE MarkExpired(p)
    <3>1. cur[p].id \in Reqs /\ cur[p].row \in Row BY <2>3 DEF MarkExpired, Hand
    <3>2. [cur[p].row EXCEPT !.status = "expired"] \in Row
      BY <3>1, StatusType DEF Statuses
    <3>3. rows' \in [Reqs -> Row \cup {NoRow}]
      BY <2>3, <3>1, <3>2, WriteType DEF MarkExpired, TypeOK
    <3>4. QED BY <2>3, <3>3 DEF MarkExpired, TypeOK
  <2>4. CASE SyncList(p)
    <3>1. Snapshot({m \in Reqs : Syncable(m)}) \in SUBSET Hand BY SnapshotType DEF Syncable
    <3>2. QED BY <2>4, <3>1 DEF SyncList, TypeOK
  <2>5. CASE SyncCompare(p)
    <3>1. faults' \in 0..MaxFaults BY <2>5, FaultType DEF SyncCompare, TypeOK
    <3>2. QED BY <2>5, <3>1 DEF SyncCompare, TypeOK
  <2>6. CASE SyncAnnounce(p)
    <3>1. PICK h \in todo[p] :
            /\ \/ NoCall
               \/ CallOk(Announced(p, h.row.scope, h.row.act, Sync))
               \/ CallFails(Announced(p, h.row.scope, h.row.act, Sync))
            /\ todo' = [todo EXCEPT ![p] = todo[p] \ {h}]
      BY <2>6 DEF SyncAnnounce
    <3>2. h \in Hand BY <3>1 DEF TypeOK
    <3>3. Announced(p, h.row.scope, h.row.act, Sync) \in [Pops -> [Scopes -> Rule \cup {NoRule}]]
      BY <3>2, RibType DEF Hand, Row
    <3>4. rib' \in [Pops -> [Scopes -> Rule \cup {NoRule}]] /\ faults' \in 0..MaxFaults
      BY <3>1, <3>3, FaultType DEF NoCall, CallOk, CallFails, TypeOK
    <3>5. QED BY <2>6, <3>1, <3>4 DEF SyncAnnounce, TypeOK
  <2>7. CASE SyncDone(p)
    BY <2>7 DEF SyncDone, TypeOK
  <2>8. QED BY <1>4, <2>1, <2>2, <2>3, <2>4, <2>5, <2>6, <2>7 DEF Reconcile
<1>5. ASSUME NEW p \in Pops, CycleFails(p)
      PROVE  TypeInv'
  <2>1. faults' \in 0..MaxFaults BY <1>5, FaultType DEF CycleFails, TypeOK
  <2>2. QED BY <1>5, <2>1 DEF CycleFails, TypeOK
<1>6. CASE Environment
  <2>1. CASE Tick
    BY <2>1, ConstantsAssumption DEF Tick, TypeOK
  <2>2. ASSUME NEW s \in SafelistEdits, AddSafelist(s) \/ RemoveSafelist(s)
        PROVE  TypeInv'
    BY <2>2, ConstantsAssumption DEF AddSafelist, RemoveSafelist, TypeOK
  <2>3. ASSUME NEW p \in Pops, GobgpRestart(p)
        PROVE  TypeInv'
    <3>1. faults' \in 0..MaxFaults BY <2>3, FaultType DEF GobgpRestart, TypeOK
    <3>2. QED BY <2>3, <3>1 DEF GobgpRestart, TypeOK
  <2>4. ASSUME NEW p \in Pops, TriggerShutdown(p)
        PROVE  TypeInv'
    <3>1. faults' \in 0..MaxFaults BY <2>4, FaultType DEF TriggerShutdown, TypeOK
    <3>2. QED BY <2>4, <3>1 DEF TriggerShutdown, TypeOK
  <2>5. ASSUME NEW p \in Pops, Restart(p)
        PROVE  TypeInv'
    <3>1. faults' \in 0..MaxFaults BY <2>5, FaultType DEF Restart, TypeOK
    <3>2. QED BY <2>5, <3>1, ConstantsAssumption DEF Restart, TypeOK
  <2>6. QED BY <1>6, <2>1, <2>2, <2>3, <2>4, <2>5 DEF Environment
<1>7. CASE UNCHANGED vars
  BY <1>7 DEF vars, TypeOK
<1>8. QED BY <1>1, <1>2, <1>3, <1>4, <1>5, <1>6, <1>7 DEF Next, Arrive

(* Every state of the control plane is well typed, for every value of the  *)
(* constants.                                                              *)
THEOREM TypeCorrect == Spec => []TypeOK
<1>1. TypeInv => TypeOK BY DEF TypeInv
<1>2. QED BY <1>1, InitType, TypeStep, PTL DEF Spec
-----------------------------------------------------------------------------
(* Which steps write what.                                                 *)

LEMMA RowWrites ==
  ASSUME [Next]_vars
  PROVE  \/ UNCHANGED rows
         \/ \E r \in Reqs : BanExtend(r) \/ Insert(r) \/ InsertRejected(r) \/ MarkWithdrawn(r)
         \/ \E p \in Pops : MarkExpired(p)
<1> USE DEF db
<1>1. ASSUME NEW r \in Reqs, Arrive(r) \/ Abort(r) PROVE UNCHANGED rows
  BY <1>1 DEF Arrive, BanArrive, CreateArrive, UnbanArrive, WithdrawArrive, Abort
<1>2. ASSUME NEW r \in Reqs, BanStore(r) \/ BanLookup(r) \/ Guard(r) \/ Announce(r) \/ WithdrawRib(r)
      PROVE  UNCHANGED rows
  BY <1>2 DEF BanStore, BanLookup, Guard, Announce, BanAnnounce, CreateAnnounce,
              WithdrawRib, UnbanRemove, WithdrawRemove
<1>3. ASSUME NEW p \in Pops, CycleFails(p) \/ ExpireFind(p) \/ ExpireWithdraw(p)
                     \/ SyncList(p) \/ SyncCompare(p) \/ SyncAnnounce(p) \/ SyncDone(p)
      PROVE  UNCHANGED rows
  BY <1>3 DEF CycleFails, ExpireFind, ExpireWithdraw, SyncList, SyncCompare, SyncAnnounce, SyncDone
<1>4. CASE Environment
  BY <1>4 DEF Environment, Tick, AddSafelist, RemoveSafelist, GobgpRestart, TriggerShutdown, Restart
<1>5. CASE UNCHANGED vars
  BY <1>5 DEF vars
<1>6. QED BY <1>1, <1>2, <1>3, <1>4, <1>5 DEF Next, Serve, Reconcile, Announce, WithdrawRib

LEMMA EventWrites ==
  ASSUME [Next]_vars
  PROVE  \/ UNCHANGED events
         \/ \E r \in Reqs : BanStore(r) \/ \E i \in Inputs : UnbanArrive(r, i)
<1> USE DEF db
<1>1. ASSUME NEW r \in Reqs, NEW i \in Inputs,
             BanArrive(r, i) \/ CreateArrive(r, i) \/ WithdrawArrive(r, i)
      PROVE  UNCHANGED events
  BY <1>1 DEF BanArrive, CreateArrive, WithdrawArrive
<1>2. ASSUME NEW r \in Reqs, \/ Abort(r) \/ BanLookup(r) \/ BanExtend(r) \/ Guard(r) \/ Announce(r)
                             \/ Insert(r) \/ InsertRejected(r) \/ WithdrawRib(r) \/ MarkWithdrawn(r)
      PROVE  UNCHANGED events
  BY <1>2 DEF Abort, BanLookup, BanExtend, Guard, Announce, BanAnnounce, CreateAnnounce, Insert,
              InsertRejected, WithdrawRib, UnbanRemove, WithdrawRemove, MarkWithdrawn
<1>3. ASSUME NEW p \in Pops, \/ CycleFails(p) \/ ExpireFind(p) \/ ExpireWithdraw(p) \/ MarkExpired(p)
                             \/ SyncList(p) \/ SyncCompare(p) \/ SyncAnnounce(p) \/ SyncDone(p)
      PROVE  UNCHANGED events
  BY <1>3 DEF CycleFails, ExpireFind, ExpireWithdraw, MarkExpired, SyncList, SyncCompare,
              SyncAnnounce, SyncDone
<1>4. CASE Environment
  BY <1>4 DEF Environment, Tick, AddSafelist, RemoveSafelist, GobgpRestart, TriggerShutdown, Restart
<1>5. CASE UNCHANGED vars
  BY <1>5 DEF vars
<1>6. QED
  BY <1>1, <1>2, <1>3, <1>4, <1>5
     DEF Next, Arrive, Serve, Reconcile, Announce, WithdrawRib

Creating == {"announce", "insert", "reject"}
Altering == {"extend", "withdrawRib", "update"}

(* How the steps move the handler of one request r: an input is kept once  *)
(* there, an answer is final, and what is in a hand at the steps that      *)
(* create or alter a row came from Guard or from a read of the table.      *)
HandlerMoves(r) ==
  /\ pc[r] # "new" => pc'[r] # "new" /\ input'[r] = input[r]
  /\ pc[r] \in Replies => pc'[r] = pc[r]
  /\ pc'[r] \in Creating => (pc[r] \in Creating /\ hand'[r] = hand[r]) \/ Guard(r)
  /\ pc'[r] \in Altering =>
       \/ pc[r] \in Altering /\ hand'[r] = hand[r] /\ (pc'[r] = "extend" => pc[r] = "extend")
       \/ BanLookup(r)
       \/ \E i \in Inputs : UnbanArrive(r, i) \/ WithdrawArrive(r, i)
  /\ pc'[r] \in {"withdrawRib", "update"} =>
       \/ pc[r] \in {"withdrawRib", "update"}
       \/ \E i \in Inputs : UnbanArrive(r, i) \/ WithdrawArrive(r, i)
  /\ pc'[r] = "update" => (pc[r] = "update" /\ hand'[r] = hand[r]) \/ WithdrawRib(r)
  /\ pc'[r] = "reject" => pc[r] = "reject" \/ Announce(r)

LEMMA HandlerSteps ==
  ASSUME TypeInv, [Next]_vars, NEW r \in Reqs
  PROVE  HandlerMoves(r)
<1> USE DEF TypeInv, TypeOK, HandlerMoves, Creating, Altering, Steps, Replies,
            handlers, Goto, Take, Reply, Receive
<1>1. ASSUME NEW q \in Reqs, NEW i \in Inputs, BanArrive(q, i) \/ CreateArrive(q, i)
      PROVE  HandlerMoves(r)
  BY <1>1 DEF BanArrive, CreateArrive
<1>2. ASSUME NEW q \in Reqs, NEW i \in Inputs, UnbanArrive(q, i) \/ WithdrawArrive(q, i)
      PROVE  HandlerMoves(r)
  <2>1. CASE q = r
    BY <1>2, <2>1 DEF UnbanArrive, WithdrawArrive
  <2>2. CASE q # r
    BY <1>2, <2>2 DEF UnbanArrive, WithdrawArrive
  <2>3. QED BY <2>1, <2>2
<1>3. ASSUME NEW q \in Reqs, BanStore(q) \/ BanLookup(q) \/ BanExtend(q) \/ Abort(q)
      PROVE  HandlerMoves(r)
  BY <1>3 DEF BanStore, BanLookup, BanExtend, Abort
<1>4. ASSUME NEW q \in Reqs, Guard(q)
      PROVE  HandlerMoves(r)
  BY <1>4 DEF Guard
<1>5. ASSUME NEW q \in Reqs, Announce(q) \/ Insert(q) \/ InsertRejected(q)
      PROVE  HandlerMoves(r)
  BY <1>5 DEF Announce, BanAnnounce, CreateAnnounce, Insert, InsertRejected
<1>6. ASSUME NEW q \in Reqs, WithdrawRib(q) \/ MarkWithdrawn(q)
      PROVE  HandlerMoves(r)
  BY <1>6 DEF WithdrawRib, UnbanRemove, WithdrawRemove, MarkWithdrawn
<1>7. ASSUME NEW p \in Pops, Reconcile(p) \/ CycleFails(p)
      PROVE  HandlerMoves(r)
  BY <1>7 DEF Reconcile, CycleFails, ExpireFind, ExpireWithdraw, MarkExpired, SyncList,
              SyncCompare, SyncAnnounce, SyncDone
<1>8. CASE Environment
  <2>1. ASSUME NEW p \in Pops, Restart(p)
        PROVE  HandlerMoves(r)
    BY <2>1 DEF Restart
  <2>2. CASE Tick \/ \E s \in SafelistEdits : AddSafelist(s) \/ RemoveSafelist(s)
    BY <2>2 DEF Tick, AddSafelist, RemoveSafelist
  <2>3. ASSUME NEW p \in Pops, GobgpRestart(p) \/ TriggerShutdown(p)
        PROVE  HandlerMoves(r)
    BY <2>3 DEF GobgpRestart, TriggerShutdown
  <2>4. QED BY <1>8, <2>1, <2>2, <2>3 DEF Environment
<1>9. CASE UNCHANGED vars
  BY <1>9 DEF vars
<1>10. QED
  BY <1>1, <1>2, <1>3, <1>4, <1>5, <1>6, <1>7, <1>8, <1>9
     DEF Next, Arrive, Serve, Announce, WithdrawRib

(* The same for the reconciler of POP p: what it has to do came from one   *)
(* of its two queries, and what it is about to mark came from there.       *)
LoopMoves(p) ==
  /\ \/ todo'[p] \subseteq todo[p]
     \/ ExpireFind(p) \/ SyncList(p)
  /\ rpc'[p] = "markExpired" => (rpc[p] = "markExpired" /\ cur'[p] = cur[p]) \/ ExpireWithdraw(p)
  /\ rpc'[p] \in {"expire", "markExpired"} =>
       \/ rpc[p] \in {"expire", "markExpired"} /\ todo'[p] \subseteq todo[p]
       \/ ExpireFind(p)

LEMMA LoopSteps ==
  ASSUME TypeInv, [Next]_vars, NEW p \in Pops
  PROVE  LoopMoves(p)
<1> USE DEF TypeInv, TypeOK, LoopMoves, loop, RGoto, Todo
<1>1. ASSUME NEW r \in Reqs, Arrive(r) \/ Serve(r) \/ Abort(r)
      PROVE  LoopMoves(p)
  BY <1>1 DEF Arrive, BanArrive, CreateArrive, UnbanArrive, WithdrawArrive, Serve, Abort, BanStore,
              BanLookup, BanExtend, Guard, BanAnnounce, CreateAnnounce, Insert, InsertRejected,
              UnbanRemove, WithdrawRemove, MarkWithdrawn
<1>2. ASSUME NEW q \in Pops, ExpireFind(q) \/ SyncList(q)
      PROVE  LoopMoves(p)
  BY <1>2 DEF ExpireFind, SyncList
<1>3. ASSUME NEW q \in Pops, ExpireWithdraw(q)
      PROVE  LoopMoves(p)
  BY <1>3 DEF ExpireWithdraw
<1>4. ASSUME NEW q \in Pops, \/ MarkExpired(q) \/ SyncCompare(q) \/ SyncAnnounce(q)
                             \/ SyncDone(q) \/ CycleFails(q)
      PROVE  LoopMoves(p)
  BY <1>4 DEF MarkExpired, SyncCompare, SyncAnnounce, SyncDone, CycleFails
<1>5. CASE Environment
  BY <1>5 DEF Environment, Tick, AddSafelist, RemoveSafelist, GobgpRestart, TriggerShutdown, Restart
<1>6. CASE UNCHANGED vars
  BY <1>6 DEF vars
<1>7. QED BY <1>1, <1>2, <1>3, <1>4, <1>5, <1>6 DEF Next, Reconcile

-----------------------------------------------------------------------------
(* Events: a stored event belongs to a request that has arrived, so its    *)
(* key no longer changes, and UNIQUE keeps every later one apart.          *)

EventInv ==
  /\ TypeInv
  /\ \A e \in events : pc[e] # "new"
  /\ \A d, e \in events : input[d].key = input[e].key /\ input[d].key # NoKey => d = e

THEOREM EventStep == EventInv /\ [Next]_vars => EventInv'
<1> SUFFICES ASSUME EventInv, [Next]_vars PROVE EventInv'
  OBVIOUS
<1> USE DEF EventInv
<1>1. TypeInv' BY TypeStep
<1>2. \A e \in events : pc'[e] # "new" /\ input'[e] = input[e]
  BY HandlerSteps DEF HandlerMoves, TypeInv, TypeOK
<1>3. CASE UNCHANGED events
  BY <1>1, <1>2, <1>3
<1>4. ASSUME NEW r \in Reqs, BanStore(r)
      PROVE  EventInv'
  <2>1. pc[r] # "new" /\ pc'[r] # "new" /\ input' = input
    BY <1>4 DEF BanStore, Goto, Reply, Take, TypeInv, TypeOK
  <2>2. \/ UNCHANGED events
        \/ KeyFree(input[r].key) /\ events' = events \cup {r}
    BY <1>4 DEF BanStore
  <2>3. QED BY <1>1, <1>2, <1>3, <2>1, <2>2 DEF KeyFree
<1>5. ASSUME NEW r \in Reqs, NEW i \in Inputs, UnbanArrive(r, i)
      PROVE  EventInv'
  <2>1. pc'[r] # "new" /\ input'[r] = i
    BY <1>5 DEF UnbanArrive, Receive, Goto, Reply, Take, TypeInv, TypeOK
  <2>2. \/ UNCHANGED events
        \/ KeyFree(i.key) /\ events' = events \cup {r}
    BY <1>5 DEF UnbanArrive
  <2>3. QED BY <1>1, <1>2, <1>3, <2>1, <2>2 DEF KeyFree
<1>6. QED BY EventWrites, <1>3, <1>4, <1>5

LEMMA EventAlways == Spec => []EventInv
<1>1. Init => EventInv
  BY InitType DEF EventInv, Init
<1>2. QED BY <1>1, EventStep, PTL DEF Spec

-----------------------------------------------------------------------------
(* Where rows come from.  Only the request that is named after it creates  *)
(* a row, and it is answered with that step; whoever alters a row holds a  *)
(* copy that blocks what the row does, of a row that was live when read.   *)

Provenance(h) ==
  /\ h.id \in Reqs /\ Stored(h.id) /\ rows[h.id].status # "rejected"
  /\ h.row.scope = rows[h.id].scope /\ h.row.pop = rows[h.id].pop /\ h.row.act = rows[h.id].act

RowsOwned == \A m \in Reqs : Stored(m) =>
  /\ pc[m] \in Replies
  /\ rows[m].scope = input[m].scope /\ rows[m].pop = input[m].pop

HandsOwned == \A r \in Reqs : pc[r] \in Creating =>
  /\ hand[r].id = r
  /\ hand[r].row.scope = input[r].scope /\ hand[r].row.pop = input[r].pop

HandsRead == \A r \in Reqs : pc[r] \in Altering =>
  /\ Provenance(hand[r])
  /\ pc[r] = "extend" => hand[r].row.status \in LiveStatuses

LoopRead == \A p \in Pops :
  /\ \A h \in todo[p] : Provenance(h)
  /\ rpc[p] = "markExpired" => Provenance(cur[p])

OriginInv == TypeInv /\ RowsOwned /\ HandsOwned /\ HandsRead /\ LoopRead

(* A step keeps what a stored row blocks and touches no rejected one; a    *)
(* new row has the scope and the POP of its request.                       *)
KeepsRow(m) ==
  /\ Stored(m) =>
       /\ Stored(m)'
       /\ rows'[m].scope = rows[m].scope /\ rows'[m].pop = rows[m].pop /\ rows'[m].act = rows[m].act
       /\ rows[m].status # "rejected" => rows'[m].status # "rejected"
       /\ rows[m].status = "rejected" => rows'[m] = rows[m]
  /\ ~Stored(m) /\ Stored(m)' =>
       /\ pc[m] \in Creating /\ pc'[m] \in Replies
       /\ rows'[m].scope = input[m].scope /\ rows'[m].pop = input[m].pop

(* The write of a copy that differs from what it was read from in neither. *)
LEMMA AlteredRow ==
  ASSUME OriginInv, NEW h \in Hand, Provenance(h), NEW row \in Row,
         row.scope = h.row.scope, row.pop = h.row.pop, row.act = h.row.act, row.status # "rejected",
         Write(h.id, row), NEW m \in Reqs
  PROVE  KeepsRow(m)
BY SentinelsAssumption DEF OriginInv, TypeInv, TypeOK, Provenance, Stored, Write, KeepsRow, Hand

(* The write of the row a request creates.                                 *)
LEMMA CreatedRow ==
  ASSUME OriginInv, NEW r \in Reqs, pc[r] \in Creating, NEW row \in Row,
         row.scope = hand[r].row.scope, row.pop = hand[r].row.pop,
         Write(r, row), pc'[r] \in Replies, NEW m \in Reqs
  PROVE  KeepsRow(m)
BY SentinelsAssumption
DEF OriginInv, TypeInv, TypeOK, Stored, Write, KeepsRow, RowsOwned, HandsOwned, Creating, Replies

LEMMA RowsKept ==
  ASSUME OriginInv, [Next]_vars, NEW m \in Reqs
  PROVE  KeepsRow(m)
<1>0. /\ \A r \in Reqs : pc[r] \in HandSteps => hand[r] \in Hand
      /\ \A p \in Pops : rpc[p] = "markExpired" => cur[p] \in Hand
  BY DEF OriginInv, TypeInv, InHand
<1>1. CASE UNCHANGED rows
  BY <1>1 DEF Stored, KeepsRow
<1>2. ASSUME NEW r \in Reqs, BanExtend(r)
      PROVE  KeepsRow(m)
  <2>1. Provenance(hand[r]) /\ hand[r].row.status \in LiveStatuses /\ hand[r] \in Hand
    BY <1>0, <1>2 DEF OriginInv, BanExtend, HandsRead, Altering, HandSteps
  <2>2. UNCHANGED rows \/ Write(hand[r].id, hand[r].row)
    BY <1>2 DEF BanExtend
  <2>3. QED BY <1>1, <2>1, <2>2, AlteredRow DEF Hand, LiveStatuses
<1>3. ASSUME NEW r \in Reqs, Insert(r)
      PROVE  KeepsRow(m)
  <2>1. hand[r].row \in Row BY <1>0, <1>3 DEF Insert, HandSteps, Hand
  <2>2. /\ Activated(hand[r].row) \in Row
        /\ Activated(hand[r].row).scope = hand[r].row.scope
        /\ Activated(hand[r].row).pop = hand[r].row.pop
    BY <2>1 DEF Activated, Row, Statuses, LiveStatuses
  <2>3. pc[r] \in Creating /\ pc'[r] \in Replies
    BY <1>3 DEF OriginInv, TypeInv, TypeOK, Insert, Creating, Replies, Reply, Goto
  <2>4. UNCHANGED rows \/ Write(r, Activated(hand[r].row))
    BY <1>3 DEF Insert
  <2>5. QED BY <1>1, <2>2, <2>3, <2>4, CreatedRow
<1>4. ASSUME NEW r \in Reqs, InsertRejected(r)
      PROVE  KeepsRow(m)
  <2> DEFINE row == [hand[r].row EXCEPT !.status = "rejected"]
  <2>1. hand[r].row \in Row BY <1>0, <1>4 DEF InsertRejected, HandSteps, Hand
  <2>2. row \in Row /\ row.scope = hand[r].row.scope /\ row.pop = hand[r].row.pop
    BY <2>1 DEF Row, Statuses
  <2>3. pc[r] \in Creating /\ pc'[r] \in Replies
    BY <1>4 DEF OriginInv, TypeInv, TypeOK, InsertRejected, Creating, Replies, Reply, Goto
  <2>4. Write(r, row) BY <1>4 DEF InsertRejected
  <2> HIDE DEF row
  <2>5. QED BY <2>2, <2>3, <2>4, CreatedRow
<1>5. ASSUME NEW r \in Reqs, MarkWithdrawn(r)
      PROVE  KeepsRow(m)
  <2> DEFINE row == [hand[r].row EXCEPT !.status = "withdrawn",
                       !.why = IF input[r].kind = "unban" THEN "unban" ELSE "operator"]
  <2>1. Provenance(hand[r]) /\ hand[r] \in Hand
    BY <1>0, <1>5 DEF OriginInv, MarkWithdrawn, HandsRead, Altering, HandSteps
  <2>2. row \in Row /\ row.scope = hand[r].row.scope /\ row.pop = hand[r].row.pop
        /\ row.act = hand[r].row.act /\ row.status # "rejected"
    BY <2>1 DEF Row, Statuses, Hand
  <2>3. Write(hand[r].id, row) BY <1>5 DEF MarkWithdrawn
  <2> HIDE DEF row
  <2>4. QED BY <2>1, <2>2, <2>3, AlteredRow
<1>6. ASSUME NEW p \in Pops, MarkExpired(p)
      PROVE  KeepsRow(m)
  <2> DEFINE row == [cur[p].row EXCEPT !.status = "expired"]
  <2>1. Provenance(cur[p]) /\ cur[p] \in Hand
    BY <1>0, <1>6 DEF OriginInv, MarkExpired, LoopRead
  <2>2. row \in Row /\ row.scope = cur[p].row.scope /\ row.pop = cur[p].row.pop
        /\ row.act = cur[p].row.act /\ row.status # "rejected"
    BY <2>1 DEF Row, Statuses, Hand
  <2>3. Write(cur[p].id, row) BY <1>6 DEF MarkExpired
  <2> HIDE DEF row
  <2>4. QED BY <2>1, <2>2, <2>3, AlteredRow
<1>7. QED BY RowWrites, <1>1, <1>2, <1>3, <1>4, <1>5, <1>6

(* A copy that tells the truth of its row does so after the step as well.  *)
TrueCopy(h) ==
  /\ h.id \in Reqs /\ rows'[h.id] # NoRow /\ rows'[h.id].status # "rejected"
  /\ h.row.scope = rows'[h.id].scope /\ h.row.pop = rows'[h.id].pop /\ h.row.act = rows'[h.id].act

LEMMA CopyKept ==
  ASSUME OriginInv, [Next]_vars, NEW h, Provenance(h)
  PROVE  TrueCopy(h)
BY RowsKept DEF KeepsRow, Provenance, TrueCopy, Stored

(* A copy of a live row is one.                                            *)
LEMMA CopyRead ==
  ASSUME OriginInv, [Next]_vars, NEW m \in Reqs, Stored(m), rows[m].status # "rejected"
  PROVE  /\ TrueCopy([id |-> m, row |-> rows[m]])
         /\ \A ttl \in 0..MaxTtl : TrueCopy([id |-> m, row |-> Extended(rows[m], ttl)])
<1>1. rows[m] \in Row BY DEF OriginInv, TypeInv, TypeOK, Stored
<1>2. ASSUME NEW ttl \in 0..MaxTtl
      PROVE  /\ Extended(rows[m], ttl).scope = rows[m].scope
             /\ Extended(rows[m], ttl).pop = rows[m].pop
             /\ Extended(rows[m], ttl).act = rows[m].act
  BY <1>1 DEF Extended, Row
<1>3. QED BY <1>1, <1>2, RowsKept DEF KeepsRow, TrueCopy, Stored

LEMMA HandsReadStep == OriginInv /\ [Next]_vars => HandsRead'
<1> SUFFICES ASSUME OriginInv, [Next]_vars, NEW r \in Reqs, pc'[r] \in Altering
             PROVE  /\ TrueCopy(hand'[r])
                    /\ pc'[r] = "extend" => hand'[r].row.status \in LiveStatuses
  BY DEF HandsRead, TrueCopy, Provenance, Stored
<1>0. TypeInv /\ HandsRead BY DEF OriginInv
<1> USE DEF TypeInv, TypeOK, Goto, Take, Reply
<1>1. CASE pc[r] \in Altering /\ hand'[r] = hand[r] /\ (pc'[r] = "extend" => pc[r] = "extend")
  <2>1. Provenance(hand[r]) /\ (pc'[r] = "extend" => hand'[r].row.status \in LiveStatuses)
    BY <1>0, <1>1 DEF HandsRead
  <2>2. QED BY <1>1, <2>1, CopyKept
<1>2. CASE BanLookup(r)
  <2>1. PICK m \in InScope(input[r]) :
          hand'[r] = [id |-> m, row |-> Extended(rows[m], input[r].ttl)]
    BY <1>0, <1>2 DEF BanLookup, Altering
  <2>2. m \in Reqs /\ Stored(m) /\ rows[m] \in Row /\ rows[m].status \in LiveStatuses
    BY <1>0 DEF InScope, Live, Stored
  <2>3. input[r].ttl \in 0..MaxTtl
    BY <1>0, <1>2 DEF BanLookup, InHand, Input
  <2>4. Extended(rows[m], input[r].ttl).status \in LiveStatuses
    BY <2>2 DEF Extended, Row
  <2>5. rows[m].status # "rejected" BY <2>2 DEF LiveStatuses
  <2>6. \A ttl \in 0..MaxTtl : TrueCopy([id |-> m, row |-> Extended(rows[m], ttl)])
    BY <2>2, <2>5, CopyRead
  <2>7. QED BY <2>1, <2>3, <2>4, <2>6
<1>3. ASSUME NEW i \in Inputs, UnbanArrive(r, i) \/ WithdrawArrive(r, i)
      PROVE  TrueCopy(hand'[r]) /\ pc'[r] # "extend"
  <2>1. pc'[r] # "extend" BY <1>0, <1>3 DEF Altering, UnbanArrive, WithdrawArrive
  <2>2. \E m \in Reqs : Live(m) /\ hand'[r] = [id |-> m, row |-> rows[m]]
    <3>1. CASE UnbanArrive(r, i)
      <4>1. pc'[r] # "ignored" BY DEF Altering
      <4>2. PICK e \in BanEvents(i.key) :
              Live(e) /\ hand' = [hand EXCEPT ![r] = [id |-> e, row |-> rows[e]]]
        BY <1>0, <3>1, <4>1 DEF UnbanArrive
      <4>3. e \in Reqs BY <1>0 DEF BanEvents
      <4>4. QED BY <1>0, <4>2, <4>3
    <3>2. CASE WithdrawArrive(r, i)
      <4>1. pc'[r] # "refused" BY DEF Altering
      <4>2. PICK m \in Reqs :
              Live(m) /\ hand' = [hand EXCEPT ![r] = [id |-> m, row |-> rows[m]]]
        BY <1>0, <3>2, <4>1 DEF WithdrawArrive
      <4>3. QED BY <1>0, <4>2
    <3>3. QED BY <1>3, <3>1, <3>2
  <2>3. QED BY <2>1, <2>2, CopyRead DEF Live, LiveStatuses
<1>4. QED BY <1>0, HandlerSteps, <1>1, <1>2, <1>3 DEF HandlerMoves

LEMMA LoopReadStep == OriginInv /\ [Next]_vars => LoopRead'
<1> SUFFICES ASSUME OriginInv, [Next]_vars, NEW p \in Pops
             PROVE  /\ \A h \in todo'[p] : TrueCopy(h)
                    /\ rpc'[p] = "markExpired" => TrueCopy(cur'[p])
  BY DEF LoopRead, TrueCopy, Provenance, Stored
<1>0. TypeInv /\ LoopRead BY DEF OriginInv
<1>1. ASSUME NEW m \in Reqs, Syncable(m)
      PROVE  TrueCopy([id |-> m, row |-> rows[m]])
  BY <1>1, CopyRead DEF Syncable
<1> USE DEF TypeInv, TypeOK, RGoto, Todo
<1>2. \A h \in todo'[p] : TrueCopy(h)
  <2>1. CASE todo'[p] \subseteq todo[p]
    BY <1>0, <2>1, CopyKept DEF LoopRead
  <2>2. CASE ExpireFind(p) \/ SyncList(p)
    <3>1. todo'[p] \subseteq Snapshot({m \in Reqs : Syncable(m)})
      BY <1>0, <2>2 DEF ExpireFind, SyncList, Expired, Snapshot
    <3>2. QED BY <3>1, <1>1 DEF Snapshot
  <2>3. QED BY <1>0, <2>1, <2>2, LoopSteps DEF LoopMoves
<1>3. ASSUME rpc'[p] = "markExpired"
      PROVE  TrueCopy(cur'[p])
  <2>1. CASE rpc[p] = "markExpired" /\ cur'[p] = cur[p]
    BY <1>0, <2>1, CopyKept DEF LoopRead
  <2>2. CASE ExpireWithdraw(p)
    BY <1>0, <2>2, CopyKept DEF LoopRead, ExpireWithdraw
  <2>3. QED BY <1>0, <1>3, <2>1, <2>2, LoopSteps DEF LoopMoves
<1>4. QED BY <1>2, <1>3

THEOREM OriginStep == OriginInv /\ [Next]_vars => OriginInv'
<1> SUFFICES ASSUME OriginInv, [Next]_vars PROVE OriginInv'
  OBVIOUS
<1>1. TypeInv' BY TypeStep DEF OriginInv
<1>2. RowsOwned'
  <2> SUFFICES ASSUME NEW m \in Reqs, Stored(m)'
               PROVE  /\ pc'[m] \in Replies
                      /\ rows'[m].scope = input'[m].scope /\ rows'[m].pop = input'[m].pop
    BY DEF RowsOwned
  <2>1. CASE Stored(m)
    <3>1. pc[m] \in Replies /\ pc[m] # "new" BY <2>1 DEF OriginInv, RowsOwned, Replies
    <3>2. QED BY <2>1, <3>1, RowsKept, HandlerSteps
              DEF OriginInv, RowsOwned, KeepsRow, HandlerMoves
  <2>2. CASE ~Stored(m)
    <3>1. pc'[m] \in Replies /\ rows'[m].scope = input[m].scope /\ rows'[m].pop = input[m].pop
      BY <2>2, RowsKept DEF KeepsRow
    <3>2. \E r \in Reqs : BanExtend(r) \/ Insert(r) \/ InsertRejected(r) \/ MarkWithdrawn(r)
          \/ \E p \in Pops : MarkExpired(p)
      BY <2>2, RowWrites DEF Stored
    <3>3. input' = input
      BY <3>2 DEF BanExtend, Insert, InsertRejected, MarkWithdrawn, MarkExpired, handlers
    <3>4. QED BY <3>1, <3>3
  <2>3. QED BY <2>1, <2>2
<1>3. HandsOwned'
  <2> SUFFICES ASSUME NEW r \in Reqs, pc'[r] \in Creating
               PROVE  /\ hand'[r].id = r
                      /\ hand'[r].row.scope = input'[r].scope /\ hand'[r].row.pop = input'[r].pop
    BY DEF HandsOwned
  <2>1. CASE pc[r] \in Creating /\ hand'[r] = hand[r]
    <3>1. pc[r] # "new" BY <2>1 DEF Creating
    <3>2. QED BY <2>1, <3>1, HandlerSteps DEF OriginInv, HandsOwned, HandlerMoves
  <2>2. CASE Guard(r)
    <3>1. hand'[r] = [id |-> r, row |-> NewRow(input[r])] /\ input' = input
      BY <2>2 DEF Guard, Creating, Reply, Goto, Take, OriginInv, TypeInv, TypeOK
    <3>2. QED BY <3>1 DEF NewRow
  <2>3. QED BY <2>1, <2>2, HandlerSteps DEF HandlerMoves, OriginInv
<1>4. QED BY <1>1, <1>2, <1>3, HandsReadStep, LoopReadStep DEF OriginInv

LEMMA OriginInit == Init => OriginInv
BY InitType
DEF Init, OriginInv, RowsOwned, HandsOwned, HandsRead, LoopRead, Stored, Creating, Altering

LEMMA OriginAlways == Spec => []OriginInv
BY OriginInit, OriginStep, PTL DEF Spec

-----------------------------------------------------------------------------
(* The unique index.                                                       *)

(* A write the index lets through, or of a row that is not live, leaves at *)
(* most one live row per scope and POP.                                    *)
LEMMA IndexKeeps ==
  ASSUME TypeInv, OneLivePerScope, NEW m \in Reqs, NEW row \in Row,
         Write(m, row), IndexAllows(m, row)
  PROVE  OneLivePerScope'
BY SentinelsAssumption
DEF TypeInv, TypeOK, OneLivePerScope, Write, IndexAllows, Live, Stored

LEMMA OneLiveStep == OriginInv /\ OneLivePerScope /\ [Next]_vars => OneLivePerScope'
<1> SUFFICES ASSUME OriginInv, OneLivePerScope, [Next]_vars PROVE OneLivePerScope'
  OBVIOUS
<1>0. TypeInv /\ InHand BY DEF OriginInv, TypeInv
<1>1. CASE UNCHANGED rows
  BY <1>1 DEF OneLivePerScope, Live, Stored
<1>2. ASSUME NEW r \in Reqs, BanExtend(r)
      PROVE  OneLivePerScope'
  <2>1. hand[r].id \in Reqs /\ hand[r].row \in Row
    BY <1>0, <1>2 DEF InHand, BanExtend, HandSteps, Hand
  <2>2. UNCHANGED rows \/ (Write(hand[r].id, hand[r].row) /\ IndexAllows(hand[r].id, hand[r].row))
    BY <1>2 DEF BanExtend
  <2>3. QED BY <1>0, <1>1, <2>1, <2>2, IndexKeeps
<1>3. ASSUME NEW r \in Reqs, Insert(r)
      PROVE  OneLivePerScope'
  <2>1. Activated(hand[r].row) \in Row
    BY <1>0, <1>3 DEF InHand, Insert, HandSteps, Hand, Activated, Row, Statuses, LiveStatuses
  <2>2. UNCHANGED rows \/ (Write(r, Activated(hand[r].row)) /\ IndexAllows(r, Activated(hand[r].row)))
    BY <1>3 DEF Insert
  <2>3. QED BY <1>0, <1>1, <2>1, <2>2, IndexKeeps
<1>4. ASSUME NEW r \in Reqs, InsertRejected(r)
      PROVE  OneLivePerScope'
  <2> DEFINE row == [hand[r].row EXCEPT !.status = "rejected"]
  <2>1. row \in Row /\ row.status = "rejected"
    BY <1>0, <1>4 DEF InHand, InsertRejected, HandSteps, Hand, Row, Statuses
  <2>2. Write(r, row) BY <1>4 DEF InsertRejected
  <2>3. IndexAllows(r, row) BY <2>1 DEF IndexAllows, LiveStatuses
  <2> HIDE DEF row
  <2>4. QED BY <1>0, <2>1, <2>2, <2>3, IndexKeeps
<1>5. ASSUME NEW r \in Reqs, MarkWithdrawn(r)
      PROVE  OneLivePerScope'
  <2> DEFINE row == [hand[r].row EXCEPT !.status = "withdrawn",
                       !.why = IF input[r].kind = "unban" THEN "unban" ELSE "operator"]
  <2>1. hand[r].id \in Reqs /\ row \in Row /\ row.status = "withdrawn"
    BY <1>0, <1>5 DEF InHand, MarkWithdrawn, HandSteps, Hand, Row, Statuses
  <2>2. Write(hand[r].id, row) BY <1>5 DEF MarkWithdrawn
  <2>3. IndexAllows(hand[r].id, row) BY <2>1 DEF IndexAllows, LiveStatuses
  <2> HIDE DEF row
  <2>4. QED BY <1>0, <2>1, <2>2, <2>3, IndexKeeps
<1>6. ASSUME NEW p \in Pops, MarkExpired(p)
      PROVE  OneLivePerScope'
  <2> DEFINE row == [cur[p].row EXCEPT !.status = "expired"]
  <2>1. cur[p].id \in Reqs /\ row \in Row /\ row.status = "expired"
    BY <1>0, <1>6 DEF InHand, MarkExpired, Hand, Row, Statuses
  <2>2. Write(cur[p].id, row) BY <1>6 DEF MarkExpired
  <2>3. IndexAllows(cur[p].id, row) BY <2>1 DEF IndexAllows, LiveStatuses
  <2> HIDE DEF row
  <2>4. QED BY <1>0, <2>1, <2>2, <2>3, IndexKeeps
<1>7. QED BY RowWrites, <1>1, <1>2, <1>3, <1>4, <1>5, <1>6

(* No scope has two live mitigations in one POP.                           *)
THEOREM ScopesExclusive == Spec => []OneLivePerScope
<1>1. Init => OneLivePerScope BY DEF Init, OneLivePerScope, Live, Stored
<1>2. QED BY <1>1, OriginAlways, OneLiveStep, PTL DEF Spec

-----------------------------------------------------------------------------
(* Expiry.                                                                 *)

(* What the loop is about to expire was past its deadline when it was      *)
(* read, and the clock does not go back.                                   *)
Due == \A p \in Pops : rpc[p] \in {"expire", "markExpired"} =>
  /\ \A h \in todo[p] : h.row.exp < now
  /\ rpc[p] = "markExpired" => cur[p].row.exp < now

LEMMA OnlyTicks == ASSUME [Next]_vars PROVE now' = now \/ Tick
<1>1. ASSUME NEW r \in Reqs, Arrive(r) \/ Serve(r) \/ Abort(r) PROVE now' = now
  BY <1>1 DEF Arrive, BanArrive, CreateArrive, UnbanArrive, WithdrawArrive, Serve, Abort, BanStore,
              BanLookup, BanExtend, Guard, BanAnnounce, CreateAnnounce, Insert, InsertRejected,
              UnbanRemove, WithdrawRemove, MarkWithdrawn
<1>2. ASSUME NEW p \in Pops, Reconcile(p) \/ CycleFails(p) PROVE now' = now
  BY <1>2 DEF Reconcile, CycleFails, ExpireFind, ExpireWithdraw, MarkExpired, SyncList, SyncCompare,
              SyncAnnounce, SyncDone
<1>3. CASE Environment
  BY <1>3 DEF Environment, AddSafelist, RemoveSafelist, GobgpRestart, TriggerShutdown, Restart
<1>4. CASE UNCHANGED vars BY <1>4 DEF vars
<1>5. QED BY <1>1, <1>2, <1>3, <1>4 DEF Next

LEMMA ClockRuns == ASSUME TypeInv, [Next]_vars PROVE now' \in Nat /\ now \in Nat /\ now =< now'
BY OnlyTicks, ConstantsAssumption DEF Tick, TypeInv, TypeOK

LEMMA DueStep == TypeInv /\ Due /\ [Next]_vars => Due'
<1> SUFFICES ASSUME TypeInv, Due, [Next]_vars,
                    NEW p \in Pops, rpc'[p] \in {"expire", "markExpired"}
             PROVE  /\ \A h \in todo'[p] : h.row.exp < now'
                    /\ rpc'[p] = "markExpired" => cur'[p].row.exp < now'
  BY DEF Due
<1>0. /\ now \in Nat /\ now' \in Nat /\ now =< now'
      /\ \A h \in Hand : h.row.exp \in Nat
  BY ClockRuns, ConstantsAssumption DEF Hand, Row
<1>1. \A h \in todo'[p] : h.row.exp < now'
  <2>1. CASE rpc[p] \in {"expire", "markExpired"} /\ todo'[p] \subseteq todo[p]
    BY <1>0, <2>1 DEF Due, TypeInv, TypeOK
  <2>2. CASE ExpireFind(p)
    <3>1. todo'[p] = Snapshot(Expired) BY <2>2 DEF ExpireFind, Todo, TypeInv, TypeOK
    <3>2. \A h \in todo'[p] : h \in Hand /\ h.row.exp < now
      BY <3>1 DEF Snapshot, Expired, PastTtl, Syncable, Stored, Hand, TypeInv, TypeOK
    <3>3. QED BY <1>0, <3>2
  <2>3. QED BY <2>1, <2>2, LoopSteps DEF LoopMoves
<1>2. ASSUME rpc'[p] = "markExpired"
      PROVE  cur'[p].row.exp < now'
  <2>1. CASE rpc[p] = "markExpired" /\ cur'[p] = cur[p]
    BY <1>0, <2>1 DEF Due, TypeInv, InHand
  <2>2. CASE ExpireWithdraw(p)
    BY <1>0, <2>2 DEF Due, ExpireWithdraw, TypeInv, TypeOK
  <2>3. QED BY <1>2, <2>1, <2>2, LoopSteps DEF LoopMoves
<1>3. QED BY <1>1, <1>2

-----------------------------------------------------------------------------
(* The ledger.  A step writes at most one row, as Ledger allows it.        *)

LedgerWrite(m, row) ==
  /\ m \in Reqs /\ row \in Row /\ Write(m, row) /\ now' = now
  /\ IndexAllows(m, row)
  /\ \/ ~Stored(m) /\ row.status \in LiveStatuses \cup {"rejected"}
     \/ /\ Stored(m) /\ rows[m].status # "rejected"
        /\ row.scope = rows[m].scope /\ row.pop = rows[m].pop /\ row.act = rows[m].act
        /\ \/ row.status \in LiveStatuses \cup {"withdrawn"}
           \/ row.status = "expired" /\ row.exp < now

LEMMA WritesAreLedger ==
  ASSUME OriginInv, Due, [Next]_vars, rows' # rows
  PROVE  \E m, row : LedgerWrite(m, row)
<1>0. /\ TypeOK /\ HandsRead /\ LoopRead /\ RowsOwned /\ HandsOwned
      /\ \A r \in Reqs : pc[r] \in HandSteps => hand[r] \in Hand
      /\ \A p \in Pops : rpc[p] = "markExpired" => cur[p] \in Hand
  BY DEF OriginInv, TypeInv, InHand
<1>1. ASSUME NEW r \in Reqs, BanExtend(r)
      PROVE  LedgerWrite(hand[r].id, hand[r].row)
  <2>1. hand[r] \in Hand /\ Provenance(hand[r]) /\ hand[r].row.status \in LiveStatuses
    BY <1>0, <1>1 DEF BanExtend, HandSteps, HandsRead, Altering
  <2>2. Write(hand[r].id, hand[r].row) /\ IndexAllows(hand[r].id, hand[r].row) /\ now' = now
    BY <1>1 DEF BanExtend
  <2> QED
    BY <2>1, <2>2 DEF LedgerWrite, Provenance, Hand
<1>2. ASSUME NEW r \in Reqs, Insert(r)
      PROVE  LedgerWrite(r, Activated(hand[r].row))
  <2>1. hand[r] \in Hand /\ ~Stored(r)
    BY <1>0, <1>2 DEF Insert, HandSteps, RowsOwned, Replies
  <2>2. Activated(hand[r].row) \in Row /\ Activated(hand[r].row).status = "active"
    BY <2>1 DEF Hand, Activated, Row, Statuses, LiveStatuses
  <2>3. Write(r, Activated(hand[r].row)) /\ IndexAllows(r, Activated(hand[r].row)) /\ now' = now
    BY <1>2 DEF Insert
  <2> QED
    BY <2>1, <2>2, <2>3 DEF LedgerWrite, LiveStatuses
<1>3. ASSUME NEW r \in Reqs, InsertRejected(r)
      PROVE  \E row : LedgerWrite(r, row)
  <2>1. hand[r] \in Hand /\ ~Stored(r)
    BY <1>0, <1>3 DEF InsertRejected, HandSteps, RowsOwned, Replies
  <2>2. PICK row : row = [hand[r].row EXCEPT !.status = "rejected"]
    OBVIOUS
  <2>3. row \in Row /\ row.status = "rejected"
    BY <2>1, <2>2 DEF Hand, Row, Statuses
  <2>4. Write(r, row) /\ now' = now /\ IndexAllows(r, row)
    BY <1>3, <2>2, <2>3 DEF InsertRejected, IndexAllows, LiveStatuses
  <2> QED
    BY <2>1, <2>3, <2>4 DEF LedgerWrite
<1>4. ASSUME NEW r \in Reqs, MarkWithdrawn(r)
      PROVE  \E row : LedgerWrite(hand[r].id, row)
  <2>1. hand[r] \in Hand /\ Provenance(hand[r])
    BY <1>0, <1>4 DEF MarkWithdrawn, HandSteps, HandsRead, Altering
  <2>2. PICK row : row = [hand[r].row EXCEPT !.status = "withdrawn",
                            !.why = IF input[r].kind = "unban" THEN "unban" ELSE "operator"]
    OBVIOUS
  <2>3. /\ row \in Row /\ row.status = "withdrawn"
        /\ row.scope = hand[r].row.scope /\ row.pop = hand[r].row.pop /\ row.act = hand[r].row.act
    BY <2>1, <2>2 DEF Hand, Row, Statuses
  <2>4. Write(hand[r].id, row) /\ now' = now /\ IndexAllows(hand[r].id, row)
    BY <1>4, <2>2, <2>3 DEF MarkWithdrawn, IndexAllows, LiveStatuses
  <2> QED
    BY <2>1, <2>3, <2>4 DEF LedgerWrite, Provenance
<1>5. ASSUME NEW p \in Pops, MarkExpired(p)
      PROVE  \E row : LedgerWrite(cur[p].id, row)
  <2>1. cur[p] \in Hand /\ Provenance(cur[p]) /\ cur[p].row.exp < now
    BY <1>0, <1>5 DEF MarkExpired, LoopRead, Due
  <2>2. PICK row : row = [cur[p].row EXCEPT !.status = "expired"]
    OBVIOUS
  <2>3. /\ row \in Row /\ row.status = "expired" /\ row.exp < now
        /\ row.scope = cur[p].row.scope /\ row.pop = cur[p].row.pop /\ row.act = cur[p].row.act
    BY <2>1, <2>2 DEF Hand, Row, Statuses
  <2>4. Write(cur[p].id, row) /\ now' = now /\ IndexAllows(cur[p].id, row)
    BY <1>5, <2>2, <2>3 DEF MarkExpired, IndexAllows, LiveStatuses
  <2> QED
    BY <2>1, <2>3, <2>4 DEF LedgerWrite, Provenance
<1> QED
  BY RowWrites, <1>1, <1>2, <1>3, <1>4, <1>5

(* What the ledger has of a row.                                           *)
LEMMA EntryOfRow ==
  ASSUME NEW row \in Row
  PROVE  /\ Entered(row) \in Table!Entry
         /\ Entered(row).scope = row.scope /\ Entered(row).pop = row.pop
         /\ Entered(row).act = row.act /\ Entered(row).due = row.exp
         /\ Entered(row).state = "live" <=> row.status \in LiveStatuses
         /\ Entered(row).state = "refused" <=> row.status = "rejected"
         /\ row.status \in {"withdrawn", "expired"} => Entered(row).state = row.status
<1>1. PICK state : state = CASE row.status \in LiveStatuses -> "live"
                             [] row.status = "rejected" -> "refused"
                             [] OTHER -> row.status
  OBVIOUS
<1>2. row.status \in LiveStatuses \cup {"expired", "withdrawn", "rejected"}
  BY DEF Row, Statuses
<1>3. /\ state \in {"live", "expired", "withdrawn", "refused"}
      /\ state = "live" <=> row.status \in LiveStatuses
      /\ state = "refused" <=> row.status = "rejected"
      /\ row.status \in {"withdrawn", "expired"} => state = row.status
  <2>1. CASE row.status \in LiveStatuses
    BY <1>1, <2>1 DEF LiveStatuses
  <2>2. CASE row.status = "rejected"
    BY <1>1, <2>2 DEF LiveStatuses
  <2>3. CASE row.status \in {"expired", "withdrawn"}
    BY <1>1, <2>3 DEF LiveStatuses
  <2> QED
    BY <1>2, <2>1, <2>2, <2>3
<1>4. Entered(row) = [scope |-> row.scope, pop |-> row.pop, act |-> row.act, due |-> row.exp, state |-> state]
  BY <1>1 DEF Entered
<1>5. row.scope \in Scopes /\ row.pop \in Pops /\ row.act \in Acts /\ row.exp \in 0..(MaxTime + MaxTtl)
  BY DEF Row
<1>6. Entered(row) \in Table!Entry
  BY <1>3, <1>4, <1>5 DEF Table!Entry
<1> QED
  BY <1>3, <1>4, <1>6

LEMMA BookWritten ==
  ASSUME TypeOK, NEW m \in Reqs, NEW row \in Row, Write(m, row)
  PROVE  /\ Book' = [n \in DOMAIN Book \cup {m} |-> IF n = m THEN Entered(row) ELSE Book[n]]
         /\ m \in DOMAIN Book'
<1>1. rows' = [rows EXCEPT ![m] = row] /\ rows \in [Reqs -> Row \cup {NoRow}] /\ row # NoRow
  BY SentinelsAssumption DEF TypeOK, Write
<1>2. {r \in Reqs : Stored(r)}' = {r \in Reqs : Stored(r)} \cup {m}
  BY <1>1 DEF Stored
<1>3. \A n \in {r \in Reqs : Stored(r)} \cup {m} : rows'[n] = IF n = m THEN row ELSE rows[n]
  BY <1>1
<1>4. DOMAIN Book = {r \in Reqs : Stored(r)}
  BY DEF Book
<1> QED
  BY <1>2, <1>3, <1>4 DEF Book

LEMMA FreePlace ==
  ASSUME TypeOK, NEW m \in Reqs, NEW row \in Row, IndexAllows(m, row), row.status \in LiveStatuses,
         NEW e, e.scope = row.scope, e.pop = row.pop
  PROVE  Table!Free(m, e)
<1> SUFFICES ASSUME NEW n \in DOMAIN Book \ {m}, Book[n].state = "live"
             PROVE  Book[n].scope # e.scope \/ Book[n].pop # e.pop
  BY DEF Table!Free
<1>1. n \in Reqs \ {m} /\ Stored(n) /\ Book[n] = Entered(rows[n])
  BY DEF Book
<1>2. rows[n] \in Row
  BY <1>1 DEF TypeOK, Stored
<1>3. rows[n].status \in LiveStatuses /\ Book[n].scope = rows[n].scope /\ Book[n].pop = rows[n].pop
  BY <1>1, <1>2, EntryOfRow
<1> QED
  BY <1>1, <1>3 DEF IndexAllows, Live

LEMMA WriteRefines ==
  ASSUME TypeOK, NEW m, NEW row, LedgerWrite(m, row)
  PROVE  Table!Next
<1>0. /\ m \in Reqs /\ row \in Row /\ Write(m, row) /\ now' = now /\ IndexAllows(m, row)
      /\ DOMAIN Book = {r \in Reqs : Stored(r)} /\ row.exp \in 0..(MaxTime + MaxTtl)
  BY DEF LedgerWrite, Book, Row
<1>1. CASE ~Stored(m)
  <2>1. row.status \in LiveStatuses \cup {"rejected"}
    BY <1>1 DEF LedgerWrite
  <2>2. m \in DOMAIN Book' \ DOMAIN Book
    BY <1>0, <1>1, BookWritten
  <2>3. Entered(row).state = "refused" \/ (Entered(row).state = "live" /\ Table!Free(m, Entered(row)))
    BY <1>0, <2>1, EntryOfRow, FreePlace
  <2>4. Entered(row) \in Table!Entry
    BY <1>0, EntryOfRow
  <2>5. Book' = [n \in DOMAIN Book \cup {m} |-> IF n = m THEN Entered(row) ELSE Book[n]]
    BY <1>0, BookWritten
  <2>6. Table!Enter(m)
    BY <1>0, <2>2, <2>3, <2>4, <2>5 DEF Table!Enter
  <2> QED
    BY <1>0, <2>6 DEF Table!Next
<1>2. CASE Stored(m)
  <2>1. /\ rows[m].status # "rejected"
        /\ row.scope = rows[m].scope /\ row.pop = rows[m].pop /\ row.act = rows[m].act
        /\ \/ row.status \in LiveStatuses \cup {"withdrawn"}
           \/ row.status = "expired" /\ row.exp < now
    BY <1>2 DEF LedgerWrite
  <2>2. rows[m] \in Row /\ m \in DOMAIN Book /\ Book[m] = Entered(rows[m])
    BY <1>0, <1>2 DEF TypeOK, Stored, Book
  <2>3. Book[m].state # "refused" /\ Book[m].scope = row.scope /\ Book[m].pop = row.pop
    BY <2>1, <2>2, EntryOfRow
  <2>4. Entered(row) = [Book[m] EXCEPT !.state = Entered(row).state, !.due = row.exp]
    <3>1. PICK a, b : a = Book[m] /\ b = Entered(row)
      OBVIOUS
    <3>2. /\ a \in Table!Entry /\ b \in Table!Entry /\ b.due = row.exp
          /\ b.scope = a.scope /\ b.pop = a.pop /\ b.act = a.act
      BY <1>0, <2>1, <2>2, <3>1, EntryOfRow
    <3>3. b = [a EXCEPT !.state = b.state, !.due = b.due]
      BY <3>2 DEF Table!Entry
    <3> QED
      BY <3>1, <3>2, <3>3
  <2>5. Book' = [n \in DOMAIN Book |-> IF n = m THEN Entered(row) ELSE Book[n]]
    <3>1. DOMAIN Book \cup {m} = DOMAIN Book
      BY <2>2
    <3> QED
      BY <1>0, <3>1, BookWritten
  <2>6. PICK B, state, due : B = Book /\ state = Entered(row).state /\ due = row.exp
    OBVIOUS
  <2>7. Book' = [Book EXCEPT ![m] = [Book[m] EXCEPT !.state = state, !.due = due]]
    <3>1. DOMAIN Book = DOMAIN B /\ Book = [n \in DOMAIN B |-> B[n]]
      BY <2>6 DEF Book
    <3>2. Book' = [n \in DOMAIN B |-> IF n = m THEN [B[m] EXCEPT !.state = state, !.due = due] ELSE B[n]]
      BY <2>4, <2>5, <2>6
    <3> QED
      BY <2>6, <3>1, <3>2
  <2>8. Table!Turn(m, state, due)
    BY <1>0, <2>2, <2>3, <2>7 DEF Table!Turn
  <2>9. CASE row.status \in LiveStatuses
    <3>1. state = "live" /\ Table!Free(m, Book[m])
      BY <1>0, <2>3, <2>6, <2>9, EntryOfRow, FreePlace
    <3> QED
      BY <1>0, <2>6, <2>8, <3>1 DEF Table!Next, Table!Extend
  <2>10. CASE row.status = "withdrawn"
    <3>1. state = "withdrawn"
      BY <1>0, <2>6, <2>10, EntryOfRow
    <3> QED
      BY <1>0, <2>6, <2>8, <3>1 DEF Table!Next, Table!Withdraw
  <2>11. CASE row.status = "expired" /\ row.exp < now
    <3>1. state = "expired"
      BY <1>0, <2>6, <2>11, EntryOfRow
    <3> QED
      BY <1>0, <2>6, <2>8, <2>11, <3>1 DEF Table!Next, Table!Expire
  <2> QED
    BY <2>1, <2>9, <2>10, <2>11
<1> QED
  BY <1>1, <1>2

(* The mitigations table implements Ledger: whatever copies the handlers   *)
(* and the loops write back, whoever reads it sees a row keep what it      *)
(* blocks, no refused row change and no two rows alive for one scope.      *)
THEOREM TableImplementsLedger == Spec => RowsAreALedger
<1>1. Init => Table!Init
  <2> SUFFICES ASSUME Init PROVE Table!Init
    OBVIOUS
  <2>1. {r \in Reqs : Stored(r)} = {}
    BY DEF Init, Stored
  <2>2. Book = << >>
    BY <2>1 DEF Book
  <2> QED
    BY <2>2 DEF Init, Table!Init
<1>2. OriginInv /\ Due /\ [Next]_vars => [Table!Next]_(Table!vars)
  <2> SUFFICES ASSUME OriginInv, Due, [Next]_vars, Table!vars' # Table!vars PROVE Table!Next
    OBVIOUS
  <2>1. CASE rows' # rows
    BY <2>1, WritesAreLedger, WriteRefines DEF OriginInv, TypeInv
  <2>2. CASE rows' = rows
    <3>1. Book' = Book
      BY <2>2 DEF Book, Stored
    <3>2. now' # now
      BY <3>1 DEF Table!vars
    <3>3. now' = now + 1
      BY <3>2, OnlyTicks DEF Tick
    <3> QED
      BY <3>1, <3>3 DEF Table!Next, Table!Pass
  <2> QED
    BY <2>1, <2>2
<1>3. OriginInv => TypeInv
  BY DEF OriginInv
<1>4. Init => Due
  BY DEF Init, Due
<1> QED
  BY <1>1, <1>2, <1>3, <1>4, OriginAlways, DueStep, PTL DEF Spec, RowsAreALedger, Table!Spec
=============================================================================
