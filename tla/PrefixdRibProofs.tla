-------------------------- MODULE PrefixdRibProofs --------------------------
(* Theorems that relate the RIB to the mitigations table.                  *)
EXTENDS PrefixdProofs

-----------------------------------------------------------------------------
(* Which steps write the RIB, and what they leave in one place of it.      *)

LEMMA RibWrites ==
  ASSUME [Next]_vars
  PROVE  \/ UNCHANGED rib
         \/ \E r \in Reqs : Announce(r) \/ WithdrawRib(r)
         \/ \E p \in Pops : ExpireWithdraw(p) \/ SyncAnnounce(p) \/ GobgpRestart(p)
<1>1. ASSUME NEW r \in Reqs, Arrive(r) \/ Abort(r) PROVE UNCHANGED rib
  BY <1>1 DEF Arrive, BanArrive, CreateArrive, UnbanArrive, WithdrawArrive, Abort
<1>2. ASSUME NEW r \in Reqs, \/ BanStore(r) \/ BanLookup(r) \/ BanExtend(r) \/ Guard(r)
                             \/ Insert(r) \/ InsertRejected(r) \/ MarkWithdrawn(r)
      PROVE  UNCHANGED rib
  BY <1>2 DEF BanStore, BanLookup, BanExtend, Guard, Insert, InsertRejected, MarkWithdrawn
<1>3. ASSUME NEW p \in Pops, \/ CycleFails(p) \/ ExpireFind(p) \/ MarkExpired(p)
                             \/ SyncList(p) \/ SyncCompare(p) \/ SyncDone(p)
      PROVE  UNCHANGED rib
  BY <1>3 DEF CycleFails, ExpireFind, MarkExpired, SyncList, SyncCompare, SyncDone
<1>4. CASE Environment /\ ~\E p \in Pops : GobgpRestart(p)
  BY <1>4 DEF Environment, Tick, AddSafelist, RemoveSafelist, TriggerShutdown, Restart
<1>5. CASE UNCHANGED vars
  BY <1>5 DEF vars
<1>6. QED
  BY <1>1, <1>2, <1>3, <1>4, <1>5
     DEF Next, Serve, Reconcile, Environment, Announce, WithdrawRib

RibCell(p, s) ==
  \/ rib'[p][s] = rib[p][s]
  \/ rib'[p][s] = NoRule
  \/ /\ p \notin DryRun /\ rib'[p][s].by = Sync
     /\ \E q \in Pops : \E h \in todo[q] : h.row.scope = s
  \/ /\ p \notin DryRun
     /\ \E r \in Reqs : /\ pc[r] = "announce" /\ hand[r].row.scope = s
                        /\ rib'[p][s].by = r

LEMMA RibSteps ==
  ASSUME TypeInv, [Next]_vars, NEW p \in Pops, NEW s \in Scopes
  PROVE  RibCell(p, s)
<1>0. rib \in [Pops -> [Scopes -> Rule \cup {NoRule}]] BY DEF TypeInv, TypeOK
<1>1. CASE UNCHANGED rib
  BY <1>1 DEF RibCell
<1>2. ASSUME NEW r \in Reqs, Announce(r)
      PROVE  RibCell(p, s)
  <2>1. \/ UNCHANGED rib
        \/ input[r].pop \notin DryRun /\ rib' = Announced(input[r].pop, hand[r].row.scope, hand[r].row.act, r)
    BY <1>2 DEF Announce, BanAnnounce, CreateAnnounce, NoCall, CallOk, CallFails
  <2>2. pc[r] = "announce" BY <1>2 DEF Announce, BanAnnounce, CreateAnnounce
  <2>3. QED BY <1>0, <2>1, <2>2 DEF RibCell, Announced
<1>3. ASSUME NEW r \in Reqs, WithdrawRib(r)
      PROVE  RibCell(p, s)
  <2>1. UNCHANGED rib \/ rib' = Removed(input[r].pop, hand[r].row.scope)
    BY <1>3 DEF WithdrawRib, UnbanRemove, WithdrawRemove, NoCall, CallOk, CallFails
  <2>2. QED BY <1>0, <2>1 DEF RibCell, Removed
<1>4. ASSUME NEW q \in Pops, ExpireWithdraw(q)
      PROVE  RibCell(p, s)
  <2>1. UNCHANGED rib \/ \E h \in todo[q] : rib' = Removed(q, h.row.scope)
    BY <1>4 DEF ExpireWithdraw, NoCall, CallOk, CallFails
  <2>2. QED BY <1>0, <2>1 DEF RibCell, Removed
<1>5. ASSUME NEW q \in Pops, SyncAnnounce(q)
      PROVE  RibCell(p, s)
  <2>1. PICK h \in todo[q] :
          UNCHANGED rib \/ (q \notin DryRun /\ rib' = Announced(q, h.row.scope, h.row.act, Sync))
    BY <1>5 DEF SyncAnnounce, NoCall, CallOk, CallFails
  <2>2. \/ rib'[p][s] = rib[p][s]
        \/ p \notin DryRun /\ h.row.scope = s /\ rib'[p][s] = [act |-> h.row.act, by |-> Sync]
    BY <1>0, <2>1 DEF Announced
  <2>3. QED BY <2>2 DEF RibCell
<1>6. ASSUME NEW q \in Pops, GobgpRestart(q)
      PROVE  RibCell(p, s)
  BY <1>0, <1>6 DEF GobgpRestart, RibCell
<1>7. QED BY RibWrites, <1>1, <1>2, <1>3, <1>4, <1>5, <1>6

-----------------------------------------------------------------------------
(* Dry run: every caller asks before it calls, so nothing is announced.    *)

DryRunSilent == \A p \in DryRun, s \in Scopes : rib[p][s] = NoRule

LEMMA DryRunStep == TypeInv /\ DryRunSilent /\ [Next]_vars => DryRunSilent'
<1> SUFFICES ASSUME TypeInv, DryRunSilent, [Next]_vars, NEW p \in DryRun, NEW s \in Scopes
             PROVE  rib'[p][s] = NoRule
  BY DEF DryRunSilent
<1>1. p \in Pops BY ConstantsAssumption
<1>2. RibCell(p, s) BY <1>1, RibSteps
<1>3. QED BY <1>2 DEF RibCell, DryRunSilent

-----------------------------------------------------------------------------
(* The safelist.                                                           *)

Protected == ConfigSafelist \ SafelistEdits

(* Protected scopes stay on the safelist, so no handler passes the         *)
(* guardrails with one, no row has one and nobody announces one.           *)
SafelistInv == "db" \notin Faults => \A s \in Protected :
  /\ s \in safelist
  /\ \A r \in Reqs : pc[r] \in Creating => input[r].scope # s
  /\ \A m \in Reqs : Stored(m) => rows[m].scope # s
  /\ \A p \in Pops : rib[p][s] = NoRule

LEMMA SafelistKept == ASSUME [Next]_vars, NEW s \in Protected, s \in safelist PROVE s \in safelist'
<1>1. ASSUME NEW r \in Reqs, Arrive(r) \/ Serve(r) \/ Abort(r) PROVE safelist' = safelist
  BY <1>1 DEF db, Arrive, BanArrive, CreateArrive, UnbanArrive, WithdrawArrive, Serve, Abort, BanStore,
              BanLookup, BanExtend, Guard, BanAnnounce, CreateAnnounce, Insert, InsertRejected,
              UnbanRemove, WithdrawRemove, MarkWithdrawn
<1>2. ASSUME NEW p \in Pops, Reconcile(p) \/ CycleFails(p) PROVE safelist' = safelist
  BY <1>2 DEF db, Reconcile, CycleFails, ExpireFind, ExpireWithdraw, MarkExpired, SyncList,
              SyncCompare, SyncAnnounce, SyncDone
<1>3. CASE Environment
  BY <1>3 DEF db, Environment, Tick, AddSafelist, RemoveSafelist, GobgpRestart, TriggerShutdown,
              Restart, Protected
<1>4. CASE UNCHANGED vars BY <1>4 DEF vars
<1>5. QED BY <1>1, <1>2, <1>3, <1>4 DEF Next

LEMMA SafelistStep == OriginInv /\ SafelistInv /\ [Next]_vars => SafelistInv'
<1> SUFFICES ASSUME OriginInv, SafelistInv, [Next]_vars,
                    "db" \notin Faults, NEW s \in Protected
             PROVE  /\ s \in safelist'
                    /\ \A r \in Reqs : pc'[r] \in Creating => input'[r].scope # s
                    /\ \A m \in Reqs : rows'[m] # NoRow => rows'[m].scope # s
                    /\ \A p \in Pops : rib'[p][s] = NoRule
  BY DEF SafelistInv, Stored
<1>0. /\ TypeInv /\ RowsOwned /\ HandsOwned /\ LoopRead
      /\ s \in safelist
      /\ \A r \in Reqs : pc[r] \in Creating => input[r].scope # s
      /\ \A m \in Reqs : Stored(m) => rows[m].scope # s
      /\ \A p \in Pops : rib[p][s] = NoRule
  BY DEF OriginInv, SafelistInv
<1>1. s \in safelist' BY <1>0, SafelistKept
<1>2. ASSUME NEW r \in Reqs, pc'[r] \in Creating
      PROVE  input'[r].scope # s
  <2>1. CASE pc[r] \in Creating
    BY <1>0, <2>1, HandlerSteps DEF HandlerMoves, Creating
  <2>2. CASE Guard(r)
    <3>1. pc'[r] # "refused" BY <1>2 DEF Creating
    <3>2. input[r].scope \notin safelist /\ input' = input
      BY <1>0, <2>2, <3>1 DEF Guard, SafelistRefuses, Fault, Reply, Goto, TypeInv, TypeOK
    <3>3. QED BY <1>0, <3>2
  <2>3. QED BY <1>0, <1>2, <2>1, <2>2, HandlerSteps DEF HandlerMoves
<1>3. ASSUME NEW m \in Reqs, rows'[m] # NoRow
      PROVE  rows'[m].scope # s
  <2>1. CASE Stored(m)
    BY <1>0, <2>1, RowsKept DEF KeepsRow
  <2>2. CASE ~Stored(m)
    BY <1>0, <1>3, <2>2, RowsKept DEF KeepsRow, Stored
  <2>3. QED BY <2>1, <2>2
<1>4. ASSUME NEW p \in Pops
      PROVE  rib'[p][s] = NoRule
  <2>1. \A q \in Pops : \A h \in todo[q] : h.row.scope # s
    BY <1>0 DEF LoopRead, Provenance
  <2>2. \A r \in Reqs : pc[r] = "announce" => hand[r].row.scope # s
    BY <1>0 DEF HandsOwned, Creating
  <2>3. s \in Scopes BY ConstantsAssumption DEF Protected
  <2>4. RibCell(p, s) BY <1>0, <2>3, RibSteps
  <2>5. QED BY <1>0, <2>1, <2>2, <2>4 DEF RibCell
<1>5. QED BY <1>1, <1>2, <1>3, <1>4

(* A scope the configuration protects for good is never mitigated, while   *)
(* the safelist can be read.                                               *)
THEOREM ProtectedScopes == Spec => []ProtectedNeverMitigated
<1>1. Init => SafelistInv
  BY ConstantsAssumption DEF Init, SafelistInv, Protected, Creating, Stored
<1>2. SafelistInv => ProtectedNeverMitigated
  BY DEF SafelistInv, ProtectedNeverMitigated, Protected, Live
<1>3. QED BY <1>1, <1>2, OriginAlways, SafelistStep, PTL DEF Spec

-----------------------------------------------------------------------------
(* Whose paths remain.                                                     *)

Clean(m) == \A p \in Pops, s \in Scopes : rib[p][s] # NoRule => rib[p][s].by # m

(* A path carries the scope of the request that announced it.              *)
Tagged == \A p \in Pops, s \in Scopes, m \in Reqs :
  rib[p][s] # NoRule /\ rib[p][s].by = m => pc[m] # "new" /\ input[m].scope = s

(* A withdrawal that is recorded only if GoBGP did what it said.           *)
Sure(w) == input[w].kind = "withdraw" \/ "bgp" \notin Faults

WithdrawalsAnswered == \A r \in Reqs :
  /\ pc[r] \in {"withdrawRib", "update"} => input[r].kind \in {"unban", "withdraw"}
  /\ pc[r] = "reject" => "bgp" \in Faults

(* Between a withdrawal and the write of the row the path stays away.      *)
Withdrawing ==
  /\ \A w \in Reqs : pc[w] = "update" /\ Sure(w) => Clean(hand[w].id)
  /\ \A p \in Pops : rpc[p] = "markExpired" /\ "bgp" \notin Faults => Clean(cur[p].id)

Gone(m) == Stored(m) /\ (\/ ~Live(m) /\ "bgp" \notin Faults
                         \/ rows[m].status = "withdrawn" /\ rows[m].why = "operator")

GoneIsClean == \A m \in Reqs : Gone(m) => Clean(m)

RibInv ==
  /\ OriginInv /\ DryRunSilent
  /\ Tagged /\ WithdrawalsAnswered
  /\ SinglePop => Withdrawing /\ GoneIsClean

LEMMA TaggedStep == OriginInv /\ Tagged /\ [Next]_vars => Tagged'
<1> SUFFICES ASSUME OriginInv, Tagged, [Next]_vars, NEW p \in Pops, NEW s \in Scopes,
                    NEW m \in Reqs, rib'[p][s] # NoRule, rib'[p][s].by = m
             PROVE  pc'[m] # "new" /\ input'[m].scope = s
  BY DEF Tagged
<1>1. TypeInv /\ HandsOwned BY DEF OriginInv
<1>2. pc[m] # "new" /\ input[m].scope = s
  BY <1>1, RibSteps, SentinelsAssumption DEF RibCell, Tagged, HandsOwned, Creating
<1>3. QED BY <1>1, <1>2, HandlerSteps DEF HandlerMoves

LEMMA AnsweredStep == TypeInv /\ WithdrawalsAnswered /\ [Next]_vars => WithdrawalsAnswered'
<1> SUFFICES ASSUME TypeInv, WithdrawalsAnswered, [Next]_vars, NEW r \in Reqs
             PROVE  /\ pc'[r] \in {"withdrawRib", "update"} => input'[r].kind \in {"unban", "withdraw"}
                    /\ pc'[r] = "reject" => "bgp" \in Faults
  BY DEF WithdrawalsAnswered
<1>1. ASSUME pc'[r] \in {"withdrawRib", "update"}
      PROVE  input'[r].kind \in {"unban", "withdraw"}
  <2>1. CASE pc[r] \in {"withdrawRib", "update"}
    BY <2>1, HandlerSteps DEF HandlerMoves, WithdrawalsAnswered
  <2>2. ASSUME NEW i \in Inputs, UnbanArrive(r, i) \/ WithdrawArrive(r, i)
        PROVE  input'[r].kind \in {"unban", "withdraw"}
    BY <2>2 DEF UnbanArrive, WithdrawArrive, Receive, TypeInv, TypeOK
  <2>3. QED BY <1>1, <2>1, <2>2, HandlerSteps DEF HandlerMoves
<1>2. ASSUME pc'[r] = "reject" PROVE "bgp" \in Faults
  <2>1. CASE pc[r] = "reject" BY <2>1 DEF WithdrawalsAnswered
  <2>2. CASE Announce(r)
    BY <1>2, <2>2
       DEF Announce, BanAnnounce, CreateAnnounce, CallFails, Fault, Goto, Reply, TypeInv, TypeOK
  <2>3. QED BY <1>2, <2>1, <2>2, HandlerSteps DEF HandlerMoves
<1>3. QED BY <1>1, <1>2

(* No one announces for a stored mitigation but the reconciler.            *)
CleanNext(m) == \A p \in Pops, s \in Scopes : rib'[p][s] # NoRule => rib'[p][s].by # m

LEMMA CleanKept ==
  ASSUME OriginInv, [Next]_vars, NEW m \in Reqs, Stored(m), Clean(m)
  PROVE  CleanNext(m)
<1>1. TypeInv /\ pc[m] # "announce" BY DEF OriginInv, RowsOwned, Replies
<1>2. QED BY <1>1, RibSteps, SentinelsAssumption DEF RibCell, Clean, CleanNext

(* A withdrawal that went through, or in dry run none.                     *)
Withdrew(p, s) == (p \in DryRun /\ NoCall) \/ CallOk(Removed(p, s))

(* Taking the path of a copy's scope away leaves none of its mitigation.   *)
LEMMA RemovalCleans ==
  ASSUME OriginInv, DryRunSilent, Tagged, SinglePop, [Next]_vars,
         NEW p \in Pops, NEW h, Provenance(h),
         Withdrew(p, h.row.scope)
  PROVE  CleanNext(h.id)
<1>1. /\ h.id \in Reqs /\ h.row.scope = input[h.id].scope
      /\ rib \in [Pops -> [Scopes -> Rule \cup {NoRule}]]
  BY DEF OriginInv, RowsOwned, Provenance, TypeInv, TypeOK
<1>2. CASE p \in DryRun /\ NoCall
  BY <1>2 DEF NoCall, DryRunSilent, CleanNext, SinglePop
<1>3. CASE CallOk(Removed(p, h.row.scope))
  <2>1. rib' = Removed(p, h.row.scope) BY <1>3 DEF CallOk
  <2>2. QED BY <1>1, <2>1 DEF Removed, CleanNext, Tagged, SinglePop
<1>4. QED BY <1>2, <1>3 DEF Withdrew

LEMMA WithdrawingStep ==
  ASSUME RibInv, SinglePop, [Next]_vars
  PROVE  Withdrawing'
<1> SUFFICES /\ \A w \in Reqs : pc'[w] = "update" /\ (input'[w].kind = "withdraw" \/ "bgp" \notin Faults)
                   => CleanNext(hand'[w].id)
             /\ \A p \in Pops : rpc'[p] = "markExpired" /\ "bgp" \notin Faults
                   => CleanNext(cur'[p].id)
  BY DEF Withdrawing, Clean, CleanNext, Sure
<1>0. /\ OriginInv /\ TypeInv /\ HandsRead /\ LoopRead /\ DryRunSilent /\ Tagged /\ Withdrawing
      /\ WithdrawalsAnswered
  BY DEF RibInv, OriginInv
<1>1. ASSUME NEW w \in Reqs, pc'[w] = "update",
             input'[w].kind = "withdraw" \/ "bgp" \notin Faults
      PROVE  CleanNext(hand'[w].id)
  <2>1. CASE pc[w] = "update" /\ hand'[w] = hand[w]
    <3>1. Provenance(hand[w]) BY <1>0, <2>1 DEF HandsRead, Altering
    <3>2. input'[w] = input[w] BY <1>0, <2>1, HandlerSteps DEF HandlerMoves
    <3>3. Clean(hand[w].id) BY <1>0, <1>1, <2>1, <3>2 DEF Withdrawing, Sure
    <3>4. QED BY <1>0, <2>1, <3>1, <3>3, CleanKept DEF Provenance
  <2>2. CASE WithdrawRib(w)
    <3>1. pc[w] = "withdrawRib" /\ input' = input /\ hand'[w] = hand[w]
      BY <1>0, <1>1, <2>2
         DEF WithdrawRib, UnbanRemove, WithdrawRemove, Reply, Goto, TypeInv, TypeOK
    <3>2. Provenance(hand[w]) /\ input[w].pop \in Pops
      BY <1>0, <3>1 DEF HandsRead, Altering, TypeInv, InHand, Input
    <3>3. Withdrew(input[w].pop, hand[w].row.scope)
      <4>1. CASE UnbanRemove(w)
        BY <1>1, <3>1, <4>1 DEF Withdrew, UnbanRemove, CallFails, Fault
      <4>2. CASE WithdrawRemove(w)
        BY <1>0, <1>1, <4>2 DEF Withdrew, WithdrawRemove, Reply, Goto, TypeInv, TypeOK
      <4>3. QED BY <2>2, <4>1, <4>2 DEF WithdrawRib
    <3>4. QED BY <1>0, <3>1, <3>2, <3>3, RemovalCleans
  <2>3. QED BY <1>0, <1>1, <2>1, <2>2, HandlerSteps DEF HandlerMoves
<1>2. ASSUME NEW p \in Pops, rpc'[p] = "markExpired", "bgp" \notin Faults
      PROVE  CleanNext(cur'[p].id)
  <2>1. CASE rpc[p] = "markExpired" /\ cur'[p] = cur[p]
    <3>1. Provenance(cur[p]) /\ Clean(cur[p].id) BY <1>0, <1>2, <2>1 DEF LoopRead, Withdrawing
    <3>2. QED BY <1>0, <2>1, <3>1, CleanKept DEF Provenance
  <2>2. CASE ExpireWithdraw(p)
    <3>1. PICK h \in todo[p] :
            /\ Withdrew(p, h.row.scope)
            /\ cur' = [cur EXCEPT ![p] = h]
      BY <1>2, <2>2 DEF Withdrew, ExpireWithdraw, CallFails, Fault
    <3>2. Provenance(h) /\ cur'[p] = h BY <1>0, <3>1 DEF LoopRead, TypeInv, TypeOK
    <3>3. QED BY <1>0, <3>1, <3>2, RemovalCleans
  <2>3. QED BY <1>0, <1>2, <2>1, <2>2, LoopSteps DEF LoopMoves
<1>3. QED BY <1>1, <1>2

(* A row is ended only by a step that finds the place clean.               *)
GoneNext(m) == /\ rows'[m] # NoRow
               /\ \/ rows'[m].status \notin LiveStatuses /\ "bgp" \notin Faults
                  \/ rows'[m].status = "withdrawn" /\ rows'[m].why = "operator"

LEMMA GoneStep ==
  ASSUME RibInv, SinglePop, [Next]_vars
  PROVE  GoneIsClean'
<1> SUFFICES ASSUME NEW m \in Reqs, GoneNext(m) PROVE CleanNext(m)
  BY DEF GoneIsClean, Gone, GoneNext, Clean, CleanNext, Live, Stored
<1>0. /\ OriginInv /\ TypeOK /\ InHand /\ HandsRead /\ Withdrawing /\ GoneIsClean
      /\ WithdrawalsAnswered
  BY DEF RibInv, OriginInv, TypeInv
<1>1. CASE rows'[m] = rows[m]
  <2>1. Gone(m) /\ Stored(m) BY <1>1 DEF GoneNext, Gone, Live, Stored
  <2>2. QED BY <1>0, <2>1, CleanKept DEF GoneIsClean
<1>2. ASSUME NEW r \in Reqs, BanExtend(r), rows'[m] # rows[m] PROVE FALSE
  <2>1. hand[r].row.status \in LiveStatuses /\ rows' = [rows EXCEPT ![hand[r].id] = hand[r].row]
    BY <1>0, <1>2 DEF BanExtend, Write, HandsRead, Altering
  <2>2. rows'[m] = hand[r].row BY <1>0, <1>2, <2>1 DEF TypeOK
  <2>3. QED BY <2>1, <2>2 DEF GoneNext, LiveStatuses
<1>3. ASSUME NEW r \in Reqs, Insert(r), rows'[m] # rows[m] PROVE FALSE
  <2>1. hand[r].row \in Row /\ rows' = [rows EXCEPT ![r] = Activated(hand[r].row)]
    BY <1>0, <1>3 DEF Insert, Write, InHand, HandSteps, Hand
  <2>2. rows'[m].status = "active" BY <1>0, <1>3, <2>1 DEF Activated, Row, TypeOK
  <2>3. QED BY <2>2 DEF LiveStatuses, GoneNext
<1>4. ASSUME NEW r \in Reqs, InsertRejected(r), rows'[m] # rows[m] PROVE FALSE
  <2>1. hand[r].row \in Row /\ rows' = [rows EXCEPT ![r] = [hand[r].row EXCEPT !.status = "rejected"]]
    BY <1>0, <1>4 DEF InsertRejected, Write, InHand, HandSteps, Hand
  <2>2. rows'[m].status = "rejected" BY <1>0, <1>4, <2>1 DEF Row, TypeOK
  <2>3. QED BY <1>0, <1>4, <2>2 DEF InsertRejected, GoneNext, WithdrawalsAnswered
<1>5. ASSUME NEW r \in Reqs, MarkWithdrawn(r), rows'[m] # rows[m] PROVE CleanNext(m)
  <2>1. hand[r] \in Hand /\ hand[r].id = m /\ rib' = rib /\ pc[r] = "update"
    BY <1>0, <1>5 DEF MarkWithdrawn, Write, InHand, HandSteps
  <2>2. rows'[m].why = "operator" => input[r].kind # "unban"
    BY <1>0, <1>5, <2>1 DEF MarkWithdrawn, Write, Hand, Row
  <2>3. Sure(r) BY <1>0, <2>1, <2>2 DEF Sure, GoneNext, WithdrawalsAnswered
  <2>4. QED BY <1>0, <2>1, <2>3 DEF Withdrawing, Clean, CleanNext
<1>6. ASSUME NEW p \in Pops, MarkExpired(p), rows'[m] # rows[m] PROVE CleanNext(m)
  <2>1. cur[p] \in Hand /\ cur[p].id = m /\ rib' = rib /\ rpc[p] = "markExpired"
    BY <1>0, <1>6 DEF MarkExpired, Write, InHand
  <2>2. rows'[m].status = "expired"
    BY <1>0, <1>6, <2>1 DEF MarkExpired, Write, Hand, Row
  <2>3. QED BY <1>0, <2>1, <2>2 DEF Withdrawing, Clean, CleanNext, GoneNext
<1>7. QED BY RowWrites, <1>1, <1>2, <1>3, <1>4, <1>5, <1>6

LEMMA RibStep == RibInv /\ [Next]_vars => RibInv'
<1> SUFFICES ASSUME RibInv, [Next]_vars PROVE RibInv'
  OBVIOUS
<1>1. OriginInv /\ TypeInv /\ Tagged /\ WithdrawalsAnswered /\ DryRunSilent
  BY DEF RibInv, OriginInv
<1>2. DryRunSilent' BY <1>1, DryRunStep
<1>3. OriginInv' /\ Tagged' /\ WithdrawalsAnswered'
  BY <1>1, OriginStep, TaggedStep, AnsweredStep
<1>4. SinglePop => Withdrawing' /\ GoneIsClean' BY WithdrawingStep, GoneStep
<1>5. QED BY <1>2, <1>3, <1>4 DEF RibInv, SinglePop

LEMMA RibAlways == Spec => []RibInv
<1>1. Init => RibInv
  <2> SUFFICES ASSUME Init PROVE RibInv
    OBVIOUS
  <2>1. OriginInv BY OriginInit
  <2>2. DryRunSilent /\ Tagged /\ WithdrawalsAnswered
    BY ConstantsAssumption DEF Init, DryRunSilent, Tagged, WithdrawalsAnswered
  <2>3. Withdrawing /\ GoneIsClean
    BY DEF Init, Withdrawing, GoneIsClean, Gone, Stored
  <2>4. QED BY <2>1, <2>2, <2>3 DEF RibInv
<1>2. QED BY <1>1, RibStep, PTL DEF Spec

(* While GoBGP answers truly, a path a mitigation announced itself is gone *)
(* when the mitigation has ended, under every other fault.                 *)
THEOREM RulesHaveLiveOwners == Spec => []RuleHasLiveOwner
<1>1. RibInv => RuleHasLiveOwner
  BY DEF RibInv, RuleHasLiveOwner, GoneIsClean, Gone, Clean
<1>2. QED BY <1>1, RibAlways, PTL

(* What an operator withdrew is gone, under every fault of the model.      *)
THEOREM OperatorWithdrawals == Spec => []OperatorWithdrawalSticks
<1>1. RibInv => OperatorWithdrawalSticks
  BY DEF RibInv, OperatorWithdrawalSticks, GoneIsClean, Gone, Clean
<1>2. QED BY <1>1, RibAlways, PTL

-----------------------------------------------------------------------------
(* Bans.                                                                   *)

(* Where a handler may have an effect, or is on its way to one.            *)
Bound == {"lookup", "extend", "guard", "announce", "insert", "reject", "extended"}

(* A ban gets there only by storing its event first.                       *)
Committed == \A r \in Reqs :
  pc[r] # "new" /\ input[r].kind = "ban" /\ (pc[r] \in Bound \/ Acted(r)) => r \in events

LEMMA EventsStay == ASSUME [Next]_vars PROVE events \subseteq events'
<1>1. ASSUME NEW r \in Reqs, BanStore(r) PROVE events \subseteq events'
  BY <1>1 DEF BanStore
<1>2. ASSUME NEW r \in Reqs, NEW i \in Inputs, UnbanArrive(r, i) PROVE events \subseteq events'
  BY <1>2 DEF UnbanArrive
<1> QED
  BY EventWrites, <1>1, <1>2

(* The steps that lead a handler there.                                    *)
BoundMoves(r) ==
  pc'[r] \in Bound => pc[r] \in Bound \/ r \in events' \/ input'[r].kind = "create"

LEMMA BoundSteps ==
  ASSUME TypeInv, [Next]_vars, NEW r \in Reqs
  PROVE  BoundMoves(r)
<1> USE DEF TypeInv, TypeOK, BoundMoves, Bound, handlers, Goto, Reply, Receive
<1>1. ASSUME NEW q \in Reqs, NEW i \in Inputs, BanArrive(q, i) \/ CreateArrive(q, i)
      PROVE  BoundMoves(r)
  BY <1>1 DEF BanArrive, CreateArrive
<1>2. ASSUME NEW q \in Reqs, NEW i \in Inputs, UnbanArrive(q, i) \/ WithdrawArrive(q, i)
      PROVE  BoundMoves(r)
  BY <1>2 DEF UnbanArrive, WithdrawArrive
<1>3. ASSUME NEW q \in Reqs, BanStore(q) \/ BanLookup(q) \/ BanExtend(q) \/ Guard(q) \/ Abort(q)
      PROVE  BoundMoves(r)
  BY <1>3 DEF BanStore, BanLookup, BanExtend, Guard, Abort
<1>4. ASSUME NEW q \in Reqs, \/ BanAnnounce(q) \/ CreateAnnounce(q) \/ Insert(q) \/ InsertRejected(q)
                             \/ UnbanRemove(q) \/ WithdrawRemove(q) \/ MarkWithdrawn(q)
      PROVE  BoundMoves(r)
  BY <1>4 DEF BanAnnounce, CreateAnnounce, Insert, InsertRejected, UnbanRemove, WithdrawRemove,
              MarkWithdrawn
<1>5. ASSUME NEW p \in Pops, Reconcile(p) \/ CycleFails(p)
      PROVE  BoundMoves(r)
  BY <1>5 DEF Reconcile, CycleFails, ExpireFind, ExpireWithdraw, MarkExpired, SyncList,
              SyncCompare, SyncAnnounce, SyncDone
<1>6. CASE Environment
  <2>1. ASSUME NEW p \in Pops, Restart(p)
        PROVE  BoundMoves(r)
    BY <2>1 DEF Restart
  <2>2. CASE pc' = pc
    BY <2>2
  <2> QED
    BY <1>6, <2>1, <2>2
       DEF Environment, Tick, AddSafelist, RemoveSafelist, GobgpRestart, TriggerShutdown
<1>7. CASE UNCHANGED vars
  BY <1>7 DEF vars
<1> QED
  BY <1>1, <1>2, <1>3, <1>4, <1>5, <1>6, <1>7 DEF Next, Arrive, Serve

(* An effect is of a request that was at one of these steps.               *)
LEMMA EffectSteps ==
  ASSUME OriginInv, Tagged, [Next]_vars, NEW r \in Reqs, Acted(r)'
  PROVE  (Acted(r) /\ pc[r] # "new") \/ pc[r] \in Bound \/ pc'[r] \in Bound
<1>1. CASE Stored(r)'
  <2>1. Stored(r) => pc[r] # "new"
    BY DEF OriginInv, RowsOwned, Replies
  <2> QED
    BY <1>1, <2>1, RowsKept DEF KeepsRow, Acted, Creating, Bound
<1>2. CASE pc'[r] = "extended"
  BY <1>2 DEF Bound
<1>3. ASSUME NEW p \in Pops, NEW s \in Scopes, rib'[p][s] # NoRule, rib'[p][s].by = r
      PROVE  (Acted(r) /\ pc[r] # "new") \/ pc[r] \in Bound
  BY <1>3, RibSteps, SentinelsAssumption DEF OriginInv, RibCell, Acted, Tagged, Bound
<1> QED
  BY <1>1, <1>2, <1>3 DEF Acted

LEMMA CommittedStep == OriginInv /\ Tagged /\ Committed /\ [Next]_vars => Committed'
<1> SUFFICES ASSUME OriginInv, Tagged, Committed, [Next]_vars,
                    NEW r \in Reqs, pc'[r] # "new", input'[r].kind = "ban",
                    pc'[r] \in Bound \/ Acted(r)'
             PROVE  r \in events'
  BY DEF Committed
<1>1. \/ pc[r] # "new" /\ (pc[r] \in Bound \/ Acted(r))
      \/ r \in events'
  BY BoundSteps, EffectSteps DEF BoundMoves, OriginInv, Bound
<1>2. pc[r] # "new" => input'[r] = input[r]
  BY HandlerSteps DEF HandlerMoves, OriginInv
<1> QED
  BY <1>1, <1>2, EventsStay DEF Committed

(* However many copies of a detector's ban arrive, and however far they    *)
(* get past the duplicate check, one of them at most has an effect.        *)
THEOREM BansActOnce == Spec => []BanActsOnce
<1>1. Init => Committed
  BY DEF Init, Committed
<1>2. RibInv => OriginInv /\ Tagged
  BY DEF RibInv
<1>3. EventInv /\ Committed => BanActsOnce
  <2> SUFFICES ASSUME EventInv, Committed, NEW k \in Keys,
                      NEW d \in BansOf(k), NEW e \in BansOf(k), Acted(d), Acted(e)
               PROVE  d = e
    BY DEF BanActsOnce
  <2>1. d \in events /\ e \in events /\ input[d].key = k /\ input[e].key = k
    BY DEF Committed, BansOf
  <2> QED
    BY <2>1, ConstantsAssumption DEF EventInv
<1> QED
  BY <1>1, <1>2, <1>3, EventAlways, RibAlways, CommittedStep, PTL DEF Spec
=============================================================================
