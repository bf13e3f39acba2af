------------------------------ MODULE Prefixd ------------------------------
(***************************************************************************)
(* The control plane of prefixd: the HTTP handlers that create, extend and *)
(* withdraw mitigations, the reconciliation loop, the PostgreSQL rows they *)
(* share and the GoBGP RIB they program.  Each action is what the code     *)
(* does between two awaits: one query, one gRPC call, or one start of a    *)
(* handler; what a handler read earlier sits in its hand until it is used. *)
(*                                                                         *)
(* A request r mints one event UUID and one mitigation UUID; both are      *)
(* named r, so rows[r] is the mitigation request r created.                *)
(***************************************************************************)
EXTENDS Naturals, FiniteSets

CONSTANTS
  Pops,            (* the prefixd instances, one per POP, on one database   *)
  Scopes,          (* what scope_hash and nlri_hash tell apart              *)
  Customers, NoCustomer, CustomerOf,
  Keys, NoKey,     (* (source, event_id) of a detector; NoKey: event_id None*)
  Acts,            (* flowspec actions, police or discard                   *)
  MaxTtl,
  Reqs,            (* the requests of a behaviour; each is served once      *)
  Inputs,          (* what a request may carry                              *)
  Mitigable,       (* scopes the inventory owns and a playbook matches      *)
  ConfigSafelist,  (* safelist.prefixes of prefixd.yaml                     *)
  SafelistEdits,   (* scopes the safelist API may add or remove             *)
  MaxPerCustomer, MaxPerPop, MaxGlobal,
  DryRun,          (* the POPs whose instance runs in dry-run mode          *)
  Faults,          (* which faults may happen                               *)
  MaxFaults,       (* bound on their number                                 *)
  MaxTime,         (* bound on the clock                                    *)
  NoRow, NoRule, NoHand, NoInput, Sync

FaultKinds == {"db", "bgp", "ribloss", "abort", "crash", "shutdown"}

LiveStatuses == {"pending", "active", "escalated"}
Statuses == LiveStatuses \cup {"expired", "withdrawn", "rejected"}

(* A row of the mitigations table; "why" is the part of the reason column  *)
(* the writers tell apart.                                                 *)
Row == [scope : Scopes, pop : Pops, act : Acts, status : Statuses,
        exp : 0..(MaxTime + MaxTtl), why : {"policy", "operator", "unban"}]

(* A mitigation held in memory by a handler or by the reconciler.          *)
Hand == [id : Reqs, row : Row]

(* A path of the GoBGP RIB.  The code sees only its action; "by" is a      *)
(* history tag, the request (or the reconciler) that announced it last.    *)
Rule == [act : Acts, by : Reqs \cup {Sync}]

Input == [kind : {"ban", "unban", "create", "withdraw"}, pop : Pops,
          key : Keys \cup {NoKey}, scope : Scopes, act : Acts, ttl : 0..MaxTtl]

ASSUME ConstantsAssumption ==
  /\ MaxTime \in Nat /\ MaxTtl \in Nat /\ MaxFaults \in Nat
  /\ MaxPerCustomer \in Nat /\ MaxPerPop \in Nat /\ MaxGlobal \in Nat
  /\ IsFiniteSet(Reqs)
  /\ CustomerOf \in [Scopes -> Customers \cup {NoCustomer}]
  /\ NoKey \notin Keys
  /\ Inputs \subseteq Input
  /\ ConfigSafelist \subseteq Scopes /\ SafelistEdits \subseteq Scopes
  /\ DryRun \subseteq Pops
  /\ Faults \subseteq FaultKinds

ASSUME SentinelsAssumption ==
  /\ NoRow \notin Row /\ NoRule \notin Rule /\ NoHand \notin Hand
  /\ NoInput \notin Input /\ Sync \notin Reqs

Replies == {"accepted", "extended", "withdrawn", "ignored", "refused", "error"}
Steps == {"store", "lookup", "extend", "guard", "announce", "insert", "reject",
          "withdrawRib", "update"}

VARIABLES
  now,        (* the clock every instance reads                            *)
  safelist,   (* table safelist                                            *)
  events,     (* table events: the requests whose event is stored          *)
  rows,       (* table mitigations                                         *)
  rib,        (* per POP, the FlowSpec paths GoBGP holds                   *)
  shutdown,   (* per POP, AppState.shutting_down                           *)
  pc, input, hand,   (* per request, where its handler is and what it holds*)
  rpc, todo, cur,    (* per POP, the same for the reconciliation loop      *)
  faults      (* how many faults have happened                             *)

db == <<safelist, events, rows>>
handlers == <<pc, input, hand>>
loop == <<rpc, todo, cur>>
vars == <<now, safelist, events, rows, rib, shutdown, pc, input, hand,
          rpc, todo, cur, faults>>

Init ==
  /\ now = 0
  /\ safelist = ConfigSafelist
  /\ events = {}
  /\ rows = [m \in Reqs |-> NoRow]
  /\ rib = [p \in Pops |-> [s \in Scopes |-> NoRule]]
  /\ shutdown = [p \in Pops |-> FALSE]
  /\ pc = [r \in Reqs |-> "new"]
  /\ input = [r \in Reqs |-> NoInput]
  /\ hand = [r \in Reqs |-> NoHand]
  /\ rpc = [p \in Pops |-> "idle"]
  /\ todo = [p \in Pops |-> {}]
  /\ cur = [p \in Pops |-> NoHand]
  /\ faults = 0

Fault(f) == f \in Faults /\ faults < MaxFaults /\ faults' = faults + 1
NoFault == UNCHANGED faults

-----------------------------------------------------------------------------
(* The database.                                                           *)

Stored(m) == rows[m] # NoRow
LiveMutant(m) == Stored(m) /\ rows[m].status \notin {"expired", "withdrawn"}
Live(m) == Stored(m) /\ rows[m].status \in LiveStatuses

(* The ban event find_ban_event_by_external_id returns.                    *)
BanEvents(k) == {e \in events : k # NoKey /\ input[e].kind = "ban" /\ input[e].key = k}

(* INSERT INTO events: UNIQUE(source, external_event_id), NULLs distinct.  *)
KeyFreeMutant(k) == TRUE
KeyFree(k) == k = NoKey \/ \A e \in events : input[e].key # k

(* The partial unique index on (scope_hash, pop) of the live rows, which   *)
(* an INSERT or an UPDATE of row m to "row" must respect.                  *)
IndexAllowsMutant(m, row) == TRUE
IndexAllows(m, row) ==
  row.status \in LiveStatuses =>
    \A n \in Reqs \ {m} : Live(n) => rows[n].scope # row.scope \/ rows[n].pop # row.pop

(* update_mitigation writes the whole row it is given, whatever the row    *)
(* has become since it was read.                                           *)
Write(m, row) == rows' = [rows EXCEPT ![m] = row]

(* find_expired_mitigations, on every POP's rows.                          *)
PastTtlMutant(m) == rows[m].exp <= now
PastTtl(m) == rows[m].exp < now
Syncable(m) == Stored(m) /\ rows[m].status \in {"active", "escalated"}
Expired == {m \in Reqs : Syncable(m) /\ PastTtl(m)}

LiveOfCustomer(c) == {m \in Reqs : Live(m) /\ CustomerOf[rows[m].scope] = c}
LiveOfPop(p) == {m \in Reqs : Live(m) /\ rows[m].pop = p}
LiveRows == {m \in Reqs : Live(m)}

QuotaLeft(i) ==
  /\ \/ CustomerOf[i.scope] = NoCustomer
     \/ Cardinality(LiveOfCustomer(CustomerOf[i.scope])) < MaxPerCustomer
  /\ Cardinality(LiveOfPop(i.pop)) < MaxPerPop
  /\ Cardinality(LiveRows) < MaxGlobal

-----------------------------------------------------------------------------
(* The GoBGP sidecar of POP p.                                             *)

Announced(p, s, a, by) == [rib EXCEPT ![p][s] = [act |-> a, by |-> by]]
RemovedMutant(p, s) == IF rib[p][s] # NoRule /\ rib[p][s].act = "discard" THEN rib
                       ELSE [rib EXCEPT ![p][s] = NoRule]
Removed(p, s) == [rib EXCEPT ![p][s] = NoRule]

(* A call that succeeds leaves "after"; one that fails after its retries   *)
(* may have been applied all the same.  Whoever calls asks first whether   *)
(* this is a dry run, each in its own place.                               *)
CallOk(after) == NoFault /\ rib' = after
CallFails(after) == Fault("bgp") /\ rib' \in {rib, after}
NoCall == NoFault /\ UNCHANGED rib

-----------------------------------------------------------------------------
(* Handlers.                                                               *)

Goto(r, l) == pc' = [pc EXCEPT ![r] = l]
Take(r, h) == hand' = [hand EXCEPT ![r] = h]
Reply(r, l) == Goto(r, l) /\ Take(r, NoHand)
Receive(r, i) == pc[r] = "new" /\ input' = [input EXCEPT ![r] = i]

(* handle_ban up to the duplicate check; a failing query counts as "no".   *)
BanArrive(r, i) ==
  /\ i.kind = "ban"
  /\ Receive(r, i)
  /\ \/ BanEvents(i.key) # {} /\ Reply(r, "refused") /\ NoFault
     \/ /\ \/ BanEvents(i.key) = {} /\ NoFault
           \/ BanEvents(i.key) # {} /\ Fault("db")
        /\ Goto(r, "store") /\ UNCHANGED hand
  /\ UNCHANGED <<now, db, rib, shutdown, loop>>

(* The insert of the event, then the shutdown flag, inventory and playbook *)
(* checks, all before the next await that matters.                         *)
BanStore(r) ==
  /\ pc[r] = "store"
  /\ \/ /\ ~KeyFree(input[r].key)
        /\ Reply(r, "error")
        /\ UNCHANGED events
     \/ /\ KeyFree(input[r].key)
        /\ events' = events \cup {r}
        /\ \/ shutdown[input[r].pop] /\ Reply(r, "refused")
           \/ /\ ~shutdown[input[r].pop] /\ input[r].scope \notin Mitigable
              /\ Reply(r, "ignored")
           \/ /\ ~shutdown[input[r].pop] /\ input[r].scope \in Mitigable
              /\ Goto(r, "lookup") /\ UNCHANGED hand
  /\ UNCHANGED <<now, safelist, rows, rib, shutdown, input, loop, faults>>

Later(a, b) == IF a > b THEN a ELSE b

(* Mitigation::extend_ttl.                                                 *)
ExtendedMutant(row, ttl) == [row EXCEPT !.exp = @ + ttl]
Extended(row, ttl) == [row EXCEPT !.exp = Later(@, now + ttl)]

InScope(i) == {m \in Reqs : Live(m) /\ rows[m].scope = i.scope /\ rows[m].pop = i.pop}

(* find_active_by_scope; a failing query counts as "none".                 *)
BanLookup(r) ==
  /\ pc[r] = "lookup"
  /\ \/ /\ \E m \in InScope(input[r]) :
             Take(r, [id |-> m, row |-> Extended(rows[m], input[r].ttl)])
        /\ Goto(r, "extend") /\ NoFault
     \/ /\ \/ InScope(input[r]) = {} /\ NoFault
           \/ InScope(input[r]) # {} /\ Fault("db")
        /\ Goto(r, "guard") /\ UNCHANGED hand
  /\ UNCHANGED <<now, db, rib, shutdown, input, loop>>

(* The update of the extended row; neither safelist nor quota is asked.    *)
BanExtend(r) ==
  /\ pc[r] = "extend"
  /\ IF IndexAllows(hand[r].id, hand[r].row)
     THEN Write(hand[r].id, hand[r].row) /\ Goto(r, "extended") /\ UNCHANGED hand
     ELSE UNCHANGED rows /\ Reply(r, "error")
  /\ UNCHANGED <<now, safelist, events, rib, shutdown, input, loop, faults>>

(* create_mitigation looks no scope up and starts at the guardrails.       *)
CreateArrive(r, i) ==
  /\ i.kind = "create"
  /\ Receive(r, i)
  /\ Goto(r, "guard")
  /\ UNCHANGED <<now, db, rib, shutdown, hand, loop, faults>>

NewRow(i) == [scope |-> i.scope, pop |-> i.pop, act |-> i.act, status |-> "pending",
              exp |-> now + i.ttl, why |-> "policy"]

(* Guardrails::validate after is_safelisted(..).unwrap_or(false), then     *)
(* Mitigation::from_intent; shared by both ways to create a mitigation.    *)
SafelistRefusesMutant(i) == i.kind = "ban" /\ i.scope \in safelist
SafelistRefuses(i) == i.scope \in safelist
Guard(r) ==
  /\ pc[r] = "guard"
  /\ \/ /\ SafelistRefuses(input[r]) \/ ~QuotaLeft(input[r])
        /\ Reply(r, "refused") /\ NoFault
     \/ /\ QuotaLeft(input[r])
        /\ \/ ~SafelistRefuses(input[r]) /\ NoFault
           \/ SafelistRefuses(input[r]) /\ Fault("db")
        /\ Goto(r, "announce")
        /\ Take(r, [id |-> r, row |-> NewRow(input[r])])
  /\ UNCHANGED <<now, db, rib, shutdown, input, loop>>

(* A failed announcement is recorded of a detector's ban only.             *)
BanAnnounce(r) ==
  LET p == input[r].pop
      after == Announced(p, hand[r].row.scope, hand[r].row.act, r)
  IN
  /\ pc[r] = "announce" /\ input[r].kind = "ban"
  /\ \/ /\ \/ p \in DryRun /\ NoCall
           \/ p \notin DryRun /\ CallOk(after)
        /\ Goto(r, "insert")
     \/ p \notin DryRun /\ CallFails(after) /\ Goto(r, "reject")
  /\ UNCHANGED <<now, db, shutdown, input, hand, loop>>

CreateAnnounce(r) ==
  LET p == input[r].pop
      after == Announced(p, hand[r].row.scope, hand[r].row.act, r)
  IN
  /\ pc[r] = "announce" /\ input[r].kind = "create"
  /\ \/ /\ \/ p \in DryRun /\ NoCall
           \/ p \notin DryRun /\ CallOk(after)
        /\ Goto(r, "insert") /\ UNCHANGED hand
     \/ p \notin DryRun /\ CallFails(after) /\ Reply(r, "error")
  /\ UNCHANGED <<now, db, shutdown, input, loop>>

(* Mitigation::activate, in memory.                                        *)
ActivatedMutant(row) == row
Activated(row) == [row EXCEPT !.status = "active"]

Insert(r) ==
  LET row == Activated(hand[r].row) IN
  /\ pc[r] = "insert"
  /\ IF IndexAllows(r, row)
     THEN Write(r, row) /\ Reply(r, "accepted")
     ELSE UNCHANGED rows /\ Reply(r, "error")
  /\ UNCHANGED <<now, safelist, events, rib, shutdown, input, loop, faults>>

InsertRejected(r) ==
  /\ pc[r] = "reject"
  /\ Write(r, [hand[r].row EXCEPT !.status = "rejected"])
  /\ Reply(r, "error")
  /\ UNCHANGED <<now, safelist, events, rib, shutdown, input, loop, faults>>

(* handle_unban up to the withdrawal.  A stored ban event never goes away, *)
(* so its two lookups read as one; storing the unban event fails on the    *)
(* ban's key and the failure is ignored.                                   *)
UnbanArrive(r, i) ==
  /\ i.kind = "unban"
  /\ Receive(r, i)
  /\ \/ /\ {e \in BanEvents(i.key) : Live(e)} = {}
        /\ Reply(r, "ignored") /\ UNCHANGED events
     \/ \E e \in BanEvents(i.key) :
          /\ Live(e)
          /\ Take(r, [id |-> e, row |-> rows[e]])
          /\ Goto(r, "withdrawRib")
          /\ events' = IF KeyFree(i.key) THEN events \cup {r} ELSE events
  /\ UNCHANGED <<now, safelist, rows, rib, shutdown, loop, faults>>

(* withdraw_mitigation up to the withdrawal, for any id and on any POP.    *)
WithdrawArrive(r, i) ==
  /\ i.kind = "withdraw"
  /\ Receive(r, i)
  /\ \E m \in Reqs :
       /\ Stored(m)
       /\ \/ Live(m) /\ Take(r, [id |-> m, row |-> rows[m]]) /\ Goto(r, "withdrawRib")
          \/ ~Live(m) /\ Reply(r, "refused")
  /\ UNCHANGED <<now, db, rib, shutdown, loop, faults>>

(* The detector's unban goes on when GoBGP fails, the operator's           *)
(* withdrawal does not.                                                    *)
UnbanRemove(r) ==
  LET p == input[r].pop
      after == Removed(p, hand[r].row.scope)
  IN
  /\ pc[r] = "withdrawRib" /\ input[r].kind = "unban"
  /\ \/ p \in DryRun /\ NoCall
     \/ p \notin DryRun /\ (CallOk(after) \/ CallFails(after))
  /\ Goto(r, "update")
  /\ UNCHANGED <<now, db, shutdown, input, hand, loop>>

LoggedOnlyMutant(r) ==
  LET p == input[r].pop
      after == Removed(p, hand[r].row.scope)
  IN
  /\ pc[r] = "withdrawRib" /\ input[r].kind = "withdraw"
  /\ \/ p \in DryRun /\ NoCall
     \/ p \notin DryRun /\ (CallOk(after) \/ CallFails(after))
  /\ Goto(r, "update")
  /\ UNCHANGED <<now, db, shutdown, input, hand, loop>>
WithdrawRemove(r) ==
  LET p == input[r].pop
      after == Removed(p, hand[r].row.scope)
  IN
  /\ pc[r] = "withdrawRib" /\ input[r].kind = "withdraw"
  /\ \/ /\ \/ p \in DryRun /\ NoCall
           \/ p \notin DryRun /\ CallOk(after)
        /\ Goto(r, "update") /\ UNCHANGED hand
     \/ p \notin DryRun /\ CallFails(after) /\ Reply(r, "error")
  /\ UNCHANGED <<now, db, shutdown, input, loop>>

MarkWithdrawn(r) ==
  /\ pc[r] = "update"
  /\ Write(hand[r].id,
           [hand[r].row EXCEPT !.status = "withdrawn",
              !.why = IF input[r].kind = "unban" THEN "unban" ELSE "operator"])
  /\ Reply(r, "withdrawn")
  /\ UNCHANGED <<now, safelist, events, rib, shutdown, input, loop, faults>>

(* A handler stops short: a query it does not ignore fails, or its client  *)
(* disconnects and the server drops the future.                            *)
Abort(r) ==
  /\ pc[r] \in Steps
  /\ Fault("abort")
  /\ Reply(r, "error")
  /\ UNCHANGED <<now, db, rib, shutdown, input, loop>>

Serve(r) ==
  \/ BanStore(r) \/ BanLookup(r) \/ BanExtend(r) \/ Guard(r)
  \/ BanAnnounce(r) \/ CreateAnnounce(r) \/ Insert(r) \/ InsertRejected(r)
  \/ UnbanRemove(r) \/ WithdrawRemove(r) \/ MarkWithdrawn(r)

Arrive(r) ==
  \E i \in Inputs :
    BanArrive(r, i) \/ CreateArrive(r, i) \/ UnbanArrive(r, i) \/ WithdrawArrive(r, i)

-----------------------------------------------------------------------------
(* The reconciliation loop of POP p.                                       *)

RGoto(p, l) == rpc' = [rpc EXCEPT ![p] = l]
Todo(p, hs) == todo' = [todo EXCEPT ![p] = hs]
Snapshot(ms) == {[id |-> m, row |-> rows[m]] : m \in ms}

ExpireFind(p) ==
  /\ rpc[p] = "idle" /\ ~shutdown[p]
  /\ Todo(p, Snapshot(Expired))
  /\ RGoto(p, "expire")
  /\ UNCHANGED <<now, db, rib, shutdown, handlers, cur, faults>>

(* A failed withdrawal is only logged.                                     *)
ExpireWithdraw(p) ==
  /\ rpc[p] = "expire"
  /\ \E h \in todo[p] :
       LET after == Removed(p, h.row.scope) IN
       /\ \/ p \in DryRun /\ NoCall
          \/ p \notin DryRun /\ (CallOk(after) \/ CallFails(after))
       /\ cur' = [cur EXCEPT ![p] = h]
       /\ Todo(p, todo[p] \ {h})
  /\ RGoto(p, "markExpired")
  /\ UNCHANGED <<now, db, shutdown, handlers>>

MarkExpired(p) ==
  /\ rpc[p] = "markExpired"
  /\ Write(cur[p].id, [cur[p].row EXCEPT !.status = "expired"])
  /\ cur' = [cur EXCEPT ![p] = NoHand]
  /\ RGoto(p, "expire")
  /\ UNCHANGED <<now, safelist, events, rib, shutdown, handlers, todo, faults>>

(* The desired state: active rows, of every POP.                           *)
SyncList(p) ==
  /\ rpc[p] = "expire" /\ todo[p] = {}
  /\ Todo(p, Snapshot({m \in Reqs : Syncable(m)}))
  /\ RGoto(p, "compare")
  /\ UNCHANGED <<now, db, rib, shutdown, handlers, cur, faults>>

IsMissingMutant(p, h) == rib[p][h.row.scope] # NoRule
IsMissing(p, h) == rib[p][h.row.scope] = NoRule

(* list_active, which swallows errors and then lists nothing; only the     *)
(* missing rules stay to do, the unknown ones are logged.                  *)
SyncCompare(p) ==
  /\ rpc[p] = "compare"
  /\ \/ Todo(p, {h \in todo[p] : IsMissing(p, h)}) /\ NoFault
     \/ Fault("bgp") /\ UNCHANGED todo
  /\ RGoto(p, "announce")
  /\ UNCHANGED <<now, db, rib, shutdown, handlers, cur>>

SyncAnnounce(p) ==
  /\ rpc[p] = "announce"
  /\ \E h \in todo[p] :
       LET after == Announced(p, h.row.scope, h.row.act, Sync) IN
       /\ \/ p \in DryRun /\ NoCall
          \/ p \notin DryRun /\ (CallOk(after) \/ CallFails(after))
       /\ Todo(p, todo[p] \ {h})
  /\ UNCHANGED <<now, db, shutdown, handlers, rpc, cur>>

SyncDone(p) ==
  /\ rpc[p] = "announce" /\ todo[p] = {}
  /\ RGoto(p, "idle")
  /\ UNCHANGED <<now, db, rib, shutdown, handlers, todo, cur, faults>>

(* A failing query ends the cycle where it is.                             *)
CycleFails(p) ==
  /\ rpc[p] \in {"expire", "markExpired"}
  /\ Fault("db")
  /\ RGoto(p, "idle") /\ Todo(p, {})
  /\ cur' = [cur EXCEPT ![p] = NoHand]
  /\ UNCHANGED <<now, db, rib, shutdown, handlers>>

Reconcile(p) ==
  \/ ExpireFind(p) \/ ExpireWithdraw(p) \/ MarkExpired(p)
  \/ SyncList(p) \/ SyncCompare(p) \/ SyncAnnounce(p) \/ SyncDone(p)

-----------------------------------------------------------------------------
(* The environment.                                                        *)

Tick ==
  /\ now < MaxTime
  /\ now' = now + 1
  /\ UNCHANGED <<db, rib, shutdown, handlers, loop, faults>>

AddSafelist(s) ==
  /\ s \notin safelist
  /\ safelist' = safelist \cup {s}
  /\ UNCHANGED <<now, events, rows, rib, shutdown, handlers, loop, faults>>

RemoveSafelist(s) ==
  /\ s \in safelist
  /\ safelist' = safelist \ {s}
  /\ UNCHANGED <<now, events, rows, rib, shutdown, handlers, loop, faults>>

(* GoBGP restarts and loses the paths it was given.                        *)
GobgpRestart(p) ==
  /\ Fault("ribloss")
  /\ rib' = [rib EXCEPT ![p] = [s \in Scopes |-> NoRule]]
  /\ UNCHANGED <<now, db, shutdown, handlers, loop>>

TriggerShutdown(p) ==
  /\ ~shutdown[p]
  /\ Fault("shutdown")
  /\ shutdown' = [shutdown EXCEPT ![p] = TRUE]
  /\ UNCHANGED <<now, db, rib, handlers, loop>>

(* The process ends, by a crash or after a graceful shutdown, and starts   *)
(* again: what it held in memory is gone, database and RIB are not.        *)
Restart(p) ==
  /\ \/ shutdown[p] /\ NoFault
     \/ ~shutdown[p] /\ Fault("crash")
  /\ LET cut == {r \in Reqs : pc[r] \in Steps /\ input[r].pop = p} IN
     /\ pc' = [r \in Reqs |-> IF r \in cut THEN "error" ELSE pc[r]]
     /\ hand' = [r \in Reqs |-> IF r \in cut THEN NoHand ELSE hand[r]]
  /\ RGoto(p, "idle") /\ Todo(p, {})
  /\ cur' = [cur EXCEPT ![p] = NoHand]
  /\ shutdown' = [shutdown EXCEPT ![p] = FALSE]
  /\ safelist' = safelist \cup ConfigSafelist
  /\ UNCHANGED <<now, events, rows, rib, input>>

Environment ==
  \/ Tick
  \/ \E s \in SafelistEdits : AddSafelist(s) \/ RemoveSafelist(s)
  \/ \E p \in Pops : GobgpRestart(p) \/ TriggerShutdown(p) \/ Restart(p)

Next ==
  \/ \E r \in Reqs : Arrive(r) \/ Serve(r) \/ Abort(r)
  \/ \E p \in Pops : Reconcile(p) \/ CycleFails(p)
  \/ Environment

Spec == Init /\ [][Next]_vars

(* tokio runs every task that can run, and queries and gRPC calls end, if  *)
(* only by their timeouts; requests, clock ticks and faults need not come. *)
Fairness ==
  /\ \A r \in Reqs : WF_vars(Serve(r))
  /\ \A p \in Pops : WF_vars(Reconcile(p))

FairSpec == Spec /\ Fairness

-----------------------------------------------------------------------------
(* Properties.                                                             *)

(* Every table, path and local variable holds what its column or field may *)
(* hold; no deadline lies further ahead than the clock's end plus one TTL. *)
TypeOK ==
  /\ now \in 0..MaxTime
  /\ safelist \subseteq Scopes
  /\ events \subseteq Reqs
  /\ rows \in [Reqs -> Row \cup {NoRow}]
  /\ rib \in [Pops -> [Scopes -> Rule \cup {NoRule}]]
  /\ shutdown \in [Pops -> BOOLEAN]
  /\ pc \in [Reqs -> {"new"} \cup Steps \cup Replies]
  /\ input \in [Reqs -> Input \cup {NoInput}]
  /\ hand \in [Reqs -> Hand \cup {NoHand}]
  /\ rpc \in [Pops -> {"idle", "expire", "markExpired", "compare", "announce"}]
  /\ todo \in [Pops -> SUBSET Hand]
  /\ cur \in [Pops -> Hand \cup {NoHand}]
  /\ faults \in 0..MaxFaults

(* Two live mitigations never share a scope in one POP, although a ban     *)
(* looks for one and inserts much later, an operator's create does not     *)
(* look at all, and an extension writes back a row that may be withdrawn   *)
(* (handle_ban, create_mitigation, idx_mitigations_active_scope).          *)
OneLivePerScope ==
  \A m, n \in Reqs :
    Live(m) /\ Live(n) /\ rows[m].scope = rows[n].scope /\ rows[m].pop = rows[n].pop
      => m = n

(* Of all the bans that carry one detector's event id at most one ever     *)
(* has an effect, a row, a path of its own, or an extension, although      *)
(* copies pass the duplicate check together or because its query fails,    *)
(* and go on at any later time (handle_ban, insert_event).                 *)
Acted(r) ==
  \/ Stored(r) \/ pc[r] = "extended"
  \/ \E p \in Pops, s \in Scopes : rib[p][s] # NoRule /\ rib[p][s].by = r
BansOf(k) == {r \in Reqs : pc[r] # "new" /\ input[r].kind = "ban" /\ input[r].key = k}
BanActsOnce == \A k \in Keys : \A d, e \in BansOf(k) : Acted(d) /\ Acted(e) => d = e

SinglePop == \A p, q \in Pops : p = q

(* A path a mitigation announced itself is gone once the mitigation is no  *)
(* longer live, whatever crashes, races and lost queries come between, as  *)
(* long as GoBGP's answers are true and one instance runs.  What may then  *)
(* stay behind was announced by the reconciler, or by a request whose row  *)
(* was never stored (handle_unban, withdraw_mitigation,                    *)
(* expire_mitigations: withdraw first, write the row after).               *)
RuleHasLiveOwner ==
  SinglePop /\ "bgp" \notin Faults =>
    \A p \in Pops, s \in Scopes, m \in Reqs :
      rib[p][s] # NoRule /\ rib[p][s].by = m /\ Stored(m) => Live(m)

(* An operator's withdrawal is recorded only when GoBGP has dropped the    *)
(* path the mitigation announced, under every fault of the model; the      *)
(* detector's unban and the expiry do not promise as much                  *)
(* (withdraw_mitigation answers 500 and leaves the row alone).             *)
OperatorWithdrawalSticks ==
  SinglePop =>
    \A p \in Pops, s \in Scopes, m \in Reqs :
      rib[p][s] # NoRule /\ rib[p][s].by = m /\ Stored(m)
        => ~(rows[m].status = "withdrawn" /\ rows[m].why = "operator")

(* A scope the configuration protects and no API call may unprotect is     *)
(* never mitigated, by a detector or by an operator, while the safelist    *)
(* query works (handle_ban, create_mitigation, Guardrails::validate).      *)
ProtectedNeverMitigated ==
  "db" \notin Faults =>
    \A s \in ConfigSafelist \ SafelistEdits :
      /\ \A m \in Reqs : Live(m) => rows[m].scope # s
      /\ \A p \in Pops : rib[p][s] = NoRule

(* Whoever writes a row back from a copy read several awaits earlier, the  *)
(* table is a ledger: a row keeps its scope, POP and action, stays, is not *)
(* touched again once rejected, expires only past its deadline, and lives  *)
(* only where no other does (insert_mitigation, update_mitigation, the     *)
(* handlers and expire_mitigations).                                       *)
Entered(row) ==
  [scope |-> row.scope, pop |-> row.pop, act |-> row.act, due |-> row.exp,
   state |-> CASE row.status \in LiveStatuses -> "live"
               [] row.status = "rejected" -> "refused"
               [] OTHER -> row.status]
Book == [m \in {r \in Reqs : Stored(r)} |-> Entered(rows[m])]
Table == INSTANCE Ledger WITH Ids <- Reqs, Latest <- MaxTime + MaxTtl, clock <- now, entries <- Book
RowsAreALedger == Table!Spec

(* Every live mitigation past its deadline is eventually no longer so: it  *)
(* is expired, withdrawn or extended, although queries and calls fail, a   *)
(* handler may write back the row it holds, and the loop sees only the     *)
(* statuses its query names (expire_mitigations,                           *)
(* find_expired_mitigations).                                              *)
ExpiryHappens ==
  \A m \in Reqs : (Live(m) /\ PastTtl(m)) ~> ~(Live(m) /\ PastTtl(m))

(* When GoBGP loses a rule, or never got it, of a live mitigation of a POP *)
(* the reconciler announces it again or the mitigation ends: every rule is *)
(* back in the end, and nothing is missing any more.                       *)
Missing(m) == Syncable(m) /\ rib[rows[m].pop][rows[m].scope] = NoRule
DriftEnds == <>[](\A m \in Reqs : ~Missing(m))
=============================================================================
