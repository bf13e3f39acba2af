------------------------------ MODULE Decision ------------------------------
(***************************************************************************)
(* From an attack event to a FlowSpec path and back: the inventory lookup, *)
(* the policy engine, the guardrails, what GoBGP is handed, and what the   *)
(* reconciler reads from it.  Requests come one after another here, their  *)
(* races are in Prefixd; configuration may be reloaded between the steps   *)
(* of one.  Failing calls, expiry and withdrawal are in Prefixd as well.   *)
(***************************************************************************)
EXTENDS Naturals, Sequences, FiniteSets, TLC, Recursion

CONSTANTS
  Addr, V6,        (* addresses, and those of them that are IPv6            *)
  Port,
  Inventories,     (* what inventory.yaml may hold                          *)
  PlaybookFiles,   (* what playbooks.yaml may hold, valid or not            *)
  Events,          (* attack events                                         *)
  Manual,          (* bodies of POST /v1/mitigations                        *)
  Safelisted,      (* addresses the safelist covers                         *)
  Foreign,         (* paths of the RIB that prefixd did not announce        *)
  Limits,          (* the guardrails section, resolved with the timers      *)
  DefaultTtl,
  Mantissa,        (* significant bits of a traffic rate: 24 in an f32      *)
  MaxRequests,     (* bound on the requests of a behaviour                  *)
  None

Vectors == {"udp_flood", "syn_flood", "ack_flood", "icmp_flood", "unknown"}
Actions == {"police", "discard"}
Rates == Nat \cup {None}
Prefix == [addr : Addr, len : 0..128]
HostLen(a) == IF a \in V6 THEN 128 ELSE 32

Service == [id : STRING, assets : SUBSET Addr, udp : Seq(Port), tcp : Seq(Port)]
Customer == [id : STRING, owns : SUBSET Addr, services : Seq(Service)]
Step == [action : Actions, rate : Rates, ttl : Nat, gated : BOOLEAN]
Playbook == [name : STRING, vector : Vectors, needs_ports : BOOLEAN, steps : Seq(Step)]
Event == [victim : Addr, vector : Vectors, ports : Seq(Port)]

(* IpContext: whose an address is, and the ports its service has open.     *)
Context == [customer : STRING, service : STRING \cup {None}, udp : Seq(Port), tcp : Seq(Port)]

(* What the database keeps of a mitigation, as far as a rule is concerned. *)
Intent == [prefix : Prefix, proto : {1, 6, 17, None}, ports : Seq(Port),
           action : Actions, rate : Rates, ttl : Nat]

ASSUME DecisionAssumption ==
  /\ V6 \subseteq Addr /\ Port \subseteq Nat
  /\ None \notin Nat /\ None \notin STRING /\ None \notin Intent /\ None \notin Service
  /\ Inventories \subseteq Seq(Customer) /\ PlaybookFiles \subseteq Seq(Playbook)
  /\ Events \subseteq Event /\ Manual \subseteq Intent
  /\ \A r \in Manual : /\ r.prefix.len = 32
                       /\ r.action = "police" => r.rate # None
  /\ Limits \in [min_ttl : Nat, max_ttl : Nat, require_ttl : BOOLEAN, max_ports : Nat,
                 min_len : 0..128, max_len : 0..128, min_len_v6 : 0..128, max_len_v6 : 0..128]
  /\ DefaultTtl \in Nat /\ MaxRequests \in Nat /\ Mantissa \in Nat \ {0}

VARIABLES
  inventory, playbooks,   (* AppState's two configuration caches            *)
  pending,                (* the request in service, None between requests  *)
  live,                   (* the rows of live mitigations of this POP       *)
  rib,                    (* the paths GoBGP lists                          *)
  requests                (* how many requests arrived (bound)              *)
vars == <<inventory, playbooks, pending, live, rib, requests>>

PortsOf(s) == {s[i] : i \in DOMAIN s}
FirstOf(s, Good(_)) ==
  CHOOSE i \in DOMAIN s : Good(s[i]) /\ \A j \in 1..(i - 1) : ~Good(s[j])
Find(s, Good(_)) ==
  IF \E i \in DOMAIN s : Good(s[i]) THEN s[FirstOf(s, Good)] ELSE None

-----------------------------------------------------------------------------
(* The inventory *)

(* Where an address is listed as an asset: customer and service numbers.   *)
Listed(inv, ip) ==
  UNION {{<<c, s>> : s \in {k \in DOMAIN inv[c].services : ip \in inv[c].services[k].assets}} :
         c \in DOMAIN inv}

Before(a, b) == a[1] < b[1] \/ (a[1] = b[1] /\ a[2] < b[2])

(* build_index inserts in file order; the last insert of an address stays. *)
IndexOf(inv, ip) ==
  CHOOSE p \in Listed(inv, ip) : \A q \in Listed(inv, ip) \ {p} : Before(q, p)

(* Ids, not positions, go into the index and are searched for afterwards.  *)
CustomerOf(inv, cid) == LET OfId(c) == c.id = cid IN Find(inv, OfId)
ServiceOf(services, sid) == LET OfId(s) == s.id = sid IN Find(services, OfId)
OwnerOf(inv, ip) == LET Owns(c) == ip \in c.owns IN Find(inv, Owns)
BuildContext(inv, cid, sid) ==
  LET customer == CustomerOf(inv, cid)
      service == IF sid = None THEN None ELSE ServiceOf(customer.services, sid)
  IN [customer |-> cid, service |-> IF service = None THEN None ELSE service.id,
      udp |-> IF service = None THEN <<>> ELSE service.udp,
      tcp |-> IF service = None THEN <<>> ELSE service.tcp]

LookupIp(inv, ip) ==
  LET owner == OwnerOf(inv, ip)
      at == IndexOf(inv, ip)
  IN CASE Listed(inv, ip) # {} ->
            BuildContext(inv, inv[at[1]].id, inv[at[1]].services[at[2]].id)
       [] Listed(inv, ip) = {} /\ owner # None -> BuildContext(inv, owner.id, None)
       [] OTHER -> None

-----------------------------------------------------------------------------
(* Playbooks and policy *)

(* Playbooks::validate, on what a playbook decides; name lengths are left out. *)
MaxTtl == 86400                             (* a day, in ttl_seconds       *)
UncheckedRateMutant(s) == s.ttl \in 1..MaxTtl
StepValid(s) ==
  /\ s.ttl \in 1..MaxTtl
  /\ s.action = "police" => s.rate \notin {None, 0}
Valid(file) ==
  /\ file # <<>>
  /\ \A i, j \in DOMAIN file : file[i].name = file[j].name => i = j
  /\ \A i \in DOMAIN file :
       /\ file[i].steps # <<>>
       /\ ~file[i].steps[1].gated
       /\ \A k \in DOMAIN file[i].steps : StepValid(file[i].steps[k])

ProtocolZeroMutant(vector) ==
  CASE vector = "udp_flood" -> 17 [] vector \in {"syn_flood", "ack_flood"} -> 6
    [] vector = "icmp_flood" -> 1 [] OTHER -> 0
ToProtocol(vector) ==
  CASE vector = "udp_flood" -> 17
    [] vector \in {"syn_flood", "ack_flood"} -> 6
    [] vector = "icmp_flood" -> 1
    [] OTHER -> None

AllowedFor(vector, ctx) ==
  CASE vector = "udp_flood" -> ctx.udp
    [] vector \in {"syn_flood", "ack_flood"} -> ctx.tcp
    [] OTHER -> <<>>

Filtered(ports, allowed) == Picked(ports, {k \in DOMAIN ports : ports[k] \in PortsOf(allowed)})
(* compute_port_intersection; an empty list in a rule means every port.    *)
PortIntersection(event, ctx) ==
  LET allowed == AllowedFor(event.vector, ctx)
  IN CASE allowed = <<>> -> event.ports
       [] allowed # <<>> /\ event.ports = <<>> -> allowed
       [] OTHER -> Filtered(event.ports, allowed)

FindPlaybook(file, event) ==
  LET Fits(p) == p.vector = event.vector /\ (p.needs_ports => event.ports # <<>>)
  IN Find(file, Fits)

(* PolicyEngine::evaluate.  The prefix length is 32 whatever the address.  *)
Evaluate(file, event, ctx) ==
  LET playbook == FindPlaybook(file, event)
  IN IF playbook = None \/ playbook.steps = <<>> THEN None
     ELSE LET step == playbook.steps[1]
          IN [prefix |-> [addr |-> event.victim, len |-> 32],
              proto  |-> ToProtocol(event.vector),
              ports  |-> PortIntersection(event, ctx),
              action |-> step.action,
              rate   |-> IF step.action = "police" THEN step.rate ELSE None,
              ttl    |-> IF step.ttl > 0 THEN step.ttl ELSE DefaultTtl]

-----------------------------------------------------------------------------
(* Guardrails, in the order they are asked; the quotas come last.          *)

TtlOk(ttl) ==
  /\ ~(Limits.require_ttl /\ ttl = 0)
  /\ ttl > 0 => ttl \in Limits.min_ttl..Limits.max_ttl
OneFamilyMutant(prefix) == prefix.len >= Limits.min_len /\ prefix.len <= Limits.max_len
PrefixOk(prefix) ==
  IF prefix.addr \in V6
  THEN prefix.len >= Limits.min_len_v6 /\ prefix.len <= Limits.max_len_v6
  ELSE prefix.len >= Limits.min_len /\ prefix.len <= Limits.max_len
Validate(i) ==
  /\ i.prefix.addr \notin Safelisted
  /\ TtlOk(i.ttl)
  /\ PrefixOk(i.prefix)
  /\ Len(i.ports) <= Limits.max_ports

-----------------------------------------------------------------------------
(* FlowSpec: hashes, encoding and decoding *)

(* What the two SHA-256 hashes tell apart.  Vec::dedup drops repetitions   *)
(* of the element before only.                                             *)
Sorted(ports) == SortSeq(ports, <)
Dedup(ports) == Picked(ports, {k \in DOMAIN ports : k = 1 \/ ports[k] # ports[k - 1]})

DedupFirstMutant(i) == <<i.prefix, i.proto, Sorted(Dedup(i.ports))>>
ScopeHash(i) == <<i.prefix, i.proto, Dedup(Sorted(i.ports))>>
NlriHash(n) == <<n.prefix, n.proto, Sorted(n.ports)>>

(* A FlowSpec NLRI as its components by type: 1 destination prefix, 3 IP   *)
(* protocol, 5 destination port.                                           *)
Types(i) == {1} \cup (IF i.proto # None THEN {3} ELSE {}) \cup (IF i.ports # <<>> THEN {5} ELSE {})
BuildNlri(i) == [t \in Types(i) |-> CASE t = 1 -> i.prefix [] t = 3 -> <<i.proto>> [] t = 5 -> i.ports]

(* (rate_bps / 8) as f32: bytes per second to Mantissa significant bits,   *)
(* the nearest, ties to even.                                              *)
Float(n) ==
  IF n < Pow2(Mantissa) THEN n
  ELSE LET e == CHOOSE k \in 1..n : n \div Pow2(k) < Pow2(Mantissa) /\ n \div Pow2(k - 1) >= Pow2(Mantissa)
           q == n \div Pow2(e)
           r == 2 * (n % Pow2(e))
       IN Pow2(e) * (IF r > Pow2(e) \/ (r = Pow2(e) /\ q % 2 = 1) THEN q + 1 ELSE q)

(* The traffic-rate communities of a path, none for a police without rate. *)
TrafficRates(i) ==
  CASE i.action = "discard" -> <<0>>
    [] i.action = "police" /\ i.rate # None -> <<Float(i.rate \div 8)>>
    [] OTHER -> <<>>

BuildPath(i) == [nlri |-> BuildNlri(i), rates |-> TrafficRates(i)]

(* AddPath replaces what has the same NLRI.                                *)
AddPath(paths, p) == {q \in paths : q.nlri # p.nlri} \cup {p}

(* decode_flowspec_nlri; a path without a destination prefix is skipped.   *)
Readable(p) == 1 \in DOMAIN p.nlri
FirstPortMutant(p) ==
  [prefix |-> p.nlri[1],
   proto  |-> IF 3 \in DOMAIN p.nlri THEN p.nlri[3][1] ELSE None,
   ports  |-> IF 5 \in DOMAIN p.nlri THEN <<p.nlri[5][1]>> ELSE <<>>]
DecodeNlri(p) ==
  [prefix |-> p.nlri[1],
   proto  |-> IF 3 \in DOMAIN p.nlri THEN p.nlri[3][1] ELSE None,
   ports  |-> IF 5 \in DOMAIN p.nlri THEN p.nlri[5] ELSE <<>>]
BytesMutant(p) ==
  IF p.rates = <<>> \/ p.rates[1] = 0 THEN [action |-> "discard", rate |-> None]
  ELSE [action |-> "police", rate |-> p.rates[1]]
DecodeAction(p) ==
  IF p.rates = <<>> \/ p.rates[1] = 0 THEN [action |-> "discard", rate |-> None]
  ELSE [action |-> "police", rate |-> p.rates[1] * 8]

(* What sync_announcements finds announced, and so leaves alone.           *)
Announced == {NlriHash(DecodeNlri(p)) : p \in {q \in rib : Readable(q)}}

-----------------------------------------------------------------------------
(* Actions *)

(* handle_ban up to the end of the inventory's read lock.                  *)
Receive(event) ==
  /\ pending = None /\ requests < MaxRequests
  /\ requests' = requests + 1
  /\ LET ctx == LookupIp(inventory, event.victim)
     IN pending' = IF ctx = None THEN None ELSE [at |-> "policy", event |-> event, context |-> ctx]
  /\ UNCHANGED <<inventory, playbooks, live, rib>>

(* The playbooks are cloned, the intent made, the live rows searched for   *)
(* its scope; a row found is extended instead.                             *)
Decide ==
  /\ pending # None /\ pending.at = "policy"
  /\ LET i == Evaluate(playbooks, pending.event, pending.context)
     IN pending' = IF i = None \/ \E m \in live : ScopeHash(m) = ScopeHash(i)
                   THEN None ELSE [at |-> "guard", intent |-> i]
  /\ UNCHANGED <<inventory, playbooks, live, rib, requests>>

(* Guardrails, then announce and insert, or the refusal.                   *)
Enforce ==
  /\ pending # None /\ pending.at = "guard"
  /\ pending' = None
  /\ \E quotasLeft \in BOOLEAN :
       IF Validate(pending.intent) /\ quotasLeft
       THEN /\ rib' = AddPath(rib, BuildPath(pending.intent))
            /\ live' = live \cup {pending.intent}
       ELSE UNCHANGED <<rib, live>>
  /\ UNCHANGED <<inventory, playbooks, requests>>

(* create_mitigation asks neither inventory nor policy, looks no scope up, *)
(* and announces before the unique index may refuse its row.               *)
Create(i) ==
  /\ pending = None /\ requests < MaxRequests
  /\ requests' = requests + 1
  /\ Validate(i)
  /\ rib' = AddPath(rib, BuildPath(i))
  /\ live' = IF \E m \in live : ScopeHash(m) = ScopeHash(i) THEN live ELSE live \cup {i}
  /\ UNCHANGED <<inventory, playbooks, pending>>

(* AppState::reload_config takes the files as they are, one after another, *)
(* unvalidated; an update through the API is a valid file.                 *)
ReloadInventory ==
  /\ inventory' \in Inventories
  /\ UNCHANGED <<playbooks, pending, live, rib, requests>>
ReloadPlaybooks ==
  /\ playbooks' \in PlaybookFiles
  /\ UNCHANGED <<inventory, pending, live, rib, requests>>

Init ==
  /\ inventory \in Inventories /\ playbooks \in PlaybookFiles
  /\ pending = None /\ live = {} /\ rib = Foreign /\ requests = 0

Next ==
  \/ \E e \in Events : Receive(e)
  \/ Decide
  \/ Enforce
  \/ \E i \in Manual : Create(i)
  \/ ReloadInventory
  \/ ReloadPlaybooks

Spec == Init /\ [][Next]_vars

-----------------------------------------------------------------------------
(* Properties *)

TypeOK ==
  /\ inventory \in Inventories /\ playbooks \in PlaybookFiles
  /\ requests \in 0..MaxRequests
  /\ pending \in {None} \cup [at : {"policy"}, event : Events, context : Context]
                         \cup [at : {"guard"}, intent : Intent]
  /\ live \subseteq Intent

(* Every rule prefixd hands to GoBGP concerns one host, although policy    *)
(* writes /32 after every address: the guardrails have to stop the IPv6    *)
(* victims this would turn into a rule for 2^96 hosts.                     *)
HostRulesOnly ==
  \A p \in rib \ Foreign : p.nlri[1].len = HostLen(p.nlri[1].addr)

(* The reconciler finds every live row announced: what it reads back from  *)
(* GoBGP has the hash of the row's own rule, whatever the order and the    *)
(* repetition of its ports.  Otherwise it would announce it every cycle.   *)
RowsAreRecognised ==
  \A m \in live : NlriHash(m) \in Announced

(* No two live rows match the same packets: detectors list the same ports  *)
(* in any order and more than once, and that must extend the first row,    *)
(* although a row is a hash to whoever looks for one.  (No rule can list   *)
(* every port, the guardrails allow too few.)                              *)
Packet == [to : Addr, proto : {1, 6, 17, 47}, port : Port]
Matched(nlri, k) ==
  /\ k.to = nlri[1].addr
  /\ 3 \in DOMAIN nlri => k.proto \in PortsOf(nlri[3])
  /\ 5 \in DOMAIN nlri => k.port \in PortsOf(nlri[5])
TrafficOf(m) == {k \in Packet : Matched(BuildNlri(m), k)}
OneRowPerTraffic == \A m, n \in live : TrafficOf(m) = TrafficOf(n) => m = n

(* A police rule of at least a byte per second is still a police rule when *)
(* read back, off by the lost bits and the float's rounding only.          *)
RatesSurvive ==
  \A m \in live :
    m.action = "police" /\ m.rate # None /\ m.rate >= 8 =>
      LET d == DecodeAction(BuildPath(m))
          off == IF d.rate > m.rate THEN d.rate - m.rate ELSE m.rate - d.rate
      IN d.action = "police" /\ (off < 8 \/ (off - 8) * Pow2(Mantissa) <= m.rate)

(* Playbooks the API accepts can be played, in any inventory and for any   *)
(* event one of them is for: there is an intent with a deadline within a   *)
(* day, whose path has a traffic rate and reads back as the action the     *)
(* step names; but for a police below 8 bit/s, less than a byte a second,  *)
(* which is announced as rate 0 and is a discard.                          *)
ValidPlaybooksEnforce ==
  Valid(playbooks) =>
    \A e \in Events :
      LET ctx == LookupIp(inventory, e.victim)
          i == Evaluate(playbooks, e, ctx)
      IN ctx # None /\ FindPlaybook(playbooks, e) # None =>
           /\ i # None /\ i.ttl \in 1..MaxTtl
           /\ TrafficRates(i) # <<>>
           /\ \/ DecodeAction(BuildPath(i)).action = i.action
              \/ i.action = "police" /\ i.rate < 8
=============================================================================
