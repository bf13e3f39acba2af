--------------------------- MODULE DecisionProofs ---------------------------
(* Theorems about Decision, for all events, inventories and playbooks.     *)
EXTENDS Decision, RecursionLemmas, TLAPS

(* What Decide leaves in pending: an intent for a /32.                     *)
PendingInv ==
  pending # None /\ pending.at = "guard" => pending.intent.prefix.len = 32

(* The policy engine makes a /32 of every address.                         *)
LEMMA EvaluateIsSlash32 ==
  ASSUME NEW file, NEW e, NEW ctx, Evaluate(file, e, ctx) # None
  PROVE  Evaluate(file, e, ctx).prefix.len = 32
<1> DEFINE playbook == FindPlaybook(file, e)
<1> DEFINE step == playbook.steps[1]
<1> DEFINE i == [prefix |-> [addr |-> e.victim, len |-> 32],
                 proto  |-> ToProtocol(e.vector),
                 ports  |-> PortIntersection(e, ctx),
                 action |-> step.action,
                 rate   |-> IF step.action = "police" THEN step.rate ELSE None,
                 ttl    |-> IF step.ttl > 0 THEN step.ttl ELSE DefaultTtl]
<1>1. Evaluate(file, e, ctx) = IF playbook = None \/ playbook.steps = <<>> THEN None ELSE i
  BY DEF Evaluate
<1>2. Evaluate(file, e, ctx) = i
  BY <1>1
<1>3. i.prefix.len = 32
  OBVIOUS
<1> QED
  BY <1>2, <1>3

(* The steps that leave rows, paths and the pending intent alone.          *)
LEMMA QuietSteps ==
  ASSUME PendingInv,
         (\E e \in Events : Receive(e)) \/ ReloadInventory \/ ReloadPlaybooks \/ UNCHANGED vars
  PROVE  PendingInv' /\ UNCHANGED <<live, rib>>
<1>1. CASE \E e \in Events : Receive(e)
  BY <1>1 DEF Receive, PendingInv
<1>2. CASE ReloadInventory \/ ReloadPlaybooks \/ UNCHANGED vars
  BY <1>2 DEF ReloadInventory, ReloadPlaybooks, vars, PendingInv
<1> QED
  BY <1>1, <1>2

(* Decide establishes PendingInv.                                          *)
LEMMA DecideStep ==
  ASSUME Decide
  PROVE  PendingInv' /\ UNCHANGED <<live, rib>>
<1> DEFINE i == Evaluate(playbooks, pending.event, pending.context)
<1>1. CASE pending' = None
  BY <1>1 DEF Decide, PendingInv
<1>2. CASE pending' # None
  <2>1. i # None /\ pending' = [at |-> "guard", intent |-> i] /\ UNCHANGED <<live, rib>>
    BY <1>2 DEF Decide
  <2>2. i.prefix.len = 32
    BY <2>1, EvaluateIsSlash32
  <2> HIDE DEF i
  <2> QED
    BY <1>2, <2>1, <2>2 DEF PendingInv
<1> QED
  BY <1>1, <1>2 DEF Decide

(* What the two announcing steps do to rows and paths.                     *)
Announces(i) ==
  /\ Validate(i) /\ i.prefix.len = 32
  /\ rib' = AddPath(rib, BuildPath(i))
  /\ live' = live \cup {i} \/ live' = live

LEMMA EnforceStep ==
  ASSUME PendingInv, Enforce
  PROVE  /\ PendingInv'
         /\ UNCHANGED <<live, rib>> \/ Announces(pending.intent)
BY DEF Enforce, PendingInv, Announces

LEMMA CreateStep ==
  ASSUME NEW i \in Manual, Create(i)
  PROVE  PendingInv' /\ Announces(i)
<1>1. i.prefix.len = 32
  BY DecisionAssumption
<1> QED
  BY <1>1 DEF Create, PendingInv, Announces

(* Every step keeps PendingInv and, if it touches the RIB, announces one   *)
(* validated /32.                                                          *)
LEMMA Steps ==
  ASSUME PendingInv, [Next]_vars
  PROVE  /\ PendingInv'
         /\ UNCHANGED <<live, rib>> \/ \E i : Announces(i)
<1>1. CASE Decide
  BY <1>1, DecideStep
<1>2. CASE Enforce
  BY <1>2, EnforceStep
<1>3. ASSUME NEW i \in Manual, Create(i)
      PROVE  PendingInv' /\ Announces(i)
  BY <1>3, CreateStep
<1>4. CASE (\E e \in Events : Receive(e)) \/ ReloadInventory \/ ReloadPlaybooks \/ UNCHANGED vars
  BY <1>4, QuietSteps
<1> QED
  BY <1>1, <1>2, <1>3, <1>4 DEF Next

-----------------------------------------------------------------------------
(* Encoding and decoding *)

(* A path built from an intent reads back as that intent's NLRI.           *)
LEMMA RoundTrip ==
  ASSUME NEW i
  PROVE  LET p == BuildPath(i)
         IN /\ p.nlri[1] = i.prefix
            /\ Readable(p)
            /\ DecodeNlri(p) = [prefix |-> i.prefix, proto |-> i.proto, ports |-> i.ports]
<1> DEFINE p == BuildPath(i)
<1>1. p.nlri = BuildNlri(i)
  BY DEF BuildPath
<1>2. DOMAIN p.nlri = Types(i)
  BY <1>1 DEF BuildNlri
<1>3. 1 \in Types(i) /\ p.nlri[1] = i.prefix
  BY <1>1 DEF BuildNlri, Types
<1>4. IF 3 \in Types(i) THEN p.nlri[3][1] = i.proto ELSE i.proto = None
  BY <1>1 DEF BuildNlri, Types
<1>5. IF 5 \in Types(i) THEN p.nlri[5] = i.ports ELSE i.ports = <<>>
  BY <1>1 DEF BuildNlri, Types
<1> HIDE DEF p
<1>6. DecodeNlri(p) = [prefix |-> i.prefix, proto |-> i.proto, ports |-> i.ports]
  BY <1>2, <1>3, <1>4, <1>5 DEF DecodeNlri
<1> QED
  BY <1>2, <1>3, <1>6 DEF Readable, p

-----------------------------------------------------------------------------
(* GoBGP is never handed a rule for more than one host, as long as the     *)
(* guardrails ask more than 32 bits of an IPv6 prefix; the default asks    *)
(* for 128.  PolicyEngine::evaluate alone does not ensure it.              *)
THEOREM RulesAreForHosts ==
  ASSUME Limits.min_len_v6 > 32
  PROVE  Spec => []HostRulesOnly
<1>1. Init => PendingInv /\ HostRulesOnly
  BY DEF Init, PendingInv, HostRulesOnly
<1>2. PendingInv /\ HostRulesOnly /\ [Next]_vars => (PendingInv /\ HostRulesOnly)'
  <2> SUFFICES ASSUME PendingInv, HostRulesOnly, [Next]_vars
               PROVE  PendingInv' /\ HostRulesOnly'
    OBVIOUS
  <2>1. PendingInv' /\ (UNCHANGED <<live, rib>> \/ \E i : Announces(i))
    BY Steps
  <2>2. CASE UNCHANGED <<live, rib>>
    BY <2>1, <2>2 DEF HostRulesOnly
  <2>3. ASSUME NEW i, Announces(i)
        PROVE  HostRulesOnly'
    <3>1. i.prefix.addr \notin V6
      <4>1. i.prefix.len = 32 /\ PrefixOk(i.prefix)
        BY <2>3 DEF Announces, Validate
      <4>2. Limits \in [min_ttl : Nat, max_ttl : Nat, require_ttl : BOOLEAN, max_ports : Nat,
                        min_len : 0..128, max_len : 0..128, min_len_v6 : 0..128, max_len_v6 : 0..128]
        BY DecisionAssumption, Zenon
      <4>3. Limits.min_len_v6 \in Nat
        BY <4>2
      <4> QED
        BY <4>1, <4>3 DEF PrefixOk
    <3>2. BuildPath(i).nlri[1] = i.prefix
      BY RoundTrip
    <3>3. HostLen(i.prefix.addr) = i.prefix.len
      BY <2>3, <3>1 DEF Announces, HostLen
    <3> QED
      BY <2>3, <3>2, <3>3 DEF HostRulesOnly, Announces, AddPath
  <2> QED
    BY <2>1, <2>2, <2>3
<1> QED
  BY <1>1, <1>2, PTL DEF Spec

(* The reconciler recognises the rule of every live row among the paths    *)
(* GoBGP lists: encoding and decoding lose nothing the hash is made of,    *)
(* and a path that replaces another has its NLRI.                          *)
THEOREM LiveRowsAreRecognised == Spec => []RowsAreRecognised
<1> DEFINE Seen(m) == \E q \in rib : Readable(q) /\ NlriHash(DecodeNlri(q)) = NlriHash(m)
<1>1. RowsAreRecognised <=> \A m \in live : Seen(m)
  BY DEF RowsAreRecognised, Announced
<1>2. Init => PendingInv /\ \A m \in live : Seen(m)
  BY DEF Init, PendingInv
<1>3. PendingInv /\ (\A m \in live : Seen(m)) /\ [Next]_vars
      => (PendingInv /\ \A m \in live : Seen(m))'
  <2> SUFFICES ASSUME PendingInv, \A m \in live : Seen(m), [Next]_vars
               PROVE  PendingInv' /\ (\A m \in live : Seen(m))'
    OBVIOUS
  <2>1. PendingInv' /\ (UNCHANGED <<live, rib>> \/ \E i : Announces(i))
    BY Steps
  <2>2. CASE UNCHANGED <<live, rib>>
    BY <2>1, <2>2
  <2>3. ASSUME NEW i, Announces(i)
        PROVE  (\A m \in live : Seen(m))'
    <3> DEFINE p == BuildPath(i)
    <3>1. /\ p \in rib' /\ Readable(p) /\ NlriHash(DecodeNlri(p)) = NlriHash(i)
      <4>1. p \in rib'
        BY <2>3 DEF Announces, AddPath
      <4>2. /\ Readable(p)
            /\ DecodeNlri(p) = [prefix |-> i.prefix, proto |-> i.proto, ports |-> i.ports]
        BY RoundTrip
      <4> HIDE DEF p
      <4>3. NlriHash(DecodeNlri(p)) = NlriHash(i)
        BY <4>2 DEF NlriHash
      <4> QED
        BY <4>1, <4>2, <4>3
    <3>2. ASSUME NEW m \in live
          PROVE  Seen(m)'
      <4>1. PICK q \in rib : Readable(q) /\ NlriHash(DecodeNlri(q)) = NlriHash(m)
        OBVIOUS
      <4>2. CASE q.nlri # p.nlri
        BY <2>3, <4>1, <4>2 DEF Announces, AddPath
      <4>3. CASE q.nlri = p.nlri
        BY <3>1, <4>1, <4>3 DEF DecodeNlri
      <4> QED
        BY <4>2, <4>3
    <3> QED
      BY <2>3, <3>1, <3>2 DEF Announces
  <2> QED
    BY <2>1, <2>2, <2>3
<1> QED
  BY <1>1, <1>2, <1>3, PTL DEF Spec

-----------------------------------------------------------------------------
(* The first and the last place of a list that something is said of.       *)
LEMMA Places ==
  ASSUME NEW n \in Nat, NEW G, G \subseteq 1..n, G # {}
  PROVE  /\ \E i \in G : \A j \in 1..(i - 1) : j \notin G
         /\ \E i \in G : \A j \in G : j <= i
<1>1. \E i \in G : \A j \in 1..(i - 1) : j \notin G
  <2>1. G \subseteq Nat
    OBVIOUS
  <2>2. PICK i \in G : \A j \in G : i <= j
    BY <2>1, LeastNatural
  <2> QED
    BY <2>1, <2>2
<1>2. \E i \in G : \A j \in G : j <= i
  <2> DEFINE H == {n - j : j \in G}
  <2>1. H \subseteq Nat /\ H # {}
    <3>1. \A j \in 1..n : n - j \in Nat
      OBVIOUS
    <3> QED
      BY <3>1
  <2>2. PICK h \in H : \A k \in H : h <= k
    BY <2>1, LeastNatural
  <2>3. PICK i \in G : h = n - i
    OBVIOUS
  <2>4. \A j \in G : n - j \in H
    OBVIOUS
  <2> HIDE DEF H
  <2>5. ASSUME NEW j \in G PROVE j <= i
    <3>1. n - i <= n - j
      BY <2>2, <2>3, <2>4
    <3>2. i \in 1..n /\ j \in 1..n
      OBVIOUS
    <3> QED
      BY <3>1, <3>2
  <2> QED
    BY <2>5
<1> QED
  BY <1>1, <1>2

(* What a search through a list finds is one of those it looks for, and    *)
(* where only one of them is, that one.                                    *)
LEMMA FoundPlaybook ==
  ASSUME NEW file \in Seq(Playbook), NEW event, FindPlaybook(file, event) # None
  PROVE  \E i \in DOMAIN file : FindPlaybook(file, event) = file[i]
<1> DEFINE Fits(p) == p.vector = event.vector /\ (p.needs_ports => event.ports # <<>>)
<1> DEFINE G == {i \in DOMAIN file : Fits(file[i])}
<1>1. G # {}
  BY DEF FindPlaybook, Find
<1>2. DOMAIN file = 1..Len(file) /\ Len(file) \in Nat
  BY RowOf
<1>3. PICK i \in G : \A j \in 1..(i - 1) : j \notin G
  BY <1>1, <1>2, Places
<1>4. \E k \in DOMAIN file : Fits(file[k]) /\ \A j \in 1..(k - 1) : ~Fits(file[j])
  <2>1. \A j \in 1..(i - 1) : j \in DOMAIN file
    BY <1>2
  <2> QED
    BY <1>3, <2>1
<1>5. FindPlaybook(file, event) = file[FirstOf(file, Fits)]
  BY <1>1 DEF FindPlaybook, Find
<1>6. FirstOf(file, Fits) \in DOMAIN file
  BY <1>4 DEF FirstOf
<1> QED
  BY <1>5, <1>6

LEMMA FoundCustomer ==
  ASSUME NEW inv \in Seq(Customer), NEW c \in DOMAIN inv
  PROVE  \E k \in DOMAIN inv : CustomerOf(inv, inv[c].id) = inv[k] /\ inv[k].id = inv[c].id
<1> DEFINE OfId(x) == x.id = inv[c].id
           G == {i \in DOMAIN inv : OfId(inv[i])}
<1>1. c \in G
  OBVIOUS
<1>2. DOMAIN inv = 1..Len(inv) /\ Len(inv) \in Nat
  BY RowOf
<1>3. PICK i \in G : \A j \in 1..(i - 1) : j \notin G
  BY <1>1, <1>2, Places
<1>4. \E k \in DOMAIN inv : OfId(inv[k]) /\ \A j \in 1..(k - 1) : ~OfId(inv[j])
  <2>1. \A j \in 1..(i - 1) : j \in DOMAIN inv
    BY <1>2
  <2> QED
    BY <1>3, <2>1
<1>5. CustomerOf(inv, inv[c].id) = inv[FirstOf(inv, OfId)]
  BY <1>1 DEF CustomerOf, Find
<1>6. FirstOf(inv, OfId) \in DOMAIN inv /\ OfId(inv[FirstOf(inv, OfId)])
  BY <1>4 DEF FirstOf
<1> QED
  BY <1>5, <1>6

LEMMA FoundService ==
  ASSUME NEW services \in Seq(Service), NEW sid
  PROVE  IF \E i \in DOMAIN services : services[i].id = sid
         THEN \E k \in DOMAIN services : ServiceOf(services, sid) = services[k] /\ services[k].id = sid
         ELSE ServiceOf(services, sid) = None
<1> DEFINE OfId(x) == x.id = sid
           G == {i \in DOMAIN services : OfId(services[i])}
<1>1. CASE G = {}
  BY <1>1 DEF ServiceOf, Find
<1>2. CASE G # {}
  <2>1. DOMAIN services = 1..Len(services) /\ Len(services) \in Nat
    BY RowOf
  <2>2. PICK i \in G : \A j \in 1..(i - 1) : j \notin G
    BY <1>2, <2>1, Places
  <2>3. \E k \in DOMAIN services : OfId(services[k]) /\ \A j \in 1..(k - 1) : ~OfId(services[j])
    <3>1. \A j \in 1..(i - 1) : j \in DOMAIN services
      BY <2>1
    <3> QED
      BY <2>2, <3>1
  <2>4. ServiceOf(services, sid) = services[FirstOf(services, OfId)]
    BY <1>2 DEF ServiceOf, Find
  <2>5. FirstOf(services, OfId) \in DOMAIN services /\ OfId(services[FirstOf(services, OfId)])
    BY <2>3 DEF FirstOf
  <2> QED
    BY <2>4, <2>5
<1> QED
  BY <1>1, <1>2

LEMMA FoundOwner ==
  ASSUME NEW inv \in Seq(Customer), NEW ip
  PROVE  OwnerOf(inv, ip) = None \/ \E k \in DOMAIN inv : OwnerOf(inv, ip) = inv[k]
<1> DEFINE Owns(x) == ip \in x.owns
           G == {i \in DOMAIN inv : Owns(inv[i])}
<1>1. CASE G = {}
  BY <1>1 DEF OwnerOf, Find
<1>2. CASE G # {}
  <2>1. DOMAIN inv = 1..Len(inv) /\ Len(inv) \in Nat
    BY RowOf
  <2>2. PICK i \in G : \A j \in 1..(i - 1) : j \notin G
    BY <1>2, <2>1, Places
  <2>3. \E k \in DOMAIN inv : Owns(inv[k]) /\ \A j \in 1..(k - 1) : ~Owns(inv[j])
    <3>1. \A j \in 1..(i - 1) : j \in DOMAIN inv
      BY <2>1
    <3> QED
      BY <2>2, <3>1
  <2>4. OwnerOf(inv, ip) = inv[FirstOf(inv, Owns)]
    BY <1>2 DEF OwnerOf, Find
  <2>5. FirstOf(inv, Owns) \in DOMAIN inv
    BY <2>3 DEF FirstOf
  <2> QED
    BY <2>4, <2>5
<1> QED
  BY <1>1, <1>2

(* The last of the places where an address is an asset is one of them.     *)
LEMMA IndexIsListed ==
  ASSUME NEW inv \in Seq(Customer), NEW ip, Listed(inv, ip) # {}
  PROVE  IndexOf(inv, ip) \in Listed(inv, ip)
<1> DEFINE At(c) == {k \in DOMAIN inv[c].services : ip \in inv[c].services[k].assets}
           C == {c \in DOMAIN inv : At(c) # {}}
<1>1. \A p : p \in Listed(inv, ip) <=> \E c \in DOMAIN inv : \E k \in At(c) : p = <<c, k>>
  BY DEF Listed
<1>2. C # {}
  BY <1>1
<1>3. DOMAIN inv = 1..Len(inv) /\ Len(inv) \in Nat
  BY RowOf
<1>4. PICK c \in C : \A d \in C : d <= c
  BY <1>2, <1>3, Places
<1>5. inv[c].services \in Seq(Service)
  <2>1. inv[c] \in Customer
    BY RowOf
  <2> QED
    BY <2>1 DEF Customer
<1>6. PICK services \in Seq(Service) : services = inv[c].services
  BY <1>5
<1>7. DOMAIN services = 1..Len(services) /\ Len(services) \in Nat
  BY RowOf
<1>8. At(c) \subseteq 1..Len(services) /\ At(c) # {}
  BY <1>6, <1>7
<1>9. PICK k \in At(c) : \A j \in At(c) : j <= k
  <2>1. PICK n, G : n \in Nat /\ n = Len(services) /\ G = At(c)
    BY <1>7
  <2>2. n \in Nat /\ G \subseteq 1..n /\ G # {}
    BY <1>8, <2>1
  <2>3. \E k \in G : \A j \in G : j <= k
    BY <2>2, Places
  <2> QED
    BY <2>1, <2>3
<1> DEFINE p == <<c, k>>
<1>10. p \in Listed(inv, ip)
  BY <1>1
<1>11. ASSUME NEW q \in Listed(inv, ip) \ {p} PROVE Before(q, p)
  <2>1. PICK d \in DOMAIN inv : \E j \in At(d) : q = <<d, j>>
    BY <1>1
  <2>0. PICK j \in At(d) : q = <<d, j>>
    BY <2>1
  <2>2. d \in Nat /\ c \in Nat /\ d <= c
    BY <1>3, <1>4, <2>0
  <2>3. CASE d < c
    BY <2>0, <2>3 DEF Before
  <2>4. CASE d = c
    <3>1. j \in Nat /\ k \in Nat /\ j <= k
      BY <1>8, <1>9, <2>0, <2>4
    <3>2. j # k
      BY <2>0, <2>4
    <3> QED
      BY <2>0, <2>4, <3>1, <3>2 DEF Before
  <2> QED
    BY <2>2, <2>3, <2>4
<1> HIDE DEF p
<1> QED
  BY <1>10, <1>11 DEF IndexOf

(* A context is what the code's types say, whatever the inventory.         *)
LEMMA BuildTyped ==
  ASSUME NEW inv \in Seq(Customer), NEW c \in DOMAIN inv, NEW sid
  PROVE  BuildContext(inv, inv[c].id, sid) \in Context
<1>1. PICK customer : customer = CustomerOf(inv, inv[c].id)
  OBVIOUS
<1>2. PICK k \in DOMAIN inv : customer = inv[k]
  BY <1>1, FoundCustomer
<1>3. customer \in Customer /\ inv[c].id \in STRING
  <2>1. inv[k] \in Customer /\ inv[c] \in Customer
    BY RowOf
  <2> QED
    BY <1>2, <2>1 DEF Customer
<1>4. PICK services \in Seq(Service) : services = customer.services
  BY <1>3 DEF Customer
<1>5. PICK service : service = IF sid = None THEN None ELSE ServiceOf(customer.services, sid)
  OBVIOUS
<1>6. service = None \/ service \in Service
  <2>1. CASE sid = None
    BY <1>5, <2>1
  <2>2. CASE sid # None
    <3>1. service = ServiceOf(services, sid)
      BY <1>4, <1>5, <2>2
    <3>2. service = None \/ \E j \in DOMAIN services : service = services[j]
      BY <3>1, FoundService
    <3> QED
      BY <3>2, RowOf
  <2> QED
    BY <2>1, <2>2
<1>7. BuildContext(inv, inv[c].id, sid)
        = [customer |-> inv[c].id, service |-> IF service = None THEN None ELSE service.id,
           udp |-> IF service = None THEN <<>> ELSE service.udp,
           tcp |-> IF service = None THEN <<>> ELSE service.tcp]
  BY <1>1, <1>5 DEF BuildContext
<1>8. <<>> \in Seq(Port)
  OBVIOUS
<1> QED
  BY <1>3, <1>6, <1>7, <1>8 DEF Context, Service

LEMMA LookupTyped ==
  ASSUME NEW inv \in Seq(Customer), NEW ip
  PROVE  LookupIp(inv, ip) \in Context \cup {None}
<1>1. PICK owner : owner = OwnerOf(inv, ip)
  OBVIOUS
<1>2. PICK at : at = IndexOf(inv, ip)
  OBVIOUS
<1>3. CASE Listed(inv, ip) # {}
  <2>1. at \in Listed(inv, ip)
    BY <1>2, <1>3, IndexIsListed
  <2>2. at[1] \in DOMAIN inv
    BY <2>1 DEF Listed
  <2>3. LookupIp(inv, ip) = BuildContext(inv, inv[at[1]].id, inv[at[1]].services[at[2]].id)
    BY <1>2, <1>3 DEF LookupIp
  <2> QED
    BY <2>2, <2>3, BuildTyped
<1>4. CASE Listed(inv, ip) = {} /\ owner # None
  <2>1. PICK k \in DOMAIN inv : owner = inv[k]
    BY <1>1, <1>4, FoundOwner
  <2>2. LookupIp(inv, ip) = BuildContext(inv, inv[k].id, None)
    BY <1>1, <1>4, <2>1 DEF LookupIp
  <2> QED
    BY <2>2, BuildTyped
<1>5. CASE Listed(inv, ip) = {} /\ owner = None
  BY <1>1, <1>5 DEF LookupIp
<1> QED
  BY <1>3, <1>4, <1>5

-----------------------------------------------------------------------------
(* The ports of a rule.                                                    *)
LEMMA PortsTyped ==
  ASSUME NEW event \in Event, NEW ctx \in Context
  PROVE  PortIntersection(event, ctx) \in Seq(Port)
<1>1. PICK ports \in Seq(Port) : ports = event.ports
  BY DEF Event
<1>2. AllowedFor(event.vector, ctx) \in Seq(Port)
  BY DEF AllowedFor, Context
<1>3. PICK allowed \in Seq(Port) : allowed = AllowedFor(event.vector, ctx)
  BY <1>2
<1>4. Filtered(ports, allowed) \in Seq(Port)
  <2>1. {k \in DOMAIN ports : ports[k] \in PortsOf(allowed)} \subseteq DOMAIN ports
    OBVIOUS
  <2> QED
    BY <2>1, PickedAre DEF Filtered
<1> QED
  BY <1>1, <1>3, <1>4 DEF PortIntersection

(* What the policy engine makes of an event it has a playbook for.         *)
LEMMA EvaluateIs ==
  ASSUME NEW file \in Seq(Playbook), NEW event \in Event, NEW ctx \in Context,
         FindPlaybook(file, event) # None
  PROVE  \E k \in DOMAIN file :
           IF file[k].steps = <<>> THEN Evaluate(file, event, ctx) = None
           ELSE /\ file[k].steps[1] \in Step /\ 1 \in DOMAIN file[k].steps
                /\ Evaluate(file, event, ctx) \in Intent
                /\ Evaluate(file, event, ctx) =
                     [prefix |-> [addr |-> event.victim, len |-> 32],
                      proto  |-> ToProtocol(event.vector),
                      ports  |-> PortIntersection(event, ctx),
                      action |-> file[k].steps[1].action,
                      rate   |-> IF file[k].steps[1].action = "police" THEN file[k].steps[1].rate ELSE None,
                      ttl    |-> IF file[k].steps[1].ttl > 0 THEN file[k].steps[1].ttl ELSE DefaultTtl]
<1>1. PICK playbook : playbook = FindPlaybook(file, event)
  OBVIOUS
<1>2. PICK k \in DOMAIN file : playbook = file[k]
  BY <1>1, FoundPlaybook
<1>3. file[k] \in Playbook
  BY RowOf
<1>4. PICK steps \in Seq(Step) : steps = file[k].steps
  BY <1>3 DEF Playbook
<1>5. CASE steps = <<>>
  BY <1>1, <1>2, <1>4, <1>5 DEF Evaluate
<1>6. CASE steps # <<>>
  <2>1. Len(steps) \in Nat \ {0} /\ DOMAIN steps = 1..Len(steps)
    BY <1>6
  <2>2. 1 \in DOMAIN steps /\ steps[1] \in Step
    BY <2>1, RowOf
  <2>3. Evaluate(file, event, ctx) =
          [prefix |-> [addr |-> event.victim, len |-> 32],
           proto  |-> ToProtocol(event.vector),
           ports  |-> PortIntersection(event, ctx),
           action |-> steps[1].action,
           rate   |-> IF steps[1].action = "police" THEN steps[1].rate ELSE None,
           ttl    |-> IF steps[1].ttl > 0 THEN steps[1].ttl ELSE DefaultTtl]
    BY <1>1, <1>2, <1>4, <1>6 DEF Evaluate
  <2>4. Evaluate(file, event, ctx) \in Intent
    <3>1. PICK step \in Step : step = steps[1]
      BY <2>2
    <3>2. PICK ports \in Seq(Port) : ports = PortIntersection(event, ctx)
      BY PortsTyped
    <3>3. [addr |-> event.victim, len |-> 32] \in Prefix
      BY DEF Event, Prefix
    <3>4. ToProtocol(event.vector) \in {1, 6, 17, None}
      BY DEF ToProtocol
    <3>5. step.action \in Actions /\ step.rate \in Rates /\ step.ttl \in Nat /\ DefaultTtl \in Nat /\ None \in Rates
      BY DecisionAssumption DEF Step, Rates
    <3> QED
      BY <2>3, <3>1, <3>2, <3>3, <3>4, <3>5 DEF Intent
  <2> QED
    BY <1>4, <1>6, <2>2, <2>3, <2>4
<1> QED
  BY <1>5, <1>6

LEMMA EvaluateNeedsPlaybook ==
  ASSUME NEW file, NEW event, NEW ctx, Evaluate(file, event, ctx) # None
  PROVE  FindPlaybook(file, event) # None
  BY DEF Evaluate

LEMMA EvaluateTyped ==
  ASSUME NEW file \in Seq(Playbook), NEW event \in Event, NEW ctx \in Context
  PROVE  Evaluate(file, event, ctx) \in Intent \cup {None}
<1> SUFFICES ASSUME Evaluate(file, event, ctx) # None
             PROVE  Evaluate(file, event, ctx) \in Intent
  OBVIOUS
<1> QED
  BY EvaluateNeedsPlaybook, EvaluateIs

(* The types of the pipeline: what is in service is an event of the        *)
(* detectors' with the context of its victim, or an intent; rows are       *)
(* intents.                                                                *)
THEOREM PipelineTypes == Spec => []TypeOK
<1> USE DecisionAssumption
<1>1. Init => TypeOK
  BY DEF Init, TypeOK
<1>2. TypeOK /\ [Next]_vars => TypeOK'
  <2> SUFFICES ASSUME TypeOK, [Next]_vars
               PROVE  TypeOK'
    OBVIOUS
  <2> USE DEF TypeOK
  <2>1. ASSUME NEW e \in Events, Receive(e) PROVE TypeOK'
    <3>1. PICK ctx : ctx = LookupIp(inventory, e.victim)
      OBVIOUS
    <3>2. inventory \in Seq(Customer)
      OBVIOUS
    <3>3. ctx \in Context \cup {None}
      BY <3>1, <3>2, LookupTyped
    <3>4. pending' = IF ctx = None THEN None ELSE [at |-> "policy", event |-> e, context |-> ctx]
      BY <2>1, <3>1 DEF Receive
    <3>5. requests' \in 0..MaxRequests /\ UNCHANGED <<inventory, playbooks, live, rib>>
      BY <2>1 DEF Receive
    <3> QED
      BY <3>3, <3>4, <3>5
  <2>2. CASE Decide
    <3>1. PICK i : i = Evaluate(playbooks, pending.event, pending.context)
      OBVIOUS
    <3>2. pending.event \in Events /\ pending.context \in Context
      BY <2>2 DEF Decide
    <3>3. pending.event \in Event /\ playbooks \in Seq(Playbook)
      BY <3>2
    <3>4. i \in Intent \cup {None}
      BY <3>1, <3>2, <3>3, EvaluateTyped
    <3>5. pending' = None \/ (i # None /\ pending' = [at |-> "guard", intent |-> i])
      BY <2>2, <3>1 DEF Decide
    <3>6. UNCHANGED <<inventory, playbooks, live, rib, requests>>
      BY <2>2 DEF Decide
    <3> QED
      BY <3>4, <3>5, <3>6
  <2>3. CASE Enforce
    <3>1. pending.intent \in Intent
      BY <2>3 DEF Enforce
    <3> QED
      BY <2>3, <3>1 DEF Enforce
  <2>4. ASSUME NEW i \in Manual, Create(i) PROVE TypeOK'
    <3>1. i \in Intent
      OBVIOUS
    <3> QED
      BY <2>4, <3>1 DEF Create
  <2>5. CASE ReloadInventory \/ ReloadPlaybooks \/ UNCHANGED vars
    BY <2>5 DEF ReloadInventory, ReloadPlaybooks, vars
  <2> QED
    BY <2>1, <2>2, <2>3, <2>4, <2>5 DEF Next
<1> QED
  BY <1>1, <1>2, PTL DEF Spec

-----------------------------------------------------------------------------
(* Rates as the floats of a traffic-rate community.                        *)
LEMMA Divided ==
  ASSUME NEW n \in Nat, NEW d \in Nat \ {0}
  PROVE  \E q \in Nat, r \in Nat : n \div d = q /\ n % d = r /\ r < d /\ n = d * q + r
<1>1. PICK q \in Int, r \in Int : q = n \div d /\ r = n % d
  OBVIOUS
<1>2. n = d * q + r /\ 0 <= r /\ r < d
  BY <1>1
<1>3. q >= 0
  <2> SUFFICES ASSUME q <= -1 PROVE FALSE
    BY <1>1
  <2>1. d * q <= -d
    OBVIOUS
  <2> QED
    BY <1>2, <2>1
<1>4. q \in Nat /\ r \in Nat
  BY <1>2, <1>3
<1>5. n \div d = q /\ n % d = r /\ r < d /\ n = d * q + r
  BY <1>1, <1>2
<1> QED
  BY <1>4, <1>5

LEMMA BelowPower == \A n \in Nat : n < Pow2(n)
<1> DEFINE S == {n \in Nat : n < Pow2(n)}
<1>1. 0 \in S
  BY PowersOfTwo
<1>2. ASSUME NEW n \in Nat, n \in S PROVE n + 1 \in S
  <2>1. PICK p \in Nat : p = Pow2(n) /\ Pow2(n + 1) = 2 * p
    BY PowersOfTwo
  <2>2. n < p
    BY <1>2, <2>1
  <2>3. n + 1 < 2 * p
    BY <2>2
  <2> QED
    BY <2>1, <2>3
<1> HIDE DEF S
<1>3. \A n \in Nat : n \in S
  BY <1>1, <1>2, SetInduction
<1> QED
  BY <1>3 DEF S

(* There is an exponent for every number that has too many bits.           *)
LEMMA Exponent ==
  ASSUME NEW n \in Nat, NEW p \in Nat \ {0}, n >= p
  PROVE  \E k \in 1..n : n \div Pow2(k) < p /\ n \div Pow2(k - 1) >= p
<1> DEFINE S == {k \in Nat : n \div Pow2(k) < p}
<1>1. n \in S
  <2>1. PICK u \in Nat \ {0} : u = Pow2(n) /\ n < u
    BY BelowPower, PowersOfTwo
  <2>2. PICK q \in Nat, r \in Nat : n \div u = q /\ n % u = r /\ r < u /\ n = u * q + r
    BY Divided
  <2>3. q = 0
    <3> SUFFICES ASSUME q >= 1 PROVE FALSE
      OBVIOUS
    <3>1. u * q >= u
      OBVIOUS
    <3> QED
      BY <2>1, <2>2, <3>1
  <2> QED
    BY <2>1, <2>2, <2>3
<1>2. 0 \notin S
  <2>1. Pow2(0) = 1 /\ n \div 1 = n
    BY PowersOfTwo
  <2> QED
    BY <2>1
<1>3. PICK k \in S : \A j \in S : k <= j
  <2>1. S \subseteq Nat /\ S # {}
    BY <1>1
  <2> HIDE DEF S
  <2> QED
    BY <2>1, LeastNatural
<1>4. k \in 1..n
  <2>1. k \in Nat /\ k # 0 /\ k <= n
    BY <1>1, <1>2, <1>3
  <2> QED
    BY <2>1
<1>5. k - 1 \in Nat /\ ~(k <= k - 1)
  BY <1>4
<1>6. ~(n \div Pow2(k - 1) < p)
  BY <1>3, <1>5
<1>7. n \div Pow2(k - 1) \in Nat
  <2>1. PICK u \in Nat \ {0} : u = Pow2(k - 1)
    BY <1>5, PowersOfTwo
  <2> QED
    BY <2>1, Divided
<1> QED
  BY <1>3, <1>4, <1>6, <1>7

(* Rounding a number loses at most one part in 2^Mantissa of it, and never *)
(* all of it.                                                              *)
LEMMA FloatIs ==
  ASSUME NEW n \in Nat \ {0}
  PROVE  /\ Float(n) \in Nat \ {0}
         /\ \E err \in Nat : (Float(n) = n + err \/ n = Float(n) + err) /\ err * Pow2(Mantissa) <= n
<1>1. PICK p \in Nat : p = Pow2(Mantissa) /\ p >= 2
  <2>1. PICK k \in Nat : Mantissa = k + 1
    <3>1. Mantissa \in Nat \ {0}
      BY DecisionAssumption
    <3>2. Mantissa - 1 \in Nat /\ Mantissa = (Mantissa - 1) + 1
      BY <3>1
    <3> QED
      BY <3>2
  <2>2. PICK h \in Nat \ {0} : Pow2(Mantissa) = 2 * h
    BY <2>1, PowersOfTwo
  <2> QED
    BY <2>2
<1>2. CASE n < p
  <2>1. Float(n) = n
    BY <1>1, <1>2 DEF Float
  <2>2. n = n + 0 /\ 0 * p <= n
    BY <1>1
  <2> QED
    BY <1>1, <2>1, <2>2
<1>3. CASE n >= p
  <2>1. PICK e : e = CHOOSE k \in 1..n : n \div Pow2(k) < p /\ n \div Pow2(k - 1) >= p
    OBVIOUS
  <2>2. e \in 1..n /\ n \div Pow2(e) < p /\ n \div Pow2(e - 1) >= p
    <3>1. \E k \in 1..n : n \div Pow2(k) < p /\ n \div Pow2(k - 1) >= p
      BY <1>1, <1>3, Exponent
    <3> QED
      BY <2>1, <3>1
  <2>3. PICK u \in Nat \ {0}, v \in Nat \ {0} : u = Pow2(e) /\ v = Pow2(e - 1) /\ u = 2 * v
    <3>1. e - 1 \in Nat /\ e = (e - 1) + 1 /\ e \in Nat
      BY <2>2
    <3> QED
      BY <3>1, PowersOfTwo
  <2>4. PICK q \in Nat, r \in Nat : n \div u = q /\ n % u = r /\ r < u /\ n = u * q + r
    BY Divided
  <2>5. v * p <= n
    <3>1. PICK x \in Nat, y \in Nat : n \div v = x /\ n % v = y /\ y < v /\ n = v * x + y
      BY Divided
    <3>2. x >= p
      BY <2>2, <2>3, <3>1
    <3>3. v * x >= v * p
      BY <1>1, <3>2
    <3>4. v * x \in Nat /\ v * p \in Nat
      BY <1>1
    <3> QED
      BY <3>1, <3>3, <3>4
  <2>6. q >= 1
    <3> SUFFICES ASSUME q = 0 PROVE FALSE
      OBVIOUS
    <3>1. n = r
      BY <2>4
    <3>2. v * p >= 2 * v
      BY <1>1
    <3> QED
      BY <2>3, <2>4, <2>5, <3>1, <3>2
  <2>7. Float(n) = Pow2(e) * (IF 2 * (n % Pow2(e)) > Pow2(e) \/ (2 * (n % Pow2(e)) = Pow2(e) /\ (n \div Pow2(e)) % 2 = 1)
                               THEN n \div Pow2(e) + 1 ELSE n \div Pow2(e))
    <3> DEFINE E == CHOOSE k \in 1..n : n \div Pow2(k) < Pow2(Mantissa) /\ n \div Pow2(k - 1) >= Pow2(Mantissa)
               Rounded(k) == Pow2(k) * (IF 2 * (n % Pow2(k)) > Pow2(k)
                                           \/ (2 * (n % Pow2(k)) = Pow2(k) /\ (n \div Pow2(k)) % 2 = 1)
                                        THEN n \div Pow2(k) + 1 ELSE n \div Pow2(k))
    <3>1. Float(n) = IF n < Pow2(Mantissa) THEN n ELSE Rounded(E)
      BY DEF Float
    <3>2. e = E
      BY <1>1, <2>1
    <3>3. ~(n < Pow2(Mantissa))
      BY <1>1, <1>3
    <3> HIDE DEF E, Rounded
    <3>4. Float(n) = Rounded(e)
      BY <3>1, <3>2, <3>3
    <3> QED
      BY <3>4 DEF Rounded
  <2>8. Float(n) = u * (IF 2 * r > u \/ (2 * r = u /\ q % 2 = 1) THEN q + 1 ELSE q)
    BY <2>3, <2>4, <2>7
  <2>11. PICK x \in Nat : x = u * q /\ x >= u
    BY <2>6
  <2>9. CASE Float(n) = u * (q + 1) /\ 2 * r >= u
    <3>1. u * (q + 1) = u * q + u
      OBVIOUS
    <3>2. PICK err \in Nat : err = u - r
      BY <2>4
    <3>3. n = x + r /\ Float(n) = x + u
      BY <2>4, <2>9, <2>11, <3>1
    <3>5. err <= v
      BY <2>3, <2>4, <2>9, <3>2
    <3>6. Float(n) \in Nat \ {0} /\ Float(n) = n + err
      BY <2>4, <3>2, <3>3
    <3>4. err * p <= v * p /\ err * p \in Nat /\ v * p \in Nat
      BY <1>1, <3>5
    <3>7. err * p <= n
      BY <2>5, <3>4
    <3> QED
      BY <1>1, <3>6, <3>7
  <2>10. CASE Float(n) = u * q /\ 2 * r <= u
    <3>1. n = x + r /\ Float(n) = x
      BY <2>4, <2>10, <2>11
    <3>2. r <= v
      BY <2>3, <2>4, <2>10
    <3>3. Float(n) \in Nat \ {0} /\ n = Float(n) + r
      BY <2>11, <3>1
    <3>4. r * p <= v * p /\ r * p \in Nat /\ v * p \in Nat
      BY <1>1, <3>2
    <3>5. r * p <= n
      BY <2>5, <3>4
    <3> QED
      BY <1>1, <3>3, <3>5
  <2> QED
    BY <2>4, <2>8, <2>9, <2>10
<1> QED
  BY <1>1, <1>2, <1>3

(* A police row's rate is read back as a rate, a part in 2^Mantissa off at *)
(* most, beside the bits below a byte.                                     *)
THEOREM RatesAreKept == Spec => []RatesSurvive
<1>1. TypeOK => RatesSurvive
  <2> SUFFICES ASSUME TypeOK, NEW m \in live, m.action = "police", m.rate # None, m.rate >= 8
               PROVE  LET d == DecodeAction(BuildPath(m))
                          off == IF d.rate > m.rate THEN d.rate - m.rate ELSE m.rate - d.rate
                      IN  d.action = "police" /\ (off < 8 \/ (off - 8) * Pow2(Mantissa) <= m.rate)
    BY DEF RatesSurvive
  <2>1. m \in Intent
    BY DEF TypeOK
  <2>2. PICK rate \in Nat : rate = m.rate /\ rate >= 8
    BY <2>1 DEF Intent, Rates
  <2>3. PICK n \in Nat, t \in Nat : rate \div 8 = n /\ rate % 8 = t /\ t < 8 /\ rate = 8 * n + t
    BY Divided
  <2>4. n \in Nat \ {0}
    BY <2>2, <2>3
  <2>5. PICK f \in Nat \ {0} : f = Float(n)
    BY <2>4, FloatIs
  <2>6. PICK err \in Nat : (f = n + err \/ n = f + err) /\ err * Pow2(Mantissa) <= n
    BY <2>4, <2>5, FloatIs
  <2>7. PICK p \in Nat : p = Pow2(Mantissa)
    BY DecisionAssumption, PowersOfTwo
  <2>8. DecodeAction(BuildPath(m)) = [action |-> "police", rate |-> f * 8]
    <3>1. BuildPath(m).rates = <<f>>
      BY <2>2, <2>3, <2>5 DEF BuildPath, TrafficRates
    <3>2. <<f>> # <<>> /\ <<f>>[1] = f
      OBVIOUS
    <3> QED
      BY <3>1, <3>2 DEF DecodeAction
  <2>9. PICK off \in Nat : off = IF f * 8 > rate THEN f * 8 - rate ELSE rate - f * 8
    <3>1. PICK g \in Nat : g = f * 8
      OBVIOUS
    <3>2. (g > rate => g - rate \in Nat) /\ (~(g > rate) => rate - g \in Nat)
      OBVIOUS
    <3> QED
      BY <3>1, <3>2
  <2>10. off <= 8 * err + 7
    BY <2>3, <2>6, <2>9
  <2>11. off < 8 \/ (off - 8) * p <= rate
    <3> SUFFICES ASSUME off >= 8 PROVE (off - 8) * p <= rate
      OBVIOUS
    <3>1. PICK k \in Nat : k = off - 8 /\ k <= 8 * err
      BY <2>10
    <3>2. k * p <= (8 * err) * p
      BY <3>1
    <3>3. (8 * err) * p = 8 * (err * p) /\ err * p <= n /\ err * p \in Nat /\ k * p \in Nat
      BY <2>6, <2>7
    <3> QED
      BY <2>3, <3>1, <3>2, <3>3
  <2> QED
    BY <2>2, <2>7, <2>8, <2>9, <2>11
<1> QED
  BY <1>1, PipelineTypes, PTL

-----------------------------------------------------------------------------
(* A playbook file that the API accepts can be played, whatever inventory  *)
(* it is played with: every step it has was checked, and the first is the  *)
(* one that is used.                                                       *)
THEOREM ValidFilesEnforce == Spec => []ValidPlaybooksEnforce
<1>1. TypeOK => ValidPlaybooksEnforce
  <2> SUFFICES ASSUME TypeOK, Valid(playbooks), NEW e \in Events,
                      LookupIp(inventory, e.victim) # None, FindPlaybook(playbooks, e) # None
               PROVE  LET i == Evaluate(playbooks, e, LookupIp(inventory, e.victim))
                      IN  /\ i # None /\ i.ttl \in 1..MaxTtl /\ TrafficRates(i) # <<>>
                          /\ \/ DecodeAction(BuildPath(i)).action = i.action
                             \/ i.action = "police" /\ i.rate < 8
    BY DEF ValidPlaybooksEnforce
  <2>1. inventory \in Seq(Customer) /\ playbooks \in Seq(Playbook) /\ e \in Event
    BY DecisionAssumption DEF TypeOK
  <2>2. PICK ctx \in Context : ctx = LookupIp(inventory, e.victim)
    BY <2>1, LookupTyped
  <2>3. PICK i : i = Evaluate(playbooks, e, ctx)
    OBVIOUS
  <2>4. PICK k \in DOMAIN playbooks :
          IF playbooks[k].steps = <<>> THEN i = None
          ELSE /\ playbooks[k].steps[1] \in Step /\ 1 \in DOMAIN playbooks[k].steps
               /\ i \in Intent
               /\ i = [prefix |-> [addr |-> e.victim, len |-> 32],
                       proto  |-> ToProtocol(e.vector),
                       ports  |-> PortIntersection(e, ctx),
                       action |-> playbooks[k].steps[1].action,
                       rate   |-> IF playbooks[k].steps[1].action = "police"
                                  THEN playbooks[k].steps[1].rate ELSE None,
                       ttl    |-> IF playbooks[k].steps[1].ttl > 0
                                  THEN playbooks[k].steps[1].ttl ELSE DefaultTtl]
    BY <2>1, <2>3, EvaluateIs
  <2>5. playbooks[k].steps # <<>> /\ 1 \in DOMAIN playbooks[k].steps
    BY <2>4 DEF Valid
  <2>6. StepValid(playbooks[k].steps[1])
    BY <2>5 DEF Valid
  <2>7. PICK step \in Step : step = playbooks[k].steps[1]
    BY <2>4, <2>5
  <2>8. /\ i.action = step.action /\ i.ttl = (IF step.ttl > 0 THEN step.ttl ELSE DefaultTtl)
        /\ i.rate = (IF step.action = "police" THEN step.rate ELSE None)
    BY <2>4, <2>5, <2>7
  <2>9. step.ttl \in 1..MaxTtl /\ (step.action = "police" => step.rate # None)
    BY <2>6, <2>7 DEF StepValid
  <2>10. i # None
    BY <2>4, <2>5, DecisionAssumption
  <2>11. i.ttl \in 1..MaxTtl
    <3>1. MaxTtl \in Nat
      BY DEF MaxTtl
    <3> QED
      BY <2>8, <2>9, <3>1
  <2>12. i.action \in Actions
    BY <2>7, <2>8 DEF Step
  <2>13. CASE i.action = "discard"
    <3>1. TrafficRates(i) = <<0>> /\ BuildPath(i).rates = <<0>>
      BY <2>13 DEF TrafficRates, BuildPath
    <3>2. DecodeAction(BuildPath(i)) = [action |-> "discard", rate |-> None]
      BY <3>1 DEF DecodeAction
    <3> QED
      BY <2>2, <2>3, <2>10, <2>11, <2>13, <3>1, <3>2
  <2>14. CASE i.action = "police"
    <3>1. PICK rate \in Nat : rate = i.rate
      BY <2>4, <2>5, <2>8, <2>9, <2>14 DEF Intent, Rates
    <3>2. TrafficRates(i) = <<Float(rate \div 8)>> /\ BuildPath(i).rates = <<Float(rate \div 8)>>
      BY <2>8, <2>9, <2>14, <3>1 DEF TrafficRates, BuildPath
    <3>3. rate >= 8 => DecodeAction(BuildPath(i)).action = "police"
      <4> SUFFICES ASSUME rate >= 8 PROVE DecodeAction(BuildPath(i)).action = "police"
        OBVIOUS
      <4>1. PICK n \in Nat \ {0} : n = rate \div 8
        <5>1. PICK n \in Nat, t \in Nat : rate \div 8 = n /\ rate % 8 = t /\ t < 8 /\ rate = 8 * n + t
          BY Divided
        <5> QED
          BY <5>1
      <4>2. PICK f \in Nat \ {0} : f = Float(n)
        BY FloatIs
      <4>3. BuildPath(i).rates = <<f>> /\ <<f>> # <<>> /\ <<f>>[1] = f
        BY <3>2, <4>1, <4>2
      <4> QED
        BY <4>2, <4>3 DEF DecodeAction
    <3>4. rate < 8 \/ rate >= 8
      OBVIOUS
    <3> QED
      BY <2>2, <2>3, <2>10, <2>11, <2>14, <3>1, <3>2, <3>3, <3>4
  <2> QED
    BY <2>12, <2>13, <2>14 DEF Actions
<1> QED
  BY <1>1, PipelineTypes, PTL
=============================================================================
