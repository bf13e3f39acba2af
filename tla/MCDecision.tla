----------------------------- MODULE MCDecision -----------------------------
(* Instances of Decision for TLC: three inventories, playbooks good and bad. *)
EXTENDS DecisionClaims

CONSTANTS web, dns, other, six

(* dns is an asset with one open port, web one with two, other only owned  *)
(* by prefix; the second file moves dns to another customer's service of   *)
(* the same name and forgets other; the third names two services alike.    *)
Svc(id, assets, udp, tcp) == [id |-> id, assets |-> assets, udp |-> udp, tcp |-> tcp]
Cust(id, owns, services) == [id |-> id, owns |-> owns, services |-> services]
MCInventories ==
  { <<Cust("a", {web, dns, other}, <<Svc("dns", {dns}, <<53>>, <<53>>), Svc("web", {web}, <<>>, <<80, 443>>)>>),
      Cust("b", {six}, <<>>)>>,
    <<Cust("a", {web}, <<Svc("s", {dns}, <<>>, <<80>>)>>),
      Cust("b", {dns, six}, <<Svc("s", {dns, six}, <<53>>, <<443>>), Svc("t", {web}, <<80>>, <<>>)>>)>>,
    <<Cust("a", {}, <<Svc("s", {web}, <<80>>, <<80>>), Svc("s", {dns}, <<53>>, <<53>>)>>)>> }

S(action, rate, ttl, gated) == [action |-> action, rate |-> rate, ttl |-> ttl, gated |-> gated]
P(name, vector, needs, steps) ==
  [name |-> name, vector |-> vector, needs_ports |-> needs, steps |-> steps]
MCPlaybookFiles ==
  { <<P("narrow", "udp_flood", TRUE, <<S("police", 1000, 60, FALSE), S("discard", None, 60, TRUE)>>),
      P("wide", "udp_flood", FALSE, <<S("discard", None, 60, FALSE)>>),
      P("syn", "syn_flood", FALSE, <<S("police", 200, 120, FALSE)>>),
      P("rest", "unknown", FALSE, <<S("police", 5, 90000, FALSE)>>)>>,
    <<P("udp", "udp_flood", FALSE, <<S("discard", None, 300, FALSE)>>),
      P("rest", "unknown", FALSE, <<S("police", 5, 60, FALSE)>>),
      P("syn", "syn_flood", TRUE, <<S("police", 72, 60, FALSE)>>)>>,
    <<P("udp", "udp_flood", FALSE, <<S("police", None, 0, FALSE)>>),
      P("syn", "syn_flood", FALSE, <<>>)>>,
    <<P("udp", "udp_flood", FALSE, <<S("police", None, 60, FALSE)>>)>> }

PortLists == {<<>>, <<53>>, <<53, 80>>, <<80, 53>>, <<80, 53, 80>>, <<443, 80, 53, 443>>}
MCEvents ==
  [victim : {web, dns}, vector : {"udp_flood", "syn_flood"}, ports : PortLists]
    \cup [victim : {other, six}, vector : {"udp_flood"}, ports : {<<53>>}]
    \cup [victim : {dns}, vector : {"unknown"}, ports : {<<80>>}]

MCManual ==
  { [prefix |-> [addr |-> dns, len |-> 32], proto |-> 17, ports |-> ports,
     action |-> "police", rate |-> 2000, ttl |-> 60] : ports \in {<<53>>, <<53, 53>>} }

MCForeign ==
  { [nlri |-> [t \in {1} |-> [addr |-> other, len |-> 24]], rates |-> <<>>],
    [nlri |-> [t \in {2} |-> [addr |-> other, len |-> 24]], rates |-> <<0>>] }

MCLimits ==
  [min_ttl |-> 30, max_ttl |-> 600, require_ttl |-> TRUE, max_ports |-> 3,
   min_len |-> 32, max_len |-> 32, min_len_v6 |-> 128, max_len_v6 |-> 128]
=============================================================================
