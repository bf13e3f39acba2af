----------------------------- MODULE MCPrefixd -----------------------------
(* Instances of Prefixd for TLC: what requests carry, and who owns what.   *)
EXTENDS PrefixdClaims, TLC

CONSTANTS p1, p2, s1, s2, k1, k2, c1

In(kind, key, scope, act) ==
  [kind |-> kind, pop |-> p1, key |-> key, scope |-> scope, act |-> act, ttl |-> 1]

(* One victim, two detector keys, an operator who prefers to discard.      *)
OneScopeInputs ==
  { In("ban", k1, s1, "police"), In("ban", k2, s1, "police"), In("unban", k1, s1, "police"),
    In("create", NoKey, s1, "discard"), In("withdraw", NoKey, s1, "police") }

(* The same, and a victim the inventory does not know.                     *)
OutsiderInputs == OneScopeInputs \cup {In("ban", k2, s2, "police")}

(* Two instances serve the same victims, each its own detector.            *)
At(p, i) == [i EXCEPT !.pop = p]
OwnVictimInputs ==
  { In("ban", k1, s1, "police"), In("withdraw", NoKey, s1, "police"),
    At(p2, In("ban", k2, s1, "police")), At(p2, In("withdraw", NoKey, s1, "police")),
    At(p2, In("unban", k1, s1, "police")) }
TwoPopInputs == OwnVictimInputs \cup
  { In("ban", k2, s1, "police"), In("ban", k2, s2, "police"), In("create", NoKey, s2, "discard"),
    At(p2, In("create", NoKey, s1, "discard")) }

AllOfOne == [s \in Scopes |-> c1]
FirstIsOwned == [s \in Scopes |-> IF s = s1 THEN c1 ELSE NoCustomer]

Symmetry == Permutations(Reqs)
=============================================================================
