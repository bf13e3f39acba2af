--------------------------- MODULE PrefixdClaims ---------------------------
(* What the repository's texts say of the control plane and its code does  *)
(* not do.  TLC finds a behaviour of Prefixd against each of them.         *)
EXTENDS Prefixd

HoldsScope(m, p, s) == rows[m].scope = s /\ rows[m].pop = p

(* "Withdraw orphan rules (in RIB, not in DB)" (docs/adr/011): a path      *)
(* without a live mitigation does not stay for ever.  sync_announcements   *)
(* only logs such a path, and makes one itself when it announces from a    *)
(* list read before a withdrawal was recorded.                             *)
Orphan(p, s) == rib[p][s] # NoRule /\ \A m \in Reqs : Live(m) => ~HoldsScope(m, p, s)
OrphansAreWithdrawn == \A p \in Pops, s \in Scopes : Orphan(p, s) ~> ~Orphan(p, s)
=============================================================================
