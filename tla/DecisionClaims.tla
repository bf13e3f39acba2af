--------------------------- MODULE DecisionClaims ---------------------------
(* What the repository's texts say of the pipeline and its code does not   *)
(* do.  TLC finds a behaviour of Decision against each of them.            *)
EXTENDS Decision

Covered(ports) == IF ports = <<>> THEN Port ELSE PortsOf(ports)

(* "Ports listed in allowed_ports are excluded from mitigation"            *)
(* (docs/configuration.md:306): no intent that policy makes for a victim   *)
(* covers a port its service has open.  compute_port_intersection keeps    *)
(* exactly those ports, and where the event names none of them the empty   *)
(* list it returns stands for every port.                                  *)
AllowedPortsExcluded ==
  [][Decide /\ pending' # None =>
       LET allowed == AllowedFor(pending.event.vector, pending.context)
       IN Covered(pending'.intent.ports) \cap PortsOf(allowed) = {}]_vars
=============================================================================
