----------------------------- MODULE MCOutbound -----------------------------
(* Instances of Outbound for TLC.                                          *)
EXTENDS Outbound

CONSTANTS d1, d2

MCFacts == Mitigations \X {"created", "ended"}
MCConfigs == { [dests |-> <<d1, d2>>, events |-> {}], [dests |-> <<d2>>, events |-> {"ended"}] }
=============================================================================
