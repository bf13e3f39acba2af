------------------------------ MODULE MCConsole ------------------------------
(* The dashboard on small files, lists and tables.                         *)
EXTENDS Console

CONSTANTS k1, k2, s1, s2, m1, m2, r1

MCFile == <<[kind |-> "pagerduty", key |-> k1, secret |-> s1, headers |-> Unset],
            [kind |-> "generic", key |-> k2, secret |-> s2, headers |-> s2]>>
MCStep(c) == [action |-> "police", rate_bps |-> 50000000, ttl_seconds |-> 1200,
              confidence |-> c, persistence |-> Null]
MCPlaybooks == <<[name |-> "a", vector |-> "udp_flood", steps |-> <<MCStep(Null), MCStep(10)>>]>>
(* A name of 100 letters of three bytes each is too long for the daemon.   *)
MCUnits == [n \in Names |-> IF n = "wide" THEN 100 ELSE IF n = "" THEN 0 ELSE 1]
MCBytes == [n \in Names |-> IF n = "wide" THEN 300 ELSE IF n = "" THEN 0 ELSE 1]
=============================================================================
