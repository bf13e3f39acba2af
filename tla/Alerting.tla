------------------------------ MODULE Alerting ------------------------------
(***************************************************************************)
(* The alerting service: an alert becomes a task if a permit is free, the  *)
(* task goes through the destinations one after another, three attempts    *)
(* each.  Updating or reloading the configuration swaps in a new service   *)
(* with permits of its own; running tasks keep the old one.                *)
(***************************************************************************)
EXTENDS Naturals, Sequences, FiniteSets

CONSTANTS
  Alerts,          (* <<mitigation, kind>>, each raised at most once        *)
  Dests,
  Configs,         (* what alerting.yaml may hold                           *)
  MaxInFlight,     (* MAX_IN_FLIGHT_ALERT_TASKS: 64 in the code             *)
  MaxAttempts,     (* 3 in the code                                         *)
  MaxSwaps,        (* bound on configuration changes                        *)
  NoJob

Config == [dests : Seq(Dests), events : SUBSET {"created", "ended"}]

ASSUME AlertingAssumption ==
  /\ Configs \subseteq Config
  /\ \A config \in Configs : Len(config.dests) <= Cardinality(Dests)   (* tried has room *)
  /\ IsFiniteSet(Dests) /\ MaxInFlight \in Nat /\ MaxAttempts \in Nat \ {0} /\ MaxSwaps \in Nat

VARIABLES
  services,        (* the services ever made, the last one in force         *)
  job,             (* a running task's service, destination and attempt     *)
  fate,            (* "none", "filtered", "dropped", "running" or "done"    *)
  tried,           (* attempts per alert and destination number             *)
  acked            (* <<alert, destination number>> answered with success   *)
alertVars == <<services, job, fate, tried, acked>>

Current == Len(services)
Running(s) == {a \in Alerts : fate[a] = "running" /\ job[a].service = s}
Destinations(a) == services[job[a].service].dests

ShouldSend(config, kind) == config.events = {} \/ kind \in config.events

(* A task's next destination, or its end, at which the permit is returned. *)
PastLastMutant(a) ==
  IF job[a].dest <= Len(Destinations(a))
  THEN /\ job' = [job EXCEPT ![a].dest = @ + 1, ![a].attempt = 1]
       /\ UNCHANGED fate
  ELSE fate' = [fate EXCEPT ![a] = "done"] /\ UNCHANGED job
GoOn(a) ==
  IF job[a].dest < Len(Destinations(a))
  THEN /\ job' = [job EXCEPT ![a].dest = @ + 1, ![a].attempt = 1]
       /\ UNCHANGED fate
  ELSE fate' = [fate EXCEPT ![a] = "done"] /\ UNCHANGED job

(* AlertingService::notify: try_acquire_owned never waits.                 *)
PermitFree(s) == Cardinality(Running(s)) < MaxInFlight
Notify(a) ==
  LET config == services[Current]
  IN /\ IF config.dests = <<>> \/ ~ShouldSend(config, a[2])
        THEN fate' = [fate EXCEPT ![a] = "filtered"] /\ UNCHANGED job
        ELSE IF PermitFree(Current)
        THEN /\ fate' = [fate EXCEPT ![a] = "running"]
             /\ job' = [job EXCEPT ![a] = [service |-> Current, dest |-> 1, attempt |-> 1]]
        ELSE fate' = [fate EXCEPT ![a] = "dropped"] /\ UNCHANGED job
     /\ UNCHANGED <<services, tried, acked>>

(* send_with_retry: one attempt, answered, refused or timed out.           *)
Attempted(a) == tried' = [tried EXCEPT ![a][job[a].dest] = @ + 1]
Succeed(a) ==
  /\ fate[a] = "running"
  /\ Attempted(a)
  /\ acked' = acked \cup {<<a, job[a].dest>>}
  /\ GoOn(a)
  /\ UNCHANGED services
GiveUpMutant(a) ==
  /\ fate[a] = "running"
  /\ Attempted(a)
  /\ IF job[a].attempt < MaxAttempts
     THEN job' = [job EXCEPT ![a].attempt = @ + 1] /\ UNCHANGED fate
     ELSE fate' = [fate EXCEPT ![a] = "done"] /\ UNCHANGED job
  /\ UNCHANGED <<services, acked>>
RetryForeverMutant(a) ==
  /\ fate[a] = "running"
  /\ tried' = [tried EXCEPT ![a][job[a].dest] = job[a].attempt]
  /\ job' = [job EXCEPT ![a].attempt = (@ % MaxAttempts) + 1]
  /\ UNCHANGED <<services, acked, fate>>
Fail(a) ==
  /\ fate[a] = "running"
  /\ Attempted(a)
  /\ IF job[a].attempt < MaxAttempts
     THEN job' = [job EXCEPT ![a].attempt = @ + 1] /\ UNCHANGED fate
     ELSE GoOn(a)
  /\ UNCHANGED <<services, acked>>

(* update_alerting_config and reload_config replace the service.           *)
Swap ==
  /\ Current <= MaxSwaps
  /\ \E config \in Configs : services' = Append(services, config)
  /\ UNCHANGED <<job, fate, tried, acked>>

AlertInit ==
  /\ \E config \in Configs : services = <<config>>
  /\ job = [a \in Alerts |-> NoJob] /\ fate = [a \in Alerts |-> "none"]
  /\ tried = [a \in Alerts |-> [d \in 1..Cardinality(Dests) |-> 0]] /\ acked = {}

AlertStep == (\E a \in Alerts : Succeed(a) \/ Fail(a)) \/ Swap

(* A request ends in an answer or in the client's 10 s timeout, the pauses *)
(* between attempts are timers.                                            *)
AlertFairness == \A a \in Alerts : WF_alertVars(Succeed(a) \/ Fail(a))

-----------------------------------------------------------------------------
AlertTypeOK ==
  /\ services \in Seq(Configs) /\ services # <<>>
  /\ fate \in [Alerts -> {"none", "filtered", "dropped", "running", "done"}]
  /\ \A a \in Alerts :
       fate[a] = "running" =>
         /\ job[a].service \in DOMAIN services /\ job[a].attempt \in 1..MaxAttempts
         /\ job[a].dest \in DOMAIN Destinations(a)

(* No destination can spoil an alert for the next: when a task ends, every *)
(* destination of the configuration it started under has acknowledged the  *)
(* alert or was tried the full number of times, and none was tried more.   *)
EveryDestinationServed ==
  \A a \in Alerts :
    fate[a] = "done" =>
      \A d \in DOMAIN Destinations(a) :
        \/ <<a, d>> \in acked /\ tried[a][d] <= MaxAttempts
        \/ tried[a][d] = MaxAttempts

(* A task gives its permit back in the end, whatever the destinations do.  *)
AlertsSettle == \A a \in Alerts : fate[a] = "running" ~> fate[a] = "done"
=============================================================================
