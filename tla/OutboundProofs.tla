--------------------------- MODULE OutboundProofs ---------------------------
(***************************************************************************)
(* Theorems about the feed and the alerting service, for any mitigations,  *)
(* connections, configurations, permits and sizes of the ring.             *)
(***************************************************************************)
EXTENDS Outbound, FiniteSetTheorems, TLAPS

(* To the feed a step is one of its own, a message, a fact, or nothing.    *)
LEMMA FeedSteps ==
  ASSUME [Next]_vars
  PROVE  \/ FeedStep
         \/ (\E f \in Facts : sent' = Append(sent, f)) /\ committed' = committed /\ UNCHANGED connVars
         \/ (\E f \in Facts : committed' = committed \cup {f}) /\ sent' = sent /\ UNCHANGED connVars
         \/ UNCHANGED feedVars
<1>1. CASE \E f \in Facts : Commit(f) \/ CommitUntold(f)
  BY <1>1 DEF Commit, CommitUntold
<1>2. CASE \E f \in Facts : Tell(f)
  BY <1>2 DEF Tell, Send
<1>3. CASE \E f \in Facts : Raise(f) \/ Abandon(f)
  BY <1>3 DEF Raise, Abandon
<1> QED
  BY <1>1, <1>2, <1>3 DEF Next, vars

(* The feed's variables have their types.                                  *)
LEMMA FeedTypeCorrect == Spec => []FeedTypeOK
<1>1. Init => FeedTypeOK
  BY OutboundAssumption DEF Init, FeedInit, FeedTypeOK
<1>2. FeedTypeOK /\ [Next]_vars => FeedTypeOK'
  <2> SUFFICES ASSUME FeedTypeOK, [Next]_vars PROVE FeedTypeOK'
    OBVIOUS
  <2> USE DEF FeedTypeOK
  <2>1. ASSUME NEW c \in Conns, Open(c) PROVE FeedTypeOK'
    BY <2>1 DEF Open
  <2>2. ASSUME NEW c \in Conns, Deliver(c) PROVE FeedTypeOK'
    <3>1. CASE sock[c] = "open"
      <4>1. pos[c] + 1 \in Nat /\ heard[c] \cup {pos[c] + 1} \in SUBSET Nat
        OBVIOUS
      <4>2. /\ pos' = [pos EXCEPT ![c] = pos[c] + 1]
            /\ heard' = [heard EXCEPT ![c] = heard[c] \cup {pos[c] + 1}]
            /\ UNCHANGED <<committed, sent, sock, pump, joined, resync>>
        BY <2>2, <3>1 DEF Deliver
      <4> HIDE DEF FeedTypeOK
      <4>3. heard' \in [Conns -> SUBSET Nat]
        BY <4>1, <4>2 DEF FeedTypeOK
      <4> QED
        BY <4>1, <4>2, <4>3 DEF FeedTypeOK
    <3>2. CASE sock[c] # "open"
      BY <2>2, <3>2 DEF Deliver
    <3> QED
      BY <3>1, <3>2
  <2>3. ASSUME NEW c \in Conns, Lag(c) PROVE FeedTypeOK'
    <3>1. Oldest \in Nat
      BY FeedAssumption DEF Oldest
    <3> QED
      BY <2>3, <3>1 DEF Lag
  <2>4. ASSUME NEW c \in Conns, Close(c) PROVE FeedTypeOK'
    BY <2>4 DEF Close
  <2>5. ASSUME NEW f \in Facts, sent' = Append(sent, f), committed' = committed, UNCHANGED connVars
        PROVE  FeedTypeOK'
    BY <2>5 DEF connVars
  <2>6. ASSUME NEW f \in Facts, committed' = committed \cup {f}, sent' = sent, UNCHANGED connVars
        PROVE  FeedTypeOK'
    BY <2>6 DEF connVars
  <2>7. CASE UNCHANGED feedVars
    BY <2>7 DEF feedVars, connVars
  <2> QED
    BY <2>1, <2>2, <2>3, <2>4, <2>5, <2>6, <2>7, FeedSteps DEF FeedStep
<1> QED
  BY <1>1, <1>2, PTL DEF Spec

(* What a receiver passes it either heard or is told to refetch, because   *)
(* whatever moves it says so in the same step.                             *)
THEOREM NothingIsMissed == Spec => []NoSilentGap
<1>1. Init => NoSilentGap
  BY DEF Init, FeedInit, NoSilentGap
<1>2. FeedTypeOK /\ NoSilentGap /\ [Next]_vars => NoSilentGap'
  <2> SUFFICES ASSUME FeedTypeOK, NoSilentGap, [Next]_vars,
                      NEW c \in Conns, NEW i \in (joined[c]' + 1)..pos[c]'
               PROVE  i \in heard[c]' \/ i <= resync[c]'
    BY DEF NoSilentGap
  <2> USE DEF FeedTypeOK
  <2>0. i \in (joined[c] + 1)..pos[c] => i \in heard[c] \/ i <= resync[c]
    BY DEF NoSilentGap
  <2>1. ASSUME NEW k \in Conns, Open(k) PROVE i \in heard[c]' \/ i <= resync[c]'
    BY <2>0, <2>1 DEF Open
  <2>2. ASSUME NEW k \in Conns, Deliver(k) PROVE i \in heard[c]' \/ i <= resync[c]'
    <3>1. CASE c # k \/ sock[c] # "open"
      BY <2>0, <2>2, <3>1 DEF Deliver
    <3>2. CASE c = k /\ sock[c] = "open"
      <4>1. /\ pos[c]' = pos[c] + 1 /\ heard[c]' = heard[c] \cup {pos[c] + 1}
            /\ joined[c]' = joined[c] /\ resync[c]' = resync[c]
        BY <2>2, <3>2 DEF Deliver
      <4> QED
        BY <2>0, <4>1
    <3> QED
      BY <3>1, <3>2
  <2>3. ASSUME NEW k \in Conns, Lag(k) PROVE i \in heard[c]' \/ i <= resync[c]'
    <3>1. Oldest \in Nat
      BY FeedAssumption DEF Oldest
    <3>2. CASE c # k \/ sock[c] # "open"
      BY <2>0, <2>3, <3>2 DEF Lag
    <3>3. CASE c = k /\ sock[c] = "open"
      <4>1. pos[c]' = Oldest /\ resync[c]' = Oldest /\ joined[c]' = joined[c]
        BY <2>3, <3>3 DEF Lag
      <4> QED
        BY <3>1, <4>1
    <3> QED
      BY <3>2, <3>3
  <2>4. ASSUME NEW k \in Conns, Close(k) PROVE i \in heard[c]' \/ i <= resync[c]'
    BY <2>0, <2>4 DEF Close
  <2>5. CASE UNCHANGED connVars
    BY <2>0, <2>5 DEF connVars
  <2> QED
    BY <2>1, <2>2, <2>3, <2>4, <2>5, FeedSteps DEF FeedStep, feedVars, connVars
<1> QED
  BY <1>1, <1>2, FeedTypeCorrect, PTL DEF Spec

-----------------------------------------------------------------------------
(* How far an alert got.  What a task was not handed yet was not tried,    *)
(* what it went past was served, where it is it used up the attempts       *)
(* before this one; and an alert is raised once.                           *)
Served(a, d) ==
  \/ <<a, d>> \in acked /\ tried[a][d] <= MaxAttempts
  \/ tried[a][d] = MaxAttempts
Progress(a) ==
  /\ job[a].service \in DOMAIN services /\ job[a].attempt \in 1..MaxAttempts
  /\ job[a].dest \in DOMAIN Destinations(a)
  /\ \A d \in 1..(job[a].dest - 1) : Served(a, d)
  /\ tried[a][job[a].dest] = job[a].attempt - 1
  /\ \A d \in DOMAIN Destinations(a) : d > job[a].dest => tried[a][d] = 0
Finished(a) ==
  /\ job[a].service \in DOMAIN services
  /\ \A d \in DOMAIN Destinations(a) : Served(a, d)
Untried(a) == \A d \in 1..Cardinality(Dests) : tried[a][d] = 0
Task == [service : Nat, dest : Nat, attempt : Nat]

AlertInv ==
  /\ services \in Seq(Configs) /\ services # <<>>
  /\ tail \in [Facts -> {"idle", "send", "alert", "done"}]
  /\ fate \in [Alerts -> {"none", "filtered", "dropped", "running", "done"}]
  /\ job \in [Alerts -> Task \cup {NoJob}]
  /\ tried \in [Alerts -> [1..Cardinality(Dests) -> Nat]]
  /\ \A a \in Alerts :
       /\ tail[a] # "done" => fate[a] = "none"
       /\ fate[a] = "none" => Untried(a)
       /\ fate[a] = "running" => job[a] \in Task /\ Progress(a)
       /\ fate[a] = "done" => Finished(a)

(* What is said of one alert survives the steps of any other, and a swap.  *)
LEMMA OthersLast ==
  ASSUME AlertInv, NEW a \in Alerts,
         services' \in Seq(Configs), services' # <<>>,
         \A s \in DOMAIN services : s \in DOMAIN services' /\ services'[s] = services[s],
         job'[a] = job[a], fate'[a] = fate[a], tried'[a] = tried[a], acked \subseteq acked',
         tail'[a] = tail[a] \/ tail'[a] = "done" \/ tail[a] # "done"
  PROVE  /\ tail'[a] # "done" => fate'[a] = "none"
         /\ fate'[a] = "none" => Untried(a)'
         /\ fate'[a] = "running" => job'[a] \in Task /\ Progress(a)'
         /\ fate'[a] = "done" => Finished(a)'
<1>1. fate[a] \in {"running", "done"} => Destinations(a)' = Destinations(a)
  BY DEF AlertInv, Destinations, Progress, Finished
<1>2. \A d : Served(a, d) => Served(a, d)'
  BY DEF Served
<1>3. tail'[a] # "done" => fate'[a] = "none"
  BY DEF AlertInv
<1>4. fate'[a] = "none" => Untried(a)'
  BY DEF AlertInv, Untried
<1>5. fate'[a] = "running" => job'[a] \in Task /\ Progress(a)'
  BY <1>1, <1>2 DEF AlertInv, Progress
<1>6. fate'[a] = "done" => Finished(a)'
  BY <1>1, <1>2 DEF AlertInv, Finished
<1> QED
  BY <1>3, <1>4, <1>5, <1>6

LEMMA RoomToTry ==
  ASSUME AlertInv, NEW a \in Alerts, job[a].service \in DOMAIN services
  PROVE  /\ Destinations(a) \in Seq(Dests)
         /\ DOMAIN Destinations(a) = 1..Len(Destinations(a)) /\ Len(Destinations(a)) \in Nat
         /\ DOMAIN Destinations(a) \subseteq 1..Cardinality(Dests)
<1>1. services[job[a].service] \in Configs
  BY DEF AlertInv
<1>2. services[job[a].service] \in Config /\ Len(services[job[a].service].dests) <= Cardinality(Dests)
  BY <1>1, AlertingAssumption
<1>3. Destinations(a) \in Seq(Dests) /\ Len(Destinations(a)) <= Cardinality(Dests)
  BY <1>2 DEF Config, Destinations
<1>4. Cardinality(Dests) \in Nat
  BY AlertingAssumption, FS_CardinalityType
<1> QED
  BY <1>3, <1>4

(* A task that is through with a destination has served it, whether it was *)
(* answered or had the last attempt refused.                               *)
LEMMA GoneOn ==
  ASSUME AlertInv, NEW a \in Alerts, fate[a] = "running", GoOn(a),
         services' = services, acked \subseteq acked', Attempted(a),
         NEW here, here = job[a].dest, Served(a, here)'
  PROVE  /\ job' \in [Alerts -> Task \cup {NoJob}]
         /\ fate' \in [Alerts -> {"none", "filtered", "dropped", "running", "done"}]
         /\ fate'[a] \in {"running", "done"}
         /\ fate'[a] = "running" => job'[a] \in Task /\ Progress(a)'
         /\ fate'[a] = "done" => Finished(a)'
         /\ \A b \in Alerts : b # a => job'[b] = job[b] /\ fate'[b] = fate[b]
<1>1. job[a] \in Task /\ Progress(a)
  BY DEF AlertInv
<1>2. /\ DOMAIN Destinations(a) = 1..Len(Destinations(a)) /\ Len(Destinations(a)) \in Nat
      /\ DOMAIN Destinations(a) \subseteq 1..Cardinality(Dests)
  BY <1>1, RoomToTry DEF Progress
<1>3. here \in Nat /\ here \in 1..Cardinality(Dests) /\ here \in DOMAIN Destinations(a)
  BY <1>1, <1>2 DEF Progress, Task
<1>4. \A d \in 1..Cardinality(Dests) : d # here => tried'[a][d] = tried[a][d]
  BY <1>3 DEF Attempted, AlertInv
<1>5. \A d \in 1..Cardinality(Dests) : d # here /\ Served(a, d) => Served(a, d)'
  BY <1>4 DEF Served
<1>6. \A d \in 1..here : Served(a, d)'
  <2> SUFFICES ASSUME NEW d \in 1..here PROVE Served(a, d)'
    OBVIOUS
  <2>1. CASE d # here
    <3>1. Served(a, d) /\ d \in 1..Cardinality(Dests)
      BY <1>1, <1>2, <1>3, <2>1 DEF Progress
    <3> QED
      BY <1>5, <2>1, <3>1
  <2> QED
    BY <2>1
<1>7. CASE here < Len(Destinations(a))
  <2>1. job' = [job EXCEPT ![a] = [job[a] EXCEPT !.dest = here + 1, !.attempt = 1]] /\ fate' = fate
    BY <1>7 DEF GoOn, AlertInv
  <2>2. /\ job'[a].service = job[a].service /\ job'[a].dest = here + 1 /\ job'[a].attempt = 1
        /\ job'[a] \in Task /\ \A b \in Alerts : b # a => job'[b] = job[b]
    <3>1. job'[a] = [job[a] EXCEPT !.dest = here + 1, !.attempt = 1]
          /\ \A b \in Alerts : b # a => job'[b] = job[b]
      BY <2>1 DEF AlertInv
    <3>2. PICK old \in Task : old = job[a]
      BY <1>1
    <3>3. job'[a] = [service |-> old.service, dest |-> here + 1, attempt |-> 1]
      BY <3>1, <3>2 DEF Task
    <3> QED
      BY <1>3, <3>1, <3>2, <3>3 DEF Task
  <2>3. job' \in [Alerts -> Task \cup {NoJob}]
    BY <2>1, <2>2 DEF AlertInv
  <2>4. Destinations(a)' = Destinations(a)
    BY <2>2 DEF Destinations
  <2>5. Progress(a)'
    <3>1. job'[a].service \in DOMAIN services' /\ job'[a].attempt \in 1..MaxAttempts
      BY <1>1, <2>2, AlertingAssumption DEF Progress
    <3>2. job'[a].dest \in DOMAIN Destinations(a)
      BY <1>2, <1>3, <1>7, <2>2
    <3>3. \A d \in 1..(job'[a].dest - 1) : Served(a, d)'
      BY <1>3, <1>6, <2>2
    <3>4. tried'[a][here + 1] = 0
      <4>1. here + 1 \in DOMAIN Destinations(a) /\ here + 1 > here /\ here + 1 # here
        BY <1>2, <1>3, <1>7
      <4>2. tried[a][here + 1] = 0
        BY <1>1, <4>1 DEF Progress
      <4> QED
        BY <1>2, <1>4, <4>1, <4>2
    <3>5. \A d \in DOMAIN Destinations(a) : d > here + 1 => tried'[a][d] = 0
      BY <1>1, <1>2, <1>3, <1>4 DEF Progress
    <3> QED
      BY <2>2, <2>4, <3>1, <3>2, <3>3, <3>4, <3>5 DEF Progress
  <2> QED
    BY <2>1, <2>2, <2>3, <2>5 DEF AlertInv
<1>8. CASE ~(here < Len(Destinations(a)))
  <2>1. fate' = [fate EXCEPT ![a] = "done"] /\ job' = job
    BY <1>8 DEF GoOn
  <2>2. Destinations(a)' = Destinations(a) /\ DOMAIN Destinations(a) = 1..here
    BY <1>2, <1>3, <1>8, <2>1 DEF Destinations
  <2>3. Finished(a)'
    BY <1>1, <1>6, <2>1, <2>2 DEF Finished, Progress
  <2> QED
    BY <2>1, <2>3 DEF AlertInv
<1> QED
  BY <1>7, <1>8

LEMMA Tries ==
  ASSUME AlertInv, NEW a \in Alerts, Attempted(a), NEW here \in 1..Cardinality(Dests), here = job[a].dest
  PROVE  /\ tried' \in [Alerts -> [1..Cardinality(Dests) -> Nat]]
         /\ tried'[a][here] = tried[a][here] + 1
         /\ \A d \in 1..Cardinality(Dests) : d # here => tried'[a][d] = tried[a][d]
         /\ \A b \in Alerts : b # a => tried'[b] = tried[b]
<1>1. PICK row \in [1..Cardinality(Dests) -> Nat] : row = tried[a]
  BY DEF AlertInv
<1>2. PICK next : next = [row EXCEPT ![here] = row[here] + 1]
  OBVIOUS
<1>3. next \in [1..Cardinality(Dests) -> Nat] /\ next[here] = row[here] + 1
      /\ \A d \in 1..Cardinality(Dests) : d # here => next[d] = row[d]
  BY <1>2
<1>4. tried' = [tried EXCEPT ![a] = next]
  BY <1>1, <1>2 DEF Attempted
<1>5. tried \in [Alerts -> [1..Cardinality(Dests) -> Nat]]
  BY DEF AlertInv
<1> QED
  BY <1>1, <1>3, <1>4, <1>5

(* An attempt at one alert is all that alert's business.                   *)
LEMMA OneAttempt ==
  ASSUME AlertInv, NEW a \in Alerts, Attempted(a), services' = services, tail' = tail,
         acked \subseteq acked', fate[a] = "running",
         job' \in [Alerts -> Task \cup {NoJob}],
         fate' \in [Alerts -> {"none", "filtered", "dropped", "running", "done"}],
         fate'[a] \in {"running", "done"},
         fate'[a] = "running" => job'[a] \in Task /\ Progress(a)',
         fate'[a] = "done" => Finished(a)',
         \A b \in Alerts : b # a => job'[b] = job[b] /\ fate'[b] = fate[b]
  PROVE  AlertInv'
<1>1. job[a].dest \in 1..Cardinality(Dests)
  BY RoomToTry DEF AlertInv, Progress
<1>2. tried' \in [Alerts -> [1..Cardinality(Dests) -> Nat]]
      /\ \A b \in Alerts : b # a => tried'[b] = tried[b]
  BY <1>1, Tries
<1>3. \A b \in Alerts : b # a =>
        /\ tail'[b] # "done" => fate'[b] = "none"
        /\ fate'[b] = "none" => Untried(b)'
        /\ fate'[b] = "running" => job'[b] \in Task /\ Progress(b)'
        /\ fate'[b] = "done" => Finished(b)'
  <2> SUFFICES ASSUME NEW b \in Alerts, b # a
               PROVE  /\ tail'[b] # "done" => fate'[b] = "none"
                      /\ fate'[b] = "none" => Untried(b)'
                      /\ fate'[b] = "running" => job'[b] \in Task /\ Progress(b)'
                      /\ fate'[b] = "done" => Finished(b)'
    OBVIOUS
  <2>1. services' \in Seq(Configs) /\ services' # <<>>
        /\ \A s \in DOMAIN services : s \in DOMAIN services' /\ services'[s] = services[s]
    BY DEF AlertInv
  <2> QED
    BY <1>2, <2>1, OthersLast
<1>4. tail'[a] = "done"
  BY DEF AlertInv
<1> QED
  BY <1>2, <1>3, <1>4 DEF AlertInv

LEMMA AlertsAreAccountedFor == Spec => []AlertInv
<1>1. Init => AlertInv
  <2> SUFFICES ASSUME Init PROVE AlertInv
    OBVIOUS
  <2>1. services \in Seq(Configs) /\ services # <<>>
    BY DEF Init, AlertInit
  <2>2. tried \in [Alerts -> [1..Cardinality(Dests) -> Nat]] /\ \A a \in Alerts : Untried(a)
    BY DEF Init, AlertInit, Untried
  <2> QED
    BY <2>1, <2>2, OutboundAssumption DEF Init, AlertInit, AlertInv
<1>2. AlertInv /\ [Next]_vars => AlertInv'
  <2> SUFFICES ASSUME AlertInv, [Next]_vars PROVE AlertInv'
    OBVIOUS
  <2>1. ASSUME NEW a \in Alerts, Succeed(a), tail' = tail PROVE AlertInv'
    <3>1. PICK here : here = job[a].dest
      OBVIOUS
    <3>2. Progress(a) /\ here \in 1..Cardinality(Dests) /\ tried[a][here] = job[a].attempt - 1
      BY <2>1, <3>1, RoomToTry DEF AlertInv, Succeed, Progress
    <3>3. tried'[a][here] = job[a].attempt
      <4>1. Attempted(a) /\ job[a].attempt \in 1..MaxAttempts
        BY <2>1, <3>2 DEF Succeed, Progress
      <4>2. tried'[a][here] = tried[a][here] + 1
        BY <3>1, <3>2, <4>1, Tries
      <4> QED
        BY <3>2, <4>1, <4>2, AlertingAssumption
    <3>4. Served(a, here)'
      BY <2>1, <3>1, <3>2, <3>3, AlertingAssumption DEF Succeed, Served, Progress
    <3>5. acked \subseteq acked' /\ services' = services /\ Attempted(a) /\ GoOn(a) /\ fate[a] = "running"
      BY <2>1 DEF Succeed
    <3> QED
      BY <2>1, <3>1, <3>4, <3>5, GoneOn, OneAttempt
  <2>2. ASSUME NEW a \in Alerts, Fail(a), tail' = tail PROVE AlertInv'
    <3>1. PICK here : here = job[a].dest
      OBVIOUS
    <3>2. Progress(a) /\ job[a] \in Task /\ here \in 1..Cardinality(Dests)
          /\ tried[a][here] = job[a].attempt - 1 /\ job[a].attempt \in 1..MaxAttempts
      BY <2>2, <3>1, RoomToTry DEF AlertInv, Fail, Progress
    <3>3. tried'[a][here] = job[a].attempt
          /\ \A d \in 1..Cardinality(Dests) : d # here => tried'[a][d] = tried[a][d]
      <4>1. Attempted(a)
        BY <2>2 DEF Fail
      <4>2. /\ tried'[a][here] = tried[a][here] + 1
            /\ \A d \in 1..Cardinality(Dests) : d # here => tried'[a][d] = tried[a][d]
        BY <3>1, <3>2, <4>1, Tries
      <4> QED
        BY <3>2, <4>2, AlertingAssumption
    <3>4. acked' = acked /\ services' = services /\ Attempted(a) /\ fate[a] = "running"
      BY <2>2 DEF Fail
    <3>5. CASE job[a].attempt < MaxAttempts
      <4>1. job' = [job EXCEPT ![a] = [job[a] EXCEPT !.attempt = job[a].attempt + 1]] /\ fate' = fate
        BY <2>2, <3>5 DEF Fail, AlertInv
      <4>2. PICK old \in Task : old = job[a]
        BY <3>2
      <4>3. job'[a] = [service |-> old.service, dest |-> old.dest, attempt |-> old.attempt + 1]
            /\ \A b \in Alerts : b # a => job'[b] = job[b]
        BY <4>1, <4>2 DEF Task, AlertInv
      <4>4. /\ job'[a] \in Task /\ job'[a].service = job[a].service /\ job'[a].dest = here
            /\ job'[a].attempt = job[a].attempt + 1
        BY <3>1, <4>2, <4>3 DEF Task
      <4>5. job' \in [Alerts -> Task \cup {NoJob}]
        BY <4>1, <4>4 DEF AlertInv
      <4>6. Destinations(a)' = Destinations(a) /\ \A d : Served(a, d) /\ d # here
                /\ d \in 1..Cardinality(Dests) => Served(a, d)'
        BY <3>3, <3>4, <4>4 DEF Destinations, Served
      <4>7. Progress(a)'
        <5>1. job'[a].attempt \in 1..MaxAttempts /\ tried'[a][here] = job'[a].attempt - 1
          BY <3>2, <3>3, <3>5, <4>4, AlertingAssumption
        <5>2. \A d \in 1..(here - 1) : Served(a, d)'
          <6> SUFFICES ASSUME NEW d \in 1..(here - 1) PROVE Served(a, d)'
            OBVIOUS
          <6>1. Served(a, d)
            BY <3>1, <3>2 DEF Progress
          <6>2. d # here /\ d \in 1..Cardinality(Dests)
            BY <3>2, AlertingAssumption, FS_CardinalityType
          <6> QED
            BY <4>6, <6>1, <6>2
        <5>3. \A d \in DOMAIN Destinations(a) : d > here => tried'[a][d] = 0
          BY <3>1, <3>2, <3>3, RoomToTry DEF Progress
        <5> QED
          BY <3>1, <3>2, <3>4, <4>4, <4>6, <5>1, <5>2, <5>3 DEF Progress
      <4> QED
        BY <3>4, <4>1, <4>3, <4>4, <4>5, <4>7, <2>2, OneAttempt DEF AlertInv
    <3>6. CASE ~(job[a].attempt < MaxAttempts)
      <4>1. GoOn(a)
        BY <2>2, <3>6 DEF Fail
      <4>2. job[a].attempt = MaxAttempts
        BY <3>2, <3>6, AlertingAssumption
      <4>3. Served(a, here)'
        BY <3>3, <4>2 DEF Served
      <4> QED
        BY <2>2, <3>1, <3>4, <4>1, <4>3, GoneOn, OneAttempt
    <3> QED
      BY <3>5, <3>6
  <2>3. ASSUME services' \in Seq(Configs), services' # <<>>,
               \A s \in DOMAIN services : s \in DOMAIN services' /\ services'[s] = services[s],
               job' = job, fate' = fate, tried' = tried, acked' = acked,
               tail' \in [Facts -> {"idle", "send", "alert", "done"}],
               \A a \in Alerts : tail'[a] = tail[a] \/ tail'[a] = "done" \/ tail[a] # "done"
        PROVE  AlertInv'
    <3> SUFFICES ASSUME NEW a \in Alerts
                 PROVE  /\ tail'[a] # "done" => fate'[a] = "none"
                        /\ fate'[a] = "none" => Untried(a)'
                        /\ fate'[a] = "running" => job'[a] \in Task /\ Progress(a)'
                        /\ fate'[a] = "done" => Finished(a)'
      BY <2>3 DEF AlertInv
    <3> QED
      BY <2>3, OthersLast
  <2>4. services \in Seq(Configs) /\ services # <<>>
        /\ tail \in [Facts -> {"idle", "send", "alert", "done"}]
    BY DEF AlertInv
  <2>5. CASE Swap /\ tail' = tail
    <3>1. PICK config \in Configs : services' = Append(services, config)
      BY <2>5 DEF Swap
    <3>2. services' \in Seq(Configs) /\ services' # <<>>
          /\ \A s \in DOMAIN services : s \in DOMAIN services' /\ services'[s] = services[s]
      BY <2>4, <3>1
    <3> QED
      BY <2>3, <2>4, <2>5, <3>2 DEF Swap
  <2>6. CASE UNCHANGED <<tail, alertVars>>
    BY <2>3, <2>4, <2>6 DEF alertVars
  <2>7. ASSUME NEW f \in Facts, Commit(f) \/ CommitUntold(f) \/ Tell(f) \/ Abandon(f)
        PROVE  AlertInv'
    <3>1. /\ UNCHANGED alertVars /\ tail' \in [Facts -> {"idle", "send", "alert", "done"}]
          /\ \A a \in Alerts : tail'[a] = tail[a] \/ tail[a] # "done"
      BY <2>4, <2>7, OutboundAssumption DEF Commit, CommitUntold, Tell, Abandon
    <3> QED
      BY <2>3, <2>4, <3>1 DEF alertVars
  <2>8. ASSUME NEW f \in Facts, Raise(f) PROVE AlertInv'
    <3>1. f \in Alerts /\ fate[f] = "none" /\ Untried(f)
      BY <2>8, OutboundAssumption DEF Raise, AlertInv
    <3>2. /\ tail' = [tail EXCEPT ![f] = "done"] /\ UNCHANGED <<services, tried, acked>>
      BY <2>8 DEF Raise, Notify
    <3>3. /\ \A a \in Alerts : a # f => fate'[a] = fate[a] /\ job'[a] = job[a] /\ tail'[a] = tail[a]
          /\ tail' \in [Facts -> {"idle", "send", "alert", "done"}] /\ tail'[f] = "done"
      BY <2>4, <2>8, <3>2, OutboundAssumption DEF Raise, Notify, AlertInv
    <3>4. \A a \in Alerts : a # f =>
             /\ tail'[a] # "done" => fate'[a] = "none"
             /\ fate'[a] = "none" => Untried(a)'
             /\ fate'[a] = "running" => job'[a] \in Task /\ Progress(a)'
             /\ fate'[a] = "done" => Finished(a)'
      <4> SUFFICES ASSUME NEW a \in Alerts, a # f
                   PROVE  /\ tail'[a] # "done" => fate'[a] = "none"
                          /\ fate'[a] = "none" => Untried(a)'
                          /\ fate'[a] = "running" => job'[a] \in Task /\ Progress(a)'
                          /\ fate'[a] = "done" => Finished(a)'
        OBVIOUS
      <4> QED
        BY <2>4, <3>2, <3>3, OthersLast
    <3>5. CASE job' = job /\ \E end \in {"filtered", "dropped"} : fate' = [fate EXCEPT ![f] = end]
      <4>1. fate' \in [Alerts -> {"none", "filtered", "dropped", "running", "done"}]
            /\ fate'[f] \in {"filtered", "dropped"}
        BY <3>1, <3>5 DEF AlertInv
      <4> QED
        BY <3>2, <3>3, <3>4, <3>5, <4>1 DEF AlertInv
    <3>6. CASE /\ services[Current].dests # <<>> /\ fate' = [fate EXCEPT ![f] = "running"]
               /\ job' = [job EXCEPT ![f] = [service |-> Current, dest |-> 1, attempt |-> 1]]
      <4>1. job'[f] = [service |-> Current, dest |-> 1, attempt |-> 1] /\ fate'[f] = "running"
            /\ fate' \in [Alerts -> {"none", "filtered", "dropped", "running", "done"}]
        BY <3>1, <3>6 DEF AlertInv
      <4>2. Current \in DOMAIN services /\ Current \in Nat
        BY <2>4 DEF Current
      <4>3. job'[f] \in Task /\ job' \in [Alerts -> Task \cup {NoJob}]
        BY <3>1, <3>6, <4>1, <4>2 DEF AlertInv, Task
      <4>4. /\ services[Current].dests \in Seq(Dests)
            /\ Len(services[Current].dests) <= Cardinality(Dests) /\ Cardinality(Dests) \in Nat
        BY <2>4, <4>2, AlertingAssumption, FS_CardinalityType DEF Config
      <4>5. DOMAIN services[Current].dests \subseteq 1..Cardinality(Dests)
            /\ 1 \in DOMAIN services[Current].dests
        BY <3>6, <4>4
      <4>6. Destinations(f)' = services[Current].dests
        BY <3>2, <4>1, <4>2 DEF Destinations
      <4>7. Progress(f)'
        <5>1. job'[f].service \in DOMAIN services' /\ job'[f].dest = 1 /\ job'[f].attempt = 1
          BY <3>2, <4>1, <4>2
        <5>2. job'[f].attempt \in 1..MaxAttempts
          BY <5>1, AlertingAssumption
        <5>3. \A d \in DOMAIN services[Current].dests : tried'[f][d] = 0
          BY <3>1, <3>2, <4>5 DEF Untried
        <5> QED
          BY <4>5, <4>6, <5>1, <5>2, <5>3 DEF Progress
      <4> QED
        BY <3>2, <3>3, <3>4, <4>1, <4>3, <4>7 DEF AlertInv
    <3> QED
      BY <2>8, <3>5, <3>6 DEF Raise, Notify
  <2> QED
    BY <2>1, <2>2, <2>5, <2>6, <2>7, <2>8 DEF Next, AlertStep, vars
<1> QED
  BY <1>1, <1>2, PTL DEF Spec

-----------------------------------------------------------------------------
(* A task that ended served every destination it started with.             *)
THEOREM DestinationsAreServed == Spec => []EveryDestinationServed
<1>1. AlertInv => EveryDestinationServed
  BY DEF AlertInv, EveryDestinationServed, Finished, Served
<1> QED
  BY <1>1, AlertsAreAccountedFor, PTL

(* The tails, the feed and the alerts have their types.                    *)
THEOREM OutboundTypeCorrect == Spec => []TypeOK
<1>1. AlertInv => AlertTypeOK
  BY DEF AlertInv, Progress, AlertTypeOK
<1>2. FeedTypeOK /\ AlertInv => TypeOK
  BY <1>1 DEF AlertInv, TypeOK
<1> QED
  BY <1>2, FeedTypeCorrect, AlertsAreAccountedFor, PTL
=============================================================================
