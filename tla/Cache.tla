------------------------------- MODULE Cache -------------------------------
(***************************************************************************)
(* How the dashboard's data gets to its pages: the fetchers with the map   *)
(* of requests in flight, SWR's keys, their polls and focus events, the    *)
(* feed's messages, and the refetch after a write of the page's own.       *)
(* The data of all endpoints is one version number.                        *)
(***************************************************************************)
EXTENDS Naturals, FiniteSets

CONSTANTS
  Keys,                     (* the SWR keys that are mounted                *)
  MaxVersion,                               (* a bound                      *)
  MaxAttempts               (* maxReconnectAttempts: 10 in the code         *)

-----------------------------------------------------------------------------
(* The hooks of use-api.ts, and what their fetchers GET.                   *)

Polled == {"health", "health-detail", "stats", "mitigations", "mitigation", "safelist",
           "pops", "events", "audit", "dashboard", "timeseries"}
OnFocus == {"operators", "config-settings", "config-inventory", "config-playbooks",
            "alerting-config", "ip-history"}

(* getDashboardData asks three endpoints; the stats are the part followed. *)
Endpoint == [k \in Polled \cup OnFocus |-> IF k = "dashboard" THEN "stats" ELSE k]

(* The keys a message of the feed revalidates; "dashboard" is not there.   *)
(* onmessage knows the types as docs/api.md:894 spells them, the daemon    *)
(* sends them in snake_case (ws/messages.rs:7); either kind may come here. *)
Known == {"MitigationCreated", "MitigationUpdated", "MitigationExpired", "MitigationWithdrawn"}
MessageTypes == Known \cup {"EventIngested", "ResyncRequired", "mitigation_created"}
Refetched(type) ==
  CASE type = "ResyncRequired" -> Keys
    [] type = "EventIngested" -> Keys \cap {"events", "stats"}
    [] type \in Known -> Keys \cap {"mitigations", "stats"}
    [] OTHER -> {}

ASSUME CacheAssumption ==
  /\ Keys \subseteq Polled \cup OnFocus
  /\ MaxVersion \in Nat \ {0} /\ MaxAttempts \in Nat

Urls == {Endpoint[k] : k \in Keys}

VARIABLES
  version,         (* the daemon's data                                     *)
  get,             (* requestCache: of each URL the GET it holds            *)
  waiting,         (* the keys whose latest request is one of those         *)
  shown,           (* the data of each key, 0 for undefined                 *)
  failed,          (* failures of the key's chain of retries, see AtRest    *)
  write,           (* the page's own POST, PUT or DELETE                    *)
  sock,            (* connectionState, with the attempts made               *)
  told             (* the data the feed's messages so far are about         *)
vars == <<version, get, waiting, shown, failed, write, sock, told>>

-----------------------------------------------------------------------------
(* fetchApi and doFetch: one GET per URL at a time, whose promise is kept  *)
(* for 100 ms after it settled, also when it was rejected.                 *)

NoGet == [at |-> "none", seen |-> 0, status |-> "200"]
Started == [at |-> "out", seen |-> 0, status |-> "200"]

(* A key in error keeps its data. onErrorRetry asks again 10 s and 20 s    *)
(* after a failure and then no more, and never after a 401. (Nor does SWR  *)
(* call it in a hidden window; such a failure is a 401 here.)              *)
AtRest == 3
ForgetfulMutant(g, k) == IF g.status = "200" THEN g.seen ELSE 0
Result(g, k) == IF g.status = "200" THEN g.seen ELSE shown[k]
After(g, n) ==
  CASE g.status = "200" -> 0
    [] g.status = "401" -> AtRest
    [] OTHER -> IF n < AtRest THEN n + 1 ELSE AtRest

(* Keys k ask, with the failures of the chain they ask in: those whose URL *)
(* has no GET start one, and those whose GET has settled are answered from *)
(* it at once.                                                             *)
Ask(ks, past) ==
  LET kept == {k \in ks : get[Endpoint[k]].at = "kept"} IN
  /\ get' = [u \in Urls |->
       IF get[u].at = "none" /\ \E k \in ks : Endpoint[k] = u
       THEN Started ELSE get[u]]
  /\ waiting' = waiting \cup (ks \ kept)
  /\ shown' = [k \in Keys |-> IF k \in kept THEN Result(get[Endpoint[k]], k) ELSE shown[k]]
  /\ failed' = [k \in Keys |->
       CASE k \in kept -> After(get[Endpoint[k]], past) [] k \in ks \ kept -> past [] OTHER -> failed[k]]

(* The daemon answers with the data it has.                                *)
Serve(u) ==
  /\ get[u].at = "out"
  /\ get' = [get EXCEPT ![u] = [at |-> "back", seen |-> version, status |-> "200"]]
  /\ UNCHANGED <<version, waiting, shown, failed, write, sock, told>>
(* Or it refuses the session, or the proxy does not reach it.              *)
Fail(u) ==
  /\ get[u].at = "out"
  /\ \E status \in {"401", "502"} :
       get' = [get EXCEPT ![u] = [at |-> "back", seen |-> 0, status |-> status]]
  /\ UNCHANGED <<version, waiting, shown, failed, write, sock, told>>

(* The promise settles: SWR keeps the old data when it is rejected.        *)
Settle(u) ==
  /\ get[u].at = "back"
  /\ get' = [get EXCEPT ![u].at = "kept"]
  /\ shown' = [k \in Keys |-> IF k \in waiting /\ Endpoint[k] = u THEN Result(get[u], k) ELSE shown[k]]
  /\ failed' = [k \in Keys |-> IF k \in waiting /\ Endpoint[k] = u THEN After(get[u], failed[k]) ELSE failed[k]]
  /\ waiting' = {k \in waiting : Endpoint[k] # u}
  /\ UNCHANGED <<version, write, sock, told>>

KeptForeverMutant(u) == FALSE
UnsettledMutant(u) == get[u].at # "none"
Dropped(u) == get[u].at = "kept"
Drop(u) ==
  /\ Dropped(u)
  /\ get' = [get EXCEPT ![u] = NoGet]
  /\ UNCHANGED <<version, waiting, shown, failed, write, sock, told>>

-----------------------------------------------------------------------------
(* What makes SWR ask *)

(* The refresh interval, which skips a key in error; a key that waits is  *)
(* deduplicated.                                                           *)
Poll(k) ==
  /\ k \in Polled \ waiting /\ failed[k] = 0
  /\ Ask({k}, 0)
  /\ UNCHANGED <<version, write, sock, told>>
(* The timer of onErrorRetry.                                              *)
NoRetryMutant(k) == FALSE
InChain(k) == failed[k] \in 1..AtRest - 1
Retry(k) ==
  /\ InChain(k) /\ k \notin waiting
  /\ Ask({k}, failed[k])
  /\ UNCHANGED <<version, write, sock, told>>
(* Mounting a page, and coming back to its window: a chain of its own.     *)
Focus(k) ==
  /\ k \notin waiting
  /\ Ask({k}, 0)
  /\ UNCHANGED <<version, write, sock, told>>

(* A message of the feed; it also tells of what it was not sent for.       *)
Message(type) ==
  /\ sock.state = "connected" /\ told < version
  /\ told' = version
  /\ Ask(Refetched(type), 0)
  /\ UNCHANGED <<version, write, sock>>

-----------------------------------------------------------------------------
(* Writes of the page's own, and those of others *)

Change ==
  /\ version < MaxVersion /\ version' = version + 1
  /\ UNCHANGED <<get, waiting, shown, failed, write, sock, told>>

(* "json" has a body, "empty" (201 and 204 without one) fails to parse.    *)
NoWrite == [at |-> "idle"]
WriteAsked(k, answer) ==
  /\ write = NoWrite
  /\ write' = [at |-> "out", key |-> k, answer |-> answer]
  /\ UNCHANGED <<version, get, waiting, shown, failed, sock, told>>
WriteServed ==
  /\ write.at = "out"
  /\ \/ version < MaxVersion /\ version' = version + 1
        /\ \E at \in {"done", "failed"} : write' = [write EXCEPT !.at = at]
     \/ UNCHANGED version /\ write' = [write EXCEPT !.at = "failed"]
  /\ UNCHANGED <<get, waiting, shown, failed, sock, told>>
Parses(answer) == answer = "json"
(* mutate() starts a request of its own, whatever the key waits for, yet   *)
(* may be handed the GET that was sent before the write.                   *)
WriteAnswered ==
  /\ write.at \in {"done", "failed"}
  /\ IF write.at = "done" /\ Parses(write.answer)
     THEN Ask({write.key}, 0) ELSE UNCHANGED <<get, waiting, shown, failed>>
  /\ write' = NoWrite
  /\ UNCHANGED <<version, sock, told>>

-----------------------------------------------------------------------------
(* WebSocketProvider *)

Connected ==
  /\ sock.state = "connecting"
  /\ sock' = [state |-> "connected", attempts |-> 0] /\ told' = version
  /\ UNCHANGED <<version, get, waiting, shown, failed, write>>
(* onclose, and the timer's connect as long as attempts are left.          *)
Closed ==
  /\ sock.state \in {"connecting", "connected"}
  /\ sock' = [sock EXCEPT !.state = "disconnected"]
  /\ UNCHANGED <<version, get, waiting, shown, failed, write, told>>
Reconnect ==
  /\ sock.state = "disconnected" /\ sock.attempts < MaxAttempts
  /\ sock' = [state |-> "connecting", attempts |-> sock.attempts + 1]
  /\ UNCHANGED <<version, get, waiting, shown, failed, write, told>>

-----------------------------------------------------------------------------
Init ==
  /\ version = 1 /\ get = [u \in Urls |-> NoGet] /\ waiting = {}
  /\ shown = [k \in Keys |-> 0] /\ failed = [k \in Keys |-> 0] /\ write = NoWrite
  /\ sock = [state |-> "connecting", attempts |-> 0] /\ told = 1

Next ==
  \/ \E u \in Urls : Serve(u) \/ Fail(u) \/ Settle(u) \/ Drop(u)
  \/ \E k \in Keys : Poll(k) \/ Retry(k) \/ Focus(k)
  \/ \E type \in MessageTypes : Message(type)
  \/ Change \/ (\E k \in Keys, a \in {"json", "empty"} : WriteAsked(k, a))
  \/ WriteServed \/ WriteAnswered \/ Connected \/ Closed \/ Reconnect

(* Requests are answered, timers and promises run, and failures end some   *)
(* time; nobody need write, come back or change anything, and the feed     *)
(* need not be connected.                                                  *)
Fairness ==
  /\ \A u \in Urls : WF_vars(Serve(u)) /\ WF_vars(Settle(u)) /\ WF_vars(Drop(u))
  /\ <>[][\A u \in Urls : ~Fail(u)]_vars
  /\ \A k \in Keys : WF_vars(Poll(k)) /\ WF_vars(Retry(k))

Spec == Init /\ [][Next]_vars /\ Fairness

-----------------------------------------------------------------------------
(* Properties *)

CacheTypeOK ==
  /\ version \in 1..MaxVersion /\ told \in 1..version
  /\ failed \in [Keys -> 0..AtRest]
  /\ get \in [Urls -> [at : {"none", "out", "back", "kept"}, seen : 0..version, status : {"200", "401", "502"}]]
  /\ waiting \subseteq Keys /\ shown \in [Keys -> 0..version]
  /\ write \in {NoWrite} \cup [at : {"out", "done", "failed"}, key : Keys, answer : {"json", "empty"}]
  /\ sock \in [state : {"connecting", "connected", "disconnected"}, attempts : 0..MaxAttempts]
  /\ \A k \in waiting : get[Endpoint[k]].at \in {"out", "back"}

(* Whatever asks, in whatever order answers are shared, kept, lost or      *)
(* superseded: each key's data is the daemon's and never gets older, as    *)
(* View says.                                                              *)
Pages == INSTANCE View WITH current <- version, known <- shown
PagesAreViews == Pages!Spec

(* "SWR polling": what the daemon holds is shown in the end on every page  *)
(* that polls, although failed GETs are shared and kept, a write's own     *)
(* refetch may be given an older answer, and the feed may have given up:   *)
(* unless the key comes to rest in error, and then as well if its visitor  *)
(* keeps coming back to the page.                                          *)
ChangesArrive ==
  \A v \in 1..MaxVersion, k \in Keys \cap Polled :
    /\ version = v ~> shown[k] >= v \/ failed[k] = AtRest
    /\ SF_vars(Focus(k)) => (version = v ~> shown[k] >= v)
=============================================================================
