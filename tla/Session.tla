------------------------------ MODULE Session ------------------------------
(***************************************************************************)
(* One browser at the dashboard: the AuthProvider, the login page, the     *)
(* guard around the dashboard, what SWR knows of /v1/health and of the     *)
(* pages' data, and the permissions the controls ask for.  Of the daemon:  *)
(* its auth mode and the session of the browser's cookie, both of which    *)
(* outlive its restarts or change with them.  Requests pass the            *)
(* dashboard's proxy, which answers 502 for those it cannot deliver.       *)
(***************************************************************************)
EXTENDS Naturals, FiniteSets

CONSTANTS
  Users, Role,     (* operators, and the role of each                       *)
  Modes,           (* the auth modes the daemon may be started with         *)
  Keys,            (* the SWR keys the dashboard's pages poll               *)
  Null, Undefined

ASSUME SessionAssumption ==
  /\ Users # {} /\ Role \in [Users -> {"admin", "operator", "viewer"}]
  /\ Modes \subseteq {"none", "mtls", "bearer", "credentials"}
  /\ Null \notin Modes /\ Undefined \notin {"admin", "operator", "viewer"}

VARIABLES
  mode,            (* http.auth.mode                                        *)
  session          (* whose session the browser's cookie names, or Null     *)
serverVars == <<mode, session>>

VARIABLES
  page,            (* the route, "login" or "dashboard"                     *)
  mounted,         (* RequireAuth has mounted the dashboard's pages         *)
  operator,        (* AuthProvider's operator                               *)
  me,              (* GET /v1/auth/me: "out", its status, or "done"         *)
  health,          (* SWR's key "health", with the auth_mode it knows       *)
  login,           (* the form: Null or the user of the request             *)
  poll,            (* SWR's keys of the pages                               *)
  debounce         (* authExpiredTimer is set                               *)
clientVars == <<page, mounted, operator, me, health, login, poll, debounce>>
vars == <<serverVars, clientVars>>

-----------------------------------------------------------------------------
(* SWR's keys: at is "idle", "out", or the answer that is on its way, and  *)
(* failed counts the failures of the present chain of retries.  A key in   *)
(* error is not polled; onErrorRetry asks again 10 s and 20 s after a      *)
(* failure, and never after a 401, so that the key comes to rest.          *)
AtRest == 3
InChain(x) == x.failed \in 1..AtRest - 1
Rested(x) == x.at = "idle" /\ x.failed = AtRest
Ask(x) == [x EXCEPT !.at = "out"]
Lose(x) == [x EXCEPT !.at = "502"]

(* The interval, and the timer of a retry.                                 *)
NoRetryMutant(x) == x.at = "idle" /\ x.failed = 0
Due(x) == x.at = "idle" /\ (x.failed = 0 \/ InChain(x))

(* The visitor's return to the window: a chain of its own.                 *)
Asked(x) == IF x.at = "idle" THEN Ask([x EXCEPT !.failed = 0]) ELSE x

(* A component mounts that uses the key: it asks, unless an answer is less *)
(* than 2 s old, or shares a request that is out, whose failure is then    *)
(* retried by nobody.                                                      *)
CountingMutant(x) == {IF x.at = "idle" THEN Asked(x) ELSE [x EXCEPT !.failed = @ + 1]}
Mounting(x) ==
  {IF x.at = "idle" THEN Asked(x) ELSE [x EXCEPT !.failed = AtRest - 1]}
    \cup (IF x.at = "idle" /\ x.failed = 0 THEN {x} ELSE {})

After(status, n) ==
  CASE status = "401" -> AtRest
    [] status = "502" -> IF n < AtRest THEN n + 1 ELSE AtRest
    [] OTHER -> 0

-----------------------------------------------------------------------------
(* The daemon *)

(* require_auth for a browser, which carries no bearer token.              *)
Status == IF mode \in {"none", "mtls"} \/ session # Null THEN "200" ELSE "401"

(* require_role(Admin)                                                     *)
AdminAccepted == mode \in {"none", "mtls"} \/ (session # Null /\ Role[session] = "admin")

(* The body of LoginResponse, as login and get_me send it.                 *)
Body(u) == [operator_id |-> u, username |-> u, role |-> Role[u]]

(* Seven days of inactivity, a changed password, a deleted operator.       *)
SessionEnds ==
  /\ session # Null
  /\ session' = Null
  /\ UNCHANGED <<mode, clientVars>>

(* The daemon starts again, maybe with another http.auth.mode; sessions    *)
(* are in the database.                                                    *)
Restart ==
  /\ mode' \in Modes \ {mode}
  /\ UNCHANGED <<session, clientVars>>

-----------------------------------------------------------------------------
(* The browser *)

(* usePermissions *)
AuthLoading == me # "done"
HealthLoading == health.at # "idle" /\ health.mode = Null
Settled == ~AuthLoading /\ ~HealthLoading
UnknownIsOffMutant == Settled /\ health.mode # "credentials"
AuthDisabled == Settled /\ health.mode = "none"
IsAuthenticated == operator # Null
UiRole == IF operator \in {Null, Undefined} THEN Undefined ELSE operator.role
CanWithdraw == AuthDisabled \/ UiRole \in {"admin", "operator"}
IsAdmin == AuthDisabled \/ UiRole = "admin"

(* RequireAuth lets the dashboard mount.                                   *)
Rendered == page = "dashboard" /\ Settled /\ (AuthDisabled \/ IsAuthenticated)

(* data.operator of lib/auth.ts                                            *)
Field(record, name) == IF name \in DOMAIN record THEN record[name] ELSE Undefined
OperatorOf(body) == Field(body, "operator")

(* AuthProvider's first effect asked; get_me needs a session in any mode.  *)
MeServed ==
  /\ me = "out"
  /\ me' \in {IF session # Null THEN "200" ELSE "401", "502"}
  /\ UNCHANGED <<serverVars, page, mounted, operator, health, login, poll, debounce>>
MeAnswered ==
  /\ me \in {"200", "401", "502"}
  /\ me' = "done"
  /\ operator' = IF me = "200" THEN OperatorOf(Body(CHOOSE u \in Users : TRUE)) ELSE Null
  /\ UNCHANGED <<serverVars, page, mounted, health, login, poll, debounce>>

(* useHealth asks every 5 s; SWR keeps what it knows when that fails.      *)
HealthAsked ==
  /\ Due(health) /\ health' = Ask(health)
  /\ UNCHANGED <<serverVars, page, mounted, operator, me, login, poll, debounce>>
HealthServed ==
  /\ health.at = "out" /\ health' = [health EXCEPT !.at = mode]
  /\ UNCHANGED <<serverVars, page, mounted, operator, me, login, poll, debounce>>
HealthLost ==
  /\ health.at = "out" /\ health' = Lose(health)
  /\ UNCHANGED <<serverVars, page, mounted, operator, me, login, poll, debounce>>
HealthAnswered ==
  /\ health.at \in Modes \cup {"502"}
  /\ health' = [mode |-> IF health.at = "502" THEN health.mode ELSE health.at,
                at |-> "idle", failed |-> After(health.at, health.failed)]
  /\ UNCHANGED <<serverVars, page, mounted, operator, me, login, poll, debounce>>

(* The login page's form, disabled while a request is out. Throttle has    *)
(* the handler; the answer is any of its own, or the proxy's.              *)
Submit ==
  /\ page = "login" /\ login = Null
  /\ login' \in Users
  /\ UNCHANGED <<serverVars, page, mounted, operator, me, health, poll, debounce>>
LoginAnswered ==
  /\ login # Null
  /\ login' = Null
  /\ \/ /\ session' = login
        /\ operator' = OperatorOf(Body(login))
        /\ page' = "dashboard"
     \/ UNCHANGED <<session, operator, page>>
  /\ UNCHANGED <<mode, mounted, me, health, poll, debounce>>

(* The two effects that push a route, whose page mounts useHealth again.   *)
ToLogin ==
  /\ page = "dashboard" /\ Settled /\ ~AuthDisabled /\ ~IsAuthenticated
  /\ page' = "login" /\ health' \in Mounting(health)
  /\ UNCHANGED <<serverVars, mounted, operator, me, login, poll, debounce>>
SignedInOnlyMutant ==
  /\ page = "login" /\ Settled /\ IsAuthenticated
  /\ page' = "dashboard" /\ health' \in Mounting(health)
  /\ UNCHANGED <<serverVars, mounted, operator, me, login, poll, debounce>>
ToDashboard ==
  /\ page = "login" /\ Settled /\ (AuthDisabled \/ IsAuthenticated)
  /\ page' = "dashboard" /\ health' \in Mounting(health)
  /\ UNCHANGED <<serverVars, mounted, operator, me, login, poll, debounce>>

(* The pages and their hooks come and go with RequireAuth's children.      *)
Mount ==
  /\ Rendered /\ ~mounted /\ mounted' = TRUE
  /\ poll' \in {p \in [Keys -> UNION {Mounting(poll[k]) : k \in Keys}] :
                 \A k \in Keys : p[k] \in Mounting(poll[k])}
  /\ UNCHANGED <<serverVars, page, operator, me, health, login, debounce>>
Unmount ==
  /\ mounted /\ ~Rendered /\ mounted' = FALSE
  /\ UNCHANGED <<serverVars, page, operator, me, health, login, poll, debounce>>

PollAsked(k) ==
  /\ mounted /\ Due(poll[k]) /\ poll' = [poll EXCEPT ![k] = Ask(@)]
  /\ UNCHANGED <<serverVars, page, mounted, operator, me, health, login, debounce>>
PollServed(k) ==
  /\ poll[k].at = "out" /\ poll' = [poll EXCEPT ![k].at = Status]
  /\ UNCHANGED <<serverVars, page, mounted, operator, me, health, login, debounce>>
PollLost(k) ==
  /\ poll[k].at = "out" /\ poll' = [poll EXCEPT ![k] = Lose(@)]
  /\ UNCHANGED <<serverVars, page, mounted, operator, me, health, login, debounce>>
(* A 401 clears the operator, at most once in 2 s.                         *)
PollAnswered(k) ==
  /\ poll[k].at \in {"200", "401", "502"}
  /\ poll' = [poll EXCEPT ![k] = [at |-> "idle", failed |-> After(@.at, @.failed)]]
  /\ IF poll[k].at = "401" /\ ~debounce
     THEN operator' = Null /\ debounce' = TRUE
     ELSE UNCHANGED <<operator, debounce>>
  /\ UNCHANGED <<serverVars, page, mounted, me, health, login>>
StuckTimerMutant == FALSE
TimerDue == debounce
DebounceOver ==
  /\ TimerDue /\ debounce' = FALSE
  /\ UNCHANGED <<serverVars, page, mounted, operator, me, health, login, poll>>

(* The visitor comes back to the window.                                   *)
Focus ==
  /\ health' = Asked(health)
  /\ poll' = [k \in Keys |-> IF mounted THEN Asked(poll[k]) ELSE poll[k]]
  /\ UNCHANGED <<serverVars, page, mounted, operator, me, login, debounce>>

-----------------------------------------------------------------------------
Init ==
  /\ mode \in Modes /\ session \in Users \cup {Null}
  /\ page \in {"login", "dashboard"} /\ mounted = FALSE /\ operator = Null
  /\ me = "out" /\ health = [mode |-> Null, at |-> "out", failed |-> 0]
  /\ login = Null /\ poll = [k \in Keys |-> [at |-> "idle", failed |-> 0]] /\ debounce = FALSE

Next ==
  \/ SessionEnds \/ Restart
  \/ MeServed \/ MeAnswered \/ HealthAsked \/ HealthServed \/ HealthLost \/ HealthAnswered
  \/ Submit \/ LoginAnswered \/ ToLogin \/ ToDashboard \/ Mount \/ Unmount
  \/ (\E k \in Keys : PollAsked(k) \/ PollServed(k) \/ PollLost(k) \/ PollAnswered(k))
  \/ DebounceOver \/ Focus

(* The daemon answers what is not lost, and requests are not lost for      *)
(* ever; timers fire and effects run.  Nobody need sign in, come back to   *)
(* the window, restart the daemon, or lose a session.                      *)
Fairness ==
  /\ WF_vars(MeServed) /\ WF_vars(MeAnswered)
  /\ WF_vars(HealthAsked) /\ WF_vars(HealthServed) /\ WF_vars(HealthAnswered)
  /\ WF_vars(ToLogin) /\ WF_vars(ToDashboard) /\ WF_vars(Mount) /\ WF_vars(Unmount)
  /\ \A k \in Keys : WF_vars(PollAsked(k)) /\ WF_vars(PollServed(k)) /\ WF_vars(PollAnswered(k))
  /\ WF_vars(DebounceOver)
  /\ <>[][~HealthLost /\ \A k \in Keys : ~PollLost(k)]_vars

Spec == Init /\ [][Next]_vars /\ Fairness

-----------------------------------------------------------------------------
(* Properties *)

SessionTypeOK ==
  /\ mode \in Modes /\ session \in Users \cup {Null} /\ login \in Users \cup {Null}
  /\ page \in {"login", "dashboard"} /\ mounted \in BOOLEAN /\ debounce \in BOOLEAN
  /\ operator \in {Null, Undefined} \cup {Body(u) : u \in Users}
  /\ me \in {"out", "200", "401", "502", "done"}
  /\ health \in [mode : Modes \cup {Null}, at : Modes \cup {"idle", "out", "502"}, failed : 0..AtRest]
  /\ poll \in [Keys -> [at : {"idle", "out", "200", "401", "502"}, failed : 0..AtRest]]

(* "session expired": a dashboard whose session has ended does not stay,   *)
(* although 401 events are debounced and stale ones may come at any time:  *)
(* unless the keys that would tell have come to rest in error, and then as *)
(* well if the visitor keeps coming back.                                  *)
Shut == mode \in {"bearer", "credentials"} /\ session = Null
NobodyTells == \/ Rested(health) /\ health.mode = "none"
               \/ \A k \in Keys : Rested(poll[k])
ExpiryIsNoticed ==
  /\ (Shut /\ page = "dashboard") ~> (page = "login" \/ ~Shut \/ NobodyTells)
  /\ SF_vars(Focus) => ((Shut /\ page = "dashboard") ~> (page = "login" \/ ~Shut))

(* With auth_mode none the dashboard opens in the end, although a failed   *)
(* health check first sends the visitor to the login page: unless the      *)
(* health check has come to rest in error, and then as well if the visitor *)
(* keeps coming back.                                                      *)
NoneOpens ==
  /\ <>[](mode = "none") => <>[](Rendered \/ Rested(health))
  /\ <>[](mode = "none") /\ SF_vars(Focus) => <>[]Rendered

(* "Match backend behavior": what the dashboard offers an administrator    *)
(* and the daemon is going to refuse, because it has been started with     *)
(* another auth mode or the session has ended, it does not go on to offer: *)
(* unless the health check has come to rest before it could tell, and then *)
(* as well if the visitor keeps coming back.                               *)
Offered == Rendered /\ IsAdmin /\ ~AdminAccepted
OffersEnd ==
  /\ Offered ~> (~Offered \/ (Rested(health) /\ health.mode = "none"))
  /\ SF_vars(Focus) => (Offered ~> ~Offered)

(* frontend/hooks/use-permissions.ts: an admin who is signed in, with      *)
(* everything settled, may withdraw mitigations.                           *)
AdminsMayAct ==
  Rendered /\ session # Null /\ Role[session] = "admin" => CanWithdraw
=============================================================================
