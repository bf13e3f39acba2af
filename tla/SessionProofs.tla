---------------------------- MODULE SessionProofs ----------------------------
(***************************************************************************)
(* A theorem about signing in, for any operators, roles, auth modes and    *)
(* keys that the pages poll.                                               *)
(***************************************************************************)
EXTENDS Session, TLAPS

(* A body of login or get_me has no field "operator".                      *)
LEMMA NoOperatorField == \A u : OperatorOf(Body(u)) = Undefined
<1> SUFFICES ASSUME NEW u PROVE OperatorOf(Body(u)) = Undefined
  OBVIOUS
<1>1. DOMAIN Body(u) = {"operator_id", "username", "role"}
  BY DEF Body
<1>2. "operator" \notin DOMAIN Body(u)
  BY <1>1
<1> QED
  BY <1>2 DEF OperatorOf, Field

-----------------------------------------------------------------------------
(* A key of SWR, of /v1/health and of the pages.                          *)
HealthKey == [mode : Modes \cup {Null}, at : Modes \cup {"idle", "out", "502"}, failed : 0..AtRest]
PollKey == [at : {"idle", "out", "200", "401", "502"}, failed : 0..AtRest]

LEMMA HealthKeys ==
  ASSUME NEW x \in HealthKey
  PROVE  Ask(x) \in HealthKey /\ Lose(x) \in HealthKey /\ Mounting(x) \subseteq HealthKey
         /\ Asked(x) \in HealthKey
<1>1. Ask(x) \in HealthKey /\ Lose(x) \in HealthKey
  BY DEF HealthKey, Ask, Lose
<1>2. Asked(x) \in HealthKey
  <2>1. PICK y : y = [x EXCEPT !.failed = 0]
    OBVIOUS
  <2>2. y \in HealthKey
    BY <2>1 DEF HealthKey, AtRest
  <2>3. Ask(y) \in HealthKey
    BY <2>2 DEF HealthKey, Ask
  <2> QED
    BY <2>1, <2>3 DEF Asked
<1>3. [x EXCEPT !.failed = AtRest - 1] \in HealthKey
  BY DEF HealthKey, AtRest
<1>4. \A y \in Mounting(x) : y \in {Asked(x), [x EXCEPT !.failed = AtRest - 1], x}
  BY DEF Mounting
<1> QED
  BY <1>1, <1>2, <1>3, <1>4

LEMMA PollKeys ==
  ASSUME NEW x \in PollKey
  PROVE  Ask(x) \in PollKey /\ Lose(x) \in PollKey /\ Mounting(x) \subseteq PollKey
         /\ Asked(x) \in PollKey
<1>1. Ask(x) \in PollKey /\ Lose(x) \in PollKey
  BY DEF PollKey, Ask, Lose
<1>2. Asked(x) \in PollKey
  <2>1. PICK y : y = [x EXCEPT !.failed = 0]
    OBVIOUS
  <2>2. y \in PollKey
    BY <2>1 DEF PollKey, AtRest
  <2>3. Ask(y) \in PollKey
    BY <2>2 DEF PollKey, Ask
  <2> QED
    BY <2>1, <2>3 DEF Asked
<1>3. [x EXCEPT !.failed = AtRest - 1] \in PollKey
  BY DEF PollKey, AtRest
<1>4. \A y \in Mounting(x) : y \in {Asked(x), [x EXCEPT !.failed = AtRest - 1], x}
  BY DEF Mounting
<1> QED
  BY <1>1, <1>2, <1>3, <1>4

(* Failures are counted up to the number after which a key rests.          *)
LEMMA Failures ==
  ASSUME NEW n \in 0..AtRest, NEW status
  PROVE  After(status, n) \in 0..AtRest
BY DEF After, AtRest

Believed == operator \in {Null, Undefined}
Typed == SessionTypeOK /\ Believed

-----------------------------------------------------------------------------
LEMMA StartIsTyped == Init => Typed
<1> SUFFICES ASSUME Init PROVE Typed
  OBVIOUS
<1>1. /\ mode \in Modes /\ session \in Users \cup {Null} /\ login = Null /\ operator = Null
      /\ page \in {"login", "dashboard"} /\ mounted = FALSE /\ debounce = FALSE /\ me = "out"
  BY DEF Init
<1>2. health \in HealthKey
  BY DEF Init, HealthKey, AtRest
<1>3. poll \in [Keys -> PollKey]
  BY DEF Init, PollKey, AtRest
<1> QED
  BY <1>1, <1>2, <1>3 DEF Typed, Believed, SessionTypeOK, HealthKey, PollKey

LEMMA StepsAreTyped == Typed /\ [Next]_vars => Typed'
<1> SUFFICES ASSUME Typed, [Next]_vars PROVE Typed'
  OBVIOUS
<1>0. /\ mode \in Modes /\ session \in Users \cup {Null} /\ login \in Users \cup {Null}
      /\ page \in {"login", "dashboard"} /\ mounted \in BOOLEAN /\ debounce \in BOOLEAN
      /\ operator \in {Null, Undefined} /\ me \in {"out", "200", "401", "502", "done"}
      /\ health \in HealthKey /\ poll \in [Keys -> PollKey]
  BY DEF Typed, Believed, SessionTypeOK, HealthKey, PollKey
<1>1. SUFFICES
      /\ mode' \in Modes /\ session' \in Users \cup {Null} /\ login' \in Users \cup {Null}
      /\ page' \in {"login", "dashboard"} /\ mounted' \in BOOLEAN /\ debounce' \in BOOLEAN
      /\ operator' \in {Null, Undefined} /\ me' \in {"out", "200", "401", "502", "done"}
      /\ health' \in HealthKey /\ poll' \in [Keys -> PollKey]
  BY <1>1 DEF Typed, Believed, SessionTypeOK, HealthKey, PollKey
<1>2. ASSUME NEW k \in Keys, NEW y \in PollKey
      PROVE  [poll EXCEPT ![k] = y] \in [Keys -> PollKey]
  BY <1>0
<1>3. CASE SessionEnds \/ Restart
  BY <1>0, <1>3 DEF SessionEnds, Restart, clientVars
<1>4. CASE MeServed
  BY <1>0, <1>4 DEF MeServed, serverVars
<1>5. CASE MeAnswered
  BY <1>0, <1>5, NoOperatorField DEF MeAnswered, serverVars
<1>6. CASE HealthAsked \/ HealthLost
  BY <1>0, <1>6, HealthKeys DEF HealthAsked, HealthLost, serverVars
<1>7. CASE HealthServed
  <2>1. health' \in HealthKey
    BY <1>0, <1>7 DEF HealthServed, HealthKey
  <2> QED
    BY <1>0, <1>7, <2>1 DEF HealthServed, serverVars
<1>8. CASE HealthAnswered
  <2>1. health.failed \in 0..AtRest /\ health.mode \in Modes \cup {Null}
    BY <1>0 DEF HealthKey
  <2>2. After(health.at, health.failed) \in 0..AtRest
    BY <2>1, Failures
  <2>3. \E m \in Modes \cup {Null} :
          health' = [mode |-> m, at |-> "idle", failed |-> After(health.at, health.failed)]
    BY <1>8, <2>1 DEF HealthAnswered
  <2>4. health' \in HealthKey
    BY <2>2, <2>3 DEF HealthKey
  <2> QED
    BY <1>0, <1>8, <2>4 DEF HealthAnswered, serverVars
<1>9. CASE Submit \/ DebounceOver \/ Unmount
  BY <1>0, <1>9 DEF Submit, DebounceOver, Unmount, serverVars
<1>10. CASE LoginAnswered
  BY <1>0, <1>10, NoOperatorField DEF LoginAnswered
<1>11. CASE ToLogin \/ ToDashboard
  BY <1>0, <1>11, HealthKeys DEF ToLogin, ToDashboard, serverVars
<1>12. CASE Mount
  <2>1. PICK p \in [Keys -> UNION {Mounting(poll[k]) : k \in Keys}] :
          poll' = p /\ \A k \in Keys : p[k] \in Mounting(poll[k])
    BY <1>12 DEF Mount
  <2>2. \A k \in Keys : p[k] \in PollKey
    BY <1>0, <2>1, PollKeys
  <2>3. poll' \in [Keys -> PollKey]
    BY <2>1, <2>2
  <2> QED
    BY <1>0, <1>12, <2>3 DEF Mount, serverVars
<1>13. CASE \E k \in Keys : PollAsked(k) \/ PollServed(k) \/ PollLost(k)
  <2>1. PICK k \in Keys : PollAsked(k) \/ PollServed(k) \/ PollLost(k)
    BY <1>13
  <2>2. poll[k] \in PollKey
    BY <1>0
  <2>3. [poll[k] EXCEPT !.at = Status] \in PollKey
    BY <2>2 DEF PollKey, Status
  <2>4. \/ poll' = [poll EXCEPT ![k] = Ask(poll[k])] \/ poll' = [poll EXCEPT ![k] = Lose(poll[k])]
        \/ poll' = [poll EXCEPT ![k] = [poll[k] EXCEPT !.at = Status]]
    BY <1>0, <2>1 DEF PollAsked, PollServed, PollLost
  <2>5. poll' \in [Keys -> PollKey]
    BY <1>2, <2>2, <2>3, <2>4, PollKeys
  <2> QED
    BY <1>0, <2>1, <2>5 DEF PollAsked, PollServed, PollLost, serverVars
<1>14. CASE \E k \in Keys : PollAnswered(k)
  <2>1. PICK k \in Keys : PollAnswered(k)
    BY <1>14
  <2>2. poll[k].failed \in 0..AtRest
    BY <1>0 DEF PollKey
  <2>3. [at |-> "idle", failed |-> After(poll[k].at, poll[k].failed)] \in PollKey
    BY <2>2, Failures DEF PollKey
  <2>4. poll' = [poll EXCEPT ![k] = [at |-> "idle", failed |-> After(poll[k].at, poll[k].failed)]]
    BY <1>0, <2>1 DEF PollAnswered
  <2>5. poll' \in [Keys -> PollKey]
    BY <1>2, <2>3, <2>4
  <2> QED
    BY <1>0, <2>1, <2>5 DEF PollAnswered, serverVars
<1>15. CASE Focus
  <2>1. health' \in HealthKey
    BY <1>0, <1>15, HealthKeys DEF Focus
  <2>2. poll' \in [Keys -> PollKey]
    BY <1>0, <1>15, PollKeys DEF Focus
  <2> QED
    BY <1>0, <1>15, <2>1, <2>2 DEF Focus, serverVars
<1>16. CASE UNCHANGED vars
  BY <1>0, <1>16 DEF vars, serverVars, clientVars
<1> QED
  BY <1>3, <1>4, <1>5, <1>6, <1>7, <1>8, <1>9, <1>10, <1>11, <1>12, <1>13, <1>14, <1>15, <1>16
     DEF Next

(* However answers, failures, restarts and navigations come in turn, a     *)
(* session is an operator's, a failed key has failed at most as often as   *)
(* SWR's retries let it, and no page waits for a status it does not know.  *)
THEOREM SessionTypes == Spec => []SessionTypeOK
<1>1. Init => Typed
  BY StartIsTyped
<1>2. Typed /\ [Next]_vars => Typed'
  BY StepsAreTyped
<1>3. Typed => SessionTypeOK
  BY DEF Typed
<1> QED
  BY <1>1, <1>2, <1>3, PTL DEF Spec
=============================================================================
