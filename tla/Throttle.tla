------------------------------ MODULE Throttle ------------------------------
(***************************************************************************)
(* The daemon's login handler as its clients share it: the count of recent *)
(* attempts by name, LOGIN_ATTEMPTS, that is taken under a lock before a   *)
(* password is verified and cleared after one was right.                   *)
(***************************************************************************)
EXTENDS Naturals, Sequences, FiniteSets

CONSTANTS
  LoginNames,        (* valid user names, of operators or not               *)
  LoginWindow,       (* LOGIN_WINDOW_SECS: 60 in the code                   *)
  LoginMaxAttempts,  (* LOGIN_MAX_ATTEMPTS: 5 in the code                   *)
  LoginMaxTracked,   (* LOGIN_MAX_TRACKED_USERS: 10 000 in the code         *)
  MaxSeconds, MaxTries, MaxRight                               (* bounds    *)

ASSUME ThrottleAssumption ==
  /\ IsFiniteSet(LoginNames)
  /\ LoginWindow \in Nat \ {0} /\ LoginMaxAttempts \in Nat \ {0} /\ LoginMaxTracked \in Nat
  /\ MaxSeconds \in Nat /\ MaxTries \in Nat /\ MaxRight \in Nat

VARIABLES
  attempts,        (* LOGIN_ATTEMPTS: of each name the count and its start  *)
  verifying,       (* right passwords that are being verified, by name      *)
  tries,           (* history: times of a name's attempts since the last    *)
                   (* right password or start of the daemon                 *)
  tried,           (* history: the times of all of them                     *)
  now
throttleVars == <<attempts, verifying, tries, tried, now>>

NoEntry == [n |-> 0, at |-> 0]

(* prune_login_attempts_locked: outdated entries go, and the oldest of the *)
(* others that are more than may be tracked.                               *)
CurrentEntries == {v \in LoginNames : attempts[v].n > 0 /\ now - attempts[v].at < LoginWindow}
TooMany == LET n == Cardinality(CurrentEntries) IN
  IF n > LoginMaxTracked THEN n - LoginMaxTracked ELSE 0
NewestMutant == {E \in SUBSET CurrentEntries :
  /\ Cardinality(E) = TooMany
  /\ \A new \in E, v \in CurrentEntries \ E : attempts[new].at >= attempts[v].at}
Evictions == {E \in SUBSET CurrentEntries :
  /\ Cardinality(E) = TooMany
  /\ \A old \in E, v \in CurrentEntries \ E : attempts[old].at <= attempts[v].at}
PrunedEntries(E) == [v \in LoginNames |-> IF v \in CurrentEntries \ E THEN attempts[v] ELSE NoEntry]

(* check_and_record_login_attempt                                          *)
OneMoreMutant(entry) == entry.n <= LoginMaxAttempts
MayTry(entry) == entry.n < LoginMaxAttempts
RecordedTry(entry) == [n |-> entry.n + 1, at |-> IF entry.n = 0 THEN now ELSE entry.at]

(* A client's login up to the await of authenticate; the password is right *)
(* or not.                                                                 *)
LoginAttempt(u, right) ==
  /\ Len(tries[u]) < MaxTries /\ (right => verifying[u] < MaxRight)
  /\ \E E \in Evictions : LET entries == PrunedEntries(E) IN
       IF MayTry(entries[u])
       THEN /\ attempts' = [entries EXCEPT ![u] = RecordedTry(entries[u])]
            /\ tries' = [tries EXCEPT ![u] = Append(@, now)]
            /\ tried' = [tried EXCEPT ![u] = @ \cup {now}]
            /\ verifying' = IF right THEN [verifying EXCEPT ![u] = @ + 1] ELSE verifying
       ELSE attempts' = entries /\ UNCHANGED <<tries, tried, verifying>>
  /\ UNCHANGED now

(* A right password: the session is made and the name's attempts cleared.  *)
(* A wrong one, or a query that fails, leaves them.                        *)
ClearedEntries(u) == [attempts EXCEPT ![u] = NoEntry]
LoginVerified(u) ==
  /\ verifying[u] > 0
  /\ verifying' = [verifying EXCEPT ![u] = @ - 1]
  /\ \/ attempts' = ClearedEntries(u) /\ tries' = [tries EXCEPT ![u] = <<>>]
     \/ UNCHANGED <<attempts, tries>>
  /\ UNCHANGED <<tried, now>>

(* The map is in the memory of the process.                                *)
ThrottleRestart ==
  /\ attempts' = [v \in LoginNames |-> NoEntry] /\ tries' = [v \in LoginNames |-> <<>>]
  /\ verifying' = [v \in LoginNames |-> 0]
  /\ UNCHANGED <<tried, now>>

ASecond == now < MaxSeconds /\ now' = now + 1 /\ UNCHANGED <<attempts, verifying, tries, tried>>

ThrottleInit ==
  /\ attempts = [v \in LoginNames |-> NoEntry] /\ verifying = [v \in LoginNames |-> 0]
  /\ tries = [v \in LoginNames |-> <<>>] /\ tried = [v \in LoginNames |-> {}] /\ now = 0

ThrottleNext ==
  \/ \E u \in LoginNames : (\E right \in BOOLEAN : LoginAttempt(u, right)) \/ LoginVerified(u)
  \/ ThrottleRestart \/ ASecond

-----------------------------------------------------------------------------
(* Properties *)

ThrottleTypeOK ==
  /\ now \in 0..MaxSeconds /\ attempts \in [LoginNames -> [n : 0..LoginMaxAttempts, at : 0..now]]
  /\ verifying \in [LoginNames -> Nat] /\ tried \in [LoginNames -> SUBSET (0..now)]
  /\ \A u \in LoginNames : tries[u] \in Seq(tried[u])

(* The throttle counts in windows that start with a first attempt, so 60 s *)
(* may meet two of them, the first without its first attempt, and it       *)
(* forgets the oldest names when there are too many: between two successes *)
(* (or starts) fewer than twice LOGIN_MAX_ATTEMPTS passwords of a name are *)
(* verified in any 60 s, or LOGIN_MAX_TRACKED_USERS other names are tried  *)
(* in the same 60 s.                                                       *)
ThrottleHolds ==
  \A u \in LoginNames, t \in 0..MaxSeconds : LET span == t..(t + LoginWindow - 1) IN
    \/ Cardinality({i \in DOMAIN tries[u] : tries[u][i] \in span}) < 2 * LoginMaxAttempts
    \/ Cardinality({v \in LoginNames \ {u} : tried[v] \cap span # {}}) >= LoginMaxTracked
=============================================================================
