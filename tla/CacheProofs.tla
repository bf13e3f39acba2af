---------------------------- MODULE CacheProofs ----------------------------
(* Theorems about Cache, for any keys mounted and any bounds.              *)
EXTENDS Cache, TLAPS

(* What View needs of the requests: an answer that is back or kept is not  *)
(* older than the data of any key of its URL.                              *)
AnswersAreNew ==
  \A k \in Keys : LET g == get[Endpoint[k]] IN
    g.at \in {"back", "kept"} /\ g.status = "200" => shown[k] <= g.seen

CacheInv == CacheTypeOK /\ AnswersAreNew

Entry == [at : {"none", "out", "back", "kept"}, seen : 0..version, status : {"200", "401", "502"}]

LEMMA UrlOfKey == \A k \in Keys : Endpoint[k] \in Urls
BY DEF Urls

LEMMA InitInv == Init => CacheInv
<1> SUFFICES ASSUME Init PROVE CacheInv
  OBVIOUS
<1>1. MaxVersion \in Nat \ {0} /\ MaxAttempts \in Nat
  BY CacheAssumption
<1>2. get \in [Urls -> Entry]
  BY DEF Init, NoGet, Entry
<1>3. CacheTypeOK
  BY <1>1, <1>2, UrlOfKey DEF Init, CacheTypeOK, NoWrite, Entry, AtRest
<1>4. AnswersAreNew
  BY UrlOfKey DEF Init, AnswersAreNew, NoGet
<1> QED BY <1>3, <1>4 DEF CacheInv

LEMMA AfterType == ASSUME NEW g, NEW n \in 0..AtRest PROVE After(g, n) \in 0..AtRest
BY DEF After, AtRest

(* Asking takes no key back in time and leaves no answer older than what   *)
(* is shown: the answers kept are given to all keys of their URL alike.    *)
LEMMA AskStep ==
  ASSUME CacheInv, NEW ks \in SUBSET Keys, NEW past \in 0..AtRest, Ask(ks, past), version' = version
  PROVE  /\ failed' \in [Keys -> 0..AtRest]
         /\ get' \in [Urls -> Entry'] /\ waiting' \subseteq Keys /\ shown' \in [Keys -> 0..version']
         /\ \A k \in waiting' : get'[Endpoint[k]].at \in {"out", "back"}
         /\ AnswersAreNew' /\ \A k \in Keys : shown[k] <= shown'[k]
<1> USE UrlOfKey
<1> DEFINE kept == {k \in ks : get[Endpoint[k]].at = "kept"}
           started(u) == get[u].at = "none" /\ \E k \in ks : Endpoint[k] = u
<1>1. version \in Nat /\ get \in [Urls -> Entry] /\ shown \in [Keys -> 0..version] /\ Entry' = Entry
  BY CacheAssumption DEF CacheInv, CacheTypeOK, Entry
<1>2. /\ get' = [u \in Urls |-> IF started(u) THEN Started ELSE get[u]]
      /\ waiting' = waiting \cup (ks \ kept)
      /\ shown' = [k \in Keys |-> IF k \in kept THEN Result(get[Endpoint[k]], k) ELSE shown[k]]
  BY DEF Ask
<1>9. failed' \in [Keys -> 0..AtRest]
  <2>1. \A k \in Keys : After(get[Endpoint[k]], past) \in 0..AtRest /\ failed[k] \in 0..AtRest
    BY AfterType DEF CacheInv, CacheTypeOK
  <2> QED BY <2>1 DEF Ask
<1>3. Started \in Entry /\ Started.at = "out"
  BY <1>1 DEF Started, Entry
<1>4. get' \in [Urls -> Entry']
  <2>1. \A u \in Urls : (IF started(u) THEN Started ELSE get[u]) \in Entry
    BY <1>1, <1>3
  <2> HIDE DEF started
  <2> QED BY <2>1, <1>2, <1>1
<1>5. \A k \in Keys : shown'[k] \in 0..version /\ shown[k] <= shown'[k]
  <2> SUFFICES ASSUME NEW k \in Keys PROVE shown'[k] \in 0..version /\ shown[k] <= shown'[k]
    OBVIOUS
  <2>1. get[Endpoint[k]] \in Entry
    BY <1>1
  <2>2. CASE k \in kept /\ get[Endpoint[k]].status = "200"
    <3>1. shown[k] <= get[Endpoint[k]].seen
      BY <2>2 DEF CacheInv, AnswersAreNew
    <3> QED BY <3>1, <2>1, <2>2, <1>2, <1>1 DEF Result, Entry
  <2>3. CASE ~(k \in kept /\ get[Endpoint[k]].status = "200")
    BY <2>3, <1>1, <1>2 DEF Result
  <2> QED BY <2>2, <2>3
<1>6. waiting' \subseteq Keys
  BY <1>2 DEF CacheInv, CacheTypeOK
<1>7. \A k \in waiting' : get'[Endpoint[k]].at \in {"out", "back"}
  <2> SUFFICES ASSUME NEW k \in waiting' PROVE get'[Endpoint[k]].at \in {"out", "back"}
    OBVIOUS
  <2>1. k \in Keys /\ get[Endpoint[k]] \in Entry
    BY <1>6, <1>1
  <2>2. CASE k \in waiting
    <3>1. get[Endpoint[k]].at \in {"out", "back"}
      BY <2>2 DEF CacheInv, CacheTypeOK
    <3> QED BY <3>1, <2>1, <1>2
  <2>3. CASE k \in ks \ kept
    <3>1. CASE get[Endpoint[k]].at = "none"
      <4>1. started(Endpoint[k])
        BY <2>3, <3>1
      <4> QED BY <4>1, <2>1, <1>2, <1>3
    <3>2. CASE get[Endpoint[k]].at # "none"
      <4>1. get[Endpoint[k]].at \in {"out", "back"}
        BY <2>1, <2>3, <3>2 DEF Entry
      <4> QED BY <4>1, <3>2, <2>1, <1>2
    <3> QED BY <3>1, <3>2
  <2> QED BY <2>2, <2>3, <1>2
<1>8. AnswersAreNew'
  <2> SUFFICES ASSUME NEW k \in Keys, get'[Endpoint[k]].at \in {"back", "kept"}, get'[Endpoint[k]].status = "200"
               PROVE shown'[k] <= get'[Endpoint[k]].seen
    BY DEF AnswersAreNew
  <2>1. get'[Endpoint[k]] = get[Endpoint[k]] /\ get[Endpoint[k]] \in Entry
    BY <1>1, <1>2, <1>3
  <2>2. shown[k] <= get[Endpoint[k]].seen
    BY <2>1 DEF CacheInv, AnswersAreNew
  <2> QED BY <2>1, <2>2, <1>1, <1>2 DEF Result, Entry
<1> QED BY <1>1, <1>2, <1>4, <1>5, <1>6, <1>7, <1>8, <1>9

(* The leaves of the step: a GET is served, settles, or is dropped.        *)
LEMMA ServeStep ==
  ASSUME CacheInv, NEW u \in Urls, Serve(u) \/ Fail(u)
  PROVE  CacheInv' /\ version' = version /\ shown' = shown
<1> USE UrlOfKey
<1>0. UNCHANGED <<version, waiting, shown, failed, write, sock, told>>
  BY DEF Serve, Fail
<1>1. /\ version \in Nat /\ get \in [Urls -> Entry] /\ shown \in [Keys -> 0..version] /\ Entry' = Entry
      /\ version' = version /\ shown' = shown /\ waiting' = waiting
  BY <1>0, CacheAssumption DEF CacheInv, CacheTypeOK, Entry
<1>2. PICK g \in Entry : get' = [get EXCEPT ![u] = g] /\ (g.status = "200" => g.seen = version) /\ g.at = "back"
  <2>1. CASE Serve(u)
    <3> DEFINE good == [at |-> "back", seen |-> version, status |-> "200"]
    <3>1. good \in Entry /\ good.at = "back" /\ good.seen = version
      BY <1>1 DEF Entry
    <3>2. get' = [get EXCEPT ![u] = good]
      BY <2>1 DEF Serve
    <3> HIDE DEF good
    <3> QED BY <3>1, <3>2
  <2>2. CASE Fail(u)
    <3>1. PICK status \in {"401", "502"} : get' = [get EXCEPT ![u] = [at |-> "back", seen |-> 0, status |-> status]]
      BY <2>2 DEF Fail
    <3> DEFINE bad == [at |-> "back", seen |-> 0, status |-> status]
    <3>2. bad \in Entry /\ bad.at = "back" /\ bad.status # "200"
      BY <1>1 DEF Entry
    <3>3. get' = [get EXCEPT ![u] = bad]
      BY <3>1
    <3> HIDE DEF bad
    <3> QED BY <3>2, <3>3
  <2> QED BY <2>1, <2>2
<1>3. get' \in [Urls -> Entry']
  BY <1>1, <1>2
<1>5. \A k \in waiting' : get'[Endpoint[k]].at \in {"out", "back"}
  BY <1>1, <1>2 DEF CacheInv, CacheTypeOK
<1>6. CacheTypeOK'
  BY <1>0, <1>1, <1>3, <1>5 DEF CacheInv, CacheTypeOK, Entry
<1>7. ASSUME NEW k \in Keys, get'[Endpoint[k]].at \in {"back", "kept"}, get'[Endpoint[k]].status = "200"
      PROVE  shown[k] <= get'[Endpoint[k]].seen
  <2>1. CASE Endpoint[k] = u
    BY <2>1, <1>1, <1>2, <1>7
  <2>2. CASE Endpoint[k] # u
    BY <2>2, <1>1, <1>2, <1>7 DEF CacheInv, AnswersAreNew
  <2> QED BY <2>1, <2>2
<1> QED BY <1>1, <1>6, <1>7 DEF CacheInv, AnswersAreNew

LEMMA SettleStep ==
  ASSUME CacheInv, NEW u \in Urls, Settle(u)
  PROVE  CacheInv' /\ version' = version /\ \A k \in Keys : shown[k] <= shown'[k]
<1> USE UrlOfKey
<1>1. /\ version \in Nat /\ get \in [Urls -> Entry] /\ shown \in [Keys -> 0..version] /\ Entry' = Entry
      /\ version' = version /\ get[u].at = "back" /\ waiting \subseteq Keys
  BY CacheAssumption DEF CacheInv, CacheTypeOK, Entry, Settle
<1>2. /\ get' = [get EXCEPT ![u].at = "kept"]
      /\ shown' = [k \in Keys |-> IF k \in waiting /\ Endpoint[k] = u THEN Result(get[u], k) ELSE shown[k]]
      /\ waiting' = {k \in waiting : Endpoint[k] # u}
  BY DEF Settle
<1>3. get' \in [Urls -> Entry']
  BY <1>1, <1>2 DEF Entry
<1>4. \A k \in Keys : shown'[k] \in 0..version /\ shown[k] <= shown'[k]
  <2> SUFFICES ASSUME NEW k \in Keys PROVE shown'[k] \in 0..version /\ shown[k] <= shown'[k]
    OBVIOUS
  <2>1. CASE Endpoint[k] = u /\ get[u].status = "200"
    <3>1. shown[k] <= get[u].seen /\ get[u].seen \in 0..version
      BY <2>1, <1>1 DEF CacheInv, AnswersAreNew, Entry
    <3> QED BY <3>1, <2>1, <1>1, <1>2 DEF Result
  <2>2. CASE ~(Endpoint[k] = u /\ get[u].status = "200")
    BY <2>2, <1>1, <1>2 DEF Result
  <2> QED BY <2>1, <2>2
<1>8. failed' \in [Keys -> 0..AtRest]
  <2>1. \A k \in Keys : After(get[u], failed[k]) \in 0..AtRest /\ failed[k] \in 0..AtRest
    BY AfterType DEF CacheInv, CacheTypeOK
  <2> QED BY <2>1 DEF Settle
<1>5. \A k \in waiting' : get'[Endpoint[k]].at \in {"out", "back"}
  BY <1>1, <1>2 DEF CacheInv, CacheTypeOK
<1>6. CacheTypeOK'
  BY <1>1, <1>2, <1>3, <1>4, <1>5, <1>8 DEF CacheInv, CacheTypeOK, Entry, Settle
<1>7. ASSUME NEW k \in Keys, get'[Endpoint[k]].at \in {"back", "kept"}, get'[Endpoint[k]].status = "200"
      PROVE  shown'[k] <= get'[Endpoint[k]].seen
  <2>1. get[Endpoint[k]] \in Entry /\ get[Endpoint[k]].at \in {"back", "kept"} /\ get[Endpoint[k]].status = "200"
        /\ get'[Endpoint[k]].seen = get[Endpoint[k]].seen
    BY <1>1, <1>2, <1>7
  <2>2. shown[k] <= get[Endpoint[k]].seen
    BY <2>1 DEF CacheInv, AnswersAreNew
  <2> QED BY <2>1, <2>2, <1>1, <1>2 DEF Result, Entry
<1> QED BY <1>1, <1>4, <1>6, <1>7 DEF CacheInv, AnswersAreNew

LEMMA DropStep ==
  ASSUME CacheInv, NEW u \in Urls, Drop(u)
  PROVE  CacheInv' /\ version' = version /\ shown' = shown
<1> USE UrlOfKey
<1>1. /\ version \in Nat /\ get \in [Urls -> Entry] /\ Entry' = Entry
      /\ version' = version /\ shown' = shown /\ waiting' = waiting /\ get[u].at = "kept"
      /\ get' = [get EXCEPT ![u] = NoGet]
  BY CacheAssumption DEF CacheInv, CacheTypeOK, Entry, Drop, Dropped
<1>2. get' \in [Urls -> Entry'] /\ NoGet.at = "none"
  BY <1>1 DEF Entry, NoGet
<1>3. CacheTypeOK'
  BY <1>1, <1>2 DEF CacheInv, CacheTypeOK, Entry, Drop
<1>4. AnswersAreNew'
  BY <1>1, <1>2 DEF CacheInv, AnswersAreNew
<1> QED BY <1>1, <1>3, <1>4 DEF CacheInv

LEMMA RefetchedKeys == ASSUME NEW type \in MessageTypes PROVE Refetched(type) \in SUBSET Keys
BY DEF Refetched

(* Every way to ask comes down to AskStep.                                 *)
LEMMA AskKeepsInv ==
  ASSUME CacheInv, NEW ks \in SUBSET Keys, NEW past \in 0..AtRest, Ask(ks, past), version' = version,
         told' \in 1..version, sock' = sock,
         write' \in {write, NoWrite}
  PROVE  CacheInv' /\ version' = version /\ \A k \in Keys : shown[k] <= shown'[k]
BY AskStep DEF CacheInv, CacheTypeOK, Entry

Refreshes == version' = version /\ \A k \in Keys : shown[k] <= shown'[k]
Same == UNCHANGED <<get, waiting, shown, failed>>

LEMMA SameData ==
  ASSUME CacheInv, Same, version' \in 1..MaxVersion, version <= version', CacheTypeOK'
  PROVE  CacheInv'
<1>1. get \in [Urls -> Entry] /\ shown \in [Keys -> 0..version]
  BY DEF CacheInv, CacheTypeOK, Entry
<1> QED BY <1>1 DEF CacheInv, AnswersAreNew, Same

(* The other actions leave the requests and the data shown alone.          *)
LEMMA OtherSteps ==
  ASSUME CacheInv,
         \/ Change \/ (\E k \in Keys, a \in {"json", "empty"} : WriteAsked(k, a))
         \/ WriteServed \/ Connected \/ Closed \/ Reconnect
  PROVE  CacheInv' /\ shown' = shown /\ version' \in {version, version + 1}
<1>1. /\ version \in Nat /\ get \in [Urls -> Entry] /\ shown \in [Keys -> 0..version]
      /\ MaxVersion \in Nat /\ MaxAttempts \in Nat
  BY CacheAssumption DEF CacheInv, CacheTypeOK, Entry
<1>2. Same /\ version' \in {version, version + 1} /\ version' \in 1..MaxVersion
  BY <1>1 DEF Same, CacheInv, CacheTypeOK, Change, WriteAsked, WriteServed, Connected, Closed, Reconnect
<1>3. told' \in 1..version'
  BY <1>1, <1>2 DEF CacheInv, CacheTypeOK, Change, WriteAsked, WriteServed, Connected, Closed, Reconnect
<1>4. sock' \in [state : {"connecting", "connected", "disconnected"}, attempts : 0..MaxAttempts]
  BY <1>1 DEF CacheInv, CacheTypeOK, Change, WriteAsked, WriteServed, Connected, Closed, Reconnect
<1>5. write' \in {NoWrite} \cup [at : {"out", "done", "failed"}, key : Keys, answer : {"json", "empty"}]
  BY DEF CacheInv, CacheTypeOK, Change, WriteAsked, WriteServed, Connected, Closed, Reconnect, NoWrite
<1>6. get' \in [Urls -> [at : {"none", "out", "back", "kept"}, seen : 0..version', status : {"200", "401", "502"}]]
      /\ shown' \in [Keys -> 0..version']
  BY <1>1, <1>2 DEF Same, Entry
<1>7. CacheTypeOK'
  BY <1>2, <1>3, <1>4, <1>5, <1>6 DEF CacheInv, CacheTypeOK, Same
<1> QED BY <1>1, <1>2, <1>7, SameData DEF Same

(* The simulation: a step keeps the invariant and refreshes what is shown, *)
(* changes the daemon's data, or does neither.                             *)
LEMMA NextStep ==
  ASSUME CacheInv, [Next]_vars
  PROVE  CacheInv' /\ (Refreshes \/ (version' = version + 1 /\ shown' = shown))
<1> USE DEF Refreshes
<1>0. version \in Nat /\ shown \in [Keys -> 0..version]
      /\ told \in 1..version /\ version \in 1..version /\ 0 \in 0..AtRest
  BY CacheAssumption DEF CacheInv, CacheTypeOK, AtRest
<1>1. ASSUME NEW u \in Urls, Serve(u) \/ Fail(u) \/ Drop(u) PROVE CacheInv' /\ Refreshes
  BY <1>0, <1>1, ServeStep, DropStep
<1>2. ASSUME NEW u \in Urls, Settle(u) PROVE CacheInv' /\ Refreshes
  BY <1>2, SettleStep
<1>3. ASSUME NEW k \in Keys, Poll(k) PROVE CacheInv' /\ Refreshes
  BY <1>0, <1>3, AskKeepsInv DEF Poll
<1>9. ASSUME NEW k \in Keys, Retry(k) PROVE CacheInv' /\ Refreshes
  <2>1. failed[k] \in 0..AtRest /\ {k} \in SUBSET Keys
    BY DEF CacheInv, CacheTypeOK
  <2> QED BY <2>1, <1>0, <1>9, AskKeepsInv DEF Retry
<1>4. ASSUME NEW k \in Keys, Focus(k) PROVE CacheInv' /\ Refreshes
  BY <1>0, <1>4, AskKeepsInv DEF Focus
<1>5. ASSUME NEW type \in MessageTypes, Message(type) PROVE CacheInv' /\ Refreshes
  <2>1. told' \in 1..version
    BY <1>0, <1>5 DEF Message
  <2> QED BY <2>1, <1>0, <1>5, RefetchedKeys, AskKeepsInv DEF Message
<1>6. ASSUME WriteAnswered PROVE CacheInv' /\ Refreshes
  <2>1. write.key \in Keys /\ write' = NoWrite /\ version' = version /\ told' = told /\ sock' = sock
    BY <1>6 DEF WriteAnswered, CacheInv, CacheTypeOK, NoWrite
  <2>2. CASE Ask({write.key}, 0)
    <3>1. {write.key} \in SUBSET Keys
      BY <2>1
    <3> QED BY <3>1, <2>1, <2>2, <1>0, AskKeepsInv
  <2>3. CASE UNCHANGED <<get, waiting, shown, failed>>
    BY <2>1, <2>3, <1>0 DEF CacheInv, CacheTypeOK, AnswersAreNew
  <2> QED BY <2>2, <2>3, <1>6 DEF WriteAnswered
<1>7. ASSUME Change \/ (\E k \in Keys, a \in {"json", "empty"} : WriteAsked(k, a))
             \/ WriteServed \/ Connected \/ Closed \/ Reconnect
      PROVE  CacheInv' /\ (Refreshes \/ (version' = version + 1 /\ shown' = shown))
  BY <1>0, <1>7, OtherSteps
<1>8. CASE UNCHANGED vars
  <2>1. UNCHANGED <<version, get, waiting, shown, failed, write, sock, told>>
    BY <1>8 DEF vars
  <2> QED BY <2>1, <1>0 DEF CacheInv, CacheTypeOK, AnswersAreNew
<1> QED BY <1>1, <1>2, <1>3, <1>4, <1>5, <1>6, <1>7, <1>8, <1>9 DEF Next

THEOREM StepInv == CacheInv /\ [Next]_vars => CacheInv'
BY NextStep

(* Type correctness of the fetchers, SWR's keys and the feed's connection: *)
(* a key only waits for a GET that is still to be answered.                *)
THEOREM CacheTypeCorrect == Spec => []CacheTypeOK
<1>1. CacheInv => CacheTypeOK
  BY DEF CacheInv
<1> QED BY <1>1, InitInv, StepInv, PTL DEF Spec

THEOREM AlwaysInv == Spec => []CacheInv
BY InitInv, StepInv, PTL DEF Spec

LEMMA InitRefines == Init => Pages!Init
BY DEF Init, Pages!Init

LEMMA StepRefines == CacheInv /\ [Next]_vars => [Pages!Change \/ Pages!Refresh]_(Pages!vars)
<1> SUFFICES ASSUME CacheInv, [Next]_vars PROVE [Pages!Change \/ Pages!Refresh]_(Pages!vars)
  OBVIOUS
<1>1. CASE Refreshes
  <2>1. shown' \in [Keys -> 0..version]
    BY <1>1, NextStep DEF CacheInv, CacheTypeOK, Refreshes
  <2> QED BY <2>1, <1>1 DEF Pages!Refresh, Refreshes
<1>2. CASE version' = version + 1 /\ shown' = shown
  BY <1>2 DEF Pages!Change
<1> QED BY <1>1, <1>2, NextStep

(* The fetchers, SWR and the feed implement View: each page shows the      *)
(* daemon's data of some moment and never goes back.                       *)
THEOREM CacheImplementsView == Spec => PagesAreViews
BY InitRefines, StepRefines, AlwaysInv, PTL DEF Spec, PagesAreViews, Pages!Spec
=============================================================================
