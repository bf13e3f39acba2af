---------------------------- MODULE ConsoleProofs ----------------------------
(***************************************************************************)
(* Theorems about the dashboard's pages, for any files, names, rows,       *)
(* mitigations and bounds: Console runs one page at a time, so a page's    *)
(* own steps are all that can disturb what is said of it.                  *)
(***************************************************************************)
EXTENDS Console, RecursionLemmas, SequenceTheorems, FiniteSetTheorems, TLAPS

(* Each step of the dashboard is one of the page in question, or leaves    *)
(* that page alone.                                                        *)
LEMMA PageSteps ==
  ASSUME [ConsoleNext]_consoleVars
  PROVE  /\ [AlertingPanelNext]_alertingVars /\ [PlaybookNext]_playbookVars
         /\ [ListsNext]_listVars /\ [WithdrawalsNext]_withdrawalVars
         /\ [AdminNext]_adminVars /\ [ShellNext]_shellVars /\ [ThrottleNext]_throttleVars
  BY DEF ConsoleNext, consoleVars

-----------------------------------------------------------------------------
(* The playbooks in force are those of the file outside the handler that   *)
(* holds the lock.                                                         *)
THEOREM RulesFollowTheFile == ConsoleSpec => []RulesAreTheFile
<1>1. ConsoleInit => RulesAreTheFile
  BY DEF ConsoleInit, PlaybookInit, RulesAreTheFile
<1>2. RulesAreTheFile /\ [ConsoleNext]_consoleVars => RulesAreTheFile'
  <2> SUFFICES ASSUME RulesAreTheFile, [PlaybookNext]_playbookVars
               PROVE  RulesAreTheFile'
    BY PageSteps
  <2> USE DEF RulesAreTheFile, rulesDaemon, Editors
  <2>1. ASSUME NEW w \in Editors, NEW pbs, FileSaved(w, pbs)
        PROVE  RulesAreTheFile'
    BY <2>1 DEF FileSaved
  <2>2. CASE PageSaved \/ RivalSaved
    BY <2>1, <2>2 DEF PageSaved, RivalSaved
  <2>3. ASSUME NEW w \in Editors, Swapped(w) \/ Stamped(w)
        PROVE  RulesAreTheFile'
    BY <2>3 DEF Swapped, Stamped
  <2>4. CASE RulesReloaded \/ RulesCrashed
    BY <2>4 DEF RulesReloaded, RulesCrashed
  <2>5. CASE SaveRefused \/ PlaybooksRead \/ PlaybooksFetched \/ SavePlaybooks \/ PlaybooksSaved
             \/ DiscardRules \/ \E v \in {"form", "yaml"} : SetPlaybookView(v)
    BY <2>5 DEF SaveRefused, PlaybooksRead, PlaybooksFetched, SavePlaybooks, PlaybooksSaved,
       DiscardRules, SetPlaybookView
  <2>6. CASE AddPlaybook \/ UpdatePlaybook \/ SetText
             \/ \E i \in DOMAIN rulesDraft : RemovePlaybook(i) \/ SetEditingIndex(i)
    BY <2>6 DEF AddPlaybook, UpdatePlaybook, SetText, RemovePlaybook, SetEditingIndex, EditsRules
  <2>7. CASE UNCHANGED playbookVars
    BY <2>7 DEF playbookVars
  <2> QED
    BY <2>2, <2>3, <2>4, <2>5, <2>6, <2>7 DEF PlaybookNext
<1> QED
  BY <1>1, <1>2, PTL DEF ConsoleSpec

-----------------------------------------------------------------------------
(* What is withdrawn was confirmed, with a reason typed for it. A request  *)
(* carries its pledge from its confirmation to the table, also when its    *)
(* page is gone; the reason in a dialog belongs to its target, and one     *)
(* that outlives the dialog to the mitigation whose page it is.            *)
Pledged(w) ==
  /\ w.of \in confirmed
  /\ w.reason \in Reasons => <<w.of, w.reason>> \in written
Requests == [at : {"idle", "out", "done", "failed"}, of : Mitigations \cup {Nobody},
             reason : Reasons \cup {NoReason, Manual}]
DialogInv ==
  /\ withdrawTarget \in Mitigations \cup {Nobody} /\ withdrawReason \in Reasons \cup {NoReason}
  /\ withdrawTarget # Nobody /\ withdrawReason \in Reasons => <<withdrawTarget, withdrawReason>> \in written
  /\ page = "list" /\ withdrawTarget = Nobody => withdrawReason \notin Reasons
  /\ page # "list" =>
       /\ withdrawTarget \in {Nobody, page}
       /\ withdrawReason \in Reasons => <<page, withdrawReason>> \in written
RequestInv ==
  /\ withdrawal \in Requests /\ stray \subseteq Requests
  /\ withdrawal.at # "idle" => Pledged(withdrawal)
  /\ \A w \in stray : Pledged(w)
WithdrawalsInv ==
  /\ recorded \in [Mitigations -> Reasons \cup {NoReason, Manual}]
  /\ DialogInv /\ RequestInv /\ WithdrawnWasConfirmed

(* A pledge is kept by any step that only adds to what was written and     *)
(* confirmed; marking where a request is does not change it.               *)
LEMMA PledgesLast ==
  ASSUME NEW w, Pledged(w), written \subseteq written', confirmed \subseteq confirmed'
  PROVE  Pledged(w)'
  BY DEF Pledged
LEMMA MarkedRequest ==
  ASSUME NEW w \in Requests, NEW at \in {"idle", "out", "done", "failed"}
  PROVE  /\ [w EXCEPT !.at = at] \in Requests
         /\ [w EXCEPT !.at = at].of = w.of /\ [w EXCEPT !.at = at].reason = w.reason
  BY DEF Requests
LEMMA RecordsPledge ==
  ASSUME recorded \in [Mitigations -> Reasons \cup {NoReason, Manual}], WithdrawnWasConfirmed,
         NEW w \in Requests, Pledged(w), Withdraws(w.of, w.reason), UNCHANGED <<written, confirmed>>
  PROVE  recorded' \in [Mitigations -> Reasons \cup {NoReason, Manual}] /\ WithdrawnWasConfirmed'
<1>1. recorded' \in [Mitigations -> Reasons \cup {NoReason, Manual}]
  BY DEF Withdraws, Requests
<1>2. ASSUME NEW m \in Mitigations
      PROVE  recorded'[m] = recorded[m] \/ (m = w.of /\ recorded'[m] = w.reason)
  BY DEF Withdraws
<1> QED
  BY <1>1, <1>2 DEF WithdrawnWasConfirmed, Pledged

LEMMA VisitKeeps ==
  ASSUME WithdrawalsInv, NEW p, Visit(p), UNCHANGED <<recorded, written, confirmed>>
  PROVE  WithdrawalsInv'
<1> USE WithdrawalsAssumption
<1>1. DialogInv'
  BY DEF WithdrawalsInv, DialogInv, Visit
<1>2. RequestInv'
  <2>1. withdrawal' \in Requests /\ withdrawal'.at = "idle"
    BY DEF Visit, Idle, Requests
  <2>2. stray' \subseteq stray \cup {withdrawal} /\ (withdrawal \in stray' \ stray => withdrawal.at # "idle")
    BY DEF Visit
  <2> QED
    BY <2>1, <2>2, PledgesLast DEF WithdrawalsInv, RequestInv
<1> QED
  BY <1>1, <1>2 DEF WithdrawalsInv, WithdrawnWasConfirmed

LEMMA WithdrawalsAreSound == ConsoleSpec => []WithdrawalsInv
<1> USE WithdrawalsAssumption
<1>1. ConsoleInit => WithdrawalsInv
  <2> SUFFICES ASSUME WithdrawalsInit PROVE WithdrawalsInv
    BY DEF ConsoleInit
  <2>1. withdrawal \in Requests /\ withdrawal.at = "idle"
    BY DEF WithdrawalsInit, Idle, Requests
  <2> QED
    BY <2>1 DEF WithdrawalsInit, WithdrawalsInv, DialogInv, RequestInv, WithdrawnWasConfirmed
<1>2. WithdrawalsInv /\ [ConsoleNext]_consoleVars => WithdrawalsInv'
  <2> SUFFICES ASSUME WithdrawalsInv, [WithdrawalsNext]_withdrawalVars
               PROVE  WithdrawalsInv'
    BY PageSteps
  <2>1. ASSUME UNCHANGED <<recorded, page, withdrawTarget, withdrawReason, withdrawal, stray, written, confirmed>>
        PROVE  WithdrawalsInv'
    BY <2>1 DEF WithdrawalsInv, DialogInv, RequestInv, WithdrawnWasConfirmed, Pledged
  <2>2. CASE WithdrawServed
    <3>1. withdrawal.at = "out" /\ UNCHANGED <<page, withdrawTarget, withdrawReason, stray, written, confirmed>>
      BY <2>2 DEF WithdrawServed
    <3>2. Pledged(withdrawal) /\ withdrawal \in Requests
      BY <3>1 DEF WithdrawalsInv, RequestInv
    <3>3. /\ recorded' \in [Mitigations -> Reasons \cup {NoReason, Manual}]
          /\ WithdrawnWasConfirmed'
      <4>1. Withdraws(withdrawal.of, withdrawal.reason) \/ UNCHANGED recorded
        BY <2>2 DEF WithdrawServed
      <4>2. CASE UNCHANGED recorded
        BY <4>2, <3>1 DEF WithdrawalsInv, WithdrawnWasConfirmed
      <4> QED
        BY <4>1, <4>2, <3>1, <3>2, RecordsPledge DEF WithdrawalsInv
    <3>4. DialogInv'
      BY <3>1 DEF WithdrawalsInv, DialogInv
    <3>5. PICK at \in {"idle", "out", "done", "failed"} : withdrawal' = [withdrawal EXCEPT !.at = at]
      BY <2>2 DEF WithdrawServed, Answered, Failed
    <3>6. withdrawal' \in Requests /\ Pledged(withdrawal)'
      <4>1. withdrawal' \in Requests /\ withdrawal'.of = withdrawal.of /\ withdrawal'.reason = withdrawal.reason
        <5> HIDE DEF Requests
        <5>1. withdrawal \in Requests
          BY <3>2
        <5> QED
          BY <5>1, <3>5, MarkedRequest
      <4> QED
        BY <3>1, <3>2, <4>1 DEF Pledged
    <3> QED
      BY <3>1, <3>3, <3>4, <3>6, PledgesLast DEF WithdrawalsInv, RequestInv
  <2>3. CASE StrayServed
    <3>1. PICK w \in stray : /\ stray' = stray \ {w}
                             /\ Withdraws(w.of, w.reason) \/ UNCHANGED <<status, recorded>>
                             /\ UNCHANGED <<page, withdrawTarget, withdrawReason, withdrawal, written, confirmed>>
      BY <2>3 DEF StrayServed
    <3>2. /\ recorded' \in [Mitigations -> Reasons \cup {NoReason, Manual}]
          /\ WithdrawnWasConfirmed'
      <4>1. CASE UNCHANGED recorded
        BY <4>1, <3>1 DEF WithdrawalsInv, WithdrawnWasConfirmed
      <4>2. w \in Requests /\ Pledged(w)
        BY DEF WithdrawalsInv, RequestInv
      <4> QED
        BY <4>1, <4>2, <3>1, RecordsPledge DEF WithdrawalsInv
    <3> QED
      BY <3>1, <3>2 DEF WithdrawalsInv, RequestInv, DialogInv, Pledged
  <2>4. CASE SubmissionServed \/ MitigationsFetched \/ OpenMitigateNow \/ FillForm \/ CloseMitigateNow
             \/ HandleSubmit \/ \E m \in Mitigations : GoesAway(m)
    BY <2>4, <2>1 DEF SubmissionServed, MitigationsFetched, OpenMitigateNow, FillForm, CloseMitigateNow,
       HandleSubmit, GoesAway, withdrawDialog
  <2>5. ASSUME NEW p, Navigate(p) PROVE WithdrawalsInv'
    BY <2>5, VisitKeeps DEF Navigate
  <2>6. CASE SubmitEnds
    BY <2>6, <2>1, VisitKeeps DEF SubmitEnds, withdrawDialog
  <2>7. ASSUME NEW m \in Mitigations, OpenWithdraw(m) \/ ShowWithdrawDialog(m) PROVE WithdrawalsInv'
    <3>1. withdrawTarget = Nobody /\ withdrawTarget' = m /\ (page = "list" \/ page = m)
          /\ UNCHANGED <<recorded, page, withdrawReason, withdrawal, stray, written, confirmed>>
      BY <2>7 DEF OpenWithdraw, ShowWithdrawDialog, OpensAbout
    <3> QED
      BY <3>1 DEF WithdrawalsInv, DialogInv, RequestInv, WithdrawnWasConfirmed, Pledged
  <2>8. ASSUME NEW r \in Reasons, TypeReason(r) PROVE WithdrawalsInv'
    <3>1. /\ withdrawTarget # Nobody /\ withdrawReason' = r /\ written' = written \cup {<<withdrawTarget, r>>}
          /\ UNCHANGED <<recorded, page, withdrawTarget, withdrawal, stray, confirmed>>
      BY <2>8 DEF TypeReason
    <3>2. DialogInv'
      BY <3>1 DEF WithdrawalsInv, DialogInv
    <3>3. RequestInv'
      BY <3>1, PledgesLast DEF WithdrawalsInv, RequestInv
    <3> QED
      BY <3>1, <3>2, <3>3 DEF WithdrawalsInv, WithdrawnWasConfirmed
  <2>9. CASE CancelWithdraw
    BY <2>9 DEF CancelWithdraw, DialogCloses, WithdrawalsInv, DialogInv, RequestInv, WithdrawnWasConfirmed, Pledged
  <2>10. CASE HandleWithdraw
    <3>1. /\ withdrawTarget # Nobody /\ confirmed' = confirmed \cup {withdrawTarget} /\ withdrawTarget' = Nobody
          /\ withdrawReason' = (IF page = "list" THEN NoReason ELSE withdrawReason)
          /\ UNCHANGED <<recorded, page, stray, written>>
      BY <2>10 DEF HandleWithdraw
    <3>2. withdrawal' = [at |-> "out", of |-> withdrawTarget,
                        reason |-> IF withdrawReason = NoReason THEN Manual ELSE withdrawReason]
      BY <2>10 DEF HandleWithdraw
    <3>3. withdrawal' \in Requests /\ Pledged(withdrawal)'
      BY <3>1, <3>2 DEF WithdrawalsInv, DialogInv, Requests, Pledged
    <3>4. DialogInv'
      BY <3>1 DEF WithdrawalsInv, DialogInv
    <3>5. RequestInv'
      BY <3>1, <3>3, PledgesLast DEF WithdrawalsInv, RequestInv
    <3> QED
      BY <3>1, <3>4, <3>5 DEF WithdrawalsInv, WithdrawnWasConfirmed
  <2>11. CASE WithdrawEnds
    <3>1. /\ withdrawal' = Idle /\ UNCHANGED <<recorded, page, stray, written, confirmed>>
          /\ \/ UNCHANGED <<withdrawTarget, withdrawReason>>
             \/ /\ withdrawTarget' = Nobody
                /\ withdrawReason' = (IF page = "list" THEN NoReason ELSE withdrawReason)
      BY <2>11 DEF WithdrawEnds
    <3>2. withdrawal' \in Requests /\ withdrawal'.at = "idle"
      BY <3>1 DEF Idle, Requests
    <3>3. DialogInv'
      BY <3>1 DEF WithdrawalsInv, DialogInv
    <3>4. RequestInv'
      BY <3>1, <3>2, PledgesLast DEF WithdrawalsInv, RequestInv
    <3> QED
      BY <3>1, <3>3, <3>4 DEF WithdrawalsInv, WithdrawnWasConfirmed
  <2>12. CASE UNCHANGED withdrawalVars
    BY <2>12, <2>1 DEF withdrawalVars, withdrawDialog
  <2> QED
    BY <2>2, <2>3, <2>4, <2>5, <2>6, <2>7, <2>8, <2>9, <2>10, <2>11, <2>12 DEF WithdrawalsNext
<1> QED
  BY <1>1, <1>2, PTL DEF ConsoleSpec

THEOREM WithdrawalsAreConfirmed == ConsoleSpec => []WithdrawnWasConfirmed
<1>1. WithdrawalsInv => WithdrawnWasConfirmed
  BY DEF WithdrawalsInv
<1> QED
  BY <1>1, WithdrawalsAreSound, PTL

-----------------------------------------------------------------------------
(* Ids are never given twice, so whatever account a list, a dialog or a    *)
(* call names, however old, is the one that has its id, if any has.        *)
Ops == {"create", "delete", "password", "add", "remove", "reload"}
ById == {"delete", "password"}
Known(x) ==
  x \in Called /\ x.id \in 1..lastId /\ \A a \in accounts : a.id = x.id => a = x
AdminInv ==
  /\ lastId \in Nat
  /\ \A x \in accounts \cup operators : Known(x)
  /\ adminDialog.kind \in ById => Known(adminDialog.of)
  /\ newUsername \in Usernames \cup {""}
  /\ calls \subseteq Call /\ \A c \in calls : c.op \in ById => Known(c.of)

LEMMA KnownLasts ==
  ASSUME lastId \in Nat, NEW x, Known(x),
         \/ accounts' \subseteq accounts /\ lastId' = lastId
         \/ lastId' = lastId + 1 /\ \A a \in accounts' : a \in accounts \/ a.id = lastId'
  PROVE  Known(x)'
  BY DEF Known

(* A step that creates no account keeps the invariant if what it names was *)
(* named before.                                                           *)
LEMMA NothingNewNamed ==
  ASSUME AdminInv, accounts' \subseteq accounts, lastId' = lastId,
         operators' \subseteq operators \cup accounts, newUsername' \in Usernames \cup {""},
         adminDialog'.kind \in ById => adminDialog' = adminDialog \/ adminDialog'.of \in operators,
         \A c \in calls' : c \in Call
         /\ (c.op \in ById => \/ c.of \in accounts
                              \/ \E d \in calls : d.op \in ById /\ c.of = d.of
                              \/ adminDialog.kind \in ById /\ c.of = adminDialog.of)
  PROVE  AdminInv'
<1>1. \A x : Known(x) => Known(x)'
  BY KnownLasts DEF AdminInv
<1>2. \A c \in calls' : c.op \in ById => Known(c.of)'
  BY <1>1 DEF AdminInv
<1>3. adminDialog'.kind \in ById => Known(adminDialog.of)'
  BY <1>1 DEF AdminInv
<1> QED
  BY <1>1, <1>2 DEF AdminInv

LEMMA AnswerNames ==
  ASSUME AdminInv, NEW c \in calls, NEW at \in {"checked", "done", "unread", "failed"},
         calls' \subseteq (calls \ {c}) \cup {[c EXCEPT !.at = at]}
  PROVE  \A d \in calls' : d \in Call
         /\ (d.op \in ById => \E e \in calls : e.op \in ById /\ d.of = e.of)
<1>1. c \in Call
  BY DEF AdminInv
<1>2. /\ [c EXCEPT !.at = at] \in Call
      /\ [c EXCEPT !.at = at].op = c.op /\ [c EXCEPT !.at = at].of = c.of
  BY <1>1 DEF Call
<1> QED
  BY <1>2 DEF AdminInv

LEMMA ClosedNamesNobody == adminDialog' = Closed => adminDialog'.kind \notin ById
<1>1. Closed.kind = "none"
  BY DEF Closed
<1>2. "none" \notin ById
  BY DEF ById
<1> HIDE DEF Closed, ById
<1> QED
  BY <1>1, <1>2

(* An answer, or a look at the table, gives a call its next state.         *)
LEMMA Answering ==
  ASSUME AdminInv, NEW c \in calls, NEW at \in {"checked", "done", "unread", "failed"},
         calls' \subseteq (calls \ {c}) \cup {[c EXCEPT !.at = at]},
         accounts' \subseteq accounts,
         lastId' = lastId, operators' = operators, adminDialog' = adminDialog, newUsername' = newUsername
  PROVE  AdminInv'
<1>1. \A d \in calls' : d \in Call
        /\ (d.op \in ById => \E e \in calls : e.op \in ById /\ d.of = e.of)
  BY AnswerNames
<1>2. newUsername' \in Usernames \cup {""} /\ operators' \subseteq operators \cup accounts
  BY DEF AdminInv
<1>3. \A d \in calls' : d \in Call
        /\ (d.op \in ById => \/ d.of \in accounts
                             \/ \E e \in calls : e.op \in ById /\ d.of = e.of
                             \/ adminDialog.kind \in ById /\ d.of = adminDialog.of)
  BY <1>1
<1>4. adminDialog'.kind \in ById => adminDialog' = adminDialog \/ adminDialog'.of \in operators
  OBVIOUS
<1> QED
  BY <1>2, <1>3, <1>4, NothingNewNamed

LEMMA Sending ==
  ASSUME AdminInv, NEW by \in {"page", "first", "second"}, NEW op \in Ops,
         NEW of \in Called,
         Sends(by, op, of), op \in ById => Known(of),
         accounts' = accounts, lastId' = lastId, operators' = operators, newUsername' = newUsername,
         adminDialog' = adminDialog \/ adminDialog' = Closed
  PROVE  AdminInv'
<1> DEFINE sent == [by |-> by, op |-> op, of |-> of, at |-> "sent"]
<1>1. sent \in Call /\ sent.of = of /\ sent.op = op
  BY DEF Call, Ops
<1>2. calls' = calls \cup {sent}
  BY DEF Sends
<1> HIDE DEF sent
<1>3. \A x : Known(x) => Known(x)'
  BY KnownLasts DEF AdminInv
<1>4. adminDialog'.kind \in ById => adminDialog' = adminDialog
  BY ClosedNamesNobody
<1>5. calls' \subseteq Call /\ \A c \in calls' : c.op \in ById => Known(c.of)'
  BY <1>1, <1>2, <1>3 DEF AdminInv
<1> QED
  BY <1>3, <1>4, <1>5 DEF AdminInv

LEMMA AdminIsSound == ConsoleSpec => []AdminInv
<1>1. ConsoleInit => AdminInv
  <2> SUFFICES ASSUME AdminInit PROVE AdminInv
    BY DEF ConsoleInit
  <2>1. accounts = {[id |-> 1, name |-> "first"], [id |-> 2, name |-> "second"]} /\ lastId = 2
        /\ operators \subseteq accounts
    BY DEF AdminInit, Admins
  <2>2. \A x \in accounts : x \in Called
    <3>1. "first" \in CalledNames /\ "second" \in CalledNames
      BY DEF CalledNames, AccountNames
    <3> QED
      BY <2>1, <3>1 DEF Called
  <2>3. \A x \in accounts : Known(x)
    BY <2>1, <2>2 DEF Known
  <2>4. adminDialog.kind = "none" /\ newUsername = "" /\ calls = {}
    BY DEF AdminInit, Closed
  <2> QED
    BY <2>1, <2>3, <2>4 DEF AdminInv, ById
<1>2. AdminInv /\ [ConsoleNext]_consoleVars => AdminInv'
  <2> SUFFICES ASSUME AdminInv, [AdminNext]_adminVars
               PROVE  AdminInv'
    BY PageSteps
  <2>0. \A x : x \in accounts \/ x \in operators => Known(x)
    BY DEF AdminInv
  <2>1. ASSUME NEW c \in calls, CallFails(c) PROVE AdminInv'
    BY <2>1, Answering DEF CallFails, Answer, adminPage, adminForms
  <2>2. ASSUME NEW c \in calls, Looked(c) PROVE AdminInv'
    BY <2>2, Answering DEF Looked, adminPage, adminForms
  <2>3. ASSUME NEW c \in calls, Deleted(c) PROVE AdminInv'
    BY <2>3, Answering DEF Deleted, Answer, adminPage, adminForms
  <2>4. ASSUME NEW c \in calls, PasswordSet(c) PROVE AdminInv'
    BY <2>4, Answering DEF PasswordSet, Answer, adminPage, adminForms
  <2>5. ASSUME NEW c \in calls, SafelistWritten(c) PROVE AdminInv'
    BY <2>5, Answering DEF SafelistWritten, Answer, adminPage, adminForms
  <2>6. ASSUME NEW c \in calls, ReloadServed(c) PROVE AdminInv'
    BY <2>6, Answering DEF ReloadServed, Answer, adminPage, adminForms
  <2>7. ASSUME NEW c \in calls, Created(c) PROVE AdminInv'
    <3>0. PICK new : new = [id |-> lastId + 1, name |-> c.of.name]
      OBVIOUS
    <3>1. /\ lastId' = lastId + 1 /\ accounts' = accounts \cup {new}
          /\ UNCHANGED <<operators, adminDialog, newUsername>>
      BY <2>7, <3>0 DEF Created, adminPage, adminForms
    <3>2. PICK at \in {"done", "failed"} : Answer(c, at)
      BY <2>7 DEF Created
    <3>3. calls' \subseteq (calls \ {c}) \cup {[c EXCEPT !.at = at]}
      BY <3>2 DEF Answer
    <3>4. \A d \in calls' : d \in Call
            /\ (d.op \in ById => \E e \in calls : e.op \in ById /\ d.of = e.of)
      BY <3>3, AnswerNames
    <3>5. c.of.name \in CalledNames /\ lastId \in Nat
      BY DEF AdminInv, Call, Called
    <3>6. new \in Called /\ new.id = lastId + 1
      BY <3>0, <3>5 DEF Called
    <3>7. \A x : Known(x) => Known(x)'
      BY <3>1, <3>5, <3>6, KnownLasts
    <3>8. \A a \in accounts : a.id \in 1..lastId
      BY <2>0 DEF Known
    <3>9. Known(new)'
      BY <3>1, <3>5, <3>6, <3>8 DEF Known
    <3>10. \A x \in accounts' \cup operators' : Known(x)'
      BY <2>0, <3>1, <3>7, <3>9
    <3>11. adminDialog'.kind \in ById => Known(adminDialog.of)'
      BY <3>1, <3>7 DEF AdminInv
    <3>12. calls' \subseteq Call /\ \A d \in calls' : d.op \in ById => Known(d.of)'
      BY <3>4, <3>7 DEF AdminInv
    <3>13. lastId' \in Nat
      BY <3>1, <3>5
    <3>14. newUsername' \in Usernames \cup {""}
      BY <3>1 DEF AdminInv
    <3> QED
      BY <3>10, <3>11, <3>12, <3>13, <3>14 DEF AdminInv
  <2>8. ASSUME NEW c \in calls, Handled(c) PROVE AdminInv'
    <3>1. /\ accounts' = accounts /\ lastId' = lastId /\ operators' \subseteq operators \cup accounts
          /\ calls' \subseteq calls /\ newUsername' \in Usernames \cup {""}
          /\ adminDialog' = adminDialog \/ adminDialog' = Closed
      BY <2>8 DEF Handled, AdminInv
    <3>2. adminDialog'.kind \in ById => adminDialog' = adminDialog
      BY <3>1, ClosedNamesNobody
    <3> QED
      BY <3>1, <3>2, NothingNewNamed DEF AdminInv
  <2>9. CASE OperatorsFetched \/ SafelistFetched \/ CloseDialog \/ TypeUser
    <3>1. /\ accounts' = accounts /\ lastId' = lastId /\ operators' \subseteq operators \cup accounts
          /\ calls' = calls /\ newUsername' \in Usernames \cup {""}
          /\ adminDialog' = adminDialog \/ adminDialog' = Closed
      BY <2>9 DEF OperatorsFetched, SafelistFetched, CloseDialog, TypeUser, adminDaemon, adminForms,
         AdminInv
    <3>2. adminDialog'.kind \in ById => adminDialog' = adminDialog
      BY <3>1, ClosedNamesNobody
    <3> QED
      BY <3>1, <3>2, NothingNewNamed DEF AdminInv
  <2>10. CASE OpenDialog
    <3>1. /\ UNCHANGED <<accounts, lastId, operators, calls, newUsername>>
          /\ adminDialog' = [kind |-> "create", of |-> NoUser]
             \/ \E a \in operators, kind \in ById : adminDialog' = [kind |-> kind, of |-> a]
      BY <2>10 DEF OpenDialog, adminDaemon, ById
    <3>2. adminDialog'.kind \in ById => adminDialog'.of \in operators
      BY <3>1 DEF ById
    <3> QED
      BY <3>1, <3>2, NothingNewNamed DEF AdminInv
  <2>11. CASE ClientCalls
    <3>1. /\ accounts' = accounts /\ lastId' = lastId /\ operators' = operators
          /\ newUsername' = newUsername /\ adminDialog' = adminDialog
      BY <2>11 DEF ClientCalls, adminPage, adminForms
    <3>2. ASSUME NEW by \in {"first", "second"}, NEW name \in Usernames,
                 Sends(by, "create", [id |-> 0, name |-> name])
          PROVE  AdminInv'
      BY <3>1, <3>2, Sending DEF Called, CalledNames, AccountNames, Ops, ById
    <3>3. ASSUME NEW by \in {"first", "second"}, NEW a \in accounts, NEW op \in ById, Sends(by, op, a)
          PROVE  AdminInv'
      <4>1. Known(a) /\ a \in Called
        BY <2>0 DEF Known
      <4> QED
        BY <3>1, <3>3, <4>1, Sending DEF Ops, ById
    <3> QED
      BY <2>11, <3>2, <3>3 DEF ClientCalls, ById
  <2>12. CASE HandleCreateUser
    <3>1. newUsername \in Usernames \cup {""} /\ "create" \in Ops \ ById
      BY DEF AdminInv, Ops, ById
    <3> QED
      BY <2>12, <3>1, Sending DEF HandleCreateUser, Called, CalledNames, AccountNames
  <2>13. CASE HandleChangePassword \/ HandleDeleteUser
    <3>1. adminDialog.kind \in ById
      BY <2>13 DEF HandleChangePassword, HandleDeleteUser, ById
    <3>2. Known(adminDialog.of) /\ adminDialog.of \in Called
      BY <3>1 DEF AdminInv, Known
    <3>3. /\ Sends("page", "password", adminDialog.of) \/ Sends("page", "delete", adminDialog.of)
          /\ accounts' = accounts /\ lastId' = lastId /\ operators' = operators
          /\ newUsername' = newUsername /\ (adminDialog' = adminDialog \/ adminDialog' = Closed)
      BY <2>13 DEF HandleChangePassword, HandleDeleteUser
    <3> QED
      BY <3>2, <3>3, Sending DEF Ops
  <2>14. CASE HandleReloadConfig
    BY <2>14, Sending DEF HandleReloadConfig, NoUser, Called, CalledNames, Ops, ById, adminForms
  <2>15. ASSUME NEW p \in SafePrefixes, HandleAddSafelist(p) \/ HandleRemoveSafelist(p)
         PROVE  AdminInv'
    BY <2>15, Sending DEF HandleAddSafelist, HandleRemoveSafelist, Called, CalledNames, Ops, ById, adminForms
  <2>16. CASE UNCHANGED adminVars
    BY <2>16, NothingNewNamed DEF adminVars, adminDaemon, adminPage, adminForms, AdminInv
  <2> QED
    BY <2>1, <2>2, <2>3, <2>4, <2>5, <2>6, <2>7, <2>8, <2>9, <2>10, <2>11, <2>12, <2>13, <2>14,
       <2>15, <2>16 DEF AdminNext
<1> QED
  BY <1>1, <1>2, PTL DEF ConsoleSpec

THEOREM TouchedAreNamed == ConsoleSpec => TouchedWereNamed
<1> DEFINE Touches ==
      \A a \in accounts : a \notin accounts' \/ a.id \in changed' \ changed =>
        \E c \in calls \ calls' : c.op \in {"delete", "password"} /\ c.of = a
<1>1. AdminInv /\ [ConsoleNext]_consoleVars => [Touches]_adminVars
  <2> SUFFICES ASSUME AdminInv, AdminNext
               PROVE  Touches
    BY PageSteps
  <2>1. ASSUME NEW c \in calls, NEW a \in accounts, Deleted(c) \/ PasswordSet(c),
               a \notin accounts' \/ a.id \in changed' \ changed
        PROVE  c \in calls \ calls' /\ c.op \in {"delete", "password"} /\ c.of = a
    <3>1. c.op \in ById /\ c.at \in {"sent", "checked"} /\ Answer(c, "unread")
      BY <2>1 DEF Deleted, PasswordSet, ById
    <3>2. Known(c.of) /\ c \in Call
      BY <3>1 DEF AdminInv
    <3>3. a.id = c.of.id
      BY <2>1 DEF Deleted, PasswordSet, Target
    <3>4. c \notin calls'
      BY <3>1, <3>2 DEF Answer, Call
    <3> QED
      BY <3>1, <3>2, <3>3, <3>4 DEF Known, ById
  <2>2. ASSUME NEW c \in calls, CallFails(c) \/ Looked(c) \/ Created(c) \/ SafelistWritten(c)
                                \/ ReloadServed(c) \/ Handled(c)
        PROVE  accounts \subseteq accounts' /\ changed' = changed
    BY <2>2 DEF CallFails, Looked, Created, SafelistWritten, ReloadServed, Handled
  <2>3. ASSUME ClientCalls \/ OperatorsFetched \/ SafelistFetched \/ OpenDialog \/ CloseDialog
               \/ TypeUser \/ HandleCreateUser \/ HandleChangePassword \/ HandleDeleteUser
               \/ HandleReloadConfig \/ \E p \in SafePrefixes : HandleAddSafelist(p) \/ HandleRemoveSafelist(p)
        PROVE  accounts \subseteq accounts' /\ changed' = changed
    BY <2>3 DEF ClientCalls, OperatorsFetched, SafelistFetched, OpenDialog, CloseDialog, TypeUser,
       HandleCreateUser, HandleChangePassword, HandleDeleteUser, HandleReloadConfig,
       HandleAddSafelist, HandleRemoveSafelist, adminDaemon
  <2> QED
    BY <2>1, <2>2, <2>3 DEF AdminNext
<1> QED
  BY <1>1, AdminIsSound, PTL DEF ConsoleSpec, TouchedWereNamed

-----------------------------------------------------------------------------
(* The alerting panel.  Its lists are those of the file, masked, or edited *)
(* by one row.                                                             *)
Marked == [dest : Dest, marked : BOOLEAN]

LEMMA RedactedAre ==
  ASSUME NEW ds \in Seq(Dest)
  PROVE  RedactedAll(ds) \in Seq(Dest)
<1>1. \A d \in Dest : Redacted(d) \in Dest
  BY DEF Redacted, Dest
<1>2. RedactedAll(ds) \in [1..Len(ds) -> Dest] /\ Len(ds) \in Nat
  BY <1>1, RowOf DEF RedactedAll
<1> QED
  BY <1>2, ListOf

(* What a save stores: what came in, or for a mask the secret of the one   *)
(* destination it may be taken from.                                       *)
LEMMA MergedIs ==
  ASSUME NEW ds \in Seq(Dest), NEW d \in Dest, Resolves(d, ds)
  PROVE  /\ Merged(d, ds) \in Dest
         /\ \/ Merged(d, ds) = d /\ d.secret # Mask
            \/ \E i \in Candidates(d, ds) :
                 Merged(d, ds) = [d EXCEPT !.secret = ds[i].secret] /\ i \in DOMAIN ds
<1>1. CASE d.secret # Mask
  BY <1>1 DEF Merged
<1>2. CASE d.secret = Mask
  <2>1. Cardinality(Candidates(d, ds)) = 1
    BY <1>2 DEF Resolves
  <2>2. Candidates(d, ds) # {}
    BY <2>1, FS_EmptySet
  <2>3. PICK i \in Candidates(d, ds) : i = (CHOOSE j \in Candidates(d, ds) : TRUE)
    BY <2>2
  <2>4. i \in DOMAIN ds
    BY <2>3 DEF Candidates
  <2>5. Merged(d, ds) = [d EXCEPT !.secret = ds[i].secret]
    BY <1>2, <2>3 DEF Merged
  <2>6. ds[i] \in Dest
    BY <2>4, RowOf
  <2>7. [d EXCEPT !.secret = ds[i].secret] \in Dest
    BY <2>6 DEF Dest
  <2> QED
    BY <2>3, <2>4, <2>5, <2>7
<1> QED
  BY <1>1, <1>2

LEMMA StoredAre ==
  ASSUME config \in Seq(Dest), NEW body \in Seq(Dest), Accepted(body)
  PROVE  /\ Stored(body) \in Seq(Dest) /\ DOMAIN Stored(body) = DOMAIN body
         /\ \A i \in DOMAIN body : Stored(body)[i] = Merged(body[i], config)
<1>1. \A i \in DOMAIN body : Merged(body[i], config) \in Dest
  <2> SUFFICES ASSUME NEW i \in DOMAIN body PROVE Merged(body[i], config) \in Dest
    OBVIOUS
  <2>1. body[i] \in Dest /\ Resolves(body[i], config)
    BY RowOf DEF Accepted
  <2> QED
    BY <2>1, MergedIs
<1>2. Stored(body) \in [1..Len(body) -> Dest] /\ Len(body) \in Nat /\ DOMAIN body = 1..Len(body)
  BY <1>1, RowOf DEF Stored
<1> QED
  BY <1>2, ListOf DEF Stored

(* The panel's variables have their types, whatever is saved, lost and     *)
(* fetched; its form shows the destination it was opened on.               *)
PanelInv ==
  AlertingPanelTypeOK /\ FormStaysOnDest /\ (~isEditing => editingIndex = 0)

LEMMA PanelIsSound == ConsoleSpec => []PanelInv
<1>1. ConsoleInit => PanelInv
  <2> SUFFICES ASSUME AlertingPanelInit PROVE PanelInv
    BY DEF ConsoleInit
  <2>1. FileDests \in Seq(Dest) /\ RedactedAll(FileDests) \in Seq(Dest)
    BY AlertingPanelAssumption, RedactedAre
  <2>2. <<>> \in Seq(Marked) /\ Len(<<>>) = 0 /\ <<>> \in Seq(Dest)
    OBVIOUS
  <2>3. /\ config \in Seq(Dest) /\ file \in Seq(Dest) /\ data \in Seq(Dest) /\ saves = 0 /\ edits = 0
        /\ draft = <<>> /\ editingIndex = 0 /\ isEditing = FALSE /\ put = [at |-> "idle", body |-> <<>>]
    BY <2>1 DEF AlertingPanelInit
  <2>4. put \in [at : {"idle", "out", "saved", "done", "failed"}, body : Seq(Dest)]
    BY <2>2, <2>3
  <2>5. MaxSaves \in Nat /\ MaxEdits \in Nat
    BY AlertingPanelAssumption
  <2>6. draft \in Seq(Marked) /\ Len(draft) = 0
    BY <2>2, <2>3
  <2>7. editingIndex \in 0..Len(draft) /\ saves \in 0..MaxSaves /\ edits \in 0..MaxEdits
    BY <2>3, <2>5, <2>6
  <2>8. isEditing \in BOOLEAN
    BY <2>3
  <2> QED
    BY <2>3, <2>4, <2>6, <2>7, <2>8 DEF PanelInv, AlertingPanelTypeOK, FormStaysOnDest, Marked
<1>2. PanelInv /\ [ConsoleNext]_consoleVars => PanelInv'
  <2> SUFFICES ASSUME PanelInv, [AlertingPanelNext]_alertingVars
               PROVE  PanelInv'
    BY PageSteps
  <2>0. /\ config \in Seq(Dest) /\ file \in Seq(Dest) /\ data \in Seq(Dest)
        /\ draft \in Seq(Marked) /\ Len(draft) \in Nat /\ DOMAIN draft = 1..Len(draft)
        /\ isEditing \in BOOLEAN /\ editingIndex \in 0..Len(draft)
        /\ saves \in 0..MaxSaves /\ edits \in 0..MaxEdits
        /\ put \in [at : {"idle", "out", "saved", "done", "failed"}, body : Seq(Dest)]
        /\ \A i \in DOMAIN draft : draft[i] \in Marked
    BY RowOf DEF PanelInv, AlertingPanelTypeOK, Marked
  <2>1. RedactedAll(config) \in Seq(Dest)
    BY <2>0, RedactedAre
  (* The daemon's steps leave the form alone.                              *)
  <2>2. ASSUME config' \in Seq(Dest), file' \in Seq(Dest), data' \in Seq(Dest), saves' \in 0..MaxSaves,
               put' \in [at : {"idle", "out", "saved", "done", "failed"}, body : Seq(Dest)],
               UNCHANGED <<draft, isEditing, editingIndex, edits>>
        PROVE  PanelInv'
    BY <2>2 DEF PanelInv, AlertingPanelTypeOK, FormStaysOnDest
  <2>3. CASE PutRefused \/ PutSwapped \/ Crashed
    BY <2>0, <2>2, <2>3 DEF PutRefused, PutSwapped, Crashed, alertingDaemon
  <2>4. CASE PutSaved
    <3>1. put.body \in Seq(Dest) /\ file' = Stored(put.body) /\ Accepted(put.body)
      BY <2>0, <2>4 DEF PutSaved
    <3>2. file' \in Seq(Dest)
      BY <2>0, <3>1, StoredAre
    <3>3. saves' \in 0..MaxSaves
      BY <2>0, <2>4, AlertingPanelAssumption DEF PutSaved
    <3> QED
      BY <2>0, <2>2, <2>4, <3>2, <3>3 DEF PutSaved
  <2>5. CASE Reloaded
    BY <2>0, <2>2, <2>5 DEF Reloaded, alertingPanel
  <2>6. CASE RivalSaves
    <3>1. saves' \in 0..MaxSaves
      BY <2>0, <2>6, AlertingPanelAssumption DEF RivalSaves
    <3>2. config' \in Seq(Dest)
      <4>1. ASSUME NEW d \in [kind : NewKinds, key : DestKeys, secret : Secrets, headers : {Unset}],
                   config' = Append(config, d)
            PROVE  config' \in Seq(Dest)
        <5>1. d \in Dest
          BY AlertingPanelAssumption DEF Dest
        <5> QED
          BY <2>0, <4>1, <5>1
      <4>2. ASSUME NEW i \in DOMAIN config,
                   config' = [j \in 1..(Len(config) - 1) |-> config[IF j < i THEN j ELSE j + 1]]
            PROVE  config' \in Seq(Dest)
        BY <2>0, <4>2, ListWithout
      <4> QED
        BY <2>6, <4>1, <4>2 DEF RivalSaves
    <3> QED
      BY <2>0, <2>2, <2>6, <3>1, <3>2 DEF RivalSaves, alertingPanel
  <2>7. CASE AlertingFetched
    BY <2>0, <2>1, <2>2, <2>7 DEF AlertingFetched, alertingDaemon
  (* And the form's leave what the daemon holds alone.                     *)
  <2>8. ASSUME data' \in Seq(Dest), draft' \in Seq(Marked), isEditing' \in BOOLEAN,
               editingIndex' \in 0..Len(draft'), edits' \in 0..MaxEdits,
               put' \in [at : {"idle", "out", "saved", "done", "failed"}, body : Seq(Dest)],
               UNCHANGED <<config, file, saves>>, isEditing' \/ editingIndex' = 0,
               editingIndex' # 0 => editingIndex' \in DOMAIN draft' /\ draft'[editingIndex'].marked
        PROVE  PanelInv'
    BY <2>0, <2>8 DEF PanelInv, AlertingPanelTypeOK, FormStaysOnDest, Marked
  <2>9. /\ editingIndex # 0 => editingIndex \in DOMAIN draft /\ draft[editingIndex].marked
        /\ isEditing \/ editingIndex = 0
    BY DEF PanelInv, FormStaysOnDest
  <2>10. Editing => edits' \in 0..MaxEdits
    BY <2>0, AlertingPanelAssumption DEF Editing
  <2>11. CASE DraftGone /\ edits' = edits /\ UNCHANGED <<config, file, saves>> /\ data' \in Seq(Dest)
              /\ put' \in [at : {"idle", "out", "saved", "done", "failed"}, body : Seq(Dest)]
    <3>1. draft' = <<>> /\ editingIndex' = 0 /\ isEditing' = FALSE
      BY <2>11 DEF DraftGone
    <3>2. <<>> \in Seq(Marked) /\ 0 \in 0..Len(<<>>)
      OBVIOUS
    <3>3. draft' \in Seq(Marked) /\ editingIndex' \in 0..Len(draft')
      BY <3>1, <3>2
    <3> QED
      BY <2>0, <2>8, <2>11, <3>1, <3>3
  <2>12. CASE DiscardDraft
    BY <2>0, <2>11, <2>12 DEF DiscardDraft, alertingDaemon
  <2>13. CASE SaveAnswered
    <3>1. put' \in [at : {"idle", "out", "saved", "done", "failed"}, body : Seq(Dest)]
      BY <2>13 DEF SaveAnswered
    <3>2. CASE put.at = "done"
      BY <2>0, <2>1, <2>11, <2>13, <3>1, <3>2 DEF SaveAnswered, alertingDaemon
    <3>3. CASE put.at # "done"
      BY <2>0, <2>8, <2>9, <2>13, <3>1, <3>3 DEF SaveAnswered, alertingDaemon
    <3> QED
      BY <3>2, <3>3
  <2>14. CASE HandleSave
    <3>1. Dests(draft) \in [1..Len(draft) -> Dest]
      BY <2>0 DEF Dests, Marked
    <3>2. Dests(draft) \in Seq(Dest)
      BY <2>0, <3>1, ListOf
    <3>3. put' \in [at : {"idle", "out", "saved", "done", "failed"}, body : Seq(Dest)]
      BY <2>14, <3>2 DEF HandleSave
    <3> QED
      BY <2>0, <2>8, <2>9, <2>14, <3>3 DEF HandleSave, alertingDaemon
  <2>15. CASE InitDraft
    <3>1. draft' \in [1..Len(data) -> Marked] /\ Len(data) \in Nat
      BY <2>0, <2>15, RowOf DEF InitDraft, Marked
    <3>2. draft' \in Seq(Marked)
      BY <3>1, ListOf
    <3>3. editingIndex' = 0 /\ isEditing' = TRUE /\ Len(draft') \in Nat
      BY <2>9, <2>15, <3>2 DEF InitDraft
    <3>4. editingIndex' \in 0..Len(draft')
      BY <3>3
    <3> QED
      BY <2>0, <2>8, <2>15, <3>2, <3>3, <3>4 DEF InitDraft, alertingDaemon
  (* A list of rows with the open form's marked.                           *)
  <2>17. ASSUME NEW ds \in Seq(Marked), NEW i \in 1..Len(ds)
         PROVE  /\ OpenOn(ds, i) \in Seq(Marked) /\ Len(OpenOn(ds, i)) = Len(ds)
                /\ i \in DOMAIN OpenOn(ds, i) /\ OpenOn(ds, i)[i].marked
    <3>1. \A j \in 1..Len(ds) : [ds[j] EXCEPT !.marked = (j = i)] \in Marked
      <4>1. \A r \in Marked : \A b \in BOOLEAN : [r EXCEPT !.marked = b] \in Marked
        BY DEF Marked
      <4>2. \A j \in 1..Len(ds) : ds[j] \in Marked /\ (j = i) \in BOOLEAN
        BY RowOf
      <4> QED
        BY <4>1, <4>2
    <3>2. OpenOn(ds, i) \in [1..Len(ds) -> Marked] /\ Len(ds) \in Nat
      BY <3>1 DEF OpenOn
    <3>3. OpenOn(ds, i)[i] = [ds[i] EXCEPT !.marked = (i = i)] /\ ds[i] \in Marked
      BY RowOf DEF OpenOn
    <3>4. (i = i) = TRUE
      OBVIOUS
    <3>5. PICK r \in Marked : r = ds[i]
      BY <3>3
    <3>6. OpenOn(ds, i)[i].marked
      BY <3>3, <3>4, <3>5 DEF Marked
    <3> QED
      BY <3>2, <3>6, ListOf
  <2>18. ASSUME NEW kind \in NewKinds, AddDest(kind) PROVE PanelInv'
    <3>1. PICK row : row = [dest |-> EmptyDest(kind), marked |-> TRUE]
      OBVIOUS
    <3>2. EmptyDest(kind) \in Dest
      BY AlertingPanelAssumption DEF EmptyDest, Dest
    <3>3. row \in Marked
      BY <3>1, <3>2 DEF Marked
    <3>4. PICK ds : ds = Append(draft, row)
      OBVIOUS
    <3>5. ds \in Seq(Marked) /\ Len(ds) = Len(draft) + 1 /\ Len(draft) + 1 \in 1..Len(ds)
      BY <2>0, <3>3, <3>4
    <3>6. draft' = OpenOn(ds, Len(draft) + 1) /\ editingIndex' = Len(draft) + 1
      BY <2>18, <3>1, <3>4 DEF AddDest
    <3>7. /\ draft' \in Seq(Marked) /\ editingIndex' \in 0..Len(draft')
          /\ editingIndex' \in DOMAIN draft' /\ draft'[editingIndex'].marked
      BY <2>0, <2>17, <3>5, <3>6
    <3> QED
      BY <2>0, <2>8, <2>10, <2>18, <3>7 DEF AddDest, Editing, alertingDaemon
  <2>19. ASSUME NEW i \in DOMAIN draft, OpenForm(i) PROVE PanelInv'
    <3>1. draft' = OpenOn(draft, i) /\ editingIndex' = i
      BY <2>19 DEF OpenForm
    <3>2. /\ draft' \in Seq(Marked) /\ editingIndex' \in 0..Len(draft')
          /\ editingIndex' \in DOMAIN draft' /\ draft'[editingIndex'].marked
      BY <2>0, <2>17, <3>1
    <3> QED
      BY <2>0, <2>8, <2>19, <3>2 DEF OpenForm, alertingDaemon
  <2>20. CASE UpdateDest
    <3>1. PICK d \in Dest : draft' = [draft EXCEPT ![editingIndex].dest = d]
      BY <2>20 DEF UpdateDest
    <3>2. PICK i \in DOMAIN draft : i = editingIndex
      BY <2>9, <2>20 DEF UpdateDest
    <3>3. PICK row : row = [draft[i] EXCEPT !.dest = d]
      OBVIOUS
    <3>4. row \in Marked /\ row.marked = draft[i].marked
      BY <2>0, <3>3 DEF Marked
    <3>5. draft' = [draft EXCEPT ![i] = row]
      BY <3>1, <3>2, <3>3
    <3>6. draft' \in Seq(Marked) /\ Len(draft') = Len(draft) /\ DOMAIN draft' = DOMAIN draft
          /\ draft'[i] = row
      BY <2>0, <3>4, <3>5
    <3> QED
      BY <2>0, <2>8, <2>9, <2>10, <2>20, <3>2, <3>4, <3>6 DEF UpdateDest, Editing, alertingDaemon
  <2>21. ASSUME NEW i \in DOMAIN draft, RemoveDest(i) PROVE PanelInv'
    <3>1. PICK e : e = editingIndex
      OBVIOUS
    <3>2. /\ draft' \in Seq(Marked) /\ Len(draft') = Len(draft) - 1
          /\ DOMAIN draft' = 1..(Len(draft) - 1)
      BY <2>0, <2>21, ListWithout DEF RemoveDest, Removed
    <3>3. \A j \in 1..(Len(draft) - 1) : draft'[j] = draft[IF j < i THEN j ELSE j + 1]
      BY <2>21 DEF RemoveDest, Removed
    <3>4. editingIndex' = IF e = i THEN 0 ELSE IF e > i THEN e - 1 ELSE e
      BY <2>21, <3>1 DEF RemoveDest, IndexWithout
    <3>5. i \in 1..Len(draft) /\ e \in 0..Len(draft)
      BY <2>0, <3>1
    <3>6. editingIndex' \in 0..(Len(draft) - 1)
      BY <2>0, <3>4, <3>5
    <3>7. editingIndex' # 0 => editingIndex' \in DOMAIN draft' /\ draft'[editingIndex'] = draft[e] /\ e # 0
      <4>1. CASE e = i
        BY <3>4, <4>1
      <4>2. CASE e > i
        <5>1. editingIndex' = e - 1 /\ e - 1 \in 1..(Len(draft) - 1) /\ ~(e - 1 < i) /\ e - 1 + 1 = e
          BY <2>0, <3>4, <3>5, <4>2
        <5> QED
          BY <3>2, <3>3, <3>5, <4>2, <5>1
      <4>3. CASE e < i
        <5>1. editingIndex' = e /\ (e # 0 => e \in 1..(Len(draft) - 1))
          BY <2>0, <3>4, <3>5, <4>3
        <5> QED
          BY <3>2, <3>3, <4>3, <5>1
      <4> QED
        BY <3>5, <4>1, <4>2, <4>3
    <3> QED
      BY <2>0, <2>8, <2>9, <2>10, <2>21, <3>1, <3>2, <3>6, <3>7 DEF RemoveDest, Editing, alertingDaemon
  <2>16. CASE UNCHANGED alertingVars
    BY <2>0, <2>2, <2>16 DEF alertingVars, alertingDaemon, alertingPanel
  <2> QED
    BY <2>3, <2>4, <2>5, <2>6, <2>7, <2>12, <2>13, <2>14, <2>15, <2>16, <2>18, <2>19, <2>20, <2>21
    DEF AlertingPanelNext
<1> QED
  BY <1>1, <1>2, PTL DEF ConsoleSpec

(* The form shows the destination it was opened on.                        *)
THEOREM FormKeepsItsDest == ConsoleSpec => []FormStaysOnDest
<1>1. PanelInv => FormStaysOnDest
  BY DEF PanelInv
<1> QED
  BY <1>1, PanelIsSound, PTL

(* A destination's secret is one, and was entered for its endpoint.        *)
Endpoints == {"telegram", "pagerduty", "opsgenie", "generic"}
SecretOf(d) == <<d.kind, d.key, d.secret>>
Owned(d, known) == d.secret # Mask /\ (d.kind \in Endpoints => SecretOf(d) \in known)
SecretsInv ==
  /\ \A i \in DOMAIN config : Owned(config[i], entered)
  /\ \A i \in DOMAIN file : Owned(file[i], entered)

LEMMA TypedIs ==
  ASSUME NEW ds, NEW i \in DOMAIN ds
  PROVE  SecretOf(ds[i]) \in Typed(ds)
  BY DEF Typed, SecretOf

LEMMA OwnedLasts ==
  ASSUME NEW d, NEW known, NEW more, Owned(d, known), known \subseteq more
  PROVE  Owned(d, more)
  BY DEF Owned

(* What is merged back comes from a destination of the same endpoint.      *)
LEMMA MergedIsOwned ==
  ASSUME NEW ds \in Seq(Dest), NEW d \in Dest, Resolves(d, ds), NEW known,
         \A i \in DOMAIN ds : Owned(ds[i], known)
  PROVE  Owned(Merged(d, ds), known \cup {SecretOf(d)})
<1>1. CASE Merged(d, ds) = d /\ d.secret # Mask
  BY <1>1 DEF Owned
<1>2. ASSUME NEW i \in Candidates(d, ds), i \in DOMAIN ds,
             Merged(d, ds) = [d EXCEPT !.secret = ds[i].secret]
      PROVE  Owned(Merged(d, ds), known \cup {SecretOf(d)})
  <2>1. Owned(ds[i], known) /\ ds[i] \in Dest
    BY <1>2, RowOf
  <2>2. PICK m : m = Merged(d, ds)
    OBVIOUS
  <2>3. m.kind = d.kind /\ m.key = d.key /\ m.secret = ds[i].secret
    BY <1>2, <2>2 DEF Dest
  <2>4. d.kind \in Endpoints => ds[i].kind = d.kind /\ ds[i].key = d.key
    BY DEF Candidates, Endpoints, Keyless
  <2> QED
    BY <2>1, <2>2, <2>3, <2>4 DEF Owned, SecretOf
<1> QED
  BY <1>1, <1>2, MergedIs

THEOREM SecretsStayWithTheirEndpoints == ConsoleSpec => []SecretsAreEntered
<1>1. ConsoleInit => SecretsInv
  <2> SUFFICES ASSUME AlertingPanelInit, NEW i \in DOMAIN FileDests
               PROVE  Owned(FileDests[i], Typed(FileDests))
    BY DEF ConsoleInit, AlertingPanelInit, SecretsInv
  <2> QED
    BY TypedIs, AlertingPanelAssumption DEF Owned
<1>2. PanelInv /\ SecretsInv /\ [ConsoleNext]_consoleVars => SecretsInv'
  <2> SUFFICES ASSUME PanelInv, SecretsInv, [AlertingPanelNext]_alertingVars
               PROVE  SecretsInv'
    BY PageSteps
  <2>1. config \in Seq(Dest) /\ put \in [at : {"idle", "out", "saved", "done", "failed"}, body : Seq(Dest)]
    BY DEF PanelInv, AlertingPanelTypeOK
  <2>2. CASE UNCHANGED <<config, file, entered>>
    BY <2>2 DEF SecretsInv
  <2>3. CASE PutSwapped \/ Reloaded \/ Crashed
    BY <2>3 DEF PutSwapped, Reloaded, Crashed, SecretsInv
  <2>4. CASE PutSaved
    <3>1. /\ Accepted(put.body) /\ file' = Stored(put.body) /\ config' = config
          /\ entered' = entered \cup Typed(put.body)
      BY <2>4 DEF PutSaved
    <3>2. put.body \in Seq(Dest)
      BY <2>1
    <3>3. ASSUME NEW i \in DOMAIN put.body
          PROVE  Owned(Merged(put.body[i], config), entered \cup Typed(put.body))
      <4>1. put.body[i] \in Dest /\ Resolves(put.body[i], config)
        BY <3>1, <3>2, RowOf DEF Accepted
      <4>2. Owned(Merged(put.body[i], config), entered \cup {SecretOf(put.body[i])})
        BY <2>1, <4>1, MergedIsOwned DEF SecretsInv
      <4>3. SecretOf(put.body[i]) \in Typed(put.body)
        BY TypedIs
      <4> QED
        BY <4>2, <4>3, OwnedLasts
    <3>4. \A i \in DOMAIN file' : Owned(file'[i], entered')
      <4>1. PICK body, stored, known :
              body = put.body /\ stored = Stored(put.body) /\ known = entered \cup Typed(put.body)
        OBVIOUS
      <4>2. /\ DOMAIN stored = DOMAIN body
            /\ \A i \in DOMAIN body : stored[i] = Merged(body[i], config)
        BY <2>1, <3>1, <3>2, <4>1, StoredAre
      <4>3. \A i \in DOMAIN body : Owned(Merged(body[i], config), known)
        BY <3>3, <4>1
      <4>4. \A i \in DOMAIN stored : Owned(stored[i], known)
        BY <4>2, <4>3
      <4> QED
        BY <3>1, <4>1, <4>4
    <3>5. \A i \in DOMAIN config' : Owned(config'[i], entered')
      BY <3>1, OwnedLasts DEF SecretsInv
    <3> QED
      BY <3>4, <3>5 DEF SecretsInv
  <2>5. CASE RivalSaves
    <3>1. ASSUME NEW d \in [kind : NewKinds, key : DestKeys, secret : Secrets, headers : {Unset}],
                 config' = Append(config, d), entered' = entered \cup Typed(<<d>>)
          PROVE  \A i \in DOMAIN config' : Owned(config'[i], entered')
      <4>1. SecretOf(d) \in Typed(<<d>>)
        BY DEF SecretOf, Typed
      <4>2. Owned(d, entered')
        BY <3>1, <4>1, AlertingPanelAssumption DEF Owned
      <4>3. \A i \in DOMAIN config : Owned(config[i], entered')
        BY <3>1, OwnedLasts DEF SecretsInv
      <4>4. d \in Dest
        BY AlertingPanelAssumption DEF Dest
      <4>5. \A i \in DOMAIN config' : \/ i \in DOMAIN config /\ config'[i] = config[i]
                                     \/ config'[i] = d
        BY <2>1, <3>1, <4>4
      <4> QED
        BY <4>2, <4>3, <4>5
    <3>2. ASSUME NEW i \in DOMAIN config, entered' = entered,
                 config' = [j \in 1..(Len(config) - 1) |-> config[IF j < i THEN j ELSE j + 1]]
          PROVE  \A k \in DOMAIN config' : Owned(config'[k], entered')
      <4>1. Len(config) \in Nat /\ DOMAIN config = 1..Len(config)
        BY <2>1, RowOf
      <4>2. \A j \in 1..(Len(config) - 1) : (IF j < i THEN j ELSE j + 1) \in DOMAIN config
        BY <4>1
      <4>3. DOMAIN config' = 1..(Len(config) - 1)
            /\ \A j \in DOMAIN config' : config'[j] = config[IF j < i THEN j ELSE j + 1]
        BY <3>2
      <4>4. \A j \in DOMAIN config : Owned(config[j], entered')
        BY <3>2 DEF SecretsInv
      <4> QED
        BY <4>2, <4>3, <4>4
    <3> QED
      BY <2>5, <3>1, <3>2 DEF RivalSaves, SecretsInv
  <2>6. CASE PutRefused \/ AlertingFetched \/ InitDraft \/ DiscardDraft \/ UpdateDest \/ HandleSave
             \/ SaveAnswered \/ \E kind \in NewKinds : AddDest(kind)
    BY <2>2, <2>6 DEF PutRefused, AlertingFetched, InitDraft, DiscardDraft, UpdateDest, HandleSave,
       SaveAnswered, AddDest, alertingDaemon
  <2>7. CASE \E i \in DOMAIN draft : RemoveDest(i) \/ OpenForm(i)
    BY <2>2, <2>7 DEF RemoveDest, OpenForm, alertingDaemon
  <2>8. CASE UNCHANGED alertingVars
    BY <2>2, <2>8 DEF alertingVars, alertingDaemon
  <2> QED
    BY <2>3, <2>4, <2>5, <2>6, <2>7, <2>8 DEF AlertingPanelNext
<1>3. SecretsInv => SecretsAreEntered
  BY DEF SecretsInv, SecretsAreEntered, Owned, SecretOf, Endpoints
<1> QED
  BY <1>1, <1>2, <1>3, PanelIsSound, PTL DEF ConsoleSpec

-----------------------------------------------------------------------------
(* The playbooks' page.  What serde makes of a list, and what its YAML     *)
(* reads as, is a list of as many playbooks with the same steps.           *)
LEMMA RulesTyped ==
  ASSUME NEW pbs \in Seq(Playbook)
  PROVE  Received(pbs) \in Seq(Playbook) /\ Yaml(pbs) \in Seq(Playbook)
<1>1. ASSUME NEW no \in Absent, NEW pb \in Playbook
      PROVE  [pb EXCEPT !.steps = [j \in DOMAIN @ |-> FieldsAs(no, @[j])]] \in Playbook
  <2>1. \A step \in Step : FieldsAs(no, step) \in Step
    BY DEF FieldsAs, Step
  <2>2. pb.steps \in Seq(Step)
    BY DEF Playbook
  <2>3. /\ Len(pb.steps) \in Nat /\ DOMAIN pb.steps = 1..Len(pb.steps)
        /\ \A j \in DOMAIN pb.steps : pb.steps[j] \in Step
    BY <2>2, RowOf
  <2>4. PICK steps : steps = [j \in DOMAIN pb.steps |-> FieldsAs(no, pb.steps[j])]
    OBVIOUS
  <2>5. steps \in [1..Len(pb.steps) -> Step]
    BY <2>1, <2>3, <2>4
  <2>6. steps \in Seq(Step)
    BY <2>3, <2>5, ListOf
  <2>7. [pb EXCEPT !.steps = [j \in DOMAIN @ |-> FieldsAs(no, @[j])]] = [pb EXCEPT !.steps = steps]
    BY <2>4
  <2> QED
    BY <2>6, <2>7 DEF Playbook
<1>2. ASSUME NEW no \in Absent
      PROVE  PlaybooksAs(no, pbs) \in Seq(Playbook)
  <2>1. Len(pbs) \in Nat /\ DOMAIN pbs = 1..Len(pbs) /\ \A i \in DOMAIN pbs : pbs[i] \in Playbook
    BY RowOf
  <2>2. PlaybooksAs(no, pbs) \in [1..Len(pbs) -> Playbook]
    BY <1>1, <2>1 DEF PlaybooksAs
  <2> QED
    BY <2>1, <2>2, ListOf
<1> QED
  BY <1>2 DEF Received, Yaml, Absent

(* The page's validator asks no less than the daemon's of what serde       *)
(* reads: it sees the requirements of a first step that the form does not  *)
(* show.                                                                   *)
LEMMA PageIsAsStrict ==
  ASSUME NEW pbs \in Seq(Playbook), NoErrors(pbs), Readable(pbs), NamesFit(pbs)
  PROVE  Accepts(Received(pbs))
<1> DEFINE r == Received(pbs)
<1>1. Len(pbs) \in Nat /\ DOMAIN pbs = 1..Len(pbs) /\ DOMAIN r = DOMAIN pbs
  BY RowOf DEF Received, PlaybooksAs
<1>2. r # <<>>
  <2>1. pbs # <<>>
    BY DEF NoErrors, HiddenFieldMutant
  <2>2. 1 \in DOMAIN pbs
    <3>1. Len(pbs) # 0
      BY <2>1
    <3> QED
      BY <1>1, <3>1
  <2> QED
    BY <1>1, <2>2
<1>3. ASSUME NEW k \in DOMAIN pbs
      PROVE  /\ r[k].name = pbs[k].name /\ r[k].vector = pbs[k].vector
             /\ DOMAIN r[k].steps = DOMAIN pbs[k].steps
             /\ \A j \in DOMAIN pbs[k].steps : r[k].steps[j] = FieldsAs(Null, pbs[k].steps[j])
  <2>1. pbs[k] \in Playbook
    BY RowOf
  <2>2. r[k] = [pbs[k] EXCEPT !.steps = [j \in DOMAIN @ |-> FieldsAs(Null, @[j])]]
    BY DEF Received, PlaybooksAs
  <2>3. /\ r[k].name = pbs[k].name /\ r[k].vector = pbs[k].vector
        /\ r[k].steps = [j \in DOMAIN pbs[k].steps |-> FieldsAs(Null, pbs[k].steps[j])]
    BY <2>1, <2>2 DEF Playbook
  <2> HIDE DEF r
  <2> QED
    BY <2>3
<1> HIDE DEF r
<1>4. ASSUME NEW i \in DOMAIN r
      PROVE  /\ Bytes[r[i].name] # 0 /\ Bytes[r[i].name] <= MaxName
             /\ \A j \in 1..(i - 1) : r[j].name # r[i].name
             /\ r[i].vector \in Vectors
             /\ r[i].steps # <<>> /\ ~Escalates(r[i].steps[1])
             /\ \A j \in DOMAIN r[i].steps : LET step == r[i].steps[j] IN
                  /\ step.action \in StepActions /\ Unsigned(step.ttl_seconds, MaxU32)
                  /\ step.rate_bps \notin Absent => Unsigned(step.rate_bps, MaxU64)
                  /\ step.persistence \notin Absent => Unsigned(step.persistence, MaxU32)
                  /\ GoodStep(step)
  <2>2. /\ pbs[i].name \notin Blanks /\ pbs[i].vector \in Vectors /\ pbs[i].steps # <<>>
        /\ \A j \in DOMAIN pbs[i].steps : ErrorFree(pbs[i].steps[j])
        /\ ~Escalates(pbs[i].steps[1])
        /\ \A j \in DOMAIN pbs : i # j => pbs[i].name # pbs[j].name
    BY <1>1 DEF NoErrors, HiddenFieldMutant
  <2>1. /\ Bytes[pbs[i].name] # 0 /\ Bytes[pbs[i].name] <= MaxName
        /\ \A j \in DOMAIN pbs[i].steps :
             /\ pbs[i].steps[j].action \in StepActions /\ Unsigned(pbs[i].steps[j].ttl_seconds, MaxU32)
             /\ pbs[i].steps[j].rate_bps \notin Absent => Unsigned(pbs[i].steps[j].rate_bps, MaxU64)
             /\ pbs[i].steps[j].persistence \notin Absent => Unsigned(pbs[i].steps[j].persistence, MaxU32)
    <3>1. pbs[i].name \in Names
      <4>1. pbs[i] \in Playbook
        BY <1>1, RowOf
      <4> QED BY <4>1 DEF Playbook
    <3>2. Bytes[pbs[i].name] # 0
      BY <2>2, <3>1, PlaybookEditorAssumption
    <3>3. Bytes[pbs[i].name] <= MaxName
      BY <1>1 DEF NamesFit
    <3> QED
      BY <1>1, <3>2, <3>3 DEF Readable
  <2>3. \A j \in 1..(i - 1) : j \in DOMAIN pbs /\ i # j
    BY <1>1
  <2>4. /\ Bytes[r[i].name] # 0 /\ Bytes[r[i].name] <= MaxName /\ r[i].vector \in Vectors
        /\ \A j \in 1..(i - 1) : r[j].name # r[i].name
    BY <1>1, <1>3, <2>1, <2>2, <2>3
  <2>5. /\ pbs[i].steps \in Seq(Step) /\ DOMAIN pbs[i].steps = 1..Len(pbs[i].steps)
        /\ Len(pbs[i].steps) \in Nat /\ \A j \in DOMAIN pbs[i].steps : pbs[i].steps[j] \in Step
    <3>0. pbs[i] \in Playbook
      BY <1>1, RowOf
    <3>1. pbs[i].steps \in Seq(Step)
      BY <3>0 DEF Playbook
    <3> QED
      BY <3>1, RowOf
  <2>6. PICK steps : steps = pbs[i].steps
    OBVIOUS
  <2>7. DOMAIN r[i].steps = DOMAIN steps
    BY <1>1, <1>3, <2>6
  <2>8. ASSUME NEW j \in DOMAIN steps
        PROVE  /\ r[i].steps[j].action = steps[j].action
               /\ r[i].steps[j].ttl_seconds = steps[j].ttl_seconds
               /\ r[i].steps[j].rate_bps
                    = (IF steps[j].rate_bps \in Absent THEN Null ELSE steps[j].rate_bps)
               /\ r[i].steps[j].confidence
                    = (IF steps[j].confidence \in Absent THEN Null ELSE steps[j].confidence)
               /\ r[i].steps[j].persistence
                    = (IF steps[j].persistence \in Absent THEN Null ELSE steps[j].persistence)
    <3>1. steps[j] \in Step
      BY <2>5, <2>6
    <3>2. r[i].steps[j] = FieldsAs(Null, steps[j])
      BY <1>1, <1>3, <2>6
    <3>3. \A s \in Step :
            /\ FieldsAs(Null, s).action = s.action /\ FieldsAs(Null, s).ttl_seconds = s.ttl_seconds
            /\ FieldsAs(Null, s).rate_bps = (IF s.rate_bps \in Absent THEN Null ELSE s.rate_bps)
            /\ FieldsAs(Null, s).confidence = (IF s.confidence \in Absent THEN Null ELSE s.confidence)
            /\ FieldsAs(Null, s).persistence = (IF s.persistence \in Absent THEN Null ELSE s.persistence)
      BY DEF FieldsAs, Step
    <3>4. PICK f : f = FieldsAs(Null, steps[j])
      OBVIOUS
    <3>5. /\ f.action = steps[j].action /\ f.ttl_seconds = steps[j].ttl_seconds
          /\ f.rate_bps = (IF steps[j].rate_bps \in Absent THEN Null ELSE steps[j].rate_bps)
          /\ f.confidence = (IF steps[j].confidence \in Absent THEN Null ELSE steps[j].confidence)
          /\ f.persistence = (IF steps[j].persistence \in Absent THEN Null ELSE steps[j].persistence)
      BY <3>1, <3>3, <3>4
    <3>6. r[i].steps[j] = f
      BY <3>2, <3>4
    <3> QED
      BY <3>5, <3>6
  <2>9. 1 \in DOMAIN steps /\ r[i].steps # <<>>
    <3>0. steps \in Seq(Step) /\ steps # <<>>
      BY <2>2, <1>1, <2>5, <2>6
    <3>2. Len(steps) # 0
      BY <3>0
    <3>1. 1 \in DOMAIN steps
      BY <2>5, <2>6, <3>2
    <3> QED
      BY <2>7, <3>1
  <2>10. ASSUME NEW j \in DOMAIN steps
         PROVE  Escalates(r[i].steps[j]) <=> Escalates(steps[j])
    BY <2>8 DEF Escalates, Absent
  <2>11. ASSUME NEW j \in DOMAIN steps
         PROVE  /\ r[i].steps[j].action \in StepActions /\ Unsigned(r[i].steps[j].ttl_seconds, MaxU32)
                /\ r[i].steps[j].rate_bps \notin Absent => Unsigned(r[i].steps[j].rate_bps, MaxU64)
                /\ r[i].steps[j].persistence \notin Absent => Unsigned(r[i].steps[j].persistence, MaxU32)
                /\ GoodStep(r[i].steps[j])
    <3>1. PICK q, f : q = steps[j] /\ f = r[i].steps[j]
      OBVIOUS
    <3>2. /\ q \in Step /\ f.action = q.action /\ f.ttl_seconds = q.ttl_seconds
          /\ f.rate_bps = (IF q.rate_bps \in Absent THEN Null ELSE q.rate_bps)
          /\ f.confidence = (IF q.confidence \in Absent THEN Null ELSE q.confidence)
          /\ f.persistence = (IF q.persistence \in Absent THEN Null ELSE q.persistence)
      BY <2>5, <2>6, <2>8, <3>1
    <3>3. /\ ErrorFree(q) /\ q.action \in StepActions /\ Unsigned(q.ttl_seconds, MaxU32)
          /\ q.rate_bps \notin Absent => Unsigned(q.rate_bps, MaxU64)
          /\ q.persistence \notin Absent => Unsigned(q.persistence, MaxU32)
      BY <2>1, <2>2, <2>6, <3>1
    <3>4. Null \in Absent /\ Absent \cap Int = {}
      BY PlaybookEditorAssumption DEF Absent
    <3>5. /\ f.action \in StepActions /\ Unsigned(f.ttl_seconds, MaxU32)
          /\ f.rate_bps \notin Absent => Unsigned(f.rate_bps, MaxU64)
          /\ f.persistence \notin Absent => Unsigned(f.persistence, MaxU32)
      BY <3>2, <3>3, <3>4
    <3>6. f.ttl_seconds # 0 /\ f.ttl_seconds <= MaxTtl
      BY <3>2, <3>3 DEF ErrorFree, Unsigned
    <3>7. f.action = "police" => f.rate_bps \notin Absent \cup {0}
      BY <3>2, <3>3 DEF ErrorFree
    <3>8. f.confidence \notin Absent => f.confidence \in 0..10
      <4>1. q.confidence \notin Absent => q.confidence \in Int
        BY <3>2 DEF Step, Confidences
      <4> QED BY <3>2, <3>3, <3>4, <4>1 DEF ErrorFree
    <3> QED
      BY <3>1, <3>5, <3>6, <3>7, <3>8 DEF GoodStep
  <2> QED
    BY <2>2, <2>4, <2>6, <2>7, <2>9, <2>10, <2>11
<1>5. Accepts(r)
  <2>1. Readable(r)
    BY <1>4 DEF Readable
  <2>2. NamesFit(r) /\ Validates(r)
    BY <1>2, <1>4 DEF NamesFit, Validates
  <2> QED
    BY <2>1, <2>2 DEF Accepts
<1> QED
  BY <1>5 DEF r

(* What the form and the YAML view can make of a playbook is one.          *)
LEMMA EditsTyped ==
  ASSUME NEW pb \in Playbook
  PROVE  FormEdits(pb) \subseteq Playbook /\ YamlEdits(pb) \subseteq Playbook
<1>1. /\ pb.steps \in Seq(Step) /\ DOMAIN pb.steps = 1..Len(pb.steps) /\ Len(pb.steps) \in Nat
      /\ \A j \in DOMAIN pb.steps : pb.steps[j] \in Step
  <2>1. pb.steps \in Seq(Step)
    BY DEF Playbook
  <2> QED
    BY <2>1, RowOf
<1>2. \A steps \in Seq(Step) : [pb EXCEPT !.steps = steps] \in Playbook
  BY DEF Playbook
<1>3. ASSUME NEW j \in DOMAIN pb.steps, NEW s \in Step
      PROVE  [pb EXCEPT !.steps[j] = s] \in Playbook
  <2>1. [pb.steps EXCEPT ![j] = s] \in Seq(Step)
    BY <1>1, <1>3
  <2>2. [pb EXCEPT !.steps[j] = s] = [pb EXCEPT !.steps = [pb.steps EXCEPT ![j] = s]]
    BY DEF Playbook
  <2> QED
    BY <1>2, <2>1, <2>2
<1>4. EmptyStep \in Step
  BY PlaybookEditorAssumption DEF EmptyStep, Step, StepActions, Absent
<1>5. Append(pb.steps, EmptyStep) \in Seq(Step) /\ <<>> \in Seq(Step)
  BY <1>1, <1>4
<1>6. \A step \in Step, b \in BOOLEAN : StepEdits(step, b) \subseteq Step
  <2> SUFFICES ASSUME NEW step \in Step, NEW b \in BOOLEAN, NEW s \in StepEdits(step, b)
               PROVE  s \in Step
    OBVIOUS
  <2> USE PlaybookEditorAssumption DEF Step, StepActions, Absent, Confidences
  <2>1. \/ \E a \in StepActions : s = [step EXCEPT !.action = a,
             !.rate_bps = IF a = "discard" THEN Undefined ELSE IF @ \in Absent THEN DefaultRate ELSE @]
        \/ \E x \in Rates \cup {Undefined} : s = [step EXCEPT !.rate_bps = x]
        \/ \E t \in Ttls : s = [step EXCEPT !.ttl_seconds = t]
        \/ \E c \in Confidences \cup {Undefined} : s = [step EXCEPT !.confidence = c]
        \/ \E q \in Persists \cup {Undefined} : s = [step EXCEPT !.persistence = q]
    BY DEF StepEdits
  <2>2. ASSUME NEW a \in StepActions, NEW x \in Rates \cup Absent,
               s = [step EXCEPT !.action = a, !.rate_bps = x]
        PROVE  s \in Step
    BY <2>2
  <2>3. \A a : (IF a = "discard" THEN Undefined
               ELSE IF step.rate_bps \in Absent THEN DefaultRate ELSE step.rate_bps) \in Rates \cup Absent
    OBVIOUS
  <2> QED
    BY <2>1, <2>2, <2>3
<1>7. \A j \in DOMAIN pb.steps : Without(pb.steps, j) \in Seq(Step)
  BY <1>1, ListWithout DEF Without
<1>8. \A n \in Names : [pb EXCEPT !.name = n] \in Playbook
  BY DEF Playbook
<1>9. \A v \in Vectors \cup {"bogus"} : [pb EXCEPT !.vector = v] \in Playbook
  BY DEF Playbook
<1>10. FormEdits(pb) \subseteq Playbook
  <2>1. \A j \in DOMAIN pb.steps : \A s \in StepEdits(pb.steps[j], j = 1) : s \in Step
    <3> SUFFICES ASSUME NEW j \in DOMAIN pb.steps
                 PROVE  StepEdits(pb.steps[j], j = 1) \subseteq Step
      OBVIOUS
    <3>1. pb.steps[j] \in Step /\ (j = 1) \in BOOLEAN
      BY <1>1
    <3> QED
      BY <1>6, <3>1
  <2> DEFINE E1 == {[pb EXCEPT !.name = n] : n \in Names}
             E2 == {[pb EXCEPT !.vector = v] : v \in Vectors}
             E3 == IF Len(pb.steps) < MaxSteps THEN {[pb EXCEPT !.steps = Append(@, EmptyStep)]} ELSE {}
             E4 == IF Len(pb.steps) > 1
                   THEN {[pb EXCEPT !.steps = Without(@, j)] : j \in DOMAIN pb.steps} ELSE {}
             E5(j) == {[pb EXCEPT !.steps[j] = s] : s \in StepEdits(pb.steps[j], j = 1)}
  <2>2. E1 \subseteq Playbook /\ E2 \subseteq Playbook
    BY <1>8, <1>9
  <2>3. E3 \subseteq Playbook /\ E4 \subseteq Playbook
    BY <1>2, <1>5, <1>7
  <2>4. \A j \in DOMAIN pb.steps : E5(j) \subseteq Playbook
    BY <1>3, <2>1
  <2>5. FormEdits(pb) = E1 \cup E2 \cup E3 \cup E4 \cup UNION {E5(j) : j \in DOMAIN pb.steps}
    BY DEF FormEdits
  <2> HIDE DEF E1, E2, E3, E4, E5
  <2> QED
    BY <2>2, <2>3, <2>4, <2>5
<1>11. YamlEdits(pb) \subseteq Playbook
  <2>1. \A j \in DOMAIN pb.steps :
          /\ [pb.steps[j] EXCEPT !.action = "drop"] \in Step
          /\ \A t \in Ttls : [pb.steps[j] EXCEPT !.ttl_seconds = t] \in Step
          /\ \A c \in Confidences : [pb.steps[j] EXCEPT !.confidence = c] \in Step
          /\ \A q \in Persists : [pb.steps[j] EXCEPT !.persistence = q] \in Step
    BY <1>1 DEF Step
  <2>2. "unknown" \in Vectors /\ "" \in Names
    BY PlaybookEditorAssumption DEF Vectors
  <2> DEFINE E1 == {[pb EXCEPT !.vector = "bogus"], [pb EXCEPT !.vector = "unknown"],
                    [pb EXCEPT !.name = ""], [pb EXCEPT !.steps = <<>>]}
             S(j) == {[pb.steps[j] EXCEPT !.action = "drop"]}
                     \cup {[pb.steps[j] EXCEPT !.ttl_seconds = t] : t \in Ttls}
                     \cup {[pb.steps[j] EXCEPT !.confidence = c] : c \in Confidences}
                     \cup {[pb.steps[j] EXCEPT !.persistence = p] : p \in Persists}
             E2(j) == {[pb EXCEPT !.steps[j] = s] : s \in S(j)}
  <2>3. E1 \subseteq Playbook
    <3>1. [pb EXCEPT !.vector = "bogus"] \in Playbook /\ [pb EXCEPT !.vector = "unknown"] \in Playbook
      BY <1>9, <2>2
    <3>2. [pb EXCEPT !.name = ""] \in Playbook /\ [pb EXCEPT !.steps = <<>>] \in Playbook
      BY <1>2, <1>5, <1>8, <2>2
    <3> QED
      BY <3>1, <3>2, Zenon
  <2>4. \A j \in DOMAIN pb.steps : E2(j) \subseteq Playbook
    <3> SUFFICES ASSUME NEW j \in DOMAIN pb.steps, NEW q \in E2(j) PROVE q \in Playbook
      OBVIOUS
    <3>0. S(j) \subseteq Step
      <4> SUFFICES ASSUME NEW s \in S(j) PROVE s \in Step
        OBVIOUS
      <4>1. \/ s = [pb.steps[j] EXCEPT !.action = "drop"]
            \/ \E t \in Ttls : s = [pb.steps[j] EXCEPT !.ttl_seconds = t]
            \/ \E c \in Confidences : s = [pb.steps[j] EXCEPT !.confidence = c]
            \/ \E p \in Persists : s = [pb.steps[j] EXCEPT !.persistence = p]
        OBVIOUS
      <4> QED BY <2>1, <4>1
    <3> HIDE DEF S
    <3>1. PICK s \in S(j) : q = [pb EXCEPT !.steps[j] = s]
      OBVIOUS
    <3>2. s \in Step
      BY <3>0
    <3> QED
      BY <1>3, <3>1, <3>2
  <2>5. YamlEdits(pb) = E1 \cup UNION {E2(j) : j \in DOMAIN pb.steps}
    BY DEF YamlEdits
  <2> HIDE DEF E1, E2, S
  <2> QED
    BY <2>3, <2>4, <2>5
<1> QED
  BY <1>10, <1>11

(* The page's and the daemon's variables have their types, and the         *)
(* request under way is a list that is not refused once it is read.        *)
EditorInv == PlaybookTypeOK /\ SavesAreAccepted

LEMMA EditorIsSound == ConsoleSpec => []EditorInv
<1>1. ConsoleInit => EditorInv
  <2> SUFFICES ASSUME PlaybookInit PROVE EditorInv
    BY DEF ConsoleInit
  <2>1. FilePlaybooks \in Seq(Playbook) /\ Len(FilePlaybooks) \in Nat /\ MaxChanges \in Nat \ {0}
    <3>1. FilePlaybooks \in Seq(Playbook) /\ MaxChanges \in Nat \ {0}
      BY PlaybookEditorAssumption
    <3> QED
      BY <3>1, RowOf
  <2>2. save \in [at : {"idle", "out", "done", "failed"}, body : Seq(Playbook)]
    <3>1. <<>> \in Seq(Playbook)
      OBVIOUS
    <3> QED
      BY <3>1 DEF PlaybookInit
  <2>3. PlaybookTypeOK
    BY <2>1, <2>2 DEF PlaybookInit, PlaybookTypeOK
  <2>4. SavesAreAccepted
    BY DEF PlaybookInit, SavesAreAccepted
  <2> QED
    BY <2>3, <2>4 DEF EditorInv
<1>2. EditorInv /\ [ConsoleNext]_consoleVars => EditorInv'
  <2> SUFFICES ASSUME EditorInv, [PlaybookNext]_playbookVars
               PROVE  EditorInv'
    BY PageSteps
  <2>0. /\ rules \in Seq(Playbook) /\ rulesFile \in Seq(Playbook) /\ rulesDraft \in Seq(Playbook)
        /\ loadedAt \in Nat \ {0} /\ rulesEdits \in Nat /\ loadedAt + rulesEdits <= MaxChanges
        /\ lock \in Editors \cup {"none"} /\ late \subseteq Editors
        /\ got # <<>> => got[1] \in Seq(Playbook)
        /\ shown.loadedAt \in 1..loadedAt /\ shown.playbooks \in Seq(Playbook)
        /\ Len(rulesDraft) \in Nat /\ DOMAIN rulesDraft = 1..Len(rulesDraft)
        /\ formIndex \in 0..Len(rulesDraft) /\ (view = "yaml" => formIndex = 0)
        /\ save \in [at : {"idle", "out", "done", "failed"}, body : Seq(Playbook)]
        /\ MaxChanges \in Nat
    BY RowOf, PlaybookEditorAssumption DEF EditorInv, PlaybookTypeOK
  <2>1. \A i \in DOMAIN rules : rules[i] \in Playbook
    BY <2>0, RowOf
  <2>2. Yaml(shown.playbooks) \in Seq(Playbook)
    BY <2>0, RulesTyped
  (* The daemon's steps leave the draft, its view and the counts alone.    *)
  <2>3. ASSUME rules' \in Seq(Playbook), rulesFile' \in Seq(Playbook), loadedAt' \in Nat \ {0},
               loadedAt' + rulesEdits <= MaxChanges, shown.loadedAt \in 1..loadedAt',
               lock' \in Editors \cup {"none"}, late' \subseteq Editors,
               got' # <<>> => got'[1] \in Seq(Playbook),
               \/ save' = save
               \/ \E at \in {"done", "failed"} : save' = [save EXCEPT !.at = at],
               UNCHANGED <<shown, rulesEditor, rulesEdits>>
        PROVE  EditorInv'
    <3>1. save' \in [at : {"idle", "out", "done", "failed"}, body : Seq(Playbook)]
      BY <2>0, <2>3
    <3>2. SavesAreAccepted'
      <4>1. CASE save' = save
        BY <4>1 DEF EditorInv, SavesAreAccepted
      <4>2. ASSUME NEW at \in {"done", "failed"}, save' = [save EXCEPT !.at = at]
            PROVE  SavesAreAccepted'
        <5>1. save'.at # "out"
          BY <2>0, <4>2
        <5> QED
          BY <5>1 DEF SavesAreAccepted
      <4> QED
        BY <2>3, <4>1, <4>2
    <3>3. PlaybookTypeOK'
      BY <2>0, <2>3, <3>1 DEF PlaybookTypeOK, rulesEditor
    <3> QED
      BY <3>2, <3>3 DEF EditorInv
  <2>4. Changeable => loadedAt + 1 + rulesEdits <= MaxChanges /\ loadedAt + (rulesEdits + 1) <= MaxChanges
    BY <2>0 DEF Changeable
  <2>5. CASE SaveRefused
    BY <2>0, <2>3, <2>5 DEF SaveRefused, rulesDaemon
  <2>6. ASSUME NEW w \in Editors, NEW pbs \in Seq(Playbook), FileSaved(w, pbs)
        PROVE  EditorInv'
    <3>1. Received(pbs) \in Seq(Playbook)
      BY RulesTyped
    <3> QED
      BY <2>0, <2>3, <2>6, <3>1 DEF FileSaved
  <2>7. CASE PageSaved
    <3>1. save.body \in Seq(Playbook) /\ "page" \in Editors
      BY <2>0 DEF Editors
    <3> QED
      BY <2>6, <2>7, <3>1 DEF PageSaved
  <2>8. CASE RivalSaved
    <3>1. PICK i \in DOMAIN rules :
            \/ FileSaved("rival", [j \in 1..(Len(rules) - 1) |-> rules[IF j < i THEN j ELSE j + 1]])
            \/ \E v \in Vectors \ {rules[i].vector} :
                 FileSaved("rival", [rules EXCEPT ![i].vector = v])
      BY <2>8 DEF RivalSaved
    <3>2. [j \in 1..(Len(rules) - 1) |-> rules[IF j < i THEN j ELSE j + 1]] \in Seq(Playbook)
      BY <2>0, ListWithout
    <3>3. ASSUME NEW v \in Vectors
          PROVE  [rules EXCEPT ![i].vector = v] \in Seq(Playbook)
      <4>1. [rules[i] EXCEPT !.vector = v] \in Playbook
        BY <2>1 DEF Playbook
      <4>2. [rules EXCEPT ![i] = [rules[i] EXCEPT !.vector = v]] \in Seq(Playbook)
        BY <2>0, <4>1
      <4> QED
        BY <4>2
    <3>4. "rival" \in Editors
      BY DEF Editors
    <3> QED
      BY <2>6, <3>1, <3>2, <3>3, <3>4
  <2>9. ASSUME NEW w \in Editors, Swapped(w)
        PROVE  EditorInv'
    BY <2>0, <2>3, <2>9 DEF Swapped
  <2>10. ASSUME NEW w \in Editors, Stamped(w)
         PROVE  EditorInv'
    <3>1. save' = save \/ \E at \in {"done", "failed"} : save' = [save EXCEPT !.at = at]
      BY <2>10 DEF Stamped
    <3>2. loadedAt' = loadedAt + 1 /\ late' \subseteq Editors /\ Changeable
      BY <2>0, <2>10 DEF Stamped
    <3>3. UNCHANGED <<rules, rulesFile, lock, got, shown, rulesEditor, rulesEdits>>
      BY <2>10 DEF Stamped
    <3> QED
      BY <2>0, <2>3, <2>4, <3>1, <3>2, <3>3
  <2>11. CASE RulesReloaded
    BY <2>0, <2>3, <2>4, <2>11 DEF RulesReloaded
  <2>12. CASE RulesCrashed
    <3>1. save' = save \/ save' = [save EXCEPT !.at = "failed"]
      BY <2>12 DEF RulesCrashed
    <3> QED
      BY <2>0, <2>3, <2>4, <2>12, <3>1 DEF RulesCrashed
  <2>13. CASE PlaybooksRead
    BY <2>0, <2>3, <2>13 DEF PlaybooksRead, rulesDaemon
  (* And the page's leave the daemon alone, and the request unless they    *)
  (* make or end one.                                                      *)
  <2>14. ASSUME UNCHANGED rulesDaemon, got' # <<>> => got'[1] \in Seq(Playbook),
                shown'.loadedAt \in 1..loadedAt, shown'.playbooks \in Seq(Playbook),
                rulesDraft' \in Seq(Playbook), formIndex' \in 0..Len(rulesDraft'),
                view' = "yaml" => formIndex' = 0, rulesEdits' \in Nat, loadedAt + rulesEdits' <= MaxChanges,
                save' \in [at : {"idle", "out", "done", "failed"}, body : Seq(Playbook)],
                SavesAreAccepted'
         PROVE  EditorInv'
    BY <2>0, <2>14 DEF EditorInv, PlaybookTypeOK, rulesDaemon
  <2>15. UNCHANGED save => /\ save' \in [at : {"idle", "out", "done", "failed"}, body : Seq(Playbook)]
                           /\ SavesAreAccepted'
    BY <2>0 DEF EditorInv, SavesAreAccepted
  <2>16. ASSUME NEW pbs \in Seq(Playbook), NEW v, Fresh(pbs, v)
         PROVE  rulesDraft' \in Seq(Playbook) /\ formIndex' = 0 /\ formIndex' \in 0..Len(rulesDraft')
    <3>1. rulesDraft' \in Seq(Playbook) /\ formIndex' = 0
      BY <2>16, RulesTyped DEF Fresh
    <3> QED
      BY <3>1, RowOf
  <2>17. CASE PlaybooksFetched
    <3>1. PICK answer : /\ answer = [playbooks |-> got[1], loadedAt |-> loadedAt]
                        /\ shown' = answer /\ Remounted(answer)
      BY <2>17 DEF PlaybooksFetched
    <3>2. answer.playbooks \in Seq(Playbook) /\ answer.loadedAt = loadedAt
      BY <2>0, <2>17, <3>1 DEF PlaybooksFetched
    <3>3. /\ rulesDraft' \in Seq(Playbook) /\ formIndex' \in 0..Len(rulesDraft')
          /\ view = "yaml" => formIndex' = 0
      <4>1. CASE Fresh(answer.playbooks, view)
        BY <2>16, <3>2, <4>1
      <4>2. CASE UNCHANGED <<rulesDraft, formIndex>>
        BY <2>0, <4>2
      <4> QED
        BY <3>1, <4>1, <4>2 DEF Remounted
    <3> QED
      BY <2>0, <2>14, <2>15, <2>17, <3>1, <3>2, <3>3 DEF PlaybooksFetched
  <2>18. ASSUME NEW v \in {"form", "yaml"}, SetPlaybookView(v)
         PROVE  EditorInv'
    BY <2>0, <2>14, <2>15, <2>16, <2>18 DEF SetPlaybookView
  <2>19. CASE DiscardRules
    BY <2>0, <2>14, <2>15, <2>16, <2>19 DEF DiscardRules
  (* An edit makes one more, of the draft alone.                           *)
  <2>20. ASSUME EditsRules, rulesDraft' \in Seq(Playbook), formIndex' \in 0..Len(rulesDraft'),
                view = "yaml" => formIndex' = 0
         PROVE  EditorInv'
    BY <2>0, <2>4, <2>14, <2>15, <2>20 DEF EditsRules
  <2>21. CASE AddPlaybook
    <3>1. EmptyStep \in Step
      BY PlaybookEditorAssumption DEF EmptyStep, Step, StepActions, Absent
    <3>2. <<EmptyStep>> \in Seq(Step)
      BY <3>1
    <3>3. EmptyPlaybook \in Playbook
      BY <3>2, PlaybookEditorAssumption DEF EmptyPlaybook, Playbook, Vectors
    <3>4. PICK d : d = Append(rulesDraft, EmptyPlaybook)
      OBVIOUS
    <3>5. d \in Seq(Playbook) /\ Len(d) = Len(rulesDraft) + 1
      BY <2>0, <3>3, <3>4
    <3>6. rulesDraft' = d /\ formIndex' = Len(rulesDraft) + 1 /\ view = "form" /\ EditsRules
      BY <2>21, <3>4 DEF AddPlaybook
    <3> QED
      BY <2>0, <2>20, <3>5, <3>6
  <2>22. ASSUME NEW i \in DOMAIN rulesDraft, RemovePlaybook(i)
         PROVE  EditorInv'
    <3>1. rulesDraft' \in Seq(Playbook) /\ formIndex' = 0 /\ EditsRules
      BY <2>0, <2>22, ListWithout DEF RemovePlaybook, Without
    <3> QED
      BY <2>20, <3>1, RowOf
  <2>23. ASSUME NEW i \in DOMAIN rulesDraft, SetEditingIndex(i)
         PROVE  EditorInv'
    BY <2>0, <2>14, <2>15, <2>23 DEF SetEditingIndex
  <2>24. ASSUME NEW i \in DOMAIN rulesDraft, NEW pb \in Playbook,
                rulesDraft' = [rulesDraft EXCEPT ![i] = pb], EditsRules, UNCHANGED formIndex
         PROVE  EditorInv'
    <3>1. PICK d : d = [rulesDraft EXCEPT ![i] = pb]
      OBVIOUS
    <3>2. d \in Seq(Playbook) /\ Len(d) = Len(rulesDraft)
      BY <2>0, <3>1
    <3> QED
      BY <2>0, <2>20, <2>24, <3>1, <3>2
  <2>25. CASE UpdatePlaybook
    <3>1. PICK pb \in FormEdits(rulesDraft[formIndex]) : rulesDraft' = [rulesDraft EXCEPT ![formIndex] = pb]
      BY <2>25 DEF UpdatePlaybook
    <3>2. formIndex \in DOMAIN rulesDraft
      BY <2>0, <2>25 DEF UpdatePlaybook
    <3>3. pb \in Playbook
      BY <2>0, <3>1, <3>2, EditsTyped, RowOf
    <3> QED
      BY <2>24, <2>25, <3>1, <3>2, <3>3 DEF UpdatePlaybook
  <2>26. CASE SetText
    <3>1. CASE rulesDraft' = <<>>
      BY <2>0, <2>20, <2>26, <3>1 DEF SetText
    <3>2. ASSUME NEW i \in DOMAIN rulesDraft, NEW pb \in YamlEdits(rulesDraft[i]),
                 rulesDraft' = [rulesDraft EXCEPT ![i] = pb]
          PROVE  EditorInv'
      <4>1. pb \in Playbook
        BY <2>0, EditsTyped, RowOf
      <4> QED
        BY <2>24, <2>26, <3>2, <4>1 DEF SetText
    <3> QED
      BY <2>26, <3>1, <3>2 DEF SetText
  (* A list goes out only when the page's validator has nothing against it. *)
  <2>27. CASE SavePlaybooks
    <3>1. save' = [at |-> "out", body |-> rulesDraft] /\ NoErrors(rulesDraft)
      BY <2>27 DEF SavePlaybooks
    <3>2. Readable(rulesDraft) /\ NamesFit(rulesDraft) => Accepts(Received(rulesDraft))
      BY <2>0, <3>1, PageIsAsStrict
    <3>3. SavesAreAccepted'
      <4>1. PICK d : d = rulesDraft
        OBVIOUS
      <4>2. save'.body = d
        BY <3>1, <4>1
      <4>3. Readable(d) /\ NamesFit(d) => Accepts(Received(d))
        BY <3>2, <4>1
      <4> QED
        BY <4>2, <4>3 DEF SavesAreAccepted
    <3>4. save' \in [at : {"idle", "out", "done", "failed"}, body : Seq(Playbook)]
      BY <2>0, <3>1
    <3> QED
      BY <2>0, <2>14, <2>27, <3>3, <3>4 DEF SavePlaybooks, rulesEditor
  <2>28. CASE PlaybooksSaved
    <3>1. save' = [at |-> "idle", body |-> <<>>] /\ <<>> \in Seq(Playbook)
      BY <2>28 DEF PlaybooksSaved
    <3>2. save' \in [at : {"idle", "out", "done", "failed"}, body : Seq(Playbook)] /\ save'.at = "idle"
      BY <3>1
    <3>3. SavesAreAccepted'
      BY <3>2 DEF SavesAreAccepted
    <3>4. formIndex' = 0 \/ formIndex' = formIndex
      BY <2>28 DEF PlaybooksSaved
    <3> QED
      BY <2>0, <2>14, <2>28, <3>2, <3>3, <3>4 DEF PlaybooksSaved
  <2>29. CASE UNCHANGED playbookVars
    BY <2>0, <2>14, <2>15, <2>29 DEF playbookVars, rulesEditor
  <2> QED
    BY <2>5, <2>7, <2>8, <2>9, <2>10, <2>11, <2>12, <2>13, <2>17, <2>18, <2>19, <2>21, <2>22, <2>23,
       <2>25, <2>26, <2>27, <2>28, <2>29 DEF PlaybookNext
<1> QED
  BY <1>1, <1>2, PTL DEF ConsoleSpec

(* No save that the page let through and serde reads is refused by the     *)
(* daemon's validator, but for a name that is too long in bytes, whatever  *)
(* was typed, removed or switched before, for any file.                    *)
THEOREM SavesPassTheDaemon == ConsoleSpec => []SavesAreAccepted
<1>1. EditorInv => SavesAreAccepted
  BY DEF EditorInv
<1> QED
  BY <1>1, EditorIsSound, PTL

-----------------------------------------------------------------------------
(* The lists.  Filters, sorting and windows only ever drop and turn rows   *)
(* around.                                                                 *)
LEMMA PartOf ==
  ASSUME NEW S, NEW l \in Seq(S), NEW m \in Nat \ {0}, NEW n \in Nat, n <= Len(l)
  PROVE  /\ SubSeq(l, m, n) \in Seq(S) /\ (m = 1 => Len(SubSeq(l, m, n)) = n)
         /\ \A i \in DOMAIN SubSeq(l, m, n) : SubSeq(l, m, n)[i] \in S
<1>1. \A i \in m..n : l[i] \in S
  BY RowOf
<1>2. /\ SubSeq(l, m, n) \in Seq(S)
      /\ Len(SubSeq(l, m, n)) = IF m <= n THEN n - m + 1 ELSE 0
  BY <1>1, SubSeqProperties
<1>3. \A i \in DOMAIN SubSeq(l, m, n) : SubSeq(l, m, n)[i] \in S
  BY <1>2, RowOf
<1> QED
  BY <1>2, <1>3

LEMMA ReverseOf ==
  ASSUME NEW S, NEW l \in Seq(S)
  PROVE  Reverse(l) \in Seq(S) /\ Len(Reverse(l)) = Len(l)
<1>1. Len(l) \in Nat /\ \A i \in 1..Len(l) : l[i] \in S
  BY RowOf
<1>2. \A i \in 1..Len(l) : (Len(l) - i) + 1 \in 1..Len(l)
  BY <1>1
<1>3. Reverse(l) \in [1..Len(l) -> S]
  BY <1>1, <1>2 DEF Reverse
<1> QED
  BY <1>1, <1>3, ListOf

LEMMA FilteredAre ==
  ASSUME NEW S, NEW rows \in Seq(S), NEW class
  PROVE  Filtered(rows, class) \in Seq(S) /\ Len(Filtered(rows, class)) <= Len(rows)
<1>1. Passed(rows, class) \in Seq(S) /\ Len(Passed(rows, class)) <= Len(rows)
  <2>1. {i \in DOMAIN rows : class \in {All, rows[i].class}} \subseteq DOMAIN rows
    OBVIOUS
  <2> QED
    BY <2>1, PickedAre DEF Passed
<1>2. Reverse(Passed(rows, class)) \in Seq(S) /\ Len(Reverse(Passed(rows, class))) <= Len(rows)
  BY <1>1, ReverseOf
<1> QED
  BY <1>1, <1>2 DEF Filtered

(* There are no more pages than rows.                                      *)
LEMMA PagesOf ==
  ASSUME NEW S, NEW rows \in Seq(S), NEW class
  PROVE  TotalPages(rows, class) \in 0..Len(rows)
<1>1. Filtered(rows, class) \in Seq(S) /\ Len(Filtered(rows, class)) <= Len(rows)
  BY FilteredAre
<1>2. ASSUME NEW n \in Nat, NEW k \in Nat \ {0}
      PROVE  (n + k - 1) \div k \in 0..n
  <2>1. PICK q \in Int : q = (n + k - 1) \div k
    OBVIOUS
  <2>2. k * q <= n + k - 1 /\ n + k - 1 < k * q + k
    BY <2>1
  <2>3. q >= 0
    <3>1. ASSUME q <= -1 PROVE FALSE
      <4>1. k * q <= -k
        BY <3>1
      <4> QED
        BY <2>2, <4>1
    <3> QED
      BY <3>1
  <2>4. q <= n
    <3>1. ASSUME q >= n + 1 PROVE FALSE
      <4>1. k * q >= k * (n + 1)
        BY <3>1, <2>3
      <4>2. k * (n + 1) = k * n + k /\ k * n >= n
        OBVIOUS
      <4> QED
        BY <2>2, <4>1, <4>2
    <3> QED
      BY <3>1
  <2> QED
    BY <2>1, <2>3, <2>4
<1>3. Len(Filtered(rows, class)) \in Nat /\ Len(rows) \in Nat /\ ItemsPerPage \in Nat \ {0}
  BY <1>1, ListsAssumption
<1>4. TotalPages(rows, class) \in 0..Len(Filtered(rows, class))
  BY <1>2, <1>3 DEF TotalPages
<1> QED
  BY <1>1, <1>3, <1>4

(* A row's id is that of one of the n rows there are.                      *)
RowOfFirst(n) == [id : 1..n, class : Classes, status : Statuses]

(* The window is one of the table's rows.                                  *)
LEMMA WindowOf ==
  ASSUME NEW S, table \in Seq(S), NEW filters
  PROVE  /\ RowsFor(filters) \in Seq(S)
         /\ Len(RowsFor(filters)) <= Window /\ Len(RowsFor(filters)) <= Len(table)
<1>1. PICK newest \in Seq(S) : newest = Reverse(table) /\ Len(newest) = Len(table)
  BY ReverseOf
<1>2. PICK places : places = {i \in DOMAIN newest : filters = {} \/ newest[i].status \in filters}
  OBVIOUS
<1>3. places \subseteq DOMAIN newest
  BY <1>2
<1>4. Picked(newest, places) \in Seq(S) /\ Len(Picked(newest, places)) <= Len(newest)
  BY <1>3, PickedAre
<1>5. PICK wanted \in Seq(S) : wanted = Picked(newest, places) /\ Len(wanted) <= Len(table)
  BY <1>1, <1>4
<1>6. PICK n \in Nat : n = (IF Len(wanted) < Window THEN Len(wanted) ELSE Window)
  BY RowOf, ListsAssumption
<1>7. RowsFor(filters) = SubSeq(wanted, 1, n)
  BY <1>1, <1>2, <1>5, <1>6 DEF RowsFor
<1>8. n <= Len(wanted) /\ n <= Window /\ Len(wanted) \in Nat /\ Len(table) \in Nat
  BY <1>6, RowOf, ListsAssumption
<1>9. SubSeq(wanted, 1, n) \in Seq(S) /\ Len(SubSeq(wanted, 1, n)) = n
  BY <1>8, PartOf
<1> QED
  BY <1>5, <1>7, <1>8, <1>9, ListsAssumption

(* The page shown is one of at most as many as rows can be, whatever the   *)
(* filters and the effects do, and the row that is open exists.            *)
ListsInv ==
  /\ ListsTypeOK
  /\ Len(table) <= MaxRows /\ Len(listed) <= MaxRows
  /\ table \in Seq(RowOfFirst(Len(table))) /\ listed \in Seq(RowOfFirst(Len(table)))
  /\ flush = "render" => queued # 0

LEMMA ListsAreSound == ConsoleSpec => []ListsInv
<1>1. ConsoleInit => ListsInv
  <2> SUFFICES ASSUME ListsInit PROVE ListsInv
    BY DEF ConsoleInit
  <2>1. PICK e : e = <<>>
    OBVIOUS
  <2>2. e \in Seq(Row) /\ Len(e) = 0
    BY <2>1
  <2>3. e \in Seq(RowOfFirst(0))
    BY <2>1
  <2>4. table = e /\ listed = e
    BY <2>1 DEF ListsInit
  <2>5. Window \in Nat /\ MaxRows \in Nat \ {0} /\ 1 \in 1..MaxRows
    BY ListsAssumption
  <2>6. ListsTypeOK
    <3>0. /\ flush \in {"settled", "reset", "clamp", "render"} /\ queued \in 0..MaxRows
          /\ filtered \in BOOLEAN
      <4>1. queued = 0 /\ filtered \in BOOLEAN /\ flush \in {"settled", "reset"}
        BY DEF ListsInit, FirstEffect
      <4> QED
        BY <2>5, <4>1
    <3>1. Len(listed) <= Window /\ Len(table) = 0
      BY <2>2, <2>4, <2>5
    <3>2. currentPage \in 1..MaxRows /\ selectedId \in 0..Len(table)
      BY <2>5, <3>1 DEF ListsInit
    <3> QED
      BY <2>2, <2>4, <3>0, <3>1, <3>2 DEF ListsInit, ListsTypeOK, Statuses
  <2>7. Len(table) = 0 /\ Len(listed) = 0
    BY <2>2, <2>4
  <2>8. table \in Seq(RowOfFirst(Len(table))) /\ listed \in Seq(RowOfFirst(Len(table)))
    BY <2>3, <2>4, <2>7
  <2>9. flush # "render"
    BY DEF ListsInit, FirstEffect
  <2> QED
    BY <2>5, <2>6, <2>7, <2>8, <2>9 DEF ListsInv
<1>2. ListsInv /\ [ConsoleNext]_consoleVars => ListsInv'
  <2> SUFFICES ASSUME ListsInv, [ListsNext]_listVars
               PROVE  ListsInv'
    BY PageSteps
  <2> DEFINE S(n) == RowOfFirst(n)
  <2>0. /\ list \in {"mitigations", "events", "audit"} /\ statusFilters \subseteq Statuses
        /\ classFilter \in Classes \cup {All} /\ ascending \in BOOLEAN
        /\ currentPage \in 1..MaxRows /\ selectedId \in 0..Len(table)
        /\ table \in Seq(S(Len(table))) /\ listed \in Seq(S(Len(table)))
        /\ Len(listed) <= Window /\ Len(table) <= MaxRows /\ Len(listed) <= MaxRows
        /\ Len(table) \in Nat /\ Len(listed) \in Nat
        /\ MaxRows \in Nat \ {0} /\ Window \in Nat /\ ItemsPerPage \in Nat \ {0}
        /\ flush \in {"settled", "reset", "clamp", "render"} /\ queued \in 0..MaxRows
        /\ filtered \in BOOLEAN /\ (flush = "render" => queued # 0)
    BY RowOf, ListsAssumption DEF ListsInv, ListsTypeOK
  <2>1. \A n \in Nat : \A l \in Seq(S(n)) : l \in Seq(Row)
    <3> SUFFICES ASSUME NEW n \in Nat, NEW l \in Seq(S(n)) PROVE l \in Seq(Row)
      OBVIOUS
    <3>1. \A r \in S(n) : r \in Row
      BY DEF RowOfFirst, Row
    <3>2. l \in [1..Len(l) -> Row] /\ Len(l) \in Nat
      BY <3>1, RowOf
    <3> QED
      BY <3>2, ListOf
  (* One step's worth of all this.                                         *)
  <2>2. ASSUME Len(table') \in Nat, table' \in Seq(S(Len(table'))), listed' \in Seq(S(Len(table'))),
               Len(table') <= MaxRows, Len(listed') <= MaxRows, Len(listed') <= Window,
               statusFilters' \subseteq Statuses, classFilter' \in Classes \cup {All},
               ascending' \in BOOLEAN, currentPage' \in 1..MaxRows, selectedId' \in 0..Len(table'),
               flush' \in {"settled", "reset", "clamp", "render"}, queued' \in 0..MaxRows,
               filtered' \in BOOLEAN, flush' = "render" => queued' # 0,
               UNCHANGED list
        PROVE  ListsInv'
    BY <2>0, <2>1, <2>2 DEF ListsInv, ListsTypeOK
  <2>3. ASSUME NEW p \in 1..MaxRows, NEW reset \in BOOLEAN, Rendered(p, reset)
        PROVE  /\ currentPage' \in 1..MaxRows /\ filtered' \in BOOLEAN
               /\ flush' \in {"settled", "reset", "clamp"} /\ queued' \in 0..MaxRows
    BY <2>0, <2>3 DEF Rendered, FirstEffect
  <2>4. \A filters : /\ RowsFor(filters) \in Seq(S(Len(table)))
                    /\ Len(RowsFor(filters)) <= Window /\ Len(RowsFor(filters)) <= MaxRows
    <3>1. \A filters : /\ RowsFor(filters) \in Seq(S(Len(table)))
                      /\ Len(RowsFor(filters)) <= Window /\ Len(RowsFor(filters)) <= Len(table)
      BY <2>0, WindowOf
    <3> HIDE DEF S
    <3>2. \A filters : Len(RowsFor(filters)) \in Nat
      BY <3>1
    <3> QED
      BY <2>0, <3>1, <3>2
  <2> HIDE DEF S
  <2>5. ASSUME NEW class \in Classes, RowArrives(class)
        PROVE  ListsInv'
    <3>1. PICK n \in Nat : n = Len(table) /\ n + 1 <= MaxRows
      BY <2>0, <2>5 DEF RowArrives
    <3>2. \A r \in S(n) : r \in S(n + 1)
      BY DEF S, RowOfFirst
    <3>3. \A l \in Seq(S(n)) : l \in Seq(S(n + 1))
      <4> SUFFICES ASSUME NEW l \in Seq(S(n)) PROVE l \in Seq(S(n + 1))
        OBVIOUS
      <4>1. l \in [1..Len(l) -> S(n + 1)] /\ Len(l) \in Nat
        BY <3>2, RowOf
      <4> QED
        BY <4>1, ListOf
    <3>4. [id |-> n + 1, class |-> class, status |-> "active"] \in S(n + 1)
      BY DEF S, RowOfFirst, Statuses
    <3>5. PICK row \in S(n + 1) : row = [id |-> n + 1, class |-> class, status |-> "active"]
      BY <3>4
    <3>6. PICK t : t = Append(table, row)
      OBVIOUS
    <3>7. table \in Seq(S(n + 1)) /\ listed \in Seq(S(n + 1))
      BY <2>0, <3>1, <3>3
    <3>8. t \in Seq(S(n + 1)) /\ Len(t) = n + 1
      BY <3>1, <3>6, <3>7
    <3>9. table' = t
      BY <2>5, <3>1, <3>5, <3>6 DEF RowArrives
    <3> QED
      BY <2>0, <2>2, <2>5, <3>1, <3>7, <3>8, <3>9 DEF RowArrives, flushVars
  <2>6. ASSUME NEW i \in DOMAIN table, RowExpires(i)
        PROVE  ListsInv'
    <3>1. table[i] \in S(Len(table))
      BY <2>0, RowOf
    <3>2. PICK row : row = [table[i] EXCEPT !.status = "expired"]
      OBVIOUS
    <3>3. row \in S(Len(table))
      BY <3>1, <3>2 DEF S, RowOfFirst, Statuses
    <3>4. table' = [table EXCEPT ![i] = row]
      BY <2>6, <3>2 DEF RowExpires
    <3>5. table' \in Seq(S(Len(table))) /\ Len(table') = Len(table)
      BY <2>0, <3>3, <3>4
    <3> QED
      BY <2>0, <2>2, <2>6, <3>5 DEF RowExpires, flushVars
  <2>7. CASE Listed
    <3>1. listed' \in Seq(S(Len(table))) /\ Len(listed') <= MaxRows /\ Len(listed') <= Window
      BY <2>4, <2>7 DEF Listed
    <3>2. /\ currentPage' \in 1..MaxRows /\ filtered' \in BOOLEAN
          /\ flush' \in {"settled", "reset", "clamp"} /\ queued' \in 0..MaxRows
      BY <2>0, <2>3, <2>7 DEF Listed
    <3> QED
      BY <2>0, <2>2, <2>7, <3>1, <3>2 DEF Listed
  <2>8. CASE ToggleStatusFilter
    <3>1. statusFilters' \subseteq Statuses
      BY <2>8 DEF ToggleStatusFilter, Statuses
    <3>2. PICK filters : filters = statusFilters'
      OBVIOUS
    <3>3. listed' = <<>> \/ listed' = RowsFor(filters)
      BY <2>8, <3>2 DEF ToggleStatusFilter
    <3>4. listed' \in Seq(S(Len(table))) /\ Len(listed') <= MaxRows /\ Len(listed') <= Window
      <4>1. CASE listed' = <<>>
        <5>1. PICK e : e = <<>>
          OBVIOUS
        <5>2. e \in Seq(S(Len(table))) /\ Len(e) = 0
          BY <5>1
        <5> QED
          BY <2>0, <4>1, <5>1, <5>2
      <4>2. CASE listed' = RowsFor(filters)
        BY <2>4, <4>2
      <4> QED
        BY <3>3, <4>1, <4>2
    <3>5. /\ currentPage' \in 1..MaxRows /\ filtered' \in BOOLEAN
          /\ flush' \in {"settled", "reset", "clamp"} /\ queued' \in 0..MaxRows
      <4>1. Rendered(1, TRUE)
        BY <2>8 DEF ToggleStatusFilter
      <4>2. 1 \in 1..MaxRows
        BY <2>0
      <4> QED
        BY <2>3, <4>1, <4>2
    <3> QED
      BY <2>0, <2>2, <2>8, <3>1, <3>4, <3>5 DEF ToggleStatusFilter
  <2>9. CASE SetCustomerFilter \/ SetEventFilter \/ SetAuditFilter
    <3>1. NewFilter /\ (Rendered(1, TRUE) \/ Rendered(currentPage, FALSE) \/ Rendered(currentPage, TRUE))
      BY <2>9 DEF SetCustomerFilter, SetEventFilter, SetAuditFilter
    <3>2. classFilter' \in Classes \cup {All} /\ listed' = listed
      BY <3>1 DEF NewFilter
    <3>3. listed' \in Seq(S(Len(table))) /\ Len(listed') <= MaxRows
      BY <2>0, <3>2
    <3>4. 1 \in 1..MaxRows /\ currentPage \in 1..MaxRows
      BY <2>0
    <3>5. \E p \in 1..MaxRows : Rendered(p, TRUE) \/ Rendered(p, FALSE)
      BY <3>1, <3>4
    <3>6. /\ currentPage' \in 1..MaxRows /\ filtered' \in BOOLEAN
          /\ flush' \in {"settled", "reset", "clamp"} /\ queued' \in 0..MaxRows
      BY <2>3, <3>5
    <3> QED
      BY <2>0, <2>2, <3>1, <3>2, <3>3, <3>6 DEF NewFilter
  <2>10. CASE HandleSort
    <3>1. /\ currentPage' \in 1..MaxRows /\ filtered' \in BOOLEAN
          /\ flush' \in {"settled", "reset", "clamp"} /\ queued' \in 0..MaxRows
      BY <2>0, <2>3, <2>10 DEF HandleSort
    <3> QED
      BY <2>0, <2>2, <2>10, <3>1 DEF HandleSort
  <2>11. ASSUME NEW p \in 1..MaxRows, Turned(p)
         PROVE  ListsInv'
    <3>1. /\ currentPage' \in 1..MaxRows /\ filtered' \in BOOLEAN
          /\ flush' \in {"settled", "reset", "clamp"} /\ queued' \in 0..MaxRows
      BY <2>0, <2>3, <2>11 DEF Turned
    <3> QED
      BY <2>0, <2>2, <2>11, <3>1 DEF Turned
  <2>12. CASE Previous
    <3>1. currentPage - 1 \in 1..MaxRows
      BY <2>0, <2>12 DEF Previous
    <3> QED
      BY <2>11, <2>12, <3>1 DEF Previous
  <2>13. CASE NextPage
    <3>1. PICK total : total = TotalPages(listed, classFilter)
      OBVIOUS
    <3>2. total \in 0..Len(listed)
      BY <2>0, <3>1, PagesOf
    <3>3. PICK p : p = IF total < currentPage + 1 THEN total ELSE currentPage + 1
      OBVIOUS
    <3>4. total > 0 /\ Turned(p)
      BY <2>13, <3>1, <3>3 DEF NextPage
    <3>5. p \in 1..MaxRows
      BY <2>0, <3>2, <3>3, <3>4
    <3> QED
      BY <2>11, <3>4, <3>5
  (* The row that is opened is one of those on the page.                   *)
  <2>14. \A i \in DOMAIN Paginated : Paginated[i].id \in 0..Len(table)
    <3>1. PICK rows \in Seq(S(Len(table))) : rows = Filtered(listed, classFilter)
      BY <2>0, FilteredAre
    <3>2. PICK first : first = (currentPage - 1) * ItemsPerPage
      OBVIOUS
    <3>3. first \in Nat
      <4>1. currentPage - 1 \in Nat
        BY <2>0
      <4>2. \A a \in Nat, b \in Nat : a * b \in Nat
        OBVIOUS
      <4> QED
        BY <2>0, <3>2, <4>1, <4>2
    <3>4. PICK last : last = IF Len(rows) < first + ItemsPerPage THEN Len(rows) ELSE first + ItemsPerPage
      OBVIOUS
    <3>5. last \in Nat /\ last <= Len(rows) /\ first + 1 \in Nat \ {0}
      BY <2>0, <3>3, <3>4, RowOf
    <3>6. Paginated = SubSeq(rows, first + 1, last)
      BY <3>1, <3>2, <3>4 DEF Paginated
    <3>7. \A i \in DOMAIN Paginated : Paginated[i] \in S(Len(table))
      BY <3>5, <3>6, PartOf
    <3>8. \A r \in S(Len(table)) : r.id \in 0..Len(table)
      BY <2>0 DEF S, RowOfFirst
    <3> QED
      BY <3>7, <3>8
  <2>15. ASSUME NEW i, SelectEvent(i) \/ ToggleExpanded(i)
         PROVE  ListsInv'
    <3>1. selectedId' \in 0..Len(table)
      BY <2>0, <2>14, <2>15 DEF SelectEvent, ToggleExpanded
    <3> QED
      BY <2>0, <2>2, <2>15, <3>1 DEF SelectEvent, ToggleExpanded, flushVars
  <2>16. CASE CloseEvent
    BY <2>0, <2>2, <2>16 DEF CloseEvent, flushVars
  <2>17. CASE UNCHANGED listVars
    BY <2>0, <2>2, <2>17 DEF listVars, flushVars
  <2>18. CASE ResetEffect
    BY <2>0, <2>2, <2>18 DEF ResetEffect
  <2>19. CASE ClampEffect
    <3>1. PICK total : total = TotalPages(listed, classFilter)
      OBVIOUS
    <3>2. total \in 0..MaxRows
      <4>1. total \in 0..Len(listed)
        BY <2>0, <3>1, PagesOf
      <4> QED
        BY <2>0, <4>1
    <3>3. queued' = (IF total > 0 /\ currentPage > total THEN total ELSE queued)
          /\ flush' = (IF queued' = 0 THEN "settled" ELSE "render")
      BY <2>19, <3>1 DEF ClampEffect
    <3> QED
      BY <2>0, <2>2, <2>19, <3>2, <3>3 DEF ClampEffect
  <2>20. CASE Rerender
    BY <2>0, <2>2, <2>20 DEF Rerender
  <2> QED
    BY <2>5, <2>6, <2>7, <2>8, <2>9, <2>10, <2>12, <2>13, <2>15, <2>16, <2>17, <2>18, <2>19, <2>20
       DEF ListsNext
<1> QED
  BY <1>1, <1>2, PTL DEF ConsoleSpec

(* Whatever the two effects set stays at an end of the list: where neither *)
(* is due nor anything set, the page is one that there is, and if the last *)
(* event was a new filter it is the first or the last.                     *)
Ends ==
  LET total == TotalPages(listed, classFilter) IN
  list # "events" =>
    /\ flush = "settled" => /\ total > 0 => currentPage <= total
                            /\ filtered => currentPage \in {1, total}
    /\ flush = "reset" => queued = 0
    /\ flush = "clamp" => queued \in {0, 1} /\ (queued = 0 /\ filtered => currentPage \in {1, total})
    /\ flush = "render" => queued \in {1, total}

THEOREM FiltersTurnToAnEnd == ConsoleSpec => []FilterTurnsToAnEnd
<1>1. ConsoleInit => Ends
  BY DEF ConsoleInit, ListsInit, FirstEffect, Ends
<1>2. ListsInv /\ Ends /\ [ConsoleNext]_consoleVars => Ends'
  <2> SUFFICES ASSUME ListsInv, Ends, [ListsNext]_listVars
               PROVE  Ends'
    BY PageSteps
  <2>0. PICK total \in Nat : total = TotalPages(listed, classFilter)
    <3>1. TotalPages(listed, classFilter) \in 0..Len(listed) /\ Len(listed) \in Nat
      BY PagesOf, RowOf DEF ListsInv
    <3> QED
      BY <3>1
  <2>1. /\ list' = list /\ currentPage \in Nat \ {0} /\ queued \in Nat
        /\ list # "events" =>
             /\ flush = "settled" => /\ total > 0 => currentPage <= total
                                     /\ filtered => currentPage \in {1, total}
             /\ flush = "reset" => queued = 0
             /\ flush = "clamp" => queued \in {0, 1} /\ (queued = 0 /\ filtered => currentPage \in {1, total})
             /\ flush = "render" => queued \in {1, total}
    <3>1. list' = list
      BY DEF ListsNext, RowArrives, RowExpires, Listed, ToggleStatusFilter, SetCustomerFilter, NewFilter,
         SetEventFilter, SetAuditFilter, HandleSort, Previous, NextPage, Turned, ResetEffect, ClampEffect,
         Rerender, SelectEvent, ToggleExpanded, CloseEvent, listVars
    <3>2. currentPage \in Nat \ {0} /\ queued \in Nat
      BY ListsAssumption DEF ListsInv, ListsTypeOK
    <3> QED
      BY <2>0, <3>1, <3>2 DEF Ends
  (* A new filter is followed by the reset, every other event by the clamp. *)
  <2>2. ASSUME NEW p, NEW new \in BOOLEAN, Rendered(p, new)
        PROVE  Ends'
    <3>1. list # "events" => /\ queued' = 0 /\ filtered' = new
                             /\ flush' = (IF new THEN "reset" ELSE "clamp")
      BY <2>1, <2>2 DEF Rendered, FirstEffect
    <3> QED
      BY <2>1, <3>1 DEF Ends
  <2>3. CASE Listed \/ ToggleStatusFilter \/ SetCustomerFilter \/ SetEventFilter \/ SetAuditFilter
             \/ HandleSort \/ Previous \/ NextPage
    BY <2>2, <2>3 DEF Listed, ToggleStatusFilter, SetCustomerFilter, SetEventFilter, SetAuditFilter,
       HandleSort, Previous, NextPage, Turned
  <2>4. ASSUME UNCHANGED <<listed, classFilter, ascending>>
        PROVE  TotalPages(listed, classFilter)' = total
    BY <2>0, <2>4 DEF TotalPages, Filtered
  <2>5. ASSUME UNCHANGED <<listed, classFilter, ascending, currentPage, flushVars>>
        PROVE  Ends'
    BY <2>1, <2>4, <2>5 DEF Ends, flushVars
  <2>6. CASE \/ \E class \in Classes : RowArrives(class)
             \/ \E i \in DOMAIN table : RowExpires(i)
             \/ \E i \in 1..ItemsPerPage : SelectEvent(i) \/ ToggleExpanded(i)
             \/ CloseEvent \/ UNCHANGED listVars
    BY <2>5, <2>6 DEF RowArrives, RowExpires, SelectEvent, ToggleExpanded, CloseEvent, listVars
  <2>7. CASE ResetEffect
    <3>1. flush' = "clamp" /\ queued' = 1
      BY <2>7 DEF ResetEffect
    <3> QED
      BY <3>1 DEF Ends
  <2>8. CASE ClampEffect
    <3>1. /\ flush = "clamp" /\ UNCHANGED <<currentPage, filtered>>
          /\ queued' = (IF total > 0 /\ currentPage > total THEN total ELSE queued)
          /\ flush' = (IF queued' = 0 THEN "settled" ELSE "render")
          /\ TotalPages(listed, classFilter)' = total
      BY <2>0, <2>4, <2>8 DEF ClampEffect
    <3> QED
      BY <2>1, <3>1 DEF Ends
  <2>9. CASE Rerender
    <3>1. /\ flush = "render" /\ currentPage' = queued /\ queued' = 0 /\ filtered' = filtered
          /\ flush' = (IF queued = currentPage THEN "settled" ELSE "clamp")
          /\ TotalPages(listed, classFilter)' = total
      BY <2>4, <2>9 DEF Rerender
    <3> QED
      BY <2>1, <3>1 DEF Ends
  <2> QED
    BY <2>3, <2>6, <2>7, <2>8, <2>9 DEF ListsNext
<1>3. Ends => FilterTurnsToAnEnd
  BY DEF Ends, FilterTurnsToAnEnd
<1> QED
  BY <1>1, <1>2, <1>3, ListsAreSound, PTL DEF ConsoleSpec

-----------------------------------------------------------------------------
(* The types of what acts on mitigations, beyond what WithdrawalsInv says  *)
(* of its requests: the dialog of a submission that is waited for is open, *)
(* so no other one is.                                                     *)
Submissions ==
  [at : {"idle", "out", "done", "accepted", "failed"}, of : Mitigations \cup {Nobody}, left : BOOLEAN]
FormsTyped ==
  /\ withdrawError \in BOOLEAN /\ formError \in BOOLEAN /\ form \in {"empty", "valid", "invalid"}
  /\ withdrawTarget # Nobody => ~mitigateNowOpen
  /\ submission \in Submissions /\ (submission.at = "done" => submission.of \in Mitigations)
  /\ submission.at # "idle" /\ ~submission.left => mitigateNowOpen
PagesTyped ==
  /\ status \in [Mitigations -> {"none", "live", "gone"}] /\ snapshot \subseteq Mitigations
  /\ page \in Mitigations \cup {"list", "elsewhere"}

(* What a visit to another page leaves of it.                              *)
LEMMA VisitTyped ==
  ASSUME PagesTyped, NEW p \in Mitigations \cup {"list", "elsewhere"}, Visit(p),
         UNCHANGED <<status, snapshot>>,
         submission'.at # "done" \/ submission'.of \in Mitigations,
         submission'.at = "idle" \/ submission'.left, submission' \in Submissions
  PROVE  FormsTyped' /\ PagesTyped'
<1>1. PagesTyped'
  BY DEF PagesTyped, Visit
<1>2. FormsTyped'
  BY DEF FormsTyped, Visit
<1> QED
  BY <1>1, <1>2

LEMMA MarkedSubmission ==
  ASSUME NEW s \in Submissions, NEW at \in {"idle", "out", "done", "accepted", "failed"}
  PROVE  /\ [s EXCEPT !.at = at] \in Submissions
         /\ [s EXCEPT !.at = at].at = at /\ [s EXCEPT !.at = at].left = s.left
  BY DEF Submissions
LEMMA DoneSubmission ==
  ASSUME NEW s \in Submissions, NEW m \in Mitigations
  PROVE  /\ [s EXCEPT !.at = "done", !.of = m] \in Submissions
         /\ [s EXCEPT !.at = "done", !.of = m].of = m
         /\ [s EXCEPT !.at = "done", !.of = m].left = s.left
  BY DEF Submissions
LEMMA LeftSubmission ==
  ASSUME NEW s \in Submissions
  PROVE  /\ [s EXCEPT !.left = TRUE] \in Submissions /\ [s EXCEPT !.left = TRUE].left
         /\ [s EXCEPT !.left = TRUE].at = s.at /\ [s EXCEPT !.left = TRUE].of = s.of
  BY DEF Submissions
LEMMA NewSubmission ==
  /\ NoSubmission \in Submissions /\ NoSubmission.at = "idle" /\ ~NoSubmission.left
  /\ [NoSubmission EXCEPT !.at = "out"] \in Submissions
  /\ [NoSubmission EXCEPT !.at = "out"].at = "out"
  BY DEF Submissions, NoSubmission

LEMMA WithdrawalsAreTyped == ConsoleSpec => [](FormsTyped /\ PagesTyped)
<1> USE WithdrawalsAssumption
<1>1. ConsoleInit => FormsTyped /\ PagesTyped
  <2> SUFFICES ASSUME WithdrawalsInit PROVE FormsTyped /\ PagesTyped
    BY DEF ConsoleInit
  <2>1. FormsTyped
    BY NewSubmission DEF WithdrawalsInit, FormsTyped
  <2> QED
    BY <2>1 DEF WithdrawalsInit, PagesTyped
<1>2. FormsTyped /\ PagesTyped /\ [ConsoleNext]_consoleVars => FormsTyped' /\ PagesTyped'
  <2> SUFFICES ASSUME FormsTyped, PagesTyped, [WithdrawalsNext]_withdrawalVars
               PROVE  FormsTyped' /\ PagesTyped'
    BY PageSteps
  <2> USE DEF FormsTyped
  <2>1. LiveNow \subseteq Mitigations
    BY DEF LiveNow
  <2>2. ASSUME NEW m, NEW reason, Withdraws(m, reason), UNCHANGED <<page, snapshot>>
        PROVE  PagesTyped'
    BY <2>2 DEF Withdraws, PagesTyped
  <2>3. ASSUME UNCHANGED <<status, page, snapshot>>
        PROVE  PagesTyped'
    BY <2>3 DEF PagesTyped
  <2>4. CASE WithdrawServed
    <3>1. Withdraws(withdrawal.of, withdrawal.reason) \/ UNCHANGED status
      BY <2>4 DEF WithdrawServed
    <3> QED
      BY <2>2, <2>3, <2>4, <3>1 DEF WithdrawServed, mitigateDialog
  <2>5. CASE StrayServed
    <3>1. \E w \in stray : Withdraws(w.of, w.reason) \/ UNCHANGED status
      BY <2>5 DEF StrayServed
    <3> QED
      BY <2>2, <2>3, <2>5, <3>1 DEF StrayServed, mitigateDialog
  <2>6. CASE SubmissionServed
    <3>0. /\ status' = status \/ \E m \in Mitigations : status' = [status EXCEPT ![m] = "live"]
          /\ \/ \E at \in {"failed", "accepted"} : submission' = [submission EXCEPT !.at = at]
             \/ \E m \in Mitigations : submission' = [submission EXCEPT !.at = "done", !.of = m]
      BY <2>6 DEF SubmissionServed
    <3>1. status' = status \/ \E m \in Mitigations : status' = [status EXCEPT ![m] = "live"]
      BY <3>0
    <3>2. submission' \in Submissions /\ submission'.left = submission.left
          /\ (submission'.at = "done" => submission'.of \in Mitigations)
      <4>0. PICK s \in Submissions : s = submission
        OBVIOUS
      <4>1. ASSUME NEW at \in {"failed", "accepted"}, submission' = [submission EXCEPT !.at = at]
            PROVE  submission' \in Submissions /\ submission'.left = s.left /\ submission'.at = at
        <5>1. submission' = [s EXCEPT !.at = at]
          BY <4>0, <4>1
        <5>2. [s EXCEPT !.at = at] \in Submissions /\ [s EXCEPT !.at = at].at = at
              /\ [s EXCEPT !.at = at].left = s.left
          <6>1. at \in {"idle", "out", "done", "accepted", "failed"}
            OBVIOUS
          <6> QED
            BY <6>1, MarkedSubmission
        <5> QED
          BY <5>1, <5>2
      <4>2. ASSUME NEW m \in Mitigations, submission' = [submission EXCEPT !.at = "done", !.of = m]
            PROVE  submission' \in Submissions /\ submission'.left = s.left /\ submission'.of = m
        <5>1. submission' = [s EXCEPT !.at = "done", !.of = m]
          BY <4>0, <4>2
        <5> QED
          BY <5>1, DoneSubmission
      <4> QED
        BY <3>0, <4>0, <4>1, <4>2
    <3>3. UNCHANGED <<page, snapshot, withdrawTarget, withdrawError, mitigateNowOpen, form, formError>>
          /\ submission.at = "out"
      BY <2>6 DEF SubmissionServed, withdrawDialog
    <3>4. PagesTyped'
      BY <3>1, <3>3 DEF PagesTyped
    <3>5. FormsTyped'
      BY <3>2, <3>3
    <3> QED
      BY <3>4, <3>5
  <2>7. CASE MitigationsFetched \/ \E m \in Mitigations : GoesAway(m)
    BY <2>1, <2>7 DEF MitigationsFetched, GoesAway, PagesTyped, withdrawDialog, mitigateDialog
  <2>8. ASSUME NEW m \in Mitigations, OpenWithdraw(m) \/ ShowWithdrawDialog(m)
        PROVE  FormsTyped' /\ PagesTyped'
    BY <2>3, <2>8 DEF OpenWithdraw, ShowWithdrawDialog, OpensAbout, mitigateDialog
  <2>9. ASSUME NEW p \in {"list", "elsewhere"} \cup LiveNow, Navigate(p)
        PROVE  FormsTyped' /\ PagesTyped'
    <3>1. p \in Mitigations \cup {"list", "elsewhere"}
      BY <2>1, <2>9
    <3>2. /\ submission' \in Submissions /\ (submission'.at = "done" => submission'.of \in Mitigations)
          /\ submission'.at = "idle" \/ submission'.left
      <4>1. CASE submission' = submission /\ submission.at = "idle"
        BY <4>1
      <4>2. CASE submission' = [submission EXCEPT !.left = TRUE]
        <5>1. PICK s \in Submissions : s = submission
          OBVIOUS
        <5>2. submission' = [s EXCEPT !.left = TRUE]
          BY <4>2, <5>1
        <5>3. submission' \in Submissions /\ submission'.at = s.at /\ submission'.of = s.of /\ submission'.left
          BY <5>2, LeftSubmission
        <5> QED
          BY <5>1, <5>3
      <4> QED
        BY <2>9, <4>1, <4>2 DEF Navigate
    <3> QED
      BY <2>9, <3>1, <3>2, VisitTyped DEF Navigate
  <2>10. CASE CancelWithdraw \/ HandleWithdraw
    BY <2>3, <2>10 DEF CancelWithdraw, DialogCloses, HandleWithdraw, mitigateDialog
  <2>11. CASE \E r \in Reasons : TypeReason(r)
    BY <2>3, <2>11 DEF TypeReason, mitigateDialog
  <2>12. CASE WithdrawEnds
    BY <2>1, <2>12 DEF WithdrawEnds, PagesTyped, mitigateDialog
  <2>13. CASE OpenMitigateNow \/ FillForm
    BY <2>3, <2>13 DEF OpenMitigateNow, FillForm, withdrawDialog
  <2>14. CASE CloseMitigateNow
    BY <2>3, <2>14 DEF CloseMitigateNow, IsSubmitting, withdrawDialog
  <2>15. CASE HandleSubmit
    <3>1. submission' \in Submissions /\ submission'.at = "out" /\ mitigateNowOpen'
      BY <2>15, NewSubmission DEF HandleSubmit
    <3> QED
      BY <2>3, <2>15, <3>1 DEF HandleSubmit, withdrawDialog
  <2>16. CASE SubmitEnds
    <3>1. submission' \in Submissions /\ submission'.at = "idle"
      BY <2>16, NewSubmission DEF SubmitEnds
    <3>2. CASE submission.at = "done" /\ submission.of # page
      BY <2>16, <3>1, <3>2, VisitTyped DEF SubmitEnds
    <3>3. CASE ~(submission.at = "done" /\ submission.of # page)
      <4>1. UNCHANGED <<status, page, snapshot, withdrawTarget, withdrawError>>
        BY <2>16, <3>3 DEF SubmitEnds, withdrawDialog
      <4>2. \/ UNCHANGED <<mitigateNowOpen, form, formError>>
            \/ /\ ~submission.left /\ formError' \in BOOLEAN /\ form' \in {form, "empty"}
        BY <2>16, <3>3 DEF SubmitEnds
      <4>3. submission.at # "idle"
        BY <2>16 DEF SubmitEnds
      <4> QED
        BY <2>3, <3>1, <4>1, <4>2, <4>3
    <3> QED
      BY <3>2, <3>3
  <2>17. CASE UNCHANGED withdrawalVars
    BY <2>3, <2>17 DEF withdrawalVars, withdrawDialog, mitigateDialog
  <2> QED
    BY <2>4, <2>5, <2>6, <2>7, <2>8, <2>9, <2>10, <2>11, <2>12, <2>13, <2>14, <2>15, <2>16, <2>17
       DEF WithdrawalsNext
<1> QED
  BY <1>1, <1>2, PTL DEF ConsoleSpec

(* The admin page's.                                                       *)
CallsTyped ==
  /\ \A c \in calls : /\ c.op = "create" => c.of.name \in Usernames
                      /\ c.op \in {"add", "remove"} => c.of.name \in SafePrefixes
  /\ called \in 0..MaxCalls
TablesTyped ==
  /\ lastId \in 0..MaxIds /\ accounts \subseteq [id : 1..MaxIds, name : AccountNames]
  /\ safelist \subseteq SafePrefixes /\ safelisted \subseteq SafePrefixes /\ changed \subseteq 1..MaxIds
AdminFormsTyped ==
  /\ adminDialog.kind \in {"none", "create", "password", "delete"}
  /\ adminDialog.kind = "delete" => adminDialog.of \in operators
  /\ newUserPassword \in BOOLEAN
AdminTyped == CallsTyped /\ TablesTyped /\ AdminFormsTyped

LEMMA AdminBounds ==
  MaxCalls \in Nat /\ MaxIds \in Nat /\ MaxIds >= 2
<1>1. MaxCalls \in Nat /\ MaxIds \in Nat \ {0, 1}
  BY AdminAssumption
<1> QED
  BY <1>1

LEMMA ClosedTyped == Closed.kind = "none" /\ Closed.kind # "delete"
  BY DEF Closed

LEMMA AnswerTyped ==
  ASSUME CallsTyped, AdminInv, NEW c \in calls, NEW at \in {"checked", "done", "unread", "failed"},
         calls' \subseteq (calls \ {c}) \cup {[c EXCEPT !.at = at]}, UNCHANGED called
  PROVE  CallsTyped'
<1>1. c \in Call
  BY DEF AdminInv
<1>2. [c EXCEPT !.at = at].op = c.op /\ [c EXCEPT !.at = at].of = c.of
  BY <1>1 DEF Call
<1> QED
  BY <1>2 DEF CallsTyped

LEMMA SendTyped ==
  ASSUME CallsTyped, NEW by, NEW op, NEW of, Sends(by, op, of),
         op = "create" => of.name \in Usernames, op \in {"add", "remove"} => of.name \in SafePrefixes
  PROVE  CallsTyped'
<1> DEFINE sent == [by |-> by, op |-> op, of |-> of, at |-> "sent"]
<1>1. sent.op = op /\ sent.of = of
  OBVIOUS
<1>2. calls' = calls \cup {sent}
  BY DEF Sends
<1>3. called' \in 0..MaxCalls
  BY AdminBounds DEF Sends, CallsTyped
<1> HIDE DEF sent
<1> QED
  BY <1>1, <1>2, <1>3 DEF CallsTyped

LEMMA AdminIsTyped == ConsoleSpec => []AdminTyped
<1> USE AdminBounds
<1>1. ConsoleInit => AdminTyped
  <2> SUFFICES ASSUME AdminInit PROVE AdminTyped
    BY DEF ConsoleInit
  <2>1. TablesTyped
    <3>1. 2 \in 0..MaxIds /\ 1 \in 1..MaxIds /\ 2 \in 1..MaxIds
      OBVIOUS
    <3>2. Admins \subseteq [id : 1..MaxIds, name : AccountNames]
      BY <3>1 DEF Admins, AccountNames
    <3> QED
      BY <3>1, <3>2 DEF AdminInit, TablesTyped
  <2>2. AdminFormsTyped
    BY ClosedTyped DEF AdminInit, AdminFormsTyped
  <2>3. calls = {} /\ called \in 0..MaxCalls
    <3>1. calls = {} /\ called = 0
      BY DEF AdminInit
    <3> QED
      BY <3>1
  <2> QED
    BY <2>1, <2>2, <2>3 DEF AdminTyped, CallsTyped
<1>2. AdminTyped /\ AdminInv /\ [ConsoleNext]_consoleVars => AdminTyped'
  <2> SUFFICES ASSUME AdminTyped, AdminInv, [AdminNext]_adminVars
               PROVE  AdminTyped'
    BY PageSteps
  <2>0. CallsTyped /\ TablesTyped /\ AdminFormsTyped
    BY DEF AdminTyped
  <2>1. ASSUME UNCHANGED adminForms, operators' = operators PROVE AdminFormsTyped'
    BY <2>0, <2>1 DEF AdminFormsTyped, adminForms
  <2>2. ASSUME UNCHANGED <<lastId, accounts, safelist, safelisted, changed>> PROVE TablesTyped'
    BY <2>0, <2>2 DEF TablesTyped
  <2>3. ASSUME NEW c \in calls, CallFails(c) \/ Looked(c) \/ ReloadServed(c) PROVE AdminTyped'
    <3>1. CallsTyped'
      BY <2>0, <2>3, AnswerTyped DEF CallFails, Looked, ReloadServed, Answer
    <3> QED
      BY <2>1, <2>2, <2>3, <3>1 DEF CallFails, Looked, ReloadServed, AdminTyped, adminPage
  <2>4. ASSUME NEW c \in calls, Created(c) PROVE AdminTyped'
    <3>1. PICK at \in {"done", "failed"} : Answer(c, at)
      BY <2>4 DEF Created
    <3>2. CallsTyped'
      BY <2>0, <2>4, <3>1, AnswerTyped DEF Created, Answer
    <3>3. c.of.name \in AccountNames
      BY <2>0, <2>4 DEF CallsTyped, Created, AccountNames
    <3>4. lastId + 1 \in 1..MaxIds
      BY <2>0, <2>4 DEF TablesTyped, Created
    <3>5. TablesTyped'
      BY <2>0, <2>4, <3>3, <3>4 DEF TablesTyped, Created, adminPage
    <3> QED
      BY <2>1, <2>4, <3>2, <3>5 DEF Created, AdminTyped, adminPage
  <2>5. ASSUME NEW c \in calls, Deleted(c) \/ PasswordSet(c) \/ SafelistWritten(c) PROVE AdminTyped'
    <3>1. Answer(c, "unread")
      BY <2>5 DEF Deleted, PasswordSet, SafelistWritten
    <3>2. CallsTyped'
      BY <2>0, <2>5, <3>1, AnswerTyped DEF Deleted, PasswordSet, SafelistWritten, Answer
    <3>3. TablesTyped'
      <4>1. CASE Deleted(c)
        BY <2>0, <4>1 DEF Deleted, TablesTyped, adminPage
      <4>2. CASE PasswordSet(c)
        BY <2>0, <4>2 DEF PasswordSet, Target, TablesTyped, adminPage
      <4>3. CASE SafelistWritten(c)
        BY <2>0, <4>3 DEF SafelistWritten, TablesTyped, CallsTyped, adminPage
      <4> QED
        BY <2>5, <4>1, <4>2, <4>3
    <3> QED
      BY <2>1, <2>5, <3>2, <3>3 DEF Deleted, PasswordSet, SafelistWritten, AdminTyped, adminPage
  <2>6. ASSUME NEW c \in calls, Handled(c) PROVE AdminTyped'
    <3>0. safelisted' = safelisted \/ safelisted' = safelist
      BY <2>6 DEF Handled
    <3>1. /\ calls' \subseteq calls
          /\ UNCHANGED <<lastId, accounts, safelist, changed, called, newUserPassword>>
          /\ \/ adminDialog' = Closed
             \/ adminDialog' = adminDialog /\ operators' = operators
             \/ adminDialog' = adminDialog /\ (adminDialog.kind = "delete" => adminDialog.of \in operators')
      BY <2>6 DEF Handled
    <3>2. CallsTyped' /\ TablesTyped'
      BY <2>0, <3>0, <3>1 DEF CallsTyped, TablesTyped
    <3>3. AdminFormsTyped'
      BY <2>0, <3>1, ClosedTyped DEF AdminFormsTyped
    <3> QED
      BY <3>2, <3>3 DEF AdminTyped
  <2>7. CASE OperatorsFetched \/ SafelistFetched \/ OpenDialog \/ CloseDialog \/ TypeUser
    <3>1. CallsTyped' /\ TablesTyped'
      BY <2>0, <2>7 DEF CallsTyped, TablesTyped, OperatorsFetched, SafelistFetched, OpenDialog, CloseDialog,
         TypeUser, adminDaemon
    <3>2. AdminFormsTyped'
      <4>1. CASE OperatorsFetched
        BY <2>0, <4>1, ClosedTyped DEF AdminFormsTyped, OperatorsFetched
      <4>2. CASE OpenDialog
        BY <2>0, <4>2 DEF AdminFormsTyped, OpenDialog
      <4>3. CASE SafelistFetched \/ CloseDialog \/ TypeUser
        BY <2>0, <4>3, ClosedTyped DEF AdminFormsTyped, SafelistFetched, CloseDialog, TypeUser, adminForms
      <4> QED
        BY <2>7, <4>1, <4>2, <4>3
    <3> QED
      BY <3>1, <3>2 DEF AdminTyped
  <2>8. CASE ClientCalls
    <3>1. CallsTyped'
      BY <2>0, <2>8, SendTyped DEF ClientCalls
    <3> QED
      BY <2>1, <2>2, <2>8, <3>1 DEF ClientCalls, AdminTyped, adminPage
  <2>9. CASE HandleCreateUser
    <3>1. newUsername \in Usernames
      BY <2>9 DEF HandleCreateUser, AdminInv
    <3>2. CallsTyped'
      BY <2>0, <2>9, <3>1, SendTyped DEF HandleCreateUser
    <3> QED
      BY <2>1, <2>2, <2>9, <3>2 DEF HandleCreateUser, AdminTyped, adminForms
  <2>10. CASE HandleChangePassword \/ HandleDeleteUser \/ HandleReloadConfig
    <3>1. CallsTyped'
      BY <2>0, <2>10, SendTyped DEF HandleChangePassword, HandleDeleteUser, HandleReloadConfig
    <3>2. AdminFormsTyped'
      BY <2>0, <2>10, ClosedTyped DEF AdminFormsTyped, HandleChangePassword, HandleDeleteUser,
         HandleReloadConfig, adminForms
    <3> QED
      BY <2>2, <2>10, <3>1, <3>2 DEF HandleChangePassword, HandleDeleteUser, HandleReloadConfig, AdminTyped
  <2>11. ASSUME NEW p \in SafePrefixes, HandleAddSafelist(p) \/ HandleRemoveSafelist(p)
         PROVE  AdminTyped'
    <3>1. CallsTyped'
      BY <2>0, <2>11, SendTyped DEF HandleAddSafelist, HandleRemoveSafelist
    <3> QED
      BY <2>1, <2>2, <2>11, <3>1 DEF HandleAddSafelist, HandleRemoveSafelist, AdminTyped, adminForms
  <2>12. CASE UNCHANGED adminVars
    BY <2>0, <2>1, <2>2, <2>12 DEF adminVars, adminDaemon, adminPage, AdminTyped, CallsTyped
  <2> QED
    BY <2>3, <2>4, <2>5, <2>6, <2>7, <2>8, <2>9, <2>10, <2>11, <2>12 DEF AdminNext
<1> QED
  BY <1>1, <1>2, AdminIsSound, PTL DEF ConsoleSpec

(* What a page was asked for is something links ask of it, and Admin is    *)
(* reached by its own link alone.                                          *)
LEMMA LinksAsk ==
  /\ \A p \in Paths : "nothing" \in Asks(p)
  /\ \A to \in Commands : to[1] \in Paths \ {"/admin"} /\ to[2] \in Asks(to[1])
  /\ \A p \in Paths : \A to \in PageLinks(p) : to[1] \in Paths \ {"/admin"} /\ to[2] \in Asks(to[1])
  /\ "mitigate" \in Asks("/mitigations") /\ "one" \in Asks("/ip-history")
  /\ Lettered \subseteq Paths \ {"/admin"} /\ NavPaths \subseteq Paths
<1> USE DEF Paths, NavPaths, OwnPages, Lettered
<1>1. \A p \in Paths : "nothing" \in Asks(p)
  BY DEF Asks
<1>2. /\ {"nothing", "mitigate", "one"} \subseteq Asks("/mitigations")
      /\ "one" \in Asks("/events") /\ "one" \in Asks("/ip-history")
  BY DEF Asks
<1>3. \A to \in Commands : to[1] \in Paths \ {"/admin"} /\ to[2] \in Asks(to[1])
  BY <1>1, <1>2 DEF Commands
<1>4. \A p \in Paths : \A to \in PageLinks(p) : to[1] \in Paths \ {"/admin"} /\ to[2] \in Asks(to[1])
  BY <1>1, <1>2 DEF PageLinks
<1> QED
  BY <1>1, <1>2, <1>3, <1>4

LEMMA ShellIsTyped == ConsoleSpec => []ShellTypeOK
<1> USE ShellAssumption
<1>0. "/admin" \in Paths /\ "/" \in Paths
  BY DEF Paths, NavPaths
<1>1. ConsoleInit => ShellTypeOK
  <2> SUFFICES ASSUME ShellInit PROVE ShellTypeOK
    BY DEF ConsoleInit
  <2>1. "nothing" \in Asks("/") /\ 0 \in 0..MaxKeys
    BY <1>0, LinksAsk
  <2> QED
    BY <1>0, <2>1 DEF ShellInit, ShellTypeOK
<1>2. ShellTypeOK /\ [ConsoleNext]_consoleVars => ShellTypeOK'
  <2> SUFFICES ASSUME ShellTypeOK, [ShellNext]_shellVars
               PROVE  ShellTypeOK'
    BY PageSteps
  <2> DEFINE FlagsOK == {isAdmin, paletteOpen, helpOpen, sidebarOpen, sidebarCollapsed, remembered,
                         gPressed, gTimeout, typing} \subseteq BOOLEAN
             UrlOK == /\ path \in Paths /\ ask \in Asks(path) /\ taken \in Asks(path)
                      /\ path = "/admin" => isAdmin
  <2> USE DEF prefixVars, urlVars, overlays, sidebarVars
  <2>0. FlagsOK /\ UrlOK /\ (paletteOpen => typing) /\ keys \in 0..MaxKeys
    BY DEF ShellTypeOK
  <2>1. ASSUME NEW p, NEW a, NEW pressed \in BOOLEAN, Push(p, a, pressed),
               p \in Paths, a \in Asks(p), p = "/admin" => isAdmin, sidebarOpen' \in BOOLEAN,
               keys' \in 0..MaxKeys
        PROVE  ShellTypeOK'
    BY <2>0, <2>1 DEF Push, Mounts, Rerendered, ShellTypeOK
  <2>2. ASSUME Stays, keys' \in 0..MaxKeys, paletteOpen' => typing',
               {paletteOpen', helpOpen', sidebarOpen', sidebarCollapsed', remembered',
                gPressed', gTimeout', typing'} \subseteq BOOLEAN
        PROVE  ShellTypeOK'
    BY <2>0, <2>2 DEF Stays, ShellTypeOK
  <2>3. ASSUME KeyDown PROVE keys' \in 0..MaxKeys
    BY <2>0, <2>3 DEF KeyDown
  <2>4. CASE KeyPalette \/ SearchClick
    BY <2>0, <2>2, <2>3, <2>4 DEF KeyPalette, SearchClick, OpenPalette, Rerendered
  <2>5. CASE KeyHelp \/ KeyG
    BY <2>0, <2>2, <2>3, <2>5 DEF KeyHelp, KeyG, Rerendered
  <2>6. CASE KeySidebar \/ CollapseClick
    BY <2>0, <2>2, <2>3, <2>6 DEF KeySidebar, CollapseClick, ToggleCollapse, Rerendered
  <2>7. CASE KeyMitigate
    <3>1. Push("/mitigations", "mitigate", gPressed) /\ sidebarOpen' \in BOOLEAN /\ KeyDown
      BY <2>0, <2>7 DEF KeyMitigate
    <3>2. "/mitigations" \in Paths /\ "/mitigations" # "/admin"
      BY DEF Paths, NavPaths
    <3> QED
      BY <2>0, <2>1, <2>3, <3>1, <3>2, LinksAsk
  <2>8. CASE KeyLetter
    <3>1. CASE \E p \in Lettered : Push(p, "nothing", FALSE) /\ sidebarOpen' = (sidebarOpen /\ p = path)
      BY <2>0, <2>1, <2>3, <2>8, <3>1, LinksAsk DEF KeyLetter
    <3>2. CASE ~\E p \in Lettered : Push(p, "nothing", FALSE) /\ sidebarOpen' = (sidebarOpen /\ p = path)
      <4>1. /\ KeyDown /\ gPressed' = FALSE /\ gTimeout' = FALSE
            /\ Stays /\ UNCHANGED <<overlays, sidebarVars, typing>>
        BY <2>8, <3>2 DEF KeyLetter
      <4> QED
        BY <2>0, <2>2, <2>3, <4>1
    <3> QED
      BY <3>1, <3>2
  <2>9. CASE GTimesOut \/ Renders \/ Focuses \/ Escape \/ MenuClick \/ OtherTabToggles
    BY <2>0, <2>2, <2>9 DEF GTimesOut, Renders, Focuses, Escape, MenuClick,
       OtherTabToggles, Rerendered
  <2>10. CASE RunCommand
    BY <2>0, <2>1, <2>10, LinksAsk DEF RunCommand
  <2>11. CASE LinkClick
    BY <2>0, <2>1, <2>11, LinksAsk DEF LinkClick
  <2>12. CASE PageLinkClick
    BY <2>0, <2>1, <2>12, LinksAsk DEF PageLinkClick
  <2>13. CASE HandleSearch
    BY <2>0, <2>13, LinksAsk DEF HandleSearch, Rerendered, ShellTypeOK
  <2>14. CASE UNCHANGED shellVars
    BY <2>0, <2>2, <2>14 DEF shellVars, Stays
  <2> QED
    BY <2>4, <2>5, <2>6, <2>7, <2>8, <2>9, <2>10, <2>11, <2>12, <2>13, <2>14 DEF ShellNext
<1> QED
  BY <1>1, <1>2, PTL DEF ConsoleSpec

-----------------------------------------------------------------------------
(* The throttle.  Of a name: the passwords verified so far, T, its entry,  *)
(* e, and the time, t; of all names the times they were tried, R.  The     *)
(* entry counts the last passwords, which came since it was made; those    *)
(* before, all but LoginMaxAttempts - 1, are past: they came more than a   *)
(* window earlier, because the entry they were counted in was outdated,    *)
(* or it was evicted, and LoginMaxTracked other names were tried since.    *)
(* So 2 * LoginMaxAttempts successive ones only fit into a window that is  *)
(* as crowded.                                                             *)
Crowd(R, u, a, b) == Cardinality({v \in LoginNames \ {u} : R[v] \cap a..b # {}}) >= LoginMaxTracked
Past(R, u, a, b) == a + LoginWindow <= b \/ Crowd(R, u, a, b)

Entry == [n : Nat, at : Nat]
Sound(R, u, T, e, t) ==
  /\ T \in Seq(Nat) /\ e \in Entry /\ e.n <= LoginMaxAttempts /\ e.n <= Len(T) /\ e.at <= t
  /\ \A i, j \in 1..Len(T) : i <= j => T[i] <= T[j]
  /\ \A i \in 1..Len(T) : T[i] <= t
  /\ e.n > 0 => T[Len(T) - e.n + 1] = e.at
  /\ e.n > 0 => \A i \in 1..(Len(T) - e.n - LoginMaxAttempts + 1) : Past(R, u, T[i], e.at)
  /\ e.n = 0 => \A i \in 1..(Len(T) - LoginMaxAttempts + 1) : Past(R, u, T[i], t)
  /\ \A i \in 1..(Len(T) - 2 * LoginMaxAttempts + 1) : Past(R, u, T[i], T[i + 2 * LoginMaxAttempts - 1])
Gone(R, u, e, t) == e.n = 0 \/ Past(R, u, e.at, t)
Grows(R, R2) == \A v \in LoginNames : R[v] \subseteq R2[v]

(* More tries, over a longer time, make no smaller a crowd.                *)
LEMMA CrowdGrows ==
  ASSUME NEW R, NEW R2, NEW u, NEW a \in Nat, NEW b \in Nat, NEW a2 \in Nat, NEW b2 \in Nat,
         Grows(R, R2), a2 <= a, b <= b2, Crowd(R, u, a, b)
  PROVE  Crowd(R2, u, a2, b2)
<1> DEFINE C == {v \in LoginNames \ {u} : R[v] \cap a..b # {}}
           C2 == {v \in LoginNames \ {u} : R2[v] \cap a2..b2 # {}}
<1>1. C2 \subseteq LoginNames /\ IsFiniteSet(LoginNames)
  BY ThrottleAssumption
<1>2. IsFiniteSet(C2)
  <2> HIDE DEF C2
  <2> QED BY <1>1, FS_Subset
<1>3. a..b \subseteq a2..b2
  OBVIOUS
<1>4. C \subseteq C2
  BY <1>3 DEF Grows
<1>5. Cardinality(C) <= Cardinality(C2) /\ Cardinality(C2) \in Nat /\ Cardinality(C) \in Nat
  <2> HIDE DEF C, C2
  <2> QED BY <1>2, <1>4, FS_Subset, FS_CardinalityType
<1>6. Cardinality(C) >= LoginMaxTracked
  BY DEF Crowd
<1>7. Cardinality(C2) >= LoginMaxTracked
  <2> HIDE DEF C, C2
  <2> QED BY <1>5, <1>6, ThrottleAssumption
<1> QED BY <1>7 DEF Crowd

LEMMA PastGrows ==
  ASSUME NEW R, NEW R2, NEW u, NEW a \in Nat, NEW b \in Nat, NEW a2 \in Nat, NEW b2 \in Nat,
         Grows(R, R2), a2 <= a, b <= b2, Past(R, u, a, b)
  PROVE  Past(R2, u, a2, b2)
<1>1. CASE Crowd(R, u, a, b)
  BY <1>1, CrowdGrows DEF Past
<1>2. CASE a + LoginWindow <= b
  BY <1>2, ThrottleAssumption DEF Past
<1> QED BY <1>1, <1>2 DEF Past

(* Of any name's soundness others' tries and time take nothing away.       *)
LEMMA SoundGrows ==
  ASSUME NEW R, NEW R2, NEW u, NEW T, NEW e, NEW t \in Nat, NEW t2 \in Nat,
         Grows(R, R2), t <= t2, Sound(R, u, T, e, t)
  PROVE  Sound(R2, u, T, e, t2)
<1>1. PICK n \in Nat : n = Len(T) /\ \A i \in 1..n : T[i] \in Nat
  BY DEF Sound
<1>2. e.n \in Nat /\ e.at \in Nat /\ e.at <= t /\ LoginMaxAttempts \in Nat \ {0} /\ e.n <= n
  BY <1>1, ThrottleAssumption DEF Sound, Entry
<1>3. e.n > 0 => \A i \in 1..(n - e.n - LoginMaxAttempts + 1) : Past(R2, u, T[i], e.at)
  <2> SUFFICES ASSUME e.n > 0, NEW i \in 1..(n - e.n - LoginMaxAttempts + 1)
               PROVE  Past(R2, u, T[i], e.at)
    OBVIOUS
  <2>1. i \in 1..n /\ Past(R, u, T[i], e.at)
    BY <1>1, <1>2 DEF Sound
  <2>2. T[i] \in Nat /\ T[i] <= T[i] /\ e.at <= e.at
    BY <1>1, <1>2, <2>1
  <2> QED BY <1>2, <2>1, <2>2, PastGrows
<1>4. e.n = 0 => \A i \in 1..(n - LoginMaxAttempts + 1) : Past(R2, u, T[i], t2)
  <2> SUFFICES ASSUME e.n = 0, NEW i \in 1..(n - LoginMaxAttempts + 1)
               PROVE  Past(R2, u, T[i], t2)
    OBVIOUS
  <2>1. i \in 1..n /\ Past(R, u, T[i], t)
    BY <1>1, <1>2 DEF Sound
  <2>2. T[i] \in Nat /\ T[i] <= T[i]
    BY <1>1, <2>1
  <2> QED BY <2>1, <2>2, PastGrows
<1>5. \A i \in 1..(n - 2 * LoginMaxAttempts + 1) : Past(R2, u, T[i], T[i + 2 * LoginMaxAttempts - 1])
  <2> SUFFICES ASSUME NEW i \in 1..(n - 2 * LoginMaxAttempts + 1)
               PROVE  Past(R2, u, T[i], T[i + 2 * LoginMaxAttempts - 1])
    OBVIOUS
  <2>1. i \in 1..n /\ i + 2 * LoginMaxAttempts - 1 \in 1..n
        /\ Past(R, u, T[i], T[i + 2 * LoginMaxAttempts - 1])
    BY <1>1, <1>2 DEF Sound
  <2>2. PICK x \in Nat, y \in Nat : x = T[i] /\ y = T[i + 2 * LoginMaxAttempts - 1]
    BY <1>1, <2>1
  <2>3. x <= x /\ y <= y /\ Past(R, u, x, y)
    BY <2>1, <2>2
  <2>4. Past(R2, u, x, y)
    BY <2>3, PastGrows
  <2> QED BY <2>2, <2>4
<1>6. \A i \in 1..Len(T) : T[i] <= t2
  BY <1>1 DEF Sound
<1>7. e.at <= t2
  BY <1>2
<1> QED BY <1>1, <1>3, <1>4, <1>5, <1>6, <1>7 DEF Sound

(* An entry that is outdated, evicted or cleared leaves the past behind.   *)
LEMMA PastIsPast ==
  ASSUME NEW R, NEW u, NEW T, NEW e, NEW t \in Nat, Sound(R, u, T, e, t), Gone(R, u, e, t),
         NEW i \in 1..(Len(T) - LoginMaxAttempts + 1)
  PROVE  Past(R, u, T[i], t)
<1>1. /\ Len(T) \in Nat /\ LoginMaxAttempts \in Nat \ {0}
      /\ e.n \in Nat /\ e.at \in Nat /\ e.at <= t /\ e.n <= LoginMaxAttempts /\ e.n <= Len(T)
  BY ThrottleAssumption DEF Sound, Entry
<1>2. CASE e.n = 0
  BY <1>2 DEF Sound
<1>3. CASE e.n > 0
  <2>1. i \in 1..Len(T) /\ Len(T) - e.n + 1 \in 1..Len(T) /\ i <= Len(T) - e.n + 1
    BY <1>1, <1>3
  <2>2. T[i] <= e.at
    BY <1>3, <2>1 DEF Sound
  <2>3. T[i] \in Nat /\ Past(R, u, e.at, t) /\ t <= t /\ Grows(R, R)
    BY <1>3, <2>1 DEF Sound, Gone, Grows
  <2> QED
    BY <1>1, <2>2, <2>3, PastGrows
<1> QED
  BY <1>1, <1>2, <1>3

LEMMA PrunedIsSound ==
  ASSUME NEW R, NEW u, NEW T, NEW e, NEW t \in Nat, Sound(R, u, T, e, t), Gone(R, u, e, t)
  PROVE  Sound(R, u, T, NoEntry, t)
<1>1. NoEntry.n = 0 /\ NoEntry.at = 0 /\ NoEntry \in Entry
  BY DEF NoEntry, Entry
<1>2. \A i \in 1..(Len(T) - LoginMaxAttempts + 1) : Past(R, u, T[i], t)
  BY PastIsPast
<1> QED
  BY <1>1, <1>2, ThrottleAssumption DEF Sound

(* Another try, counted in the entry that pruning left or in a new one.    *)
LEMMA TriedIsSound ==
  ASSUME NEW R, NEW u, NEW T, NEW k, NEW t \in Nat, Sound(R, u, T, k, t), k.n < LoginMaxAttempts
  PROVE  Sound(R, u, Append(T, t), [n |-> k.n + 1, at |-> IF k.n = 0 THEN t ELSE k.at], t)
<1>1. PICK n \in Nat, c \in Nat, a \in Nat : n = Len(T) /\ c = k.n /\ a = k.at
  BY DEF Sound, Entry
<1>2. LoginMaxAttempts \in Nat \ {0} /\ c < LoginMaxAttempts /\ c <= n /\ a <= t
  BY <1>1, ThrottleAssumption DEF Sound
<1>3. PICK T2 : T2 = Append(T, t)
  OBVIOUS
<1>4. /\ T2 \in Seq(Nat) /\ Len(T2) = n + 1 /\ T2[n + 1] = t
      /\ \A i \in 1..n : T[i] \in Nat /\ T[i] <= t /\ T2[i] = T[i]
  BY <1>1, <1>3 DEF Sound
<1>5. PICK e2 : e2 = [n |-> k.n + 1, at |-> IF k.n = 0 THEN t ELSE k.at]
  OBVIOUS
<1>6. e2 \in Entry /\ e2.n = c + 1 /\ e2.at = IF c = 0 THEN t ELSE a
  BY <1>1, <1>5 DEF Entry
<1>7. /\ \A i, j \in 1..n : i <= j => T[i] <= T[j]
      /\ \A i \in 1..(n - 2 * LoginMaxAttempts + 1) : Past(R, u, T[i], T[i + 2 * LoginMaxAttempts - 1])
  BY <1>1 DEF Sound
<1>8. \A i \in 1..(n - c - LoginMaxAttempts + 1) : Past(R, u, T[i], e2.at)
  <2>1. CASE c = 0
    BY <1>1, <1>2, <1>6, <2>1 DEF Sound
  <2>2. CASE c # 0
    <3>1. k.n > 0 /\ e2.at = k.at
      BY <1>1, <1>6, <2>2
    <3>2. \A i \in 1..(Len(T) - k.n - LoginMaxAttempts + 1) : Past(R, u, T[i], k.at)
      BY <3>1 DEF Sound
    <3> QED BY <1>1, <3>1, <3>2
  <2> QED BY <2>1, <2>2
<1>9. n + 2 - 2 * LoginMaxAttempts \in 1..n => Past(R, u, T[n + 2 - 2 * LoginMaxAttempts], t)
  <2> SUFFICES ASSUME n + 2 - 2 * LoginMaxAttempts \in 1..n
               PROVE  Past(R, u, T[n + 2 - 2 * LoginMaxAttempts], t)
    OBVIOUS
  <2> DEFINE i == n + 2 - 2 * LoginMaxAttempts
  <2>1. i \in 1..(n - c - LoginMaxAttempts + 1) /\ i \in 1..n
    BY <1>2
  <2>3. Past(R, u, T[i], e2.at)
    BY <1>8, <2>1
  <2> HIDE DEF i
  <2>2. T[i] \in Nat /\ T[i] <= T[i] /\ e2.at \in Nat /\ e2.at <= t /\ Grows(R, R)
    <3>1. T[i] \in Nat /\ T[i] <= T[i]
      BY <1>4, <2>1
    <3>2. e2.at \in Nat /\ e2.at <= t
      BY <1>2, <1>6
    <3>3. Grows(R, R)
      BY DEF Grows
    <3> QED
      BY <3>1, <3>2, <3>3
  <2>4. Past(R, u, T[i], t)
    BY <2>2, <2>3, PastGrows
  <2> QED BY <2>4 DEF i
<1>10. /\ \A i \in 1..(n + 1) : T2[i] <= t
       /\ \A i, j \in 1..(n + 1) : i <= j => T2[i] <= T2[j]
       /\ \A i \in 1..(n + 1 - 2 * LoginMaxAttempts + 1) : Past(R, u, T2[i], T2[i + 2 * LoginMaxAttempts - 1])
  <2>1. PICK M \in Nat \ {0} : M = LoginMaxAttempts
    BY <1>2
  <2>2. \A i \in 1..(n - 2 * M + 1) : Past(R, u, T[i], T[i + 2 * M - 1])
    BY <1>7, <2>1
  <2>3. n + 2 - 2 * M \in 1..n => Past(R, u, T[n + 2 - 2 * M], t)
    BY <1>9, <2>1
  <2>4. /\ \A i \in 1..(n + 1) : T2[i] \in Nat /\ T2[i] <= t
        /\ \A i, j \in 1..(n + 1) : i <= j => T2[i] <= T2[j]
        /\ \A i \in 1..(n + 1 - 2 * M + 1) : Past(R, u, T2[i], T2[i + 2 * M - 1])
    <3>1. \A i \in 1..(n + 1) : i \in 1..n \/ i = n + 1
      OBVIOUS
    <3>2. \A i \in 1..(n + 1) : T2[i] \in Nat /\ T2[i] <= t
      BY <1>4, <3>1
    <3>3. \A i, j \in 1..(n + 1) : i <= j => T2[i] <= T2[j]
      BY <1>4, <1>7, <3>1, <3>2
    <3>4. ASSUME NEW i \in 1..(n + 1 - 2 * M + 1) PROVE Past(R, u, T2[i], T2[i + 2 * M - 1])
      <4>1. CASE i + 2 * M - 1 = n + 1
        <5>1. i = n + 2 - 2 * M /\ i \in 1..n
          BY <4>1
        <5>2. T2[i] = T[n + 2 - 2 * M] /\ T2[i + 2 * M - 1] = t
          BY <1>4, <4>1, <5>1
        <5> QED BY <2>3, <5>1, <5>2
      <4>2. CASE i + 2 * M - 1 # n + 1
        <5>1. i \in 1..(n - 2 * M + 1) /\ i \in 1..n /\ i + 2 * M - 1 \in 1..n
          BY <4>2
        <5>2. T2[i] = T[i] /\ T2[i + 2 * M - 1] = T[i + 2 * M - 1]
          BY <1>4, <5>1
        <5> QED BY <2>2, <5>1, <5>2
      <4> QED
        BY <4>1, <4>2
    <3> QED
      BY <3>2, <3>3, <3>4
  <2> QED
    BY <2>1, <2>4
<1>11. T2[Len(T2) - e2.n + 1] = e2.at
  <2>1. CASE c = 0
    BY <1>2, <1>4, <1>6, <2>1
  <2>2. CASE c # 0
    <3>1. n - c + 1 \in 1..n /\ T[n - c + 1] = a
      BY <1>1, <1>2, <2>2 DEF Sound
    <3>2. Len(T2) - e2.n + 1 = n - c + 1
      BY <1>2, <1>4, <1>6
    <3> QED BY <1>4, <1>6, <2>2, <3>1, <3>2
  <2> QED BY <2>1, <2>2
<1>12. \A i \in 1..(Len(T2) - e2.n - LoginMaxAttempts + 1) : Past(R, u, T2[i], e2.at)
  <2> SUFFICES ASSUME NEW i \in 1..(Len(T2) - e2.n - LoginMaxAttempts + 1)
               PROVE  Past(R, u, T2[i], e2.at)
    OBVIOUS
  <2>1. i \in 1..(n - c - LoginMaxAttempts + 1) /\ i \in 1..n
    BY <1>2, <1>4, <1>6
  <2> QED BY <1>4, <1>8, <2>1
<1>13. e2.n <= LoginMaxAttempts /\ e2.n <= Len(T2) /\ e2.at <= t /\ e2.n > 0
  BY <1>2, <1>4, <1>6
<1>14. /\ \A i \in 1..Len(T2) : T2[i] <= t
       /\ \A i, j \in 1..Len(T2) : i <= j => T2[i] <= T2[j]
       /\ \A i \in 1..(Len(T2) - 2 * LoginMaxAttempts + 1) : Past(R, u, T2[i], T2[i + 2 * LoginMaxAttempts - 1])
  BY <1>2, <1>4, <1>10
<1>15. Sound(R, u, T2, e2, t)
  BY <1>4, <1>6, <1>11, <1>12, <1>13, <1>14 DEF Sound
<1> QED
  BY <1>3, <1>5, <1>15

(* A window is spanned from the first of its attempts.                     *)
LEMMA WindowIsSparse ==
  ASSUME NEW R, NEW u, NEW T, NEW e, NEW t \in Nat, Sound(R, u, T, e, t), NEW w \in Nat,
         ~Crowd(R, u, w, w + LoginWindow - 1)
  PROVE  Cardinality({i \in DOMAIN T : T[i] \in w..(w + LoginWindow - 1)}) < 2 * LoginMaxAttempts
<1> DEFINE S == {i \in DOMAIN T : T[i] \in w..(w + LoginWindow - 1)}
           M2 == 2 * LoginMaxAttempts
<1>1. LoginMaxAttempts \in Nat \ {0} /\ LoginWindow \in Nat \ {0}
  BY ThrottleAssumption
<1>2. PICK n \in Nat : n = Len(T) /\ DOMAIN T = 1..n /\ \A i \in 1..n : T[i] \in Nat
  BY DEF Sound
<1>3. CASE S = {}
  BY <1>1, <1>3, FS_EmptySet
<1>4. CASE S # {}
  <2>1. S \subseteq Nat
    BY <1>2
  <2>2. PICK m \in S : \A i \in S : m <= i
    BY <1>4, <2>1, LeastNatural
  <2>3. m \in 1..n /\ T[m] \in Nat /\ w <= T[m]
    BY <1>1, <1>2, <2>2
  <2>4. ASSUME NEW i \in S PROVE i \in m..(m + M2 - 2)
    <3>1. i \in 1..n /\ m <= i /\ T[i] \in Nat /\ T[i] < w + LoginWindow
      BY <1>1, <1>2, <2>2, <2>4
    <3>2. SUFFICES ASSUME i >= m + M2 - 1 PROVE FALSE
      BY <1>1, <2>3, <3>1
    <3>3. m \in 1..(n - M2 + 1) /\ m + M2 - 1 \in 1..n
      BY <1>1, <2>3, <3>1, <3>2
    <3>4. PICK x \in Nat, y \in Nat : x = T[m] /\ y = T[m + M2 - 1]
      BY <1>2, <2>3, <3>3
    <3>5. Past(R, u, x, y) /\ y <= T[i]
      BY <1>2, <3>1, <3>2, <3>3, <3>4 DEF Sound
    <3>6. w <= x /\ y <= w + LoginWindow - 1 /\ w + LoginWindow - 1 \in Nat /\ ~(x + LoginWindow <= y)
      BY <1>1, <2>3, <3>1, <3>4, <3>5
    <3>7. Crowd(R, u, x, y) /\ Grows(R, R)
      BY <3>5, <3>6 DEF Past, Grows
    <3> QED
      BY <3>6, <3>7, CrowdGrows
  <2>5. IsFiniteSet(m..(m + M2 - 2)) /\ Cardinality(m..(m + M2 - 2)) = M2 - 1
    <3>1. m \in Int /\ m + M2 - 2 \in Int /\ ~(m > m + M2 - 2) /\ (m + M2 - 2) - m + 1 = M2 - 1
      BY <1>1, <2>3
    <3>2. PICK last \in Int : last = m + M2 - 2
      BY <3>1
    <3>3. IsFiniteSet(m..last) /\ Cardinality(m..last) = last - m + 1
      BY <3>1, <3>2, FS_Interval
    <3> QED
      BY <3>1, <3>2, <3>3
  <2>6. Cardinality(S) <= M2 - 1 /\ Cardinality(S) \in Nat
    <3>1. S \subseteq m..(m + M2 - 2)
      BY <2>4
    <3> HIDE DEF S
    <3> QED
      BY <2>5, <3>1, FS_Subset, FS_CardinalityType
  <2> QED
    BY <1>1, <2>6
<1> QED
  BY <1>3, <1>4

(* An entry is of a name that was tried when it was made.                  *)
Throttled ==
  /\ now \in 0..MaxSeconds /\ attempts \in [LoginNames -> Entry] /\ verifying \in [LoginNames -> Nat]
  /\ tries \in [LoginNames -> Seq(Nat)] /\ tried \in [LoginNames -> SUBSET (0..now)]
  /\ \A u \in LoginNames :
       /\ Sound(tried, u, tries[u], attempts[u], now) /\ tries[u] \in Seq(tried[u])
       /\ attempts[u].n > 0 => attempts[u].at \in tried[u]

LEMMA Pruning ==
  ASSUME Throttled, NEW E \in Evictions, NEW u \in LoginNames
  PROVE  \/ PrunedEntries(E)[u] = attempts[u]
         \/ PrunedEntries(E)[u] = NoEntry /\ Gone(tried, u, attempts[u], now)
<1>1. /\ now \in Nat /\ attempts[u].n \in Nat /\ attempts[u].at \in Nat
      /\ LoginMaxTracked \in Nat /\ LoginWindow \in Nat
  BY ThrottleAssumption DEF Throttled, Entry
<1>2. CASE u \in CurrentEntries \ E
  BY <1>2 DEF PrunedEntries
<1>3. CASE u \notin CurrentEntries
  BY <1>1, <1>3 DEF PrunedEntries, CurrentEntries, Gone, Past
<1>4. CASE u \in E
  <2>1. /\ E \subseteq CurrentEntries /\ Cardinality(E) = TooMany
        /\ \A v \in CurrentEntries \ E : attempts[u].at <= attempts[v].at
    BY <1>4 DEF Evictions
  <2>2. CurrentEntries \subseteq LoginNames /\ IsFiniteSet(LoginNames)
    BY ThrottleAssumption DEF CurrentEntries
  <2>3. IsFiniteSet(CurrentEntries)
    BY <2>2, FS_Subset
  <2>4. IsFiniteSet(E) /\ Cardinality(E) \in Nat /\ Cardinality(E) # 0 /\ Cardinality(CurrentEntries) \in Nat
    BY <1>4, <2>1, <2>3, FS_Subset, FS_CardinalityType, FS_EmptySet
  <2>5. Cardinality(CurrentEntries \ E) = LoginMaxTracked
    <3>1. Cardinality(CurrentEntries \ E) = Cardinality(CurrentEntries) - Cardinality(CurrentEntries \cap E)
      BY <2>3, FS_Difference
    <3>2. CurrentEntries \cap E = E
      BY <2>1
    <3> QED BY <1>1, <2>1, <2>4, <3>1, <3>2 DEF TooMany
  <2> DEFINE C == {v \in LoginNames \ {u} : tried[v] \cap attempts[u].at..now # {}}
  <2>6. CurrentEntries \ E \subseteq C
    <3> SUFFICES ASSUME NEW v \in CurrentEntries \ E PROVE v \in C
      OBVIOUS
    <3>1. v \in LoginNames \ {u} /\ attempts[v].n > 0 /\ attempts[u].at <= attempts[v].at
      BY <1>4, <2>1 DEF CurrentEntries
    <3>2. attempts[v].at \in tried[v] /\ attempts[v].at \in 0..now
      BY <3>1 DEF Throttled
    <3> QED BY <1>1, <3>1, <3>2
  <2>7. Cardinality(CurrentEntries \ E) <= Cardinality(C)
    <3>1. IsFiniteSet(C)
      <4>1. C \subseteq LoginNames
        OBVIOUS
      <4> HIDE DEF C
      <4> QED BY <4>1, <2>2, FS_Subset
    <3> HIDE DEF C
    <3> QED BY <2>6, <3>1, FS_Subset
  <2>8. Cardinality(C) \in Nat
    <3>1. C \subseteq LoginNames
      OBVIOUS
    <3> HIDE DEF C
    <3> QED BY <3>1, <2>2, FS_Subset, FS_CardinalityType
  <2>9. Crowd(tried, u, attempts[u].at, now)
    <3>1. Cardinality(C) >= LoginMaxTracked
      <4> HIDE DEF C
      <4> QED BY <1>1, <2>5, <2>7, <2>8
    <3> QED BY <3>1 DEF Crowd
  <2> QED BY <1>4, <2>9 DEF PrunedEntries, Gone, Past
<1> QED BY <1>2, <1>3, <1>4

LEMMA PruningIsSound ==
  ASSUME Throttled, NEW E \in Evictions, NEW u \in LoginNames
  PROVE  /\ Sound(tried, u, tries[u], PrunedEntries(E)[u], now)
         /\ PrunedEntries(E)[u].n > 0 => PrunedEntries(E)[u].at \in tried[u]
<1>1. Sound(tried, u, tries[u], attempts[u], now) /\ now \in Nat
  BY DEF Throttled
<1>2. CASE PrunedEntries(E)[u] = attempts[u]
  BY <1>1, <1>2 DEF Throttled
<1>3. CASE PrunedEntries(E)[u] = NoEntry /\ Gone(tried, u, attempts[u], now)
  BY <1>1, <1>3, PrunedIsSound DEF NoEntry
<1> QED BY <1>2, <1>3, Pruning

LEMMA TryingIsSound ==
  ASSUME Throttled, NEW u \in LoginNames, NEW right \in BOOLEAN, LoginAttempt(u, right)
  PROVE  Throttled'
<1>1. PICK E \in Evictions :
        \/ /\ MayTry(PrunedEntries(E)[u])
           /\ attempts' = [PrunedEntries(E) EXCEPT ![u] = RecordedTry(PrunedEntries(E)[u])]
           /\ tries' = [tries EXCEPT ![u] = Append(@, now)]
           /\ tried' = [tried EXCEPT ![u] = @ \cup {now}]
           /\ verifying' = IF right THEN [verifying EXCEPT ![u] = @ + 1] ELSE verifying
        \/ attempts' = PrunedEntries(E) /\ UNCHANGED <<tries, tried, verifying>>
  BY DEF LoginAttempt
<1>2. /\ now' = now /\ now \in 0..MaxSeconds /\ now \in Nat /\ verifying \in [LoginNames -> Nat]
      /\ tries \in [LoginNames -> Seq(Nat)] /\ tried \in [LoginNames -> SUBSET (0..now)]
      /\ attempts \in [LoginNames -> Entry]
  BY DEF LoginAttempt, Throttled
<1>3. \A v \in LoginNames :
        /\ Sound(tried, v, tries[v], PrunedEntries(E)[v], now) /\ tries[v] \in Seq(tried[v])
        /\ PrunedEntries(E)[v].n > 0 => PrunedEntries(E)[v].at \in tried[v]
  BY PruningIsSound DEF Throttled
<1>4. PrunedEntries(E) \in [LoginNames -> Entry]
  <2>1. PrunedEntries(E) = [v \in LoginNames |-> PrunedEntries(E)[v]]
    BY DEF PrunedEntries
  <2> QED BY <2>1, <1>3 DEF Sound
<1>5. CASE attempts' = PrunedEntries(E) /\ UNCHANGED <<tries, tried, verifying>>
  BY <1>2, <1>3, <1>4, <1>5 DEF Throttled
<1>6. CASE /\ MayTry(PrunedEntries(E)[u])
           /\ attempts' = [PrunedEntries(E) EXCEPT ![u] = RecordedTry(PrunedEntries(E)[u])]
           /\ tries' = [tries EXCEPT ![u] = Append(@, now)]
           /\ tried' = [tried EXCEPT ![u] = @ \cup {now}]
           /\ verifying' = IF right THEN [verifying EXCEPT ![u] = @ + 1] ELSE verifying
  <2>1. tried' \in [LoginNames -> SUBSET (0..now)] /\ verifying' \in [LoginNames -> Nat]
    BY <1>2, <1>6
  <2>2. Grows(tried, tried')
    BY <1>2, <1>6 DEF Grows
  <2>3. ASSUME NEW v \in LoginNames
        PROVE  /\ Sound(tried', v, tries'[v], attempts'[v], now) /\ tries'[v] \in Seq(tried'[v])
               /\ attempts'[v].n > 0 => attempts'[v].at \in tried'[v]
    <3>1. Sound(tried', v, tries[v], PrunedEntries(E)[v], now)
      BY <1>2, <1>3, <2>2, SoundGrows
    <3>2. CASE v # u
      <4>1. attempts'[v] = PrunedEntries(E)[v] /\ tries'[v] = tries[v] /\ tried'[v] = tried[v]
        BY <1>2, <1>4, <1>6, <3>2
      <4> QED BY <1>3, <3>1, <4>1
    <3>3. CASE v = u
      <4>1. /\ attempts'[v] = RecordedTry(PrunedEntries(E)[v])
            /\ tries'[v] = Append(tries[v], now) /\ tried'[v] = tried[v] \cup {now}
        BY <1>2, <1>4, <1>6, <3>3
      <4>2. Sound(tried', v, tries'[v], attempts'[v], now)
        BY <1>2, <1>6, <3>1, <3>3, <4>1, TriedIsSound DEF MayTry, RecordedTry
      <4>3. tries'[v] \in Seq(tried'[v])
        <5>1. tries[v] \in Seq(tried'[v])
          <6>1. tries[v] \in Seq(tried[v]) /\ tried[v] \subseteq tried'[v]
            BY <1>3, <4>1
          <6> QED BY <6>1
        <5> QED BY <4>1, <5>1
      <4>4. attempts'[v].at = now \/ (PrunedEntries(E)[v].n # 0 /\ attempts'[v].at = PrunedEntries(E)[v].at)
        BY <4>1 DEF RecordedTry
      <4>5. PrunedEntries(E)[v].n \in Nat
        BY <1>4 DEF Entry
      <4> QED BY <1>3, <4>1, <4>2, <4>3, <4>4, <4>5
    <3> QED BY <3>2, <3>3
  <2>4. attempts' \in [LoginNames -> Entry] /\ tries' \in [LoginNames -> Seq(Nat)]
    <3>1. DOMAIN attempts' = LoginNames /\ DOMAIN tries' = LoginNames
          /\ attempts' = [v \in LoginNames |-> attempts'[v]] /\ tries' = [v \in LoginNames |-> tries'[v]]
      BY <1>2, <1>4, <1>6
    <3> QED BY <2>3, <3>1 DEF Sound
  <2> QED BY <1>2, <2>1, <2>3, <2>4 DEF Throttled
<1> QED BY <1>1, <1>5, <1>6

LEMMA NothingIsSound ==
  ASSUME NEW R, NEW u, NEW t \in Nat
  PROVE  Sound(R, u, <<>>, NoEntry, t) /\ NoEntry \in Entry /\ NoEntry.n = 0
BY ThrottleAssumption DEF Sound, Entry, NoEntry

LEMMA EntriesAreSound == ConsoleSpec => []Throttled
<1>1. ConsoleInit => Throttled
  <2> SUFFICES ASSUME ThrottleInit PROVE Throttled
    BY DEF ConsoleInit
  <2>1. /\ attempts = [v \in LoginNames |-> NoEntry] /\ verifying = [v \in LoginNames |-> 0]
        /\ tries = [v \in LoginNames |-> <<>>] /\ tried = [v \in LoginNames |-> {}] /\ now = 0
    BY DEF ThrottleInit
  <2>2. now \in Nat /\ now \in 0..MaxSeconds
    BY <2>1, ThrottleAssumption
  <2>3. \A u \in LoginNames : attempts[u] = NoEntry /\ tries[u] = <<>>
    BY <2>1
  <2> QED BY <2>1, <2>2, <2>3, NothingIsSound DEF Throttled
<1>2. Throttled /\ [ConsoleNext]_consoleVars => Throttled'
  <2> SUFFICES ASSUME Throttled, [ThrottleNext]_throttleVars PROVE Throttled'
    BY PageSteps
  <2>0. /\ now \in Nat /\ attempts \in [LoginNames -> Entry] /\ tries \in [LoginNames -> Seq(Nat)]
        /\ verifying \in [LoginNames -> Nat] /\ tried \in [LoginNames -> SUBSET (0..now)]
    BY DEF Throttled
  <2>1. ASSUME NEW u \in LoginNames, NEW right \in BOOLEAN, LoginAttempt(u, right) PROVE Throttled'
    BY <2>1, TryingIsSound
  <2>2. ASSUME NEW u \in LoginNames, LoginVerified(u) PROVE Throttled'
    <3>1. /\ verifying' = [verifying EXCEPT ![u] = @ - 1] /\ verifying[u] > 0 /\ tried' = tried /\ now' = now
          /\ \/ attempts' = [attempts EXCEPT ![u] = NoEntry] /\ tries' = [tries EXCEPT ![u] = <<>>]
             \/ UNCHANGED <<attempts, tries>>
      BY <2>2 DEF LoginVerified, ClearedEntries
    <3>2. \A v \in LoginNames : \/ attempts'[v] = NoEntry /\ tries'[v] = <<>>
                                \/ attempts'[v] = attempts[v] /\ tries'[v] = tries[v]
      BY <2>0, <3>1
    <3>3. attempts' \in [LoginNames -> Entry] /\ tries' \in [LoginNames -> Seq(Nat)]
          /\ verifying' \in [LoginNames -> Nat]
      <4>1. DOMAIN attempts' = LoginNames /\ DOMAIN tries' = LoginNames
            /\ attempts' = [v \in LoginNames |-> attempts'[v]] /\ tries' = [v \in LoginNames |-> tries'[v]]
        BY <2>0, <3>1
      <4>2. NoEntry \in Entry /\ <<>> \in Seq(Nat)
        BY DEF NoEntry, Entry
      <4>3. \A v \in LoginNames : attempts'[v] \in Entry /\ tries'[v] \in Seq(Nat)
        BY <2>0, <3>2, <4>2
      <4>4. verifying[u] - 1 \in Nat
        BY <2>0, <3>1
      <4> QED BY <2>0, <3>1, <4>1, <4>3, <4>4
    <3>4. ASSUME NEW v \in LoginNames
          PROVE  /\ Sound(tried, v, tries'[v], attempts'[v], now) /\ tries'[v] \in Seq(tried[v])
                 /\ attempts'[v].n > 0 => attempts'[v].at \in tried[v]
      <4>1. CASE attempts'[v] = NoEntry /\ tries'[v] = <<>>
        <5>1. Sound(tried, v, <<>>, NoEntry, now) /\ NoEntry.n = 0
          BY <2>0, NothingIsSound
        <5>2. <<>> \in Seq(tried[v])
          OBVIOUS
        <5> QED BY <4>1, <5>1, <5>2
      <4>2. CASE attempts'[v] = attempts[v] /\ tries'[v] = tries[v]
        BY <4>2 DEF Throttled
      <4> QED BY <3>2, <4>1, <4>2
    <3> QED BY <3>1, <3>3, <3>4 DEF Throttled
  <2>3. CASE ThrottleRestart
    <3>1. /\ attempts' = [v \in LoginNames |-> NoEntry] /\ tries' = [v \in LoginNames |-> <<>>]
          /\ verifying' = [v \in LoginNames |-> 0] /\ tried' = tried /\ now' = now
      BY <2>3 DEF ThrottleRestart
    <3>2. \A v \in LoginNames : attempts'[v] = NoEntry /\ tries'[v] = <<>>
      BY <3>1
    <3>3. attempts' \in [LoginNames -> Entry] /\ tries' \in [LoginNames -> Seq(Nat)]
          /\ verifying' \in [LoginNames -> Nat]
      BY <3>1 DEF NoEntry, Entry
    <3>4. ASSUME NEW v \in LoginNames
          PROVE  /\ Sound(tried, v, tries'[v], attempts'[v], now) /\ tries'[v] \in Seq(tried[v])
                 /\ attempts'[v].n > 0 => attempts'[v].at \in tried[v]
      <4>1. Sound(tried, v, <<>>, NoEntry, now) /\ NoEntry.n = 0
        BY <2>0, NothingIsSound
      <4>2. <<>> \in Seq(tried[v])
        OBVIOUS
      <4>3. attempts'[v] = NoEntry /\ tries'[v] = <<>>
        BY <3>2
      <4> QED BY <4>1, <4>2, <4>3
    <3> QED BY <3>1, <3>3, <3>4 DEF Throttled
  <2>4. CASE ASecond
    <3>1. now' = now + 1 /\ now < MaxSeconds /\ UNCHANGED <<attempts, verifying, tries, tried>>
      BY <2>4 DEF ASecond
    <3>2. \A v \in LoginNames : Sound(tried, v, tries[v], attempts[v], now + 1)
      <4> SUFFICES ASSUME NEW v \in LoginNames PROVE Sound(tried, v, tries[v], attempts[v], now + 1)
        OBVIOUS
      <4>1. Grows(tried, tried) /\ Sound(tried, v, tries[v], attempts[v], now) /\ now + 1 \in Nat /\ now <= now + 1
        BY <2>0 DEF Grows, Throttled
      <4> QED BY <2>0, <4>1, SoundGrows
    <3>3. now' \in 0..MaxSeconds /\ tried \in [LoginNames -> SUBSET (0..now')]
      BY <2>0, <3>1, ThrottleAssumption
    <3> QED BY <2>0, <3>1, <3>2, <3>3 DEF Throttled
  <2>5. CASE UNCHANGED throttleVars
    BY <2>5 DEF throttleVars, Throttled
  <2> QED BY <2>1, <2>2, <2>3, <2>4, <2>5 DEF ThrottleNext
<1> QED BY <1>1, <1>2, PTL DEF ConsoleSpec

LEMMA ThrottleIsTyped == Throttled => ThrottleTypeOK
<1> SUFFICES ASSUME Throttled PROVE ThrottleTypeOK
  OBVIOUS
<1>1. ASSUME NEW u \in LoginNames PROVE attempts[u] \in [n : 0..LoginMaxAttempts, at : 0..now]
  <2>1. attempts[u] \in Entry /\ attempts[u].n <= LoginMaxAttempts /\ attempts[u].at <= now
    BY DEF Throttled, Sound
  <2> QED BY <2>1, ThrottleAssumption DEF Entry, Throttled
<1> QED BY <1>1 DEF Throttled, ThrottleTypeOK

(* Between two successes fewer than twice LOGIN_MAX_ATTEMPTS passwords of  *)
(* a name are verified in any window in which fewer than                   *)
(* LOGIN_MAX_TRACKED_USERS other names are tried.                          *)
THEOREM LoginsAreThrottled == ConsoleSpec => []ThrottleHolds
<1>1. Throttled => ThrottleHolds
  <2> SUFFICES ASSUME Throttled, NEW u \in LoginNames, NEW w \in 0..MaxSeconds,
                      ~Crowd(tried, u, w, w + LoginWindow - 1)
               PROVE  Cardinality({i \in DOMAIN tries[u] : tries[u][i] \in w..(w + LoginWindow - 1)})
                        < 2 * LoginMaxAttempts
    BY DEF ThrottleHolds, Crowd
  <2>1. Sound(tried, u, tries[u], attempts[u], now) /\ now \in Nat /\ w \in Nat
    BY ThrottleAssumption DEF Throttled
  <2> QED
    BY <2>1, WindowIsSparse
<1> QED
  BY <1>1, EntriesAreSound, PTL

-----------------------------------------------------------------------------
(* Whatever page is shown, its state has its types: the last things SWR    *)
(* gave, the forms and dialogs, the requests and answers on their way and  *)
(* the daemon's tables behind them.                                        *)
THEOREM ConsoleTypes == ConsoleSpec => []ConsoleTypeOK
<1>1. PanelInv => AlertingPanelTypeOK
  BY DEF PanelInv
<1>2. EditorInv => PlaybookTypeOK
  BY DEF EditorInv
<1>3. ListsInv => ListsTypeOK
  BY DEF ListsInv
<1>4. WithdrawalsInv /\ FormsTyped /\ PagesTyped => WithdrawalsTypeOK
  BY DEF WithdrawalsInv, DialogInv, RequestInv, Requests, FormsTyped, Submissions, PagesTyped, WithdrawalsTypeOK
<1>5. AdminInv /\ AdminTyped => AdminTypeOK
  BY DEF AdminInv, AdminTyped, CallsTyped, TablesTyped, AdminFormsTyped, AdminTypeOK
<1>6. ConsoleSpec => [](route \in Routes)
  <2>1. ConsoleInit => route \in Routes
    BY DEF ConsoleInit
  <2>2. route \in Routes /\ [ConsoleNext]_consoleVars => (route \in Routes)'
    BY DEF ConsoleNext, consoleVars
  <2> QED
    BY <2>1, <2>2, PTL DEF ConsoleSpec
<1>7. AlertingPanelTypeOK /\ PlaybookTypeOK /\ ListsTypeOK /\ WithdrawalsTypeOK /\ AdminTypeOK /\ ShellTypeOK
      /\ ThrottleTypeOK /\ route \in Routes => ConsoleTypeOK
  BY DEF ConsoleTypeOK, Routes
<1> QED
  BY <1>1, <1>2, <1>3, <1>4, <1>5, <1>6, <1>7, PanelIsSound, EditorIsSound, ListsAreSound,
     WithdrawalsAreSound, WithdrawalsAreTyped, AdminIsSound, AdminIsTyped, ShellIsTyped,
     EntriesAreSound, ThrottleIsTyped, PTL
==============================================================================
