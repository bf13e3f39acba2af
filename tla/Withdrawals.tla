----------------------------- MODULE Withdrawals -----------------------------
(***************************************************************************)
(* Acting on mitigations from the dashboard: the withdraw dialog of the    *)
(* list and that of a mitigation's own page, and the Mitigate Now dialog,  *)
(* over requests whose answers come late, get lost or find nobody there.   *)
(* The daemon's side in detail is Prefixd; here it decides and answers.    *)
(***************************************************************************)
EXTENDS Naturals

CONSTANTS
  Mitigations, Reasons,
  Live0,           (* the mitigations that live at the start                *)
  MaxTyped, MaxVisits      (* bounds: on what is typed, on pages visited    *)

Nobody == "null"
NoReason == ""                             (* no reason typed, or none recorded *)
Manual == "Manual withdrawal"

ASSUME WithdrawalsAssumption ==
  /\ Live0 \subseteq Mitigations /\ Nobody \notin Mitigations
  /\ {NoReason, Manual} \cap Reasons = {} /\ MaxTyped \in Nat /\ MaxVisits \in Nat

VARIABLES
  status,          (* per mitigation: none yet, live or gone                *)
  recorded,        (* withdraw_reason, of withdrawals from the dashboard    *)
  page,            (* the list, a mitigation's own page, or elsewhere       *)
  snapshot,        (* the mitigations that SWR's last answer shows live     *)
  withdrawTarget, withdrawReason, withdrawError,
  withdrawal,      (* the page's request, and where it is                   *)
  stray,           (* requests whose page is gone                           *)
  written, confirmed       (* history: reasons typed for whom; who was      *)
                           (* confirmed                                     *)
VARIABLES
  mitigateNowOpen, form, formError,
  submission,      (* handleSubmit's request, and where it is               *)
  visits, typings
withdrawDialog == <<withdrawTarget, withdrawReason, withdrawError, withdrawal, stray, written, confirmed>>
mitigateDialog == <<mitigateNowOpen, form, formError, submission>>
withdrawalVars == <<status, recorded, page, snapshot, withdrawDialog, mitigateDialog, visits, typings>>

LiveNow == {m \in Mitigations : status[m] = "live"}
Idle == [at |-> "idle", of |-> Nobody, reason |-> NoReason]
NoSubmission == [at |-> "idle", of |-> Nobody, left |-> FALSE]
IsWithdrawing == withdrawal.at # "idle"
IsSubmitting == submission.at # "idle" /\ ~submission.left

-----------------------------------------------------------------------------
(* The daemon *)

(* withdraw_mitigation: of what lives, or it is refused.                   *)
Withdraws(m, reason) ==
  /\ status[m] = "live"
  /\ status' = [status EXCEPT ![m] = "gone"]
  /\ recorded' = [recorded EXCEPT ![m] = reason]
Answered == withdrawal' = [withdrawal EXCEPT !.at = "done"]
Failed == withdrawal' = [withdrawal EXCEPT !.at = "failed"]
LatestTargetMutant ==
  /\ withdrawal.at = "out"
  /\ LET m == IF withdrawTarget = Nobody THEN withdrawal.of ELSE withdrawTarget
     IN Withdraws(m, withdrawal.reason) /\ Answered
  /\ UNCHANGED <<page, snapshot, withdrawTarget, withdrawReason, withdrawError, stray, written,
                 confirmed, mitigateDialog, visits, typings>>
WithdrawServed ==
  /\ withdrawal.at = "out"
  /\ \/ Withdraws(withdrawal.of, withdrawal.reason) /\ (Answered \/ Failed)
     \/ Failed /\ UNCHANGED <<status, recorded>>
  /\ UNCHANGED <<page, snapshot, withdrawTarget, withdrawReason, withdrawError, stray, written,
                 confirmed, mitigateDialog, visits, typings>>
StrayServed ==
  \E w \in stray :
    /\ stray' = stray \ {w}
    /\ Withdraws(w.of, w.reason) \/ UNCHANGED <<status, recorded>>
    /\ UNCHANGED <<page, snapshot, withdrawTarget, withdrawReason, withdrawError, withdrawal, written,
                   confirmed, mitigateDialog, visits, typings>>
(* It expires, or somebody else withdraws it.                              *)
GoesAway(m) ==
  /\ status[m] = "live" /\ status' = [status EXCEPT ![m] = "gone"]
  /\ UNCHANGED <<recorded, page, snapshot, withdrawDialog, mitigateDialog, visits, typings>>
(* ingest_event with a ban: it extends what lives on the scope, creates,   *)
(* or accepts the event without a mitigation.                              *)
SubmissionServed ==
  /\ submission.at = "out"
  /\ \/ submission' \in {[submission EXCEPT !.at = "failed"], [submission EXCEPT !.at = "accepted"]}
        /\ UNCHANGED status
     \/ \E m \in Mitigations \ Live0 :
          /\ status[m] = IF LiveNow \subseteq Live0 THEN "none" ELSE "live"
          /\ status' = [status EXCEPT ![m] = "live"]
          /\ submission' \in {[submission EXCEPT !.at = "failed"],
                             [submission EXCEPT !.at = "done", !.of = m]}
  /\ UNCHANGED <<recorded, page, snapshot, withdrawDialog, mitigateNowOpen, form, formError, visits, typings>>

-----------------------------------------------------------------------------
(* The pages *)

MitigationsFetched ==
  /\ snapshot # LiveNow /\ snapshot' = LiveNow
  /\ UNCHANGED <<status, recorded, page, withdrawDialog, mitigateDialog, visits, typings>>

(* Another page: what was mounted is gone, a request it sent is not. (Only *)
(* one submission is out at a time.)                                       *)
Visit(p) ==
  /\ p # page /\ visits < MaxVisits /\ visits' = visits + 1 /\ page' = p
  /\ withdrawTarget' = Nobody /\ withdrawReason' = NoReason /\ withdrawError' = FALSE
  /\ stray' = IF withdrawal.at = "out" THEN stray \cup {withdrawal} ELSE stray
  /\ withdrawal' = Idle
  /\ mitigateNowOpen' = FALSE /\ form' = "empty" /\ formError' = FALSE
(* By link or shortcut; a submission still out is followed when answered.  *)
Navigate(p) ==
  /\ Visit(p)
  /\ submission' = IF submission.at = "idle" THEN submission ELSE [submission EXCEPT !.left = TRUE]
  /\ UNCHANGED <<status, recorded, snapshot, written, confirmed, typings>>

(* setWithdrawTarget of a row shown active, and the button of a page.      *)
OpensAbout(m) ==
  /\ withdrawTarget = Nobody /\ ~mitigateNowOpen /\ m \in snapshot
  /\ withdrawTarget' = m
  /\ UNCHANGED <<status, recorded, page, snapshot, withdrawReason, withdrawError, withdrawal, stray,
                 written, confirmed, mitigateDialog, visits, typings>>
OpenWithdraw(m) == page = "list" /\ OpensAbout(m)
ShowWithdrawDialog(m) == page = m /\ OpensAbout(m)
(* Nothing is disabled but the buttons.                                    *)
TypeReason(r) ==
  /\ withdrawTarget # Nobody /\ r # withdrawReason /\ typings < MaxTyped /\ typings' = typings + 1
  /\ withdrawReason' = r /\ written' = written \cup {<<withdrawTarget, r>>}
  /\ UNCHANGED <<status, recorded, page, snapshot, withdrawTarget, withdrawError, withdrawal, stray,
                 confirmed, mitigateDialog, visits>>
(* onOpenChange(false): the list forgets, the mitigation's page does not.  *)
KeptReasonMutant == withdrawTarget' = Nobody /\ UNCHANGED <<withdrawReason, withdrawError>>
DialogCloses ==
  /\ withdrawTarget' = Nobody
  /\ IF page = "list" THEN withdrawReason' = NoReason /\ withdrawError' = FALSE
     ELSE UNCHANGED <<withdrawReason, withdrawError>>
(* Cancel is disabled while withdrawing, Escape is not.                    *)
CancelWithdraw ==
  /\ withdrawTarget # Nobody /\ DialogCloses
  /\ UNCHANGED <<status, recorded, page, snapshot, withdrawal, stray, written, confirmed,
                 mitigateDialog, visits, typings>>
(* handleWithdraw sends what it was rendered with; AlertDialogAction then  *)
(* closes the dialog. (withdrawError is reset first, on both pages.)       *)
HandleWithdraw ==
  /\ withdrawTarget # Nobody /\ ~IsWithdrawing
  /\ withdrawal' = [at |-> "out", of |-> withdrawTarget,
                    reason |-> IF withdrawReason = NoReason THEN Manual ELSE withdrawReason]
  /\ confirmed' = confirmed \cup {withdrawTarget}
  /\ withdrawTarget' = Nobody /\ withdrawError' = FALSE
  /\ withdrawReason' = IF page = "list" THEN NoReason ELSE withdrawReason
  /\ UNCHANGED <<status, recorded, page, snapshot, stray, written, mitigateDialog, visits, typings>>
(* Its end closes whatever dialog is open by then, or puts its error into  *)
(* that one or the next.                                                   *)
WithdrawEnds ==
  /\ withdrawal.at \in {"done", "failed"} /\ withdrawal' = Idle
  /\ IF withdrawal.at = "done"
     THEN /\ withdrawTarget' = Nobody /\ UNCHANGED withdrawError
          /\ withdrawReason' = IF page = "list" THEN NoReason ELSE withdrawReason
          /\ snapshot' \in {snapshot, LiveNow}
     ELSE withdrawError' = TRUE /\ UNCHANGED <<withdrawTarget, withdrawReason, snapshot>>
  /\ UNCHANGED <<status, recorded, page, stray, written, confirmed, mitigateDialog, visits, typings>>

(* Mitigate Now, over the list.                                            *)
OpenMitigateNow ==
  /\ page = "list" /\ withdrawTarget = Nobody /\ ~mitigateNowOpen /\ mitigateNowOpen' = TRUE
  /\ UNCHANGED <<status, recorded, page, snapshot, withdrawDialog, form, formError, submission, visits, typings>>
FillForm ==
  /\ mitigateNowOpen /\ typings < MaxTyped /\ typings' = typings + 1
  /\ form' \in {"valid", "invalid"} \ {form}
  /\ UNCHANGED <<status, recorded, page, snapshot, withdrawDialog, mitigateNowOpen, formError, submission, visits>>
(* Escape, the cross and the overlay reset the form, Cancel does not; none *)
(* closes it while a submission is out.                                    *)
CloseMitigateNow ==
  /\ mitigateNowOpen /\ ~IsSubmitting /\ mitigateNowOpen' = FALSE
  /\ \/ form' = "empty" /\ formError' = FALSE
     \/ UNCHANGED <<form, formError>>
  /\ UNCHANGED <<status, recorded, page, snapshot, withdrawDialog, submission, visits, typings>>
HandleSubmit ==
  /\ mitigateNowOpen /\ form = "valid" /\ submission.at = "idle"
  /\ submission' = [NoSubmission EXCEPT !.at = "out"] /\ formError' = FALSE
  /\ UNCHANGED <<status, recorded, page, snapshot, withdrawDialog, mitigateNowOpen, form, visits, typings>>
(* router.push goes to the mitigation from wherever the user is by then.   *)
SubmitEnds ==
  /\ submission.at \in {"done", "accepted", "failed"} /\ submission' = NoSubmission
  /\ IF submission.at = "done" /\ submission.of # page
     THEN Visit(submission.of) /\ UNCHANGED <<written, confirmed>>
     ELSE /\ UNCHANGED <<withdrawDialog, page, visits>>
          /\ IF submission.left THEN UNCHANGED <<mitigateNowOpen, form, formError>>
             ELSE /\ formError' = (submission.at = "failed")
                  /\ mitigateNowOpen' = (submission.at = "failed")
                  /\ form' = IF submission.at = "failed" THEN form ELSE "empty"
  /\ UNCHANGED <<status, recorded, snapshot, typings>>

WithdrawalsInit ==
  /\ status = [m \in Mitigations |-> IF m \in Live0 THEN "live" ELSE "none"]
  /\ recorded = [m \in Mitigations |-> NoReason] /\ page = "list" /\ snapshot = Live0
  /\ withdrawTarget = Nobody /\ withdrawReason = NoReason /\ withdrawError = FALSE
  /\ withdrawal = Idle /\ stray = {} /\ written = {} /\ confirmed = {}
  /\ mitigateNowOpen = FALSE /\ form = "empty" /\ formError = FALSE
  /\ submission = NoSubmission /\ visits = 0 /\ typings = 0

WithdrawalsNext ==
  \/ WithdrawServed \/ StrayServed \/ SubmissionServed \/ MitigationsFetched
  \/ \E m \in Mitigations : GoesAway(m) \/ OpenWithdraw(m) \/ ShowWithdrawDialog(m)
  \/ \E p \in {"list", "elsewhere"} \cup LiveNow : Navigate(p)
  \/ \E r \in Reasons : TypeReason(r)
  \/ CancelWithdraw \/ HandleWithdraw \/ WithdrawEnds
  \/ OpenMitigateNow \/ FillForm \/ CloseMitigateNow \/ HandleSubmit \/ SubmitEnds

-----------------------------------------------------------------------------
(* Properties *)

WithdrawalsTypeOK ==
  /\ status \in [Mitigations -> {"none", "live", "gone"}]
  /\ recorded \in [Mitigations -> Reasons \cup {NoReason, Manual}]
  /\ page \in Mitigations \cup {"list", "elsewhere"} /\ snapshot \subseteq Mitigations
  /\ withdrawTarget \in Mitigations \cup {Nobody} /\ withdrawReason \in Reasons \cup {NoReason}
  /\ form \in {"empty", "valid", "invalid"} /\ withdrawError \in BOOLEAN /\ formError \in BOOLEAN
  /\ withdrawal.at \in {"idle", "out", "done", "failed"} /\ (withdrawTarget # Nobody => ~mitigateNowOpen)
  /\ submission.at \in {"idle", "out", "done", "accepted", "failed"}

(* handleWithdraw and the dialog's onOpenChange: what is withdrawn is what *)
(* a dialog asked about when it was confirmed, and the reason recorded was *)
(* typed for it, however many dialogs were opened, cancelled, answered     *)
(* late or left in between.                                                *)
WithdrawnWasConfirmed ==
  \A m \in Mitigations :
    /\ recorded[m] # NoReason => m \in confirmed
    /\ recorded[m] \in Reasons => <<m, recorded[m]>> \in written
=============================================================================
