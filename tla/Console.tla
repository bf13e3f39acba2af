------------------------------- MODULE Console -------------------------------
(***************************************************************************)
(* The dashboard's pages, each with the daemon's handlers it works with: a *)
(* behaviour is that of one page, which starts as it is mounted.  (Of the  *)
(* login page it is the handler; Session has the page.)                    *)
(***************************************************************************)
EXTENDS AlertingPanel, PlaybookEditor, Lists, Withdrawals, Admin, Shell, Throttle

VARIABLE route
consoleVars == <<route, alertingVars, playbookVars, listVars, withdrawalVars, adminVars, shellVars, throttleVars>>

Routes == {"alerting", "playbooks", "lists", "withdrawals", "admin", "shell", "login"}
ConsoleInit ==
  /\ route \in Routes
  /\ AlertingPanelInit /\ PlaybookInit /\ ListsInit /\ WithdrawalsInit /\ AdminInit /\ ShellInit
  /\ ThrottleInit
  /\ route # "lists" => list = "mitigations"
  /\ route # "admin" => ~signedIn
  /\ route # "shell" => isAdmin /\ remembered

ConsoleNext ==
  /\ UNCHANGED route
  /\ \/ /\ route = "alerting" /\ AlertingPanelNext
        /\ UNCHANGED <<playbookVars, listVars, withdrawalVars, adminVars, shellVars, throttleVars>>
     \/ /\ route = "playbooks" /\ PlaybookNext
        /\ UNCHANGED <<alertingVars, listVars, withdrawalVars, adminVars, shellVars, throttleVars>>
     \/ /\ route = "lists" /\ ListsNext
        /\ UNCHANGED <<alertingVars, playbookVars, withdrawalVars, adminVars, shellVars, throttleVars>>
     \/ /\ route = "withdrawals" /\ WithdrawalsNext
        /\ UNCHANGED <<alertingVars, playbookVars, listVars, adminVars, shellVars, throttleVars>>
     \/ /\ route = "admin" /\ AdminNext
        /\ UNCHANGED <<alertingVars, playbookVars, listVars, withdrawalVars, shellVars, throttleVars>>
     \/ /\ route = "shell" /\ ShellNext
        /\ UNCHANGED <<alertingVars, playbookVars, listVars, withdrawalVars, adminVars, throttleVars>>
     \/ /\ route = "login" /\ ThrottleNext
        /\ UNCHANGED <<alertingVars, playbookVars, listVars, withdrawalVars, adminVars, shellVars>>

ConsoleSpec == ConsoleInit /\ [][ConsoleNext]_consoleVars

(* The page's variables keep to their types.                               *)
ConsoleTypeOK ==
  CASE route = "alerting" -> AlertingPanelTypeOK
    [] route = "playbooks" -> PlaybookTypeOK
    [] route = "lists" -> ListsTypeOK
    [] route = "withdrawals" -> WithdrawalsTypeOK
    [] route = "admin" -> AdminTypeOK
    [] route = "shell" -> ShellTypeOK
    [] route = "login" -> ThrottleTypeOK
=============================================================================
