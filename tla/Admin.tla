-------------------------------- MODULE Admin --------------------------------
(***************************************************************************)
(* Operators and the safelist: the daemon's handlers, other clients of     *)
(* theirs, and the dashboard's admin page, which offers the operators only *)
(* where nobody signs in (Session: a signed-in admin has no role there).   *)
(* Calls are answered whenever they are; an answer without a body is an    *)
(* error to the page's doFetch though what was asked is done: "unread".    *)
(***************************************************************************)
EXTENDS Naturals, FiniteSets

CONSTANTS
  Usernames,       (* what is typed as one                                  *)
  SafePrefixes,    (* likewise                                              *)
  MaxCalls, MaxAtOnce, MaxIds               (* bounds                       *)

Admins == {[id |-> 1, name |-> "first"], [id |-> 2, name |-> "second"]}
NoUser == [id |-> 0, name |-> ""]

ASSUME AdminAssumption ==
  "" \notin Usernames /\ MaxCalls \in Nat /\ MaxAtOnce \in Nat /\ MaxIds \in Nat \ {0, 1}

VARIABLES
  signedIn,        (* auth.mode: credentials, or none                       *)
  accounts,        (* the operators table                                   *)
  lastId,          (* of an account                                         *)
  safelist,        (* the safelist table's prefixes                         *)
  calls,           (* what is under way, and what the page has to handle    *)
  called,          (* how many calls there were                             *)
  changed          (* the ids whose password was set                        *)
VARIABLES
  operators,       (* SWR's accounts                                        *)
  safelisted,      (* SWR's prefixes                                        *)
  adminDialog,     (* which one is open, if any, and about whom             *)
  newUsername,
  newUserPassword  (* whether one is typed: Cancel keeps it                 *)
adminDaemon == <<signedIn, accounts, lastId, safelist, calls, called, changed>>
adminForms == <<adminDialog, newUsername, newUserPassword>>
adminPage == <<operators, safelisted, adminForms>>
adminVars == <<adminDaemon, adminPage>>

-----------------------------------------------------------------------------
(* The daemon *)

AccountNames == Usernames \cup {"first", "second"}
CalledNames == AccountNames \cup SafePrefixes \cup {""}
Called == [id : Nat, name : CalledNames]
Call == [by : {"page", "first", "second"}, op : {"create", "delete", "password", "add", "remove", "reload"},
         of : Called, at : {"sent", "checked", "done", "unread", "failed"}]

(* Only the page's answers are looked at here.                             *)
Answer(c, at) == calls' = (calls \ {c}) \cup {d \in {[c EXCEPT !.at = at]} : d.by = "page"}

(* require_role takes the session's operator, as it is in the table, or a  *)
(* synthetic admin. delete_operator refuses to delete the caller.          *)
IdOf(by) == IF ~signedIn THEN 0 ELSE IF by = "second" THEN 2 ELSE 1
Admitted(by) == signedIn => \E a \in accounts : a.id = IdOf(by)
Refused(c) == ~Admitted(c.by) \/ (c.op = "delete" /\ c.of.id = IdOf(c.by))
CallFails(c) ==
  /\ c.at \in {"sent", "checked"} /\ Answer(c, "failed")
  /\ UNCHANGED <<signedIn, accounts, lastId, safelist, called, changed, adminPage>>

Named(name) == {a \in accounts : a.name = name}
ByNameMutant(of) == Named(of.name)
Target(of) == {a \in accounts : a.id = of.id}

(* create_operator and change_password look first, hash the password, and  *)
(* write when that is done. An INSERT of a name that is there fails.       *)
Looked(c) ==
  /\ c.at = "sent" /\ ~Refused(c)
  /\ \/ c.op = "create" /\ Named(c.of.name) = {}
     \/ c.op = "password" /\ Target(c.of) # {}
  /\ calls' = (calls \ {c}) \cup {[c EXCEPT !.at = "checked"]}
  /\ UNCHANGED <<signedIn, accounts, lastId, safelist, called, changed, adminPage>>
Insertable(name) == Named(name) = {}
Created(c) ==
  /\ c.op = "create" /\ c.at = "checked" /\ Insertable(c.of.name) /\ lastId < MaxIds
  /\ lastId' = lastId + 1
  /\ accounts' = accounts \cup {[id |-> lastId + 1, name |-> c.of.name]}
  /\ \E at \in {"done", "failed"} : Answer(c, at)
  /\ UNCHANGED <<signedIn, safelist, called, changed, adminPage>>
Deleted(c) ==
  /\ c.op = "delete" /\ c.at = "sent" /\ ~Refused(c) /\ Target(c.of) # {}
  /\ accounts' = accounts \ Target(c.of) /\ Answer(c, "unread")
  /\ UNCHANGED <<signedIn, lastId, safelist, called, changed, adminPage>>
PasswordSet(c) ==
  /\ c.op = "password" /\ c.at = "checked" /\ Answer(c, "unread")
  /\ changed' = changed \cup {a.id : a \in Target(c.of)}
  /\ UNCHANGED <<signedIn, accounts, lastId, safelist, called, adminPage>>
(* An upsert, and a DELETE that must find its row. Any role may.           *)
SafelistWritten(c) ==
  /\ c.at = "sent" /\ ~Refused(c)
  /\ \/ c.op = "add" /\ safelist' = safelist \cup {c.of.name}
     \/ c.op = "remove" /\ c.of.name \in safelist /\ safelist' = safelist \ {c.of.name}
  /\ Answer(c, "unread")
  /\ UNCHANGED <<signedIn, accounts, lastId, called, changed, adminPage>>
(* reload_config changes nothing here, and answers with a body.            *)
ReloadServed(c) ==
  /\ c.op = "reload" /\ c.at = "sent" /\ ~Refused(c) /\ Answer(c, "done")
  /\ UNCHANGED <<signedIn, accounts, lastId, safelist, called, changed, adminPage>>

Sends(by, op, of) ==
  /\ called < MaxCalls /\ called' = called + 1 /\ Cardinality(calls) < MaxAtOnce
  /\ calls' = calls \cup {[by |-> by, op |-> op, of |-> of, at |-> "sent"]}
ClientCalls ==
  /\ \E by \in {"first", "second"} : (by = "first" => signedIn) /\
       \/ \E name \in Usernames : Sends(by, "create", [id |-> 0, name |-> name])
       \/ \E a \in accounts : Sends(by, "delete", a) \/ Sends(by, "password", a)
  /\ UNCHANGED <<signedIn, accounts, lastId, safelist, changed, adminPage>>

-----------------------------------------------------------------------------
(* The page *)

Pending(op) == \E c \in calls : c.by = "page" /\ c.op = op
Closed == [kind |-> "none", of |-> NoUser]

(* A row takes its delete dialog with it, the password dialog is no row's. *)
OperatorsFetched ==
  /\ ~signedIn /\ operators # accounts /\ operators' = accounts
  /\ adminDialog' = IF adminDialog.kind = "delete" /\ adminDialog.of \notin accounts
                    THEN Closed ELSE adminDialog
  /\ UNCHANGED <<adminDaemon, safelisted, newUsername, newUserPassword>>
SafelistFetched ==
  /\ Admitted("page") /\ safelisted # safelist /\ safelisted' = safelist
  /\ UNCHANGED <<adminDaemon, operators, adminForms>>

(* The Users tab is there for permissions.canManageUsers only.             *)
CanManageUsers == ~signedIn
OpenDialog ==
  /\ CanManageUsers /\ adminDialog = Closed
  /\ \/ adminDialog' = [kind |-> "create", of |-> NoUser]
     \/ \E a \in operators, kind \in {"password", "delete"} : adminDialog' = [kind |-> kind, of |-> a]
  /\ UNCHANGED <<adminDaemon, operators, safelisted, newUsername, newUserPassword>>
CloseDialog ==
  /\ adminDialog # Closed /\ adminDialog' = Closed
  /\ UNCHANGED <<adminDaemon, operators, safelisted, newUsername, newUserPassword>>
TypeUser ==
  /\ \/ adminDialog.kind = "create" /\ newUsername' \in Usernames \ {newUsername}
        /\ UNCHANGED newUserPassword
     \/ adminDialog.kind = "password" /\ ~newUserPassword /\ newUserPassword' = TRUE
        /\ UNCHANGED newUsername
  /\ UNCHANGED <<adminDaemon, operators, safelisted, adminDialog>>

HandleCreateUser ==
  /\ adminDialog.kind = "create" /\ newUsername # "" /\ ~Pending("create")
  /\ Sends("page", "create", [id |-> 0, name |-> newUsername])
  /\ UNCHANGED <<signedIn, accounts, lastId, safelist, changed, operators, safelisted, adminDialog,
                 newUsername, newUserPassword>>
HandleChangePassword ==
  /\ adminDialog.kind = "password" /\ newUserPassword /\ ~Pending("password")
  /\ Sends("page", "password", adminDialog.of)
  /\ UNCHANGED <<signedIn, accounts, lastId, safelist, changed, operators, safelisted, adminDialog,
                 newUsername, newUserPassword>>
HandleDeleteUser ==
  /\ adminDialog.kind = "delete"
  /\ Sends("page", "delete", adminDialog.of) /\ adminDialog' = Closed
  /\ UNCHANGED <<signedIn, accounts, lastId, safelist, changed, operators, safelisted, newUsername,
                 newUserPassword>>
HandleAddSafelist(p) ==
  /\ adminDialog = Closed /\ ~Pending("add")
  /\ Sends("page", "add", [id |-> 0, name |-> p])
  /\ UNCHANGED <<signedIn, accounts, lastId, safelist, changed, operators, safelisted, adminDialog,
                 newUsername, newUserPassword>>
HandleRemoveSafelist(p) ==
  /\ adminDialog = Closed /\ p \in safelisted
  /\ Sends("page", "remove", [id |-> 0, name |-> p])
  /\ UNCHANGED <<signedIn, accounts, lastId, safelist, changed, operators, safelisted, adminForms>>
HandleReloadConfig ==
  /\ adminDialog = Closed /\ ~Pending("reload")
  /\ Sends("page", "reload", NoUser)
  /\ UNCHANGED <<signedIn, accounts, lastId, safelist, changed, operators, safelisted, adminForms>>

(* Two answers can be read: a created account's closes its dialog and      *)
(* refetches the operators, a reload's refetches all there is. Any other   *)
(* is an error, shown in whichever dialog is open, or in the next.         *)
Handled(c) ==
  /\ c.by = "page" /\ c.at \in {"done", "unread", "failed"} /\ calls' = calls \ {c}
  /\ IF c.at = "done"
     THEN /\ operators' \in {operators, accounts}
          /\ safelisted' \in {safelisted} \cup (IF c.op = "reload" THEN {safelist} ELSE {})
          /\ newUsername' = IF c.op = "create" THEN "" ELSE newUsername
          /\ adminDialog' = IF (adminDialog.kind = "create" /\ c.op = "create")
                               \/ (adminDialog.kind = "delete" /\ adminDialog.of \notin operators')
                            THEN Closed ELSE adminDialog
     ELSE UNCHANGED <<operators, safelisted, adminDialog, newUsername>>
  /\ UNCHANGED <<signedIn, accounts, lastId, safelist, called, changed, newUserPassword>>

AdminInit ==
  /\ signedIn \in BOOLEAN /\ accounts = Admins /\ lastId = 2 /\ safelist = {} /\ calls = {} /\ called = 0
  /\ changed = {} /\ operators = (IF signedIn THEN {} ELSE Admins) /\ safelisted = {}
  /\ adminDialog = Closed /\ newUsername = "" /\ newUserPassword = FALSE

AdminNext ==
  \/ \E c \in calls : \/ CallFails(c) \/ Looked(c) \/ Created(c) \/ Deleted(c) \/ PasswordSet(c)
                      \/ SafelistWritten(c) \/ ReloadServed(c) \/ Handled(c)
  \/ ClientCalls \/ OperatorsFetched \/ SafelistFetched
  \/ OpenDialog \/ CloseDialog \/ TypeUser
  \/ HandleCreateUser \/ HandleChangePassword \/ HandleDeleteUser \/ HandleReloadConfig
  \/ \E p \in SafePrefixes : HandleAddSafelist(p) \/ HandleRemoveSafelist(p)

-----------------------------------------------------------------------------
(* Properties *)

AdminTypeOK ==
  /\ accounts \subseteq [id : 1..MaxIds, name : AccountNames]
  /\ lastId \in 0..MaxIds /\ called \in 0..MaxCalls /\ calls \subseteq Call /\ changed \subseteq 1..MaxIds
  /\ safelist \subseteq SafePrefixes /\ safelisted \subseteq SafePrefixes
  /\ adminDialog.kind \in {"none", "create", "password", "delete"}
  /\ adminDialog.kind = "delete" => adminDialog.of \in operators
  /\ newUsername \in Usernames \cup {""} /\ newUserPassword \in BOOLEAN

(* Lists of operators may be old, and a name may have come back as another *)
(* account: nobody is deleted and no password set but of the accounts that *)
(* the page's dialogs, or other clients, named.                            *)
TouchedWereNamed ==
  [][\A a \in accounts : a \notin accounts' \/ a.id \in changed' \ changed =>
       \E c \in calls \ calls' : c.op \in {"delete", "password"} /\ c.of = a]_adminVars
=============================================================================
