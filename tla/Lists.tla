------------------------------- MODULE Lists -------------------------------
(***************************************************************************)
(* The three list pages, mitigations, events and the audit log: the window *)
(* of rows the daemon gives them while rows come and change, the filters,  *)
(* the sorting, the pages and their effects, and the row that is open.     *)
(***************************************************************************)
EXTENDS Naturals, Sequences, SequencesExt, Recursion

CONSTANTS
  Classes,         (* what the page's own filters tell apart                *)
  Window,          (* the GET's limit: 100 mitigations, 200 of the others   *)
  ItemsPerPage,    (* 20                                                    *)
  MaxRows          (* bound: on the rows there ever are                     *)

All == "All"
Statuses == {"active", "expired"}

ASSUME ListsAssumption ==
  All \notin Classes /\ Window \in Nat /\ ItemsPerPage \in Nat \ {0} /\ MaxRows \in Nat \ {0}

VARIABLES
  list,            (* which of the pages this is                            *)
  table,           (* the daemon's rows, oldest first; a row's id is its    *)
                   (* place                                                 *)
  listed,          (* SWR's rows, newest first, or <<>> while it loads      *)
  statusFilters, classFilter, ascending, currentPage,
  selectedId,      (* selectedId or expandedId, or 0                        *)
  flush,           (* what React does next after a render, if anything      *)
  queued,          (* the page that the effects have set, or 0              *)
  filtered         (* history: whether the last event was a new filter      *)
flushVars == <<flush, queued, filtered>>
listVars == <<list, table, listed, statusFilters, classFilter, ascending, currentPage, selectedId, flushVars>>

Row == [id : Nat, class : Classes, status : Statuses]

(* list_mitigations filters by status; the window is of the newest.        *)
RowsFor(filters) ==
  LET newest == Reverse(table)
      wanted == Picked(newest, {i \in DOMAIN newest : filters = {} \/ newest[i].status \in filters})
  IN SubSeq(wanted, 1, IF Len(wanted) < Window THEN Len(wanted) ELSE Window)

(* filteredMitigations, filteredEvents and filteredLogs; one of the sort   *)
(* fields.                                                                 *)
Passed(rows, class) == Picked(rows, {i \in DOMAIN rows : class \in {All, rows[i].class}})
Filtered(rows, class) ==
  IF ascending THEN Reverse(Passed(rows, class)) ELSE Passed(rows, class)
TotalPages(rows, class) ==
  (Len(Filtered(rows, class)) + ItemsPerPage - 1) \div ItemsPerPage
Paginated ==
  LET rows == Filtered(listed, classFilter)
      first == (currentPage - 1) * ItemsPerPage
      last == IF Len(rows) < first + ItemsPerPage THEN Len(rows) ELSE first + ItemsPerPage
  IN SubSeq(rows, first + 1, last)

(* An event renders page p; then come the effects whose dependencies       *)
(* changed, in their order, then the render of what they set, and so on    *)
(* until nothing is set.  Another event waits for that.  Events has no     *)
(* effects.                                                                *)
NoResetMutant(newFilter) == "clamp"
FirstEffect(newFilter) == IF newFilter THEN "reset" ELSE "clamp"
Rendered(p, newFilter) ==
  /\ flush = "settled" /\ currentPage' = p /\ queued' = 0 /\ filtered' = newFilter
  /\ flush' = IF list = "events" THEN "settled" ELSE FirstEffect(newFilter)
ResetEffect ==
  /\ flush = "reset" /\ flush' = "clamp" /\ queued' = 1
  /\ UNCHANGED <<list, table, listed, statusFilters, classFilter, ascending, currentPage, selectedId, filtered>>
(* It has its render's page, not the one the other effect has set.         *)
ClampEffect ==
  /\ flush = "clamp"
  /\ LET total == TotalPages(listed, classFilter) IN
       queued' = IF total > 0 /\ currentPage > total THEN total ELSE queued
  /\ flush' = IF queued' = 0 THEN "settled" ELSE "render"
  /\ UNCHANGED <<list, table, listed, statusFilters, classFilter, ascending, currentPage, selectedId, filtered>>
Rerender ==
  /\ flush = "render" /\ currentPage' = queued /\ queued' = 0
  /\ flush' = IF queued = currentPage THEN "settled" ELSE "clamp"
  /\ UNCHANGED <<list, table, listed, statusFilters, classFilter, ascending, selectedId, filtered>>

-----------------------------------------------------------------------------
RowArrives(class) ==
  /\ Len(table) < MaxRows
  /\ table' = Append(table, [id |-> Len(table) + 1, class |-> class, status |-> "active"])
  /\ UNCHANGED <<list, listed, statusFilters, classFilter, ascending, currentPage, selectedId, flushVars>>
RowExpires(i) ==
  /\ list = "mitigations" /\ table[i].status = "active"
  /\ table' = [table EXCEPT ![i].status = "expired"]
  /\ UNCHANGED <<list, listed, statusFilters, classFilter, ascending, currentPage, selectedId, flushVars>>
Listed ==
  /\ listed # RowsFor(statusFilters)
  /\ listed' = RowsFor(statusFilters)
  /\ UNCHANGED <<list, table, statusFilters, classFilter, ascending, selectedId>>
  /\ Rendered(currentPage, FALSE)

(* Another set of statuses is another SWR key: it loads, or SWR knows it.  *)
ToggleStatusFilter ==
  /\ list = "mitigations"
  /\ statusFilters' \in {{"active"}, {"expired"}, {}} \ {statusFilters}
  /\ listed' \in {<<>>, RowsFor(statusFilters')}
  /\ UNCHANGED <<list, table, classFilter, ascending, selectedId>>
  /\ Rendered(1, TRUE)
(* The customer and POP filters of mitigations reset the page themselves,  *)
(* its search and the audit log's filters leave that to the effects, those *)
(* of events do not reset it.                                              *)
NewFilter ==
  /\ classFilter' \in (Classes \cup {All}) \ {classFilter}
  /\ UNCHANGED <<list, table, listed, statusFilters, ascending, selectedId>>
SetCustomerFilter == list = "mitigations" /\ NewFilter /\ Rendered(1, TRUE)
SetEventFilter == list = "events" /\ NewFilter /\ Rendered(currentPage, FALSE)
SetAuditFilter == list # "events" /\ NewFilter /\ Rendered(currentPage, TRUE)
HandleSort ==
  /\ ascending' = ~ascending
  /\ UNCHANGED <<list, table, listed, statusFilters, classFilter, selectedId>>
  /\ Rendered(currentPage, FALSE)

(* The pager under a list.                                                 *)
Turned(p) ==
  /\ UNCHANGED <<list, table, listed, statusFilters, classFilter, ascending, selectedId>>
  /\ Rendered(p, FALSE)
Previous == currentPage > 1 /\ Turned(currentPage - 1)
NextPage ==
  LET total == TotalPages(listed, classFilter) IN
  /\ currentPage # total /\ total > 0
  /\ Turned(IF total < currentPage + 1 THEN total ELSE currentPage + 1)

(* A click on a row; on mitigations it opens another page (Shell).         *)
SelectEvent(i) ==
  /\ flush = "settled" /\ list = "events" /\ i \in DOMAIN Paginated /\ selectedId' = Paginated[i].id
  /\ UNCHANGED <<list, table, listed, statusFilters, classFilter, ascending, currentPage, flushVars>>
CloseEvent ==
  /\ flush = "settled" /\ list = "events" /\ selectedId # 0 /\ selectedId' = 0
  /\ UNCHANGED <<list, table, listed, statusFilters, classFilter, ascending, currentPage, flushVars>>
IsExpanded(i) == selectedId = Paginated[i].id
ToggleExpanded(i) ==
  /\ flush = "settled" /\ list = "audit" /\ i \in DOMAIN Paginated
  /\ selectedId' = IF IsExpanded(i) THEN 0 ELSE Paginated[i].id
  /\ UNCHANGED <<list, table, listed, statusFilters, classFilter, ascending, currentPage, flushVars>>

ListsInit ==
  /\ list \in {"mitigations", "events", "audit"}
  /\ table = <<>> /\ listed = <<>> /\ classFilter = All /\ ascending = FALSE
  /\ statusFilters = (IF list = "mitigations" THEN {"active"} ELSE {})
  /\ currentPage = 1 /\ selectedId = 0
  /\ flush = (IF list = "events" THEN "settled" ELSE FirstEffect(TRUE)) /\ queued = 0 /\ filtered = FALSE

ListsNext ==
  \/ \E class \in Classes : RowArrives(class)
  \/ \E i \in DOMAIN table : RowExpires(i)
  \/ Listed \/ ToggleStatusFilter \/ SetCustomerFilter \/ SetEventFilter \/ SetAuditFilter
  \/ HandleSort \/ Previous \/ NextPage \/ ResetEffect \/ ClampEffect \/ Rerender
  \/ \E i \in 1..ItemsPerPage : SelectEvent(i) \/ ToggleExpanded(i)
  \/ CloseEvent

-----------------------------------------------------------------------------
(* Properties *)

ListsTypeOK ==
  /\ list \in {"mitigations", "events", "audit"} /\ table \in Seq(Row) /\ listed \in Seq(Row)
  /\ Len(listed) <= Window /\ statusFilters \subseteq Statuses
  /\ classFilter \in Classes \cup {All} /\ ascending \in BOOLEAN
  /\ currentPage \in 1..MaxRows /\ selectedId \in 0..Len(table)
  /\ flush \in {"settled", "reset", "clamp", "render"} /\ queued \in 0..MaxRows /\ filtered \in BOOLEAN

(* The two effects of the mitigations and the audit page, the reset of a   *)
(* new filter and the clamp to the last page, set the same state in one    *)
(* flush, the second over the first: what they come to is a page that      *)
(* there is, and after a new filter the first, or the last if the page was *)
(* beyond it.                                                              *)
FilterTurnsToAnEnd ==
  flush = "settled" /\ list # "events" => LET total == TotalPages(listed, classFilter) IN
    /\ total > 0 => currentPage <= total
    /\ filtered => currentPage \in {1, total}
=============================================================================
