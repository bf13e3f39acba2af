-------------------------------- MODULE View --------------------------------
(***************************************************************************)
(* What the pages of the dashboard promise about the data they show: it is *)
(* the daemon's data at some moment, and never gets older.                 *)
(***************************************************************************)
EXTENDS Naturals

CONSTANT Keys      (* the pieces of data shown                              *)
VARIABLES
  current,         (* the version of the data the daemon holds              *)
  known            (* the version of each that is shown, 0 before the first *)
vars == <<current, known>>

Init == current = 1 /\ known = [k \in Keys |-> 0]

Change == current' = current + 1 /\ UNCHANGED known
Refresh ==
  /\ known' \in [Keys -> 0..current] /\ \A k \in Keys : known[k] <= known'[k]
  /\ UNCHANGED current

Spec == Init /\ [][Change \/ Refresh]_vars
=============================================================================
