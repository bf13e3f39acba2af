------------------------------- MODULE Ledger -------------------------------
(***************************************************************************)
(* What the mitigations table promises whoever reads it: an entry keeps    *)
(* what it blocks, is never taken out, is refused for good or lives, ends  *)
(* and may live again, ends by expiry only when its deadline has passed,   *)
(* and is the only one alive for its scope in its POP.  A deadline is      *)
(* whatever the last writer made it, and may move to either side.          *)
(***************************************************************************)
EXTENDS Naturals

CONSTANTS
  Ids, Scopes, Pops, Acts,
  Latest           (* no deadline is later                                  *)
VARIABLES
  clock,
  entries          (* what is in the ledger, by its id                      *)
vars == <<clock, entries>>

Entry == [scope : Scopes, pop : Pops, act : Acts, due : 0..Latest,
          state : {"live", "expired", "withdrawn", "refused"}]

(* No other entry is alive for what e blocks.                              *)
Free(m, e) ==
  \A n \in DOMAIN entries \ {m} :
    entries[n].state = "live" => entries[n].scope # e.scope \/ entries[n].pop # e.pop

Init == clock = 0 /\ entries = << >>

Enter(m) ==
  /\ m \in DOMAIN entries' \ DOMAIN entries
  /\ \E e \in Entry :
       /\ e.state = "refused" \/ (e.state = "live" /\ Free(m, e))
       /\ entries' = [n \in DOMAIN entries \cup {m} |-> IF n = m THEN e ELSE entries[n]]
  /\ UNCHANGED clock

Turn(m, state, due) ==
  /\ m \in DOMAIN entries /\ entries[m].state # "refused"
  /\ entries' = [entries EXCEPT ![m].state = state, ![m].due = due]
  /\ UNCHANGED clock
Extend(m) == \E due \in 0..Latest : Turn(m, "live", due) /\ Free(m, entries[m])
Withdraw(m) == \E due \in 0..Latest : Turn(m, "withdrawn", due)
Expire(m) == \E due \in 0..Latest : Turn(m, "expired", due) /\ due < clock

Pass == clock' = clock + 1 /\ UNCHANGED entries

Next == Pass \/ \E m \in Ids : Enter(m) \/ Extend(m) \/ Withdraw(m) \/ Expire(m)

Spec == Init /\ [][Next]_vars
=============================================================================
