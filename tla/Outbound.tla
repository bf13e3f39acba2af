------------------------------ MODULE Outbound ------------------------------
(***************************************************************************)
(* What a handler or the reconciler does after the database took a change: *)
(* send a message to the feed, then, one await later, hand an alert to the *)
(* service in force.  The tail of the request that created a mitigation    *)
(* and the one that ends it may overlap.                                   *)
(***************************************************************************)
EXTENDS Feed, Alerting

CONSTANTS Mitigations

ASSUME OutboundAssumption ==
  Facts = Mitigations \X {"created", "ended"} /\ Alerts = Facts

VARIABLE tail      (* "idle", "send", "alert" or "done", per fact           *)
vars == <<tail, feedVars, alertVars>>

(* The INSERT or UPDATE takes effect; a mitigation ends after it began.    *)
Commit(f) ==
  /\ tail[f] = "idle"
  /\ f[2] = "ended" => <<f[1], "created">> \in committed
  /\ tail' = [tail EXCEPT ![f] = "send"]
  /\ committed' = committed \cup {f}
  /\ UNCHANGED <<sent, connVars, alertVars>>

(* create_mitigation tells neither the feed nor the alerting service.      *)
CommitUntold(f) ==
  /\ tail[f] = "idle" /\ f[2] = "created"
  /\ tail' = [tail EXCEPT ![f] = "done"]
  /\ committed' = committed \cup {f}
  /\ UNCHANGED <<sent, connVars, alertVars>>

Tell(f) ==
  /\ tail[f] = "send"
  /\ tail' = [tail EXCEPT ![f] = "alert"]
  /\ Send(f)
  /\ UNCHANGED alertVars

Raise(f) ==
  /\ tail[f] = "alert"
  /\ tail' = [tail EXCEPT ![f] = "done"]
  /\ Notify(f)
  /\ UNCHANGED feedVars

(* The client hangs up and the handler's future is dropped at an await.    *)
Abandon(f) ==
  /\ tail[f] \in {"send", "alert"}
  /\ tail' = [tail EXCEPT ![f] = "done"]
  /\ UNCHANGED <<feedVars, alertVars>>

Init == FeedInit /\ AlertInit /\ tail = [f \in Facts |-> "idle"]

Next ==
  \/ \E f \in Facts : Commit(f) \/ CommitUntold(f) \/ Tell(f) \/ Raise(f) \/ Abandon(f)
  \/ FeedStep /\ UNCHANGED <<tail, alertVars>>
  \/ AlertStep /\ UNCHANGED <<tail, feedVars>>

(* The runtime schedules the send task of a connection that is gone, and   *)
(* its send fails at once.                                                 *)
Spec ==
  /\ Init /\ [][Next]_vars
  /\ AlertFairness
  /\ \A c \in Conns : WF_vars(sock[c] = "closed" /\ (Deliver(c) \/ Lag(c))
                              /\ UNCHANGED <<tail, alertVars>>)

-----------------------------------------------------------------------------
TypeOK ==
  /\ tail \in [Facts -> {"idle", "send", "alert", "done"}]
  /\ FeedTypeOK /\ AlertTypeOK

(* The send task of a closed connection ends as soon as there is something *)
(* to send; until then it holds its place in the ring.                     *)
LeftoversEnd ==
  \A c \in Conns : (sock[c] = "closed" /\ pump[c] /\ pos[c] < Len(sent)) ~> ~pump[c]
=============================================================================
