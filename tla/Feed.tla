-------------------------------- MODULE Feed --------------------------------
(***************************************************************************)
(* The WebSocket feed: one broadcast ring, for every connection a task     *)
(* that pumps it into the socket.  What is told is a fact about a          *)
(* mitigation, that it was created or that it ended.                       *)
(***************************************************************************)
EXTENDS Naturals, Sequences, FiniteSets

CONSTANTS
  Facts,           (* <<mitigation, kind>>                                  *)
  Conns,           (* connections, each opened once                         *)
  Capacity         (* of the broadcast ring: 1024 in the code               *)

ASSUME FeedAssumption == Capacity \in Nat \ {0}

VARIABLES
  committed,       (* the facts in the database                             *)
  sent,            (* all messages ever sent, the ring is the last Capacity *)
  sock,            (* "new", "open" or "closed"                             *)
  pump,            (* whether the connection's send task runs               *)
  joined, pos,     (* where the receiver started, and where it is           *)
  heard,           (* positions the client was sent                         *)
  resync           (* the position up to which it was told to refetch       *)
feedVars == <<committed, sent, sock, pump, joined, pos, heard, resync>>
connVars == <<sock, pump, joined, pos, heard, resync>>

Oldest == IF Len(sent) > Capacity THEN Len(sent) - Capacity ELSE 0

(* Sender::send; a connection that comes later does not see the message.   *)
Send(fact) ==
  /\ sent' = Append(sent, fact)
  /\ UNCHANGED <<committed, connVars>>

(* handle_socket subscribes.                                               *)
Open(c) ==
  /\ sock[c] = "new"
  /\ sock' = [sock EXCEPT ![c] = "open"]
  /\ pump' = [pump EXCEPT ![c] = TRUE]
  /\ joined' = [joined EXCEPT ![c] = Len(sent)]
  /\ pos' = [pos EXCEPT ![c] = Len(sent)]
  /\ resync' = [resync EXCEPT ![c] = Len(sent)]
  /\ UNCHANGED <<committed, sent, heard>>

(* The send task with the next message in hand.  On a closed socket the    *)
(* send fails and the task ends.                                           *)
ErrorIgnoredMutant(c) ==
  /\ pump[c] /\ pos[c] < Len(sent) /\ pos[c] >= Oldest
  /\ pos' = [pos EXCEPT ![c] = @ + 1]
  /\ heard' = [heard EXCEPT ![c] = @ \cup {pos[c] + 1}]
  /\ UNCHANGED <<committed, sent, sock, pump, joined, resync>>
Deliver(c) ==
  /\ pump[c] /\ pos[c] < Len(sent) /\ pos[c] >= Oldest
  /\ IF sock[c] = "open"
     THEN /\ pos' = [pos EXCEPT ![c] = @ + 1]
          /\ heard' = [heard EXCEPT ![c] = @ \cup {pos[c] + 1}]
          /\ UNCHANGED pump
     ELSE /\ pump' = [pump EXCEPT ![c] = FALSE]
          /\ UNCHANGED <<pos, heard>>
  /\ UNCHANGED <<committed, sent, sock, joined, resync>>

(* RecvError::Lagged: the receiver is moved to the oldest message and the  *)
(* client told to refetch.                                                 *)
UntoldMutant(c) ==
  /\ pump[c] /\ pos[c] < Oldest
  /\ pos' = [pos EXCEPT ![c] = Oldest]
  /\ UNCHANGED <<committed, sent, sock, pump, joined, heard, resync>>
Lag(c) ==
  /\ pump[c] /\ pos[c] < Oldest
  /\ IF sock[c] = "open"
     THEN /\ pos' = [pos EXCEPT ![c] = Oldest]
          /\ resync' = [resync EXCEPT ![c] = Oldest]
          /\ UNCHANGED pump
     ELSE /\ pump' = [pump EXCEPT ![c] = FALSE]
          /\ UNCHANGED <<pos, resync>>
  /\ UNCHANGED <<committed, sent, sock, joined, heard>>

(* The client leaves; handle_socket returns, but dropping a JoinHandle     *)
(* does not stop the send task.                                            *)
Close(c) ==
  /\ sock[c] = "open"
  /\ sock' = [sock EXCEPT ![c] = "closed"]
  /\ UNCHANGED <<committed, sent, pump, joined, pos, heard, resync>>

FeedInit ==
  /\ committed = {} /\ sent = <<>>
  /\ sock = [c \in Conns |-> "new"] /\ pump = [c \in Conns |-> FALSE]
  /\ joined = [c \in Conns |-> 0] /\ pos = [c \in Conns |-> 0]
  /\ heard = [c \in Conns |-> {}] /\ resync = [c \in Conns |-> 0]

FeedStep == \E c \in Conns : Open(c) \/ Deliver(c) \/ Lag(c) \/ Close(c)

-----------------------------------------------------------------------------
FeedTypeOK ==
  /\ committed \subseteq Facts /\ sent \in Seq(Facts)
  /\ sock \in [Conns -> {"new", "open", "closed"}] /\ pump \in [Conns -> BOOLEAN]
  /\ joined \in [Conns -> Nat] /\ pos \in [Conns -> Nat] /\ resync \in [Conns -> Nat]
  /\ heard \in [Conns -> SUBSET Nat]

(* A client misses nothing in silence: each message since it joined, up to *)
(* where its receiver is, was sent to it or is covered by a resync it was  *)
(* sent when the ring had overtaken it.                                    *)
NoSilentGap ==
  \A c \in Conns :
    \A i \in (joined[c] + 1)..pos[c] : i \in heard[c] \/ i <= resync[c]
=============================================================================
