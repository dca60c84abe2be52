-------------------------- MODULE ReliableDelivery --------------------------
(***************************************************************************)
(* What the transport promises to its two users, without sequence numbers  *)
(* in flight, frames, retries or tables: a message is accepted by the peer *)
(* only after it was drawn, acknowledged only after it was accepted, and   *)
(* it gets one verdict, acknowledged or given up, never both.  Giving up   *)
(* says nothing about acceptance: the ACK may have been lost.              *)
(***************************************************************************)
CONSTANTS Nodes, Peer, Ids

VARIABLES
  drawn,     \* drawn[n]: the messages n has named
  accepted,  \* accepted[n]: the messages n accepted
  acked,     \* acked[n]: messages of n with a positive verdict
  gaveUp     \* gaveUp[n]: messages of n with a negative one

vars == <<drawn, accepted, acked, gaveUp>>

Init ==
  /\ drawn    = [n \in Nodes |-> {}]
  /\ accepted = [n \in Nodes |-> {}]
  /\ acked    = [n \in Nodes |-> {}]
  /\ gaveUp   = [n \in Nodes |-> {}]

Draw(n) ==
  \E id \in Ids \ drawn[n] :
    /\ drawn' = [drawn EXCEPT ![n] = @ \cup {id}]
    /\ UNCHANGED <<accepted, acked, gaveUp>>

Accept(n) ==
  \E id \in drawn[Peer[n]] \ accepted[n] :
    /\ accepted' = [accepted EXCEPT ![n] = @ \cup {id}]
    /\ UNCHANGED <<drawn, acked, gaveUp>>

Settled(n) == acked[n] \cup gaveUp[n]

Acknowledge(n) ==
  \E id \in (drawn[n] \cap accepted[Peer[n]]) \ Settled(n) :
    /\ acked' = [acked EXCEPT ![n] = @ \cup {id}]
    /\ UNCHANGED <<drawn, accepted, gaveUp>>

GiveUp(n) ==
  \E id \in drawn[n] \ Settled(n) :
    /\ gaveUp' = [gaveUp EXCEPT ![n] = @ \cup {id}]
    /\ UNCHANGED <<drawn, accepted, acked>>

Next == \E n \in Nodes : Draw(n) \/ Accept(n) \/ Acknowledge(n) \/ GiveUp(n)

Spec == Init /\ [][Next]_vars

=============================================================================
