------------------------------- MODULE Delivery -------------------------------
(***************************************************************************)
(* What the server on UDP promises a client, without saying how: a message *)
(* is delivered to the processor only after it was sent, and no more often *)
(* than the network delivers copies of it.  It may never be.  There are no *)
(* datagrams, no chunks and no receiver here; the module UdpServer is      *)
(* shown to implement this one.                                            *)
(***************************************************************************)
EXTENDS Integers

CONSTANTS
  Ids,     \* the messages
  Copies   \* how often the network delivers each of them at most

VARIABLES
  sent,      \* the messages that were sent
  delivered  \* how often each was delivered

vars == <<sent, delivered>>

Init ==
  /\ sent = {}
  /\ delivered = [id \in Ids |-> 0]

Send(id) ==
  /\ id \notin sent
  /\ sent' = sent \cup {id}
  /\ UNCHANGED delivered

Deliver(id) ==
  /\ id \in sent
  /\ delivered[id] < Copies[id]
  /\ delivered' = [delivered EXCEPT ![id] = @ + 1]
  /\ UNCHANGED sent

Next == \E id \in Ids : Send(id) \/ Deliver(id)

Spec == Init /\ [][Next]_vars
=============================================================================
