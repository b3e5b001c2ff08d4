------------------------------ MODULE Reassembly ------------------------------
(***************************************************************************)
(* What the GELF receiver promises its caller, without saying how: it is a *)
(* lossy reassembly buffer.  Any call may forget any of the messages that  *)
(* are still partial, but a message that is handed out has every one of    *)
(* its chunks, in sequence order, and is handed out by the very call that  *)
(* supplies the last missing one.  There is no clock, no capacity and no   *)
(* second index here; the module Gelf is shown to implement this one.      *)
(***************************************************************************)
EXTENDS Integers

CONSTANTS
  Ids,        \* message identifiers carried by chunk headers
  Bodies,     \* what a datagram or chunk carries after its header
  EmptyBody,  \* the body with no bytes
  MaxChunks   \* a chunked message announces at most this many chunks

VARIABLES
  partial,    \* partial messages: id -> [total, got], got: seq -> body
  out         \* what the last call returned

vars == <<partial, out>>

Chunk == [id : Ids, seq : 0..(MaxChunks - 1), total : 2..MaxChunks, body : Bodies]

Forgetting(kept) == [id \in kept |-> partial[id]]

(***************************************************************************)
(* The chunks of c's message once c has arrived, when the messages in kept *)
(* are still remembered.                                                   *)
(***************************************************************************)
Gathered(c, kept) ==
  IF c.id \in kept
  THEN [s \in DOMAIN partial[c.id].got \cup {c.seq} |->
          IF s = c.seq THEN c.body ELSE partial[c.id].got[s]]
  ELSE [s \in {c.seq} |-> c.body]

IsWhole(c, got) == \A s \in 0..(c.total - 1) : s \in DOMAIN got

-----------------------------------------------------------------------------
Init ==
  /\ partial = [id \in {} |-> {}]
  /\ out = [tag |-> "none"]

\* The call fails: nothing is learned, partial messages may be forgotten.
Fail(kept) ==
  /\ partial' = Forgetting(kept)
  /\ out' = [tag |-> "error"]

\* A self-contained datagram is handed out as it is, unless it is empty.
Whole(body, kept) ==
  /\ partial' = Forgetting(kept)
  /\ out' = IF body = EmptyBody
            THEN [tag |-> "incomplete"]
            ELSE [tag |-> "single", chunks |-> <<body>>]

\* A chunk that leaves its message partial is remembered.
Collect(c, kept) ==
  /\ c.seq < c.total
  /\ c.id \in kept => partial[c.id].total = c.total
  /\ ~IsWhole(c, Gathered(c, kept))
  /\ partial' = [id \in kept \cup {c.id} |->
                   IF id = c.id
                   THEN [total |-> c.total, got |-> Gathered(c, kept)]
                   ELSE partial[id]]
  /\ out' = [tag |-> "incomplete"]

\* A chunk that supplies what was missing hands the message out.
Complete(c, kept) ==
  /\ c.seq < c.total
  /\ c.id \in kept => partial[c.id].total = c.total
  /\ IsWhole(c, Gathered(c, kept))
  /\ partial' = Forgetting(kept \ {c.id})
  /\ out' = [tag |-> "chunked",
             chunks |-> [i \in 1..c.total |-> Gathered(c, kept)[i - 1]]]

Next ==
  \E kept \in SUBSET DOMAIN partial :
    \/ Fail(kept)
    \/ \E body \in Bodies : Whole(body, kept)
    \/ \E c \in Chunk : Collect(c, kept) \/ Complete(c, kept)

Spec == Init /\ [][Next]_vars
=============================================================================
