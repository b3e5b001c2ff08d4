-------------------------------- MODULE Listen --------------------------------
(***************************************************************************)
(* The connection pool of sqelf/src/server/tcp.rs: Listen::poll_next over  *)
(* the accepting stream and the FuturesUnordered of open connections,      *)
(* polled by the select! loop of server/mod.rs in a single task.           *)
(*                                                                         *)
(* A task that returned Pending runs again only when a waker it left       *)
(* behind is called, so the model keeps track of who holds a waker: the    *)
(* listener or a TLS handshake (waits), and every pooled connection that   *)
(* is not in the queue of FuturesUnordered.  What a connection yields when *)
(* it is polled (module TcpConnection) is chosen freely.                   *)
(*                                                                         *)
(* tokio gives a task a budget for each of its runs; once it is spent,     *)
(* sockets and timers answer Pending and call the waker at once.  Work     *)
(* that makes progress only splits a run in two by it; what matters is an  *)
(* accept that fails without end, which nothing else interrupts.           *)
(***************************************************************************)
EXTENDS Integers, Sequences, FiniteSets

CONSTANTS
  Conns,  \* connections clients make, each used once
  max     \* listen(1024): the size of the pool

ASSUME MaxAssumption == max \in Nat \ {0}

VARIABLES
  Tls,      \* a certificate is configured: accept_tls, else accept
  stage,    \* where each connection is
  backlog,  \* the listener's queue of connections not yet accepted
  tls,      \* the outcome of each connection's handshake
  input,    \* what polling each connection's stream yields
  ready,    \* FuturesUnordered: connections to poll, first come first served
  pc,       \* "parked", or where poll_next is: "fill", "poll", "item"
  awake,    \* a waker of the task has been called since it last started
  waits,    \* who holds the waker left by polling accept, if anyone
  readable, \* the listener's readiness, which tokio keeps until WouldBlock
  budget,   \* "left", "spent", or "yielded": spent, and one future polled since
  exhausted \* the process, or the system, is out of file descriptors

listener == <<waits, readable>>
vars == <<Tls, stage, backlog, tls, input, ready, pc, awake, listener, budget,
          exhausted>>

Stages == {"new", "backlog", "handshake", "pooled", "closed"}

connections == {c \in Conns : stage[c] = "pooled"}

Handshaking == {c \in Conns : stage[c] = "handshake"}

Queued(c) == \E i \in 1..Len(ready) : ready[i] = c

FaultyHasRoom == Cardinality(connections) <= max

HasRoom == Cardinality(connections) < max

Init ==
  /\ Tls \in BOOLEAN
  /\ stage = [c \in Conns |-> "new"]
  /\ backlog = <<>>
  /\ tls = [c \in Conns |-> "pending"]
  /\ input = [c \in Conns |-> "none"]
  /\ ready = <<>>
  /\ pc = "fill"
  /\ awake = FALSE
  /\ waits = "nobody"
  /\ readable = FALSE
  /\ budget = "left"
  /\ exhausted = FALSE

-----------------------------------------------------------------------------
(* Clients, the network and timers.                                        *)

Connect(c) ==
  /\ stage[c] = "new"
  /\ stage' = [stage EXCEPT ![c] = "backlog"]
  /\ backlog' = Append(backlog, c)
  /\ readable' = TRUE
  /\ awake' = (awake \/ waits = "listener")
  /\ waits' = IF waits = "listener" THEN "nobody" ELSE waits
  /\ UNCHANGED <<tls, input, ready, pc, exhausted>>

\* The handshake of tls.accept comes to an end, or never does.
HandshakeEnds(c, outcome) ==
  /\ stage[c] = "handshake"
  /\ tls[c] = "pending"
  /\ tls' = [tls EXCEPT ![c] = outcome]
  /\ awake' = (awake \/ waits = "handshake")
  /\ waits' = IF waits = "handshake" THEN "nobody" ELSE waits
  /\ UNCHANGED <<stage, backlog, input, ready, pc, readable, exhausted>>

\* A connection has an item, has ended (also by its timeout), or has failed.
\* If it is pooled and not queued its waker queues it and wakes the task.  With
\* the budget spent no socket is read: what comes then comes to the next run.
Arrive(c, what) ==
  /\ budget = "left"
  /\ stage[c] \in {"backlog", "handshake", "pooled"}
  /\ input[c] = "none"
  /\ input' = [input EXCEPT ![c] = what]
  /\ IF stage[c] = "pooled" /\ ~Queued(c)
     THEN ready' = Append(ready, c) /\ awake' = TRUE
     ELSE UNCHANGED <<ready, awake>>
  /\ UNCHANGED <<stage, backlog, tls, pc, listener, exhausted>>

\* The last file descriptor is taken, or one is free again.
Descriptors ==
  /\ exhausted' = ~exhausted
  /\ UNCHANGED <<stage, backlog, tls, input, ready, pc, awake, listener>>

-----------------------------------------------------------------------------
(* 'fill_conns: poll accept while there is room.                           *)

Start ==
  /\ pc = "parked"
  /\ awake
  /\ awake' = FALSE
  /\ pc' = "fill"
  /\ UNCHANGED <<stage, backlog, tls, input, ready, listener, budget>>

FillFull ==
  /\ pc = "fill"
  /\ ~HasRoom
  /\ pc' = "poll"
  /\ UNCHANGED <<stage, backlog, tls, input, ready, awake, listener, budget>>

\* connections.push(conn): a new future is polled first by the next poll.
Push(c) ==
  /\ stage' = [stage EXCEPT ![c] = "pooled"]
  /\ ready' = Append(ready, c)

\* The listener is asked, no accept_tls is under way and one can be accepted.
Accepting ==
  /\ pc = "fill"
  /\ HasRoom
  /\ Handshaking = {}
  /\ budget = "left"
  /\ ~exhausted
  /\ backlog # <<>>

FillAccept ==
  /\ Accepting
  /\ ~Tls
  /\ backlog' = Tail(backlog)
  /\ Push(Head(backlog))
  /\ UNCHANGED <<tls, input, pc, awake, listener, budget>>

\* The first connection of the queue has failed before it is accepted: the
\* error is ignored and the stream asked again.
FillAcceptFails ==
  /\ Accepting
  /\ backlog' = Tail(backlog)
  /\ stage' = [stage EXCEPT ![Head(backlog)] = "closed"]
  /\ UNCHANGED <<tls, input, ready, pc, awake, listener, budget>>

\* There is no descriptor for a connection: accept fails and takes nothing from
\* the queue (which may be empty), the error is ignored and the stream asked
\* again at once, until the budget is spent and accept is pending.
FillExhausted ==
  /\ pc = "fill"
  /\ HasRoom
  /\ Handshaking = {}
  /\ budget = "left"
  /\ exhausted
  /\ readable
  /\ budget' = "spent"
  /\ awake' = TRUE
  /\ pc' = "poll"
  /\ UNCHANGED <<stage, backlog, tls, input, ready, listener>>

\* poll_next is called again in the same run: accept is pending at once.
FillSpent ==
  /\ pc = "fill"
  /\ HasRoom
  /\ budget # "left"
  /\ awake' = TRUE
  /\ pc' = "poll"
  /\ UNCHANGED <<stage, backlog, tls, input, ready, listener, budget>>

\* filter_map runs one accept_tls at a time.
FillAcceptTls ==
  /\ Accepting
  /\ Tls
  /\ backlog' = Tail(backlog)
  /\ stage' = [stage EXCEPT ![Head(backlog)] = "handshake"]
  /\ UNCHANGED <<tls, input, ready, pc, awake, listener, budget>>

FillHandshakeOk(c) ==
  /\ pc = "fill"
  /\ HasRoom
  /\ stage[c] = "handshake"
  /\ tls[c] = "ok"
  /\ Push(c)
  /\ UNCHANGED <<backlog, tls, input, pc, awake, listener, budget>>

FillHandshakeFailed(c) ==
  /\ pc = "fill"
  /\ HasRoom
  /\ stage[c] = "handshake"
  /\ tls[c] = "failed"
  /\ stage' = [stage EXCEPT ![c] = "closed"]
  /\ UNCHANGED <<backlog, tls, input, ready, pc, awake, listener, budget>>

\* accept is pending: in a handshake, or on the listener.
FillPending ==
  /\ pc = "fill"
  /\ HasRoom
  /\ budget = "left"
  /\ \/ /\ \E c \in Handshaking : tls[c] = "pending"
        /\ waits' = "handshake"
        /\ UNCHANGED readable
     \/ /\ Handshaking = {}
        /\ backlog = <<>>
        /\ exhausted => ~readable
        /\ waits' = "listener"
        /\ readable' = FALSE
  /\ pc' = "poll"
  /\ UNCHANGED <<stage, backlog, tls, input, ready, awake, budget>>

-----------------------------------------------------------------------------
(* Polling the pool.                                                       *)

\* Nothing is ready: poll_next returns Pending, and the run is over.
PollNothing ==
  /\ pc = "poll"
  /\ ready = <<>>
  /\ pc' = "parked"
  /\ budget' = "left"
  /\ UNCHANGED <<stage, backlog, tls, input, ready, awake, listener>>

\* A queued connection that has nothing leaves its waker behind.
PollPending ==
  /\ pc = "poll"
  /\ budget = "left"
  /\ ready # <<>>
  /\ input[Head(ready)] = "none"
  /\ ready' = Tail(ready)
  /\ UNCHANGED <<stage, backlog, tls, input, pc, awake, listener, budget>>

\* With the budget spent a connection that has to read is pending and has
\* queued itself again; one that has a frame buffered still gives it.  After
\* the second such future, or the only one, FuturesUnordered is pending.
PollSpent ==
  /\ pc = "poll"
  /\ budget # "left"
  /\ ready # <<>>
  /\ ready' = Append(Tail(ready), Head(ready))
  /\ awake' = TRUE
  /\ IF budget = "spent" /\ Cardinality(connections) > 1
     THEN budget' = "yielded" /\ UNCHANGED pc
     ELSE pc' = "parked" /\ budget' = "left"
  /\ UNCHANGED <<stage, backlog, tls, input, listener>>

FaultyPollItem ==
  /\ pc = "poll"
  /\ ready # <<>>
  /\ input[Head(ready)] = "item"
  /\ input' = [input EXCEPT ![Head(ready)] = "none"]
  /\ pc' = "item"
  /\ UNCHANGED <<stage, backlog, tls, ready, awake, listener, budget>>

\* A connection has an item: it goes back to the pool and the item is returned.
PollItem ==
  /\ pc = "poll"
  /\ ready # <<>>
  /\ input[Head(ready)] = "item"
  /\ input' = [input EXCEPT ![Head(ready)] = "none"]
  /\ ready' = Append(Tail(ready), Head(ready))
  /\ pc' = "item"
  /\ UNCHANGED <<stage, backlog, tls, awake, listener, budget>>

FaultyPollClosed ==
  /\ pc = "poll"
  /\ ready # <<>>
  /\ input[Head(ready)] \in {"end", "error"}
  /\ stage' = [stage EXCEPT ![Head(ready)] = "closed"]
  /\ ready' = Tail(ready)
  /\ UNCHANGED <<backlog, tls, input, pc, awake, listener, budget>>

\* A connection has ended or failed: it is dropped, and 'poll_conns goes round
\* to accept another one in its place.
PollClosed ==
  /\ pc = "poll"
  /\ ready # <<>>
  /\ input[Head(ready)] \in {"end", "error"}
  /\ stage' = [stage EXCEPT ![Head(ready)] = "closed"]
  /\ ready' = Tail(ready)
  /\ pc' = "fill"
  /\ UNCHANGED <<backlog, tls, input, awake, listener, budget>>

FaultyNextItem ==
  /\ pc = "item"
  /\ pc' = "poll"
  /\ UNCHANGED <<stage, backlog, tls, input, ready, awake, listener, budget>>

\* The select! loop has dealt with the item and asks for the next one.
NextItem ==
  /\ pc = "item"
  /\ pc' = "fill"
  /\ UNCHANGED <<stage, backlog, tls, input, ready, awake, listener, budget>>

poll_next ==
  /\ UNCHANGED <<Tls, exhausted>>
  /\ \/ Start
     \/ FillFull
     \/ FillAccept
     \/ FillAcceptFails
     \/ FillAcceptTls
     \/ FillExhausted
     \/ FillSpent
     \/ \E c \in Conns : FillHandshakeOk(c) \/ FillHandshakeFailed(c)
     \/ FillPending
     \/ PollNothing
     \/ PollPending
     \/ PollSpent
     \/ PollItem
     \/ PollClosed
     \/ NextItem

Environment ==
  /\ UNCHANGED <<Tls, budget>>
  /\ \/ \E c \in Conns :
          \/ Connect(c)
          \/ \E outcome \in {"ok", "failed"} : HandshakeEnds(c, outcome)
          \/ \E what \in {"item", "end", "error"} : Arrive(c, what)
     \/ Descriptors

Next == poll_next \/ Environment

\* A task that was woken is run by the runtime, and runs until it is pending.
\* Nothing is assumed of clients or of file descriptors.
Spec == Init /\ [][Next]_vars /\ WF_vars(poll_next)
-----------------------------------------------------------------------------
(* Properties.                                                             *)

\* The pool never grows past its limit, with handshakes that finish while it
\* is full and connections put back after an item; and the queue of
\* FuturesUnordered holds pooled connections only, each of them once.
PoolBound ==
  /\ Cardinality(connections) <= max
  /\ ready \in Seq(connections)
  /\ \A i, j \in 1..Len(ready) : ready[i] = ready[j] => i = j

\* The task never sleeps over work: when it is parked and nobody will wake it,
\* no pooled connection has anything to give, and either the pool is full or
\* accept has nothing to give and holds a waker.  In particular a place that
\* becomes free in a full pool is offered to a waiting connection, although a
\* full pool leaves no waker with the listener.
NoLostWakeup ==
  (pc = "parked" /\ ~awake) =>
    /\ \A c \in connections : input[c] = "none"
    /\ HasRoom =>
         \/ backlog = <<>> /\ Handshaking = {} /\ waits = "listener"
         \/ \E c \in Handshaking : tls[c] = "pending" /\ waits = "handshake"

\* A connection with something to give is served, however chatty the others
\* are ("We're assuming the unordered list will always make forward progress
\* polling futures even if one future is particularly chatty"), unless there
\* are no file descriptors: then the retries of accept spend the budget before
\* the pool is polled.  Once there are some again it is served.
EveryConnectionServed ==
  \A c \in Conns :
    (stage[c] = "pooled" /\ input[c] # "none") ~>
      (input[c] = "none" \/ stage[c] = "closed" \/ exhausted)

\* A connection in the accept queue is accepted unless the pool is full, a TLS
\* handshake in front of it does not end, or there is no file descriptor for
\* it; items of other connections do not keep it out, nor do errors of accept
\* that are over.
AcceptProgress ==
  \A c \in Conns :
    stage[c] = "backlog" ~>
      \/ stage[c] # "backlog"
      \/ ~HasRoom
      \/ \E d \in Handshaking : tls[d] = "pending"
      \/ exhausted
=============================================================================
