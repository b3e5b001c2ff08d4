----------------------------- MODULE ListenProofs -----------------------------
(***************************************************************************)
(* Proofs about Listen, for every size of the pool and every number of     *)
(* clients: the pool keeps to its limit, and the task that polls it never  *)
(* sleeps over a connection that has something to give.                    *)
(***************************************************************************)
EXTENDS Listen, FiniteSetTheorems, TLAPS

\* The budget, the descriptors and the readiness of the listener decide only
\* about progress: no step is safe because of them.
Types ==
  /\ Tls \in BOOLEAN
  /\ stage \in [Conns -> Stages]
  /\ backlog \in Seq(Conns)
  /\ tls \in [Conns -> {"pending", "ok", "failed"}]
  /\ input \in [Conns -> {"none", "item", "end", "error"}]
  /\ ready \in Seq(Conns)
  /\ pc \in {"parked", "fill", "poll", "item"}
  /\ awake \in BOOLEAN
  /\ waits \in {"nobody", "listener", "handshake"}

Within(s, c) == \E i \in 1..Len(s) : s[i] = c

Distinct(s) == \A i, j \in 1..Len(s) : s[i] = s[j] => i = j

\* The queues hold connections of one stage, each once.
Queues ==
  /\ \A c \in Conns : Within(backlog, c) => stage[c] = "backlog"
  /\ Distinct(backlog)
  /\ \A c \in Conns : Within(ready, c) => stage[c] = "pooled"
  /\ Distinct(ready)

Pool == IsFiniteSet(connections) /\ Cardinality(connections) <= max

\* A pooled connection that is not queued has nothing to give: its waker would
\* have queued it.
InputQueued ==
  \A c \in Conns : stage[c] = "pooled" /\ input[c] # "none" => Within(ready, c)

\* accept is pending, and whoever it waits for holds the waker.
AcceptWaits ==
  \/ backlog = <<>> /\ Handshaking = {} /\ waits = "listener"
  \/ \E c \in Handshaking : tls[c] = "pending" /\ waits = "handshake"

\* Once the pool has been filled, and until a waker is called, either there is
\* no room or accept holds a waker; a parked task has emptied the queue.
Asleep ==
  /\ pc \in {"poll", "parked"} /\ ~awake /\ HasRoom => AcceptWaits
  /\ pc = "parked" /\ ~awake => ready = <<>>

\* The inductive invariant.
IInv == Types /\ Queues /\ Pool /\ InputQueued /\ Asleep

-----------------------------------------------------------------------------
(* Queues of connections.                                                  *)

\* Queueing a connection that was not queued.
LEMMA AppendQueue ==
  ASSUME NEW s \in Seq(Conns), NEW e \in Conns
  PROVE  /\ Append(s, e) \in Seq(Conns)
         /\ \A c : Within(Append(s, e), c) <=> Within(s, c) \/ c = e
         /\ Distinct(s) /\ ~Within(s, e) => Distinct(Append(s, e))
<1> DEFINE t == Append(s, e)
<1>1. /\ t \in Seq(Conns) /\ Len(t) = Len(s) + 1 /\ Len(s) \in Nat
      /\ t[Len(s) + 1] = e
      /\ \A i \in 1..Len(s) : t[i] = s[i]
  OBVIOUS
<1> HIDE DEF t
<1>2. ASSUME NEW c PROVE Within(t, c) <=> Within(s, c) \/ c = e
  <2>1. ASSUME Within(t, c) PROVE Within(s, c) \/ c = e
    <3>1. PICK i \in 1..Len(t) : t[i] = c
      BY <2>1 DEF Within
    <3>2. i \in 1..Len(s) \/ i = Len(s) + 1
      BY <1>1
    <3> QED
      BY <1>1, <3>1, <3>2 DEF Within
  <2>2. ASSUME Within(s, c) PROVE Within(t, c)
    <3>1. PICK i \in 1..Len(s) : s[i] = c
      BY <2>2 DEF Within
    <3> QED
      BY <1>1, <3>1 DEF Within
  <2>3. ASSUME c = e PROVE Within(t, c)
    <3>1. Len(s) + 1 \in 1..Len(t)
      BY <1>1
    <3> QED
      BY <1>1, <2>3, <3>1 DEF Within
  <2> QED
    BY <2>1, <2>2, <2>3
<1>3. Distinct(s) /\ ~Within(s, e) => Distinct(t)
  BY <1>1 DEF Distinct, Within
<1> QED
  BY <1>1, <1>2, <1>3 DEF t

\* Taking the first connection of a queue.
LEMMA TailQueue ==
  ASSUME NEW s \in Seq(Conns), s # <<>>, Distinct(s)
  PROVE  /\ Head(s) \in Conns /\ Within(s, Head(s))
         /\ Tail(s) \in Seq(Conns) /\ Distinct(Tail(s))
         /\ \A c : Within(Tail(s), c) <=> Within(s, c) /\ c # Head(s)
<1> DEFINE t == Tail(s)
<1>1. /\ t \in Seq(Conns) /\ Len(s) \in Nat /\ Len(s) >= 1
      /\ Len(t) = Len(s) - 1
      /\ Head(s) = s[1] /\ Head(s) \in Conns
      /\ \A i \in 1..Len(t) : t[i] = s[i + 1]
  OBVIOUS
<1> HIDE DEF t
<1>2. Within(s, Head(s))
  BY <1>1 DEF Within
<1>3. Distinct(t)
  BY <1>1 DEF Distinct
<1>4. ASSUME NEW c PROVE Within(t, c) <=> Within(s, c) /\ c # Head(s)
  <2>1. ASSUME Within(t, c) PROVE Within(s, c) /\ c # Head(s)
    <3>1. PICK i \in 1..Len(t) : t[i] = c
      BY <2>1 DEF Within
    <3>2. i + 1 \in 1..Len(s) /\ 1 \in 1..Len(s) /\ i + 1 # 1 /\ s[i + 1] = c
      BY <1>1, <3>1
    <3> QED
      BY <1>1, <3>2 DEF Within, Distinct
  <2>2. ASSUME Within(s, c), c # Head(s) PROVE Within(t, c)
    <3>1. PICK i \in 1..Len(s) : s[i] = c
      BY <2>2 DEF Within
    <3>2. i - 1 \in 1..Len(t) /\ t[i - 1] = c
      BY <1>1, <2>2, <3>1
    <3> QED
      BY <3>2 DEF Within
  <2> QED
    BY <2>1, <2>2
<1> QED
  BY <1>1, <1>2, <1>3, <1>4 DEF t

-----------------------------------------------------------------------------
(* The pool.                                                               *)

\* Other stages than "pooled" do not matter to the pool.
LEMMA SamePool ==
  ASSUME Pool, \A c \in Conns : stage'[c] = "pooled" <=> stage[c] = "pooled"
  PROVE  Pool' /\ connections' = connections /\ (HasRoom' <=> HasRoom)
<1>1. connections' = connections
  BY DEF connections
<1> QED
  BY <1>1 DEF Pool, HasRoom

\* A connection is pushed only into a pool with room.
LEMMA PushPool ==
  ASSUME Pool, HasRoom, NEW c \in Conns, stage \in [Conns -> Stages],
         stage[c] # "pooled", stage' = [stage EXCEPT ![c] = "pooled"]
  PROVE  Pool'
<1>1. connections' = connections \cup {c} /\ c \notin connections
  BY DEF connections
<1>2. IsFiniteSet(connections') /\ Cardinality(connections') = Cardinality(connections) + 1
  BY <1>1, FS_AddElement DEF Pool
<1>3. Cardinality(connections) \in Nat
  BY FS_CardinalityType DEF Pool
<1> QED
  BY <1>2, <1>3, MaxAssumption DEF Pool, HasRoom

\* A connection that has ended leaves the pool.
LEMMA DropPool ==
  ASSUME Pool, NEW c \in Conns, stage \in [Conns -> Stages],
         stage[c] = "pooled", stage' = [stage EXCEPT ![c] = "closed"]
  PROVE  Pool'
<1>1. connections' = connections \ {c} /\ c \in connections
  BY DEF connections
<1>2. IsFiniteSet(connections') /\ Cardinality(connections') = Cardinality(connections) - 1
  BY <1>1, FS_RemoveElement DEF Pool
<1>3. Cardinality(connections) \in Nat
  BY FS_CardinalityType DEF Pool
<1> QED
  BY <1>2, <1>3, MaxAssumption DEF Pool

LEMMA InitIInv == Init => IInv
<1> SUFFICES ASSUME Init PROVE IInv
  OBVIOUS
<1>1. Types
  <2>1. <<>> \in Seq(Conns)
    OBVIOUS
  <2>2. /\ stage \in [Conns -> Stages]
        /\ tls \in [Conns -> {"pending", "ok", "failed"}]
        /\ input \in [Conns -> {"none", "item", "end", "error"}]
    BY DEF Init, Stages
  <2> QED
    BY <2>1, <2>2 DEF Init, Types
<1>2. Len(<<>>) = 0
  OBVIOUS
<1>3. Queues
  BY <1>2 DEF Init, Queues, Within, Distinct
<1>4. connections = {}
  BY DEF Init, connections
<1>5. Pool
  BY <1>4, FS_EmptySet, MaxAssumption DEF Pool
<1> QED
  BY <1>1, <1>3, <1>5 DEF Init, IInv, InputQueued, Asleep

-----------------------------------------------------------------------------
(* Clients, the network and timers.                                        *)

LEMMA ConnectStep ==
  ASSUME IInv, NEW c \in Conns, Connect(c), UNCHANGED Tls
  PROVE  IInv'
<1> USE DEF Connect
<1>1. Types /\ Queues /\ Pool /\ InputQueued /\ Asleep
  BY DEF IInv
<1>2. ~Within(backlog, c)
  BY <1>1 DEF Queues
<1>3. /\ backlog' \in Seq(Conns) /\ Distinct(backlog')
      /\ \A d : Within(backlog', d) <=> Within(backlog, d) \/ d = c
  BY <1>1, <1>2, AppendQueue DEF Types, Queues
<1>4. Types'
  <2>1. stage' \in [Conns -> Stages]
    BY <1>1 DEF Types, Stages
  <2>2. awake' \in BOOLEAN
    OBVIOUS
  <2>3. waits' \in {"nobody", "listener", "handshake"}
    BY <1>1 DEF Types
  <2> QED
    BY <1>1, <1>3, <2>1, <2>2, <2>3 DEF Types
<1>5. /\ stage'[c] = "backlog"
      /\ \A d \in Conns \ {c} : stage'[d] = stage[d]
  BY <1>1 DEF Types
<1>6. Queues'
  BY <1>1, <1>3, <1>5 DEF Queues
<1>7. \A d \in Conns : /\ stage'[d] = "pooled" <=> stage[d] = "pooled"
                       /\ stage'[d] = "handshake" <=> stage[d] = "handshake"
  BY <1>5
<1>8. Pool' /\ (HasRoom' <=> HasRoom)
  BY <1>1, <1>7, SamePool
<1>9. InputQueued'
  BY <1>1, <1>7 DEF InputQueued
<1>10. Asleep'
  <2>1. Handshaking' = Handshaking
    BY <1>7 DEF Handshaking
  <2>2. ASSUME AcceptWaits, ~awake' PROVE AcceptWaits'
    BY <2>1, <2>2 DEF AcceptWaits
  <2> QED
    BY <1>1, <1>8, <2>2 DEF Asleep
<1> QED
  BY <1>4, <1>6, <1>8, <1>9, <1>10 DEF IInv

LEMMA HandshakeEndsStep ==
  ASSUME IInv, NEW c \in Conns, NEW outcome \in {"ok", "failed"},
         HandshakeEnds(c, outcome), UNCHANGED Tls
  PROVE  IInv'
<1> USE DEF HandshakeEnds
<1>1. Types /\ Queues /\ Pool /\ InputQueued /\ Asleep
  BY DEF IInv
<1>2. Types'
  <2>1. tls' \in [Conns -> {"pending", "ok", "failed"}]
    BY <1>1 DEF Types
  <2>2. awake' \in BOOLEAN
    OBVIOUS
  <2>3. waits' \in {"nobody", "listener", "handshake"}
    BY <1>1 DEF Types
  <2> QED
    BY <1>1, <2>1, <2>2, <2>3 DEF Types
<1>3. Queues' /\ InputQueued'
  BY <1>1 DEF Queues, InputQueued
<1>4. Pool' /\ (HasRoom' <=> HasRoom)
  BY <1>1, SamePool
<1>5. Asleep'
  <2>1. c \in Handshaking
    BY DEF Handshaking
  <2>2. ~awake' => ~AcceptWaits
    BY <2>1 DEF AcceptWaits
  <2> QED
    BY <1>1, <1>4, <2>2 DEF Asleep
<1> QED
  BY <1>2, <1>3, <1>4, <1>5 DEF IInv

LEMMA ArriveStep ==
  ASSUME IInv, NEW c \in Conns, NEW what \in {"item", "end", "error"},
         Arrive(c, what), UNCHANGED Tls
  PROVE  IInv'
<1> USE DEF Arrive, listener
<1>1. Types /\ Queues /\ Pool /\ InputQueued /\ Asleep
  BY DEF IInv
<1>2. input' \in [Conns -> {"none", "item", "end", "error"}]
  BY <1>1 DEF Types
<1>3. \A d \in Conns \ {c} : input'[d] = input[d]
  BY <1>1 DEF Types
<1>4. Pool' /\ (HasRoom' <=> HasRoom)
  BY <1>1, SamePool
<1>5. AcceptWaits' <=> AcceptWaits
  BY DEF AcceptWaits, Handshaking
<1>6. CASE stage[c] = "pooled" /\ ~Queued(c)
  <2>1. ready' = Append(ready, c) /\ awake' = TRUE
    BY <1>6
  <2>2. ~Within(ready, c)
    BY <1>6 DEF Queued, Within
  <2>3. /\ ready' \in Seq(Conns) /\ Distinct(ready')
        /\ \A d : Within(ready', d) <=> Within(ready, d) \/ d = c
    BY <1>1, <2>1, <2>2, AppendQueue DEF Types, Queues
  <2>4. awake' \in BOOLEAN
    BY <2>1
  <2>5. Types'
    BY <1>1, <1>2, <2>3, <2>4 DEF Types
  <2>6. Queues'
    BY <1>1, <1>6, <2>3 DEF Queues
  <2>7. InputQueued'
    BY <1>1, <1>3, <2>3 DEF InputQueued
  <2>8. Asleep'
    BY <2>1 DEF Asleep
  <2> QED
    BY <1>4, <2>5, <2>6, <2>7, <2>8 DEF IInv
<1>7. CASE ~(stage[c] = "pooled" /\ ~Queued(c))
  <2>1. ready' = ready /\ awake' = awake
    BY <1>7
  <2>2. Types'
    BY <1>1, <1>2, <2>1 DEF Types
  <2>3. Queues'
    BY <1>1, <2>1 DEF Queues
  <2>4. stage[c] = "pooled" => Within(ready, c)
    BY <1>7 DEF Queued, Within
  <2>5. InputQueued'
    BY <1>1, <1>3, <2>1, <2>4 DEF InputQueued
  <2>6. Asleep'
    BY <1>1, <1>4, <1>5, <2>1 DEF Asleep
  <2> QED
    BY <1>4, <2>2, <2>3, <2>5, <2>6 DEF IInv
<1> QED
  BY <1>6, <1>7

-----------------------------------------------------------------------------
(* poll_next.                                                              *)

\* Steps that only move poll_next, FillPending, which leaves a waker, and the
\* two that find the budget spent, which call it.
LEMMA MoveStep ==
  ASSUME IInv, UNCHANGED Tls,
         \/ Start \/ FillFull \/ FillPending \/ FillExhausted \/ FillSpent
         \/ PollNothing \/ NextItem
  PROVE  IInv'
<1> USE DEF Start, FillFull, FillPending, FillExhausted, FillSpent, PollNothing,
            NextItem, listener
<1>1. Types /\ Queues /\ Pool /\ InputQueued /\ Asleep
  BY DEF IInv
<1>2. UNCHANGED <<stage, backlog, tls, input, ready>>
  OBVIOUS
<1>3. Types'
  <2>1. awake' \in BOOLEAN
    BY <1>1 DEF Types
  <2>2. waits' \in {"nobody", "listener", "handshake"}
    BY <1>1 DEF Types
  <2>3. pc' \in {"parked", "fill", "poll", "item"}
    OBVIOUS
  <2> QED
    BY <1>1, <1>2, <2>1, <2>2, <2>3 DEF Types
<1>4. Queues' /\ InputQueued'
  BY <1>1, <1>2 DEF Queues, InputQueued
<1>5. Pool' /\ (HasRoom' <=> HasRoom)
  BY <1>1, <1>2, SamePool
<1>6. Handshaking' = Handshaking
  BY <1>2 DEF Handshaking
<1>7. Asleep'
  <2>1. CASE Start \/ NextItem \/ FillExhausted \/ FillSpent
    BY <2>1 DEF Asleep
  <2>2. CASE FillFull
    BY <1>5, <2>2 DEF Asleep
  <2>3. CASE FillPending
    BY <1>2, <1>6, <2>3 DEF Asleep, AcceptWaits
  <2>4. CASE PollNothing
    BY <1>1, <1>2, <1>5, <1>6, <2>4 DEF Asleep, AcceptWaits
  <2> QED
    BY <2>1, <2>2, <2>3, <2>4
<1> QED
  BY <1>3, <1>4, <1>5, <1>7 DEF IInv

\* A connection enters the pool.
LEMMA PushStep ==
  ASSUME IInv, pc = "fill", HasRoom, NEW c \in Conns, Push(c),
         stage[c] \in {"backlog", "handshake"},
         backlog' \in Seq(Conns), Distinct(backlog'),
         \A d \in Conns : Within(backlog', d) => stage[d] = "backlog" /\ d # c,
         UNCHANGED <<Tls, tls, input, pc, awake, waits>>
  PROVE  IInv'
<1> USE DEF Push
<1>1. Types /\ Queues /\ Pool /\ InputQueued /\ Asleep
  BY DEF IInv
<1>2. ~Within(ready, c)
  BY <1>1 DEF Queues
<1>3. /\ ready' \in Seq(Conns) /\ Distinct(ready')
      /\ \A d : Within(ready', d) <=> Within(ready, d) \/ d = c
  BY <1>1, <1>2, AppendQueue DEF Types, Queues
<1>4. /\ stage' \in [Conns -> Stages] /\ stage'[c] = "pooled"
      /\ \A d \in Conns \ {c} : stage'[d] = stage[d]
  BY <1>1 DEF Types, Stages
<1>5. Types'
  BY <1>1, <1>3, <1>4 DEF Types
<1>6. Queues'
  BY <1>1, <1>3, <1>4 DEF Queues
<1>7. Pool'
  BY <1>1, PushPool DEF Types
<1>8. InputQueued'
  BY <1>1, <1>3, <1>4 DEF InputQueued
<1>9. Asleep'
  BY DEF Asleep
<1> QED
  BY <1>5, <1>6, <1>7, <1>8, <1>9 DEF IInv

\* A connection is on its way into the pool, or turned away.
LEMMA AwayStep ==
  ASSUME IInv, pc = "fill", NEW c \in Conns, NEW to \in {"handshake", "closed"},
         stage[c] \in {"backlog", "handshake"},
         stage' = [stage EXCEPT ![c] = to],
         backlog' \in Seq(Conns), Distinct(backlog'),
         \A d \in Conns : Within(backlog', d) => stage[d] = "backlog" /\ d # c,
         UNCHANGED <<Tls, tls, input, ready, pc, awake, waits>>
  PROVE  IInv'
<1>1. Types /\ Queues /\ Pool /\ InputQueued /\ Asleep
  BY DEF IInv
<1>2. /\ stage' \in [Conns -> Stages] /\ stage'[c] = to
      /\ \A d \in Conns \ {c} : stage'[d] = stage[d]
  BY <1>1 DEF Types, Stages
<1>3. \A d \in Conns : stage'[d] = "pooled" <=> stage[d] = "pooled"
  BY <1>2
<1>4. Types'
  BY <1>1, <1>2 DEF Types
<1>5. Queues'
  BY <1>1, <1>2, <1>3 DEF Queues
<1>6. Pool'
  BY <1>1, <1>3, SamePool
<1>7. InputQueued'
  BY <1>1, <1>3 DEF InputQueued
<1>8. Asleep'
  BY DEF Asleep
<1> QED
  BY <1>4, <1>5, <1>6, <1>7, <1>8 DEF IInv

LEMMA FillStep ==
  ASSUME IInv, UNCHANGED Tls,
         \/ FillAccept \/ FillAcceptFails \/ FillAcceptTls
         \/ \E c \in Conns : FillHandshakeOk(c) \/ FillHandshakeFailed(c)
  PROVE  IInv'
<1>1. Types /\ Queues
  BY DEF IInv
<1>2. ASSUME backlog # <<>>, backlog' = Tail(backlog)
      PROVE  /\ Head(backlog) \in Conns /\ stage[Head(backlog)] = "backlog"
             /\ backlog' \in Seq(Conns) /\ Distinct(backlog')
             /\ \A d \in Conns : Within(backlog', d) =>
                  stage[d] = "backlog" /\ d # Head(backlog)
  BY <1>1, <1>2, TailQueue DEF Types, Queues
<1>3. ASSUME NEW c \in Conns, stage[c] = "handshake"
      PROVE  /\ backlog \in Seq(Conns) /\ Distinct(backlog)
             /\ \A d \in Conns : Within(backlog, d) =>
                  stage[d] = "backlog" /\ d # c
  BY <1>1, <1>3 DEF Types, Queues
<1>4. CASE FillAccept
  BY <1>2, <1>4, PushStep DEF FillAccept, Accepting, listener
<1>5. CASE FillAcceptFails
  BY <1>2, <1>5, AwayStep DEF FillAcceptFails, Accepting, listener
<1>6. CASE FillAcceptTls
  BY <1>2, <1>6, AwayStep DEF FillAcceptTls, Accepting, listener
<1>7. ASSUME NEW c \in Conns, FillHandshakeOk(c) PROVE IInv'
  BY <1>3, <1>7, PushStep DEF FillHandshakeOk, listener
<1>8. ASSUME NEW c \in Conns, FillHandshakeFailed(c) PROVE IInv'
  BY <1>3, <1>8, AwayStep DEF FillHandshakeFailed, listener
<1> QED
  BY <1>4, <1>5, <1>6, <1>7, <1>8

LEMMA PollStep ==
  ASSUME IInv, UNCHANGED Tls, PollPending \/ PollSpent \/ PollItem \/ PollClosed
  PROVE  IInv'
<1> DEFINE c == Head(ready)
<1>1. Types /\ Queues /\ Pool /\ InputQueued /\ Asleep
  BY DEF IInv
<1>2. /\ ready # <<>> /\ pc = "poll"
      /\ UNCHANGED <<Tls, backlog, tls, waits>>
  BY DEF PollPending, PollSpent, PollItem, PollClosed, listener
<1>3. /\ c \in Conns /\ Within(ready, c) /\ stage[c] = "pooled"
      /\ Tail(ready) \in Seq(Conns) /\ Distinct(Tail(ready))
      /\ \A d : Within(Tail(ready), d) <=> Within(ready, d) /\ d # c
  BY <1>1, <1>2, TailQueue DEF Types, Queues
<1>4. CASE PollPending
  <2>1. /\ ready' = Tail(ready) /\ input[c] = "none"
        /\ UNCHANGED <<stage, input, pc, awake>>
    BY <1>4 DEF PollPending
  <2> HIDE DEF c
  <2>2. Types'
    BY <1>1, <1>2, <1>3, <2>1 DEF Types
  <2>3. Queues'
    BY <1>1, <1>2, <1>3, <2>1 DEF Queues
  <2>4. Pool' /\ (HasRoom' <=> HasRoom)
    BY <1>1, <2>1, SamePool
  <2>5. InputQueued'
    BY <1>1, <1>3, <2>1 DEF InputQueued
  <2>6. Asleep'
    BY <1>1, <1>2, <2>1, <2>4 DEF Asleep, AcceptWaits, Handshaking
  <2> QED
    BY <2>2, <2>3, <2>4, <2>5, <2>6 DEF IInv
<1>5. CASE PollItem
  <2>1. /\ ready' = Append(Tail(ready), c)
        /\ input' = [input EXCEPT ![c] = "none"]
        /\ stage' = stage /\ pc' = "item" /\ awake' = awake
    BY <1>5 DEF PollItem
  <2> HIDE DEF c
  <2>2. /\ ready' \in Seq(Conns) /\ Distinct(ready')
        /\ \A d : Within(ready', d) <=> Within(ready, d)
    BY <1>3, <2>1, AppendQueue
  <2>3. /\ input' \in [Conns -> {"none", "item", "end", "error"}]
        /\ input'[c] = "none" /\ \A d \in Conns \ {c} : input'[d] = input[d]
    BY <1>1, <1>3, <2>1 DEF Types
  <2>4. Types'
    BY <1>1, <1>2, <2>1, <2>2, <2>3 DEF Types
  <2>5. Queues'
    BY <1>1, <1>2, <2>1, <2>2 DEF Queues
  <2>6. Pool'
    BY <1>1, <2>1, SamePool
  <2>7. InputQueued'
    BY <1>1, <2>1, <2>2, <2>3 DEF InputQueued
  <2>8. Asleep'
    BY <2>1 DEF Asleep
  <2> QED
    BY <2>4, <2>5, <2>6, <2>7, <2>8 DEF IInv
<1>6. CASE PollClosed
  <2>1. /\ ready' = Tail(ready) /\ stage' = [stage EXCEPT ![c] = "closed"]
        /\ input' = input /\ pc' = "fill" /\ awake' = awake
    BY <1>6 DEF PollClosed
  <2> HIDE DEF c
  <2>2. /\ stage' \in [Conns -> Stages] /\ stage'[c] = "closed"
        /\ \A d \in Conns \ {c} : stage'[d] = stage[d]
    BY <1>1, <1>3, <2>1 DEF Types, Stages
  <2>3. Types'
    BY <1>1, <1>2, <1>3, <2>1, <2>2 DEF Types
  <2>4. Queues'
    BY <1>1, <1>2, <1>3, <2>1, <2>2 DEF Queues
  <2>5. Pool'
    BY <1>1, <1>3, <2>1, DropPool DEF Types
  <2>6. InputQueued'
    BY <1>1, <1>3, <2>1, <2>2 DEF InputQueued
  <2>7. Asleep'
    BY <2>1 DEF Asleep
  <2> QED
    BY <2>3, <2>4, <2>5, <2>6, <2>7 DEF IInv
<1>7. CASE PollSpent
  <2>1. /\ ready' = Append(Tail(ready), c)
        /\ UNCHANGED <<stage, input>> /\ awake' = TRUE
    BY <1>7 DEF PollSpent
  <2>2. pc' \in {"poll", "parked"}
    BY <1>2, <1>7 DEF PollSpent
  <2> HIDE DEF c
  <2>3. /\ ready' \in Seq(Conns) /\ Distinct(ready')
        /\ \A d : Within(ready', d) <=> Within(ready, d)
    BY <1>3, <2>1, AppendQueue
  <2>4. awake' \in BOOLEAN
    BY <2>1
  <2>5. Types'
    BY <1>1, <1>2, <2>1, <2>2, <2>3, <2>4 DEF Types
  <2>6. Queues'
    BY <1>1, <1>2, <2>1, <2>3 DEF Queues
  <2>7. Pool'
    BY <1>1, <2>1, SamePool
  <2>8. InputQueued'
    BY <1>1, <2>1, <2>3 DEF InputQueued
  <2>9. Asleep'
    BY <2>1 DEF Asleep
  <2> QED
    BY <2>5, <2>6, <2>7, <2>8, <2>9 DEF IInv
<1> QED
  BY <1>4, <1>5, <1>6, <1>7

-----------------------------------------------------------------------------
\* Whether there are descriptors changes nothing else.
LEMMA DescriptorsStep ==
  ASSUME IInv, UNCHANGED Tls, Descriptors
  PROVE  IInv'
<1> USE DEF Descriptors, listener
<1>1. Types' /\ Queues' /\ InputQueued'
  BY DEF IInv, Types, Queues, InputQueued
<1>2. Pool' /\ (HasRoom' <=> HasRoom)
  BY SamePool DEF IInv
<1>3. Asleep'
  BY <1>2 DEF IInv, Asleep, AcceptWaits, Handshaking
<1> QED
  BY <1>1, <1>2, <1>3 DEF IInv

LEMMA NextIInv == IInv /\ [Next]_vars => IInv'
<1> SUFFICES ASSUME IInv, [Next]_vars PROVE IInv'
  OBVIOUS
<1>1. CASE UNCHANGED vars
  <2> USE <1>1 DEF vars, listener
  <2>1. Types' /\ Queues' /\ InputQueued'
    BY DEF IInv, Types, Queues, InputQueued
  <2>2. Pool' /\ (HasRoom' <=> HasRoom)
    BY SamePool DEF IInv
  <2>3. Asleep'
    BY <2>2 DEF IInv, Asleep, AcceptWaits, Handshaking
  <2> QED
    BY <2>1, <2>2, <2>3 DEF IInv
<1>2. CASE poll_next
  BY <1>2, MoveStep, FillStep, PollStep DEF poll_next
<1>3. CASE Environment
  BY <1>3, ConnectStep, HandshakeEndsStep, ArriveStep, DescriptorsStep
     DEF Environment
<1> QED
  BY <1>1, <1>2, <1>3 DEF Next

\* Every state of the pool satisfies the inductive invariant: it holds of the
\* empty pool, and every step of poll_next, of the listener, of the connections
\* and of their wakers preserves it.
THEOREM Inductive == Spec => []IInv
<1>1. Init => IInv
  BY InitIInv
<1>2. IInv /\ [Next]_vars => IInv'
  BY NextIInv
<1> QED
  BY <1>1, <1>2, PTL DEF Spec

\* The pool of Listen never holds more than max connections, and the queue of
\* FuturesUnordered holds each pooled connection at most once and no other.
THEOREM PoolStaysBounded == Spec => []PoolBound
<1>1. IInv => PoolBound
  <2> SUFFICES ASSUME IInv PROVE PoolBound
    OBVIOUS
  <2>1. Cardinality(connections) <= max /\ Distinct(ready)
    BY DEF IInv, Pool, Queues
  <2>2. ready \in Seq(Conns) /\ \A i \in 1..Len(ready) : ready[i] \in connections
    BY DEF IInv, Types, Queues, Within, connections
  <2>3. ready \in Seq(connections)
    BY <2>2
  <2> QED
    BY <2>1, <2>3 DEF PoolBound, Distinct
<1> QED
  BY <1>1, Inductive, PTL

\* poll_next never returns Pending with work left and no waker called or held:
\* a full pool, which leaves none with the listener, fills the next free place.
THEOREM NeverSleepsOverWork == Spec => []NoLostWakeup
<1>1. IInv => NoLostWakeup
  <2> SUFFICES ASSUME IInv, pc = "parked", ~awake
               PROVE  /\ \A c \in connections : input[c] = "none"
                      /\ HasRoom => AcceptWaits
    BY DEF NoLostWakeup, AcceptWaits
  <2>1. ready = <<>> /\ (HasRoom => AcceptWaits)
    BY DEF IInv, Asleep
  <2>2. \A c \in Conns : ~Within(ready, c)
    BY <2>1 DEF Within
  <2>3. \A c \in connections : input[c] = "none"
    BY <2>2 DEF IInv, InputQueued, connections
  <2> QED
    BY <2>1, <2>3
<1> QED
  BY <1>1, Inductive, PTL
=============================================================================
