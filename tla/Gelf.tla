--------------------------------- MODULE Gelf ---------------------------------
(***************************************************************************)
(* The GELF receiver: struct Gelf of sqelf/src/receive.rs.  It keeps the   *)
(* chunks of incomplete messages in two indexes, one by message id and one *)
(* by arrival, and every call of decode hands back a message, nothing yet, *)
(* or an error.  One action is one whole call of decode; Tick is the wall  *)
(* clock, which may also be set back.                                      *)
(***************************************************************************)
EXTENDS Integers, FiniteSets

CONSTANTS
  Ids,                     \* message ids (u64 in the header)
  Bodies,                  \* the bytes of a datagram, or after a header
  EmptyBody,               \* the body of length 0
  MaxByte,                 \* u8::MAX, the largest seq_num and seq_count
  U64Max,                  \* u64::MAX, where the arrival counter wraps
  incomplete_capacity,     \* Config, usize
  max_chunks_per_message,  \* Config, u8
  incomplete_timeout_ms,   \* Config
  Time,                    \* readings of the wall clock, 0 being the epoch
  MaxOpened                \* bound: messages opened in one behaviour

ASSUME BodiesAssumption == EmptyBody \in Bodies
ASSUME WidthAssumption == MaxByte \in Nat /\ U64Max \in Nat
ASSUME ConfigAssumption ==
  /\ incomplete_capacity \in Nat
  /\ max_chunks_per_message \in 0..MaxByte
  /\ incomplete_timeout_ms \in Nat
ASSUME TimeAssumption == Time \subseteq Int /\ Time # {}
ASSUME BoundAssumption == MaxOpened \in 0..U64Max

VARIABLES
  by_id,       \* id -> [expected_total, inner, ts], inner: seq -> body
  by_arrival,  \* ts -> id, where ts is a UniqueTimestamp
  counter,     \* ByArrival.counter
  now,         \* the wall clock
  out          \* what the last call of decode returned

vars == <<by_id, by_arrival, counter, now, out>>

-----------------------------------------------------------------------------
(* Maps.  A map is a function on the set of its keys.                      *)

EmptyMap == [k \in {} |-> k]

Put(f, k, v) == [j \in DOMAIN f \cup {k} |-> IF j = k THEN v ELSE f[j]]

Without(f, K) == [j \in DOMAIN f \ K |-> f[j]]

(* What decode returns.                                                    *)

Failed == [tag |-> "error"]

Nothing == [tag |-> "incomplete"]

\* Message::single: an empty body is no message.
Single(body) ==
  IF body = EmptyBody THEN Nothing ELSE [tag |-> "single", chunks |-> <<body>>]

\* The i-th smallest key, as a BTreeMap iterates.
NthKey(inner, i) ==
  CHOOSE k \in DOMAIN inner : Cardinality({j \in DOMAIN inner : j < k}) = i - 1

\* Message::chunked over chunks.inner.into_iter().
Chunked(inner) ==
  [tag |-> "chunked",
   chunks |-> [i \in 1..Cardinality(DOMAIN inner) |-> inner[NthKey(inner, i)]]]

-----------------------------------------------------------------------------
(* UniqueTimestamp <<time, counter>>, ordered lexicographically.           *)

Before(t, u) == t[1] < u[1] \/ (t[1] = u[1] /\ t[2] < u[2])

FaultySinceEpoch(t) == TRUE

\* A clock reading converts to a Duration unless it is before the epoch.
SinceEpoch(t) == t >= 0

FaultySince(t) == <<t - incomplete_timeout_ms, counter>>

\* UniqueTimestamp::since, the first timestamp that has not expired.
since(t) == <<t - incomplete_timeout_ms, 0>>

wrapping_add(c) == IF c = U64Max THEN 0 ELSE c + 1

(* Gelf::gc, run on every chunk before its header is looked at.            *)

FaultyAtCapacity == Cardinality(DOMAIN by_id) > incomplete_capacity

AtCapacity == Cardinality(DOMAIN by_id) >= incomplete_capacity

gc_overflow_by_id == IF AtCapacity THEN EmptyMap ELSE by_id

gc_overflow_by_arrival == IF AtCapacity THEN EmptyMap ELSE by_arrival

to_remove ==
  {ts \in DOMAIN gc_overflow_by_arrival : Before(ts, since(now))}

gc_succeeds == SinceEpoch(now - incomplete_timeout_ms)

FaultyGcById == gc_overflow_by_id

gc_by_id ==
  Without(gc_overflow_by_id, {gc_overflow_by_arrival[ts] : ts \in to_remove})

gc_by_arrival == Without(gc_overflow_by_arrival, to_remove)

-----------------------------------------------------------------------------
(* What arrives: a datagram without the chunk magic is a body; one with it *)
(* is too short for a header, or a header and a body.                      *)

Chunk == [id : Ids, seq_num : 0..MaxByte, seq_count : 0..MaxByte, body : Bodies]

\* ChunkHeader::get accepts the header.
HeaderOk(c) == c.seq_num < c.seq_count

FaultyIsOnlyChunk(c) == FALSE

\* The first arm of chunked: the only chunk of its message.
IsOnlyChunk(c) == c.seq_num = 0 /\ c.seq_count = 1

TooManyChunks(c) == c.seq_count > max_chunks_per_message

\* The last arm of chunked, once gc and ChunkHeader::get have succeeded.
Pushed(c) ==
  gc_succeeds /\ HeaderOk(c) /\ ~IsOnlyChunk(c) /\ ~TooManyChunks(c)

FaultySameTotal(c) == TRUE

\* The check of expected_total in push.
SameTotal(c) == gc_by_id[c.id].expected_total = c.seq_count

\* Chunks::insert: a repeated seq_num replaces what was there.
Inserted(c) == Put(gc_by_id[c.id].inner, c.seq_num, c.body)

FaultyIsComplete(c) == Cardinality(DOMAIN Inserted(c)) >= c.seq_count - 1

\* Chunks::is_complete
is_complete(c) == Cardinality(DOMAIN Inserted(c)) = c.seq_count

-----------------------------------------------------------------------------
Init ==
  /\ by_id = EmptyMap
  /\ by_arrival = EmptyMap
  /\ counter = 0
  /\ now \in Time
  /\ out = [tag |-> "none"]

\* The clock moves on, or is set back.
Tick ==
  /\ now' \in Time \ {now}
  /\ UNCHANGED <<by_id, by_arrival, counter, out>>

\* decode of a datagram without the chunk magic.
Unchunked(body) ==
  /\ out' = Single(body)
  /\ UNCHANGED <<by_id, by_arrival, counter, now>>

\* gc clears the maps at capacity before it reads the clock and fails.
GcFails ==
  /\ ~gc_succeeds
  /\ by_id' = gc_overflow_by_id
  /\ by_arrival' = gc_overflow_by_arrival
  /\ out' = Failed
  /\ UNCHANGED <<counter, now>>

Collected ==
  /\ by_id' = gc_by_id
  /\ by_arrival' = gc_by_arrival
  /\ UNCHANGED <<counter, now>>

\* A datagram with the chunk magic that is too short to hold a header.
Truncated ==
  /\ gc_succeeds
  /\ Collected
  /\ out' = Failed

Rejected(c) ==
  /\ gc_succeeds
  /\ ~HeaderOk(c) \/ (~IsOnlyChunk(c) /\ TooManyChunks(c))
  /\ Collected
  /\ out' = Failed

OnlyChunk(c) ==
  /\ gc_succeeds
  /\ HeaderOk(c)
  /\ IsOnlyChunk(c)
  /\ Collected
  /\ out' = Single(c.body)

\* push, vacant entry: ByArrival::ts reads the clock a second time.
Open(c) ==
  /\ Pushed(c)
  /\ c.id \notin DOMAIN gc_by_id
  /\ counter < MaxOpened
  /\ now' \in Time
  /\ SinceEpoch(now')
  /\ LET ts == <<now', counter>>
     IN  /\ by_arrival' = Put(gc_by_arrival, ts, c.id)
         /\ by_id' = Put(gc_by_id, c.id,
                         [expected_total |-> c.seq_count,
                          inner |-> Put(EmptyMap, c.seq_num, c.body),
                          ts |-> ts])
  /\ counter' = wrapping_add(counter)
  /\ out' = Nothing

\* push, vacant entry, and the clock was set before the epoch since gc.
OpenFails(c) ==
  /\ Pushed(c)
  /\ c.id \notin DOMAIN gc_by_id
  /\ now' \in Time
  /\ ~SinceEpoch(now')
  /\ by_id' = gc_by_id
  /\ by_arrival' = gc_by_arrival
  /\ out' = Failed
  /\ UNCHANGED counter

\* push, occupied entry of a different expected_total.
Mismatch(c) ==
  /\ Pushed(c)
  /\ c.id \in DOMAIN gc_by_id
  /\ ~SameTotal(c)
  /\ Collected
  /\ out' = Failed

FaultyAdd(c) ==
  /\ Pushed(c)
  /\ c.id \in DOMAIN gc_by_id
  /\ SameTotal(c)
  /\ ~is_complete(c)
  /\ counter < MaxOpened
  /\ LET ts == <<now, counter>>
     IN  /\ by_id' = Put(gc_by_id, c.id,
                         [expected_total |-> c.seq_count,
                          inner |-> Inserted(c), ts |-> ts])
         /\ by_arrival' =
              Put(Without(gc_by_arrival, {gc_by_id[c.id].ts}), ts, c.id)
  /\ counter' = wrapping_add(counter)
  /\ out' = Nothing
  /\ UNCHANGED now

\* push, occupied entry that still lacks a chunk.
Add(c) ==
  /\ Pushed(c)
  /\ c.id \in DOMAIN gc_by_id
  /\ SameTotal(c)
  /\ ~is_complete(c)
  /\ by_id' = [gc_by_id EXCEPT ![c.id].inner = Inserted(c)]
  /\ by_arrival' = gc_by_arrival
  /\ out' = Nothing
  /\ UNCHANGED <<counter, now>>

FaultyComplete(c) ==
  /\ Pushed(c)
  /\ c.id \in DOMAIN gc_by_id
  /\ SameTotal(c)
  /\ is_complete(c)
  /\ by_id' = Without(gc_by_id, {c.id})
  /\ by_arrival' = gc_by_arrival
  /\ out' = Chunked(Inserted(c))
  /\ UNCHANGED <<counter, now>>

\* push, occupied entry that the chunk completes.
Complete(c) ==
  /\ Pushed(c)
  /\ c.id \in DOMAIN gc_by_id
  /\ SameTotal(c)
  /\ is_complete(c)
  /\ by_id' = Without(gc_by_id, {c.id})
  /\ by_arrival' = Without(gc_by_arrival, {gc_by_id[c.id].ts})
  /\ out' = Chunked(Inserted(c))
  /\ UNCHANGED <<counter, now>>

\* chunked of a datagram that holds a header, when gc succeeds.
chunked(c) ==
  \/ Rejected(c)
  \/ OnlyChunk(c)
  \/ Open(c)
  \/ OpenFails(c)
  \/ Mismatch(c)
  \/ Add(c)
  \/ Complete(c)

decode ==
  \/ \E body \in Bodies : Unchunked(body)
  \/ GcFails
  \/ Truncated
  \/ \E c \in Chunk : chunked(c)

Next == Tick \/ decode

Spec == Init /\ [][Next]_vars
-----------------------------------------------------------------------------
(* Properties.                                                             *)

InnerMaps == UNION {[S -> Bodies] : S \in SUBSET (0..MaxByte)}

Incomplete ==
  [expected_total : 0..MaxByte, inner : InnerMaps, ts : Nat \X Nat]

Outcomes ==
  {"none", "error", "incomplete", "single", "chunked"}

\* Timestamps are Durations since the epoch with a u64 counter, sequence
\* numbers and totals are bytes; push and ts keep them so although the clock
\* they read may be anywhere.
TypeOK ==
  /\ DOMAIN by_id \subseteq Ids
  /\ by_id \in [DOMAIN by_id -> Incomplete]
  /\ DOMAIN by_arrival \subseteq Nat \X Nat
  /\ by_arrival \in [DOMAIN by_arrival -> Ids]
  /\ counter \in 0..MaxOpened
  /\ now \in Time
  /\ out.tag \in Outcomes

\* by_id and by_arrival always index the same incomplete messages, each under
\* the timestamp the other one holds, whichever of gc, push and a failed clock
\* reading ran last: gc can reach every message, and none is removed for
\* another's timestamp.
IndexesAgree ==
  /\ \A id \in DOMAIN by_id :
       /\ by_id[id].ts \in DOMAIN by_arrival
       /\ by_arrival[by_id[id].ts] = id
  /\ \A ts \in DOMAIN by_arrival :
       /\ by_arrival[ts] \in DOMAIN by_id
       /\ by_id[by_arrival[ts]].ts = ts

\* gc runs before every push, so no more than incomplete_capacity messages
\* are ever held (one, when the capacity is 0).
CapacityBound ==
  Cardinality(DOMAIN by_id) <= incomplete_capacity
    \/ Cardinality(DOMAIN by_id) <= 1

\* What is held is really incomplete: it announces 2 to max_chunks_per_message
\* chunks, holds at least one, none beyond its total, and lacks at least one.
\* is_complete counts chunks instead of looking for the missing ones; this is
\* why counting is enough.
StoredIncomplete ==
  \A id \in DOMAIN by_id :
    LET m == by_id[id] IN
    /\ m.expected_total \in 2..max_chunks_per_message
    /\ DOMAIN m.inner # {}
    /\ DOMAIN m.inner \subseteq 0..(m.expected_total - 1)
    /\ DOMAIN m.inner # 0..(m.expected_total - 1)

\* The message's first chunk came more than the timeout ago.
Overdue(id) == by_id[id].ts[1] < now - incomplete_timeout_ms

\* This call hands out the message: all its chunks but one were held, and they
\* are in their places.
HandedOut(id) ==
  LET m == by_id[id] IN
  /\ out'.tag = "chunked"
  /\ Cardinality(DOMAIN m.inner) = m.expected_total - 1
  /\ DOMAIN out'.chunks = 1..m.expected_total
  /\ \A s \in DOMAIN m.inner : out'.chunks[s + 1] = m.inner[s]

\* "The timeout starts from when the first chunk is received, and does not
\* reset": a message keeps its timestamp for as long as it is held.  The id
\* is found under another timestamp only when the old message was given up by
\* gc and the same call opened a new one with its own first chunk.
TimeoutFromFirstChunk ==
  [][\A id \in DOMAIN by_id \cap DOMAIN by_id' :
       by_id'[id].ts # by_id[id].ts =>
         /\ AtCapacity \/ Overdue(id)
         /\ Cardinality(DOMAIN by_id'[id].inner) = 1]_vars

\* An incomplete message leaves only because all were dropped at capacity,
\* because it is overdue, or because this call completed it; the boundary
\* instant of the timeout still belongs to the message.
LeavesForCause ==
  [][\A id \in DOMAIN by_id \ DOMAIN by_id' :
       \/ Cardinality(DOMAIN by_id) >= incomplete_capacity
       \/ Overdue(id)
       \/ HandedOut(id)]_vars

\* A chunk that arrives after the timeout of its message never joins the
\* chunks that came before it: it neither adds to that message nor completes
\* it.
NoLateJoin ==
  [][/\ \A id \in DOMAIN by_id \cap DOMAIN by_id' :
          Overdue(id) => \/ by_id'[id].inner = by_id[id].inner
                         \/ by_id'[id].ts # by_id[id].ts
     /\ (out'.tag = "chunked" /\ by_id' # by_id) =>
          \E id \in DOMAIN by_id \ DOMAIN by_id' :
            ~Overdue(id) /\ HandedOut(id)]_vars

-----------------------------------------------------------------------------
(* The receiver implements the lossy reassembly buffer.                    *)

partial ==
  [id \in DOMAIN by_id |->
     [total |-> by_id[id].expected_total, got |-> by_id[id].inner]]

R == INSTANCE Reassembly WITH MaxChunks <- max_chunks_per_message

\* Whatever is dropped, duplicated, reordered or interleaved, and wherever the
\* clock goes, a chunked message is handed out exactly when its last missing
\* chunk arrives, whole, in sequence order and with nothing of another message
\* or of another total mixed in; and every failing call only forgets.
ImplementsReassembly == R!Spec
=============================================================================
