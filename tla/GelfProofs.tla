------------------------------ MODULE GelfProofs ------------------------------
(***************************************************************************)
(* Proofs about Gelf, for every set of ids and bodies, every configuration *)
(* and every behaviour of the clock.                                       *)
(*                                                                         *)
(* The two indexes only make sense together, so the inductive invariant is *)
(* stated of a pair of maps f (by id) and g (by arrival) and a counter c:  *)
(* gc, push and the removal of a complete message are then lemmas about    *)
(* Good(f, g, c), which every action of Gelf combines.                     *)
(***************************************************************************)
EXTENDS Gelf, FiniteSetTheorems, TLAPS

Typed(f, g) ==
  /\ DOMAIN f \subseteq Ids
  /\ f \in [DOMAIN f -> Incomplete]
  /\ DOMAIN g \subseteq Nat \X Nat
  /\ g \in [DOMAIN g -> Ids]

Agree(f, g) ==
  /\ \A id \in DOMAIN f : f[id].ts \in DOMAIN g /\ g[f[id].ts] = id
  /\ \A ts \in DOMAIN g : g[ts] \in DOMAIN f /\ f[g[ts]].ts = ts

Fresh(g, c) == \A ts \in DOMAIN g : ts[2] < c

\* One message of StoredIncomplete.
Lacking(m) ==
  /\ m.expected_total \in 2..max_chunks_per_message
  /\ DOMAIN m.inner # {}
  /\ DOMAIN m.inner \subseteq 0..(m.expected_total - 1)
  /\ DOMAIN m.inner # 0..(m.expected_total - 1)

Good(f, g, c) ==
  /\ Typed(f, g)
  /\ Agree(f, g)
  /\ Fresh(g, c)
  /\ \A id \in DOMAIN f : Lacking(f[id])

\* The inductive invariant.
IInv ==
  /\ Good(by_id, by_arrival, counter)
  /\ counter \in 0..MaxOpened
  /\ now \in Time
  /\ out.tag \in Outcomes

-----------------------------------------------------------------------------
\* A map of chunks is typed when its keys are bytes and its values bodies.
LEMMA InnerMapsType ==
  ASSUME NEW inner, NEW S, S \subseteq 0..MaxByte, inner \in [S -> Bodies]
  PROVE  inner \in InnerMaps
BY DEF InnerMaps

LEMMA InnerMapsElim ==
  ASSUME NEW inner \in InnerMaps
  PROVE  /\ DOMAIN inner \subseteq 0..MaxByte
         /\ inner \in [DOMAIN inner -> Bodies]
<1>1. PICK S \in SUBSET (0..MaxByte) : inner \in [S -> Bodies]
  BY DEF InnerMaps
<1>2. DOMAIN inner = S
  BY <1>1
<1> QED
  BY <1>1, <1>2

\* Two empty maps are good: ByArrival::new and ById::new, and gc at capacity.
LEMMA GoodEmpty ==
  ASSUME NEW c \in Nat
  PROVE  Good(EmptyMap, EmptyMap, c)
<1>1. DOMAIN EmptyMap = {}
  BY DEF EmptyMap
<1>2. EmptyMap \in [{} -> Incomplete] /\ EmptyMap \in [{} -> Ids]
  BY DEF EmptyMap
<1> QED
  BY <1>1, <1>2 DEF Good, Typed, Agree, Fresh

\* Removing timestamps from g and the ids they hold from f, as the loop of gc
\* and the completion of a message do, keeps the maps good.
LEMMA GoodWithout ==
  ASSUME NEW f, NEW g, NEW c \in Nat, Good(f, g, c),
         NEW K \in SUBSET DOMAIN g
  PROVE  Good(Without(f, {g[ts] : ts \in K}), Without(g, K), c)
<1> DEFINE I == {g[ts] : ts \in K}
           F == Without(f, I)
           G == Without(g, K)
<1>1. /\ DOMAIN F = DOMAIN f \ I
      /\ \A id \in DOMAIN F : F[id] = f[id]
      /\ F \in [DOMAIN F -> Incomplete]
  BY DEF Without, Good, Typed
<1>2. /\ DOMAIN G = DOMAIN g \ K
      /\ \A ts \in DOMAIN G : G[ts] = g[ts]
      /\ G \in [DOMAIN G -> Ids]
  BY DEF Without, Good, Typed
<1> HIDE DEF F, G
<1>3. Typed(F, G)
  BY <1>1, <1>2 DEF Good, Typed
<1>4. ASSUME NEW id \in DOMAIN F
      PROVE  F[id].ts \in DOMAIN G /\ G[F[id].ts] = id
  <2>1. f[id].ts \in DOMAIN g /\ g[f[id].ts] = id
    BY <1>1 DEF Good, Agree
  <2>2. f[id].ts \notin K
    BY <1>1, <2>1
  <2> QED
    BY <1>1, <1>2, <2>1, <2>2
<1>5. ASSUME NEW ts \in DOMAIN G
      PROVE  G[ts] \in DOMAIN F /\ F[G[ts]].ts = ts
  <2>1. g[ts] \in DOMAIN f /\ f[g[ts]].ts = ts
    BY <1>2 DEF Good, Agree
  <2>2. g[ts] \notin I
    <3>1. SUFFICES ASSUME NEW u \in K, g[u] = g[ts] PROVE FALSE
      OBVIOUS
    <3>2. f[g[u]].ts = u
      BY DEF Good, Agree
    <3> QED
      BY <1>2, <2>1, <3>1, <3>2
  <2> QED
    BY <1>1, <1>2, <2>1, <2>2
<1>6. Agree(F, G)
  BY <1>4, <1>5 DEF Agree
<1>7. Fresh(G, c)
  BY <1>2 DEF Good, Fresh
<1>8. \A id \in DOMAIN F : Lacking(F[id])
  BY <1>1 DEF Good
<1>9. Good(F, G, c)
  BY <1>3, <1>6, <1>7, <1>8 DEF Good
<1> QED
  BY <1>9 DEF F, G

\* Entering a new message under a timestamp that carries the next counter
\* keeps the maps good; the counter makes the timestamp new.
LEMMA GoodPut ==
  ASSUME NEW f, NEW g, NEW c \in Nat, Good(f, g, c),
         NEW id \in Ids, id \notin DOMAIN f,
         NEW t \in Nat,
         NEW m \in Incomplete, m.ts = <<t, c>>, Lacking(m)
  PROVE  Good(Put(f, id, m), Put(g, <<t, c>>, id), c + 1)
<1> DEFINE new == <<t, c>>
           F == Put(f, id, m)
           G == Put(g, new, id)
<1>0. new \in Nat \X Nat /\ new[2] = c
  OBVIOUS
<1>1. new \notin DOMAIN g
  BY <1>0 DEF Good, Fresh
<1>2. /\ DOMAIN F = DOMAIN f \cup {id}
      /\ F[id] = m
      /\ \A i \in DOMAIN f : F[i] = f[i]
      /\ F \in [DOMAIN F -> Incomplete]
  BY DEF Put, Good, Typed
<1>3. /\ DOMAIN G = DOMAIN g \cup {new}
      /\ G[new] = id
      /\ \A ts \in DOMAIN g : G[ts] = g[ts]
      /\ G \in [DOMAIN G -> Ids]
  BY <1>1 DEF Put, Good, Typed
<1>4. m.ts = new
  OBVIOUS
<1> HIDE DEF F, G, new
<1>5. Typed(F, G)
  BY <1>0, <1>2, <1>3 DEF Good, Typed
<1>6. Agree(F, G)
  <2>1. ASSUME NEW i \in DOMAIN F
        PROVE  F[i].ts \in DOMAIN G /\ G[F[i].ts] = i
    BY <1>2, <1>3, <1>4 DEF Good, Agree
  <2>2. ASSUME NEW ts \in DOMAIN G
        PROVE  G[ts] \in DOMAIN F /\ F[G[ts]].ts = ts
    BY <1>2, <1>3, <1>4 DEF Good, Agree
  <2> QED
    BY <2>1, <2>2 DEF Agree
<1>7. Fresh(G, c + 1)
  <2>1. ASSUME NEW ts \in DOMAIN G PROVE ts[2] < c + 1
    <3>1. CASE ts = new
      BY <1>0, <3>1
    <3>2. CASE ts \in DOMAIN g
      <4>1. ts[2] < c /\ ts \in Nat \X Nat
        BY <3>2 DEF Good, Typed, Fresh
      <4> QED
        BY <4>1
    <3> QED
      BY <1>3, <3>1, <3>2
  <2> QED
    BY <2>1 DEF Fresh
<1>8. \A i \in DOMAIN F : Lacking(F[i])
  BY <1>2 DEF Good
<1>9. Good(F, G, c + 1)
  BY <1>5, <1>6, <1>7, <1>8 DEF Good
<1> QED
  BY <1>9 DEF F, G, new

\* Replacing the chunks of a message that stays incomplete keeps the maps good.
LEMMA GoodReplace ==
  ASSUME NEW f, NEW g, NEW c \in Nat, Good(f, g, c),
         NEW id \in DOMAIN f,
         NEW inner \in InnerMaps, Lacking([f[id] EXCEPT !.inner = inner])
  PROVE  Good([f EXCEPT ![id].inner = inner], g, c)
<1> DEFINE m == [f[id] EXCEPT !.inner = inner]
           F == [f EXCEPT ![id].inner = inner]
<1>1. f[id] \in Incomplete
  BY DEF Good, Typed
<1>2. m \in Incomplete /\ m.ts = f[id].ts
  BY <1>1 DEF Incomplete
<1>3. /\ DOMAIN F = DOMAIN f
      /\ F[id] = m
      /\ \A i \in DOMAIN f : i # id => F[i] = f[i]
  BY DEF Good, Typed
<1>4. F \in [DOMAIN F -> Incomplete]
  BY <1>2 DEF Good, Typed
<1>5. Lacking(m)
  OBVIOUS
<1> HIDE DEF m, F
<1>6. Typed(F, g)
  BY <1>3, <1>4 DEF Good, Typed
<1>7. \A i \in DOMAIN f : F[i].ts = f[i].ts
  BY <1>2, <1>3
<1>8. Agree(F, g)
  BY <1>3, <1>7 DEF Good, Agree
<1>9. \A i \in DOMAIN F : Lacking(F[i])
  BY <1>3, <1>5 DEF Good
<1>10. Good(F, g, c)
  BY <1>6, <1>8, <1>9 DEF Good
<1> QED
  BY <1>10 DEF F

\* Counting is enough: among the numbers below n, a set has n elements
\* exactly when nothing is missing.
LEMMA CountingIsEnough ==
  ASSUME NEW n \in Nat, NEW S \in SUBSET (0..(n - 1))
  PROVE  /\ IsFiniteSet(S)
         /\ Cardinality(S) = n <=> S = 0..(n - 1)
<1>1. IsFiniteSet(0..(n - 1)) /\ Cardinality(0..(n - 1)) = n
  <2>1. 0 \in Int /\ n - 1 \in Int
    OBVIOUS
  <2>2. /\ IsFiniteSet(0..(n - 1))
        /\ Cardinality(0..(n - 1)) = IF 0 > n - 1 THEN 0 ELSE (n - 1) - 0 + 1
    BY <2>1, FS_Interval
  <2> QED
    BY <2>2
<1>2. IsFiniteSet(S) /\ (Cardinality(S) = n => S = 0..(n - 1))
  BY <1>1, FS_Subset
<1> QED
  BY <1>1, <1>2

-----------------------------------------------------------------------------
\* gc keeps the indexes good when it fails on the clock, after a possible
\* overflow, and when it runs to its end.
LEMMA GcGood ==
  ASSUME IInv
  PROVE  /\ Good(gc_overflow_by_id, gc_overflow_by_arrival, counter)
         /\ Good(gc_by_id, gc_by_arrival, counter)
<1>1. counter \in Nat
  BY BoundAssumption, WidthAssumption DEF IInv
<1>2. Good(gc_overflow_by_id, gc_overflow_by_arrival, counter)
  <2>1. CASE AtCapacity
    BY <1>1, <2>1, GoodEmpty DEF gc_overflow_by_id, gc_overflow_by_arrival
  <2>2. CASE ~AtCapacity
    BY <2>2 DEF gc_overflow_by_id, gc_overflow_by_arrival, IInv
  <2> QED
    BY <2>1, <2>2
<1>3. to_remove \in SUBSET DOMAIN gc_overflow_by_arrival
  BY DEF to_remove
<1>4. Good(gc_by_id, gc_by_arrival, counter)
  BY <1>1, <1>2, <1>3, GoodWithout DEF gc_by_id, gc_by_arrival
<1> QED
  BY <1>2, <1>4

\* A chunk that push accepts has a total and a number below it that fit.
LEMMA PushedFacts ==
  ASSUME NEW c \in Chunk, Pushed(c)
  PROVE  /\ c.id \in Ids
         /\ c.body \in Bodies
         /\ c.seq_count \in 2..max_chunks_per_message
         /\ c.seq_count \in 0..MaxByte
         /\ c.seq_num \in 0..(c.seq_count - 1)
         /\ c.seq_num \in 0..MaxByte
<1>1. /\ c.id \in Ids
      /\ c.body \in Bodies
      /\ c.seq_num \in 0..MaxByte
      /\ c.seq_count \in 0..MaxByte
  BY DEF Chunk
<1>2. /\ c.seq_num < c.seq_count
      /\ ~(c.seq_num = 0 /\ c.seq_count = 1)
      /\ ~(c.seq_count > max_chunks_per_message)
  BY DEF Pushed, HeaderOk, IsOnlyChunk, TooManyChunks
<1> QED
  BY <1>1, <1>2, ConfigAssumption, WidthAssumption

\* What a held message looks like with one more chunk.
LEMMA InsertedFacts ==
  ASSUME IInv, NEW c \in Chunk, Pushed(c), c.id \in DOMAIN gc_by_id,
         SameTotal(c)
  PROVE  /\ Inserted(c) \in InnerMaps
         /\ DOMAIN Inserted(c) = DOMAIN gc_by_id[c.id].inner \cup {c.seq_num}
         /\ DOMAIN Inserted(c) \subseteq 0..(c.seq_count - 1)
         /\ is_complete(c) <=> DOMAIN Inserted(c) = 0..(c.seq_count - 1)
<1> DEFINE m == gc_by_id[c.id]
<1>1. m \in Incomplete /\ Lacking(m)
  BY GcGood DEF Good, Typed
<1>2. m.expected_total = c.seq_count
  BY DEF SameTotal
<1>3. m.inner \in InnerMaps
  BY <1>1 DEF Incomplete
<1>4. DOMAIN m.inner \subseteq 0..MaxByte /\ m.inner \in [DOMAIN m.inner -> Bodies]
  BY <1>3, InnerMapsElim
<1>5. DOMAIN m.inner \subseteq 0..(c.seq_count - 1)
  BY <1>1, <1>2 DEF Lacking
<1>6. /\ Inserted(c) \in [DOMAIN m.inner \cup {c.seq_num} -> Bodies]
      /\ DOMAIN Inserted(c) = DOMAIN m.inner \cup {c.seq_num}
  BY <1>4, PushedFacts DEF Inserted, Put
<1>7. Inserted(c) \in InnerMaps
  <2>1. DOMAIN m.inner \cup {c.seq_num} \subseteq 0..MaxByte
    BY <1>4, PushedFacts
  <2> QED
    BY <1>6, <2>1, InnerMapsType
<1>8. DOMAIN Inserted(c) \subseteq 0..(c.seq_count - 1)
  BY <1>5, <1>6, PushedFacts
<1>9. is_complete(c) <=> DOMAIN Inserted(c) = 0..(c.seq_count - 1)
  <2>1. c.seq_count \in Nat
    BY PushedFacts, ConfigAssumption
  <2> QED
    BY <1>8, <2>1, CountingIsEnough DEF is_complete
<1> QED
  BY <1>6, <1>7, <1>8, <1>9

-----------------------------------------------------------------------------

LEMMA InitIInv == Init => IInv
<1> SUFFICES ASSUME Init PROVE IInv
  OBVIOUS
<1>1. Good(by_id, by_arrival, counter)
  BY GoodEmpty DEF Init
<1>2. counter \in 0..MaxOpened
  BY BoundAssumption, WidthAssumption DEF Init
<1> QED
  BY <1>1, <1>2 DEF Init, IInv, Outcomes

\* The call that opens a message.
LEMMA OpenGood ==
  ASSUME IInv, NEW c \in Chunk, Open(c)
  PROVE  IInv'
<1> DEFINE ts == <<now', counter>>
           inner == Put(EmptyMap, c.seq_num, c.body)
           m == [expected_total |-> c.seq_count, inner |-> inner, ts |-> ts]
<1>1. counter \in Nat /\ counter' = counter + 1 /\ counter' \in 0..MaxOpened
  BY BoundAssumption, WidthAssumption DEF IInv, Open, wrapping_add
<1>2. now' \in Time /\ now' \in Nat
  BY TimeAssumption DEF Open, SinceEpoch
<1>3. inner \in [{c.seq_num} -> Bodies] /\ DOMAIN inner = {c.seq_num}
  BY PushedFacts DEF Open, Put, EmptyMap
<1>4. inner \in InnerMaps
  BY <1>3, InnerMapsType, PushedFacts DEF Open
<1>5. m \in Incomplete
  BY <1>1, <1>2, <1>4, PushedFacts DEF Open, Incomplete
<1>6. Lacking(m)
  <2>1. /\ c.seq_count \in 2..max_chunks_per_message
        /\ c.seq_num \in 0..(c.seq_count - 1)
    BY PushedFacts DEF Open
  <2>2. {c.seq_num} # 0..(c.seq_count - 1)
    BY <2>1, ConfigAssumption
  <2> QED
    BY <1>3, <2>1, <2>2 DEF Lacking
<1>7. /\ by_id' = Put(gc_by_id, c.id, m)
      /\ by_arrival' = Put(gc_by_arrival, ts, c.id)
      /\ c.id \notin DOMAIN gc_by_id
      /\ c.id \in Ids
      /\ out' = Nothing
  BY PushedFacts DEF Open
<1>8. m.ts = <<now', counter>>
  OBVIOUS
<1> HIDE DEF inner, m
<1>9. Good(by_id', by_arrival', counter')
  BY <1>1, <1>2, <1>5, <1>6, <1>7, <1>8, GcGood, GoodPut
<1> QED
  BY <1>1, <1>2, <1>7, <1>9 DEF IInv, Nothing, Outcomes

\* The call that adds a chunk to a message.
LEMMA AddGood ==
  ASSUME IInv, NEW c \in Chunk, Add(c)
  PROVE  IInv'
<1> DEFINE m == gc_by_id[c.id]
           M == [m EXCEPT !.inner = Inserted(c)]
<1>1. /\ Pushed(c) /\ c.id \in DOMAIN gc_by_id /\ SameTotal(c) /\ ~is_complete(c)
      /\ by_id' = [gc_by_id EXCEPT ![c.id].inner = Inserted(c)]
      /\ by_arrival' = gc_by_arrival
      /\ out' = Nothing /\ counter' = counter /\ now' = now
  BY DEF Add
<1>2. counter \in Nat
  BY BoundAssumption, WidthAssumption DEF IInv
<1>3. m \in Incomplete /\ Lacking(m)
  BY <1>1, GcGood DEF Good, Typed
<1>4. M.expected_total = c.seq_count /\ M.inner = Inserted(c)
  BY <1>1, <1>3 DEF Incomplete, SameTotal
<1>5. /\ c.seq_count \in 2..max_chunks_per_message
      /\ DOMAIN Inserted(c) # {}
      /\ DOMAIN Inserted(c) \subseteq 0..(c.seq_count - 1)
      /\ DOMAIN Inserted(c) # 0..(c.seq_count - 1)
      /\ Inserted(c) \in InnerMaps
  BY <1>1, PushedFacts, InsertedFacts
<1>6. Lacking(M)
  BY <1>4, <1>5 DEF Lacking
<1>7. Good(by_id', by_arrival', counter')
  BY <1>1, <1>2, <1>5, <1>6, GcGood, GoodReplace
<1> QED
  BY <1>1, <1>7 DEF IInv, Nothing, Outcomes

\* The call that completes a message.
LEMMA CompleteGood ==
  ASSUME IInv, NEW c \in Chunk, Complete(c)
  PROVE  IInv'
<1> DEFINE ts == gc_by_id[c.id].ts
<1>1. /\ c.id \in DOMAIN gc_by_id
      /\ by_id' = Without(gc_by_id, {c.id})
      /\ by_arrival' = Without(gc_by_arrival, {ts})
      /\ out' = Chunked(Inserted(c)) /\ counter' = counter /\ now' = now
  BY DEF Complete
<1>2. counter \in Nat
  BY BoundAssumption, WidthAssumption DEF IInv
<1>3. ts \in DOMAIN gc_by_arrival /\ gc_by_arrival[ts] = c.id
  BY <1>1, GcGood DEF Good, Agree
<1>4. {gc_by_arrival[u] : u \in {ts}} = {c.id}
  BY <1>3
<1>5. {ts} \in SUBSET DOMAIN gc_by_arrival
  BY <1>3
<1> HIDE DEF ts
<1>6. Good(Without(gc_by_id, {gc_by_arrival[u] : u \in {ts}}),
           Without(gc_by_arrival, {ts}), counter)
  BY <1>2, <1>5, GcGood, GoodWithout
<1>7. Good(by_id', by_arrival', counter')
  BY <1>1, <1>4, <1>6
<1> QED
  BY <1>1, <1>7 DEF IInv, Chunked, Outcomes

LEMMA NextIInv == IInv /\ [Next]_vars => IInv'
<1> SUFFICES ASSUME IInv, [Next]_vars PROVE IInv'
  OBVIOUS
<1>1. CASE UNCHANGED vars
  BY <1>1 DEF IInv, vars
<1>2. CASE Tick
  BY <1>2 DEF IInv, Tick
<1>3. ASSUME NEW body \in Bodies, Unchunked(body) PROVE IInv'
  BY <1>3 DEF IInv, Unchunked, Single, Nothing, Outcomes
<1>4. CASE GcFails
  BY <1>4, GcGood DEF IInv, GcFails, Failed, Outcomes
<1>5. CASE Truncated
  BY <1>5, GcGood DEF IInv, Truncated, Collected, Failed, Outcomes
<1>6. ASSUME NEW c \in Chunk, Rejected(c) \/ Mismatch(c) PROVE IInv'
  BY <1>6, GcGood DEF IInv, Rejected, Mismatch, Collected, Failed, Outcomes
<1>7. ASSUME NEW c \in Chunk, OnlyChunk(c) PROVE IInv'
  BY <1>7, GcGood DEF IInv, OnlyChunk, Collected, Single, Nothing, Outcomes
<1>8. ASSUME NEW c \in Chunk, OpenFails(c) PROVE IInv'
  BY <1>8, GcGood DEF IInv, OpenFails, Failed, Outcomes
<1>9. ASSUME NEW c \in Chunk, Open(c) \/ Add(c) \/ Complete(c) PROVE IInv'
  BY <1>9, OpenGood, AddGood, CompleteGood
<1> QED
  BY <1>1, <1>2, <1>3, <1>4, <1>5, <1>6, <1>7, <1>8, <1>9 DEF Next, decode, chunked

\* The inductive invariant holds in every reachable state.
LEMMA Invariance == Spec => []IInv
BY InitIInv, NextIInv, PTL DEF Spec

\* Every reachable state is typed: in particular no timestamp is ever before
\* the epoch, although gc and ts read a clock that may be.
THEOREM TypeCorrect == Spec => []TypeOK
<1>1. IInv => TypeOK
  BY DEF IInv, Good, Typed, TypeOK
<1> QED
  BY <1>1, Invariance, PTL

\* by_id and by_arrival index the same messages in every reachable state,
\* however gc, push and failing clock readings are interleaved.
THEOREM IndexesAlwaysAgree == Spec => []IndexesAgree
<1>1. IInv => IndexesAgree
  BY DEF IInv, Good, Agree, IndexesAgree
<1> QED
  BY <1>1, Invariance, PTL

\* Everything push leaves behind lacks a chunk, holds one, and has no chunk
\* beyond its total.
THEOREM StoredIsIncomplete == Spec => []StoredIncomplete
<1>1. IInv => StoredIncomplete
  BY DEF IInv, Good, Lacking, StoredIncomplete
<1> QED
  BY <1>1, Invariance, PTL

-----------------------------------------------------------------------------
(* Capacity.                                                               *)

\* gc never holds on to a message that was not there, and never changes one.
LEMMA GcKeeps ==
  /\ DOMAIN gc_overflow_by_id \subseteq DOMAIN by_id
  /\ \A id \in DOMAIN gc_overflow_by_id : gc_overflow_by_id[id] = by_id[id]
  /\ DOMAIN gc_by_id \subseteq DOMAIN by_id
  /\ \A id \in DOMAIN gc_by_id : gc_by_id[id] = by_id[id]
  /\ AtCapacity => DOMAIN gc_by_id = {}
<1>1. /\ DOMAIN gc_overflow_by_id \subseteq DOMAIN by_id
      /\ \A id \in DOMAIN gc_overflow_by_id : gc_overflow_by_id[id] = by_id[id]
      /\ AtCapacity => DOMAIN gc_overflow_by_id = {}
  BY DEF gc_overflow_by_id, EmptyMap
<1>2. /\ DOMAIN gc_by_id \subseteq DOMAIN gc_overflow_by_id
      /\ \A id \in DOMAIN gc_by_id : gc_by_id[id] = gc_overflow_by_id[id]
  BY DEF gc_by_id, Without
<1> QED
  BY <1>1, <1>2

\* A step keeps a part of what was held, or adds one message to what gc kept.
LEMMA StepHolds ==
  ASSUME [Next]_vars
  PROVE  \/ DOMAIN by_id' \subseteq DOMAIN by_id
         \/ \E id \in Ids : DOMAIN by_id' = DOMAIN gc_by_id \cup {id}
<1>1. CASE UNCHANGED vars
  BY <1>1 DEF vars
<1>2. CASE Tick \/ (\E body \in Bodies : Unchunked(body)) \/ GcFails \/ Truncated
  BY <1>2, GcKeeps DEF Tick, Unchunked, GcFails, Truncated, Collected
<1>3. ASSUME NEW c \in Chunk,
             Rejected(c) \/ Mismatch(c) \/ OnlyChunk(c) \/ OpenFails(c)
      PROVE  DOMAIN by_id' \subseteq DOMAIN by_id
  BY <1>3, GcKeeps DEF Rejected, Mismatch, OnlyChunk, OpenFails, Collected
<1>4. ASSUME NEW c \in Chunk, Open(c)
      PROVE  \E id \in Ids : DOMAIN by_id' = DOMAIN gc_by_id \cup {id}
  BY <1>4 DEF Open, Put, Chunk
<1>5. ASSUME NEW c \in Chunk, Add(c)
      PROVE  DOMAIN by_id' \subseteq DOMAIN by_id
  BY <1>5, GcKeeps DEF Add
<1>6. ASSUME NEW c \in Chunk, Complete(c)
      PROVE  DOMAIN by_id' \subseteq DOMAIN by_id
  BY <1>6, GcKeeps DEF Complete, Without
<1> QED
  BY <1>1, <1>2, <1>3, <1>4, <1>5, <1>6 DEF Next, decode, chunked

Held == IsFiniteSet(DOMAIN by_id) /\ CapacityBound

LEMMA HeldStep == Held /\ [Next]_vars => Held'
<1> SUFFICES ASSUME Held, [Next]_vars PROVE Held'
  OBVIOUS
<1> DEFINE n == Cardinality(DOMAIN by_id)
<1>1. IsFiniteSet(DOMAIN by_id) /\ n \in Nat /\ (n <= incomplete_capacity \/ n <= 1)
  BY FS_CardinalityType DEF Held, CapacityBound
<1>2. CASE DOMAIN by_id' \subseteq DOMAIN by_id
  <2>1. /\ IsFiniteSet(DOMAIN by_id')
        /\ Cardinality(DOMAIN by_id') <= n
        /\ Cardinality(DOMAIN by_id') \in Nat
    BY <1>1, <1>2, FS_Subset, FS_CardinalityType
  <2> QED
    BY <1>1, <2>1, ConfigAssumption DEF Held, CapacityBound
<1>3. ASSUME NEW id \in Ids, DOMAIN by_id' = DOMAIN gc_by_id \cup {id}
      PROVE  Held'
  <2> DEFINE k == Cardinality(DOMAIN gc_by_id)
  <2>1. IsFiniteSet(DOMAIN gc_by_id) /\ k \in Nat /\ k <= n
    BY <1>1, GcKeeps, FS_Subset, FS_CardinalityType
  <2>2. /\ IsFiniteSet(DOMAIN by_id')
        /\ Cardinality(DOMAIN by_id') \in {k, k + 1}
    BY <1>3, <2>1, FS_AddElement
  <2>3. CASE AtCapacity
    <3>1. k = 0
      BY <2>3, GcKeeps, FS_EmptySet
    <3> QED
      BY <2>2, <3>1 DEF Held, CapacityBound
  <2>4. CASE ~AtCapacity
    <3>1. n < incomplete_capacity
      BY <1>1, <2>4, ConfigAssumption DEF AtCapacity
    <3> QED
      BY <1>1, <2>1, <2>2, <3>1, ConfigAssumption DEF Held, CapacityBound
  <2> QED
    BY <2>3, <2>4
<1> QED
  BY <1>2, <1>3, StepHolds

\* Because gc runs before every push, the number of incomplete messages never
\* exceeds the configured capacity.
THEOREM CapacityRespected == Spec => []CapacityBound
<1>1. Init => Held
  <2> SUFFICES ASSUME Init PROVE Held
    OBVIOUS
  <2>1. DOMAIN by_id = {}
    BY DEF Init, EmptyMap
  <2> QED
    BY <2>1, FS_EmptySet DEF Held, CapacityBound
<1>2. Held => CapacityBound
  BY DEF Held
<1> QED
  BY <1>1, <1>2, HeldStep, PTL DEF Spec

-----------------------------------------------------------------------------
(* Refinement.                                                             *)

\* In a full map the i-th key is i - 1: the BTreeMap iterates the chunks in
\* sequence order.
LEMMA NthKeyOfFull ==
  ASSUME NEW inner, NEW n \in Nat, DOMAIN inner = 0..(n - 1), NEW i \in 1..n
  PROVE  NthKey(inner, i) = i - 1
<1>1. ASSUME NEW k \in 0..(n - 1)
      PROVE  Cardinality({j \in DOMAIN inner : j < k}) = k
  <2>1. {j \in DOMAIN inner : j < k} = 0..(k - 1)
    OBVIOUS
  <2>2. 0 \in Int /\ k - 1 \in Int
    OBVIOUS
  <2>3. Cardinality(0..(k - 1)) = IF 0 > k - 1 THEN 0 ELSE (k - 1) - 0 + 1
    BY <2>2, FS_Interval
  <2>4. Cardinality(0..(k - 1)) = k
    BY <2>3
  <2> QED
    BY <2>1, <2>4
<1> DEFINE P(k) == Cardinality({j \in DOMAIN inner : j < k}) = i - 1
<1>2. i - 1 \in DOMAIN inner /\ P(i - 1)
  BY <1>1
<1>3. \A k \in DOMAIN inner : P(k) => k = i - 1
  BY <1>1
<1> HIDE DEF P
<1>4. (CHOOSE k \in DOMAIN inner : P(k)) = i - 1
  BY <1>2, <1>3
<1> QED
  BY <1>4 DEF P, NthKey

\* A step that only drops messages maps to forgetting them.
LEMMA DropMapsToForget ==
  ASSUME NEW kept \in SUBSET DOMAIN by_id,
         DOMAIN by_id' = kept,
         \A id \in kept : by_id'[id] = by_id[id]
  PROVE  partial' = R!Forgetting(kept)
BY DEF partial, R!Forgetting

\* The chunk as the abstract buffer sees it.
Abstract(c) ==
  [id |-> c.id, seq |-> c.seq_num, total |-> c.seq_count, body |-> c.body]

LEMMA AbstractChunk ==
  ASSUME NEW c \in Chunk, Pushed(c)
  PROVE  /\ Abstract(c) \in R!Chunk
         /\ Abstract(c).seq < Abstract(c).total
         /\ Abstract(c).id = c.id
         /\ Abstract(c).seq = c.seq_num
         /\ Abstract(c).total = c.seq_count
         /\ Abstract(c).body = c.body
<1>1. c.seq_num \in 0..(max_chunks_per_message - 1) /\ c.seq_num < c.seq_count
  BY PushedFacts, ConfigAssumption, WidthAssumption
<1> QED
  BY <1>1, PushedFacts DEF Abstract, R!Chunk

LEMMA OpenRefines ==
  ASSUME IInv, NEW c \in Chunk, Open(c)
  PROVE  R!Collect(Abstract(c), DOMAIN gc_by_id)
<1> DEFINE a == Abstract(c)
           kept == DOMAIN gc_by_id
           inner == Put(EmptyMap, c.seq_num, c.body)
<1>1. /\ Pushed(c) /\ c.id \notin kept
      /\ by_id' = Put(gc_by_id, c.id,
                      [expected_total |-> c.seq_count, inner |-> inner,
                       ts |-> <<now', counter>>])
      /\ out' = [tag |-> "incomplete"]
  BY DEF Open, Nothing
<1>2. /\ a.seq < a.total /\ a.id = c.id /\ a.seq = c.seq_num
      /\ a.total = c.seq_count /\ a.body = c.body
  BY <1>1, AbstractChunk
<1> HIDE DEF a
<1>3. R!Gathered(a, kept) = inner
  BY <1>1, <1>2 DEF R!Gathered, Put, EmptyMap
<1>4. ~R!IsWhole(a, inner)
  <2>1. c.seq_count \in 2..max_chunks_per_message /\ DOMAIN inner = {c.seq_num}
    BY <1>1, PushedFacts DEF Put, EmptyMap
  <2>2. 0 \in 0..(c.seq_count - 1) /\ 1 \in 0..(c.seq_count - 1)
    BY <2>1, ConfigAssumption
  <2> QED
    BY <1>2, <2>1, <2>2 DEF R!IsWhole
<1>5. /\ DOMAIN by_id' = kept \cup {c.id}
      /\ \A id \in kept : by_id'[id] = by_id[id]
      /\ by_id'[c.id].expected_total = c.seq_count
      /\ by_id'[c.id].inner = inner
  BY <1>1, GcKeeps DEF Put
<1> HIDE DEF inner
<1>6. partial' = [id \in kept \cup {a.id} |->
                    IF id = a.id THEN [total |-> a.total, got |-> inner]
                                 ELSE partial[id]]
  BY <1>1, <1>2, <1>5, GcKeeps DEF partial
<1> QED
  BY <1>1, <1>2, <1>3, <1>4, <1>6 DEF R!Collect, a

\* What the abstract buffer has gathered is what the code has inserted.
LEMMA GatheredIsInserted ==
  ASSUME IInv, NEW c \in Chunk, Pushed(c), c.id \in DOMAIN gc_by_id,
         SameTotal(c)
  PROVE  /\ R!Gathered(Abstract(c), DOMAIN gc_by_id) = Inserted(c)
         /\ partial[c.id].total = c.seq_count
         /\ R!IsWhole(Abstract(c), Inserted(c)) <=> is_complete(c)
<1>1. c.id \in DOMAIN by_id /\ gc_by_id[c.id] = by_id[c.id]
  BY GcKeeps
<1>2. partial[c.id].got = gc_by_id[c.id].inner /\ partial[c.id].total = c.seq_count
  BY <1>1 DEF partial, SameTotal
<1>3. R!Gathered(Abstract(c), DOMAIN gc_by_id) = Inserted(c)
  BY <1>2, AbstractChunk DEF R!Gathered, Inserted, Put
<1>4. R!IsWhole(Abstract(c), Inserted(c)) <=> is_complete(c)
  BY InsertedFacts, AbstractChunk DEF R!IsWhole
<1> QED
  BY <1>2, <1>3, <1>4

LEMMA AddRefines ==
  ASSUME IInv, NEW c \in Chunk, Add(c)
  PROVE  R!Collect(Abstract(c), DOMAIN gc_by_id)
<1> DEFINE a == Abstract(c)
           kept == DOMAIN gc_by_id
<1>1. /\ Pushed(c) /\ c.id \in kept /\ SameTotal(c) /\ ~is_complete(c)
      /\ by_id' = [gc_by_id EXCEPT ![c.id].inner = Inserted(c)]
      /\ out' = [tag |-> "incomplete"]
  BY DEF Add, Nothing
<1>2. /\ a.seq < a.total /\ a.id = c.id /\ a.seq = c.seq_num
      /\ a.total = c.seq_count /\ a.body = c.body
  BY <1>1, AbstractChunk
<1>3. /\ R!Gathered(a, kept) = Inserted(c)
      /\ partial[c.id].total = c.seq_count
      /\ ~R!IsWhole(a, Inserted(c))
  BY <1>1, GatheredIsInserted
<1>4. gc_by_id[c.id] \in Incomplete /\ gc_by_id[c.id].expected_total = c.seq_count
  BY <1>1, GcGood DEF Good, Typed, SameTotal
<1>5. /\ DOMAIN by_id' = kept
      /\ \A id \in kept \ {c.id} : by_id'[id] = by_id[id]
      /\ by_id'[c.id].expected_total = c.seq_count
      /\ by_id'[c.id].inner = Inserted(c)
  BY <1>1, <1>4, GcKeeps DEF Incomplete
<1> HIDE DEF a
<1>6. partial' = [id \in kept \cup {a.id} |->
                    IF id = a.id THEN [total |-> a.total, got |-> Inserted(c)]
                                 ELSE partial[id]]
  <2>1. DOMAIN by_id' = kept \cup {a.id}
    BY <1>1, <1>2, <1>5
  <2>2. ASSUME NEW id \in DOMAIN by_id'
        PROVE  [total |-> by_id'[id].expected_total, got |-> by_id'[id].inner]
               = IF id = a.id THEN [total |-> a.total, got |-> Inserted(c)]
                              ELSE partial[id]
    <3>1. CASE id = a.id
      BY <1>2, <1>5, <3>1
    <3>2. CASE id # a.id
      BY <1>2, <1>5, <3>2, GcKeeps DEF partial
    <3> QED
      BY <3>1, <3>2
  <2> QED
    BY <2>1, <2>2 DEF partial
<1> QED
  BY <1>1, <1>2, <1>3, <1>6 DEF R!Collect, a

LEMMA CompleteRefines ==
  ASSUME IInv, NEW c \in Chunk, Complete(c)
  PROVE  R!Complete(Abstract(c), DOMAIN gc_by_id)
<1> DEFINE a == Abstract(c)
           kept == DOMAIN gc_by_id
<1>1. /\ Pushed(c) /\ c.id \in kept /\ SameTotal(c) /\ is_complete(c)
      /\ by_id' = Without(gc_by_id, {c.id})
      /\ out' = Chunked(Inserted(c))
  BY DEF Complete
<1>2. /\ a.seq < a.total /\ a.id = c.id /\ a.seq = c.seq_num
      /\ a.total = c.seq_count /\ a.body = c.body
  BY <1>1, AbstractChunk
<1>3. /\ R!Gathered(a, kept) = Inserted(c)
      /\ partial[c.id].total = c.seq_count
      /\ R!IsWhole(a, Inserted(c))
  BY <1>1, GatheredIsInserted
<1>4. partial' = R!Forgetting(kept \ {c.id})
  BY <1>1, GcKeeps, DropMapsToForget DEF Without
<1>5. /\ DOMAIN Inserted(c) = 0..(c.seq_count - 1)
      /\ Cardinality(DOMAIN Inserted(c)) = c.seq_count
      /\ c.seq_count \in Nat
  <2>1. c.seq_count \in Nat
    BY <1>1, PushedFacts, ConfigAssumption
  <2>2. DOMAIN Inserted(c) = 0..(c.seq_count - 1)
    BY <1>1, InsertedFacts
  <2>3. Cardinality(DOMAIN Inserted(c)) = c.seq_count
    BY <1>1 DEF is_complete
  <2> QED
    BY <2>1, <2>2, <2>3
<1>6. \A i \in 1..c.seq_count : NthKey(Inserted(c), i) = i - 1
  BY <1>5, NthKeyOfFull
<1>7. out' = [tag |-> "chunked",
              chunks |-> [i \in 1..c.seq_count |-> Inserted(c)[i - 1]]]
  BY <1>1, <1>5, <1>6 DEF Chunked
<1> HIDE DEF a
<1> QED
  BY <1>2, <1>3, <1>4, <1>7 DEF R!Complete, a

\* A call that stores nothing keeps what gc kept.
LEMMA CollectedForgets ==
  ASSUME by_id' = gc_by_id
  PROVE  partial' = R!Forgetting(DOMAIN gc_by_id)
BY GcKeeps, DropMapsToForget

LEMMA NextRefines == IInv /\ [Next]_vars => [R!Next]_(R!vars)
<1> SUFFICES ASSUME IInv, [Next]_vars PROVE [R!Next]_(R!vars)
  OBVIOUS
<1>0. /\ DOMAIN partial = DOMAIN by_id
      /\ DOMAIN gc_by_id \in SUBSET DOMAIN partial
      /\ DOMAIN gc_overflow_by_id \in SUBSET DOMAIN partial
  BY GcKeeps DEF partial
<1>1. CASE UNCHANGED vars \/ Tick
  BY <1>1 DEF vars, Tick, R!vars, partial
<1>2. ASSUME NEW body \in Bodies, Unchunked(body) PROVE R!Next
  <2>1. partial' = R!Forgetting(DOMAIN by_id)
    BY <1>2, DropMapsToForget DEF Unchunked
  <2>2. R!Whole(body, DOMAIN by_id)
    BY <1>2, <2>1 DEF R!Whole, Unchunked, Single, Nothing
  <2> QED
    BY <1>0, <2>2 DEF R!Next
<1>3. CASE GcFails
  <2>1. partial' = R!Forgetting(DOMAIN gc_overflow_by_id)
    BY <1>3, GcKeeps, DropMapsToForget DEF GcFails
  <2>2. R!Fail(DOMAIN gc_overflow_by_id)
    BY <1>3, <2>1 DEF R!Fail, GcFails, Failed
  <2> QED
    BY <1>0, <2>2 DEF R!Next
<1>4. CASE by_id' = gc_by_id /\ out' = Failed
  <2>1. R!Fail(DOMAIN gc_by_id)
    BY <1>4, CollectedForgets DEF R!Fail, Failed
  <2> QED
    BY <1>0, <2>1 DEF R!Next
<1>5. ASSUME NEW c \in Chunk, OnlyChunk(c) PROVE R!Next
  <2>1. c.body \in Bodies
    BY DEF Chunk
  <2>2. R!Whole(c.body, DOMAIN gc_by_id)
    BY <1>5, CollectedForgets
    DEF R!Whole, OnlyChunk, Collected, Single, Nothing
  <2> QED
    BY <1>0, <2>1, <2>2 DEF R!Next
<1>6. ASSUME NEW c \in Chunk, Open(c) \/ Add(c) \/ Complete(c) PROVE R!Next
  <2>1. Abstract(c) \in R!Chunk
    BY <1>6, AbstractChunk DEF Open, Add, Complete
  <2>2. \/ R!Collect(Abstract(c), DOMAIN gc_by_id)
        \/ R!Complete(Abstract(c), DOMAIN gc_by_id)
    BY <1>6, OpenRefines, AddRefines, CompleteRefines
  <2> QED
    BY <1>0, <2>1, <2>2 DEF R!Next
<1> QED
  BY <1>1, <1>2, <1>3, <1>4, <1>5, <1>6
  DEF Next, decode, chunked, Truncated, Rejected, Mismatch, OpenFails, Collected

\* The receiver, with its clock, its two indexes and its capacity, implements
\* the lossy reassembly buffer for every configuration.
THEOREM Refinement == Spec => ImplementsReassembly
<1>1. Init => R!Init
  BY DEF Init, R!Init, partial, EmptyMap
<1> QED
  BY <1>1, Invariance, NextRefines, PTL DEF Spec, R!Spec, ImplementsReassembly

-----------------------------------------------------------------------------
(* What may happen to a message while it is incomplete.                    *)

\* gc keeps a message exactly when there is room and it is not overdue.
LEMMA GcCause ==
  ASSUME IInv, NEW id \in DOMAIN by_id
  PROVE  id \in DOMAIN gc_by_id <=> ~AtCapacity /\ ~Overdue(id)
<1> DEFINE ts == by_id[id].ts
<1>1. /\ ts \in Nat \X Nat /\ ts \in DOMAIN by_arrival /\ by_arrival[ts] = id
      /\ \A u \in DOMAIN by_arrival : by_arrival[u] = id => u = ts
  BY DEF IInv, Good, Typed, Agree, Incomplete
<1>2. now \in Int /\ incomplete_timeout_ms \in Int
  BY TimeAssumption, ConfigAssumption DEF IInv
<1>3. Before(ts, since(now)) <=> Overdue(id)
  <2>1. ts[1] \in Nat /\ ts[2] \in Nat
    BY <1>1
  <2>2. Before(ts, since(now)) <=> ts[1] < now - incomplete_timeout_ms
    BY <1>2, <2>1 DEF Before, since
  <2> QED
    BY <2>2 DEF Overdue
<1>4. CASE AtCapacity
  BY <1>4, GcKeeps
<1>5. CASE ~AtCapacity
  <2>1. /\ gc_overflow_by_id = by_id /\ gc_overflow_by_arrival = by_arrival
    BY <1>5 DEF gc_overflow_by_id, gc_overflow_by_arrival
  <2>2. id \in DOMAIN gc_by_id <=> ~(\E u \in to_remove : by_arrival[u] = id)
    BY <2>1 DEF gc_by_id, Without
  <2>3. (\E u \in to_remove : by_arrival[u] = id) <=> Before(ts, since(now))
    BY <1>1, <2>1 DEF to_remove
  <2> QED
    BY <1>3, <1>5, <2>2, <2>3
<1> QED
  BY <1>4, <1>5

\* The steps that neither open, extend nor complete a message only drop what
\* gc drops.
LEMMA QuietStep ==
  ASSUME [Next]_vars,
         ~\E c \in Chunk : Open(c) \/ Add(c) \/ Complete(c)
  PROVE  /\ \/ by_id' = by_id
            \/ by_id' = gc_overflow_by_id
            \/ by_id' = gc_by_id
         /\ by_id' # by_id => out'.tag # "chunked"
<1>1. CASE UNCHANGED vars \/ Tick \/ \E body \in Bodies : Unchunked(body)
  BY <1>1 DEF vars, Tick, Unchunked
<1>2. CASE GcFails \/ Truncated
  BY <1>2 DEF GcFails, Truncated, Collected, Failed
<1>3. ASSUME NEW c \in Chunk, Rejected(c) \/ Mismatch(c) \/ OpenFails(c)
      PROVE  by_id' = gc_by_id /\ out'.tag # "chunked"
  BY <1>3 DEF Rejected, Mismatch, OpenFails, Collected, Failed
<1>4. ASSUME NEW c \in Chunk, OnlyChunk(c)
      PROVE  by_id' = gc_by_id /\ out'.tag # "chunked"
  BY <1>4 DEF OnlyChunk, Collected, Single, Nothing
<1> QED
  BY <1>1, <1>2, <1>3, <1>4 DEF Next, decode, chunked

\* A quiet step keeps every message it does not drop as it is, and drops one
\* only at capacity or when it is overdue.
LEMMA QuietCause ==
  ASSUME IInv, [Next]_vars,
         ~\E c \in Chunk : Open(c) \/ Add(c) \/ Complete(c)
  PROVE  /\ \A id \in DOMAIN by_id \cap DOMAIN by_id' : by_id'[id] = by_id[id]
         /\ \A id \in DOMAIN by_id \ DOMAIN by_id' : AtCapacity \/ Overdue(id)
<1>1. \A id \in DOMAIN by_id \ DOMAIN gc_overflow_by_id : AtCapacity
  BY DEF gc_overflow_by_id
<1>2. \A id \in DOMAIN by_id \ DOMAIN gc_by_id : AtCapacity \/ Overdue(id)
  BY GcCause
<1> QED
  BY <1>1, <1>2, QuietStep, GcKeeps

\* The messages a step extends, opens or completes, one by one.
LEMMA OpenEffect ==
  ASSUME IInv, NEW c \in Chunk, Open(c)
  PROVE  /\ c.id \notin DOMAIN gc_by_id
         /\ DOMAIN by_id' = DOMAIN gc_by_id \cup {c.id}
         /\ \A id \in DOMAIN gc_by_id : by_id'[id] = by_id[id]
         /\ Cardinality(DOMAIN by_id'[c.id].inner) = 1
         /\ by_id'[c.id].ts = <<now', counter>>
         /\ out'.tag # "chunked"
<1>1. DOMAIN Put(EmptyMap, c.seq_num, c.body) = {c.seq_num}
  BY DEF Put, EmptyMap
<1>2. /\ c.id \notin DOMAIN gc_by_id
      /\ DOMAIN by_id' = DOMAIN gc_by_id \cup {c.id}
      /\ \A id \in DOMAIN gc_by_id : by_id'[id] = by_id[id]
      /\ by_id'[c.id].inner = Put(EmptyMap, c.seq_num, c.body)
      /\ by_id'[c.id].ts = <<now', counter>>
      /\ out'.tag # "chunked"
  BY GcKeeps DEF Open, Put, Nothing
<1>3. Cardinality({c.seq_num}) = 1
  BY FS_Singleton
<1> QED
  BY <1>1, <1>2, <1>3

LEMMA AddEffect ==
  ASSUME IInv, NEW c \in Chunk, Add(c)
  PROVE  /\ DOMAIN by_id' = DOMAIN gc_by_id
         /\ \A id \in DOMAIN gc_by_id :
              /\ by_id'[id].ts = by_id[id].ts
              /\ id # c.id => by_id'[id] = by_id[id]
         /\ out'.tag # "chunked"
<1>1. gc_by_id[c.id] \in Incomplete
  BY GcGood DEF Add, Good, Typed
<1> QED
  BY <1>1, GcKeeps DEF Add, Nothing, Incomplete

LEMMA CompleteEffect ==
  ASSUME IInv, NEW c \in Chunk, Complete(c)
  PROVE  /\ DOMAIN by_id' = DOMAIN gc_by_id \ {c.id}
         /\ \A id \in DOMAIN by_id' : by_id'[id] = by_id[id]
         /\ c.id \in DOMAIN gc_by_id
         /\ HandedOut(c.id)
<1> DEFINE m == by_id[c.id]
           n == c.seq_count
<1>1. /\ Pushed(c) /\ c.id \in DOMAIN gc_by_id /\ SameTotal(c) /\ is_complete(c)
      /\ by_id' = Without(gc_by_id, {c.id})
      /\ m = gc_by_id[c.id] /\ m.expected_total = n
  BY GcKeeps DEF Complete, SameTotal
<1>2. /\ DOMAIN by_id' = DOMAIN gc_by_id \ {c.id}
      /\ \A id \in DOMAIN by_id' : by_id'[id] = by_id[id]
  BY <1>1, GcKeeps DEF Without
<1>3. R!Complete(Abstract(c), DOMAIN gc_by_id)
  BY CompleteRefines
<1>4. out' = [tag |-> "chunked", chunks |-> [i \in 1..n |-> Inserted(c)[i - 1]]]
  BY <1>1, <1>3, AbstractChunk, GatheredIsInserted DEF R!Complete
<1>5. /\ DOMAIN Inserted(c) = DOMAIN m.inner \cup {c.seq_num}
      /\ DOMAIN Inserted(c) = 0..(n - 1)
      /\ n \in Nat
      /\ c.seq_num \in 0..(n - 1)
  <2>1. n \in Nat /\ c.seq_num \in 0..(n - 1)
    BY <1>1, PushedFacts, ConfigAssumption
  <2> QED
    BY <1>1, <2>1, InsertedFacts
<1>6. Lacking(m)
  BY <1>1, GcGood DEF Good
<1>7. DOMAIN m.inner = (0..(n - 1)) \ {c.seq_num}
  BY <1>1, <1>5, <1>6 DEF Lacking
<1>8. Cardinality(DOMAIN m.inner) = n - 1
  <2>1. IsFiniteSet(0..(n - 1)) /\ Cardinality(0..(n - 1)) = n
    BY <1>5, CountingIsEnough
  <2>2. ASSUME NEW S, IsFiniteSet(S), NEW x \in S
        PROVE  Cardinality(S \ {x}) = Cardinality(S) - 1
    BY <2>2, FS_RemoveElement
  <2>3. Cardinality((0..(n - 1)) \ {c.seq_num}) = Cardinality(0..(n - 1)) - 1
    BY <1>5, <2>1, <2>2
  <2> QED
    BY <1>7, <2>1, <2>3
<1>9. \A s \in DOMAIN m.inner : out'.chunks[s + 1] = m.inner[s]
  <2> SUFFICES ASSUME NEW s \in DOMAIN m.inner
               PROVE  out'.chunks[s + 1] = m.inner[s]
    OBVIOUS
  <2>1. s \in 0..(n - 1) /\ s # c.seq_num
    BY <1>7
  <2>2. s + 1 \in 1..n /\ (s + 1) - 1 = s
    BY <1>5, <2>1
  <2>3. Inserted(c)[s] = m.inner[s]
    BY <1>1, <2>1 DEF Inserted, Put
  <2> QED
    BY <1>4, <2>2, <2>3
<1>10. out'.tag = "chunked" /\ DOMAIN out'.chunks = 1..m.expected_total
  BY <1>1, <1>4
<1> QED
  BY <1>1, <1>2, <1>8, <1>9, <1>10 DEF HandedOut

\* The deadline of a message is fixed by its first chunk: no later call moves
\* the timestamp of a message it does not start anew.
THEOREM DeadlineNeverMoves == Spec => TimeoutFromFirstChunk
<1> DEFINE A == \A id \in DOMAIN by_id \cap DOMAIN by_id' :
                  by_id'[id].ts # by_id[id].ts =>
                    /\ AtCapacity \/ Overdue(id)
                    /\ Cardinality(DOMAIN by_id'[id].inner) = 1
<1>1. IInv /\ [Next]_vars => A
  <2> SUFFICES ASSUME IInv, [Next]_vars PROVE A
    OBVIOUS
  <2>1. ASSUME NEW c \in Chunk, Open(c) PROVE A
    BY <2>1, OpenEffect, GcCause
  <2>2. ASSUME NEW c \in Chunk, Add(c) \/ Complete(c) PROVE A
    BY <2>2, AddEffect, CompleteEffect
  <2>3. CASE ~\E c \in Chunk : Open(c) \/ Add(c) \/ Complete(c)
    BY <2>3, QuietCause
  <2> QED
    BY <2>1, <2>2, <2>3
<1> QED
  BY <1>1, Invariance, PTL DEF Spec, TimeoutFromFirstChunk

\* No message is lost silently: capacity, timeout and completion are the only
\* ways out of the receiver.
THEOREM NothingLeavesWithoutCause == Spec => LeavesForCause
<1> DEFINE A == \A id \in DOMAIN by_id \ DOMAIN by_id' :
                  \/ Cardinality(DOMAIN by_id) >= incomplete_capacity
                  \/ Overdue(id)
                  \/ HandedOut(id)
<1>1. IInv /\ [Next]_vars => A
  <2> SUFFICES ASSUME IInv, [Next]_vars PROVE A
    OBVIOUS
  <2>1. ASSUME NEW c \in Chunk, Open(c) \/ Add(c) \/ Complete(c) PROVE A
    <3>1. /\ DOMAIN gc_by_id \ {c.id} \subseteq DOMAIN by_id'
          /\ c.id \in DOMAIN gc_by_id /\ c.id \notin DOMAIN by_id' => HandedOut(c.id)
      BY <2>1, OpenEffect, AddEffect, CompleteEffect
    <3> QED
      BY <3>1, GcCause DEF AtCapacity
  <2>2. CASE ~\E c \in Chunk : Open(c) \/ Add(c) \/ Complete(c)
    BY <2>2, QuietCause DEF AtCapacity
  <2> QED
    BY <2>1, <2>2
<1> QED
  BY <1>1, Invariance, PTL DEF Spec, LeavesForCause

\* A chunk later than the timeout never joins the message it was meant for.
THEOREM LateChunksNeverJoin == Spec => NoLateJoin
<1> DEFINE A ==
      /\ \A id \in DOMAIN by_id \cap DOMAIN by_id' :
           Overdue(id) => \/ by_id'[id].inner = by_id[id].inner
                          \/ by_id'[id].ts # by_id[id].ts
      /\ (out'.tag = "chunked" /\ by_id' # by_id) =>
           \E id \in DOMAIN by_id \ DOMAIN by_id' :
             ~Overdue(id) /\ HandedOut(id)
<1>1. IInv /\ [Next]_vars => A
  <2> SUFFICES ASSUME IInv, [Next]_vars PROVE A
    OBVIOUS
  <2>1. ASSUME NEW c \in Chunk, Open(c) PROVE A
    <3>1. ASSUME c.id \in DOMAIN by_id PROVE by_id'[c.id].ts # by_id[c.id].ts
      <4>1. by_id[c.id].ts[2] < counter /\ counter \in Nat
        BY <3>1, BoundAssumption, WidthAssumption DEF IInv, Good, Agree, Fresh
      <4>2. by_id'[c.id].ts = <<now', counter>>
        BY <2>1, OpenEffect
      <4>3. by_id'[c.id].ts[2] = counter
        BY <4>2
      <4> QED
        BY <4>1, <4>3
    <3> QED
      BY <2>1, <3>1, OpenEffect
  <2>2. ASSUME NEW c \in Chunk, Add(c) PROVE A
    BY <2>2, AddEffect, GcKeeps, GcCause
  <2>3. ASSUME NEW c \in Chunk, Complete(c) PROVE A
    BY <2>3, CompleteEffect, GcKeeps, GcCause
  <2>4. CASE ~\E c \in Chunk : Open(c) \/ Add(c) \/ Complete(c)
    BY <2>4, QuietCause, QuietStep
  <2> QED
    BY <2>1, <2>2, <2>3, <2>4
<1> QED
  BY <1>1, Invariance, PTL DEF Spec, NoLateJoin
=============================================================================
