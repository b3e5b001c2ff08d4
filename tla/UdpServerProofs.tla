--------------------------- MODULE UdpServerProofs ---------------------------
(***************************************************************************)
(* Proofs about module UdpServer, for every set of messages and every      *)
(* number of copies: from the network to the processor nothing is made up, *)
(* mixed or used twice, the server implements Delivery, the receiver in it *)
(* keeps all that is proved in GelfProofs, and nothing vanishes in a calm. *)
(***************************************************************************)
EXTENDS UdpServer, FiniteSetTheorems, TLAPS

-----------------------------------------------------------------------------
(* The inductive invariant.                                                *)

Types ==
  /\ in_flight \in [Datagrams -> Nat]
  /\ sent \subseteq Ids
  /\ rd \in Datagrams
  /\ processed \in [DOMAIN processed -> Nat]

\* What the receiver holds of a message is what its client sent.
Faithful(f) ==
  \A id \in DOMAIN f :
    /\ id \in Ids
    /\ f[id] = [expected_total |-> Len(Contents[id]), inner |-> f[id].inner,
                ts |-> f[id].ts]
    /\ DOMAIN f[id].inner \subseteq 0..(Len(Contents[id]) - 1)
    /\ \A s \in DOMAIN f[id].inner : f[id].inner[s] = Contents[id][s + 1]

\* What comes out, and what was processed, is some client's message.
Whole ==
  /\ pc = "process" => \E id \in Ids : out.chunks \in Forms(id)
  /\ \A m \in DOMAIN processed : \E id \in Ids : m \in Forms(id)

\* The datagrams of a message, divided and undivided.
Of(id) == UNION DatagramSets(id)

HeldIn(f, d) ==
  /\ d.kind = "chunk"
  /\ d.chunk.id \in DOMAIN f
  /\ d.chunk.seq_num \in DOMAIN f[d.chunk.id].inner

Pending(m) == pc = "process" /\ out.chunks = m

\* It came out, now or before.
Seen(m) == Pending(m) \/ m \in DOMAIN processed

One(b) == IF b THEN 1 ELSE 0

\* Where the copies of a datagram are: in the network, in the read buffer, in
\* the receiver, in the message that came out, in those that were processed.
Load(d, m) ==
  in_flight[d] + One(rd = d) + One(HeldIn(by_id, d)) + One(Pending(m)) + Times(m)

Absent(d) == in_flight[d] = 0 /\ rd # d /\ ~HeldIn(by_id, d)

\* Nothing of this message is anywhere.
Idle(id) ==
  /\ \A d \in Of(id) : Absent(d)
  /\ \A m \in Forms(id) : ~Pending(m) /\ m \notin DOMAIN processed

\* What comes out when these datagrams arrive.
Form(id, D) == IF D = {Plain(Undivided[id])} THEN <<Undivided[id]>> ELSE Contents[id]

\* Of one of the ways to send this message, no datagram is in more places than
\* the network has copies of it; and of the other way nothing is anywhere, nor
\* did it ever come out in that form.
Budget(id, D) ==
  /\ D # {}
  /\ \A d \in Of(id) \ D : Absent(d)
  /\ \A d \in D : \A m \in Forms(id) : Load(d, m) <= Copies[id]
  /\ \A m \in Forms(id) : Seen(m) => m = Form(id, D)

Account(id) == Idle(id) \/ \E D \in DatagramSets(id) : Budget(id, D)

Accounts == \A id \in Ids : Account(id) /\ (id \notin sent => Idle(id))

IInv ==
  /\ Types
  /\ Faithful(by_id)
  /\ Whole
  /\ Accounts

-----------------------------------------------------------------------------
(* Datagrams.                                                              *)

\* A datagram of a message is no noise, and carries what ChunkOf or Plain puts
\* into it.
LEMMA DatagramFacts ==
  ASSUME NEW id \in Ids, NEW d \in Of(id)
  PROVE  /\ d \in Datagrams
         /\ \/ /\ d = Plain(Undivided[id])
               /\ d.kind = "plain" /\ d.body = Undivided[id]
            \/ /\ d.kind = "chunk"
               /\ d.chunk.id = id
               /\ d.chunk.seq_count = Len(Contents[id])
               /\ d.chunk.seq_num \in 0..(Len(Contents[id]) - 1)
               /\ d.chunk.body = Contents[id][d.chunk.seq_num + 1]
               /\ d = ChunkOf(id, d.chunk.seq_num + 1, Len(Contents[id]))
         /\ d \notin Noise
<1> DEFINE n == Len(Contents[id])
<1>1. n \in Nat
  BY ContentsAssumption
<1>2. d \in Datagrams
  BY DEF Datagrams, Of
<1>3. CASE d = Plain(Undivided[id])
  <2>1. d.kind = "plain" /\ d.body = Undivided[id]
    BY <1>3 DEF Plain
  <2>2. d \notin Noise
    BY <2>1 DEF Noise
  <2> QED
    BY <1>2, <1>3, <2>1, <2>2
<1>4. CASE d # Plain(Undivided[id])
  <2>1. PICK i \in 1..n : d = ChunkOf(id, i, n)
    BY <1>4 DEF Of, DatagramSets
  <2>2. /\ d.kind = "chunk"
        /\ d.chunk = [id |-> id, seq_num |-> i - 1, seq_count |-> n,
                      body |-> Contents[id][i]]
    BY <2>1 DEF ChunkOf
  <2>3. /\ d.chunk.id = id /\ d.chunk.seq_count = n /\ d.chunk.seq_num = i - 1
        /\ d.chunk.body = Contents[id][i]
    BY <2>2
  <2>4. d.chunk.seq_num \in 0..(n - 1) /\ d.chunk.seq_num + 1 = i
    BY <1>1, <2>3
  <2>5. d \notin Noise
    <3>1. SUFFICES ASSUME d \in Noise PROVE FALSE
      OBVIOUS
    <3>2. d.chunk.seq_num = 1 /\ d.chunk.seq_count = 1
      BY <2>2, <3>1 DEF Noise
    <3> QED
      BY <1>1, <2>3, <2>4, <3>2
  <2> QED
    BY <1>2, <2>1, <2>2, <2>3, <2>4, <2>5
<1> QED
  BY <1>3, <1>4

\* Everything the socket hands out is noise or of some message.
LEMMA DatagramCases ==
  ASSUME NEW d \in Datagrams
  PROVE  d \in Noise \/ \E id \in Ids : d \in Of(id)
BY DEF Datagrams, Of

\* The chunks of a message make the message they were cut from.
LEMMA ChunksForm ==
  ASSUME NEW id \in Ids
  PROVE  LET n == Len(Contents[id])
         IN  Form(id, {ChunkOf(id, i, n) : i \in 1..n}) = Contents[id]
<1> DEFINE n == Len(Contents[id])
           D == {ChunkOf(id, i, n) : i \in 1..n}
<1>1. \A d \in D : d.kind = "chunk"
  BY DEF ChunkOf
<1>2. Plain(Undivided[id]).kind = "plain"
  BY DEF Plain
<1> HIDE DEF D
<1>3. D # {Plain(Undivided[id])}
  BY <1>1, <1>2
<1>4. Form(id, D) = Contents[id]
  BY <1>3 DEF Form
<1> QED
  BY <1>4 DEF D

\* No datagram is of two messages.
LEMMA OneOwner ==
  ASSUME NEW i \in Ids, NEW j \in Ids, NEW d \in Of(i), d \in Of(j)
  PROVE  i = j
<1>1. CASE d.kind = "chunk"
  BY <1>1, DatagramFacts
<1>2. CASE d.kind = "plain"
  <2>1. Undivided[i] = Undivided[j]
    BY <1>2, DatagramFacts
  <2>2. <<Undivided[i]>> \in Forms(i) \cap Forms(j)
    BY <2>1 DEF Forms
  <2> QED
    BY <2>2, ContentsAssumption
<1> QED
  BY <1>1, <1>2, DatagramFacts

\* Nor is a message of two clients.
LEMMA OneForm ==
  ASSUME NEW i \in Ids, NEW j \in Ids, NEW m \in Forms(i), m \in Forms(j)
  PROVE  i = j
BY ContentsAssumption

-----------------------------------------------------------------------------
(* The receiver.                                                           *)

\* gc only forgets messages, when it fails as well as when it succeeds.
LEMMA GcForgets ==
  /\ DOMAIN G!gc_overflow_by_id \subseteq DOMAIN by_id
  /\ \A id \in DOMAIN G!gc_overflow_by_id : G!gc_overflow_by_id[id] = by_id[id]
  /\ DOMAIN G!gc_by_id \subseteq DOMAIN by_id
  /\ \A id \in DOMAIN G!gc_by_id : G!gc_by_id[id] = by_id[id]
<1>1. /\ DOMAIN G!gc_overflow_by_id \subseteq DOMAIN by_id
      /\ \A id \in DOMAIN G!gc_overflow_by_id : G!gc_overflow_by_id[id] = by_id[id]
  BY DEF G!gc_overflow_by_id, G!EmptyMap
<1>2. /\ DOMAIN G!gc_by_id \subseteq DOMAIN G!gc_overflow_by_id
      /\ \A id \in DOMAIN G!gc_by_id : G!gc_by_id[id] = G!gc_overflow_by_id[id]
  BY DEF G!gc_by_id, G!Without
<1> QED
  BY <1>1, <1>2

\* A receiver that forgets messages is as faithful and holds no more.
LEMMA Forgetting ==
  ASSUME NEW f, NEW g, Faithful(f), DOMAIN g \subseteq DOMAIN f,
         \A id \in DOMAIN g : g[id] = f[id]
  PROVE  Faithful(g) /\ \A d : HeldIn(g, d) => HeldIn(f, d)
BY DEF Faithful, HeldIn

\* The receiver counts as the theorems about finite sets do.
LEMMA SameCardinality ==
  ASSUME NEW S
  PROVE  G!Cardinality(S) = Cardinality(S)
BY DEF G!Cardinality, Cardinality

\* A set of numbers below n with n elements is all of them.
LEMMA FullIsAll ==
  ASSUME NEW n \in Nat, NEW S \in SUBSET (0..(n - 1)), Cardinality(S) = n
  PROVE  S = 0..(n - 1)
<1>1. 0 \in Int /\ n - 1 \in Int
  OBVIOUS
<1>2. /\ IsFiniteSet(0..(n - 1))
      /\ Cardinality(0..(n - 1)) = IF 0 > n - 1 THEN 0 ELSE (n - 1) - 0 + 1
  BY <1>1, FS_Interval
<1>3. Cardinality(0..(n - 1)) = n
  BY <1>2
<1> QED
  BY <1>2, <1>3, FS_Subset

\* The BTreeMap of a whole message iterates its chunks in sequence order.
LEMMA InOrder ==
  ASSUME NEW inner, NEW n \in Nat, DOMAIN inner = 0..(n - 1), NEW i \in 1..n
  PROVE  G!NthKey(inner, i) = i - 1
<1>1. ASSUME NEW k \in 0..(n - 1)
      PROVE  G!Cardinality({j \in DOMAIN inner : j < k}) = k
  <2>1. {j \in DOMAIN inner : j < k} = 0..(k - 1)
    OBVIOUS
  <2>2. 0 \in Int /\ k - 1 \in Int
    OBVIOUS
  <2>3. Cardinality(0..(k - 1)) = IF 0 > k - 1 THEN 0 ELSE (k - 1) - 0 + 1
    BY <2>2, FS_Interval
  <2>4. Cardinality(0..(k - 1)) = k
    BY <2>3
  <2> QED
    BY <2>1, <2>4, SameCardinality
<1> DEFINE P(k) == G!Cardinality({j \in DOMAIN inner : j < k}) = i - 1
<1>2. i - 1 \in DOMAIN inner /\ P(i - 1)
  BY <1>1
<1>3. \A k \in DOMAIN inner : P(k) => k = i - 1
  BY <1>1
<1> HIDE DEF P
<1>4. (CHOOSE k \in DOMAIN inner : P(k)) = i - 1
  BY <1>2, <1>3
<1> QED
  BY <1>4 DEF P, G!NthKey

\* Message::chunked of all the bodies of a message is the message.
LEMMA ChunkedIsWhole ==
  ASSUME NEW id \in Ids, NEW inner,
         DOMAIN inner \subseteq 0..(Len(Contents[id]) - 1),
         G!Cardinality(DOMAIN inner) = Len(Contents[id]),
         \A s \in DOMAIN inner : inner[s] = Contents[id][s + 1]
  PROVE  /\ DOMAIN inner = 0..(Len(Contents[id]) - 1)
         /\ G!Chunked(inner).tag = "chunked"
         /\ G!Chunked(inner).chunks = Contents[id]
<1> DEFINE n == Len(Contents[id])
           chunks == [i \in 1..n |-> inner[G!NthKey(inner, i)]]
<1>1. Contents[id] \in Seq(Bodies) /\ n \in Nat
  BY ContentsAssumption
<1>2. DOMAIN inner = 0..(n - 1)
  BY <1>1, FullIsAll, SameCardinality
<1>3. ASSUME NEW i \in 1..n PROVE inner[G!NthKey(inner, i)] = Contents[id][i]
  <2>1. G!NthKey(inner, i) = i - 1
    BY <1>1, <1>2, InOrder
  <2>2. i - 1 \in DOMAIN inner /\ (i - 1) + 1 = i
    BY <1>1, <1>2
  <2> QED
    BY <2>1, <2>2
<1>4. chunks = Contents[id]
  <2>1. DOMAIN chunks = 1..n /\ DOMAIN Contents[id] = 1..n
    BY <1>1
  <2>2. \A i \in 1..n : chunks[i] = Contents[id][i]
    BY <1>3
  <2>3. Contents[id] = [i \in 1..n |-> Contents[id][i]]
    BY <1>1
  <2>4. chunks = [i \in 1..n |-> Contents[id][i]]
    BY <1>3
  <2> QED
    BY <2>3, <2>4
<1>5. /\ G!Chunked(inner).tag = "chunked"
      /\ G!Chunked(inner).chunks =
           [i \in 1..G!Cardinality(DOMAIN inner) |-> inner[G!NthKey(inner, i)]]
  BY DEF G!Chunked
<1>6. G!Chunked(inner).chunks = chunks
  BY <1>5
<1> QED
  BY <1>2, <1>4, <1>5, <1>6

-----------------------------------------------------------------------------
(* What one call of decode does with the datagram in the read buffer.      *)

\* Nothing comes out, and at most this datagram is held that was not.
Kept(d) ==
  /\ pc' = "decode"
  /\ \A e \in Datagrams \ Noise : HeldIn(by_id', e) => HeldIn(by_id, e) \/ e = d

\* A message comes out, made of this datagram and of held ones, which are held
\* no longer.
Gives(d) ==
  /\ pc' = "process"
  /\ \E id \in Ids : \E D \in DatagramSets(id) :
       /\ d \in D
       /\ out'.chunks \in Forms(id) /\ out'.chunks = Form(id, D)
       /\ \A e \in D \ {d} : HeldIn(by_id, e) /\ ~HeldIn(by_id', e)
  /\ \A e \in Datagrams \ Noise : HeldIn(by_id', e) => HeldIn(by_id, e)

\* The outcome of decode when it fails or forgets.
LEMMA ForgetEffect ==
  ASSUME IInv, pc' = into_received(out'), out'.tag \in {"error", "incomplete"},
         by_id' = G!gc_by_id \/ by_id' = G!gc_overflow_by_id
  PROVE  Kept(rd) /\ Faithful(by_id')
<1>1. pc' = "decode"
  BY DEF into_received
<1>2. Faithful(by_id') /\ \A d : HeldIn(by_id', d) => HeldIn(by_id, d)
  <2>1. CASE by_id' = G!gc_by_id
    BY <2>1, GcForgets, Forgetting DEF IInv
  <2>2. CASE by_id' = G!gc_overflow_by_id
    BY <2>2, GcForgets, Forgetting DEF IInv
  <2> QED
    BY <2>1, <2>2
<1> QED
  BY <1>1, <1>2 DEF Kept

\* A datagram that is a whole message, undivided or as its only chunk.
LEMMA SingleEffect ==
  ASSUME IInv, NEW id \in Ids, NEW D \in DatagramSets(id), D = {rd}, NEW body,
         body # EmptyBody, out' = G!Single(body), <<body>> \in Forms(id),
         <<body>> = Form(id, D),
         pc' = into_received(out'), by_id' = by_id \/ by_id' = G!gc_by_id
  PROVE  Gives(rd) /\ Faithful(by_id')
<1>1. out' = [tag |-> "single", chunks |-> <<body>>]
  BY DEF G!Single
<1>2. /\ pc' = "process" /\ out'.chunks \in Forms(id)
      /\ out'.chunks = Form(id, D)
  BY <1>1 DEF into_received
<1>3. Faithful(by_id') /\ \A d : HeldIn(by_id', d) => HeldIn(by_id, d)
  <2>1. CASE by_id' = G!gc_by_id
    BY <2>1, GcForgets, Forgetting DEF IInv
  <2>2. CASE by_id' = by_id
    BY <2>2 DEF IInv
  <2> QED
    BY <2>1, <2>2
<1> QED
  BY <1>2, <1>3 DEF Gives

\* push makes inner, of what was held and of the chunk, the chunks of message id.
Puts(id, held, inner, ts) ==
  /\ held = IF id \in DOMAIN G!gc_by_id THEN DOMAIN G!gc_by_id[id].inner ELSE {}
  /\ DOMAIN inner = held \cup {rd.chunk.seq_num}
  /\ inner[rd.chunk.seq_num] = rd.chunk.body
  /\ \A s \in held \ {rd.chunk.seq_num} : inner[s] = G!gc_by_id[id].inner[s]
  /\ DOMAIN by_id' = DOMAIN G!gc_by_id \cup {id}
  /\ \A j \in DOMAIN G!gc_by_id \ {id} : by_id'[j] = G!gc_by_id[j]
  /\ by_id'[id] = [expected_total |-> Len(Contents[id]), inner |-> inner, ts |-> ts]

\* A chunk is put into its message, new or held.
LEMMA InsertEffect ==
  ASSUME IInv, NEW id \in Ids, rd \in Of(id), rd.kind = "chunk",
         NEW held, NEW inner, NEW ts, Puts(id, held, inner, ts), pc' = "decode"
  PROVE  Kept(rd) /\ Faithful(by_id')
<1> USE DEF Puts
<1> DEFINE s0 == rd.chunk.seq_num
           n == Len(Contents[id])
<1>1. Faithful(G!gc_by_id) /\ \A d : HeldIn(G!gc_by_id, d) => HeldIn(by_id, d)
  BY GcForgets, Forgetting DEF IInv
<1>2. /\ rd.chunk.id = id /\ s0 \in 0..(n - 1)
      /\ rd.chunk.body = Contents[id][s0 + 1]
      /\ rd = ChunkOf(id, s0 + 1, n)
  BY DatagramFacts
<1>3. by_id'[id].inner = inner
  OBVIOUS
<1>4. Faithful(by_id')
  <2> SUFFICES ASSUME NEW j \in DOMAIN by_id'
               PROVE  /\ j \in Ids
                      /\ by_id'[j] = [expected_total |-> Len(Contents[j]),
                                      inner |-> by_id'[j].inner,
                                      ts |-> by_id'[j].ts]
                      /\ DOMAIN by_id'[j].inner \subseteq 0..(Len(Contents[j]) - 1)
                      /\ \A s \in DOMAIN by_id'[j].inner :
                           by_id'[j].inner[s] = Contents[j][s + 1]
    BY DEF Faithful
  <2>1. CASE j # id
    <3>1. j \in DOMAIN G!gc_by_id /\ by_id'[j] = G!gc_by_id[j]
      BY <2>1
    <3> QED
      BY <1>1, <3>1 DEF Faithful
  <2>2. CASE j = id
    <3>1. held \subseteq 0..(n - 1)
      BY <1>1 DEF Faithful
    <3>2. \A s \in held \ {s0} : inner[s] = Contents[id][s + 1]
      BY <1>1 DEF Faithful
    <3>3. \A s \in DOMAIN inner : inner[s] = Contents[id][s + 1]
      BY <1>2, <3>2
    <3>4. DOMAIN inner \subseteq 0..(n - 1)
      BY <1>2, <3>1
    <3>5. by_id'[id].ts = ts
      OBVIOUS
    <3> QED
      BY <1>3, <2>2, <3>3, <3>4, <3>5
  <2> QED
    BY <2>1, <2>2
<1>5. ASSUME NEW e \in Datagrams \ Noise, HeldIn(by_id', e)
      PROVE  HeldIn(by_id, e) \/ e = rd
  <2>1. PICK j \in Ids : e \in Of(j)
    BY DatagramCases
  <2>2. /\ e.kind = "chunk" /\ e.chunk.id = j
        /\ j \in DOMAIN by_id' /\ e.chunk.seq_num \in DOMAIN by_id'[j].inner
        /\ e = ChunkOf(j, e.chunk.seq_num + 1, Len(Contents[j]))
    BY <1>5, <2>1, DatagramFacts DEF HeldIn
  <2>3. CASE j # id
    <3>1. j \in DOMAIN G!gc_by_id /\ by_id'[j] = G!gc_by_id[j]
      BY <2>2, <2>3
    <3>2. HeldIn(G!gc_by_id, e)
      BY <2>2, <3>1 DEF HeldIn
    <3> QED
      BY <1>1, <3>2
  <2>4. CASE j = id /\ e.chunk.seq_num # s0
    <3>1. e.chunk.seq_num \in held
      BY <1>3, <2>2, <2>4
    <3>2. HeldIn(G!gc_by_id, e)
      BY <2>2, <2>4, <3>1 DEF HeldIn
    <3> QED
      BY <1>1, <3>2
  <2>5. CASE j = id /\ e.chunk.seq_num = s0
    BY <1>2, <2>2, <2>5
  <2> QED
    BY <2>3, <2>4, <2>5
<1> QED
  BY <1>4, <1>5 DEF Kept

\* push of the first chunk of a message.
LEMMA OpenEffect ==
  ASSUME IInv, NEW id \in Ids, rd \in Of(id), rd.kind = "chunk",
         G!Open(rd.chunk), pc' = into_received(out')
  PROVE  Kept(rd) /\ Faithful(by_id')
<1> DEFINE c == rd.chunk
           ts == <<now', counter>>
           inner == G!Put(G!EmptyMap, c.seq_num, c.body)
<1>1. c.id = id /\ c.seq_count = Len(Contents[id])
  BY DatagramFacts
<1>2. /\ id \notin DOMAIN G!gc_by_id
      /\ by_id' = G!Put(G!gc_by_id, id,
                        [expected_total |-> Len(Contents[id]), inner |-> inner,
                         ts |-> ts])
      /\ out' = G!Nothing
  BY <1>1 DEF G!Open
<1>3. DOMAIN inner = {} \cup {c.seq_num} /\ inner[c.seq_num] = c.body
  BY DEF G!Put, G!EmptyMap
<1>4. pc' = "decode"
  BY <1>2 DEF into_received, G!Nothing
<1> HIDE DEF inner, ts
<1>5. /\ DOMAIN by_id' = DOMAIN G!gc_by_id \cup {id}
      /\ \A j \in DOMAIN G!gc_by_id \ {id} : by_id'[j] = G!gc_by_id[j]
      /\ by_id'[id] = [expected_total |-> Len(Contents[id]), inner |-> inner,
                       ts |-> ts]
  BY <1>2 DEF G!Put
<1> DEFINE held == IF id \in DOMAIN G!gc_by_id THEN DOMAIN G!gc_by_id[id].inner
                   ELSE {}
<1>6. held = {}
  BY <1>2
<1>7. /\ DOMAIN inner = held \cup {c.seq_num}
      /\ \A s \in held \ {c.seq_num} : inner[s] = G!gc_by_id[id].inner[s]
  BY <1>3, <1>6
<1>8. Puts(id, held, inner, ts)
  BY <1>3, <1>5, <1>7 DEF Puts
<1> QED
  BY <1>4, <1>8, InsertEffect

\* What push has of a held message and its next chunk.
LEMMA InsertedFacts ==
  ASSUME IInv, NEW id \in Ids, rd \in Of(id), rd.kind = "chunk",
         id \in DOMAIN G!gc_by_id
  PROVE  LET c == rd.chunk
             held == DOMAIN G!gc_by_id[id].inner
         IN  /\ c.id = id /\ c.seq_count = Len(Contents[id])
             /\ DOMAIN G!Inserted(c) = held \cup {c.seq_num}
             /\ G!Inserted(c)[c.seq_num] = c.body
             /\ \A s \in held \ {c.seq_num} :
                  G!Inserted(c)[s] = G!gc_by_id[id].inner[s]
<1>1. rd.chunk.id = id /\ rd.chunk.seq_count = Len(Contents[id])
  BY DatagramFacts
<1> QED
  BY <1>1 DEF G!Inserted, G!Put

\* push of a chunk that leaves its message incomplete.
LEMMA AddEffect ==
  ASSUME IInv, NEW id \in Ids, rd \in Of(id), rd.kind = "chunk",
         G!Add(rd.chunk), pc' = into_received(out')
  PROVE  Kept(rd) /\ Faithful(by_id')
<1> DEFINE c == rd.chunk
           inner == G!Inserted(c)
           ts == G!gc_by_id[id].ts
           held == IF id \in DOMAIN G!gc_by_id THEN DOMAIN G!gc_by_id[id].inner
                   ELSE {}
<1>1. c.id = id
  BY DatagramFacts
<1>2. /\ id \in DOMAIN G!gc_by_id
      /\ by_id' = [G!gc_by_id EXCEPT ![id].inner = inner]
      /\ out' = G!Nothing
  BY <1>1 DEF G!Add
<1>3. /\ DOMAIN inner = held \cup {c.seq_num}
      /\ inner[c.seq_num] = c.body
      /\ \A s \in held \ {c.seq_num} : inner[s] = G!gc_by_id[id].inner[s]
  BY <1>2, InsertedFacts
<1>4. pc' = "decode"
  BY <1>2 DEF into_received, G!Nothing
<1>5. G!gc_by_id[id] = [expected_total |-> Len(Contents[id]),
                        inner |-> G!gc_by_id[id].inner, ts |-> ts]
  BY <1>2, GcForgets DEF IInv, Faithful
<1> HIDE DEF inner, ts
<1>6. DOMAIN by_id' = DOMAIN G!gc_by_id \cup {id}
  BY <1>2
<1>7. \A j \in DOMAIN G!gc_by_id \ {id} : by_id'[j] = G!gc_by_id[j]
  BY <1>2
<1>8. by_id'[id] = [expected_total |-> Len(Contents[id]), inner |-> inner,
                    ts |-> ts]
  <2>1. by_id'[id] = [G!gc_by_id[id] EXCEPT !.inner = inner]
    BY <1>2
  <2> QED
    BY <1>5, <2>1
<1> HIDE DEF held
<1>9. held = IF id \in DOMAIN G!gc_by_id THEN DOMAIN G!gc_by_id[id].inner ELSE {}
  BY DEF held
<1>10. Puts(id, held, inner, ts)
  BY <1>3, <1>6, <1>7, <1>8, <1>9 DEF Puts
<1> QED
  BY <1>4, <1>10, InsertEffect

\* push of the chunk that completes its message.
LEMMA CompleteEffect ==
  ASSUME IInv, NEW id \in Ids, rd \in Of(id), rd.kind = "chunk",
         G!Complete(rd.chunk), pc' = into_received(out')
  PROVE  Gives(rd) /\ Faithful(by_id')
<1> DEFINE c == rd.chunk
           n == Len(Contents[id])
           inner == G!Inserted(c)
           D == {ChunkOf(id, i, n) : i \in 1..n}
           held == DOMAIN G!gc_by_id[id].inner
<1>1. /\ c.id = id /\ c.seq_count = n /\ c.seq_num \in 0..(n - 1)
      /\ c.body = Contents[id][c.seq_num + 1]
      /\ rd = ChunkOf(id, c.seq_num + 1, n)
  BY DatagramFacts
<1>2. /\ id \in DOMAIN G!gc_by_id
      /\ by_id' = G!Without(G!gc_by_id, {id})
      /\ out' = G!Chunked(inner)
      /\ G!Cardinality(DOMAIN inner) = n
  BY <1>1 DEF G!Complete, G!is_complete
<1>3. /\ DOMAIN inner = held \cup {c.seq_num}
      /\ inner[c.seq_num] = c.body
      /\ \A s \in held \ {c.seq_num} : inner[s] = G!gc_by_id[id].inner[s]
  BY <1>2, InsertedFacts
<1>4. Faithful(G!gc_by_id) /\ \A d : HeldIn(G!gc_by_id, d) => HeldIn(by_id, d)
  BY GcForgets, Forgetting DEF IInv
<1>5. /\ held \subseteq 0..(n - 1)
      /\ \A s \in held : G!gc_by_id[id].inner[s] = Contents[id][s + 1]
  BY <1>2, <1>4 DEF Faithful
<1> HIDE DEF inner
<1>6. /\ DOMAIN inner \subseteq 0..(n - 1)
      /\ \A s \in DOMAIN inner : inner[s] = Contents[id][s + 1]
  BY <1>1, <1>3, <1>5
<1>7. /\ DOMAIN inner = 0..(n - 1)
      /\ G!Chunked(inner).tag = "chunked"
      /\ G!Chunked(inner).chunks = Contents[id]
  BY <1>2, <1>6, ChunkedIsWhole
<1>8. pc' = "process" /\ out'.chunks \in Forms(id) /\ out'.chunks = Form(id, D)
  BY <1>2, <1>7, ChunksForm DEF into_received, Forms
<1>9. /\ DOMAIN by_id' = DOMAIN G!gc_by_id \ {id}
      /\ \A j \in DOMAIN by_id' : by_id'[j] = G!gc_by_id[j]
  BY <1>2 DEF G!Without
<1>10. Faithful(by_id') /\ \A d : HeldIn(by_id', d) => HeldIn(G!gc_by_id, d)
  <2>1. DOMAIN by_id' \subseteq DOMAIN G!gc_by_id
    BY <1>9
  <2> QED
    BY <1>4, <1>9, <2>1, Forgetting
<1>11. D \in DatagramSets(id) /\ rd \in D
  <2>1. D \in DatagramSets(id)
    BY DEF DatagramSets
  <2>2. n \in Nat
    BY ContentsAssumption
  <2>3. c.seq_num + 1 \in 1..n
    BY <1>1, <2>2
  <2> QED
    BY <1>1, <2>1, <2>3
<1>12. ASSUME NEW e \in D \ {rd}
       PROVE  HeldIn(by_id, e) /\ ~HeldIn(by_id', e)
  <2>1. PICK i \in 1..n : e = ChunkOf(id, i, n)
    OBVIOUS
  <2>2. e.kind = "chunk" /\ e.chunk.id = id /\ e.chunk.seq_num = i - 1
    BY <2>1 DEF ChunkOf
  <2>3. n \in Nat
    BY ContentsAssumption
  <2>4. i - 1 \in DOMAIN inner /\ (i - 1) + 1 = i
    BY <1>7, <2>3
  <2>5. i - 1 # c.seq_num
    BY <1>1, <2>1, <2>4
  <2>6. HeldIn(G!gc_by_id, e)
    BY <1>2, <1>3, <2>2, <2>4, <2>5 DEF HeldIn
  <2>7. ~HeldIn(by_id', e)
    BY <1>9, <2>2 DEF HeldIn
  <2> QED
    BY <1>4, <2>6, <2>7
<1> HIDE DEF D
<1> QED
  BY <1>4, <1>8, <1>10, <1>11, <1>12 DEF Gives

\* decode of a chunk of a message, once gc has succeeded.
LEMMA ChunkEffect ==
  ASSUME IInv, NEW id \in Ids, rd \in Of(id), rd.kind = "chunk",
         G!chunked(rd.chunk), pc' = into_received(out')
  PROVE  (Kept(rd) \/ Gives(rd)) /\ Faithful(by_id')
<1> DEFINE c == rd.chunk
           n == Len(Contents[id])
<1>1. CASE G!Rejected(c) \/ G!Mismatch(c) \/ G!OpenFails(c)
  <2>1. by_id' = G!gc_by_id /\ out' = G!Failed
    BY <1>1 DEF G!Rejected, G!Mismatch, G!OpenFails, G!Collected
  <2>2. out'.tag \in {"error", "incomplete"}
    BY <2>1 DEF G!Failed
  <2> QED
    BY <2>1, <2>2, ForgetEffect
<1>2. CASE G!OnlyChunk(c)
  <2>1. /\ by_id' = G!gc_by_id /\ out' = G!Single(c.body)
        /\ c.seq_num = 0 /\ c.seq_count = 1
    BY <1>2 DEF G!OnlyChunk, G!Collected, G!IsOnlyChunk
  <2>2. n = 1 /\ c.body = Contents[id][1] /\ rd = ChunkOf(id, 1, n)
    <3>1. /\ c.seq_count = n /\ c.body = Contents[id][c.seq_num + 1]
          /\ rd = ChunkOf(id, c.seq_num + 1, n)
      BY DatagramFacts
    <3>2. n = 1
      BY <2>1, <3>1
    <3>3. c.seq_num + 1 = 1
      BY <2>1
    <3> QED
      BY <3>1, <3>2, <3>3
  <2>3. Contents[id] \in Seq(Bodies \ {EmptyBody})
    BY ContentsAssumption
  <2>4. c.body # EmptyBody /\ Contents[id] = <<c.body>>
    BY <2>2, <2>3
  <2>5. <<c.body>> \in Forms(id)
    BY <2>4 DEF Forms
  <2>6. {rd} \in DatagramSets(id) /\ <<c.body>> = Form(id, {rd})
    <3>1. {ChunkOf(id, i, n) : i \in 1..n} = {rd}
      <4>1. 1..n = {1}
        BY <2>2
      <4> QED
        BY <2>2, <4>1
    <3> QED
      BY <3>1, ChunksForm, <2>4 DEF DatagramSets
  <2> QED
    BY <2>1, <2>4, <2>5, <2>6, SingleEffect
<1>3. CASE G!Open(c)
  BY <1>3, OpenEffect
<1>4. CASE G!Add(c)
  BY <1>4, AddEffect
<1>5. CASE G!Complete(c)
  BY <1>5, CompleteEffect
<1> QED
  BY <1>1, <1>2, <1>3, <1>4, <1>5 DEF G!chunked

\* decode of any datagram either keeps it or gives out a whole message.
LEMMA DecodeEffect ==
  ASSUME IInv, Decode
  PROVE  (Kept(rd) \/ Gives(rd)) /\ Faithful(by_id')
<1>1. pc' = into_received(out') /\ receive(rd) /\ rd \in Datagrams
  BY DEF Decode, IInv, Types
<1>2. CASE rd.kind # "plain" /\ (G!GcFails \/ G!Truncated)
  <2>1. /\ out'.tag \in {"error", "incomplete"}
        /\ by_id' = G!gc_by_id \/ by_id' = G!gc_overflow_by_id
    BY <1>2 DEF G!GcFails, G!Truncated, G!Collected, G!Failed
  <2> QED
    BY <1>1, <2>1, ForgetEffect
<1>3. CASE rd \in Noise /\ rd.kind = "chunk" /\ G!chunked(rd.chunk)
  <2>1. rd.chunk.seq_num = 1 /\ rd.chunk.seq_count = 1
    BY <1>3 DEF Noise
  <2>2. ~G!HeaderOk(rd.chunk)
    BY <2>1 DEF G!HeaderOk
  <2>3. G!Rejected(rd.chunk)
    BY <1>3, <2>2 DEF G!chunked, G!OnlyChunk, G!Open, G!OpenFails, G!Mismatch,
                      G!Add, G!Complete, G!Pushed
  <2>4. by_id' = G!gc_by_id /\ out'.tag \in {"error", "incomplete"}
    BY <2>3 DEF G!Rejected, G!Collected, G!Failed
  <2> QED
    BY <1>1, <2>4, ForgetEffect
<1>4. CASE rd.kind = "plain" /\ G!Unchunked(rd.body)
  <2>1. rd \notin Noise
    BY <1>4 DEF Noise
  <2>2. PICK id \in Ids : rd \in Of(id)
    BY <1>1, <2>1, DatagramCases
  <2>3. rd = Plain(Undivided[id]) /\ rd.body = Undivided[id]
    BY <1>4, <2>2, DatagramFacts
  <2>4. rd.body # EmptyBody /\ <<rd.body>> \in Forms(id)
    BY <2>3, ContentsAssumption DEF Forms
  <2>5. {rd} \in DatagramSets(id) /\ <<rd.body>> = Form(id, {rd})
    BY <2>3 DEF DatagramSets, Form
  <2>6. out' = G!Single(rd.body) /\ by_id' = by_id
    BY <1>4 DEF G!Unchunked
  <2> QED
    BY <1>1, <2>4, <2>5, <2>6, SingleEffect
<1>5. CASE rd \notin Noise /\ rd.kind = "chunk" /\ G!chunked(rd.chunk)
  <2>1. PICK id \in Ids : rd \in Of(id)
    BY <1>1, <1>5, DatagramCases
  <2> QED
    BY <1>1, <1>5, <2>1, ChunkEffect
<1> QED
  BY <1>1, <1>2, <1>3, <1>4, <1>5 DEF receive

-----------------------------------------------------------------------------
(* The accounts.                                                           *)

\* A datagram belongs to one way of sending its message.
LEMMA OneWay ==
  ASSUME NEW id \in Ids, NEW D \in DatagramSets(id), NEW E \in DatagramSets(id),
         NEW d \in D, d \in E
  PROVE  D = E
<1> DEFINE chunks == {ChunkOf(id, i, Len(Contents[id])) : i \in 1..Len(Contents[id])}
           plain == {Plain(Undivided[id])}
<1>1. D \in {chunks, plain} /\ E \in {chunks, plain}
  BY DEF DatagramSets
<1>2. \A e \in chunks : e.kind = "chunk"
  BY DEF ChunkOf
<1>3. \A e \in plain : e.kind = "plain"
  BY DEF Plain
<1> HIDE DEF chunks, plain
<1> QED
  BY <1>1, <1>2, <1>3

\* The terms of a sum are numbers.
LEMMA LoadType ==
  ASSUME Types, NEW d \in Datagrams, NEW m
  PROVE  /\ in_flight[d] \in Nat
         /\ Times(m) \in Nat
         /\ \A b \in BOOLEAN : One(b) \in {0, 1}
         /\ Load(d, m) \in Nat
<1>1. in_flight[d] \in Nat /\ Times(m) \in Nat
  BY DEF Types, Times
<1>2. /\ One(rd = d) \in {0, 1} /\ One(HeldIn(by_id, d)) \in {0, 1}
      /\ One(Pending(m)) \in {0, 1} /\ \A b \in BOOLEAN : One(b) \in {0, 1}
  BY DEF One
<1> QED
  BY <1>1, <1>2 DEF Load

\* A step that brings nothing of a message where nothing was, and keeps the sums
\* of its datagrams, keeps its account.
LEMMA AccountStep ==
  ASSUME IInv, NEW id \in Ids, sent' = sent,
         \A e \in Of(id) : Absent(e) => Absent(e)',
         Idle(id) => \A m \in Forms(id) : ~Pending(m)' /\ m \notin DOMAIN processed',
         \A D \in DatagramSets(id) : Budget(id, D) =>
           \A m \in Forms(id) :
             /\ \A e \in D : Load(e, m)' <= Copies[id]
             /\ Seen(m)' => m = Form(id, D)
  PROVE  Account(id)' /\ (id \notin sent' => Idle(id)')
<1>1. Idle(id) => Idle(id)'
  BY DEF Idle
<1>2. ASSUME NEW D \in DatagramSets(id), Budget(id, D) PROVE Budget(id, D)'
  BY <1>2 DEF Budget
<1>3. Account(id)'
  BY <1>1, <1>2 DEF IInv, Accounts, Account
<1> QED
  BY <1>1, <1>3 DEF IInv, Accounts

\* A step that leaves alone all that the accounts speak of.
LEMMA SameAccounts ==
  ASSUME IInv, UNCHANGED <<in_flight, sent, rd, by_id, processed>>,
         \A m : Pending(m)' <=> Pending(m)
  PROVE  Accounts'
<1> SUFFICES ASSUME NEW id \in Ids
             PROVE  Account(id)' /\ (id \notin sent' => Idle(id)')
  BY DEF Accounts
<1>1. \A e : Absent(e) => Absent(e)'
  BY DEF Absent, HeldIn
<1>2. ASSUME NEW e, NEW m PROVE Load(e, m)' = Load(e, m)
  <2>1. One(Pending(m))' = One(Pending(m))
    BY DEF One
  <2> QED
    BY <2>1 DEF Load, Times, HeldIn, One
<1>3. Idle(id) => \A m \in Forms(id) : ~Pending(m)' /\ m \notin DOMAIN processed'
  BY DEF Idle
<1>4. \A D \in DatagramSets(id) : Budget(id, D) =>
        \A m \in Forms(id) :
          /\ \A e \in D : Load(e, m)' <= Copies[id]
          /\ Seen(m)' => m = Form(id, D)
  BY <1>2 DEF Budget, Seen
<1> QED
  BY <1>1, <1>3, <1>4, AccountStep

-----------------------------------------------------------------------------
(* Every step preserves the invariant.                                     *)

\* Nothing is anywhere before the first datagram is sent.
LEMMA InitIInv == Init => IInv
<1> SUFFICES ASSUME Init PROVE IInv
  OBVIOUS
<1>1. /\ in_flight = [d \in Datagrams |-> 0] /\ sent = {} /\ pc = "recv"
      /\ rd = [kind |-> "empty"] /\ DOMAIN by_id = {} /\ DOMAIN processed = {}
      /\ processed = [k \in {} |-> k]
  BY DEF Init, G!Init, G!EmptyMap
<1>2. rd \in Noise /\ rd \in Datagrams
  BY <1>1 DEF Noise, Datagrams
<1>3. Types
  BY <1>1, <1>2 DEF Types
<1>4. Faithful(by_id) /\ Whole
  BY <1>1 DEF Faithful, Whole
<1>5. ASSUME NEW id \in Ids PROVE Idle(id)
  <2>1. ASSUME NEW d \in Of(id) PROVE Absent(d)
    <3>1. d \in Datagrams /\ d \notin Noise
      BY DatagramFacts
    <3> QED
      BY <1>1, <1>2, <3>1 DEF Absent, HeldIn
  <2>2. \A m : ~Pending(m) /\ m \notin DOMAIN processed
    BY <1>1 DEF Pending
  <2> QED
    BY <2>1, <2>2 DEF Idle
<1> QED
  BY <1>3, <1>4, <1>5 DEF IInv, Accounts, Account

\* A client sends a message once, one way, in the copies the network makes.
LEMMA SendStep ==
  ASSUME IInv, NEW i \in Ids, Send(i)
  PROVE  IInv'
<1>1. /\ i \notin sent /\ sent' = sent \cup {i}
      /\ UNCHANGED <<by_id, out, rd, pc, processed>>
  BY DEF Send, receiver
<1>2. PICK D \in DatagramSets(i) : \E copies \in [D -> 0..Copies[i]] :
        in_flight' = [d \in Datagrams |->
                        IF d \in D THEN copies[d] ELSE in_flight[d]]
  BY DEF Send
<1>3. PICK copies \in [D -> 0..Copies[i]] :
        in_flight' = [d \in Datagrams |->
                        IF d \in D THEN copies[d] ELSE in_flight[d]]
  BY <1>2
<1>4. Copies[i] \in Nat /\ D \subseteq Of(i)
  BY ContentsAssumption DEF Of
<1>5. /\ \A d \in D : in_flight'[d] \in 0..Copies[i]
      /\ \A d \in Datagrams \ D : in_flight'[d] = in_flight[d]
  <2>1. \A d \in D : d \in Datagrams
    BY <1>4, DatagramFacts
  <2> QED
    BY <1>3, <2>1
<1>6. Types'
  <2>1. in_flight' \in [Datagrams -> Nat]
    <3>1. \A d \in Datagrams : in_flight'[d] \in Nat
      BY <1>4, <1>5 DEF IInv, Types
    <3> QED
      BY <1>3, <3>1
  <2> QED
    BY <1>1, <2>1 DEF IInv, Types
<1>7. Faithful(by_id)' /\ Whole'
  BY <1>1 DEF IInv, Faithful, Whole
<1>8. ASSUME NEW id \in Ids, NEW d \in Of(id), d \notin D, Absent(d)
      PROVE  Absent(d)'
  BY <1>1, <1>5, <1>8, DatagramFacts DEF Absent, HeldIn
<1>9. ASSUME NEW id \in Ids
      PROVE  Account(id)' /\ (id \notin sent' => Idle(id)')
  <2>1. CASE id # i
    <3>1. \A e \in Of(id) : e \notin D
      BY <1>4, <2>1, OneOwner
    <3>2. \A e \in Of(id) : Absent(e) => Absent(e)'
      BY <1>8, <3>1
    <3>3. Idle(id) => Idle(id)'
      BY <1>1, <3>2 DEF Idle, Pending
    <3>4. ASSUME NEW E \in DatagramSets(id), Budget(id, E)
          PROVE  Budget(id, E)'
      <4>1. ASSUME NEW e \in E, NEW m \in Forms(id)
            PROVE  Load(e, m)' <= Copies[id]
        <5>1. e \in Of(id)
          BY DEF Of
        <5>2. e \in Datagrams \ D
          BY <3>1, <5>1, DatagramFacts
        <5>3. in_flight'[e] = in_flight[e]
          BY <1>5, <5>2
        <5>4. Load(e, m)' = Load(e, m)
          BY <1>1, <5>3 DEF Load, Times, HeldIn, One, Pending
        <5> QED
          BY <3>4, <5>4 DEF Budget
      <4>2. \A m : Seen(m)' <=> Seen(m)
        BY <1>1 DEF Seen, Pending
      <4> QED
        BY <3>2, <3>4, <4>1, <4>2 DEF Budget
    <3> QED
      BY <1>1, <3>3, <3>4 DEF IInv, Accounts, Account
  <2>2. CASE id = i
    <3>1. Idle(i)
      BY <1>1 DEF IInv, Accounts
    <3>2. \A m \in Forms(i) : ~Pending(m)' /\ m \notin DOMAIN processed'
      BY <1>1, <3>1 DEF Idle, Pending
    <3>3. CASE D = {}
      <4>1. Idle(i)'
        BY <1>8, <3>1, <3>2, <3>3 DEF Idle
      <4> QED
        BY <2>2, <4>1 DEF Account
    <3>4. CASE D # {}
      <4>1. ASSUME NEW e \in D, NEW m \in Forms(i)
            PROVE  Load(e, m)' <= Copies[i]
        <5>1. Absent(e)
          BY <1>4, <3>1 DEF Idle
        <5>2. ~(rd = e)' /\ ~HeldIn(by_id, e)' /\ ~Pending(m)' /\ Times(m)' = 0
          BY <1>1, <3>2, <5>1 DEF Absent, HeldIn, Times
        <5>3. Load(e, m)' = in_flight'[e]
          <6>1. in_flight'[e] \in Int
            BY <1>4, <1>5
          <6> QED
            BY <5>2, <6>1 DEF Load, One
        <5> QED
          BY <1>4, <1>5, <5>3
      <4>2. Budget(i, D)'
        BY <1>8, <3>1, <3>2, <3>4, <4>1 DEF Budget, Idle, Seen
      <4> QED
        BY <1>1, <2>2, <4>2 DEF Account
    <3> QED
      BY <3>3, <3>4
  <2> QED
    BY <2>1, <2>2
<1> QED
  BY <1>6, <1>7, <1>9 DEF IInv, Accounts

\* UdpFramed takes one copy of a datagram from the socket.
LEMMA RecvStep ==
  ASSUME IInv, NEW d \in Datagrams, Recv(d)
  PROVE  IInv'
<1>1. /\ UNCHANGED <<by_id, out, sent, processed>>
      /\ pc = "recv" /\ pc' = "decode" /\ rd' = d
      /\ d \in Noise \/ in_flight[d] > 0
      /\ in_flight' = [in_flight EXCEPT ![d] = IF d \in Noise THEN @ ELSE @ - 1]
  BY DEF Recv, receiver
<1>2. in_flight \in [Datagrams -> Nat]
  BY DEF IInv, Types
<1>3. /\ \A e \in Datagrams \ {d} : in_flight'[e] = in_flight[e]
      /\ d \notin Noise => in_flight'[d] = in_flight[d] - 1
      /\ d \in Noise => in_flight'[d] = in_flight[d]
  BY <1>1, <1>2
<1>4. Types'
  <2>1. \A e \in Datagrams : in_flight'[e] \in Nat
    BY <1>1, <1>2, <1>3
  <2>2. in_flight' \in [Datagrams -> Nat]
    BY <1>1, <1>2, <2>1
  <2> QED
    BY <1>1, <2>2 DEF IInv, Types
<1>5. Faithful(by_id)' /\ Whole'
  BY <1>1 DEF IInv, Faithful, Whole
<1>6. \A m : ~Pending(m) /\ ~Pending(m)'
  BY <1>1 DEF Pending
<1>7. ASSUME NEW id \in Ids
      PROVE  Account(id)' /\ (id \notin sent' => Idle(id)')
  <2>1. ASSUME NEW e \in Of(id), Absent(e) PROVE Absent(e)'
    <3>1. e \in Datagrams /\ e \notin Noise /\ in_flight[e] = 0
      BY <2>1, DatagramFacts DEF Absent
    <3>2. e # d
      BY <1>1, <3>1
    <3> QED
      BY <1>1, <1>3, <2>1, <3>1, <3>2 DEF Absent, HeldIn
  <2>2. Idle(id) => \A m \in Forms(id) : ~Pending(m)' /\ m \notin DOMAIN processed'
    BY <1>1, <1>6 DEF Idle
  <2>3. ASSUME NEW e \in Of(id), NEW m PROVE Load(e, m)' <= Load(e, m)
    <3>1. e \in Datagrams /\ e \notin Noise
      BY DatagramFacts
    <3>2. in_flight[e] \in Nat /\ Times(m) \in Nat
      BY <3>1, LoadType DEF IInv
    <3>3. Times(m)' = Times(m) /\ (HeldIn(by_id, e)' <=> HeldIn(by_id, e))
      BY <1>1 DEF Times, HeldIn
    <3>4. CASE e = d
      <4>1. in_flight'[e] = in_flight[e] - 1
        BY <1>3, <3>1, <3>4
      <4> QED
        BY <1>6, <3>2, <3>3, <4>1 DEF Load, One
    <3>5. CASE e # d
      <4>1. in_flight'[e] = in_flight[e] /\ rd' # e
        BY <1>1, <1>3, <3>1, <3>5
      <4> QED
        BY <1>6, <3>2, <3>3, <4>1 DEF Load, One
    <3> QED
      BY <3>4, <3>5
  <2>4. ASSUME NEW D \in DatagramSets(id), Budget(id, D),
               NEW e \in D, NEW m \in Forms(id)
        PROVE  Load(e, m)' <= Copies[id]
    <3>1. e \in Of(id)
      BY DEF Of
    <3>2. Load(e, m)' <= Load(e, m) /\ Load(e, m) <= Copies[id]
      BY <2>3, <2>4, <3>1 DEF Budget
    <3>3. Load(e, m) \in Nat /\ Load(e, m)' \in Nat /\ Copies[id] \in Nat
      <4>1. e \in Datagrams
        BY <3>1, DatagramFacts
      <4>2. Load(e, m) \in Nat
        BY <4>1, LoadType DEF IInv
      <4>3. Load(e, m)' \in Nat
        BY <1>4, <4>1 DEF Load, Types, Times, One
      <4> QED
        BY <4>2, <4>3, ContentsAssumption
    <3> QED
      BY <3>2, <3>3
  <2>5. \A m : Seen(m)' => Seen(m)
    BY <1>1, <1>6 DEF Seen
  <2>6. \A D \in DatagramSets(id) : Budget(id, D) =>
          \A m \in Forms(id) : Seen(m)' => m = Form(id, D)
    BY <2>5 DEF Budget
  <2> QED
    BY <1>1, <2>1, <2>2, <2>4, <2>6, AccountStep
<1> QED
  BY <1>4, <1>5, <1>7 DEF IInv, Accounts

\* Neither the clock nor an empty buffer moves a datagram.
LEMMA QuietStep ==
  ASSUME IInv, Tick \/ DecodeEmpty \/ UNCHANGED vars
  PROVE  IInv'
<1>1. /\ UNCHANGED <<in_flight, sent, rd, by_id, processed, out>>
      /\ pc' = pc \/ (pc = "decode" /\ pc' = "recv")
  BY DEF Tick, G!Tick, DecodeEmpty, network, receiver, vars
<1>2. \A m : Pending(m)' <=> Pending(m)
  BY <1>1 DEF Pending
<1>3. Types' /\ Faithful(by_id)' /\ Whole'
  BY <1>1 DEF IInv, Types, Faithful, Whole
<1>4. Accounts'
  BY <1>1, <1>2, SameAccounts
<1> QED
  BY <1>3, <1>4 DEF IInv

\* The codec takes the whole datagram from the buffer: what comes out is paid
\* for by it and by what was held.
LEMMA DecodeStep == IInv /\ Decode => IInv'
<1> SUFFICES ASSUME IInv, Decode PROVE IInv'
  OBVIOUS
<1>1. /\ UNCHANGED <<in_flight, sent, processed>> /\ pc = "decode"
      /\ rd' = [kind |-> "empty"]
  BY DEF Decode, network, Rest
<1>2. rd' \in Noise /\ rd' \in Datagrams
  BY <1>1 DEF Noise, Datagrams
<1>3. Types'
  BY <1>1, <1>2 DEF IInv, Types
<1>4. (Kept(rd) \/ Gives(rd)) /\ Faithful(by_id')
  BY DecodeEffect
<1>5. Whole'
  BY <1>1, <1>4 DEF IInv, Whole, Kept, Gives
<1>6. \A m : ~Pending(m)
  BY <1>1 DEF Pending
<1>7. ASSUME NEW id \in Ids, NEW e \in Of(id)
      PROVE  /\ e \in Datagrams \ Noise /\ rd' # e
             /\ \A m : Times(m)' = Times(m) /\ Times(m) \in Nat
             /\ in_flight'[e] = in_flight[e] /\ in_flight[e] \in Nat
  <2>1. e \in Datagrams \ Noise
    BY DatagramFacts
  <2>2. \A m : Times(m)' = Times(m) /\ Times(m) \in Nat
    BY <1>1 DEF IInv, Types, Times
  <2>3. in_flight[e] \in Nat
    BY <2>1 DEF IInv, Types
  <2> QED
    BY <1>1, <1>2, <2>1, <2>2, <2>3
<1>8. ASSUME NEW id \in Ids
      PROVE  Account(id)' /\ (id \notin sent' => Idle(id)')
  <2>1. ASSUME NEW e \in Of(id), Absent(e) PROVE Absent(e)'
    <3>1. ~HeldIn(by_id', e)
      BY <1>4, <1>7, <2>1 DEF Kept, Gives, Absent
    <3> QED
      BY <1>7, <2>1, <3>1 DEF Absent
  <2>2. ASSUME Idle(id), NEW m \in Forms(id)
        PROVE  ~Pending(m)' /\ m \notin DOMAIN processed'
    <3>1. ~Pending(m)'
      <4>1. SUFFICES ASSUME Pending(m)' PROVE FALSE
        OBVIOUS
      <4>2. Gives(rd) /\ out'.chunks = m
        BY <1>4, <4>1 DEF Pending, Kept
      <4>3. PICK j \in Ids : rd \in Of(j) /\ m \in Forms(j)
        BY <4>2 DEF Gives, Of
      <4>4. j = id
        BY <4>3, OneForm
      <4> QED
        BY <2>2, <4>3, <4>4 DEF Idle, Absent
    <3> QED
      BY <1>1, <2>2, <3>1 DEF Idle
  <2>3. ASSUME NEW D \in DatagramSets(id), Budget(id, D),
               NEW e \in D, NEW m \in Forms(id)
        PROVE  Load(e, m)' <= Copies[id]
    <3>1. e \in Of(id)
      BY DEF Of
    <3>2. Load(e, m) <= Copies[id] /\ Copies[id] \in Nat
      BY <2>3, ContentsAssumption DEF Budget
    <3>3. Load(e, m)' = in_flight[e] + One(HeldIn(by_id', e)) + One(Pending(m)')
                        + Times(m)
      BY <1>7, <3>1 DEF Load, One
    <3>4. Load(e, m) = in_flight[e] + One(rd = e) + One(HeldIn(by_id, e)) + Times(m)
      BY <1>6, <1>7, <3>1 DEF Load, One
    <3>5. CASE ~Pending(m)'
      <4>1. HeldIn(by_id', e) => HeldIn(by_id, e) \/ e = rd
        BY <1>4, <1>7, <3>1 DEF Kept, Gives
      <4>2. Load(e, m)' <= Load(e, m) /\ Load(e, m)' \in Nat /\ Load(e, m) \in Nat
        BY <1>7, <3>1, <3>3, <3>4, <3>5, <4>1 DEF One
      <4> QED
        BY <3>2, <4>2
    <3>6. CASE Pending(m)'
      <4>1. Gives(rd) /\ out'.chunks = m
        BY <1>4, <3>6 DEF Pending, Kept
      <4>2. PICK j \in Ids : \E E \in DatagramSets(j) :
              /\ rd \in E
              /\ m \in Forms(j)
              /\ \A x \in E \ {rd} : HeldIn(by_id, x) /\ ~HeldIn(by_id', x)
        BY <4>1 DEF Gives
      <4>3. PICK E \in DatagramSets(j) :
              /\ rd \in E
              /\ m \in Forms(j)
              /\ \A x \in E \ {rd} : HeldIn(by_id, x) /\ ~HeldIn(by_id', x)
        BY <4>2
      <4>4. j = id
        BY <4>3, OneForm
      <4>5. rd \in Of(id)
        BY <4>3, <4>4 DEF Of
      <4>6. rd \in D
        BY <2>3, <4>5 DEF Budget, Absent
      <4>7. D = E
        BY <4>3, <4>4, <4>6, OneWay
      <4>8. HeldIn(by_id', e) => HeldIn(by_id, e)
        BY <1>7, <3>1, <4>1 DEF Gives
      <4>9. e = rd \/ (HeldIn(by_id, e) /\ ~HeldIn(by_id', e))
        BY <4>3, <4>7
      <4>10. Load(e, m)' <= Load(e, m) /\ Load(e, m)' \in Nat /\ Load(e, m) \in Nat
        BY <1>7, <3>1, <3>3, <3>4, <4>8, <4>9 DEF One
      <4> QED
        BY <3>2, <4>10
    <3> QED
      BY <3>5, <3>6
  <2>4. ASSUME NEW D \in DatagramSets(id), Budget(id, D), NEW m \in Forms(id),
               Seen(m)'
        PROVE  m = Form(id, D)
    <3>1. CASE m \in DOMAIN processed
      BY <2>4, <3>1 DEF Budget, Seen
    <3>2. CASE Pending(m)'
      <4>1. Gives(rd) /\ out'.chunks = m
        BY <1>4, <3>2 DEF Pending, Kept
      <4>2. PICK j \in Ids : \E E \in DatagramSets(j) :
              rd \in E /\ m \in Forms(j) /\ m = Form(j, E)
        BY <4>1 DEF Gives
      <4>3. j = id
        BY <4>2, OneForm
      <4>4. PICK E \in DatagramSets(id) : rd \in E /\ m = Form(id, E)
        BY <4>2, <4>3
      <4>5. rd \in D
        BY <2>4, <4>4 DEF Budget, Absent, Of
      <4> QED
        BY <4>4, <4>5, OneWay
    <3> QED
      BY <1>1, <2>4, <3>1, <3>2 DEF Seen
  <2> QED
    BY <1>1, <2>1, <2>2, <2>3, <2>4, AccountStep
<1> QED
  BY <1>3, <1>4, <1>5, <1>8 DEF IInv, Accounts

\* process gets the message that came out, once.
LEMMA ProcessStep == IInv /\ Process => IInv'
<1> SUFFICES ASSUME IInv, Process PROVE IInv'
  OBVIOUS
<1> DEFINE p == out.chunks
<1>1. /\ UNCHANGED <<by_id, out, in_flight, sent, rd>>
      /\ pc = "process" /\ pc' = "decode"
      /\ processed' = BagAdd(processed, p)
  BY DEF Process, receiver, network
<1>2. processed \in [DOMAIN processed -> Nat]
  BY DEF IInv, Types
<1>3. /\ DOMAIN processed' = DOMAIN processed \cup {p}
      /\ processed' \in [DOMAIN processed' -> Nat]
  BY <1>1, <1>2 DEF BagAdd
<1>4. ASSUME NEW m PROVE Times(m)' = Times(m) + One(Pending(m))
  <2>1. CASE m = p
    BY <1>1, <1>2, <2>1 DEF Times, One, Pending, BagAdd
  <2>2. CASE m # p
    BY <1>1, <1>2, <2>2 DEF Times, One, Pending, BagAdd
  <2> QED
    BY <2>1, <2>2
<1>5. Types'
  BY <1>1, <1>3 DEF IInv, Types
<1>6. Faithful(by_id)' /\ Whole'
  BY <1>1, <1>3 DEF IInv, Faithful, Whole
<1>7. ASSUME NEW id \in Ids
      PROVE  Account(id)' /\ (id \notin sent' => Idle(id)')
  <2>1. \A e \in Of(id) : Absent(e) => Absent(e)'
    BY <1>1 DEF Absent, HeldIn
  <2>2. Idle(id) => \A m \in Forms(id) : ~Pending(m)' /\ m \notin DOMAIN processed'
    BY <1>1, <1>3 DEF Idle, Pending
  <2>3. ASSUME NEW D \in DatagramSets(id), Budget(id, D),
               NEW e \in D, NEW m \in Forms(id)
        PROVE  Load(e, m)' <= Copies[id]
    <3>1. e \in Datagrams
      BY DatagramFacts DEF Of
    <3>2. in_flight[e] \in Nat /\ Times(m) \in Nat
      BY <3>1, LoadType DEF IInv
    <3>3. ~Pending(m)' /\ (HeldIn(by_id, e)' <=> HeldIn(by_id, e)) /\ rd' = rd
          /\ in_flight' = in_flight
      BY <1>1 DEF Pending, HeldIn
    <3>4. Load(e, m)' = Load(e, m)
      <4>1. Times(m)' = Times(m) + One(Pending(m))
        BY <1>4
      <4> QED
        BY <3>2, <3>3, <4>1 DEF Load, One
    <3> QED
      BY <2>3, <3>4 DEF Budget
  <2>4. \A m : Seen(m)' => Seen(m)
    BY <1>1, <1>3 DEF Seen, Pending
  <2>5. \A D \in DatagramSets(id) : Budget(id, D) =>
          \A m \in Forms(id) : Seen(m)' => m = Form(id, D)
    BY <2>4 DEF Budget
  <2> QED
    BY <1>1, <2>1, <2>2, <2>3, <2>5, AccountStep
<1> QED
  BY <1>5, <1>6, <1>7 DEF IInv, Accounts

LEMMA NextIInv == IInv /\ [Next]_vars => IInv'
BY SendStep, RecvStep, QuietStep, DecodeStep, ProcessStep DEF Next, server

-----------------------------------------------------------------------------
(* The theorems.                                                           *)

\* Every state of the server on UDP satisfies the inductive invariant: it holds
\* before anything is sent, and every step of a client, of the network, of the
\* clock, of UdpFramed and its codec and of the select! loop preserves it.
THEOREM Inductive == Spec => []IInv
BY InitIInv, NextIInv, PTL DEF Spec

\* Whatever the network loses, repeats, reorders or makes up, process is only
\* given whole messages that clients sent.
THEOREM OnlyWhatWasSent == Spec => []ProcessedWasSent
<1>1. IInv => ProcessedWasSent
  <2> SUFFICES ASSUME IInv, NEW m \in DOMAIN processed
               PROVE  \E id \in sent : m \in Forms(id)
    BY DEF ProcessedWasSent
  <2>1. PICK id \in Ids : m \in Forms(id)
    BY DEF IInv, Whole
  <2>2. ~Idle(id)
    BY <2>1 DEF Idle
  <2>3. id \in sent
    BY <2>2 DEF IInv, Accounts
  <2> QED
    BY <2>1, <2>3
<1> QED
  BY <1>1, Inductive, PTL

\* The count of one message: of its two forms only one ever comes out.
LEMMA CountOf ==
  ASSUME IInv, NEW id \in Ids, NEW m \in Forms(id), Seen(m)
  PROVE  /\ delivered[id] = Times(m)
         /\ Times(m) + One(Pending(m)) <= Copies[id]
         /\ \A k \in Forms(id) : Seen(k) => k = m
         /\ id \in sent
<1>1. ~Idle(id)
  BY DEF Idle, Seen
<1>2. PICK D \in DatagramSets(id) : Budget(id, D)
  BY <1>1 DEF IInv, Accounts, Account
<1>3. \A k \in Forms(id) : Seen(k) => k = m
  BY <1>2 DEF Budget
<1>4. \A k \in Forms(id) : k # m => Times(k) = 0
  BY <1>3 DEF Seen, Times
<1>5. Times(m) \in Nat
  BY DEF IInv, Types, Times
<1>6. delivered[id] = Times(m)
  <2>1. Contents[id] \in Forms(id) /\ <<Undivided[id]>> \in Forms(id)
        /\ m \in {Contents[id], <<Undivided[id]>>}
    BY DEF Forms
  <2> QED
    BY <1>4, <1>5, <2>1 DEF delivered
<1>7. PICK d \in D : Load(d, m) <= Copies[id]
  BY <1>2 DEF Budget
<1>8. d \in Datagrams
  BY DatagramFacts DEF Of
<1>9. Times(m) + One(Pending(m)) <= Copies[id]
  <2>1. in_flight[d] \in Nat /\ Copies[id] \in Nat
    BY <1>8, LoadType, ContentsAssumption DEF IInv
  <2> QED
    BY <1>5, <1>7, <2>1 DEF Load, One
<1> QED
  BY <1>1, <1>3, <1>6, <1>9 DEF IInv, Accounts

\* process is one delivery of the message that came out.
LEMMA ProcessRefines ==
  ASSUME IInv, Process
  PROVE  \E id \in Ids : Service!Deliver(id)
<1>0. PICK p : p = out.chunks
  OBVIOUS
<1>1. PICK id \in Ids : p \in Forms(id)
  BY <1>0 DEF IInv, Whole, Process
<1>2. sent' = sent /\ pc = "process" /\ processed' = BagAdd(processed, p)
  BY <1>0 DEF Process, network
<1>3. Seen(p) /\ One(Pending(p)) = 1
  BY <1>0, <1>2 DEF Seen, Pending, One
<1>4. /\ delivered[id] = Times(p) /\ Times(p) + 1 <= Copies[id] /\ id \in sent
      /\ \A k \in Forms(id) : Seen(k) => k = p
  BY <1>1, <1>3, CountOf
<1>5. processed \in [DOMAIN processed -> Nat] /\ Times(p) \in Nat
  BY DEF IInv, Types, Times
<1>6. ASSUME NEW k
      PROVE  Times(k)' = IF k = p THEN Times(p) + 1 ELSE Times(k)
  <2>1. CASE k = p
    BY <1>2, <1>5, <2>1 DEF Times, BagAdd
  <2>2. CASE k # p
    BY <1>2, <1>5, <2>2 DEF Times, BagAdd
  <2> QED
    BY <2>1, <2>2
<1>7. ASSUME NEW j \in Ids
      PROVE  delivered'[j] = IF j = id THEN delivered[id] + 1 ELSE delivered[j]
  <2>1. CASE j = id
    <3>1. /\ \A k \in Forms(id) : k # p => Times(k) = 0
          /\ p \in {Contents[id], <<Undivided[id]>>}
          /\ Contents[id] \in Forms(id) /\ <<Undivided[id]>> \in Forms(id)
      BY <1>1, <1>4 DEF Seen, Times, Forms
    <3>2. Times(p)' = Times(p) + 1 /\ \A k \in Forms(id) \ {p} : Times(k)' = 0
      BY <1>6, <3>1
    <3>3. delivered'[id] = IF Contents[id] = <<Undivided[id]>> THEN Times(Contents[id])'
                           ELSE Times(Contents[id])' + Times(<<Undivided[id]>>)'
      BY DEF delivered
    <3>4. delivered'[id] = Times(p)'
      BY <1>5, <3>1, <3>2, <3>3
    <3> QED
      BY <1>4, <2>1, <3>2, <3>4
  <2>2. CASE j # id
    <3>1. p \notin Forms(j)
      BY <1>1, <2>2, OneForm
    <3>2. /\ Times(Contents[j])' = Times(Contents[j])
          /\ Times(<<Undivided[j]>>)' = Times(<<Undivided[j]>>)
      BY <1>6, <3>1 DEF Forms
    <3> QED
      BY <2>2, <3>2 DEF delivered
  <2> QED
    BY <2>1, <2>2
<1>8. delivered' = [delivered EXCEPT ![id] = @ + 1]
  <2>1. DOMAIN delivered = Ids /\ DOMAIN delivered' = Ids
    BY DEF delivered
  <2>2. delivered' = [j \in Ids |-> delivered'[j]]
    BY DEF delivered
  <2>3. [delivered EXCEPT ![id] = @ + 1] =
          [j \in Ids |-> IF j = id THEN delivered[id] + 1 ELSE delivered[j]]
    BY <2>1
  <2> QED
    BY <1>7, <2>2, <2>3
<1>9. delivered[id] < Copies[id]
  <2>1. Copies[id] \in Nat
    BY ContentsAssumption
  <2> QED
    BY <1>4, <1>5, <2>1
<1> QED
  BY <1>2, <1>4, <1>8, <1>9 DEF Service!Deliver

\* The server on UDP implements delivery at most once per copy: a client's
\* sending is the abstract one, process of a message that came out of the
\* receiver is one delivery of it, and every other step of the network, the
\* clock, the codec and the receiver is a stutter.
THEOREM Refinement == Spec => ImplementsDelivery
<1>1. Init => Service!Init
  <2> SUFFICES ASSUME Init PROVE Service!Init
    OBVIOUS
  <2>1. sent = {} /\ DOMAIN processed = {}
    BY DEF Init, G!EmptyMap
  <2>2. \A m : Times(m) = 0
    BY <2>1 DEF Times
  <2>3. delivered = [id \in Ids |-> 0]
    BY <2>2 DEF delivered
  <2> QED
    BY <2>1, <2>3 DEF Service!Init
<1>2. IInv /\ [Next]_vars => [Service!Next]_(Service!vars)
  <2> SUFFICES ASSUME IInv, [Next]_vars
               PROVE  Service!Next \/ UNCHANGED Service!vars
    OBVIOUS
  <2>1. processed' = processed => delivered' = delivered
    BY DEF delivered, Times
  <2>2. CASE \E id \in Ids : Send(id)
    BY <2>1, <2>2 DEF Send, Service!Send, Service!Next
  <2>3. CASE Process
    BY <2>3, ProcessRefines DEF Service!Next
  <2>4. CASE Tick \/ DecodeEmpty \/ Decode \/ UNCHANGED vars
             \/ \E d \in Datagrams : Recv(d)
    BY <2>1, <2>4 DEF Tick, DecodeEmpty, Decode, Recv, vars, network, Service!vars
  <2> QED
    BY <2>2, <2>3, <2>4 DEF Next, server
<1> QED
  BY <1>1, <1>2, Inductive, PTL DEF Spec, Service!Spec, ImplementsDelivery

-----------------------------------------------------------------------------
(* The receiver inside the server.  The server does to it what module Gelf *)
(* allows and nothing else, so all that is proved of Gelf holds here.      *)

GP == INSTANCE GelfProofs

\* What a datagram brings is within the types of the receiver: a client cuts a
\* message into no more chunks than a header can count.
LEMMA DatagramTypes ==
  ASSUME NEW d \in Datagrams
  PROVE  /\ d.kind = "plain" => d.body \in Bodies
         /\ d.kind = "chunk" => d.chunk \in GP!Chunk
<1>1. CASE d \in Noise
  <2>1. d.kind # "plain"
    BY <1>1 DEF Noise
  <2>2. ASSUME d.kind = "chunk" PROVE d.chunk \in GP!Chunk
    <3>1. PICK id \in Ids :
            d.chunk = [id |-> id, seq_num |-> 1, seq_count |-> 1, body |-> EmptyBody]
      BY <1>1, <2>2 DEF Noise
    <3>2. 1 \in 0..MaxByte /\ EmptyBody \in Bodies
      BY ReceiverAssumption DEF G!WidthAssumption, G!BodiesAssumption
    <3> QED
      BY <3>1, <3>2 DEF GP!Chunk
  <2> QED
    BY <2>1, <2>2
<1>2. CASE \E id \in Ids : d \in Of(id)
  <2>1. PICK id \in Ids : d \in Of(id)
    BY <1>2
  <2>2. d.kind = "plain" => d.body \in Bodies
    BY <2>1, DatagramFacts, ContentsAssumption
  <2>3. ASSUME d.kind = "chunk" PROVE d.chunk \in GP!Chunk
    <3>1. PICK i \in 1..Len(Contents[id]) : d = ChunkOf(id, i, Len(Contents[id]))
      BY <2>1, <2>3 DEF Of, DatagramSets, Plain
    <3>2. /\ Contents[id] \in Seq(Bodies)
          /\ MaxByte \in Nat /\ Len(Contents[id]) <= MaxByte
      BY ContentsAssumption, ReceiverAssumption DEF G!WidthAssumption
    <3>3. /\ Contents[id][i] \in Bodies
          /\ i - 1 \in 0..MaxByte /\ Len(Contents[id]) \in 0..MaxByte
      BY <3>2
    <3> QED
      BY <3>1, <3>3 DEF ChunkOf, GP!Chunk
  <2> QED
    BY <2>2, <2>3
<1> QED
  BY <1>1, <1>2, DatagramCases

\* Both name one receiver: what gc leaves, and each arm of decode.
LEMMA SameGc ==
  /\ G!gc_succeeds <=> GP!gc_succeeds
  /\ G!gc_overflow_by_id = GP!gc_overflow_by_id
  /\ G!gc_overflow_by_arrival = GP!gc_overflow_by_arrival
  /\ G!gc_by_id = GP!gc_by_id
  /\ G!gc_by_arrival = GP!gc_by_arrival
BY DEF G!gc_succeeds, GP!gc_succeeds, G!SinceEpoch, GP!SinceEpoch, G!gc_by_id,
       GP!gc_by_id, G!gc_by_arrival, GP!gc_by_arrival, G!gc_overflow_by_id,
       GP!gc_overflow_by_id, G!gc_overflow_by_arrival,
       GP!gc_overflow_by_arrival, G!to_remove, GP!to_remove, G!since, GP!since,
       G!Before, GP!Before, G!AtCapacity, GP!AtCapacity, G!Cardinality,
       GP!Cardinality, G!Without, GP!Without, G!EmptyMap, GP!EmptyMap

LEMMA SameChunked ==
  ASSUME NEW c, G!chunked(c)
  PROVE  GP!chunked(c)
<1>1. /\ G!Pushed(c) <=> GP!Pushed(c)
      /\ G!SameTotal(c) <=> GP!SameTotal(c)
      /\ G!Inserted(c) = GP!Inserted(c)
      /\ G!is_complete(c) <=> GP!is_complete(c)
  BY SameGc DEF G!Pushed, GP!Pushed, G!HeaderOk, GP!HeaderOk, G!IsOnlyChunk,
                GP!IsOnlyChunk, G!TooManyChunks, GP!TooManyChunks, G!SameTotal,
                GP!SameTotal, G!Inserted, GP!Inserted, G!is_complete,
                GP!is_complete, G!Put, GP!Put, G!Cardinality, GP!Cardinality
<1>2. CASE G!Rejected(c) \/ G!OnlyChunk(c)
  BY <1>2, SameGc DEF G!Rejected, GP!Rejected, G!OnlyChunk, GP!OnlyChunk,
                      G!Collected, GP!Collected, G!HeaderOk, GP!HeaderOk,
                      G!IsOnlyChunk, GP!IsOnlyChunk, G!TooManyChunks,
                      GP!TooManyChunks, G!Failed, GP!Failed, G!Single,
                      GP!Single, G!Nothing, GP!Nothing, GP!chunked
<1>3. CASE G!Open(c)
  BY <1>1, <1>3, SameGc DEF G!Open, GP!Open, G!Put, GP!Put, G!EmptyMap,
                            GP!EmptyMap, G!SinceEpoch, GP!SinceEpoch,
                            G!wrapping_add, GP!wrapping_add, G!Nothing,
                            GP!Nothing, GP!chunked
<1>4. CASE G!OpenFails(c) \/ G!Mismatch(c)
  BY <1>1, <1>4, SameGc DEF G!OpenFails, GP!OpenFails, G!Mismatch, GP!Mismatch,
                            G!Collected, GP!Collected, G!SinceEpoch,
                            GP!SinceEpoch, G!Failed, GP!Failed, GP!chunked
<1>5. CASE G!Add(c)
  BY <1>1, <1>5, SameGc DEF G!Add, GP!Add, G!Nothing, GP!Nothing, GP!chunked
<1>6. CASE G!Complete(c)
  BY <1>1, <1>6, SameGc DEF G!Complete, GP!Complete, G!Without, GP!Without,
                            G!Chunked, GP!Chunked, G!NthKey, GP!NthKey,
                            G!Cardinality, GP!Cardinality, GP!chunked
<1> QED
  BY <1>2, <1>3, <1>4, <1>5, <1>6 DEF G!chunked

\* Every step of the server is a step of the receiver or leaves it alone.
LEMMA StepInside == IInv /\ [Next]_vars => [GP!Next]_(GP!vars)
<1> SUFFICES ASSUME IInv, [Next]_vars PROVE GP!Next \/ UNCHANGED GP!vars
  OBVIOUS
<1>1. CASE Tick
  BY <1>1 DEF Tick, G!Tick, GP!Tick, GP!Next
<1>2. CASE Decode
  <2>1. receive(rd) /\ rd \in Datagrams
    BY <1>2 DEF Decode, IInv, Types
  <2>2. CASE rd.kind = "plain" /\ G!Unchunked(rd.body)
    <3>1. rd.body \in Bodies /\ GP!Unchunked(rd.body)
      BY <2>1, <2>2, DatagramTypes DEF G!Unchunked, GP!Unchunked, G!Single,
         GP!Single, G!Nothing, GP!Nothing
    <3> QED
      BY <3>1 DEF GP!decode, GP!Next
  <2>3. CASE G!GcFails \/ G!Truncated
    BY <2>3, SameGc DEF G!GcFails, GP!GcFails, G!Truncated, GP!Truncated,
       G!Collected, GP!Collected, G!Failed, GP!Failed, GP!decode, GP!Next
  <2>4. CASE rd.kind = "chunk" /\ G!chunked(rd.chunk)
    <3>1. rd.chunk \in GP!Chunk /\ GP!chunked(rd.chunk)
      BY <2>1, <2>4, DatagramTypes, SameChunked
    <3> QED
      BY <3>1 DEF GP!decode, GP!Next
  <2> QED
    BY <2>1, <2>2, <2>3, <2>4 DEF receive
<1>3. CASE DecodeEmpty \/ Process \/ UNCHANGED vars
  BY <1>3 DEF DecodeEmpty, Process, vars, receiver, GP!vars
<1>4. CASE \E id \in Ids : Send(id)
  BY <1>4 DEF Send, receiver, GP!vars
<1>5. CASE \E d \in Datagrams : Recv(d)
  BY <1>5 DEF Recv, receiver, GP!vars
<1> QED
  BY <1>1, <1>2, <1>3, <1>4, <1>5 DEF Next, server

\* What the server on UDP does to its receiver is a behaviour of Gelf: the
\* codec calls decode with datagrams that are within the types of a header,
\* one whole call at a time, and nothing else touches the receiver's maps.
THEOREM ReceiverIsGelf == Spec => GP!Spec
<1>1. Init => GP!Init
  BY DEF Init, G!Init, GP!Init, G!EmptyMap, GP!EmptyMap
<1> QED
  BY <1>1, Inductive, StepInside, PTL DEF Spec, GP!Spec

\* So the receiver keeps inside the server what it promises alone, whatever
\* clients send and the network does with it: its indexes agree, it holds
\* incomplete messages only and within its capacity, a timeout runs from the
\* first chunk, messages leave for a cause, nothing late joins, and it
\* implements the lossy reassembly buffer.
THEOREM ReceiverKeepsItsPromises ==
  Spec => /\ [](GP!IndexesAgree /\ GP!StoredIncomplete /\ GP!CapacityBound)
          /\ GP!TimeoutFromFirstChunk
          /\ GP!LeavesForCause
          /\ GP!NoLateJoin
          /\ GP!ImplementsReassembly
<1>1. /\ G!BodiesAssumption /\ G!WidthAssumption /\ G!ConfigAssumption
      /\ G!TimeAssumption /\ G!BoundAssumption
  BY ReceiverAssumption
<1> USE <1>1 DEF G!BodiesAssumption, G!WidthAssumption, G!ConfigAssumption,
                G!TimeAssumption, G!BoundAssumption
<1>2. GP!Spec => []GP!IndexesAgree
  BY GP!IndexesAlwaysAgree
<1>3. GP!Spec => []GP!StoredIncomplete
  BY GP!StoredIsIncomplete
<1>4. GP!Spec => []GP!CapacityBound
  BY GP!CapacityRespected
<1>5. GP!Spec => GP!TimeoutFromFirstChunk
  BY GP!DeadlineNeverMoves
<1>6. GP!Spec => GP!LeavesForCause
  BY GP!NothingLeavesWithoutCause
<1>7. GP!Spec => GP!NoLateJoin
  BY GP!LateChunksNeverJoin
<1>8. GP!Spec => GP!ImplementsReassembly
  BY GP!Refinement
<1> QED
  BY <1>2, <1>3, <1>4, <1>5, <1>6, <1>7, <1>8, ReceiverIsGelf, PTL

-----------------------------------------------------------------------------
(* Nothing vanishes: the safety half of EveryMessageProcessed.             *)

\* No datagram was lost, the clock stands at t, and the receiver has room.
Calm(t) == ~lost /\ now = t /\ G!gc_succeeds /\ ~G!AtCapacity

\* No client divides a message into more chunks than the receiver accepts.
Fits == \A id \in Ids : Len(Contents[id]) <= max_chunks_per_message

Somewhere(d) == in_flight[d] > 0 \/ rd = d \/ HeldIn(by_id, d)

CameOut(id) == \E m \in Forms(id) : Seen(m)

\* What was sent has come out, or each datagram of one of the ways to send it
\* is in the network, in the read buffer or in the receiver.
Conserved ==
  \A id \in sent :
    CameOut(id) \/ \E D \in DatagramSets(id) : \A d \in D : Somewhere(d)

Stamped(t) == \A id \in DOMAIN by_id : by_id[id].ts[1] = t

\* UdpFramed does not read over what is in its buffer.
Drained == pc = "recv" => rd.kind = "empty"

Saved(t) == Conserved /\ Stamped(t) /\ Drained

\* In a calm gc removes nothing: no timestamp is before the deadline.
LEMMA GcIdle ==
  ASSUME GP!IInv, NEW t, Calm(t), Stamped(t)
  PROVE  G!gc_by_id = by_id
<1>1. /\ by_id = [id \in DOMAIN by_id |-> by_id[id]]
      /\ \A ts \in DOMAIN by_arrival :
           /\ ts \in Nat \X Nat
           /\ by_arrival[ts] \in DOMAIN by_id
           /\ by_id[by_arrival[ts]].ts = ts
      /\ now \in Time
  BY DEF GP!IInv, GP!Good, GP!Typed, GP!Agree
<1>2. now \in Int /\ incomplete_timeout_ms \in Nat
  BY <1>1, ReceiverAssumption DEF G!TimeAssumption, G!ConfigAssumption
<1>3. /\ G!gc_overflow_by_id = by_id
      /\ G!gc_overflow_by_arrival = by_arrival
  BY DEF Calm, G!gc_overflow_by_id, G!gc_overflow_by_arrival
<1>4. ASSUME NEW ts \in DOMAIN by_arrival PROVE ~G!Before(ts, G!since(now))
  <2>1. ts[1] = now /\ ts[2] \in Nat
    BY <1>1 DEF Calm, Stamped
  <2> QED
    BY <1>2, <2>1 DEF G!Before, G!since
<1>5. G!to_remove = {}
  BY <1>3, <1>4 DEF G!to_remove
<1>6. {G!gc_overflow_by_arrival[ts] : ts \in G!to_remove} = {}
  BY <1>5
<1> QED
  BY <1>1, <1>3, <1>6 DEF G!gc_by_id, G!Without

\* The chunks of a message that was given out came out with it.
LEMMA GivenCameOut ==
  ASSUME NEW id \in Ids, pc' = "process", out'.chunks \in Forms(id)
  PROVE  CameOut(id)'
BY DEF CameOut, Seen, Pending

\* The datagram that decode takes stays held or comes out, and so does what
\* was held.
Keeps ==
  \A id \in Ids : \A e \in Of(id) :
    rd = e \/ HeldIn(by_id, e) => HeldIn(by_id', e) \/ CameOut(id)'

\* A chunk of a message, in a calm: it is not refused, its message is opened,
\* grows or is given out.
LEMMA ChunkKeeps ==
  ASSUME IInv, GP!IInv, Fits, NEW t, Calm(t), Calm(t)', Stamped(t),
         NEW id \in Ids, rd \in Of(id), rd.kind = "chunk",
         G!chunked(rd.chunk), pc' = into_received(out')
  PROVE  Stamped(t)' /\ Keeps
<1> DEFINE c == rd.chunk
           n == Len(Contents[id])
<1>1. /\ c.id = id /\ c.seq_count = n /\ c.seq_num \in 0..(n - 1)
      /\ n \in Nat
  BY DatagramFacts, ContentsAssumption
<1>2. G!gc_by_id = by_id
  BY GcIdle
<1>3. now = t /\ now' = t
  BY DEF Calm
<1>4. \A j \in Ids : \A e \in Of(j) :
        (e.kind = "chunk" => e.chunk.id = j) /\ (rd = e => j = id)
  BY DatagramFacts, OneOwner
<1>5. CASE G!Rejected(c)
  <2>1. max_chunks_per_message \in Nat /\ n <= max_chunks_per_message
    BY ReceiverAssumption DEF G!ConfigAssumption, G!WidthAssumption, Fits
  <2>2. G!HeaderOk(c) /\ ~G!TooManyChunks(c)
    BY <1>1, <2>1 DEF G!HeaderOk, G!TooManyChunks
  <2> QED
    BY <1>5, <2>2 DEF G!Rejected
<1>6. CASE G!OpenFails(c)
  <2>1. t \in Int /\ incomplete_timeout_ms \in Nat
    BY <1>3, ReceiverAssumption DEF GP!IInv, G!TimeAssumption, G!ConfigAssumption
  <2>2. t - incomplete_timeout_ms >= 0
    BY <1>3 DEF Calm, G!gc_succeeds, G!SinceEpoch
  <2>3. G!SinceEpoch(now')
    BY <1>3, <2>1, <2>2 DEF G!SinceEpoch
  <2> QED
    BY <1>6, <2>3 DEF G!OpenFails
<1>7. CASE G!Mismatch(c)
  <2>1. id \in DOMAIN by_id /\ by_id[id].expected_total # n
    BY <1>1, <1>2, <1>7 DEF G!Mismatch, G!SameTotal
  <2>2. by_id[id].expected_total = n
    BY <2>1 DEF IInv, Faithful
  <2> QED
    BY <2>1, <2>2
<1>8. CASE G!OnlyChunk(c)
  <2>1. /\ by_id' = by_id /\ out' = G!Single(c.body)
        /\ c.seq_num = 0 /\ n = 1 /\ c.body = Contents[id][1]
    <3>1. c.body = Contents[id][c.seq_num + 1]
      BY DatagramFacts
    <3>2. /\ by_id' = by_id /\ out' = G!Single(c.body)
          /\ c.seq_num = 0 /\ n = 1
      BY <1>1, <1>2, <1>8 DEF G!OnlyChunk, G!Collected, G!IsOnlyChunk
    <3> QED
      BY <3>1, <3>2
  <2>2. Contents[id] \in Seq(Bodies \ {EmptyBody})
    BY ContentsAssumption
  <2>3. c.body # EmptyBody /\ <<c.body>> = Contents[id]
    BY <2>1, <2>2
  <2>4. pc' = "process" /\ out'.chunks \in Forms(id)
    BY <2>1, <2>3 DEF into_received, G!Single, Forms
  <2> QED
    BY <1>4, <2>1, <2>4, GivenCameOut DEF Keeps, Stamped, HeldIn
<1>9. CASE G!Open(c)
  <2>1. id \notin DOMAIN by_id
    BY <1>1, <1>2, <1>9 DEF G!Open
  <2>2. by_id' = G!Put(by_id, id, [expected_total |-> n,
                                   inner |-> G!Put(G!EmptyMap, c.seq_num, c.body),
                                   ts |-> <<now', counter>>])
    BY <1>1, <1>2, <1>9 DEF G!Open
  <2>3. c.seq_num \in DOMAIN G!Put(G!EmptyMap, c.seq_num, c.body)
    BY DEF G!Put
  <2>4. /\ DOMAIN by_id' = DOMAIN by_id \cup {id}
        /\ \A j \in DOMAIN by_id : by_id'[j] = by_id[j]
        /\ by_id'[id].ts = <<now', counter>>
        /\ c.seq_num \in DOMAIN by_id'[id].inner
    BY <2>1, <2>2, <2>3 DEF G!Put
  <2>5. Stamped(t)'
    BY <1>3, <2>4 DEF Stamped
  <2>6. HeldIn(by_id', rd)
    BY <1>1, <2>4 DEF HeldIn
  <2>7. \A e : HeldIn(by_id, e) => HeldIn(by_id', e)
    BY <2>4 DEF HeldIn
  <2> QED
    BY <2>5, <2>6, <2>7 DEF Keeps
<1>10. CASE G!Add(c)
  <2>1. id \in DOMAIN by_id /\ by_id' = [by_id EXCEPT ![id].inner = G!Inserted(c)]
    BY <1>1, <1>2, <1>10 DEF G!Add
  <2>2. DOMAIN G!Inserted(c) = DOMAIN by_id[id].inner \cup {c.seq_num}
    BY <1>1, <1>2 DEF G!Inserted, G!Put
  <2>3. by_id[id] = [expected_total |-> n, inner |-> by_id[id].inner,
                     ts |-> by_id[id].ts]
    BY <2>1 DEF IInv, Faithful
  <2>4. by_id'[id] = [by_id[id] EXCEPT !.inner = G!Inserted(c)]
    BY <2>1
  <2>5. by_id'[id].inner = G!Inserted(c) /\ by_id'[id].ts = by_id[id].ts
    BY <2>3, <2>4
  <2>6. /\ DOMAIN by_id' = DOMAIN by_id
        /\ \A j \in DOMAIN by_id \ {id} : by_id'[j] = by_id[j]
    BY <2>1
  <2>7. Stamped(t)'
    BY <2>5, <2>6 DEF Stamped
  <2>8. HeldIn(by_id', rd)
    BY <1>1, <2>1, <2>2, <2>5, <2>6 DEF HeldIn
  <2>9. \A e : HeldIn(by_id, e) => HeldIn(by_id', e)
    BY <2>2, <2>5, <2>6 DEF HeldIn
  <2> QED
    BY <2>7, <2>8, <2>9 DEF Keeps
<1>11. CASE G!Complete(c)
  <2>1. by_id' = G!Without(by_id, {id})
    BY <1>1, <1>2, <1>11 DEF G!Complete
  <2>2. /\ DOMAIN by_id' = DOMAIN by_id \ {id}
        /\ \A j \in DOMAIN by_id' : by_id'[j] = by_id[j]
    BY <2>1 DEF G!Without
  <2>3. pc' = "process" /\ \E j \in Ids : rd \in Of(j) /\ out'.chunks \in Forms(j)
    BY <1>11, CompleteEffect DEF Gives, Of
  <2>4. CameOut(id)'
    BY <2>3, OneOwner, GivenCameOut
  <2>5. \A j \in Ids \ {id} : \A e \in Of(j) :
          HeldIn(by_id, e) => HeldIn(by_id', e)
    BY <1>4, <2>2 DEF HeldIn
  <2>6. Stamped(t)'
    BY <2>2 DEF Stamped
  <2> QED
    BY <1>4, <2>4, <2>5, <2>6 DEF Keeps
<1> QED
  BY <1>5, <1>6, <1>7, <1>8, <1>9, <1>10, <1>11 DEF G!chunked

LEMMA DecodeKeeps ==
  ASSUME IInv, GP!IInv, Fits, NEW t, Calm(t), Calm(t)', Stamped(t), Decode
  PROVE  Stamped(t)' /\ Keeps
<1>1. pc' = into_received(out') /\ receive(rd) /\ rd \in Datagrams
  BY DEF Decode, IInv, Types
<1>2. G!gc_succeeds /\ G!gc_by_id = by_id
  BY GcIdle DEF Calm
<1>3. CASE rd \in Noise
  <2>1. rd.kind # "plain"
    BY <1>3 DEF Noise
  <2>2. G!Truncated \/ (rd.kind = "chunk" /\ G!chunked(rd.chunk))
    BY <1>1, <1>2, <2>1 DEF receive, G!GcFails
  <2>3. CASE rd.kind = "chunk" /\ G!chunked(rd.chunk)
    <3>1. ~G!HeaderOk(rd.chunk)
      BY <1>3, <2>3 DEF Noise, G!HeaderOk
    <3>2. G!Rejected(rd.chunk)
      BY <2>3, <3>1 DEF G!chunked, G!OnlyChunk, G!Open, G!OpenFails, G!Mismatch,
                        G!Add, G!Complete, G!Pushed
    <3> QED
      BY <1>2, <1>3, <3>2, DatagramFacts
         DEF G!Rejected, G!Collected, Keeps, Stamped, HeldIn
  <2>4. CASE G!Truncated
    BY <1>2, <1>3, <2>4, DatagramFacts
       DEF G!Truncated, G!Collected, Keeps, Stamped, HeldIn
  <2> QED
    BY <2>2, <2>3, <2>4
<1>4. CASE \E id \in Ids : rd \in Of(id)
  <2>1. PICK id \in Ids : rd \in Of(id)
    BY <1>4
  <2>2. CASE rd.kind = "chunk"
    <3>1. G!chunked(rd.chunk)
      BY <1>1, <1>2, <2>2 DEF receive, G!GcFails
    <3> QED
      BY <1>1, <2>1, <2>2, <3>1, ChunkKeeps
  <2>3. CASE rd.kind = "plain"
    <3>1. G!Unchunked(rd.body)
      BY <1>1, <2>3 DEF receive
    <3>2. rd.body = Undivided[id] /\ Undivided[id] # EmptyBody
      BY <2>1, <2>3, DatagramFacts, ContentsAssumption
    <3>3. by_id' = by_id /\ out' = [tag |-> "single", chunks |-> <<Undivided[id]>>]
      BY <3>1, <3>2 DEF G!Unchunked, G!Single
    <3>4. pc' = "process" /\ out'.chunks \in Forms(id)
      BY <1>1, <3>3 DEF into_received, Forms
    <3>5. CameOut(id)'
      BY <3>4, GivenCameOut
    <3> QED
      BY <2>1, <3>3, <3>5, OneOwner DEF Keeps, Stamped, HeldIn
  <2> QED
    BY <2>1, <2>2, <2>3, DatagramFacts
<1> QED
  BY <1>1, <1>3, <1>4, DatagramCases

\* A step that leaves each datagram somewhere, or brings its message out.
LEMMA ConservedStep ==
  ASSUME Conserved, sent \subseteq Ids, sent' = sent,
         \A id \in Ids : CameOut(id) => CameOut(id)',
         \A id \in Ids : \A e \in Of(id) :
           Somewhere(e) => Somewhere(e)' \/ CameOut(id)'
  PROVE  Conserved'
<1> SUFFICES ASSUME NEW id \in sent, ~CameOut(id)'
             PROVE  \E D \in DatagramSets(id) : \A d \in D : Somewhere(d)'
  BY DEF Conserved
<1>1. PICK D \in DatagramSets(id) : \A d \in D : Somewhere(d)
  BY DEF Conserved
<1>2. \A d \in D : d \in Of(id)
  BY DEF Of
<1> QED
  BY <1>1, <1>2

\* In a calm every step leaves what was sent in its place or moves it on.
LEMMA SavedStep ==
  ASSUME IInv, GP!IInv, Fits, NEW CONSTANT t, Calm(t), Calm(t)', Saved(t),
         [Next]_vars
  PROVE  Saved(t)'
<1>1. sent \subseteq Ids /\ in_flight \in [Datagrams -> Nat]
  BY DEF IInv, Types
<1>2. CASE \E i \in Ids : Send(i)
  <2>1. PICK i \in Ids : Send(i)
    BY <1>2
  <2>2. /\ sent' = sent \cup {i}
        /\ UNCHANGED <<by_id, out, rd, pc, processed>>
    BY <2>1 DEF Send, receiver
  <2>3. PICK D \in DatagramSets(i) : \E copies \in [D -> 0..Copies[i]] :
          /\ in_flight' = [d \in Datagrams |->
                             IF d \in D THEN copies[d] ELSE in_flight[d]]
          /\ lost' = (lost \/ \E d \in D : copies[d] = 0)
    BY <2>1 DEF Send
  <2>4. PICK copies \in [D -> 0..Copies[i]] :
          /\ in_flight' = [d \in Datagrams |->
                             IF d \in D THEN copies[d] ELSE in_flight[d]]
          /\ lost' = (lost \/ \E d \in D : copies[d] = 0)
    BY <2>3
  <2>5. \A d \in D : d \in Of(i) /\ d \in Datagrams
    BY DatagramFacts DEF Of
  <2>6. \A d \in D : in_flight'[d] > 0
    <3>1. \A d \in D : copies[d] # 0
      BY <2>4 DEF Calm
    <3>2. Copies[i] \in Nat
      BY ContentsAssumption
    <3> QED
      BY <2>4, <2>5, <3>1, <3>2
  <2>7. \A m : Seen(m) => Seen(m)'
    BY <2>2 DEF Seen, Pending
  <2>8. ASSUME NEW id \in sent, id # i
        PROVE  CameOut(id)' \/ \E E \in DatagramSets(id) : \A d \in E : Somewhere(d)'
    <3>1. CASE CameOut(id)
      BY <2>7, <3>1 DEF CameOut
    <3>2. CASE \E E \in DatagramSets(id) : \A d \in E : Somewhere(d)
      <4>1. PICK E \in DatagramSets(id) : \A d \in E : Somewhere(d)
        BY <3>2
      <4>2. ASSUME NEW d \in E PROVE Somewhere(d)'
        <5>1. d \in Of(id) /\ d \in Datagrams
          BY <1>1, DatagramFacts DEF Of
        <5>2. d \notin D
          BY <1>1, <2>5, <2>8, <5>1, OneOwner
        <5>3. in_flight'[d] = in_flight[d]
          BY <2>4, <5>1, <5>2
        <5> QED
          BY <2>2, <4>1, <5>3 DEF Somewhere, HeldIn
      <4> QED
        BY <4>2
    <3> QED
      BY <3>1, <3>2 DEF Saved, Conserved
  <2>9. \A d \in D : Somewhere(d)'
    BY <2>6 DEF Somewhere
  <2>10. Conserved'
    BY <2>2, <2>8, <2>9 DEF Conserved
  <2> QED
    BY <2>2, <2>10 DEF Saved, Stamped, Drained
<1>3. CASE \E d \in Datagrams : Recv(d)
  <2>1. PICK d \in Datagrams : Recv(d)
    BY <1>3
  <2>2. /\ UNCHANGED <<by_id, out, sent, processed>>
        /\ pc = "recv" /\ pc' = "decode" /\ rd' = d
        /\ in_flight' = [in_flight EXCEPT ![d] = IF d \in Noise THEN @ ELSE @ - 1]
    BY <2>1 DEF Recv, receiver
  <2>3. \A id \in Ids : CameOut(id) => CameOut(id)'
    BY <2>2 DEF CameOut, Seen, Pending
  <2>4. ASSUME NEW id \in Ids, NEW e \in Of(id), Somewhere(e)
        PROVE  Somewhere(e)'
    <3>1. e \in Datagrams /\ e.kind # "empty"
      BY DatagramFacts
    <3>2. rd # e
      BY <2>2, <3>1 DEF Saved, Drained
    <3>3. e # d => in_flight'[e] = in_flight[e]
      BY <1>1, <2>2, <3>1
    <3> QED
      BY <2>2, <2>4, <3>2, <3>3 DEF Somewhere, HeldIn
  <2>5. Conserved'
    BY <1>1, <2>2, <2>3, <2>4, ConservedStep DEF Saved
  <2> QED
    BY <2>2, <2>5 DEF Saved, Stamped, Drained
<1>4. CASE Tick
  BY <1>4 DEF Tick, G!Tick, Calm
<1>5. CASE DecodeEmpty \/ UNCHANGED vars
  <2>1. /\ UNCHANGED <<by_id, out, sent, processed, in_flight, rd>>
        /\ pc' = pc \/ (pc = "decode" /\ pc' = "recv" /\ rd.kind = "empty")
    BY <1>5 DEF DecodeEmpty, receiver, network, vars
  <2>2. \A id \in Ids : CameOut(id) => CameOut(id)'
    BY <2>1 DEF CameOut, Seen, Pending
  <2>3. \A e : Somewhere(e) => Somewhere(e)'
    BY <2>1 DEF Somewhere, HeldIn
  <2>4. Conserved'
    BY <1>1, <2>1, <2>2, <2>3, ConservedStep DEF Saved
  <2> QED
    BY <2>1, <2>4 DEF Saved, Stamped, Drained
<1>6. CASE Decode
  <2>1. UNCHANGED <<in_flight, sent, processed>> /\ pc = "decode" /\ pc' # "recv"
    BY <1>6 DEF Decode, network, into_received
  <2>2. \A id \in Ids : CameOut(id) => CameOut(id)'
    BY <2>1 DEF CameOut, Seen, Pending
  <2>3. Stamped(t)' /\ Keeps
    BY <1>6, DecodeKeeps DEF Saved
  <2>4. ASSUME NEW id \in Ids, NEW e \in Of(id), Somewhere(e)
        PROVE  Somewhere(e)' \/ CameOut(id)'
    BY <2>1, <2>3, <2>4 DEF Somewhere, Keeps
  <2>5. Conserved'
    BY <1>1, <2>1, <2>2, <2>4, ConservedStep DEF Saved
  <2> QED
    BY <2>1, <2>3, <2>5 DEF Saved, Drained
<1>7. CASE Process
  <2>1. /\ UNCHANGED <<by_id, out, sent, in_flight, rd>> /\ pc' = "decode"
        /\ processed' = BagAdd(processed, out.chunks)
    BY <1>7 DEF Process, receiver, network
  <2>2. DOMAIN processed' = DOMAIN processed \cup {out.chunks}
    BY <2>1 DEF BagAdd
  <2>3. \A id \in Ids : CameOut(id) => CameOut(id)'
    BY <2>2 DEF CameOut, Seen, Pending
  <2>4. \A e : Somewhere(e) => Somewhere(e)'
    BY <2>1 DEF Somewhere, HeldIn
  <2>5. Conserved'
    BY <1>1, <2>1, <2>3, <2>4, ConservedStep DEF Saved
  <2> QED
    BY <2>1, <2>5 DEF Saved, Stamped, Drained
<1> QED
  BY <1>2, <1>3, <1>4, <1>5, <1>6, <1>7 DEF Next, server

\* Nothing is dropped without a cause: as long as no datagram is lost, the
\* clock does not move and the receiver does not overflow, all of a message
\* that was sent is in the network, in the read buffer of UdpFramed or in the
\* receiver until the message comes out, whatever else arrives between.  That
\* it does come out is the liveness property EveryMessageProcessed.
THEOREM NothingVanishes ==
  ASSUME Fits, NEW CONSTANT t
  PROVE  Spec /\ []Calm(t) => []Conserved
<1>1. Init => Saved(t)
  <2> SUFFICES ASSUME Init PROVE Saved(t)
    OBVIOUS
  <2>1. sent = {} /\ DOMAIN by_id = {} /\ rd.kind = "empty"
    BY DEF Init, G!Init, G!EmptyMap
  <2> QED
    BY <2>1 DEF Saved, Conserved, Stamped, Drained
<1>2. IInv /\ GP!IInv /\ Calm(t) /\ Calm(t)' /\ Saved(t) /\ [Next]_vars => Saved(t)'
  BY SavedStep
<1>3. /\ G!BodiesAssumption /\ G!WidthAssumption /\ G!ConfigAssumption
      /\ G!TimeAssumption /\ G!BoundAssumption
  BY ReceiverAssumption
<1>4. GP!Spec => []GP!IInv
  BY <1>3, GP!Invariance DEF G!BodiesAssumption, G!WidthAssumption,
     G!ConfigAssumption, G!TimeAssumption, G!BoundAssumption
<1>5. Saved(t) => Conserved
  BY DEF Saved
<1> QED
  BY <1>1, <1>2, <1>4, <1>5, ReceiverIsGelf, Inductive, PTL DEF Spec
=============================================================================
