----------------------------- MODULE ToClefProofs -----------------------------
(***************************************************************************)
(* Proofs about ToClef, for any fields of the embedded JSON, any keys of   *)
(* the payload and any built-in fields: what the map of fields holds under *)
(* each name while the three sources are merged into it.                   *)
(***************************************************************************)
EXTENDS ToClef, TLAPS

\* The provers know no string to be in STRING, so the built-in names, which
\* are, are named once more.
Base == STRING \cup Builtins

Name == Nat \X Base

\* What has been merged so far of what was supplied for a name.
MergedOf(names, keys, builtins, n) ==
  {Value("embedded", n) : e \in names \cap {n}}
    \cup {Value("payload", k) : k \in {j \in keys : Stripped(j) = n}}
    \cup {Value("envelope", <<0, b>>) : b \in {c \in builtins : <<0, c>> = n}}

Merged(n) == MergedOf(embedded, given[1] \ payload, given[2] \ envelope, n)

\* The name a value under n had before it was moved i times.
Origin(n, i) == <<n[1] - 2 * i, n[2]>>

Inputs ==
  /\ embedded \subseteq EmbeddedNames
  /\ usable \subseteq embedded
  /\ given[1] \subseteq PayloadKeys /\ payload \subseteq given[1]
  /\ given[2] \subseteq Builtins /\ envelope \subseteq given[2]
  /\ payload # {} => envelope = given[2]
  /\ pc \in {"meta", "merge", "done"}
  /\ pc = "meta" => payload = given[1] /\ envelope = given[2]
  /\ pc = "done" => payload = {} /\ envelope = {}
  /\ \A e \in fields : as_ref(e.key) \in Name

\* A value is under a name it was supplied for, or has been moved from it; when
\* '_' sorts before the base, at most once, and by then no key of the payload is
\* left that strips to the prefixed name, so it is not moved again.
MovedFrom(n, v, i) ==
  /\ 2 * i <= n[1]
  /\ v \in Merged(Origin(n, i))
  /\ n[2] \notin LowBases =>
       i = 0 \/ (i = 1 /\ \A j \in payload : j[2] = n[2] => j[1] < n[1])

Sources == \A n \in Name : \A v \in Written(n) : \E i \in Nat : MovedFrom(n, v, i)

\* The map has no name twice.
OneEntry == \A e, f \in fields : as_ref(e.key) = as_ref(f.key) => e = f

\* Under a name that is no prefixed name is the last value merged.
Winner ==
  \A n \in Name : n[1] < 2 =>
    /\ Merged(n) # {} => Written(n) # {}
    /\ \A v \in Written(n), w \in Merged(n) : Rank[w.source] <= Rank[v.source]

\* The value it replaced is under the prefixed name.
Kept ==
  \A n \in Name : n[1] < 2 /\ Prefixed(n) \notin SuppliedNames =>
    /\ Written(Prefixed(n)) = {} => Merged(n) \subseteq Written(n)
    /\ Written(Prefixed(n)) \subseteq Merged(n)
    /\ Written(n) \cap Written(Prefixed(n)) = {}

\* Before the merge the fields are the embedded ones, and metas are resolved
\* from them alone.
EmbeddedOnly == pc = "meta" => \A n : Written(n) = Merged(n)

MetaFrom ==
  /\ meta \in [Metas -> {"unset", "clef", "embedded", "gelf", "none"}]
  /\ pc # "meta" =>
       \A m \in Metas :
         LET names == {i \in 1..Len(Alternatives[m]) :
                         <<0, Alternatives[m][i]>> \in embedded}
         IN  /\ m \in own => meta[m] = "clef"
             /\ \A i \in names :
                  (/\ m \notin own
                   /\ \A j \in names : i <= j
                   /\ <<0, Alternatives[m][i]>> \in usable) => meta[m] = "embedded"

\* The inductive invariant.
IInv ==
  /\ Inputs
  /\ OneEntry
  /\ Sources
  /\ Winner
  /\ Kept
  /\ EmbeddedOnly
  /\ MetaFrom

-----------------------------------------------------------------------------
(* The map of fields, seen as the values it holds under each name.         *)

Unique(es) == \A e, f \in es : as_ref(e.key) = as_ref(f.key) => e = f

Vals(es, n) == {e.value : e \in {f \in es : as_ref(f.key) = n}}

\* HashMap::get finds the fields whose keys have the same text.
LEMMA GetFacts ==
  ASSUME NEW es, NEW k
  PROVE  /\ get(es, k) = {e \in es : as_ref(e.key) = as_ref(k)}
         /\ get(es, k) = {} <=> Vals(es, as_ref(k)) = {}
<1>1. get(es, k) = {e \in es : as_ref(e.key) = as_ref(k)}
  BY DEF get, hash, eq
<1> QED
  BY <1>1 DEF Vals

\* HashMap::insert replaces the value under a name or adds one.
LEMMA InsertFacts ==
  ASSUME NEW es, Unique(es), NEW k, NEW v
  PROVE  /\ Unique(insert(es, k, v))
         /\ Vals(insert(es, k, v), as_ref(k)) = {v}
         /\ \A n : n # as_ref(k) => Vals(insert(es, k, v), n) = Vals(es, n)
         /\ \A e \in insert(es, k, v) :
              as_ref(e.key) = as_ref(k)
              \/ \E f \in es : as_ref(e.key) = as_ref(f.key)
<1> DEFINE old == {e \in es : as_ref(e.key) = as_ref(k)}
           new == insert(es, k, v)
<1>1. new = IF old = {} THEN es \cup {Entry(k, v)}
            ELSE (es \ old) \cup {Entry(e.key, v) : e \in old}
  BY GetFacts DEF insert
<1>2. \A j : Entry(j, v).key = j /\ Entry(j, v).value = v
  BY DEF Entry
<1>3. PICK key : as_ref(key) = as_ref(k) /\ new = (es \ old) \cup {Entry(key, v)}
  <2>1. CASE old = {}
    BY <1>1, <2>1
  <2>2. CASE old # {}
    <3>1. PICK d \in old : TRUE
      BY <2>2
    <3>2. \A e \in old : e = d
      BY <3>1 DEF Unique
    <3>3. {Entry(e.key, v) : e \in old} = {Entry(d.key, v)}
      BY <3>1, <3>2
    <3> QED
      BY <1>1, <2>2, <3>1, <3>3
  <2> QED
    BY <2>1, <2>2
<1> HIDE DEF new
<1>4. Unique(new)
  BY <1>2, <1>3 DEF Unique
<1>5. Vals(new, as_ref(k)) = {v}
  BY <1>2, <1>3 DEF Vals
<1>6. ASSUME NEW n, n # as_ref(k) PROVE Vals(new, n) = Vals(es, n)
  <2>1. {f \in new : as_ref(f.key) = n} = {f \in es : as_ref(f.key) = n}
    BY <1>2, <1>3, <1>6
  <2> QED
    BY <2>1 DEF Vals
<1>7. \A e \in new : as_ref(e.key) = as_ref(k)
                     \/ \E f \in es : as_ref(e.key) = as_ref(f.key)
  BY <1>2, <1>3
<1> QED
  BY <1>4, <1>5, <1>6, <1>7 DEF new

\* A name has one value, and ValueAt is it.
LEMMA WrittenFacts ==
  ASSUME OneEntry, NEW n
  PROVE  /\ Written(n) = Vals(fields, n)
         /\ \A v, w \in Written(n) : v = w
         /\ get(fields, Borrowed(n)) = {} <=> Written(n) = {}
         /\ Written(n) # {} => Written(n) = {ValueAt(n)}
<1>1. Written(n) = Vals(fields, n)
  BY DEF Written, Vals
<1>2. as_ref(Borrowed(n)) = n
  BY DEF as_ref, Borrowed
<1>3. /\ get(fields, Borrowed(n)) = {e \in fields : as_ref(e.key) = n}
      /\ get(fields, Borrowed(n)) = {} <=> Written(n) = {}
  BY <1>1, <1>2, GetFacts
<1>4. \A v, w \in Written(n) : v = w
  BY DEF Written, OneEntry
<1>5. Written(n) # {} => ValueAt(n) \in Written(n)
  <2> DEFINE d == CHOOSE e \in get(fields, Borrowed(n)) : TRUE
  <2>1. Written(n) # {} => d \in get(fields, Borrowed(n))
    BY <1>3
  <2> HIDE DEF d
  <2>2. ValueAt(n) = d.value
    BY DEF ValueAt, d
  <2> QED
    BY <1>3, <2>1, <2>2 DEF Written
<1> QED
  BY <1>1, <1>3, <1>4, <1>5

\* override_value puts the value under the name and moves the one it replaces
\* to the prefixed name.
LEMMA OverrideFacts ==
  ASSUME OneEntry, NEW n \in Name, NEW v, fields' = override_value(n, v),
         \A e \in fields : as_ref(e.key) \in Name
  PROVE  /\ OneEntry'
         /\ \A e \in fields' : as_ref(e.key) \in Name
         /\ Prefixed(n) \in Name /\ Prefixed(n) # n
         /\ Written(n)' = {v}
         /\ Written(Prefixed(n))' = IF Written(n) = {} THEN Written(Prefixed(n))
                                    ELSE Written(n)
         /\ \A m : m # n /\ m # Prefixed(n) => Written(m)' = Written(m)
<1> DEFINE one == insert(fields, Borrowed(n), v)
           two == insert(one, Owned(Prefixed(n)), ValueAt(n))
<1>1. as_ref(Borrowed(n)) = n /\ as_ref(Owned(Prefixed(n))) = Prefixed(n)
  BY DEF as_ref, Borrowed, Owned
<1>2. Prefixed(n) \in Name /\ Prefixed(n) # n
  BY DEF Prefixed, Name
<1>3. Unique(fields)
  BY DEF OneEntry, Unique
<1>4. /\ Unique(one) /\ Vals(one, n) = {v}
      /\ \A m : m # n => Vals(one, m) = Vals(fields, m)
      /\ \A e \in one : as_ref(e.key) \in Name
  BY <1>1, <1>3, InsertFacts
<1>5. \A m : Written(m) = Vals(fields, m) /\ Written(m)' = Vals(fields', m)
  BY DEF Written, Vals
<1>6. Written(n) # {} => Written(n) = {ValueAt(n)}
  BY WrittenFacts
<1>7. fields' = IF Written(n) = {} THEN one ELSE two
  BY WrittenFacts DEF override_value
<1> HIDE DEF one
<1>8. CASE Written(n) = {}
  <2>1. fields' = one
    BY <1>7, <1>8
  <2>2. OneEntry'
    BY <1>4, <2>1 DEF OneEntry, Unique
  <2> QED
    BY <1>2, <1>4, <1>5, <1>8, <2>1, <2>2
<1>9. CASE Written(n) # {}
  <2>1. fields' = two
    BY <1>7, <1>9
  <2>2. /\ Unique(two) /\ Vals(two, Prefixed(n)) = {ValueAt(n)}
        /\ \A m : m # Prefixed(n) => Vals(two, m) = Vals(one, m)
        /\ \A e \in two : as_ref(e.key) \in Name
    BY <1>1, <1>2, <1>4, InsertFacts
  <2> HIDE DEF two
  <2>3. OneEntry'
    BY <2>1, <2>2 DEF OneEntry, Unique
  <2> QED
    BY <1>2, <1>4, <1>5, <1>6, <1>9, <2>1, <2>2, <2>3
<1> QED
  BY <1>8, <1>9

-----------------------------------------------------------------------------
(* Values and names.                                                       *)

\* A value is known by the source and the name it comes from.
LEMMA ValueFacts ==
  \A s, t, n, m : /\ Value(s, n).source = s /\ Value(s, n).name = n
                  /\ Value(s, n) = Value(t, m) <=> s = t /\ n = m
BY DEF Value

\* The order of the sources.
LEMMA RankFacts ==
  Rank["embedded"] = 1 /\ Rank["payload"] = 2 /\ Rank["envelope"] = 3
BY DEF Rank

\* What is supplied for a name is what is merged once nothing is left.
LEMMA SuppliedFacts ==
  ASSUME NEW n
  PROVE  Supplied(n) = MergedOf(embedded, given[1], given[2], n)
BY DEF Supplied, MergedOf

\* Merging one more key of the payload, or one more built-in field, adds one
\* value to one name.
LEMMA MergeKey ==
  ASSUME NEW names, NEW keys, NEW builtins, NEW k, k \notin keys
  PROVE  /\ Value("payload", k) \notin MergedOf(names, keys, builtins, Stripped(k))
         /\ MergedOf(names, keys \cup {k}, builtins, Stripped(k))
              = MergedOf(names, keys, builtins, Stripped(k)) \cup {Value("payload", k)}
         /\ \A m : m # Stripped(k) =>
              MergedOf(names, keys \cup {k}, builtins, m)
                = MergedOf(names, keys, builtins, m)
<1> DEFINE v == Value("payload", k)
           n == Stripped(k)
<1>1. v \notin MergedOf(names, keys, builtins, n)
  <2> SUFFICES ASSUME v \in MergedOf(names, keys, builtins, n) PROVE FALSE
    OBVIOUS
  <2>1. \/ v = Value("embedded", n)
        \/ \E j \in keys : v = Value("payload", j)
        \/ \E b \in builtins : v = Value("envelope", <<0, b>>)
    BY DEF MergedOf
  <2> QED
    BY <2>1 DEF Value
<1>2. ASSUME NEW m, NEW x
      PROVE  x \in MergedOf(names, keys \cup {k}, builtins, m) <=>
               x \in MergedOf(names, keys, builtins, m) \/ (m = n /\ x = v)
  <2>1. (\E j \in keys \cup {k} : Stripped(j) = m /\ x = Value("payload", j)) <=>
          \/ \E j \in keys : Stripped(j) = m /\ x = Value("payload", j)
          \/ m = n /\ x = v
    OBVIOUS
  <2> HIDE DEF v, n
  <2> QED
    BY <2>1 DEF MergedOf
<1> HIDE DEF v, n
<1>3. MergedOf(names, keys \cup {k}, builtins, n) = MergedOf(names, keys, builtins, n) \cup {v}
  BY <1>2
<1>4. ASSUME NEW m, m # n
      PROVE  MergedOf(names, keys \cup {k}, builtins, m) = MergedOf(names, keys, builtins, m)
  <2> DEFINE S == MergedOf(names, keys \cup {k}, builtins, m)
             T == MergedOf(names, keys, builtins, m)
  <2>1. \A x : x \in S <=> x \in T
    BY <1>2, <1>4
  <2> HIDE DEF S, T
  <2>2. S = T
    BY <2>1
  <2> QED
    BY <2>2 DEF S, T
<1> QED
  BY <1>1, <1>3, <1>4 DEF v, n

\* Merging one more built-in field.
LEMMA MergeField ==
  ASSUME NEW names, NEW keys, NEW builtins, NEW b, b \notin builtins
  PROVE  /\ Value("envelope", <<0, b>>) \notin MergedOf(names, keys, builtins, <<0, b>>)
         /\ MergedOf(names, keys, builtins \cup {b}, <<0, b>>)
              = MergedOf(names, keys, builtins, <<0, b>>) \cup {Value("envelope", <<0, b>>)}
         /\ \A m : m # <<0, b>> =>
              MergedOf(names, keys, builtins \cup {b}, m)
                = MergedOf(names, keys, builtins, m)
<1> DEFINE n == <<0, b>>
           v == Value("envelope", n)
<1>1. v \notin MergedOf(names, keys, builtins, n)
  <2> SUFFICES ASSUME v \in MergedOf(names, keys, builtins, n) PROVE FALSE
    OBVIOUS
  <2>1. \/ v = Value("embedded", n)
        \/ \E j \in keys : v = Value("payload", j)
        \/ \E c \in builtins : <<0, c>> = n
    BY DEF MergedOf
  <2> QED
    BY <2>1 DEF Value
<1>2. ASSUME NEW m, NEW x
      PROVE  x \in MergedOf(names, keys, builtins \cup {b}, m) <=>
               x \in MergedOf(names, keys, builtins, m) \/ (m = n /\ x = v)
  <2>1. (\E c \in builtins \cup {b} : <<0, c>> = m /\ x = Value("envelope", <<0, c>>)) <=>
          \/ \E c \in builtins : <<0, c>> = m /\ x = Value("envelope", <<0, c>>)
          \/ m = n /\ x = v
    OBVIOUS
  <2> HIDE DEF v, n
  <2> QED
    BY <2>1 DEF MergedOf
<1> HIDE DEF v, n
<1>3. MergedOf(names, keys, builtins \cup {b}, n) = MergedOf(names, keys, builtins, n) \cup {v}
  BY <1>2
<1>4. ASSUME NEW m, m # n
      PROVE  MergedOf(names, keys, builtins \cup {b}, m) = MergedOf(names, keys, builtins, m)
  <2> DEFINE S == MergedOf(names, keys, builtins \cup {b}, m)
             T == MergedOf(names, keys, builtins, m)
  <2>1. \A x : x \in S <=> x \in T
    BY <1>2, <1>4
  <2> HIDE DEF S, T
  <2>2. S = T
    BY <2>1
  <2> QED
    BY <2>2 DEF S, T
<1> QED
  BY <1>1, <1>3, <1>4 DEF v, n

\* The names of the three sources, and what stripping an underscore leaves.
LEMMA NameFacts ==
  /\ EmbeddedNames \subseteq Name
  /\ PayloadKeys \subseteq Name
  /\ \A b \in Builtins : <<0, b>> \in Name
  /\ \A k \in PayloadKeys : /\ Stripped(k) \in Name
                            /\ Stripped(k)[1] <= k[1] /\ k[1] <= Stripped(k)[1] + 1
                            /\ Stripped(k)[2] = k[2]
  /\ \A n \in Name : n[1] \in Nat /\ n = <<n[1], n[2]>>
<1>1. EmbeddedNames \subseteq Name /\ PayloadKeys \subseteq Name
  BY NamesAssumption DEF Name, Base
<1>2. \A b \in Builtins : <<0, b>> \in Name
  BY DEF Name, Base
<1>3. \A n \in Name : n[1] \in Nat /\ n[2] \in Base /\ n = <<n[1], n[2]>>
  BY DEF Name
<1>4. ASSUME NEW k \in PayloadKeys
      PROVE  /\ Stripped(k) \in Name /\ Stripped(k)[2] = k[2]
             /\ Stripped(k)[1] <= k[1] /\ k[1] <= Stripped(k)[1] + 1
  <2>1. k[1] \in Nat /\ k[2] \in Base /\ k \in Name
    BY <1>1, <1>3
  <2>2. CASE k[1] > 0
    <3>1. Stripped(k) = <<k[1] - 1, k[2]>>
      BY <2>2 DEF Stripped
    <3> QED
      BY <2>1, <2>2, <3>1 DEF Name
  <2>3. CASE ~(k[1] > 0)
    <3>1. Stripped(k) = k
      BY <2>3 DEF Stripped
    <3> QED
      BY <2>1, <3>1
  <2> QED
    BY <2>2, <2>3
<1> QED
  BY <1>1, <1>2, <1>3, <1>4

\* A prefixed name has two underscores more, and comes from one name.
LEMMA PrefixFacts ==
  ASSUME NEW n \in Name, NEW m \in Name
  PROVE  /\ Prefixed(n)[1] = n[1] + 2 /\ Prefixed(n)[2] = n[2]
         /\ \A i \in Nat : Origin(Prefixed(n), i + 1) = Origin(n, i)
         /\ Prefixed(n) = Prefixed(m) => n = m
         /\ m[1] < 2 => m # Prefixed(n)
<1>1. n[1] \in Nat /\ n = <<n[1], n[2]>> /\ m[1] \in Nat /\ m = <<m[1], m[2]>>
  BY NameFacts
<1>2. Prefixed(n)[1] = n[1] + 2 /\ Prefixed(n)[2] = n[2]
  BY DEF Prefixed
<1>3. ASSUME NEW i \in Nat PROVE Origin(Prefixed(n), i + 1) = Origin(n, i)
  <2>1. (n[1] + 2) - 2 * (i + 1) = n[1] - 2 * i
    BY <1>1
  <2> QED
    BY <1>2, <2>1 DEF Origin
<1>4. ASSUME Prefixed(n) = Prefixed(m) PROVE n = m
  <2>1. <<n[1] + 2, n[2]>> = <<m[1] + 2, m[2]>>
    BY <1>4 DEF Prefixed
  <2> QED
    BY <1>1, <2>1
<1> QED
  BY <1>1, <1>2, <1>3, <1>4

\* A value that was not moved, or that is under a name too short for that, is
\* one supplied for the name.
LEMMA Unmoved ==
  ASSUME NEW n \in Name
  PROVE  /\ Origin(n, 0) = n
         /\ n[1] < 2 /\ Sources => Written(n) \subseteq Merged(n)
<1>1. n[1] \in Nat /\ n = <<n[1], n[2]>>
  BY NameFacts
<1>2. Origin(n, 0) = n
  <2>1. n[1] - 2 * 0 = n[1]
    BY <1>1
  <2> QED
    BY <1>1, <2>1 DEF Origin
<1>3. ASSUME n[1] < 2, Sources, NEW x \in Written(n) PROVE x \in Merged(n)
  <2>1. PICK i \in Nat : MovedFrom(n, x, i)
    BY <1>3 DEF Sources
  <2>2. i = 0
    BY <1>1, <1>3, <2>1 DEF MovedFrom
  <2> QED
    BY <1>2, <2>1, <2>2 DEF MovedFrom
<1> QED
  BY <1>2, <1>3

-----------------------------------------------------------------------------
LEMMA InitIInv == Init => IInv
<1> SUFFICES ASSUME Init PROVE IInv
  OBVIOUS
<1>1. PICK unescaped \in SUBSET (embedded \cap EscapedNames) :
        fields = maybe_from_json(embedded, unescaped)
  BY DEF Init
<1>2. given[1] = payload /\ given[2] = envelope
  BY DEF Init
<1>3. embedded \subseteq EmbeddedNames /\ usable \subseteq embedded
      /\ payload \subseteq PayloadKeys /\ envelope \subseteq Builtins
  BY DEF Init
<1>4. \A n : as_ref(Deserialize(n, unescaped)) = n
  BY DEF Deserialize, as_ref, Borrowed, Owned
<1>5. \A k, v : Entry(k, v).key = k /\ Entry(k, v).value = v
  BY DEF Entry
<1>6. \A e \in fields : \E n \in embedded :
        /\ e = Entry(Deserialize(n, unescaped), Value("embedded", n))
        /\ as_ref(e.key) = n /\ e.value = Value("embedded", n)
  BY <1>1, <1>4, <1>5 DEF maybe_from_json
<1>7. OneEntry
  BY <1>6 DEF OneEntry
<1>8. Inputs
  <2>1. \A e \in fields : as_ref(e.key) \in Name
    BY <1>3, <1>6, NameFacts
  <2> QED
    BY <1>2, <1>3, <2>1 DEF Inputs, Init
<1>9. ASSUME NEW n
      PROVE  /\ \A x : x \in Merged(n) <=> n \in embedded /\ x = Value("embedded", n)
             /\ Written(n) = Merged(n)
  <2>1. \A x : x \in Merged(n) <=> n \in embedded /\ x = Value("embedded", n)
    <3>1. Merged(n) = MergedOf(embedded, {}, {}, n)
      BY <1>2 DEF Merged
    <3> QED
      BY <3>1 DEF MergedOf
  <2>2. ASSUME NEW x \in Written(n) PROVE n \in embedded /\ x = Value("embedded", n)
    BY <1>6 DEF Written
  <2>3. ASSUME n \in embedded PROVE Value("embedded", n) \in Written(n)
    <3> DEFINE e == Entry(Deserialize(n, unescaped), Value("embedded", n))
    <3>1. e \in fields
      BY <1>1, <2>3 DEF maybe_from_json
    <3>2. as_ref(e.key) = n /\ e.value = Value("embedded", n)
      BY <1>4, <1>5
    <3> HIDE DEF e
    <3> QED
      BY <3>1, <3>2 DEF Written
  <2> QED
    BY <2>1, <2>2, <2>3
<1>10. \A n, x : x \in Merged(n) => x = Value("embedded", n)
  BY <1>9
<1>11. Sources
  <2> SUFFICES ASSUME NEW n \in Name, NEW x \in Written(n) PROVE MovedFrom(n, x, 0)
    BY DEF Sources
  <2>1. x \in Merged(Origin(n, 0))
    BY <1>9, Unmoved
  <2>2. 2 * 0 <= n[1]
    BY NameFacts
  <2> QED
    BY <2>1, <2>2 DEF MovedFrom
<1>12. Winner
  <2>1. \A n, x, y : x \in Merged(n) /\ y \in Merged(n) => Rank[x.source] = Rank[y.source]
    BY <1>10
  <2>2. \A n, x : x \in Merged(n) => Rank[x.source] = 1
    BY <1>10, RankFacts, ValueFacts
  <2> QED
    BY <1>9, <2>1, <2>2 DEF Winner
<1>13. Kept
  <2>1. ASSUME NEW n, Prefixed(n) \notin SuppliedNames PROVE Written(Prefixed(n)) = {}
    <3>1. Prefixed(n) \notin embedded
      BY <2>1 DEF SuppliedNames
    <3> QED
      BY <1>9, <3>1
  <2> QED
    BY <1>9, <2>1 DEF Kept
<1>14. EmbeddedOnly
  BY <1>9 DEF EmbeddedOnly
<1>15. MetaFrom
  BY DEF MetaFrom, Init
<1> QED
  BY <1>7, <1>8, <1>11, <1>12, <1>13, <1>14, <1>15 DEF IInv

-----------------------------------------------------------------------------
(* One value is merged under one name.                                     *)

LEMMA MergeStep ==
  ASSUME IInv, pc = "merge", UNCHANGED <<inputs, pc, meta>>,
         NEW n \in Name, NEW v, fields' = override_value(n, v),
         n \in SuppliedNames,
         Merged(n)' = Merged(n) \cup {v}, v \notin Merged(n),
         \A m : m # n => Merged(m)' = Merged(m),
         Rank[v.source] \in Nat,
         \A w \in Merged(n) : Rank[w.source] <= Rank[v.source],
         n[1] >= 2 /\ n[2] \notin LowBases =>
           \E j \in payload : j[2] = n[2] /\ j[1] \in Nat /\ j[1] >= n[1],
         payload' \subseteq payload,
         n[2] \notin LowBases => \A j \in payload' : j[2] = n[2] => j[1] < n[1] + 2,
         payload' # {} => envelope' = given[2],
         envelope' \subseteq envelope
  PROVE  IInv'
<1>1. Inputs /\ OneEntry /\ Sources /\ Winner /\ Kept /\ MetaFrom
  BY DEF IInv
<1> DEFINE p == Prefixed(n)
<1>2. /\ OneEntry'
      /\ \A e \in fields' : as_ref(e.key) \in Name
      /\ p \in Name /\ p # n
      /\ Written(n)' = {v}
      /\ Written(p)' = IF Written(n) = {} THEN Written(p) ELSE Written(n)
      /\ \A m : m # n /\ m # p => Written(m)' = Written(m)
  BY <1>1, OverrideFacts DEF Inputs
<1>3. /\ n[1] \in Nat /\ p[1] = n[1] + 2 /\ p[2] = n[2]
      /\ \A i \in Nat : Origin(p, i + 1) = Origin(n, i)
      /\ \A m \in Name : m[1] < 2 => m # p
      /\ \A m \in Name : m # n => Prefixed(m) # p
  BY PrefixFacts, NameFacts
<1> HIDE DEF p
<1>4. n[1] < 2 => Written(n) \subseteq Merged(n)
  BY <1>1, Unmoved
<1>5. \A m : Merged(m) \subseteq Merged(m)'
  OBVIOUS
<1>6. Inputs'
  <2>1. UNCHANGED <<embedded, usable, own, given>>
    BY DEF inputs
  <2> QED
    BY <1>1, <1>2, <2>1 DEF Inputs
<1>7. Sources'
  <2> SUFFICES ASSUME NEW m \in Name, NEW x \in Written(m)'
               PROVE  \E i \in Nat : MovedFrom(m, x, i)'
    BY DEF Sources
  <2>1. CASE m = n
    <3>1. x \in Merged(Origin(m, 0))' /\ 2 * 0 <= m[1]
      BY <1>2, <1>3, <2>1, Unmoved
    <3> QED
      BY <3>1 DEF MovedFrom
  <2>2. CASE m = p /\ Written(n) # {}
    <3>1. x \in Written(n)
      BY <1>2, <2>2
    <3>2. PICK i \in Nat : MovedFrom(n, x, i)
      BY <1>1, <3>1 DEF Sources
    <3>3. x \in Merged(Origin(m, i + 1))'
      BY <1>3, <1>5, <2>2, <3>2 DEF MovedFrom
    <3>4. 2 * (i + 1) <= m[1] /\ i + 1 \in Nat
      BY <1>3, <2>2, <3>2 DEF MovedFrom
    <3>5. ASSUME m[2] \notin LowBases
          PROVE  i + 1 = 1 /\ \A j \in payload' : j[2] = m[2] => j[1] < m[1]
      <4>1. n[2] \notin LowBases
        BY <1>3, <2>2, <3>5
      <4>2. i = 0
        BY <1>3, <3>2, <4>1 DEF MovedFrom
      <4> QED
        BY <1>3, <2>2, <4>1, <4>2
    <3> QED
      BY <3>3, <3>4, <3>5 DEF MovedFrom
  <2>3. CASE m # n /\ (m = p => Written(n) = {})
    <3>1. x \in Written(m)
      BY <1>2, <2>3
    <3>2. PICK i \in Nat : MovedFrom(m, x, i)
      BY <1>1, <3>1 DEF Sources
    <3> QED
      BY <1>5, <3>2 DEF MovedFrom
  <2> QED
    BY <2>1, <2>2, <2>3
<1>8. Winner'
  <2> SUFFICES ASSUME NEW m \in Name, m[1] < 2
               PROVE  /\ Merged(m)' # {} => Written(m)' # {}
                      /\ \A x \in Written(m)', w \in Merged(m)' :
                           Rank[w.source] <= Rank[x.source]
    BY DEF Winner
  <2>1. CASE m = n
    BY <1>2, <2>1
  <2>2. CASE m # n
    <3>1. Written(m)' = Written(m) /\ Merged(m)' = Merged(m)
      BY <1>2, <1>3, <2>2
    <3> QED
      BY <1>1, <3>1 DEF Winner
  <2> QED
    BY <2>1, <2>2
<1>9. Kept'
  <2>1. SuppliedNames' = SuppliedNames
    BY DEF SuppliedNames, inputs
  <2> SUFFICES ASSUME NEW m \in Name, m[1] < 2, Prefixed(m) \notin SuppliedNames
               PROVE  /\ Written(Prefixed(m))' = {} => Merged(m)' \subseteq Written(m)'
                      /\ Written(Prefixed(m))' \subseteq Merged(m)'
                      /\ Written(m)' \cap Written(Prefixed(m))' = {}
    BY <2>1 DEF Kept
  <2>2. /\ Written(Prefixed(m)) = {} => Merged(m) \subseteq Written(m)
        /\ Written(Prefixed(m)) \subseteq Merged(m)
        /\ Written(m) \cap Written(Prefixed(m)) = {}
    BY <1>1 DEF Kept
  <2>3. CASE m = n
    <3>1. Prefixed(m) = p
      BY <2>3 DEF p
    <3> QED
      BY <1>2, <1>4, <2>2, <2>3, <3>1
  <2>4. CASE m # n
    <3>1. Prefixed(m) # n /\ Prefixed(m) # p
      BY <1>3, <2>4
    <3>2. Written(m)' = Written(m) /\ Merged(m)' = Merged(m)
          /\ Written(Prefixed(m))' = Written(Prefixed(m))
      BY <1>2, <1>3, <2>4, <3>1
    <3> QED
      BY <2>2, <3>2
  <2> QED
    BY <2>3, <2>4
<1>10. EmbeddedOnly'
  BY DEF EmbeddedOnly
<1>11. MetaFrom'
  BY <1>1 DEF MetaFrom, inputs
<1> QED
  BY <1>2, <1>6, <1>7, <1>8, <1>9, <1>10, <1>11 DEF IInv

LEMMA MergeAdditionalStep ==
  ASSUME IInv, NEW k \in PayloadKeys, MergeAdditional(k)
  PROVE  IInv'
<1> DEFINE n == Stripped(k)
           v == Value("payload", k)
<1>1. /\ pc = "merge" /\ k \in payload
      /\ k[2] \notin LowBases => \A j \in payload : j[2] = k[2] => j[1] <= k[1]
      /\ payload' = payload \ {k} /\ fields' = override_value(n, v)
      /\ UNCHANGED <<inputs, envelope, pc, meta>>
  BY DEF MergeAdditional, IsNext
<1>2. UNCHANGED <<embedded, given>>
  BY <1>1 DEF inputs
<1>3. Inputs /\ envelope = given[2] /\ payload \subseteq given[1]
      /\ given[1] \subseteq PayloadKeys
  BY <1>1 DEF IInv, Inputs
<1>4. /\ n \in Name /\ n[1] \in Nat /\ k[1] \in Nat
      /\ n[1] <= k[1] /\ k[1] <= n[1] + 1 /\ n[2] = k[2]
      /\ \A j \in payload : j[1] \in Nat
  BY <1>3, NameFacts
<1>5. n \in SuppliedNames
  BY <1>1, <1>3 DEF SuppliedNames
<1>6. given[1] \ payload' = (given[1] \ payload) \cup {k}
  BY <1>1, <1>3
<1>7. \A m : Merged(m)' = MergedOf(embedded, (given[1] \ payload) \cup {k},
                                   given[2] \ envelope, m)
  BY <1>1, <1>2, <1>6 DEF Merged
<1>8. /\ v \notin Merged(n) /\ Merged(n)' = Merged(n) \cup {v}
      /\ \A m : m # n => Merged(m)' = Merged(m)
  <2> DEFINE keys == given[1] \ payload
             builtins == given[2] \ envelope
  <2>1. k \notin keys
    BY <1>1
  <2> HIDE DEF keys, builtins
  <2>2. /\ v \notin MergedOf(embedded, keys, builtins, n)
        /\ MergedOf(embedded, keys \cup {k}, builtins, n)
             = MergedOf(embedded, keys, builtins, n) \cup {v}
        /\ \A m : m # n => MergedOf(embedded, keys \cup {k}, builtins, m)
                            = MergedOf(embedded, keys, builtins, m)
    BY <2>1, MergeKey
  <2> HIDE DEF v, n
  <2> QED
    BY <1>7, <2>2 DEF Merged, keys, builtins
<1>9. /\ Rank[v.source] = 2
      /\ \A w \in Merged(n) : Rank[w.source] <= 2
  <2>1. Rank[v.source] = 2
    BY RankFacts, ValueFacts
  <2>2. ASSUME NEW w \in Merged(n) PROVE Rank[w.source] <= 2
    <3>1. w \in MergedOf(embedded, given[1] \ payload, {}, n)
      BY <1>3 DEF Merged
    <3>2. w = Value("embedded", n) \/ \E j : w = Value("payload", j)
      BY <3>1 DEF MergedOf
    <3>3. w.source = "embedded" \/ w.source = "payload"
      BY <3>2, ValueFacts
    <3> QED
      BY <3>3, RankFacts
  <2> QED
    BY <2>1, <2>2
<1>10. n[2] \notin LowBases => \A j \in payload' : j[2] = n[2] => j[1] < n[1] + 2
  BY <1>1, <1>4
<1>11. \E j \in payload : j[2] = n[2] /\ j[1] \in Nat /\ j[1] >= n[1]
  BY <1>1, <1>4
<1> HIDE DEF n, v
<1> QED
  BY <1>1, <1>3, <1>4, <1>5, <1>8, <1>9, <1>10, <1>11, MergeStep

LEMMA MergeBuiltinStep ==
  ASSUME IInv, NEW b \in Builtins, MergeBuiltin(b)
  PROVE  IInv'
<1> DEFINE n == <<0, b>>
           v == Value("envelope", n)
<1>1. /\ pc = "merge" /\ payload = {} /\ b \in envelope
      /\ envelope' = envelope \ {b} /\ fields' = override_value(n, v)
      /\ UNCHANGED <<inputs, payload, pc, meta>>
  BY DEF MergeBuiltin
<1>2. UNCHANGED <<embedded, given>>
  BY <1>1 DEF inputs
<1>3. Inputs /\ envelope \subseteq given[2]
  BY DEF IInv, Inputs
<1>4. n \in Name /\ n[1] = 0
  BY NameFacts
<1>5. n \in SuppliedNames
  BY <1>1, <1>3 DEF SuppliedNames
<1>6. given[2] \ envelope' = (given[2] \ envelope) \cup {b}
  BY <1>1, <1>3
<1>7. \A m : Merged(m)' = MergedOf(embedded, given[1] \ payload,
                                   (given[2] \ envelope) \cup {b}, m)
  BY <1>1, <1>2, <1>6 DEF Merged
<1>8. /\ v \notin Merged(n) /\ Merged(n)' = Merged(n) \cup {v}
      /\ \A m : m # n => Merged(m)' = Merged(m)
  <2> DEFINE keys == given[1] \ payload
             builtins == given[2] \ envelope
  <2>1. b \notin builtins
    BY <1>1
  <2> HIDE DEF keys, builtins
  <2>2. /\ v \notin MergedOf(embedded, keys, builtins, n)
        /\ MergedOf(embedded, keys, builtins \cup {b}, n)
             = MergedOf(embedded, keys, builtins, n) \cup {v}
        /\ \A m : m # n => MergedOf(embedded, keys, builtins \cup {b}, m)
                            = MergedOf(embedded, keys, builtins, m)
    BY <2>1, MergeField
  <2> HIDE DEF v, n
  <2> QED
    BY <1>7, <2>2 DEF Merged, keys, builtins
<1>9. /\ Rank[v.source] = 3
      /\ \A w \in Merged(n) : Rank[w.source] <= 3
  <2>1. Rank[v.source] = 3
    BY RankFacts, ValueFacts
  <2>2. ASSUME NEW w \in Merged(n) PROVE Rank[w.source] <= 3
    <3>1. \/ w = Value("embedded", n) \/ \E j : w = Value("payload", j)
          \/ \E c : w = Value("envelope", <<0, c>>)
      BY DEF Merged, MergedOf
    <3>2. w.source = "embedded" \/ w.source = "payload" \/ w.source = "envelope"
      BY <3>1 DEF Value
    <3> QED
      BY <3>2, RankFacts
  <2> QED
    BY <2>1, <2>2
<1>10. ~(n[1] >= 2)
  BY <1>4
<1> HIDE DEF n, v
<1> QED
  BY <1>1, <1>3, <1>4, <1>5, <1>8, <1>9, <1>10, MergeStep

-----------------------------------------------------------------------------
(* The metas.                                                              *)

\* While the metas are resolved, what find_first finds are embedded fields.
LEMMA EmbeddedFacts ==
  ASSUME IInv, pc = "meta", NEW n
  PROVE  /\ get(fields, Borrowed(n)) # {} <=> n \in embedded
         /\ n \in embedded => ValueAt(n).source = "embedded"
<1>1. Merged(n) = MergedOf(embedded, {}, {}, n)
  BY DEF IInv, Inputs, Merged
<1>2. \A x : x \in Written(n) <=> n \in embedded /\ x = Value("embedded", n)
  BY <1>1 DEF IInv, EmbeddedOnly, MergedOf
<1>3. /\ get(fields, Borrowed(n)) = {} <=> Written(n) = {}
      /\ Written(n) # {} => Written(n) = {ValueAt(n)}
  BY WrittenFacts DEF IInv
<1>4. get(fields, Borrowed(n)) # {} <=> n \in embedded
  BY <1>2, <1>3
<1>5. n \in embedded => ValueAt(n) = Value("embedded", n)
  BY <1>2, <1>3
<1> QED
  BY <1>4, <1>5 DEF Value

\* Each meta is resolved from the embedded CLEF if it has it.
LEMMA ResolvedFacts ==
  ASSUME IInv, pc = "meta", NEW m \in Metas
  PROVE  /\ Resolved(m) \in {"unset", "clef", "embedded", "gelf", "none"}
         /\ m \in own => Resolved(m) = "clef"
         /\ m \notin own /\ HasFirst(m) => Resolved(m) = "embedded"
<1>1. HasFirst(m) => ValueAt(find_first(m)).source = "embedded"
  BY EmbeddedFacts DEF HasFirst, IInv, Inputs
<1>2. CASE m \in own
  BY <1>2 DEF Resolved
<1>3. CASE m \notin own /\ HasFirst(m)
  BY <1>1, <1>3 DEF Resolved
<1>4. CASE m \notin own /\ ~HasFirst(m)
  BY <1>4 DEF Resolved
<1> QED
  BY <1>2, <1>3, <1>4

\* find_first takes the first alternative that is there.
LEMMA FindFirstFacts ==
  ASSUME IInv, pc = "meta", NEW m \in Metas, NEW i \in 1..Len(Alternatives[m]),
         <<0, Alternatives[m][i]>> \in usable,
         \A j \in 1..Len(Alternatives[m]) :
           <<0, Alternatives[m][j]>> \in embedded => i <= j
  PROVE  HasFirst(m)
<1>1. \A j : j \in Found(m) <=> /\ j \in 1..Len(Alternatives[m])
                                /\ <<0, Alternatives[m][j]>> \in embedded
  BY EmbeddedFacts DEF Found
<1>2. i \in Found(m) /\ \A j \in Found(m) : i <= j
  BY <1>1 DEF IInv, Inputs
<1> DEFINE first == CHOOSE c \in Found(m) : \A j \in Found(m) : c <= j
<1>3. first \in Found(m) /\ \A j \in Found(m) : first <= j
  BY <1>2
<1>4. find_first(m) = <<0, Alternatives[m][first]>>
  BY DEF find_first
<1> HIDE DEF first
<1>5. first \in Int /\ i \in Int
  <2>1. m \in {"level", "timestamp", "exception", "message"}
    BY NamesAssumption
  <2>2. Len(Alternatives[m]) \in Nat
    BY <2>1 DEF Alternatives
  <2>3. first \in 1..Len(Alternatives[m])
    BY <1>1, <1>3
  <2> QED
    BY <2>2, <2>3
<1>6. first = i
  BY <1>2, <1>3, <1>5
<1> QED
  BY <1>2, <1>4, <1>6 DEF HasFirst

\* Steps that leave the fields alone.
LEMMA SameFields ==
  ASSUME IInv, UNCHANGED <<inputs, payload, envelope, fields>>,
         pc' \in {pc, "merge", "done"}, pc' = "meta" => pc = "meta",
         pc' = "done" => payload = {} /\ envelope = {}
  PROVE  /\ Inputs' /\ OneEntry' /\ Sources' /\ Winner' /\ Kept' /\ EmbeddedOnly'
<1> USE DEF inputs
<1>1. \A n : Written(n)' = Written(n)
  BY DEF Written
<1>2. \A n : Merged(n)' = Merged(n)
  BY DEF Merged
<1>3. SuppliedNames' = SuppliedNames
  BY DEF SuppliedNames
<1>4. Inputs' /\ OneEntry'
  BY DEF IInv, Inputs, OneEntry
<1>5. Sources'
  BY <1>1, <1>2 DEF IInv, Sources, MovedFrom
<1>6. Winner'
  BY <1>1, <1>2 DEF IInv, Winner
<1>7. Kept'
  BY <1>1, <1>2, <1>3 DEF IInv, Kept
<1>8. EmbeddedOnly'
  BY <1>1, <1>2 DEF IInv, EmbeddedOnly
<1> QED
  BY <1>4, <1>5, <1>6, <1>7, <1>8

LEMMA ResolveMetaStep ==
  ASSUME IInv, ResolveMeta
  PROVE  IInv'
<1> USE DEF ResolveMeta, inputs
<1>1. /\ Inputs' /\ OneEntry' /\ Sources' /\ Winner' /\ Kept' /\ EmbeddedOnly'
  BY SameFields
<1>2. meta' \in [Metas -> {"unset", "clef", "embedded", "gelf", "none"}]
  BY ResolvedFacts
<1>3. ASSUME NEW m \in Metas
      PROVE  /\ m \in own => meta'[m] = "clef"
             /\ \A i \in {j \in 1..Len(Alternatives[m]) :
                            <<0, Alternatives[m][j]>> \in embedded} :
                  (/\ m \notin own
                   /\ \A j \in {l \in 1..Len(Alternatives[m]) :
                                  <<0, Alternatives[m][l]>> \in embedded} : i <= j
                   /\ <<0, Alternatives[m][i]>> \in usable) => meta'[m] = "embedded"
  <2>1. meta'[m] = Resolved(m)
    OBVIOUS
  <2> QED
    BY <2>1, ResolvedFacts, FindFirstFacts
<1>4. MetaFrom'
  BY <1>2, <1>3 DEF MetaFrom
<1> QED
  BY <1>1, <1>4 DEF IInv

LEMMA NextIInv == IInv /\ [to_clef]_vars => IInv'
<1> SUFFICES ASSUME IInv, [to_clef]_vars PROVE IInv'
  OBVIOUS
<1>1. CASE UNCHANGED vars
  <2>1. UNCHANGED <<inputs, payload, envelope, fields, pc, meta>>
    BY <1>1 DEF vars, inputs
  <2>2. pc = "done" => payload = {} /\ envelope = {}
    BY DEF IInv, Inputs
  <2>3. /\ Inputs' /\ OneEntry' /\ Sources' /\ Winner' /\ Kept' /\ EmbeddedOnly'
    BY <2>1, <2>2, SameFields
  <2>4. MetaFrom'
    BY <2>1 DEF IInv, MetaFrom, inputs
  <2> QED
    BY <2>3, <2>4 DEF IInv
<1>2. CASE Return
  <2>1. /\ Inputs' /\ OneEntry' /\ Sources' /\ Winner' /\ Kept' /\ EmbeddedOnly'
    BY <1>2, SameFields DEF Return
  <2>2. MetaFrom'
    BY <1>2 DEF Return, IInv, MetaFrom, inputs
  <2> QED
    BY <2>1, <2>2 DEF IInv
<1> QED
  BY <1>1, <1>2, ResolveMetaStep, MergeAdditionalStep, MergeBuiltinStep DEF to_clef

\* Every state of to_clef satisfies the inductive invariant: it holds of the three
\* sources before any is merged, and every field moved, added or renamed
\* preserves it.
THEOREM Inductive == Spec => []IInv
<1>1. Init => IInv
  BY InitIInv
<1>2. IInv /\ [to_clef]_vars => IInv'
  BY NextIInv
<1> QED
  BY <1>1, <1>2, PTL DEF Spec

-----------------------------------------------------------------------------
\* In the end all that was supplied has been merged.
LEMMA MergedIsSupplied ==
  ASSUME IInv, NEW n
  PROVE  /\ Merged(n) \subseteq Supplied(n)
         /\ pc = "done" => Merged(n) = Supplied(n)
<1>1. given[1] \ payload \subseteq given[1] /\ given[2] \ envelope \subseteq given[2]
  OBVIOUS
<1>2. Merged(n) \subseteq Supplied(n)
  BY <1>1, SuppliedFacts DEF Merged, MergedOf
<1>3. pc = "done" => given[1] \ payload = given[1] /\ given[2] \ envelope = given[2]
  BY DEF IInv, Inputs
<1> QED
  BY <1>2, <1>3, SuppliedFacts DEF Merged

\* Whatever the three sources hold, a field of the event has a value that some
\* source supplied for its name, or for a name it was moved from, at most once
\* unless the base sorts before '_'.
THEOREM FieldsHaveSources == Spec => []TypeOK
<1>1. IInv => TypeOK
  <2> SUFFICES ASSUME IInv PROVE TypeOK
    OBVIOUS
  <2>1. ASSUME NEW e \in fields
        PROVE  LET n == as_ref(e.key) IN
               \E i \in 0..n[1] :
                 /\ 2 * i <= n[1]
                 /\ n[2] \in LowBases \/ i <= 1
                 /\ e.value \in Supplied(<<n[1] - 2 * i, n[2]>>)
    <3> DEFINE n == as_ref(e.key)
    <3>1. n \in Name /\ e.value \in Written(n)
      BY DEF IInv, Inputs, Written
    <3> HIDE DEF n
    <3>2. PICK i \in Nat : MovedFrom(n, e.value, i)
      BY <3>1 DEF IInv, Sources
    <3>3. n[1] \in Nat /\ 2 * i <= n[1] /\ (n[2] \in LowBases \/ i <= 1)
      BY <3>1, <3>2, NameFacts DEF MovedFrom
    <3>4. e.value \in Supplied(<<n[1] - 2 * i, n[2]>>)
      BY <3>2, MergedIsSupplied DEF MovedFrom, Origin
    <3>5. i \in 0..n[1]
      BY <3>3
    <3> QED
      BY <3>3, <3>4, <3>5 DEF n
  <2> QED
    BY <2>1 DEF TypeOK, IInv, Inputs, MetaFrom
<1> QED
  BY <1>1, Inductive, PTL

\* The map of fields has no name twice, whichever keys borrow their text and
\* whichever own it, and holds a name of the event's own only for a key of the
\* payload: moving a value never makes one, as it adds two underscores.
THEOREM NamesStayUnique == Spec => []NamesUnique
<1>1. IInv => NamesUnique
  <2> SUFFICES ASSUME IInv, NEW e \in fields, as_ref(e.key) \in MemberNames
               PROVE  \E k \in given[1] : as_ref(e.key) = Stripped(k)
    BY DEF IInv, OneEntry, NamesUnique
  <2> DEFINE n == as_ref(e.key)
  <2>1. n \in Name /\ e.value \in Written(n)
    BY DEF IInv, Inputs, Written
  <2>2. n[1] = 0
    BY DEF MemberNames
  <2> HIDE DEF n
  <2>3. e.value \in Merged(n)
    BY <2>1, <2>2, Unmoved DEF IInv
  <2>4. n \notin embedded
    BY NamesAssumption DEF IInv, Inputs, n
  <2>5. ASSUME NEW b \in Builtins, n = <<0, b>> PROVE FALSE
    <3>1. b \in {"@t", "@l", "@m", "@mt", "@x"}
      BY <2>5 DEF MemberNames, n
    <3> QED
      BY <3>1, NamesAssumption
  <2>6. given[2] \subseteq Builtins
    BY DEF IInv, Inputs
  <2>7. \E k \in given[1] \ payload : Stripped(k) = n
    BY <2>3, <2>4, <2>5, <2>6 DEF Merged, MergedOf
  <2> QED
    BY <2>7 DEF n
<1> QED
  BY <1>1, Inductive, PTL

\* The envelope wins over the payload and the payload over the embedded JSON.
THEOREM PriorityHolds == Spec => []HighestPriorityWins
<1>1. IInv => HighestPriorityWins
  <2> SUFFICES ASSUME IInv, pc = "done", NEW n \in SuppliedNames, n[1] < 2
               PROVE  \E v \in Written(n) \cap Supplied(n) :
                        \A w \in Supplied(n) : Rank[w.source] <= Rank[v.source]
    BY DEF HighestPriorityWins
  <2>1. n \in Name
    BY NameFacts DEF IInv, Inputs, SuppliedNames
  <2>2. Supplied(n) = Merged(n)
    BY MergedIsSupplied
  <2>3. Supplied(n) # {}
    <3>1. \/ n \in embedded
          \/ \E k \in given[1] : Stripped(k) = n
          \/ \E b \in given[2] : <<0, b>> = n
      BY DEF SuppliedNames
    <3>2. \/ Value("embedded", n) \in Supplied(n)
          \/ \E k \in given[1] : Value("payload", k) \in Supplied(n)
          \/ \E b \in given[2] : Value("envelope", <<0, b>>) \in Supplied(n)
      BY <3>1 DEF Supplied
    <3> QED
      BY <3>2
  <2>4. PICK v \in Written(n) : TRUE
    BY <2>1, <2>2, <2>3 DEF IInv, Winner
  <2>5. v \in Merged(n)
    BY <2>1, <2>4, Unmoved DEF IInv
  <2>6. \A w \in Merged(n) : Rank[w.source] <= Rank[v.source]
    BY <2>1, <2>4 DEF IInv, Winner
  <2> QED
    BY <2>2, <2>4, <2>5, <2>6
<1> QED
  BY <1>1, Inductive, PTL

\* Of two values for one name the one that lost is under the prefixed name.
THEOREM LoserStays == Spec => []LoserKept
<1>1. IInv => LoserKept
  <2> SUFFICES ASSUME IInv, pc = "done", NEW n \in SuppliedNames, n[1] < 2,
                      Prefixed(n) \notin SuppliedNames,
                      NEW v \in Supplied(n), NEW w \in Supplied(n),
                      v # w, Supplied(n) = {v, w}
               PROVE  Written(n) \cup Written(Prefixed(n)) = {v, w}
    BY DEF LoserKept
  <2>1. n \in Name
    BY NameFacts DEF IInv, Inputs, SuppliedNames
  <2>2. Merged(n) = {v, w}
    BY MergedIsSupplied
  <2>3. Written(n) \subseteq {v, w}
    BY <2>1, <2>2, Unmoved DEF IInv
  <2>4. /\ Written(Prefixed(n)) = {} => {v, w} \subseteq Written(n)
        /\ Written(Prefixed(n)) \subseteq {v, w}
        /\ Written(n) \cap Written(Prefixed(n)) = {}
    BY <2>1, <2>2 DEF IInv, Kept
  <2>5. \A x, y \in Written(n) : x = y
    BY WrittenFacts DEF IInv
  <2>6. Written(n) # {}
    BY <2>1, <2>2 DEF IInv, Winner
  <2> QED
    BY <2>3, <2>4, <2>5, <2>6
<1> QED
  BY <1>1, Inductive, PTL

\* The metas the embedded CLEF sets, or whose first alternative among its
\* fields is usable, are taken from it, whatever the payload puts in its place.
THEOREM EmbeddedMetaWins == Spec => []EmbeddedMetaFirst
<1>1. IInv => EmbeddedMetaFirst
  BY DEF IInv, MetaFrom, EmbeddedMetaFirst
<1> QED
  BY <1>1, Inductive, PTL
=============================================================================
