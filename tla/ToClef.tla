-------------------------------- MODULE ToClef --------------------------------
(***************************************************************************)
(* gelf::Message::to_clef of sqelf/src/process/mod.rs: the fields of one   *)
(* event from its three sources, the CLEF or JSON embedded in              *)
(* short_message, the additional fields of the GELF payload and the        *)
(* built-in fields of the GELF envelope.                                   *)
(*                                                                         *)
(* A name is <<k, base>>: base with k underscores in front.  A value is    *)
(* where it came from, [source, name], so that the result shows what was   *)
(* kept and what was lost.  A short_message that is not JSON embeds no     *)
(* fields and is itself the message.                                       *)
(*                                                                         *)
(* The fields are a HashMap with keys of type Str (process/str.rs).  A key *)
(* read from JSON borrows its text from the input, or owns it when it had  *)
(* to be unescaped; the names of the code borrow, a prefixed name is owned.*)
(***************************************************************************)
EXTENDS Integers, Sequences

CONSTANTS
  EmbeddedNames,  \* names a field of the embedded JSON can have
  EscapedNames,   \* those of them that may be written with an escape
  PayloadKeys,    \* keys an additional field of the GELF payload can have
  LowBases,       \* bases that sort before '_': the empty one, and those that
                  \* start with an uppercase letter, a digit or '@'
  Builtins,       \* among the envelope's host, facility, file and line
  Metas           \* among level, timestamp, exception, message

\* The members the event has of its own, beside the fields.
MemberNames == {<<0, "@t">>, <<0, "@l">>, <<0, "@m">>, <<0, "@mt">>, <<0, "@x">>}

\* serde puts the keys of the built-in fields into fields of their own, so
\* they are never among the additional ones; and the members of an embedded
\* CLEF event that the event has of its own.
ASSUME NamesAssumption ==
  /\ \A n \in EmbeddedNames \cup PayloadKeys : n \in Nat \X STRING
  /\ EmbeddedNames \cap MemberNames = {}
  /\ LowBases \cap Builtins = {}
  /\ EscapedNames \subseteq EmbeddedNames
  /\ \A n \in PayloadKeys : n[1] = 0 => n[2] \notin Builtins
  /\ Builtins \subseteq {"host", "facility", "file", "line"}
  /\ Metas \subseteq {"level", "timestamp", "exception", "message"}

VARIABLES
  embedded,  \* the fields of the embedded JSON
  usable,    \* those of them that are strings (for timestamp: that parse)
  own,       \* the metas the embedded CLEF sets itself, as @l, @t, @x, @m
  payload,   \* the additional fields not yet merged
  envelope,  \* the built-in fields not yet merged
  given,     \* history: the keys of payload and of envelope at the start
  pc,        \* "meta", "merge", "done"
  meta,      \* where each meta was taken from
  fields     \* clef.additional: the entries [key, value] of the map

vars == <<embedded, usable, own, payload, envelope, given, pc, meta, fields>>

inputs == <<embedded, usable, own, given>>

Value(source, name) == [source |-> source, name |-> name]

-----------------------------------------------------------------------------
(* Str, and the HashMap of fields: a key is found when hash and eq agree.  *)

Borrowed(n) == [form |-> "borrowed", text |-> n]

Owned(n) == [form |-> "owned", text |-> n]

as_ref(k) == k.text

FaultyHash(k) == <<k.form, as_ref(k)>>

hash(k) == as_ref(k)

eq(k, j) == as_ref(k) = as_ref(j)

Entry(k, v) == [key |-> k, value |-> v]

get(es, k) == {e \in es : hash(e.key) = hash(k) /\ eq(e.key, k)}

\* The entry that is there keeps its key.
insert(es, k, v) ==
  LET old == get(es, k) IN
  IF old = {} THEN es \cup {Entry(k, v)}
  ELSE (es \ old) \cup {Entry(e.key, v) : e \in old}

-----------------------------------------------------------------------------
\* visit_borrowed_str, or visit_str and visit_string.
Deserialize(n, unescaped) == IF n \in unescaped THEN Owned(n) ELSE Borrowed(n)

\* The fields of a short_message that is a JSON object; another has none.
maybe_from_json(names, unescaped) ==
  {Entry(Deserialize(n, unescaped), Value("embedded", n)) : n \in names}

Init ==
  /\ embedded \in SUBSET EmbeddedNames
  /\ usable \in SUBSET embedded
  /\ own \in SUBSET Metas
  /\ payload \in SUBSET PayloadKeys
  /\ envelope \in SUBSET Builtins
  /\ given = <<payload, envelope>>
  /\ pc = "meta"
  /\ meta = [m \in Metas |-> "unset"]
  /\ \E unescaped \in SUBSET (embedded \cap EscapedNames) :
       fields = maybe_from_json(embedded, unescaped)

-----------------------------------------------------------------------------
(* @l, @t, @x and @m.                                                      *)

\* The names find_first tries, in this order.
Alternatives ==
  [level     |-> <<"level", "lvl", "LVL">>,
   timestamp |-> <<"timestamp", "ts", "TIMESTAMP", "TS">>,
   exception |-> <<>>,
   message   |-> <<"message", "msg", "MSG">>]

\* The positions of the alternatives that are fields of the event.
Found(m) == {i \in 1..Len(Alternatives[m]) :
               get(fields, Borrowed(<<0, Alternatives[m][i]>>)) # {}}

FaultyFindFirst(m) ==
  <<0, Alternatives[m][CHOOSE i \in Found(m) : \A j \in Found(m) : i >= j]>>

find_first(m) ==
  <<0, Alternatives[m][CHOOSE i \in Found(m) : \A j \in Found(m) : i <= j]>>

\* The first alternative is taken if it is usable; the others are not tried.
HasFirst(m) == Found(m) # {} /\ find_first(m) \in usable

ValueAt(n) == (CHOOSE e \in get(fields, Borrowed(n)) : TRUE).value

\* The embedded CLEF, one of its fields, or the GELF message (its level or
\* info, its timestamp or now, its full_message); a message is never taken
\* from there, as short_message is where the embedded JSON was.
Resolved(m) ==
  CASE m \in own -> "clef"
    [] m \notin own /\ HasFirst(m) -> ValueAt(find_first(m)).source
    [] m \notin own /\ ~HasFirst(m) /\ m = "message" -> "none"
    [] OTHER -> "gelf"

ResolveMeta ==
  /\ pc = "meta"
  /\ meta' = [m \in Metas |-> Resolved(m)]
  /\ pc' = "merge"
  /\ UNCHANGED <<inputs, payload, envelope, fields>>

-----------------------------------------------------------------------------
(* The fields of higher priority.                                          *)

FaultyPrefixed(n) == <<n[1] + 1, n[2]>>

Prefixed(n) == <<n[1] + 2, n[2]>>

FaultyOverride(n, v) ==
  IF get(fields, Borrowed(n)) = {} THEN insert(fields, Borrowed(n), v)
  ELSE insert(fields, Owned(Prefixed(n)), v)

override_value(n, v) ==
  LET inserted == insert(fields, Borrowed(n), v) IN
  IF get(fields, Borrowed(n)) = {} THEN inserted
  ELSE insert(inserted, Owned(Prefixed(n)), ValueAt(n))

\* The key without its leading underscore.
Stripped(k) == IF k[1] > 0 THEN <<k[1] - 1, k[2]>> ELSE k

\* The fields of a serde_json map come in the byte order of their keys, and an
\* underscore may sort before or after the base.  Keys with different bases
\* touch different fields, in any order.
IsNext(k) ==
  /\ k \in payload
  /\ \A j \in payload :
       j[2] = k[2] => IF k[2] \in LowBases THEN k[1] <= j[1] ELSE j[1] <= k[1]

FaultyMergeAdditional(k) ==
  /\ pc = "merge"
  /\ IsNext(k)
  /\ payload' = payload \ {k}
  /\ fields' = insert(fields, Borrowed(Stripped(k)), Value("payload", k))
  /\ UNCHANGED <<inputs, envelope, pc, meta>>

MergeAdditional(k) ==
  /\ pc = "merge"
  /\ IsNext(k)
  /\ payload' = payload \ {k}
  /\ fields' = override_value(Stripped(k), Value("payload", k))
  /\ UNCHANGED <<inputs, envelope, pc, meta>>

\* The built-in fields that are set, after all additional ones.
MergeBuiltin(b) ==
  /\ pc = "merge"
  /\ payload = {}
  /\ b \in envelope
  /\ envelope' = envelope \ {b}
  /\ fields' = override_value(<<0, b>>, Value("envelope", <<0, b>>))
  /\ UNCHANGED <<inputs, payload, pc, meta>>

Return ==
  /\ pc = "merge"
  /\ payload = {}
  /\ envelope = {}
  /\ pc' = "done"
  /\ UNCHANGED <<inputs, payload, envelope, meta, fields>>

to_clef ==
  \/ ResolveMeta
  \/ \E k \in PayloadKeys : MergeAdditional(k)
  \/ \E b \in Builtins : MergeBuiltin(b)
  \/ Return

Spec == Init /\ [][to_clef]_vars
-----------------------------------------------------------------------------
(* Properties.  What the three sources supplied for a name:                *)

Supplied(n) ==
  {Value("embedded", n) : e \in embedded \cap {n}}
    \cup {Value("payload", k) : k \in {j \in given[1] : Stripped(j) = n}}
    \cup {Value("envelope", <<0, b>>) : b \in {c \in given[2] : <<0, c>> = n}}

Rank == [embedded |-> 1, payload |-> 2, envelope |-> 3]

SuppliedNames ==
  embedded \cup {Stripped(k) : k \in given[1]} \cup {<<0, b>> : b \in given[2]}

\* A field holds a value that some source supplied for its name, or for a name
\* it was moved from, two underscores at a time; and nothing of the payload or
\* the envelope is there before it is merged.  In the order of the keys a value
\* is moved more than once only when its base sorts before '_': embedded X with
\* the payload's _X and ___X ends as ____X.
TypeOK ==
  /\ pc \in {"meta", "merge", "done"}
  /\ meta \in [Metas -> {"unset", "clef", "embedded", "gelf", "none"}]
  /\ \A e \in fields :
       LET n == as_ref(e.key) IN
       \E i \in 0..n[1] :
         /\ 2 * i <= n[1]
         /\ n[2] \in LowBases \/ i <= 1
         /\ e.value \in Supplied(<<n[1] - 2 * i, n[2]>>)

\* One JSON member is written per entry, and the event's own beside them: the
\* map has no name twice, whether its keys borrow or own their text and in
\* whatever order fields of all sources and the values they replace meet in it;
\* and a name of the event's own is among them only when a key of the payload
\* asks for it (@t or _@t, which is then written a second time), never through
\* a value that was moved.
NamesUnique ==
  /\ \A e, f \in fields : as_ref(e.key) = as_ref(f.key) => e = f
  /\ \A e \in fields :
       as_ref(e.key) \in MemberNames =>
         \E k \in given[1] : as_ref(e.key) = Stripped(k)

\* The values written under a name.
Written(n) == {e.value : e \in {f \in fields : as_ref(f.key) = n}}

\* "GELF envelope > GELF payload > Embedded CLEF/JSON": a name that cannot be
\* another one's prefixed name ends up with a value of the highest priority
\* that any source supplied for it, in whatever order the sources are merged
\* and however many keys of the payload strip to it.
HighestPriorityWins ==
  pc = "done" =>
    \A n \in SuppliedNames :
      n[1] < 2 =>
        \E v \in Written(n) \cap Supplied(n) :
          \A w \in Supplied(n) : Rank[w.source] <= Rank[v.source]

\* When two sources supply a name, and nobody supplies the prefixed name, the
\* value that lost is found under the prefixed name.
LoserKept ==
  pc = "done" =>
    \A n \in SuppliedNames :
      (n[1] < 2 /\ Prefixed(n) \notin SuppliedNames) =>
        \A v, w \in Supplied(n) :
          (v # w /\ Supplied(n) = {v, w}) =>
            Written(n) \cup Written(Prefixed(n)) = {v, w}

\* "Timestamp, message, and level information from the embedded CLEF is given
\* precedence over the outer GELF envelope": nothing of the GELF message is
\* used for a meta that the embedded CLEF sets, or that the first alternative
\* among its fields can supply, although fields of the payload that have the
\* name of an alternative replace that field.
EmbeddedMetaFirst ==
  pc = "done" =>
    \A m \in Metas :
      LET names == {i \in 1..Len(Alternatives[m]) :
                      <<0, Alternatives[m][i]>> \in embedded}
      IN  /\ m \in own => meta[m] = "clef"
          /\ \A i \in names :
               (/\ m \notin own
                /\ \A j \in names : i <= j
                /\ <<0, Alternatives[m][i]>> \in usable) => meta[m] = "embedded"

\* The documentation of to_clef: "If fields conflict, then the lower-priority
\* field is included with a double-underscore-prefixed name".
ConflictKept ==
  pc = "done" =>
    \A n \in SuppliedNames :
      (n[1] < 2 /\ Prefixed(n) \notin SuppliedNames) =>
        \A v \in Supplied(n) : \E e \in fields : e.value = v
=============================================================================
