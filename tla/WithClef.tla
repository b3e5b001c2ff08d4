------------------------------- MODULE WithClef --------------------------------
(***************************************************************************)
(* One message on its way from the receiver to the output:                 *)
(* Process::with_clef and read_as_clef of sqelf/src/process/mod.rs, the    *)
(* compression and the reader of Message in receive.rs, and the strings of *)
(* process/str.rs, with the timestamps of module Timestamp.  A message in  *)
(* one piece that is not compressed is parsed where it lies; any other is  *)
(* read through a decoder.  Both ways exist with and without the raw       *)
(* payload.                                                                *)
(*                                                                         *)
(* A document is what the client wrote: a GELF event, with the length of   *)
(* its host, its timestamp and those of its fields that have the name of   *)
(* the raw payload, or something else.  Of its bytes only the first two    *)
(* are told apart.  That the chunks are read in order is module ChunkRead. *)
(***************************************************************************)
EXTENDS Timestamp, Sequences

CONSTANT INLINE_STRING_CAPACITY

ASSUME CapacityAssumption == INLINE_STRING_CAPACITY \in Nat

VARIABLES
  include_raw_payload,
  checked,   \* the build checks for overflow of integers
  msg,       \* the message received
  pc,        \* "with_clef", "into_reader", "read", "output", "done"
  counted,   \* METRICS.process.msg
  result     \* the event given to the output, or why there is none

vars == <<include_raw_payload, checked, msg, pc, counted, result>>

Raw == "raw_payload"
Underscored == "_raw_payload"

\* One second, as every client can write it.
Plain == [mantissa |-> 1, scale |-> 0, negative |-> FALSE]

Documents ==
  [kind : {"event"}, fields : SUBSET {Raw, Underscored},
   host : {0, INLINE_STRING_CAPACITY, INLINE_STRING_CAPACITY + 1},
   timestamp : {Plain}]
    \cup [kind : {"other", "not_utf8"}, fields : {{}}, host : {0},
             timestamp : {Plain}]

\* The first bytes of an encoding.  A zlib stream names its window, and its
\* header is a multiple of 31.
ZlibHeads == {h \in {104, 120} \X {1, 5, 94, 156} : (h[1] * 256 + h[2]) % 31 = 0}

Heads(form, doc) ==
  CASE form = "gzip" -> {<<31, 139>>}
    [] form = "zlib" -> ZlibHeads
    [] form = "plain" /\ doc.kind = "event" -> {<<123, 34>>, <<32, 123>>}
    [] OTHER -> {<<120, 94>>, <<120, 121>>, <<31, 32>>, <<123, 34>>}

\* first is how many of these bytes are in the first chunk; a message that is
\* not intact is cut short after its head.
Variants(d, f) ==
  [doc : {d}, form : {f}, head : Heads(f, d), chunked : BOOLEAN, first : 0..2,
   intact : BOOLEAN]

Messages == UNION {Variants(d, f) : d \in Documents, f \in {"plain", "gzip", "zlib"}}

\* An event in one piece that is not compressed, with any timestamp.
Dated ==
  {[doc |-> [kind |-> "event", fields |-> {}, host |-> 0, timestamp |-> ts],
    form |-> "plain", head |-> <<123, 34>>, chunked |-> FALSE, first |-> 2,
    intact |-> TRUE] : ts \in Decimals}

Init ==
  /\ include_raw_payload \in BOOLEAN
  /\ checked \in BOOLEAN
  /\ msg \in {m \in Messages : m.chunked \/ m.first = 2} \cup Dated
  /\ pc = "with_clef"
  /\ counted = 0
  /\ result = [tag |-> "none"]

-----------------------------------------------------------------------------
(* Message.                                                                *)

peek_magic_bytes(src) == IF Len(src) < 2 THEN <<>> ELSE SubSeq(src, 1, 2)

detect(header) ==
  CASE header = <<31, 139>> -> "gzip"
    [] Len(header) = 2 /\ header[1] = 120
         /\ (header[1] * 256 + header[2]) % 31 = 0 -> "zlib"
    [] OTHER -> "none"

FaultyCompression ==
  IF msg.chunked THEN "none" ELSE detect(peek_magic_bytes(msg.head))

\* A message in one piece has kept what decode detected in its first bytes.
compression == detect(peek_magic_bytes(SubSeq(msg.head, 1, msg.first)))

\* The bytes lie in one piece as the client wrote them.
bytes == ~msg.chunked /\ compression = "none"

\* What the reader gives is the document.
Decodes ==
  /\ msg.intact
  /\ compression = IF msg.form = "plain" THEN "none" ELSE msg.form

-----------------------------------------------------------------------------
(* Strings.                                                                *)

\* Deserialize for Inlinable: visit_str.
Inlinable(len) == IF len > INLINE_STRING_CAPACITY THEN "spilled" ELSE "inline"

\* InlineString::from copies into an array of that many bytes.
Panics(len) == Inlinable(len) = "inline" /\ len > INLINE_STRING_CAPACITY

-----------------------------------------------------------------------------
(* The event.                                                              *)

FaultyAdd(fields, k, v) == [n \in DOMAIN fields \cup {k} |->
                              IF n = k THEN v ELSE fields[n]]

\* A field is added only where there is none.
add(fields, k, v) == [n \in DOMAIN fields \cup {k} |->
                        IF n \in DOMAIN fields THEN fields[n] ELSE v]

Client(doc) == [n \in doc.fields |-> <<"client", n>>]

Parsed(doc) ==
  IF include_raw_payload THEN add(Client(doc), Raw, <<"text">>) ELSE Client(doc)

\* to_clef on the fields of these names: the underscored one is merged first,
\* as Raw, and is saved under the prefixed name when Raw replaces it.
\* The time is that of now when from_decimal returns None.
to_clef(fields, time) ==
  [tag |-> "event",
   time |-> time,
   raw_payload |-> CASE Raw \in DOMAIN fields -> fields[Raw]
                     [] DOMAIN fields = {Underscored} -> fields[Underscored]
                     [] OTHER -> <<>>,
   saved |-> IF DOMAIN fields = {Raw, Underscored}
             THEN fields[Underscored] ELSE <<>>]

Outcome(doc) ==
  LET time == from_decimal(doc.timestamp, checked) IN
  CASE doc.kind # "event" -> [tag |-> "error"]
    [] doc.kind = "event" /\ time.tag = "panic" -> [tag |-> "panic"]
    [] OTHER -> to_clef(Parsed(doc), time)

-----------------------------------------------------------------------------
(* with_clef.                                                              *)

Goto(p, r) ==
  /\ pc' = p
  /\ result' = r
  /\ UNCHANGED <<include_raw_payload, checked, msg>>

\* from_slice borrows its strings.  A document cut short does not parse, and
\* neither does one that is not UTF-8.
FromSlice ==
  /\ bytes
  /\ Goto("output", IF msg.intact /\ msg.form = "plain" THEN Outcome(msg.doc)
                    ELSE [tag |-> "error"])

\* increment! counts at level DEBUG, which from_env sets with the option.
with_clef ==
  /\ pc = "with_clef"
  /\ counted' = IF include_raw_payload THEN counted + 1 ELSE counted
  /\ FromSlice \/ (~bytes /\ Goto("into_reader", result))

\* The decoder reads the header of the stream.
into_reader ==
  /\ pc = "into_reader"
  /\ \/ Goto("read", result)
     \/ compression # "none" /\ ~Decodes /\ Goto("output", [tag |-> "error"])
  /\ UNCHANGED counted

\* read_to_string and from_str, or from_reader.  A stream taken for text that
\* is none, or cut short, neither is UTF-8 nor parses.
Read ==
  /\ pc = "read"
  /\ Goto("output",
          CASE ~Decodes -> [tag |-> "error"]
            [] Decodes /\ Panics(msg.doc.host) -> [tag |-> "panic"]
            [] OTHER -> Outcome(msg.doc))
  /\ UNCHANGED counted

\* The event is written and printed; an error is returned to the server.
read_as_clef ==
  /\ pc = "output"
  /\ Goto("done", IF result.tag = "event" /\ SerializePanics(result.time.stamp)
                  THEN [tag |-> "panic"] ELSE result)
  /\ UNCHANGED counted

Next == with_clef \/ into_reader \/ Read \/ read_as_clef

Spec == Init /\ [][Next]_vars
-----------------------------------------------------------------------------
(* Properties.                                                             *)

\* The compression of a message shows if it is a full zlib window or gzip, and
\* no chunk boundary is inside the two bytes that name it.
Visible ==
  \/ msg.form = "plain"
  \/ msg.first = 2 /\ msg.head[1] \in {31, 120}

\* The time can be written, or is replaced by that of now.
Writable ==
  LET ts == msg.doc.timestamp IN
  ts.negative \/ (ts.scale <= Digits /\ secs(ts) \notin (FormatMax + 1)..SystemMax)

\* The event comes out of each of the four ways through with_clef for the same
\* messages: in one piece or in chunks, cut wherever, compressed or not, with
\* or without the raw payload, and with a host of any length.  A message whose
\* compression does not show, that is cut short or is no GELF is an error, and
\* none is a panic, if nothing is the matter with its timestamp.
ConvertedIffReadable ==
  pc = "done" /\ Writable =>
    result.tag = IF msg.doc.kind = "event" /\ msg.intact /\ Visible
                 THEN "event" ELSE "error"

\* On every way the raw payload is added when it was asked for, beside what the
\* client sent under its name: a field raw_payload of the client stays, and its
\* _raw_payload, which would be written under the same name, is saved.
RawPayloadBeside ==
  result.tag = "event" =>
    /\ include_raw_payload /\ Raw \notin msg.doc.fields =>
         result.raw_payload = <<"text">>
    /\ \A n \in msg.doc.fields :
         <<"client", n>> \in {result.raw_payload, result.saved}

\* The timestamps sent and kept, as integers: times 10^(scale + Digits).
Sent == IF msg.doc.timestamp.negative THEN 0
        ELSE msg.doc.timestamp.mantissa * Second

Kept == result.time.stamp * Pow10[msg.doc.timestamp.scale]

Printed == pc = "done" /\ result.tag = "event"

\* A time with no more decimals than a nanosecond has digits is printed to the
\* last digit if it can be written; only a time that a SystemTime does not hold
\* is replaced by that of now, and only one between the limits panics.
ExactToTheNanosecond ==
  LET ts == msg.doc.timestamp IN
  ts.scale <= Digits =>
    /\ Printed /\ result.time.tag = "given" => Kept = Sent
    /\ Printed /\ result.time.tag = "none" => secs(ts) > SystemMax
    /\ result.tag = "panic" => secs(ts) \in (FormatMax + 1)..SystemMax

\* However many decimals a time has, and whether or not the exponent wraps, a
\* time that is printed is in the second the client meant, and not later than
\* what it meant: digits are lost, never carried into the seconds.  A time before
\* the epoch counts as the epoch, which is what from_decimal makes of it.
SameSecond ==
  Printed /\ result.time.tag = "given" =>
    Kept <= Sent /\ Sent < Kept + Second * Pow10[msg.doc.timestamp.scale]

\* The test timestamp_from_decimal_overflow: "Ensure we don't panic on
\* timestamps that are out of range".
OutOfRangeNeverPanics ==
  msg.doc.timestamp.scale <= Digits => result.tag # "panic"
=============================================================================
