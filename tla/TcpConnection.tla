----------------------------- MODULE TcpConnection -----------------------------
(***************************************************************************)
(* One TCP connection of sqelf/src/server/tcp.rs: the codec Decode, driven *)
(* by FramedRead (external, tokio-util) and wrapped in a TimeoutStream.    *)
(*                                                                         *)
(* Bytes are numbered from 0 in the order the client sends them, and only  *)
(* whether a byte is the separator '\0' matters.  The buffer src is the    *)
(* interval lo..(hi - 1): reading raises hi, split_to and advance raise lo.*)
(* A frame is a pair <<a, b>>, the bytes a..(b - 1).                       *)
(*                                                                         *)
(* One action is one arm of the match in decode, after which the loop goes *)
(* round or decode returns, or one thing the connection waits for.         *)
(***************************************************************************)
EXTENDS Integers, Sequences, FiniteSets

CONSTANTS
  max_size_bytes,  \* Config.tcp_max_size_bytes
  keep_alive,      \* Config.tcp_keep_alive_secs, in clock ticks
  MaxLen           \* bound: bytes a client sends on one connection

ASSUME SizeAssumption == max_size_bytes \in Nat
ASSUME KeepAliveAssumption == keep_alive \in Nat
ASSUME MaxLenAssumption == MaxLen \in Nat

VARIABLES
  nul,         \* which of the bytes read so far are separators
  hi,          \* bytes read so far
  lo,          \* bytes consumed so far
  read_head,   \* Decode.read_head, relative to lo
  discarding,  \* Decode.discarding
  eof,         \* FramedRead has read end of file: decode_eof runs
  pc,          \* "read": waiting for input; "decode"; "closed"
  received,    \* the frames given to receive, in order
  idle,        \* ticks on the timer of TimeoutStream
  silent,      \* history: ticks since the last item of any kind
  barren       \* history: ticks since the last complete message

decoder == <<lo, read_head, discarding, received>>
clocks == <<idle, silent, barren>>
vars == <<nul, hi, eof, pc, decoder, clocks>>

-----------------------------------------------------------------------------
Init ==
  /\ nul = {}
  /\ hi = 0
  /\ lo = 0
  /\ read_head = 0
  /\ discarding = FALSE
  /\ eof = FALSE
  /\ pc = "read"
  /\ received = <<>>
  /\ idle = 0
  /\ silent = 0
  /\ barren = 0

(* The buffer, as decode sees it.                                          *)

len == hi - lo

FaultyReadTo == max_size_bytes + 1

read_to == IF len < max_size_bytes + 1 THEN len ELSE max_size_bytes + 1

\* Separators at or after the read head.
Separators == {p \in nul : lo + read_head <= p}

\* Where decode finds the next separator; frame_end is sep - lo.
sep == CHOOSE p \in Separators : \A q \in Separators : p <= q

FaultyTooBigLate(n) == n > max_size_bytes + 1

FaultyTooBig(n) == n >= max_size_bytes

TooBig(n) == n > max_size_bytes

\* receive is called with a frame.  An empty frame is never a message; any
\* other one is a message, a chunk of one, or an error.  Whatever it is, it is
\* an item of the stream, and TimeoutStream starts its timer again.
Receive(a, b) ==
  /\ received' = Append(received, <<a, b>>)
  /\ idle' = 0
  /\ silent' = 0
  /\ \/ barren' = barren
     \/ a < b /\ barren' = 0

-----------------------------------------------------------------------------
(* Decode::decode                                                          *)

FaultyDeliver ==
  /\ pc = "decode"
  /\ ~discarding
  /\ Separators # {}
  /\ ~TooBig(sep - lo)
  /\ Receive(lo, sep)
  /\ lo' = sep + 1
  /\ UNCHANGED <<nul, hi, eof, pc, discarding, read_head>>

\* A delimiter was found: split the frame off.  FramedRead will call again.
Deliver ==
  /\ pc = "decode"
  /\ ~discarding
  /\ Separators # {}
  /\ ~TooBig(sep - lo)
  /\ Receive(lo, sep)
  /\ lo' = sep + 1
  /\ read_head' = 0
  /\ UNCHANGED <<nul, hi, eof, pc, discarding>>

\* A delimiter was found, but the frame is too big.
OverflowDelimited ==
  /\ pc = "decode"
  /\ ~discarding
  /\ Separators # {}
  /\ TooBig(sep - lo)
  /\ discarding' = TRUE
  /\ UNCHANGED <<nul, hi, eof, pc, lo, read_head, received, clocks>>

\* No delimiter, and already too big.
OverflowUndelimited ==
  /\ pc = "decode"
  /\ ~discarding
  /\ Separators = {}
  /\ TooBig(len)
  /\ discarding' = TRUE
  /\ UNCHANGED <<nul, hi, eof, pc, lo, read_head, received, clocks>>

\* No delimiter yet: decode returns None and more is read.
NeedMore ==
  /\ pc = "decode"
  /\ ~discarding
  /\ Separators = {}
  /\ ~TooBig(len)
  /\ ~eof
  /\ read_head' = read_to
  /\ pc' = "read"
  /\ UNCHANGED <<nul, hi, eof, lo, discarding, received, clocks>>

\* The end of a frame that is being discarded.
DiscardDelimited ==
  /\ pc = "decode"
  /\ discarding
  /\ Separators # {}
  /\ lo' = sep + 1
  /\ discarding' = FALSE
  /\ read_head' = 0
  /\ UNCHANGED <<nul, hi, eof, pc, received, clocks>>

FaultyDiscardUndelimited ==
  /\ pc = "decode"
  /\ discarding
  /\ Separators = {}
  /\ lo' = lo + read_head
  /\ read_head' = 0
  /\ pc' = IF lo' < hi THEN "decode" ELSE IF eof THEN "closed" ELSE "read"
  /\ UNCHANGED <<nul, hi, eof, discarding, received, clocks>>

\* More of a frame that is being discarded.  When nothing is left decode
\* returns None, which at end of file is decode_eof's None.
DiscardUndelimited ==
  /\ pc = "decode"
  /\ discarding
  /\ Separators = {}
  /\ lo' = lo + read_to
  /\ read_head' = 0
  /\ pc' = IF lo' < hi THEN "decode" ELSE IF eof THEN "closed" ELSE "read"
  /\ UNCHANGED <<nul, hi, eof, discarding, received, clocks>>

(* Decode::decode_eof, when the decode it calls first returns None.        *)

EofRemainder ==
  /\ pc = "decode"
  /\ eof
  /\ ~discarding
  /\ Separators = {}
  /\ ~TooBig(len)
  /\ lo < hi
  /\ Receive(lo, hi)
  /\ lo' = hi
  /\ read_head' = 0
  /\ UNCHANGED <<nul, hi, eof, pc, discarding>>

\* Nothing is left: the stream ends and Listen drops the connection.
EofDone ==
  /\ pc = "decode"
  /\ eof
  /\ ~discarding
  /\ Separators = {}
  /\ lo = hi
  /\ read_head' = read_to
  /\ pc' = "closed"
  /\ UNCHANGED <<nul, hi, eof, lo, discarding, received, clocks>>

decode ==
  \/ Deliver
  \/ OverflowDelimited
  \/ OverflowUndelimited
  \/ NeedMore
  \/ DiscardDelimited
  \/ DiscardUndelimited
  \/ EofRemainder
  \/ EofDone

-----------------------------------------------------------------------------
(* FramedRead and its socket.                                              *)

FaultyRead(n, zeros) ==
  /\ pc = "read"
  /\ nul' = nul \cup zeros
  /\ hi' = hi + n
  /\ pc' = "decode"
  /\ idle' = 0
  /\ UNCHANGED <<eof, decoder, silent, barren>>

\* n bytes arrive, cut wherever the network cut them.
Read(n, zeros) ==
  /\ pc = "read"
  /\ nul' = nul \cup zeros
  /\ hi' = hi + n
  /\ pc' = "decode"
  /\ UNCHANGED <<eof, decoder, clocks>>

\* The client closed, or QuietClose took a TLS close or reset for a close.
Eof ==
  /\ pc = "read"
  /\ eof' = TRUE
  /\ pc' = "decode"
  /\ UNCHANGED <<nul, hi, decoder, clocks>>

\* Any other read error is an Err item, for which Listen drops the connection.
ReadError ==
  /\ pc = "read"
  /\ pc' = "closed"
  /\ UNCHANGED <<nul, hi, eof, decoder, clocks>>

(* TimeoutStream.  The timer is only looked at when there is nothing to    *)
(* read, and a timer that has run out wakes the connection before the      *)
(* clock ticks again.                                                      *)

Timeout ==
  /\ pc = "read"
  /\ idle = keep_alive
  /\ pc' = "closed"
  /\ UNCHANGED <<nul, hi, eof, decoder, clocks>>

Tick ==
  /\ pc = "read"
  /\ idle < keep_alive
  /\ idle' = idle + 1
  /\ silent' = IF silent <= keep_alive THEN silent + 1 ELSE silent
  /\ barren' = IF barren <= keep_alive THEN barren + 1 ELSE barren
  /\ UNCHANGED <<nul, hi, eof, pc, decoder>>

Reads ==
  \E n \in 1..(MaxLen - hi) :
    \E zeros \in SUBSET (hi..(hi + n - 1)) : Read(n, zeros)

Next == decode \/ Reads \/ Eof \/ ReadError \/ Timeout \/ Tick

\* decode is synchronous, clocks tick, and tokio fires timers: none of them
\* can be put off forever.  Nothing is assumed of the client.
Fairness == WF_vars(decode) /\ WF_vars(Tick) /\ WF_vars(Timeout)

SafetySpec == Init /\ [][Next]_vars

Spec == SafetySpec /\ Fairness
-----------------------------------------------------------------------------
(* Properties.                                                             *)

\* The buffer is an interval of what has been read: no split_to or advance in
\* decode reaches past the end of src, which would panic.
TypeOK ==
  /\ hi \in 0..MaxLen
  /\ nul \subseteq 0..(hi - 1)
  /\ lo \in 0..hi
  /\ read_head \in Nat
  /\ discarding \in BOOLEAN
  /\ eof \in BOOLEAN
  /\ pc \in {"read", "decode", "closed"}
  /\ received \in Seq((0..hi) \X (0..hi))
  /\ idle \in 0..keep_alive
  /\ silent \in 0..(keep_alive + 1)
  /\ barren \in 0..(keep_alive + 1)

\* decode may begin its search at the read head, on a buffer that has grown or
\* been cut since: it is inside src, where slicing is defined, and what is
\* before it holds no separator.
ReadHeadSound ==
  /\ lo + read_head <= hi
  /\ \A p \in nul : p < lo \/ lo + read_head <= p

\* When decode has returned and waits for input, the bytes it keeps are those
\* of one frame that may still turn out small enough; what the next read adds
\* comes on top.
BufferBound == pc = "read" => len <= max_size_bytes

(* The reference: what the bytes read so far consist of.                   *)

StartsFrame(a) == a = 0 \/ a - 1 \in nul

NoSeparator(a, b) == \A p \in nul : p < a \/ b <= p

\* The delimited frames that are small enough.
Delimited ==
  {f \in (0..hi) \X nul :
     /\ f[1] <= f[2]
     /\ StartsFrame(f[1])
     /\ NoSeparator(f[1], f[2])
     /\ f[2] - f[1] <= max_size_bytes}

\* What follows the last separator, when it is not empty and small enough.
Unterminated ==
  {f \in (0..hi) \X {hi} :
     /\ f[1] < f[2]
     /\ StartsFrame(f[1])
     /\ NoSeparator(f[1], f[2])
     /\ f[2] - f[1] <= max_size_bytes}

Given == {received[i] : i \in 1..Len(received)}

\* However the network cuts the stream into reads, receive is given exactly
\* the frames of the stream that are not too big, each once and in order; the
\* unterminated tail only at end of file, and nothing after a frame that was
\* discarded is lost.
FramingExact ==
  /\ Given \subseteq Delimited \cup (IF eof THEN Unterminated ELSE {})
  /\ pc # "decode" => Given = Delimited \cup (IF eof THEN Unterminated ELSE {})
  /\ \A i, j \in 1..Len(received) : i < j => received[i][2] < received[j][1]

\* A client that writes bytes without ever finishing a frame is not kept:
\* only items restart the timer, so an open connection produced one within
\* the keep-alive period ("not just whether or not it writes to the stream").
ItemWithinKeepAlive == pc # "closed" => silent <= keep_alive

\* Once the client has nothing more to say the connection is closed, whatever
\* it was in the middle of; decode never spins on its buffer.
EventuallyClosed == <>(pc = "closed")

\* The documentation of Config.tcp_keep_alive_secs: "If the client doesn't
\* complete a message within the period then the connection will be closed".
\* Items that complete no message (empty frames, chunks, errors) restart the
\* timer too.
MessageWithinKeepAlive == pc # "closed" => barren <= keep_alive
=============================================================================
