------------------------------- MODULE ChunkRead -------------------------------
(***************************************************************************)
(* Reading a message: ChunkRead::read of sqelf/src/receive.rs, called by   *)
(* the JSON parser or by a decompressor with buffers of any size.          *)
(*                                                                         *)
(* The message is given by the lengths of its chunks; a byte is <<i, o>>,  *)
(* the byte at offset o of chunk i, both counted from 0.  One action       *)
(* starts a call, goes once round its loop, or returns from it.            *)
(***************************************************************************)
EXTENDS Integers, Sequences

CONSTANTS
  MaxChunks,  \* bound: chunks of a message
  MaxChunk,   \* bound: bytes of a chunk
  MaxBuf      \* bound: bytes of the caller's buffer

ASSUME BoundsAssumption ==
  MaxChunks \in Nat \ {0} /\ MaxChunk \in Nat /\ MaxBuf \in Nat

VARIABLES
  single,  \* MessageInner::Single, of one chunk, or Chunked
  lens,    \* the length of each chunk
  chunk,   \* ChunkRead.chunk
  cursor,  \* ChunkRead.cursor
  call,    \* "idle": between calls; "loop": in read
  buf,     \* room left in the caller's buffer, also when read has returned
  out      \* every byte read so far, in order

message == <<single, lens>>
reader == <<message, chunk, cursor, call, buf, out>>

\* Message::single refuses an empty body; a chunk may be empty.
ReadInit ==
  /\ lens \in UNION {[1..n -> 0..MaxChunk] : n \in 1..MaxChunks}
  /\ single \in BOOLEAN
  /\ single => Len(lens) = 1 /\ lens[1] > 0
  /\ chunk = 0
  /\ cursor = 0
  /\ call = "idle"
  /\ buf = 0
  /\ out = <<>>

length(i) == lens[i + 1]

\* The unread part of the current chunk.
readable == length(chunk) - cursor

\* cmp::min(readable.len(), b.len())
read == IF readable <= buf THEN readable ELSE buf

\* copy_from_slice of the next bytes of the current chunk.
Copied == out \o [k \in 1..read |-> <<chunk, cursor + k - 1>>]

Call(n) ==
  /\ call = "idle"
  /\ buf' = n
  /\ call' = "loop"
  /\ UNCHANGED <<message, chunk, cursor, out>>

\* The arm for Single copies once.
ReadSingle ==
  /\ call = "loop"
  /\ single
  /\ out' = Copied
  /\ cursor' = cursor + read
  /\ buf' = buf - read
  /\ call' = "idle"
  /\ UNCHANGED <<message, chunk>>

FaultyFinished == buf = 0 \/ chunk = Len(lens) \/ readable = 0

\* The loop has filled the buffer, or chunks.get has found no more chunks.
Finished == buf = 0 \/ chunk = Len(lens)

FaultyNextChunk == chunk + 1

NextChunk == IF read = readable THEN chunk + 1 ELSE chunk

NextCursor == IF read = readable THEN 0 ELSE cursor + read

ReadChunk ==
  /\ call = "loop"
  /\ ~single
  /\ ~Finished
  /\ out' = Copied
  /\ chunk' = NextChunk
  /\ cursor' = NextCursor
  /\ buf' = buf - read
  /\ UNCHANGED <<message, call>>

ReturnChunked ==
  /\ call = "loop"
  /\ ~single
  /\ Finished
  /\ call' = "idle"
  /\ UNCHANGED <<message, chunk, cursor, buf, out>>

ReadNext ==
  \/ \E n \in 0..MaxBuf : Call(n)
  \/ ReadSingle
  \/ ReadChunk
  \/ ReturnChunked

ReadSpec == ReadInit /\ [][ReadNext]_reader
-----------------------------------------------------------------------------
(* Properties.                                                             *)

Earlier(a, b) == a[1] < b[1] \/ (a[1] = b[1] /\ a[2] < b[2])

AllBytes ==
  {a \in (0..(Len(lens) - 1)) \X (0..MaxChunk) : a[2] < length(a[1])}

\* Whatever the sizes of the buffers, what has been read is the concatenation
\* of the chunks up to the current position: every byte before it once, in
\* order, and none after it; and that position is inside the message, so that
\* &bytes[self.cursor..] never panics.
ReadsConcatenation ==
  /\ chunk \in 0..Len(lens)
  /\ chunk < Len(lens) => cursor \in 0..length(chunk)
  /\ {out[k] : k \in 1..Len(out)} =
       {a \in AllBytes : Earlier(a, <<chunk, cursor>>)}
  /\ \A j, k \in 1..Len(out) : j < k => Earlier(out[j], out[k])

\* read returns less than was asked for, and so 0, which its caller takes for
\* the end of the message, only when every byte has been read: an empty chunk
\* or the end of a chunk is never mistaken for the end.
ShortOnlyAtEnd ==
  (call = "idle" /\ buf > 0) => AllBytes = {out[k] : k \in 1..Len(out)}
=============================================================================
