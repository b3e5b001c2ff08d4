------------------------------- MODULE UdpServer -------------------------------
(***************************************************************************)
(* The server on UDP, from the network to the processor: clients whose     *)
(* datagrams are lost, repeated and reordered, UdpFramed (external,        *)
(* tokio-util) with the codec of sqelf/src/server/udp.rs, the receiver of  *)
(* module Gelf, and the arm of the select! loop of server/mod.rs that      *)
(* processes what comes out.  How the loop ends is module Lifecycle.       *)
(***************************************************************************)
EXTENDS Integers, Sequences, FiniteSets, BagsExt

CONSTANTS
  \* of the receiver, see module Gelf
  Ids, Bodies, EmptyBody, MaxByte, U64Max, incomplete_capacity,
  max_chunks_per_message, incomplete_timeout_ms, Time, MaxOpened,
  Contents,  \* the chunks of the message a client sends under each id
  Undivided, \* the same message in one datagram
  Copies     \* bound: how often the network delivers a datagram of each

\* What a message looks like when it is processed.
Forms(id) == {Contents[id], <<Undivided[id]>>}

ASSUME ContentsAssumption ==
  /\ Contents \in [Ids -> Seq(Bodies \ {EmptyBody})]
  /\ Undivided \in [Ids -> Bodies \ {EmptyBody}]
  /\ \A i, j \in Ids : Forms(i) \cap Forms(j) # {} => i = j
  /\ Copies \in [Ids -> Nat \ {0}]

VARIABLES
  by_id, by_arrival, counter, now, out,  \* the receiver, see module Gelf
  in_flight,  \* how many copies of each datagram can still be delivered
  sent,       \* the ids of the messages that were sent
  lost,       \* a datagram has been lost
  rd,         \* the datagram in the read buffer of UdpFramed
  pc,         \* "recv": the loop awaits the socket; "decode"; "process"
  processed   \* the bag of messages that were given to process

receiver == <<by_id, by_arrival, counter, now, out>>
network == <<in_flight, sent, lost>>
vars == <<receiver, network, rd, pc, processed>>

G == INSTANCE Gelf

\* The receiver is given what module Gelf assumes, and a message has no more
\* chunks than the bytes of a chunk header can count.
ASSUME ReceiverAssumption ==
  /\ G!BodiesAssumption
  /\ G!WidthAssumption
  /\ G!ConfigAssumption
  /\ G!TimeAssumption
  /\ G!BoundAssumption
  /\ \A id \in Ids : Len(Contents[id]) <= MaxByte
  /\ MaxByte > 0

-----------------------------------------------------------------------------
(* Datagrams.                                                              *)

Plain(body) == [kind |-> "plain", body |-> body]

ChunkOf(id, i, n) ==
  [kind |-> "chunk",
   chunk |-> [id |-> id, seq_num |-> i - 1, seq_count |-> n,
              body |-> Contents[id][i]]]

\* A message is sent in chunks, or as it is.
DatagramSets(id) ==
  LET n == Len(Contents[id])
  IN  {{ChunkOf(id, i, n) : i \in 1..n}, {Plain(Undivided[id])}}

\* Nobody's message: empty, a header cut short, a header that is refused.
Noise ==
  {[kind |-> "empty"], [kind |-> "short"]} \cup
    {[kind |-> "chunk",
      chunk |-> [id |-> id, seq_num |-> 1, seq_count |-> 1, body |-> EmptyBody]] :
       id \in Ids}

Datagrams == Noise \cup UNION UNION {DatagramSets(id) : id \in Ids}

Init ==
  /\ G!Init
  /\ in_flight = [d \in Datagrams |-> 0]
  /\ sent = {}
  /\ lost = FALSE
  /\ rd = [kind |-> "empty"]
  /\ pc = "recv"
  /\ processed = G!EmptyMap

-----------------------------------------------------------------------------
(* Clients, the network and the clock.                                     *)

\* The network delivers any number of copies of each datagram up to the bound,
\* in any order; none is a loss, also one by a full buffer of the socket.
Send(id) ==
  /\ id \notin sent
  /\ sent' = sent \cup {id}
  /\ \E D \in DatagramSets(id) : \E copies \in [D -> 0..Copies[id]] :
       /\ in_flight' = [d \in Datagrams |->
                          IF d \in D THEN copies[d] ELSE in_flight[d]]
       /\ lost' = (lost \/ \E d \in D : copies[d] = 0)
  /\ UNCHANGED <<receiver, rd, pc, processed>>

Tick == G!Tick /\ UNCHANGED <<network, rd, pc, processed>>

-----------------------------------------------------------------------------
(* UdpFramed and its codec.                                                *)

\* UdpFramed reads one datagram into its empty buffer.
Recv(d) ==
  /\ pc = "recv"
  /\ d \in Noise \/ in_flight[d] > 0
  /\ in_flight' = [in_flight EXCEPT ![d] = IF d \in Noise THEN @ ELSE @ - 1]
  /\ rd' = d
  /\ pc' = "decode"
  /\ UNCHANGED <<receiver, sent, lost, processed>>

\* Decode::decode of an empty buffer: None, and UdpFramed reads again.
DecodeEmpty ==
  /\ pc = "decode"
  /\ rd.kind = "empty"
  /\ pc' = "recv"
  /\ UNCHANGED <<receiver, network, rd, processed>>

\* What Gelf::decode makes of the datagram.
receive(d) ==
  \/ d.kind = "plain" /\ G!Unchunked(d.body)
  \/ d.kind # "plain" /\ G!GcFails
  \/ d.kind = "short" /\ G!Truncated
  \/ d.kind = "chunk" /\ G!chunked(d.chunk)

FaultyIntoReceived(o) == IF o.tag = "single" THEN "process" ELSE "decode"

\* into_received, and the arms of the loop: a message is processed; after a
\* chunk that completes nothing and after an error the stream is polled again.
into_received(o) ==
  IF o.tag \in {"single", "chunked"} THEN "process" ELSE "decode"

FaultyRest(d) == d

\* split_to takes the whole datagram; UdpFramed calls the codec again with the
\* rest before it reads another one.
Rest(d) == [kind |-> "empty"]

\* Decode::decode gives the datagram to receive.
Decode ==
  /\ pc = "decode"
  /\ rd.kind # "empty"
  /\ receive(rd)
  /\ rd' = Rest(rd)
  /\ pc' = into_received(out')
  /\ UNCHANGED <<network, processed>>

\* The loop processes the message, well or not, and polls the stream again.
Process ==
  /\ pc = "process"
  /\ processed' = BagAdd(processed, out.chunks)
  /\ pc' = "decode"
  /\ UNCHANGED <<receiver, network, rd>>

server == DecodeEmpty \/ Decode \/ Process

Next ==
  \/ \E id \in Ids : Send(id)
  \/ \E d \in Datagrams : Recv(d)
  \/ Tick
  \/ server

\* The server runs, and the socket hands out every datagram it holds.  Nothing
\* is assumed of clients, of the network or of the clock.
Fairness ==
  /\ WF_vars(server)
  /\ \A d \in Datagrams \ Noise : SF_vars(Recv(d))

Spec == Init /\ [][Next]_vars /\ Fairness
-----------------------------------------------------------------------------
(* Properties.                                                             *)

\* From end to end: whatever the network loses, repeats, reorders or makes up,
\* and wherever the clock goes, what is processed is a whole message that some
\* client sent, its bodies in order and with nothing of another message.
ProcessedWasSent ==
  \A m \in DOMAIN processed : \E id \in sent : m \in Forms(id)

\* Nothing is dropped without a cause: a message whose datagrams all arrive,
\* in any order and among any others, is processed, unless the clock moves (a
\* timeout) or the receiver overflows.
EveryMessageProcessed ==
  \A t \in Time :
    [](~lost /\ now = t /\ G!gc_succeeds /\ ~G!AtCapacity) =>
      \A id \in Ids :
        id \in sent ~> \E m \in Forms(id) : m \in DOMAIN processed

-----------------------------------------------------------------------------
(* The server implements delivery at most once per copy.                   *)

Times(m) == IF m \in DOMAIN processed THEN processed[m] ELSE 0

\* How often each message was processed, in one form or the other.
delivered ==
  [id \in Ids |->
     IF Contents[id] = <<Undivided[id]>> THEN Times(Contents[id])
     ELSE Times(Contents[id]) + Times(<<Undivided[id]>>)]

Service == INSTANCE Delivery

\* No datagram is used twice and no two of them make more than one event: a
\* message is processed, one event at a time and only once it was sent, at most
\* as often as the network delivers each of its datagrams, counting both forms
\* together; so without duplicates at most once.
ImplementsDelivery == Service!Spec
=============================================================================
