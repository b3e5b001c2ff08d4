# A TLA+ model of sqelf, the GELF input for Seq

`sqelf` listens on UDP or TCP, turns what it reads into GELF messages
(reassembling chunks), converts each message to CLEF and prints it for Seq.
This directory models the parts of it that keep state, checks them with TLC on
small instances and proves the central properties with TLAPS.

## The system and its parts

| Part | Source (`sqelf/src/`) | State it keeps | Operations |
|---|---|---|---|
| GELF receiver | `receive.rs`, struct `Gelf` | incomplete messages by id (`HashMap`) and by arrival (`BTreeMap`), an arrival counter | `decode`, `chunked`, `gc`, `push` |
| Message reading | `receive.rs`, `io.rs` | a cursor over the chunks of one message | `Compression::detect`, `read` |
| TCP connection | `server/tcp.rs`, `Decode`, `TimeoutStream`, `QuietClose` | buffer, read head, discarding flag, timer | `decode`, `decode_eof`, poll of the stream |
| TCP pool | `server/tcp.rs`, `Listen`, `TcpIncoming`, `accept`, `accept_tls` | up to 1024 open connections, one TLS handshake | `poll_next` |
| UDP transport | `server/udp.rs` | none beyond the socket | `decode` of one datagram |
| Server loop | `server/mod.rs` | the shutdown handle | `build`, `run`, the `select!` loop, `Handle::close` |
| Process | `main.rs` | the thread that watches stdin | `run`, `listen_for_stdin_closed`, `main` |
| Diagnostics | `diagnostics.rs` | atomic counters, the metrics thread and its channel | `init`, `stop`, `emit_metrics`, `increment!` |
| GELF to CLEF | `process/` | none between messages; a map of fields while one is converted | `with_clef`, `to_clef`, `override_value`, `add`, `Timestamp::from_decimal` |
| Strings | `process/str.rs` | none | hash, equality and deserializing of `Str`, `Inlinable` |
| Configuration | `config.rs` | the `Config` read from the environment | `from_env`, `is_present`, `is_truthy`, `read_environment` |

How they interact. The `select!` loop in the main task polls the transport
together with the shutdown handle and `ctrl_c`. The UDP transport hands each
datagram to the one `Gelf`; every TCP connection has a `Gelf` of its own, cloned
empty when the connection is accepted, and hands it each frame. A complete
message goes to the processor synchronously. The stdin watcher and the metrics
thread are ordinary threads: the first talks to the loop through a oneshot
channel, the second shares the atomic counters and is stopped through an mpsc
channel and joined.

What is hard in this code, and the property that stands for it:

* the receiver changes two maps in several places, some of them before a clock
  reading that may fail (`IndexesAgree`);
* datagrams are lost, repeated, reordered and mixed, and the wall clock goes
  anywhere (`ImplementsReassembly`, `TimeoutFromFirstChunk`, `LeavesForCause`,
  `NoLateJoin`, `StoredIncomplete`, `CapacityBound`);
* the network cuts a TCP stream anywhere, and oversize frames are discarded
  piecewise (`FramingExact`, `ReadHeadSound`, `BufferBound`);
* keep-alive timers race with input (`ItemWithinKeepAlive`, `EventuallyClosed`);
* the pool stops polling the listener when it is full, so somebody else has to
  wake the task (`NoLostWakeup`, `PoolBound`), and one task serves all
  connections (`EveryConnectionServed`, `AcceptProgress`);
* counters are taken while they are incremented, and the process ends while the
  metrics thread may be at work (`NoIncrementLost`, `FinalFlush`);
* a message is read through buffers whose ends fall anywhere in its chunks
  (`ReadsConcatenation`, `ShortOnlyAtEnd`);
* a field name can come from three sources, and the value that loses is kept
  under a name that can itself be taken (`HighestPriorityWins`, `LoserKept`,
  `EmbeddedMetaFirst`);
* from end to end, an event is processed only if a client sent it and not more
  often than it was delivered (`ProcessedWasSent`, `ImplementsDelivery`), and it is
  processed if nothing was lost (`EveryMessageProcessed`);
* there are four ways through `with_clef`, and compression is told from bytes
  that a chunk boundary may separate (`ConvertedIffReadable`,
  `RawPayloadBeside`);
* keys of one text borrow or own it (`NamesUnique`);
* the integers of a timestamp have four different limits
  (`ExactToTheNanosecond`, `SameSecond`, `OutOfRangeNeverPanics`);
* settings exist in two sets, and TLS is set up in steps that can fail
  (`TlsAsConfigured`, `FailureReported`, `QuietByDefault`);
* shutdown is one arm among busy ones, and must neither be missed nor happen by
  accident (`ShutdownCompletes`, `StopsForCause`).

`PROJECT.json` lists these hazards at their lines, and for every definition the
lines it models.

## Modules

`Gelf.tla` is the receiver. One action is one whole call of `decode`; the
disjuncts of `decode` are its ways out: `Unchunked`, `GcFails`, `Truncated`,
`Rejected`, `OnlyChunk`, `Open`, `OpenFails`, `Mismatch`, `Add`, `Complete`.
`gc` comes before everything else, as in the code, and its overflow part takes
effect even when its clock reading fails (`GcFails`). `by_id`, `by_arrival` and
`counter` are the fields of the struct; `out` is the result of the last call.
The wall clock `now` moves to any reading of `Time` at any step, also backwards
and before the epoch, and `Open`, which reads it a second time, may see another
reading than `gc` did. A body is an opaque value; only the empty one is told
apart. Compression is in `WithClef`.

`Reassembly.tla` is what the receiver promises: a lossy reassembly buffer in
which any call may forget any partial message, but a message is handed out only
whole, in order, unmixed, and by the call that supplies its last chunk. `Gelf`
implements it under the mapping `partial`, which forgets the timestamps and the
index by arrival.

`TcpConnection.tla` is one connection. Bytes are numbered, and only separators
are told apart; the buffer is an interval of the stream. Each arm of the `match`
in `Decode::decode` is an action, `decode_eof` adds `EofRemainder` and
`EofDone`. `FramedRead` is external: it reads when `decode` has returned `None`
and calls again after an item. `idle` is the timer of `TimeoutStream`, which
every item restarts; `silent` and `barren` are history variables, the time since
the last item and since the last complete message. What `receive` makes of a
non-empty frame is left open.

`Listen.tla` is the pool, with or without TLS: `Listen::poll_next` step by step,
with who holds a waker of the task. `waits` is the waker left by polling `accept` (with the
listener or with a handshake); a pooled connection holds one whenever it is not
in the queue of `FuturesUnordered`. The queue is first come, first served, a
pushed connection is queued, and a waker queues its connection once. What a
connection yields is free; the yield of `FuturesUnordered` after many polls
wakes the task itself and is not modelled. An accept can fail in two ways. A
connection that failed in the queue is taken from it (`FillAcceptFails`). With
no file descriptor left (`exhausted`, which comes and goes) the error takes
nothing, `filter_map` asks again at once, and only the budget tokio gives a task
ends that (`FillExhausted`): accept and every connection that would read are then
pending, and the task is woken for another run that begins the same way
(`PollSpent`). `readable` is the readiness tokio keeps for the listener, without
which accept is not tried.

`Lifecycle.tla` is the process: the steps of `run` and the arms of `select!`
in the main thread, the stdin watcher, and the metrics thread with one step per
atomic operation. The configuration is chosen in the initial state. Start-up can
fail at each stage, a UDP socket can fail. Panics are caught in `main` (exit code
1, no `diagnostics::stop`) and have their causes: `StartPanics` for init and the
runtime, `ProcessPanics` for a message whose event cannot be written (the finding
of `timestamp_range`), `OutputPanics` for `println!` and `eprintln!` once the
reader of the output has gone; in the metrics thread the latter is `EmitPanics`,
after which `stop` fails (`StopFails`). `message` says which kind of message is in
hand: an event, an error of `process`, or one that panics. A server that cannot
bind ends as a normal stop, as in the code: the error is emitted and `run` returns
`Ok`. A `SIGINT` before `ctrl_c` has been polled for the first time kills the
process, and `select!` does not poll every arm in every round; when it does poll
`ctrl_c` the handler is installed or cannot be, and the arm takes that error for
the signal (`CtrlCFails`).

`ChunkRead.tla` is the reader of a message's chunks, one action per turn of its
loop. A byte is its place in the message, so the order and completeness of what
was read can be seen in `out`. Its specification is `ReadSpec`, so that one module
can extend it and `WithClef` and prove about both.

`ToClef.tla` is `to_clef`. Values are their provenance, names are a base and a
number of underscores, and each call of `override_value` is a step. The keys of
the payload come in the order of serde's map, the byte order of the keys: for
most bases, more underscores come first, but for those that sort before `_`
(`LowBases`: uppercase letters, digits, `@`, the empty base) fewer do. Keys that
differ in more than underscores touch different fields.
`fields` is the map of the code, with keys that borrow or own their text, found
by `hash` and `eq`.
Level, timestamp, exception and message are resolved together, as all of them
read only what the embedded JSON supplied.

`UdpServer.tla` composes the UDP server: clients, a network that loses, repeats
and reorders (`Send` chooses how many copies of each datagram arrive, none
included), `UdpFramed` (external) with its codec, an instance of `Gelf`, and
the arm of the loop that processes. `UdpFramed` calls the codec with what is
left of a datagram before it reads another one (`Rest`, `DecodeEmpty`), which is
why the codec has to take the whole of it. A datagram nobody sent as part of a
message (`Noise`) can arrive at any time. The constants meet what `Gelf` assumes
of its own (`ReceiverAssumption`).

`Delivery.tla` is what the UDP server promises: a message that was sent may be
delivered, no more often than the network delivers it. There are no datagrams in
it. `UdpServer` implements it (`ImplementsDelivery`) by counting, for each
message, how often it was processed in either form, divided or not.

`WithClef.tla` is one message from the receiver to the output. A document stands
for what the client wrote; the encoding is told apart by its first two bytes, as
in the code, with real byte values. A decoder (external) gives the document of
an intact stream of its own format and fails on any other. The two branches of
`with_clef` are `FromSlice`, and `into_reader` followed by `Read`.

`Timestamp.tla`, which `WithClef` extends, has the operators for the timestamp of
a message, from the decimal to the text.
The widths are parameters, so that two digits and seven bits stand for nine
digits and 32 bits; `WrappedPow` is what a build without overflow checks computes
for the exponent that underflowed. That the formatter fails after the year 9999
and that `collect_str` of serde_json panics on such a failure is external, from
the versions in `Cargo.lock` (humantime 1.3.0, serde_json 1.0.124).

`Startup.tla` goes from the environment to a serving socket: `from_env` in both
modes, the level of diagnostics, `server::build` and the failures of each step.
rustls may refuse any certificate or key, and binding may fail.

`MCGelf.tla`, `MCToClef.tla` and `MCUdpServer.tla` hold the instances of `Gelf`,
`ToClef` and `UdpServer`; the other modules are checked directly.
`GelfProofs.tla`, `TcpConnectionProofs.tla`, `LifecycleProofs.tla`,
`ListenProofs.tla`, `WithClefProofs.tla`, `ToClefProofs.tla`,
`StartupProofs.tla` and `UdpServerProofs.tla` hold the proofs about the modules
they are named after; those about `ChunkRead` are at the end of
`WithClefProofs.tla`.
Operators named `Faulty...` are plausible mistakes; each is defined next to the
definition it would replace, no specification uses them, and each makes the
property it is listed with in `PROJECT.json` fail.

## Runs

| Run | Checks | Instance |
|---|---|---|
| `gelf` | `TypeOK` `IndexesAgree` `CapacityBound` `StoredIncomplete` `TimeoutFromFirstChunk` `LeavesForCause` `NoLateJoin` `ImplementsReassembly` | 3 ids, capacity 2, up to 3 chunks, sequence numbers and totals 0..4, timeout 1, clock {-1, 1, 2, 3}, 3 messages opened |
| `tcp_connection` | `TypeOK` `ReadHeadSound` `BufferBound` `FramingExact` `ItemWithinKeepAlive` `EventuallyClosed` | frames of up to 2 bytes, streams of up to 9 bytes, every segmentation |
| `tcp_keep_alive_doc` | `MessageWithinKeepAlive`, expected to fail | as above, 3 bytes |
| `listen` | `PoolBound` `NoLostWakeup` `AcceptProgress` `EveryConnectionServed` | 3 connections, pool of 2, with and without TLS, file descriptors running out at any time |
| `chunk_read` | `ReadsConcatenation` `ShortOnlyAtEnd` | up to 4 chunks of 0 to 3 bytes, buffers of 0 to 4 bytes |
| `to_clef` | `TypeOK` `NamesUnique` `HighestPriorityWins` `LoserKept` `EmbeddedMetaFirst` | bases host, X, level, lvl and @l, keys with up to 3 underscores, a name that may own its text |
| `to_clef_doc` | `ConflictKept`, expected to fail | as above, the payload with one key |
| `udp_server` | `ProcessedWasSent` `ImplementsDelivery` `EveryMessageProcessed` | 2 messages with the same bodies swapped, whole or in 2 chunks, up to 2 copies of each datagram of one and up to 1 of the other's, noise, a clock on both sides of the timeout |
| `with_clef` | `ConvertedIffReadable` `RawPayloadBeside` `ExactToTheNanosecond` `SameSecond` | plain, gzip and zlib with full and small window, first chunks of 0, 1 and more bytes, hosts up to one byte over the inline capacity; timestamps with 2 digits for 9, 7 bits for 32, decimals up to one digit more, seconds beyond every limit |
| `timestamp_range` | `OutOfRangeNeverPanics`, expected to fail | as above |
| `startup` | `TlsAsConfigured` `FailureReported` `QuietByDefault` | every combination of 8 addresses, 4 flags, 4 values of each path, both modes, the other mode's variables set or not, 16 states of the files |
| `lifecycle` | `TypeOK` `NoIncrementLost` `FinalFlush` `StopsForCause` `ShutdownCompletes` | all 8 configurations, 2 counted messages or errors |

Why the bounds are enough for the interesting cases. In `gelf` two open
messages reach the capacity and a third id overflows it, further messages are
opened after an overflow, an expiry or a completion, and the clock has readings
before the epoch, within one timeout of it, on the edge of the timeout and past
it. Messages of up to three chunks give duplicates, gaps, reordering and
inconsistent totals, and a total of four is above the limit. Messages that
complete while others are open are in `udp_server`, and in the theorems about any
capacity. Nine bytes with a limit of two hold an oversize frame
cut by several reads followed by frames that must survive it, and discards
longer than the buffer. Three connections on a pool of two fill the pool and
leave one waiting; descriptors that run out while one is pooled and one is in the
queue stop both. Two counted messages let one increment fall before and one
after any swap. Buffers smaller than a chunk, as large as one and larger, and
empty chunks, cover every way a read can end. In `to_clef` the base host is in
all three sources and also in the form its saved value takes, X, which sorts the
other way, comes from two keys of one payload and is moved on by a third, level
with lvl are alternatives the payload can replace, and the payload may have a key
for the event's own @l. Two messages of the same two bodies in `udp_server` would show any
mixing of ids or order. For timestamps one digit too many already takes both
ways out, a fraction that fits the word and one that does not, and the limits of
formatter, SystemTime and u64 are one second apart. Ids are
symmetric; the properties of the runs that use symmetry are invariants and action properties.

Deadlock checking is off where the system may stop: a connection that is
closed, a pool with no more clients, a conversion that is done, a process that
has ended or has begun to serve. It is on for the receiver and the UDP server.

### Fairness

* `TcpConnection`: weak fairness of `decode` (synchronous code), of the clock
  and of a timer that has run out (tokio wakes the connection). Nothing is
  assumed of the client.
* `Listen`: weak fairness of `poll_next`: the runtime runs a task that was
  woken. Nothing is assumed of clients, so a TLS handshake may never end, and
  nothing of file descriptors, so they may never become free; `AcceptProgress` and
  `EveryConnectionServed` say what that costs.
* `Lifecycle`: weak fairness of the threads; strong fairness of the arms `close`
  and `ctrl_c`, because `select!` picks among the ready arms at random. Nothing
  is assumed of peers, stdin, the output or signals.
* `UdpServer`: weak fairness of the server, which `select!` polls again after
  every item; strong fairness of reading each datagram that is in the socket,
  which hands them out in order. `EveryMessageProcessed` is about
  runs that lose no datagram, whose clock stands still and whose receiver never
  reaches its capacity.

### Findings

`tcp_keep_alive_doc` shows that the documentation of `tcp_keep_alive_secs`
(`server/mod.rs:61`, "If the client doesn't complete a message within the period
then the connection will be closed") does not describe the code: every item
restarts the timer (`server/tcp.rs:504`), and an empty frame, a chunk or an
error is an item. What does hold is `ItemWithinKeepAlive`: bytes alone do not
keep a connection open.

`to_clef_doc` shows that a conflict of three loses a value. The documentation of
`to_clef` (`process/mod.rs:151`) says that the lower-priority field is included
under the prefixed name; with host in the embedded JSON, in the payload and in
the envelope, the second override writes the payload's host over the embedded
one that the first had saved as `__host`. What holds is `LoserKept`, for two.

`timestamp_range` shows that a timestamp out of range can panic, against the
test `timestamp_from_decimal_overflow` (`process/clef.rs:167`, "Ensure we don't
panic on timestamps that are out of range"). `from_decimal` checks what a
`SystemTime` holds, but the formatter ends with the year 9999, and a time between
the two limits, such as one sent in milliseconds, is found out only while the
event is written (`process/clef.rs:98`). What holds is `ExactToTheNanosecond`: no
other time panics as long as it has at most nine decimals.

`with_clef` shows what a chunk boundary inside the first two bytes costs: the
message becomes an error, and never a wrong event. `startup` shows that a server
which cannot load its certificate or bind its socket ends with exit code 0, the
error being only emitted.

`listen` needs two exceptions worth knowing. Handshakes are done one at a time
inside `filter_map` and have no timeout, so `AcceptProgress` can only promise
progress while no handshake hangs. And while there is no file descriptor for a
new connection, the retries of accept spend the budget of every run, so that no
connection that has to read is served, closed or timed out; a pool of 1024
connections reaches the usual limit on open files before it is full. Both
progress properties therefore end in `exhausted`; without that TLC shows the
starvation. What they say is that nothing else starves a connection, and that an
accept error leaves nothing behind once descriptors are free again.

`lifecycle` shows that a client can stop the server with one message, the one of
`timestamp_range`: `StopsForCause` lists it among the causes. Other malformed
messages are not.

`to_clef` shows that a payload key `@t` or `_@t` becomes a field beside the
event's own `@t`, so that the name is written twice; `NamesUnique` says that
nothing else does that. It also shows that a value whose name begins with an
uppercase letter or a digit can be moved several times (`TypeOK`).

## Proofs

All for every value of the constants under the `ASSUME`s of the modules, which
TLC evaluates in the runs.

`GelfProofs` (any ids and bodies, any capacity, timeout and limit on chunks, any
set of clock readings; the arrival counter does not wrap, as `MaxOpened` is at
most `U64Max`): `TypeCorrect`, `IndexesAlwaysAgree`, `StoredIsIncomplete`,
`CapacityRespected`, `Refinement` (the receiver implements `Reassembly`),
`DeadlineNeverMoves`, `NothingLeavesWithoutCause`, `LateChunksNeverJoin`.
`IndexesAgree` is not inductive alone: a new message must not reuse a timestamp
that is held, so the invariant adds `Fresh`, every counter value in use is below
`counter`; and a total of chunks that counting can decide needs `Lacking`. The
invariant is stated of a pair of maps (`Good(f, g, c)`), so that what `gc`
leaves behind, which exists only between two lines of one call, can be spoken
of: the lemmas say that clearing, expiring, opening, adding and completing keep
`Good`, and each action combines two of them. The capacity needs that the set of
ids is finite (`Held`). The action properties and the refinement follow from the
invariant, one case per action.

`TcpConnectionProofs` (any size limit, keep-alive period and stream length):
`TypeCorrect`, `ReadHeadAlwaysSound`, `BufferAlwaysBounded`, `FramingIsExact`,
`ItemAlwaysWithinKeepAlive`. `FramingExact` compares what was received with a
reference framing of all bytes read. The inductive invariant says that, while a
frame is being collected, the buffer begins at the start of a frame and exactly
the reference frames before it were received; while one is discarded, that it is
already known to be too long (`Oversize`); and that the frames received are
ordered.

`LifecycleProofs` (any bound on the messages and errors counted): `TypeCorrect`,
`NoIncrementEverLost`, `FlushedAtExit`, `StopsOnlyForCause`. That increments are
conserved is inductive only with `Taking`: the swap of a counter must not
overwrite what the emission under way already took from it. That nothing is left
at the end needs more, `LastEmission`: the final emission begins when main counts
no more, so the counters it has swapped stay 0 and the thread is done only with
all of them at 0. `Handling` balances received against processed messages for
every place main can be at, and `Causes` says who can have closed the handle;
`StopsOnlyForCause` then goes through every step out of the loop, panics and kills
included.
The actions that touch no counter are dealt with in one lemma (`QuietStep`).

`ListenProofs` (any set of connections, any `max`): `PoolStaysBounded`,
`NeverSleepsOverWork`. The argument is who holds a waker: a pooled connection
with input is in the ready queue (`InputQueued`, its waker put it there); from
the moment the pool has been filled until a waker is called, either there is no
room or `accept` left its waker with the listener or with a handshake that has
not ended (`Asleep`); and a task that has not woken itself parks only with an
empty ready queue. With a
full pool nobody watches the listener, and that is enough because a place becomes
free only in a poll that goes on to fill it. `Queues` (one stage, no repetition)
is what makes a connection that is polled again one that is in the pool.

`WithClefProofs` (any number of digits and bits and any limits of the types in
their order, any inline capacity): `ReadableIsConverted`, `RawPayloadIsBeside`,
`TimesAreExact`, `SecondIsKept`. The invariant says that the answer is one
function of what the client wrote (`Inductive`): the choice of the way, of the
decoder and of the raw payload do not enter it. What remains is about that
function. `DecodesIffVisible` compares the two bytes that are looked at with what
was written, for every head a stream of zlib can have. For times, the number sent
and the stamp kept are compared as integers (`StampValue`): up to `Digits`
decimals the power of ten in `from_decimal` makes them equal; beyond, the wrapped
exponent is at least `Bits` (this is what the last line of `WidthsAssumption`
says of 32 bits, 9 digits and a scale of at most 28), the product is 0 modulo the
word, and the fraction is lost as a whole. Powers of ten are the recursive
function `Pow10`. That it exists and that the power of a sum is the product of
the powers are inductions over a set of numbers, by the least element of its
complement, since the induction theorems with an operator as a parameter cannot
be used.

At the end of the same module is `ChunkRead` (any number of chunks of any
length, buffers of any size): `ReadsTheConcatenation`, `ShortReadIsEnd`. `ReadsConcatenation` is
inductive with the types; one lemma, `CopyStep`, says that appending the next
part of a chunk moves the position past exactly that part, for both readers.
`AtEnd` carries what `read` knew when it returned to the caller.

`ToClefProofs` (any fields of the embedded JSON, any keys of the payload, any
built-in fields): `FieldsHaveSources`, `NamesStayUnique`, `PriorityHolds`,
`LoserStays`, `EmbeddedMetaWins`. The properties speak of the end; the invariant
speaks of what has been merged so far (`Merged`). `Winner` and `Kept` are the two
properties for that part and hold in any order of keys; they need `Sources`, which
counts how often a value was moved (`MovedFrom`). Unless the base sorts before
`_`, a value under a prefixed name is not moved a second time: the order of keys
has by then passed every key that strips to that name. `NamesStayUnique` adds that
the name of a moved value has two underscores at least, and so is none of the
event's own. `EmbeddedOnly` says that metas are resolved while the fields are the
embedded ones only.

`StartupProofs` (any contents of the certificate and key files):
`TlsIsAsConfigured`, `FailureIsReported`, `QuietUnlessAsked`. The invariant ties
the configuration to the environment at every place after `from_env`, the level
to the configuration after `init`, and TLS to the certificate from the choice of
the protocol on. Before `init` the level would let anything through, so that
nothing has been written by then is part of it (`Level`). The properties are
stated of what was set for the mode (`Settings`); that this is what the code reads
is `VarFacts`.

`UdpServerProofs` (any messages that differ, any number of chunks and copies, any
configuration of the receiver, any clock): `OnlyWhatWasSent`, `Refinement`,
`ReceiverIsGelf`, `ReceiverKeepsItsPromises`, `NothingVanishes`. The invariant is
an account of copies. For every message, either nothing of it is anywhere
(`Idle`), or it was sent one way and for each of its datagrams the copies in the
network, in the read buffer, in the receiver, in the message just handed out and
in those processed add up to no more than what was sent (`Budget`), while nothing
is anywhere of the other way to send it and nothing ever came out in that form.
`Faithful` says that what the receiver holds of a message are its own bodies at
their places. A call of `decode` either keeps the datagram (`Kept`) or hands out
a message made of this datagram and of all the others, which are held and are
then removed (`Gives`); that counting the chunks of a message is enough, and that
a `BTreeMap` gives them in order, are the lemmas `FullIsAll` and `InOrder`. What
is sent twice by the network may be processed twice: the bound is `Copies`.
`Refinement` follows: `process` is one delivery, every step of network, clock,
codec and receiver a stutter.

`ReceiverIsGelf` is the composition: each step of the server is a step of `Gelf`
or leaves the receiver alone, because what the codec hands over is within the
types of a header (`DatagramTypes`). With `ReceiverAssumption` the theorems of
`GelfProofs` then hold of the receiver inside the server
(`ReceiverKeepsItsPromises`), where TLC only checks the receiver by itself.

`NothingVanishes` is the part of `EveryMessageProcessed` that is safety, under
the same conditions and for messages of no more chunks than the receiver accepts:
what was sent stays in the network, in the read buffer or in the receiver until
it comes out. It uses the invariant of `GelfProofs` through the composition (with
the clock at rest no entry of `by_arrival` is before the deadline, so `gc`
removes nothing) and that `UdpFramed` never reads over a buffer that is not empty
(`Drained`).

Only model-checked: the liveness properties `EventuallyClosed`,
`EveryConnectionServed`, `AcceptProgress`, `EveryMessageProcessed` and
`ShutdownCompletes`, since liveness under fairness is out of the reach of the
prover. The violations of the three runs that expect one are TLC's as well.

## Not modelled

* Inflating (libflate), JSON (serde), TLS, tokio and `FuturesUnordered` beyond
  how the code uses them.
* Wording and layout of diagnostic events. The lock on `DIAGNOSTICS`, which main
  holds while it joins the metrics thread and which that thread never takes.
* `Disconnected` in the metrics thread and `None` from the transport: the first
  cannot happen because the sender is dropped after the join, the second because
  neither `TcpListener` nor `UdpFramed` ends.
* `Ord` for `Str` and `FromStr` for `Level`, which nothing in the program uses,
  and the overflow of `seq_num + 1` in an error text (`receive.rs:365`).
* Reports after a panic: `main` ends without `diagnostics::stop`, and nothing is
  promised for the last counts; an emission that panics keeps what it had taken.

## Plan

1. Done: every part that keeps state or decides something has a module, every
   invariant and action property and both refinements that a run checks are
   proved, and the receiver's theorems hold inside the UDP server.
2. Composition of connections of `TcpConnection` inside `Listen`, with one
   receiver each, if an instance small enough for TLC shows more than the parts;
   `ReceiverIsGelf` shows how the receiver's theorems would carry over.
