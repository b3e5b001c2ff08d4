------------------------------- MODULE Lifecycle -------------------------------
(***************************************************************************)
(* The life of the process: main.rs, the select! loop of server/mod.rs and *)
(* the metrics of diagnostics.rs, as three threads.                        *)
(*                                                                         *)
(*   main     reads the configuration, starts diagnostics, builds the      *)
(*            server, runs its loop and stops diagnostics                  *)
(*   watcher  listen_for_stdin_closed, when sqelf runs as a Seq app        *)
(*   metrics  the thread of diagnostics::init, at level DEBUG              *)
(*                                                                         *)
(* What the transport yields (modules TcpConnection, Listen and Gelf) is   *)
(* chosen freely.  A relaxed fetch_add or swap of one AtomicUsize is one   *)
(* step; the counters are read one by one, so every step of main can fall  *)
(* between two of them.  Reading the configuration, binding, starting a    *)
(* thread and handling a message can each fail, and so can println! and    *)
(* eprintln!, which then panic.                                            *)
(***************************************************************************)
EXTENDS Integers, Sequences

CONSTANT MaxCount   \* bound on the messages and errors that are counted

ASSUME MaxCountAssumption == MaxCount \in Nat

VARIABLES
  config,      \* what Config::from_env and is_seq_app read
  pc,          \* where main is
  exit,        \* how the process ended
  handle,      \* who holds the Handle, or what became of it
  stdin,       \* "open", or "ended" by end of file or an error
  ctrl_c,      \* the signal has come while its handler was installed
  socket,      \* "ok", or "failed": polling the UDP socket gives an error
  output,      \* "ok", or "failed": writing to stdout or stderr does
  handler,     \* of ctrl_c: "none", "installed", or "failed" to be
  message,     \* what becomes of the message in hand (module WithClef)
  METRICS,     \* the counters of the server
  total,       \* every increment there has been
  thread,      \* where the metrics thread is
  field,       \* the next field emit_metrics takes
  final,       \* the emission under way is the last one
  mailbox,     \* the stop message is in the channel
  taken,       \* what emit_metrics has taken so far
  reported     \* what has been written by all emissions

inputs   == <<stdin, ctrl_c, socket, output>>
loop     == <<handler, message>>
counters == <<METRICS, total>>
metrics  == <<thread, field, final, taken, reported>>
vars == <<config, pc, exit, handle, inputs, loop, counters, metrics, mailbox>>

\* The order in which take swaps them.
Fields == <<"receive_ok", "receive_err", "process_ok", "process_err">>
Metric == {Fields[i] : i \in 1..Len(Fields)}
Zero == [m \in Metric |-> 0]

\* An event, an error of process, or a panic while the event is written.
Kinds == {"valid", "malformed", "unprintable"}

Running == pc # "exited"

Init ==
  /\ config \in [debug : BOOLEAN, seq_app : BOOLEAN, udp : BOOLEAN]
  /\ pc = "config"
  /\ exit = "none"
  /\ handle = "none"
  /\ stdin = "open"
  /\ ctrl_c = FALSE
  /\ socket = "ok"
  /\ output = "ok"
  /\ handler = "none"
  /\ message = "none"
  /\ METRICS = Zero
  /\ total = Zero
  /\ thread = "none"
  /\ field = 1
  /\ final = FALSE
  /\ mailbox = FALSE
  /\ taken = Zero
  /\ reported = Zero

-----------------------------------------------------------------------------
(* main: run().                                                            *)

\* The process ends: ok (0) when run returns Ok, failed (1) when it returns
\* Err or panics, killed by a signal nobody handles.  The other threads end
\* with it.
Exit(how) ==
  /\ pc' = "exited"
  /\ exit' = how
  /\ UNCHANGED <<config, handle, inputs, loop, counters, metrics, mailbox>>

ReadConfig ==
  /\ pc = "config"
  /\ pc' = "init"
  /\ UNCHANGED <<config, exit, handle, inputs, loop, counters, metrics, mailbox>>

\* diagnostics::init: the thread is started only at level DEBUG.
InitDiagnostics ==
  /\ pc = "init"
  /\ pc' = "build"
  /\ thread' = IF config.debug THEN "wait" ELSE "none"
  /\ UNCHANGED <<config, exit, handle, inputs, loop, counters, field, final, taken,
                 reported, mailbox>>

\* server::build, and the handle given to the watcher or left in the Server.
Build ==
  /\ pc = "build"
  /\ pc' = "bind"
  /\ handle' = IF config.seq_app THEN "watcher" ELSE "server"
  /\ UNCHANGED <<config, exit, inputs, loop, counters, metrics, mailbox>>

\* Config::from_env or the address is refused: run returns Err.
StartFails == pc \in {"config", "build"} /\ Exit("failed")

\* A panic, caught by main: of init or of Runtime::new.
StartPanics == pc \in {"init", "build", "bind"} /\ Exit("failed")

\* A panic of println! or eprintln! wherever main may write; after the join it
\* is not caught, and ends the process all the same.
OutputPanics ==
  /\ pc \in {"select", "process", "stop", "join"}
  /\ pc = "join" => thread \in {"none", "done"}
  /\ output = "failed"
  /\ Exit("failed")

Bind ==
  /\ pc = "bind"
  /\ pc' = "select"
  /\ UNCHANGED <<config, exit, handle, inputs, loop, counters, metrics, mailbox>>

\* The loop is left: the handle, if the Server still has it, is dropped when
\* run returns.
Leave ==
  /\ pc' = "stop"
  /\ handle' = IF handle = "server" THEN "dropped" ELSE handle

\* The socket or the TLS configuration fails: the error is only emitted.
BindFails ==
  /\ pc = "bind"
  /\ Leave
  /\ UNCHANGED <<config, exit, inputs, loop, counters, metrics, mailbox>>

-----------------------------------------------------------------------------
(* main: the select! loop.  It polls its arms in a random order until one  *)
(* is ready, so ctrl_c may not have been polled when another arm is.       *)

FaultyIncremented(counts, m) == [counts EXCEPT ![m] = @ + 1]

\* increment!: only at level DEBUG.
Incremented(counts, m) ==
  IF config.debug THEN [counts EXCEPT ![m] = @ + 1] ELSE counts

increment(m) ==
  /\ METRICS' = Incremented(METRICS, m)
  /\ total' = Incremented(total, m)

Bounded == total["receive_ok"] + total["receive_err"] < MaxCount

MayRegister == handler' \in {handler, "installed"}

\* Nothing is ready: every arm has been polled.
SelectPending ==
  /\ pc = "select"
  /\ handler = "none"
  /\ handler' = "installed"
  /\ UNCHANGED <<config, pc, exit, handle, inputs, message, counters, metrics,
                 mailbox>>

ReceivedComplete ==
  /\ pc = "select"
  /\ Bounded
  /\ MayRegister
  /\ increment("receive_ok")
  /\ message' \in Kinds
  /\ pc' = "process"
  /\ UNCHANGED <<config, exit, handle, inputs, metrics, mailbox>>

Processed(outcome) ==
  /\ pc = "process"
  /\ message = IF outcome = "process_ok" THEN "valid" ELSE "malformed"
  /\ message' = "none"
  /\ increment(outcome)

FaultyProcess(outcome) ==
  /\ Processed(outcome)
  /\ IF outcome = "process_err" THEN Leave ELSE pc' = "select" /\ UNCHANGED handle
  /\ UNCHANGED <<config, exit, inputs, handler, metrics, mailbox>>

process(outcome) ==
  /\ Processed(outcome)
  /\ pc' = "select"
  /\ UNCHANGED <<config, exit, handle, inputs, handler, metrics, mailbox>>

\* The event cannot be written: serde_json panics.
ProcessPanics == pc = "process" /\ message = "unprintable" /\ Exit("failed")

ReceivedIncomplete ==
  /\ pc = "select"
  /\ MayRegister
  /\ UNCHANGED <<config, pc, exit, handle, inputs, message, counters, metrics,
                 mailbox>>

ReceivedError ==
  /\ pc = "select"
  /\ Bounded
  /\ MayRegister
  /\ increment("receive_err")
  /\ UNCHANGED <<config, pc, exit, handle, inputs, message, metrics, mailbox>>

\* An Err of the transport ends the loop.
ReceiveFails ==
  /\ pc = "select"
  /\ socket = "failed"
  /\ Bounded
  /\ MayRegister
  /\ increment("receive_err")
  /\ Leave
  /\ UNCHANGED <<config, exit, inputs, message, metrics, mailbox>>

\* The oneshot resolves when the sender has sent and when it was dropped.
Close ==
  /\ pc = "select"
  /\ handle \in {"sent", "dropped"}
  /\ MayRegister
  /\ Leave
  /\ UNCHANGED <<config, exit, inputs, message, counters, metrics, mailbox>>

\* The arm of ctrl_c takes any result: the signal has come, or the handler
\* could not be installed when ctrl_c was first polled.
CtrlC ==
  /\ pc = "select"
  /\ ctrl_c
  /\ Leave
  /\ UNCHANGED <<config, exit, inputs, loop, counters, metrics, mailbox>>

CtrlCFails ==
  /\ pc = "select"
  /\ handler = "none"
  /\ handler' = "failed"
  /\ Leave
  /\ UNCHANGED <<config, exit, inputs, message, counters, metrics, mailbox>>

-----------------------------------------------------------------------------
(* main: diagnostics::stop.                                                *)

FaultyStop ==
  /\ pc = "stop"
  /\ pc' = "join"
  /\ UNCHANGED <<config, exit, handle, inputs, loop, counters, metrics, mailbox>>

Stop ==
  /\ pc = "stop"
  /\ thread # "panicked"
  /\ pc' = "join"
  /\ mailbox' = (thread # "none")
  /\ UNCHANGED <<config, exit, handle, inputs, loop, counters, metrics>>

FaultyJoin == pc = "join" /\ Exit("ok")

Join == pc = "join" /\ thread \in {"none", "done"} /\ Exit("ok")

\* The metrics thread is dead: send or join returns an error, and so does run.
StopFails == pc \in {"stop", "join"} /\ thread = "panicked" /\ Exit("failed")

main ==
  \/ ReadConfig \/ InitDiagnostics \/ Build \/ StartFails
  \/ Bind \/ BindFails
  \/ SelectPending
  \/ process("process_ok") \/ process("process_err") \/ ProcessPanics
  \/ Stop \/ Join \/ StopFails

receive ==
  \/ ReceivedComplete \/ ReceivedIncomplete \/ ReceivedError \/ ReceiveFails

-----------------------------------------------------------------------------
(* The signal, and the watcher of stdin.                                   *)

\* Until the handler is installed the signal ends the process.
Signal ==
  /\ Running
  /\ \/ handler # "installed" /\ Exit("killed")
     \/ /\ handler = "installed"
        /\ ~ctrl_c
        /\ ctrl_c' = TRUE
        /\ UNCHANGED <<config, pc, exit, handle, stdin, socket, output, loop,
                       counters, metrics, mailbox>>

StdinEnds ==
  /\ Running
  /\ stdin = "open"
  /\ stdin' = "ended"
  /\ UNCHANGED <<config, pc, exit, handle, ctrl_c, socket, output, loop,
                 counters, metrics, mailbox>>

\* The reader of stdout or of stderr goes away.
OutputFails ==
  /\ Running
  /\ output = "ok"
  /\ output' = "failed"
  /\ UNCHANGED <<config, pc, exit, handle, stdin, ctrl_c, socket, loop,
                 counters, metrics, mailbox>>

\* Only the UDP socket yields an Err: Listen drops a connection that fails.
SocketFails ==
  /\ pc \in {"select", "process"}
  /\ config.udp
  /\ socket = "ok"
  /\ socket' = "failed"
  /\ UNCHANGED <<config, pc, exit, handle, stdin, ctrl_c, output, loop,
                 counters, metrics, mailbox>>

\* Bytes on stdin are read and the watcher goes on reading.
StdinRead ==
  /\ Running
  /\ handle = "watcher"
  /\ stdin = "open"
  /\ UNCHANGED vars

\* End of file or an error: the watcher closes the server, and ends.
StdinClosed ==
  /\ Running
  /\ handle = "watcher"
  /\ stdin = "ended"
  /\ handle' = "sent"
  /\ UNCHANGED <<config, pc, exit, inputs, loop, counters, metrics, mailbox>>

-----------------------------------------------------------------------------
(* The metrics thread.  Its channel is never disconnected: the sender is   *)
(* dropped only after the join.                                            *)

StartEmit(last) ==
  /\ Running
  /\ thread = "wait"
  /\ thread' = "take"
  /\ field' = 1
  /\ final' = last
  /\ UNCHANGED <<config, pc, exit, handle, inputs, loop, counters, taken, reported>>

RecvTimeout == ~mailbox /\ StartEmit(FALSE) /\ UNCHANGED mailbox

RecvStop == mailbox /\ StartEmit(TRUE) /\ mailbox' = FALSE

FaultySwap(m) ==
  /\ taken' = [taken EXCEPT ![m] = METRICS[m]]
  /\ UNCHANGED METRICS

swap(m) ==
  /\ taken' = [taken EXCEPT ![m] = METRICS[m]]
  /\ METRICS' = [METRICS EXCEPT ![m] = 0]

take ==
  /\ Running
  /\ thread = "take"
  /\ field <= Len(Fields)
  /\ swap(Fields[field])
  /\ field' = field + 1
  /\ UNCHANGED <<config, pc, exit, handle, inputs, loop, total, thread, final,
                 reported, mailbox>>

Emit ==
  /\ Running
  /\ thread = "take"
  /\ field > Len(Fields)
  /\ reported' = [m \in Metric |-> reported[m] + taken[m]]
  /\ taken' = Zero
  /\ thread' = IF final THEN "done" ELSE "wait"
  /\ UNCHANGED <<config, pc, exit, handle, inputs, loop, counters, field, final,
                 mailbox>>

\* eprintln! panics: the thread ends, and what it had taken is not written.
EmitPanics ==
  /\ Running
  /\ thread = "take"
  /\ field > Len(Fields)
  /\ output = "failed"
  /\ thread' = "panicked"
  /\ UNCHANGED <<config, pc, exit, handle, inputs, loop, counters, field, final,
                 taken, reported, mailbox>>

emit_metrics == RecvStop \/ take \/ Emit

Next ==
  \/ main \/ receive \/ Close \/ CtrlC \/ CtrlCFails
  \/ StartPanics \/ OutputPanics
  \/ Signal \/ SocketFails \/ OutputFails
  \/ StdinEnds \/ StdinRead \/ StdinClosed
  \/ RecvTimeout \/ emit_metrics \/ EmitPanics

\* Threads that can run do run.  Nothing is assumed of the peers, of stdin, of
\* the output or of signals.  select! chooses among the ready arms at random, so
\* an arm that is ready again and again is chosen in the end.
Fairness ==
  /\ WF_vars(main)
  /\ SF_vars(Close)
  /\ SF_vars(CtrlC)
  /\ WF_vars(StdinClosed)
  /\ WF_vars(emit_metrics)

Spec == Init /\ [][Next]_vars /\ Fairness
-----------------------------------------------------------------------------
(* Properties.                                                             *)

\* Below level DEBUG nothing is counted, as no thread would ever empty the
\* counters.
TypeOK ==
  /\ config \in [debug : BOOLEAN, seq_app : BOOLEAN, udp : BOOLEAN]
  /\ pc \in {"config", "init", "build", "bind", "select", "process", "stop",
             "join", "exited"}
  /\ exit \in {"none", "ok", "failed", "killed"}
  /\ handle \in {"none", "server", "watcher", "sent", "dropped"}
  /\ stdin \in {"open", "ended"}
  /\ ctrl_c \in BOOLEAN
  /\ socket \in {"ok", "failed"}
  /\ output \in {"ok", "failed"}
  /\ handler \in {"none", "installed", "failed"}
  /\ message \in Kinds \cup {"none"}
  /\ METRICS \in [Metric -> Nat]
  /\ total \in [Metric -> 0..MaxCount]
  /\ thread \in {"none", "wait", "take", "done", "panicked"}
  /\ field \in 1..Len(Fields) + 1
  /\ final \in BOOLEAN
  /\ mailbox \in BOOLEAN
  /\ taken \in [Metric -> Nat]
  /\ reported \in [Metric -> Nat]
  /\ ~config.debug => total = Zero /\ thread = "none"

\* Every increment is reported at most once and never dropped on the way: at
\* any moment it is in a counter, in the emission under way (for good, if that
\* one could not be written) or in one that was written, whatever steps of main
\* fall between the swaps of take.
NoIncrementLost ==
  \A m \in Metric : total[m] = METRICS[m] + taken[m] + reported[m]

\* When the process ends normally everything it counted has been reported, and
\* every message it received was processed: stopping the loop never leaves one
\* half handled, and stop waits for the last emission.
FinalFlush ==
  exit = "ok" =>
    /\ reported = total
    /\ total["receive_ok"] = total["process_ok"] + total["process_err"]

\* A running server leaves its loop, also by a panic or by being killed, only
\* for a signal, a handler of signals that cannot be installed, the end of
\* stdin when it watches stdin, a UDP socket that fails, output that cannot be
\* written, or a message whose event cannot be written.  No message that cannot
\* be decompressed or parsed, no error of the receiver, no client that fails and
\* no byte on stdin stops it: "We always want to match them and deal with error
\* cases directly".
StopsForCause ==
  [][(pc \in {"select", "process"} /\ pc' \notin {"select", "process"}) =>
       \/ ctrl_c
       \/ handler # "installed" /\ exit' = "killed"
       \/ handler' = "failed"
       \/ config.seq_app /\ stdin = "ended"
       \/ config.udp /\ socket = "failed"
       \/ output = "failed"
       \/ pc = "process" /\ message = "unprintable"]_vars

\* Once the handle is closed, also before the server is bound, or the signal
\* has come, the process ends: neither a flood of messages nor the metrics
\* thread that main joins keeps it alive.
ShutdownCompletes == (handle = "sent" \/ ctrl_c) ~> pc = "exited"
=============================================================================
