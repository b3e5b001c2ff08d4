---------------------------- MODULE LifecycleProofs ----------------------------
(***************************************************************************)
(* Proofs about Lifecycle, for every number of messages and errors: no     *)
(* step of one thread falling between two steps of another loses a count,  *)
(* a process that ends normally has reported all of them, and a server     *)
(* leaves its loop only for a cause.                                       *)
(***************************************************************************)
EXTENDS Lifecycle, TLAPS

Balanced ==
  total["receive_ok"] = total["process_ok"] + total["process_err"]

\* main handles one message at a time.
Handling ==
  /\ total["receive_ok"] + total["receive_err"] <= MaxCount
  /\ pc \notin {"process", "exited"} => Balanced
  /\ pc = "process" /\ config.debug =>
       total["receive_ok"] = total["process_ok"] + total["process_err"] + 1

\* What an emission has not swapped yet it has not taken: no value is taken
\* over another.  Only an emission that panicked keeps what it took.
Taking ==
  /\ thread \notin {"take", "panicked"} => taken = Zero
  /\ thread = "take" => \A i \in field..4 : taken[Fields[i]] = 0

\* The last emission begins when main counts no more, so what it has swapped
\* stays empty.
LastEmission ==
  /\ pc \in {"config", "init"} => thread = "none"
  /\ pc \notin {"config", "init", "exited"} /\ config.debug => thread # "none"
  /\ mailbox => pc \in {"join", "exited"}
  /\ thread = "take" /\ final =>
       /\ pc \in {"join", "exited"}
       /\ \A i \in 1..(field - 1) : METRICS[Fields[i]] = 0
  /\ thread = "done" => pc \in {"join", "exited"} /\ METRICS = Zero

\* Who can have closed the handle, and why.
Causes ==
  /\ handle = "watcher" => config.seq_app
  /\ handle = "sent" => config.seq_app /\ stdin = "ended"
  /\ handle = "dropped" => pc \in {"stop", "join", "exited"}
  /\ socket = "failed" => config.udp

Ended ==
  /\ exit # "none" => pc = "exited"
  /\ FinalFlush

\* The inductive invariant.
IInv ==
  /\ TypeOK
  /\ NoIncrementLost
  /\ Handling
  /\ Taking
  /\ LastEmission
  /\ Causes
  /\ Ended

-----------------------------------------------------------------------------
\* The four counters, in the order emit_metrics takes them.
LEMMA FieldFacts ==
  /\ Len(Fields) = 4
  /\ Fields[1] = "receive_ok" /\ Fields[2] = "receive_err"
  /\ Fields[3] = "process_ok" /\ Fields[4] = "process_err"
  /\ Metric = {"receive_ok", "receive_err", "process_ok", "process_err"}
<1>1. /\ Len(Fields) = 4
      /\ Fields[1] = "receive_ok" /\ Fields[2] = "receive_err"
      /\ Fields[3] = "process_ok" /\ Fields[4] = "process_err"
  BY DEF Fields
<1>2. 1..4 = {1, 2, 3, 4}
  OBVIOUS
<1> QED
  BY <1>1, <1>2 DEF Metric

LEMMA InitIInv == Init => IInv
<1> SUFFICES ASSUME Init PROVE IInv
  OBVIOUS
<1>1. \A m \in Metric : Zero[m] = 0
  BY DEF Zero
<1>2. Zero \in [Metric -> Nat] /\ Zero \in [Metric -> 0..MaxCount]
  BY MaxCountAssumption DEF Zero
<1>3. TypeOK
  <2>1. config \in [debug : BOOLEAN, seq_app : BOOLEAN, udp : BOOLEAN]
    BY DEF Init
  <2>2. field \in 1..Len(Fields) + 1
    BY FieldFacts DEF Init
  <2>3. METRICS \in [Metric -> Nat] /\ total \in [Metric -> 0..MaxCount]
        /\ taken \in [Metric -> Nat] /\ reported \in [Metric -> Nat]
    BY <1>2 DEF Init
  <2> QED
    BY <2>1, <2>2, <2>3 DEF Init, TypeOK
<1>4. NoIncrementLost
  BY <1>1 DEF Init, NoIncrementLost
<1>5. Handling
  BY <1>1, FieldFacts, MaxCountAssumption DEF Init, Handling, Balanced
<1> QED
  BY <1>3, <1>4, <1>5
  DEF Init, IInv, Taking, LastEmission, Causes, Ended, FinalFlush

\* Nothing happens in a process that has ended.
LEMMA ExitedIsEnd == pc = "exited" => ~Next
BY DEF Next, main, receive, emit_metrics, Running, ReadConfig, InitDiagnostics,
       Build, StartFails, Bind, BindFails, SelectPending, process, Processed,
       ProcessPanics, Stop, Join, StopFails, ReceivedComplete,
       ReceivedIncomplete, ReceivedError, ReceiveFails, Close, CtrlC, CtrlCFails,
       StartPanics, OutputPanics, Signal, SocketFails, OutputFails, StdinEnds,
       StdinRead, StdinClosed, RecvTimeout, RecvStop, StartEmit, take, Emit,
       EmitPanics

\* A step of main that neither counts nor stops: the metrics thread sees
\* nothing of it.
LEMMA QuietStep ==
  ASSUME IInv, pc # "exited", UNCHANGED <<config, counters, metrics, mailbox>>,
         TypeOK', Causes',
         \/ exit' = exit
         \/ pc' = "exited" /\ exit' \in {"failed", "killed"},
         \/ pc' \in {pc, "exited"}
         \/ pc = "config" /\ pc' = "init"
         \/ pc \in {"build", "bind", "select"} /\ pc' \in {"bind", "select", "stop"}
  PROVE  IInv'
<1> USE DEF counters, metrics
<1>1. exit = "none"
  BY DEF IInv, Ended, TypeOK
<1>2. NoIncrementLost'
  BY DEF IInv, NoIncrementLost
<1>3. Handling'
  BY DEF IInv, Handling, Balanced
<1>4. Taking'
  BY DEF IInv, Taking
<1>5. LastEmission'
  BY DEF IInv, LastEmission
<1>6. Ended'
  BY <1>1 DEF IInv, Ended, FinalFlush
<1> QED
  BY <1>2, <1>3, <1>4, <1>5, <1>6 DEF IInv

\* Steps of main, of the watcher of stdin and of the environment that touch no
\* counter.
LEMMA QuietActions ==
  ASSUME IInv, pc # "exited",
         \/ ReadConfig \/ Build \/ StartFails \/ StartPanics \/ Bind \/ BindFails
         \/ SelectPending \/ ReceivedIncomplete \/ Close \/ CtrlC \/ CtrlCFails
         \/ ProcessPanics \/ OutputPanics \/ StopFails \/ OutputFails
         \/ Signal \/ SocketFails \/ StdinEnds \/ StdinRead \/ StdinClosed
  PROVE  IInv'
<1> USE DEF counters, metrics, inputs, loop
<1> USE DEF IInv, TypeOK, Causes
<1>1. CASE ReadConfig
  BY <1>1, QuietStep DEF ReadConfig
<1>2. CASE Build
  BY <1>2, QuietStep DEF Build
<1>3. CASE StartFails
  BY <1>3, QuietStep DEF StartFails, Exit
<1>4. CASE StartPanics \/ ProcessPanics \/ OutputPanics \/ StopFails
  BY <1>4, QuietStep DEF StartPanics, ProcessPanics, OutputPanics, StopFails, Exit
<1>5. CASE Bind
  BY <1>5, QuietStep DEF Bind
<1>6. CASE BindFails
  BY <1>6, QuietStep DEF BindFails, Leave
<1>7. CASE SelectPending
  <2>1. TypeOK'
    BY <1>7 DEF SelectPending
  <2> QED
    BY <1>7, <2>1, QuietStep DEF SelectPending
<1>8. CASE ReceivedIncomplete
  <2>1. handler' \in {"none", "installed", "failed"}
    BY <1>8 DEF ReceivedIncomplete, MayRegister
  <2> QED
    BY <1>8, <2>1, QuietStep DEF ReceivedIncomplete
<1>9. CASE Close
  <2>1. handler' \in {"none", "installed", "failed"}
    BY <1>9 DEF Close, MayRegister
  <2> QED
    BY <1>9, <2>1, QuietStep DEF Close, Leave
<1>10. CASE CtrlC
  BY <1>10, QuietStep DEF CtrlC, Leave
<1>11. CASE Signal
  <2>1. CASE Exit("killed")
    BY <2>1, QuietStep DEF Exit
  <2>2. CASE ctrl_c' = TRUE /\ UNCHANGED <<config, pc, exit, handle, stdin,
                       socket, output, loop, counters, metrics, mailbox>>
    <3>1. TypeOK'
      BY <2>2
    <3> QED
      BY <2>2, <3>1, QuietStep
  <2> QED
    BY <1>11, <2>1, <2>2 DEF Signal
<1>12. CASE SocketFails
  BY <1>12, QuietStep DEF SocketFails
<1>13. CASE StdinEnds
  BY <1>13, QuietStep DEF StdinEnds, Running
<1>14. CASE StdinClosed
  BY <1>14, QuietStep DEF StdinClosed, Running
<1>15. CASE StdinRead
  BY <1>15, QuietStep DEF StdinRead, vars
<1>16. CASE CtrlCFails
  BY <1>16, QuietStep DEF CtrlCFails, Leave
<1>17. CASE OutputFails
  BY <1>17, QuietStep DEF OutputFails, Running
<1> QED
  BY <1>1, <1>2, <1>3, <1>4, <1>5, <1>6, <1>7, <1>8, <1>9, <1>10, <1>11, <1>12,
     <1>13, <1>14, <1>15, <1>16, <1>17

\* main counts while the metrics thread does something else, or nothing.
LEMMA CountStep ==
  ASSUME IInv, NEW m \in Metric, increment(m), config.debug => total[m] < MaxCount,
         pc \in {"select", "process"}, pc' \in {"select", "process", "stop"},
         UNCHANGED <<config, exit, metrics, mailbox>>
  PROVE  /\ METRICS' \in [Metric -> Nat] /\ total' \in [Metric -> 0..MaxCount]
         /\ config.debug => /\ total'[m] = total[m] + 1
                            /\ \A k \in Metric \ {m} : total'[k] = total[k]
         /\ ~config.debug => total' = total
         /\ NoIncrementLost' /\ Taking' /\ LastEmission' /\ Ended'
<1> USE DEF metrics
<1>1. METRICS \in [Metric -> Nat] /\ total \in [Metric -> 0..MaxCount]
  BY DEF IInv, TypeOK
<1>2. taken \in [Metric -> Nat] /\ reported \in [Metric -> Nat]
  BY DEF IInv, TypeOK
<1>3. CASE config.debug
  <2>1. /\ METRICS' = [METRICS EXCEPT ![m] = @ + 1]
        /\ total' = [total EXCEPT ![m] = @ + 1]
    BY <1>3 DEF increment, Incremented
  <2>2. /\ METRICS' \in [Metric -> Nat]
        /\ METRICS'[m] = METRICS[m] + 1
        /\ \A k \in Metric \ {m} : METRICS'[k] = METRICS[k]
    BY <1>1, <2>1
  <2>3. /\ total' \in [Metric -> 0..MaxCount]
        /\ total'[m] = total[m] + 1
        /\ \A k \in Metric \ {m} : total'[k] = total[k]
    BY <1>1, <1>3, <2>1, MaxCountAssumption
  <2>4. NoIncrementLost'
    <3> SUFFICES ASSUME NEW k \in Metric
                 PROVE  total'[k] = METRICS'[k] + taken[k] + reported[k]
      BY DEF NoIncrementLost
    <3>1. total[k] = METRICS[k] + taken[k] + reported[k]
      BY DEF IInv, NoIncrementLost
    <3>2. /\ total[k] \in Nat /\ METRICS[k] \in Nat
          /\ taken[k] \in Nat /\ reported[k] \in Nat
      BY <1>1, <1>2, MaxCountAssumption
    <3>3. CASE k = m
      BY <2>2, <2>3, <3>1, <3>2, <3>3
    <3>4. CASE k # m
      BY <2>2, <2>3, <3>1, <3>4
    <3> QED
      BY <3>3, <3>4
  <2>5. Taking'
    BY DEF IInv, Taking
  <2>6. LastEmission'
    <3>1. thread # "done" /\ ~(thread = "take" /\ final) /\ ~mailbox
      BY DEF IInv, LastEmission
    <3>2. thread # "none"
      BY <1>3 DEF IInv, LastEmission
    <3> QED
      BY <3>1, <3>2 DEF LastEmission
  <2>7. Ended'
    BY DEF IInv, Ended, FinalFlush, TypeOK
  <2> QED
    BY <1>3, <2>2, <2>3, <2>4, <2>5, <2>6, <2>7
<1>4. CASE ~config.debug
  <2>1. METRICS' = METRICS /\ total' = total
    BY <1>4 DEF increment, Incremented
  <2>2. NoIncrementLost' /\ Taking'
    BY <2>1 DEF IInv, NoIncrementLost, Taking
  <2>3. LastEmission' /\ Ended'
    BY <2>1 DEF IInv, LastEmission, Ended, FinalFlush, TypeOK
  <2> QED
    BY <1>1, <1>4, <2>1, <2>2, <2>3
<1> QED
  BY <1>3, <1>4

\* Room for one more message or error.
LEMMA RoomToReceive ==
  ASSUME IInv, Bounded
  PROVE  total["receive_ok"] < MaxCount /\ total["receive_err"] < MaxCount
BY FieldFacts, MaxCountAssumption DEF IInv, TypeOK, Bounded

\* The parts of the invariant a received item or error changes.
LEMMA ReceiveStep ==
  ASSUME IInv, Bounded, pc = "select",
         UNCHANGED <<config, exit, inputs, metrics, mailbox>>,
         handler' \in {"none", "installed", "failed"},
         message' \in Kinds \cup {"none"},
         \/ increment("receive_ok") /\ pc' = "process" /\ handle' = handle
         \/ increment("receive_err") /\ pc' = "select" /\ handle' = handle
         \/ increment("receive_err") /\ Leave
  PROVE  IInv'
<1>1. PICK m \in {"receive_ok", "receive_err"} :
        /\ increment(m)
        /\ pc' = "process" <=> m = "receive_ok"
  BY DEF Leave
<1>2. m \in Metric /\ total[m] < MaxCount /\ pc' \in {"select", "process", "stop"}
  BY <1>1, FieldFacts, RoomToReceive DEF Leave
<1>3. /\ METRICS' \in [Metric -> Nat] /\ total' \in [Metric -> 0..MaxCount]
      /\ config.debug => /\ total'[m] = total[m] + 1
                         /\ \A k \in Metric \ {m} : total'[k] = total[k]
      /\ ~config.debug => total' = total
      /\ NoIncrementLost' /\ Taking' /\ LastEmission' /\ Ended'
  BY <1>1, <1>2, CountStep
<1>4. handle' \in {"none", "server", "watcher", "sent", "dropped"}
  BY DEF Leave, IInv, TypeOK
<1>5. TypeOK'
  BY <1>2, <1>3, <1>4 DEF IInv, TypeOK, metrics, inputs
<1>6. Handling'
  <2>1. total \in [Metric -> 0..MaxCount]
    BY DEF IInv, TypeOK
  <2>2. CASE config.debug
    BY <1>1, <1>2, <1>3, <2>1, <2>2, FieldFacts, MaxCountAssumption
    DEF IInv, Handling, Balanced, Bounded
  <2>3. CASE ~config.debug
    <3>1. total = Zero /\ total' = total
      BY <1>3, <2>3 DEF IInv, TypeOK
    <3>2. \A k \in Metric : Zero[k] = 0
      BY DEF Zero
    <3> QED
      BY <2>3, <3>1, <3>2, FieldFacts, MaxCountAssumption DEF Handling, Balanced
  <2> QED
    BY <2>2, <2>3
<1>7. Causes'
  BY DEF Leave, IInv, Causes, inputs
<1> QED
  BY <1>3, <1>5, <1>6, <1>7 DEF IInv

LEMMA ProcessStep ==
  ASSUME IInv, NEW outcome \in {"process_ok", "process_err"}, process(outcome)
  PROVE  IInv'
<1> USE DEF process, Processed
<1>1. total \in [Metric -> 0..MaxCount]
  BY DEF IInv, TypeOK
<1>2. config.debug => total[outcome] < MaxCount
  BY <1>1, FieldFacts, MaxCountAssumption DEF IInv, Handling
<1>3. outcome \in Metric
  BY FieldFacts
<1>4. /\ METRICS' \in [Metric -> Nat] /\ total' \in [Metric -> 0..MaxCount]
      /\ config.debug => /\ total'[outcome] = total[outcome] + 1
                         /\ \A k \in Metric \ {outcome} : total'[k] = total[k]
      /\ ~config.debug => total' = total
      /\ NoIncrementLost' /\ Taking' /\ LastEmission' /\ Ended'
  BY <1>2, <1>3, CountStep
<1>5. TypeOK'
  BY <1>4 DEF IInv, TypeOK, metrics, inputs
<1>6. Handling'
  <2>1. CASE config.debug
    BY <1>1, <1>3, <1>4, <2>1, FieldFacts, MaxCountAssumption
    DEF IInv, Handling, Balanced
  <2>2. CASE ~config.debug
    <3>1. total = Zero /\ total' = total
      BY <1>4, <2>2 DEF IInv, TypeOK
    <3>2. \A k \in Metric : Zero[k] = 0
      BY DEF Zero
    <3> QED
      BY <2>2, <3>1, <3>2, FieldFacts, MaxCountAssumption DEF Handling, Balanced
  <2> QED
    BY <2>1, <2>2
<1>7. Causes'
  BY DEF IInv, Causes, inputs
<1> QED
  BY <1>4, <1>5, <1>6, <1>7 DEF IInv
-----------------------------------------------------------------------------
LEMMA InitDiagnosticsStep ==
  ASSUME IInv, InitDiagnostics
  PROVE  IInv'
<1> USE DEF InitDiagnostics, inputs, counters, loop
<1>1. thread = "none" /\ taken = Zero
  BY DEF IInv, LastEmission, Taking
<1>2. TypeOK'
  BY DEF IInv, TypeOK
<1>3. NoIncrementLost'
  BY DEF IInv, NoIncrementLost
<1>4. Handling'
  BY DEF IInv, Handling, Balanced
<1>5. Taking'
  BY <1>1 DEF Taking
<1>6. LastEmission'
  BY DEF IInv, LastEmission
<1>7. Causes' /\ Ended'
  BY DEF IInv, Causes, Ended, FinalFlush, TypeOK
<1> QED
  BY <1>2, <1>3, <1>4, <1>5, <1>6, <1>7 DEF IInv

LEMMA StopStep ==
  ASSUME IInv, Stop
  PROVE  IInv'
<1> USE DEF Stop, inputs, counters, metrics, loop
<1>1. mailbox' \in BOOLEAN
  OBVIOUS
<1>2. TypeOK'
  BY <1>1 DEF IInv, TypeOK
<1>3. NoIncrementLost' /\ Taking'
  BY DEF IInv, NoIncrementLost, Taking
<1>4. Handling'
  BY DEF IInv, Handling, Balanced
<1>5. LastEmission'
  BY DEF IInv, LastEmission
<1>6. Causes' /\ Ended'
  BY DEF IInv, Causes, Ended, FinalFlush, TypeOK
<1> QED
  BY <1>2, <1>3, <1>4, <1>5, <1>6 DEF IInv

\* Normal end: the counters were emptied by the last emission, or nothing was
\* ever counted.
LEMMA JoinStep ==
  ASSUME IInv, Join
  PROVE  IInv'
<1> USE DEF Join, Exit, inputs, counters, metrics, loop
<1>1. /\ METRICS \in [Metric -> Nat] /\ total \in [Metric -> 0..MaxCount]
      /\ taken \in [Metric -> Nat] /\ reported \in [Metric -> Nat]
  BY DEF IInv, TypeOK
<1>2. \A m \in Metric : Zero[m] = 0
  BY DEF Zero
<1>3. taken = Zero
  BY DEF IInv, Taking
<1>4. METRICS = Zero \/ total = Zero
  BY DEF IInv, LastEmission, TypeOK
<1>5. \A m \in Metric : total[m] = METRICS[m] + taken[m] + reported[m]
  BY DEF IInv, NoIncrementLost
<1>6. \A m \in Metric : reported[m] = total[m]
  BY <1>1, <1>2, <1>3, <1>4, <1>5
<1>7. reported = total
  BY <1>1, <1>6
<1>8. TypeOK'
  BY DEF IInv, TypeOK
<1>9. NoIncrementLost' /\ Taking'
  BY DEF IInv, NoIncrementLost, Taking
<1>10. Handling'
  BY DEF IInv, Handling
<1>11. LastEmission' /\ Causes'
  BY DEF IInv, LastEmission, Causes
<1>12. Ended'
  BY <1>7 DEF IInv, Handling, Balanced, Ended, FinalFlush
<1> QED
  BY <1>8, <1>9, <1>10, <1>11, <1>12 DEF IInv

-----------------------------------------------------------------------------
LEMMA StartEmitStep ==
  ASSUME IInv, NEW last \in BOOLEAN, StartEmit(last),
         mailbox' \in BOOLEAN, mailbox' => mailbox, last => mailbox
  PROVE  IInv'
<1> USE DEF StartEmit, Running, inputs, counters, loop
<1>1. \A m \in Metric : Zero[m] = 0
  BY DEF Zero
<1>2. config.debug
  BY DEF IInv, TypeOK
<1>3. field' \in 1..Len(Fields) + 1 /\ final' \in BOOLEAN
  BY FieldFacts
<1>4. TypeOK'
  BY <1>2, <1>3 DEF IInv, TypeOK
<1>5. NoIncrementLost'
  BY DEF IInv, NoIncrementLost
<1>6. Handling'
  BY DEF IInv, Handling, Balanced
<1>7. Taking'
  <2>1. taken = Zero
    BY DEF IInv, Taking
  <2>2. \A i \in 1..4 : Fields[i] \in Metric
    BY FieldFacts
  <2> QED
    BY <1>1, <2>1, <2>2 DEF Taking
<1>8. LastEmission'
  BY DEF IInv, LastEmission
<1>9. Causes' /\ Ended'
  BY DEF IInv, Causes, Ended, FinalFlush
<1> QED
  BY <1>4, <1>5, <1>6, <1>7, <1>8, <1>9 DEF IInv

\* One swap moves a count from its counter to the emission under way: what
\* the emission had of that counter was nothing.
LEMMA TakeStep ==
  ASSUME IInv, take
  PROVE  IInv'
<1> USE DEF take, Running, inputs, loop
<1> DEFINE m == Fields[field]
<1>1. /\ METRICS \in [Metric -> Nat] /\ total \in [Metric -> 0..MaxCount]
      /\ taken \in [Metric -> Nat] /\ reported \in [Metric -> Nat]
  BY DEF IInv, TypeOK
<1>2. field \in 1..4 /\ m \in Metric
  BY FieldFacts DEF IInv, TypeOK
<1>3. \A i, j \in 1..4 : i # j => Fields[i] # Fields[j]
  BY FieldFacts
<1>4. \A i \in 1..4 : Fields[i] \in Metric
  BY FieldFacts
<1> HIDE DEF m
<1>5. /\ taken' = [taken EXCEPT ![m] = METRICS[m]]
      /\ METRICS' = [METRICS EXCEPT ![m] = 0]
  BY DEF swap, m
<1>6. /\ taken' \in [Metric -> Nat] /\ METRICS' \in [Metric -> Nat]
      /\ taken'[m] = METRICS[m] /\ METRICS'[m] = 0
      /\ \A k \in Metric \ {m} : taken'[k] = taken[k] /\ METRICS'[k] = METRICS[k]
  BY <1>1, <1>2, <1>5
<1>7. taken[m] = 0
  BY <1>2 DEF m, IInv, Taking
<1>8. TypeOK'
  <2>1. field' \in 1..Len(Fields) + 1
    BY <1>2, FieldFacts
  <2> QED
    BY <1>6, <2>1 DEF IInv, TypeOK
<1>9. NoIncrementLost'
  <2> SUFFICES ASSUME NEW k \in Metric
               PROVE  total[k] = METRICS'[k] + taken'[k] + reported[k]
    BY DEF NoIncrementLost
  <2>1. total[k] = METRICS[k] + taken[k] + reported[k]
    BY DEF IInv, NoIncrementLost
  <2> QED
    BY <1>1, <1>2, <1>6, <1>7, <2>1
<1>10. Handling'
  BY DEF IInv, Handling, Balanced
<1>11. Taking'
  <2> SUFFICES ASSUME NEW i \in (field + 1)..4
               PROVE  taken'[Fields[i]] = 0
    BY DEF Taking
  <2>1. i \in 1..4 /\ i # field /\ i \in field..4
    BY <1>2
  <2>2. Fields[i] \in Metric \ {m}
    BY <1>2, <1>3, <1>4, <2>1 DEF m
  <2> QED
    BY <1>6, <2>1, <2>2 DEF IInv, Taking
<1>12. LastEmission'
  <2>1. ASSUME final, NEW i \in 1..field
        PROVE  METRICS'[Fields[i]] = 0
    <3>1. CASE i = field
      BY <1>6, <3>1 DEF m
    <3>2. CASE i # field
      <4>1. i \in 1..(field - 1) /\ i \in 1..4
        BY <1>2, <3>2
      <4>2. METRICS[Fields[i]] = 0
        BY <2>1, <4>1 DEF IInv, LastEmission
      <4>3. Fields[i] \in Metric \ {m}
        BY <1>2, <1>3, <1>4, <3>2, <4>1 DEF m
      <4> QED
        BY <1>6, <4>2, <4>3
    <3> QED
      BY <3>1, <3>2
  <2>2. field' - 1 = field
    BY <1>2
  <2>3. final => \A i \in 1..(field' - 1) : METRICS'[Fields[i]] = 0
    BY <2>1, <2>2
  <2> QED
    BY <2>3 DEF IInv, LastEmission
<1>13. Causes' /\ Ended'
  BY DEF IInv, Causes, Ended, FinalFlush
<1> QED
  BY <1>8, <1>9, <1>10, <1>11, <1>12, <1>13 DEF IInv

LEMMA EmitStep ==
  ASSUME IInv, Emit
  PROVE  IInv'
<1> USE DEF Emit, Running, inputs, counters, loop
<1>1. /\ METRICS \in [Metric -> Nat] /\ total \in [Metric -> 0..MaxCount]
      /\ taken \in [Metric -> Nat] /\ reported \in [Metric -> Nat]
  BY DEF IInv, TypeOK
<1>2. Zero \in [Metric -> Nat] /\ \A k \in Metric : Zero[k] = 0
  BY DEF Zero
<1>3. reported' \in [Metric -> Nat]
      /\ \A k \in Metric : reported'[k] = reported[k] + taken[k]
  BY <1>1
<1>4. TypeOK'
  <2>1. thread' \in {"none", "wait", "take", "done", "panicked"} /\ config.debug
    BY DEF IInv, TypeOK
  <2>2. taken' \in [Metric -> Nat]
    BY <1>2
  <2> QED
    BY <1>3, <2>1, <2>2 DEF IInv, TypeOK
<1>5. NoIncrementLost'
  <2> SUFFICES ASSUME NEW k \in Metric
               PROVE  total[k] = METRICS[k] + taken'[k] + reported'[k]
    BY DEF NoIncrementLost
  <2>1. total[k] = METRICS[k] + taken[k] + reported[k]
    BY DEF IInv, NoIncrementLost
  <2>2. taken'[k] = 0
    BY <1>2
  <2> QED
    BY <1>1, <1>3, <2>1, <2>2
<1>6. Handling'
  BY DEF IInv, Handling, Balanced
<1>7. Taking'
  BY DEF Taking
<1>8. LastEmission'
  <2>1. final => METRICS = Zero
    <3> SUFFICES ASSUME final PROVE METRICS = Zero
      OBVIOUS
    <3>1. field = 5
      BY FieldFacts DEF IInv, TypeOK
    <3>2. \A i \in 1..4 : METRICS[Fields[i]] = 0
      BY <3>1 DEF IInv, LastEmission
    <3>3. \A k \in Metric : METRICS[k] = Zero[k]
      BY <1>2, <3>2, FieldFacts
    <3> QED
      BY <1>1, <1>2, <3>3
  <2>2. final => pc \in {"join", "exited"}
    BY DEF IInv, LastEmission
  <2> QED
    BY <2>1, <2>2 DEF IInv, LastEmission
<1>9. Causes' /\ Ended'
  BY DEF IInv, Causes, Ended, FinalFlush
<1> QED
  BY <1>4, <1>5, <1>6, <1>7, <1>8, <1>9 DEF IInv

\* The emission that panics keeps what it took, and its counters are empty or
\* hold what came later.
LEMMA EmitPanicsStep ==
  ASSUME IInv, EmitPanics
  PROVE  IInv'
<1> USE DEF EmitPanics, Running, inputs, counters, loop
<1>1. TypeOK'
  BY DEF IInv, TypeOK
<1>2. NoIncrementLost' /\ Handling'
  BY DEF IInv, NoIncrementLost, Handling, Balanced
<1>3. Taking' /\ LastEmission'
  BY DEF IInv, Taking, LastEmission
<1>4. Causes' /\ Ended'
  BY DEF IInv, Causes, Ended, FinalFlush
<1> QED
  BY <1>1, <1>2, <1>3, <1>4 DEF IInv

-----------------------------------------------------------------------------
LEMMA NextIInv == IInv /\ [Next]_vars => IInv'
<1> SUFFICES ASSUME IInv, [Next]_vars PROVE IInv'
  OBVIOUS
<1>1. CASE UNCHANGED vars
  <2> USE <1>1 DEF vars, inputs, loop, counters, metrics
  <2>1. TypeOK'
    BY DEF IInv, TypeOK
  <2>2. NoIncrementLost' /\ Taking'
    BY DEF IInv, NoIncrementLost, Taking
  <2>3. Handling'
    BY DEF IInv, Handling, Balanced
  <2>4. LastEmission'
    BY DEF IInv, LastEmission
  <2>5. Causes' /\ Ended'
    BY DEF IInv, Causes, Ended, FinalFlush
  <2> QED
    BY <2>1, <2>2, <2>3, <2>4, <2>5 DEF IInv
<1>2. CASE Next
  <2>0. pc # "exited"
    BY <1>2, ExitedIsEnd
  <2>1. CASE \/ ReadConfig \/ Build \/ StartFails \/ StartPanics \/ Bind
             \/ BindFails \/ SelectPending \/ ReceivedIncomplete \/ Close
             \/ CtrlC \/ CtrlCFails \/ ProcessPanics \/ OutputPanics
             \/ StopFails \/ OutputFails
             \/ Signal \/ SocketFails \/ StdinEnds \/ StdinRead \/ StdinClosed
    BY <2>0, <2>1, QuietActions
  <2>2. CASE InitDiagnostics
    BY <2>2, InitDiagnosticsStep
  <2>3. CASE ReceivedComplete \/ ReceivedError \/ ReceiveFails
    <3>1. handler' \in {"none", "installed", "failed"}
      BY <2>3 DEF ReceivedComplete, ReceivedError, ReceiveFails, MayRegister,
                  IInv, TypeOK
    <3>2. message' \in Kinds \cup {"none"}
      BY <2>3 DEF ReceivedComplete, ReceivedError, ReceiveFails, IInv, TypeOK
    <3> QED
      BY <2>3, <3>1, <3>2, ReceiveStep
      DEF ReceivedComplete, ReceivedError, ReceiveFails
  <2>4. CASE process("process_ok") \/ process("process_err")
    BY <2>4, ProcessStep
  <2>5. CASE Stop
    BY <2>5, StopStep
  <2>6. CASE Join
    BY <2>6, JoinStep
  <2>7. CASE RecvTimeout
    <3>1. StartEmit(FALSE) /\ mailbox' = mailbox
      BY <2>7 DEF RecvTimeout
    <3>2. mailbox' \in BOOLEAN
      BY <3>1 DEF IInv, TypeOK
    <3> QED
      BY <3>1, <3>2, StartEmitStep
  <2>8. CASE RecvStop
    <3>1. StartEmit(TRUE) /\ mailbox /\ mailbox' = FALSE
      BY <2>8 DEF RecvStop
    <3> QED
      BY <3>1, StartEmitStep
  <2>9. CASE take
    BY <2>9, TakeStep
  <2>10. CASE Emit
    BY <2>10, EmitStep
  <2>11. CASE EmitPanics
    BY <2>11, EmitPanicsStep
  <2> QED
    BY <1>2, <2>1, <2>2, <2>3, <2>4, <2>5, <2>6, <2>7, <2>8, <2>9, <2>10, <2>11
    DEF Next, main, receive, emit_metrics
<1> QED
  BY <1>1, <1>2

\* Every state the three threads reach satisfies the inductive invariant: it
\* holds before main starts, and every step of main, of the reader of stdin, of
\* emit_metrics and of the environment preserves it.
THEOREM Inductive == Spec => []IInv
<1>1. Init => IInv
  BY InitIInv
<1>2. IInv /\ [Next]_vars => IInv'
  BY NextIInv
<1> QED
  BY <1>1, <1>2, PTL DEF Spec

-----------------------------------------------------------------------------
\* The variables of the three threads keep their types, and below level DEBUG
\* nothing is counted and no metrics thread runs.
THEOREM TypeCorrect == Spec => []TypeOK
<1>1. IInv => TypeOK
  BY DEF IInv
<1> QED
  BY <1>1, Inductive, PTL

\* Every increment! is in a counter, in the emission under way or in one that
\* was written, exactly once, however main and emit_metrics interleave.
THEOREM NoIncrementEverLost == Spec => []NoIncrementLost
<1>1. IInv => NoIncrementLost
  BY DEF IInv
<1> QED
  BY <1>1, Inductive, PTL

\* A process that ends normally has written everything it counted and has
\* processed every message it received.
THEOREM FlushedAtExit == Spec => []FinalFlush
<1>1. IInv => FinalFlush
  BY DEF IInv, Ended
<1> QED
  BY <1>1, Inductive, PTL

\* A running server is left, by break, by a panic or by being killed, only for
\* one of the causes of StopsForCause: a handle that is closed is closed because
\* a watched stdin ended, as the Server keeps the other until it has left the
\* loop, and process panics only over an event that cannot be written.
THEOREM StopsOnlyForCause == Spec => StopsForCause
<1> DEFINE Cause == \/ ctrl_c
                    \/ handler # "installed" /\ exit' = "killed"
                    \/ handler' = "failed"
                    \/ config.seq_app /\ stdin = "ended"
                    \/ config.udp /\ socket = "failed"
                    \/ output = "failed"
                    \/ pc = "process" /\ message = "unprintable"
           InLoop == pc \in {"select", "process"}
<1>1. IInv /\ [Next]_vars => [InLoop /\ pc' \notin {"select", "process"} => Cause]_vars
  <2> SUFFICES ASSUME IInv, Next, InLoop, pc' \notin {"select", "process"}
               PROVE  Cause
    OBVIOUS
  <2>1. \/ ReceiveFails \/ Close \/ CtrlC \/ CtrlCFails
        \/ ProcessPanics \/ OutputPanics \/ Signal
    <3>1. CASE main
      BY <3>1 DEF main, ReadConfig, InitDiagnostics, Build, StartFails, Bind,
                  BindFails, SelectPending, process, Stop, Join, StopFails
    <3>2. CASE receive
      BY <3>2 DEF receive, ReceivedComplete, ReceivedIncomplete, ReceivedError
    <3>3. CASE \/ StartPanics \/ SocketFails \/ OutputFails
               \/ StdinEnds \/ StdinRead \/ StdinClosed
      BY <3>3 DEF StartPanics, SocketFails, OutputFails, StdinEnds, StdinRead,
                  StdinClosed, vars
    <3>4. CASE RecvTimeout \/ emit_metrics \/ EmitPanics
      BY <3>4 DEF RecvTimeout, emit_metrics, RecvStop, StartEmit, take, Emit,
                  EmitPanics
    <3> QED
      BY <3>1, <3>2, <3>3, <3>4 DEF Next
  <2>2. handle \in {"sent", "dropped"} => config.seq_app /\ stdin = "ended"
    BY DEF IInv, Causes
  <2>3. socket = "failed" => config.udp
    BY DEF IInv, Causes
  <2>4. Signal => Cause
    BY DEF Signal, Exit
  <2> QED
    BY <2>1, <2>2, <2>3, <2>4
    DEF ReceiveFails, Close, CtrlC, CtrlCFails, ProcessPanics, OutputPanics
<1> QED
  BY <1>1, Inductive, PTL DEF Spec, StopsForCause
=============================================================================
