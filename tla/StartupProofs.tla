--------------------------- MODULE StartupProofs ---------------------------
(***************************************************************************)
(* Proofs about module Startup: whatever the environment and the files     *)
(* hold, a server never serves without the TLS it was configured for, a    *)
(* process that does not serve says so once, and one that was not asked    *)
(* for diagnostics writes nothing else.                                    *)
(***************************************************************************)
EXTENDS Startup, FiniteSetTheorems, TLAPS

-----------------------------------------------------------------------------
(* The inductive invariant.                                                *)

Started == {"build", "server", "tls_failed", "bind", "serving", "stop"}

Places == Started \cup {"from_env", "init", "failed", "exited"}

LevelOf == IF is_truthy("diagnostics") THEN "DEBUG" ELSE "ERROR"

\* The configuration is what the environment says, and stays so: nothing that
\* comes after from_env reads the environment again.
Configured ==
  pc \in Started \cup {"init"} =>
    /\ ~EnvFails
    /\ config.certificate = certificate
    /\ config.bind.protocol \in {"tcp", "udp"}
    /\ config.min_level = LevelOf

\* Nothing is written at the level in force before diagnostics::init.
Level ==
  /\ pc \in {"from_env", "init"} => log = <<>>
  /\ pc \in Started => MIN_LEVEL = to_usize[LevelOf]
  /\ MIN_LEVEL \in {0, 1}

\* TLS is set up between the choice of the protocol and the socket.
TlsSetUp ==
  /\ pc \in {"build", "server", "tls_failed", "from_env", "init"} => tls = <<>>
  /\ pc \in {"bind", "serving"} =>
       /\ tls = certificate
       /\ certificate # <<>> => config.bind.protocol = "tcp"

LogType == pc \in Places /\ log \in Seq({"DEBUG", "ERROR"})

\* QuietByDefault, in terms of what the code has read.
Quiet == ~is_truthy("diagnostics") => \A i \in DOMAIN log : log[i] = "ERROR"

IInv ==
  /\ LogType
  /\ Configured
  /\ Level
  /\ TlsSetUp
  /\ FailureReported
  /\ Quiet

-----------------------------------------------------------------------------
(* What is written.                                                        *)

Errors(s) == {i \in DOMAIN s : s[i] = "ERROR"}

\* An ERROR that is written is one more, and a DEBUG is none.
LEMMA AppendErrors ==
  ASSUME NEW s \in Seq({"DEBUG", "ERROR"}), NEW l \in {"DEBUG", "ERROR"}
  PROVE  /\ Append(s, l) \in Seq({"DEBUG", "ERROR"})
         /\ Cardinality(Errors(s)) \in Nat
         /\ Cardinality(Errors(Append(s, l))) =
              Cardinality(Errors(s)) + (IF l = "ERROR" THEN 1 ELSE 0)
<1> DEFINE t == Append(s, l)
<1>1. /\ t \in Seq({"DEBUG", "ERROR"})
      /\ Len(t) = Len(s) + 1
      /\ t[Len(s) + 1] = l
      /\ \A i \in 1..Len(s) : t[i] = s[i]
  OBVIOUS
<1>2. Len(s) \in Nat /\ DOMAIN s = 1..Len(s) /\ DOMAIN t = 1..Len(s) + 1
  BY <1>1
<1>3. IsFiniteSet(Errors(s))
  <2>1. IsFiniteSet(1..Len(s))
    BY <1>2, FS_Interval
  <2>2. Errors(s) \subseteq 1..Len(s)
    BY <1>2 DEF Errors
  <2> QED
    BY <2>1, <2>2, FS_Subset
<1>4. Cardinality(Errors(s)) \in Nat
  BY <1>3, FS_CardinalityType
<1>5. Len(s) + 1 \notin Errors(s)
  BY <1>2 DEF Errors
<1> HIDE DEF t
<1>6. CASE l = "ERROR"
  <2>1. \A i : i \in Errors(t) <=> i \in Errors(s) \cup {Len(s) + 1}
    BY <1>1, <1>2, <1>6 DEF Errors
  <2>2. Errors(t) = Errors(s) \cup {Len(s) + 1}
    BY <2>1
  <2>3. Cardinality(Errors(t)) = Cardinality(Errors(s)) + 1
    BY <2>2, <1>3, <1>5, FS_AddElement
  <2> QED
    BY <2>3, <1>1, <1>4, <1>6 DEF t
<1>7. CASE l = "DEBUG"
  <2>1. \A i : i \in Errors(t) <=> i \in Errors(s)
    BY <1>1, <1>2, <1>7 DEF Errors
  <2>2. Errors(t) = Errors(s)
    BY <2>1
  <2> QED
    BY <2>2, <1>1, <1>4, <1>7 DEF t
<1> QED
  BY <1>6, <1>7

\* emit at level ERROR writes one error, whatever the level in force is.
LEMMA EmitError ==
  ASSUME LogType, Quiet, MIN_LEVEL \in {0, 1}, emit("ERROR"),
         UNCHANGED inputs
  PROVE  /\ log' \in Seq({"DEBUG", "ERROR"})
         /\ Quiet'
         /\ Cardinality(Errors(log)) \in Nat
         /\ Cardinality(Errors(log')) = Cardinality(Errors(log)) + 1
<1>1. log' = Append(log, "ERROR")
  BY DEF emit, includes, to_usize
<1>2. Quiet'
  <2> SUFFICES ASSUME ~is_truthy("diagnostics"), NEW i \in DOMAIN log'
               PROVE  log'[i] = "ERROR"
    BY DEF Quiet, is_truthy, Var, inputs
  <2>1. \A j \in DOMAIN log : log[j] = "ERROR"
    BY DEF Quiet
  <2> QED
    BY <1>1, <2>1 DEF LogType
<1> QED
  BY <1>1, <1>2, AppendErrors DEF LogType

\* emit at level DEBUG writes no error, and nothing at all below that level.
LEMMA EmitDebug ==
  ASSUME LogType, Quiet, MIN_LEVEL = to_usize[LevelOf], emit("DEBUG"),
         UNCHANGED inputs
  PROVE  /\ log' \in Seq({"DEBUG", "ERROR"})
         /\ Quiet'
         /\ Cardinality(Errors(log)) \in Nat
         /\ Cardinality(Errors(log')) = Cardinality(Errors(log))
<1>1. Cardinality(Errors(log)) \in Nat
  BY AppendErrors DEF LogType
<1>2. CASE is_truthy("diagnostics")
  <2>1. log' = Append(log, "DEBUG")
    BY <1>2 DEF emit, includes, to_usize, LevelOf
  <2>2. Quiet'
    BY <1>2 DEF Quiet, is_truthy, Var, inputs
  <2>3. log' \in Seq({"DEBUG", "ERROR"})
    BY <2>1 DEF LogType
  <2>4. Cardinality(Errors(log')) = Cardinality(Errors(log)) + 0
    BY <2>1, AppendErrors DEF LogType
  <2> QED
    BY <1>1, <2>2, <2>3, <2>4
<1>3. CASE ~is_truthy("diagnostics")
  <2>1. log' = log
    BY <1>3 DEF emit, includes, to_usize, LevelOf
  <2>2. Quiet'
    BY <2>1 DEF Quiet, is_truthy, Var, inputs
  <2> QED
    BY <1>1, <2>1, <2>2 DEF LogType
<1> QED
  BY <1>2, <1>3

-----------------------------------------------------------------------------
(* Every step preserves the invariant.                                     *)

\* The process starts with an empty log and no TLS.
LEMMA InitIInv == Init => IInv
<1> SUFFICES ASSUME Init PROVE IInv
  OBVIOUS
<1>1. log = <<>> /\ pc = "from_env" /\ MIN_LEVEL = 0 /\ tls = <<>>
  BY DEF Init
<1>2. log \in Seq({"DEBUG", "ERROR"}) /\ DOMAIN log = {}
  BY <1>1
<1>3. FailureReported
  <2>1. {i \in DOMAIN log : log[i] = "ERROR"} = {}
    BY <1>2
  <2> QED
    BY <1>1, <2>1, FS_EmptySet DEF FailureReported
<1> QED
  BY <1>1, <1>2, <1>3
  DEF IInv, LogType, Places, Started, Configured, Level, TlsSetUp, Quiet

\* The definitions that only depend on the environment keep their values.
LEMMA SameInputs ==
  ASSUME UNCHANGED inputs
  PROVE  /\ EnvFails' <=> EnvFails
         /\ certificate' = certificate
         /\ LevelOf' = LevelOf
BY DEF inputs, EnvFails, certificate, LevelOf, Var, is_present, is_truthy,
       read_environment

\* Config::from_env: a Bind has one of the two protocols.
LEMMA BindProtocol ==
  ASSUME NEW s
  PROVE  from_str(s).protocol \in {"tcp", "udp"}
BY DEF from_str

LEMMA FromEnvStep == IInv /\ from_env => IInv'
<1> SUFFICES ASSUME IInv, from_env PROVE IInv'
  OBVIOUS
<1>1. UNCHANGED inputs /\ UNCHANGED <<MIN_LEVEL, log, tls>> /\ pc = "from_env"
  BY DEF from_env
<1>2. pc' \in {"failed", "init"}
  BY DEF from_env
<1>3. log = <<>> /\ tls = <<>> /\ MIN_LEVEL \in {0, 1}
  BY <1>1 DEF IInv, Level, TlsSetUp
<1>4. LogType' /\ Level' /\ TlsSetUp'
  BY <1>1, <1>2, <1>3 DEF IInv, LogType, Places, Started, Level, TlsSetUp
<1>5. Quiet'
  BY <1>1 DEF IInv, Quiet, is_truthy, Var, inputs
<1>6. FailureReported'
  BY <1>1, <1>2 DEF IInv, FailureReported
<1>7. Configured'
  <2>1. CASE pc' = "failed"
    BY <2>1 DEF Configured, Started
  <2>2. CASE pc' = "init"
    <3>1. /\ ~EnvFails
          /\ config' =
               [bind |-> IF Var("address") \in {"unset", ""}
                         THEN [protocol |-> "udp", addr |-> "0.0.0.0:12201"]
                         ELSE from_str(Var("address")),
                min_level |-> LevelOf,
                certificate |-> certificate]
      BY <2>2 DEF from_env, LevelOf
    <3>2. config'.bind.protocol \in {"tcp", "udp"}
      BY <3>1, BindProtocol
    <3>3. config'.min_level = LevelOf /\ config'.certificate = certificate
      BY <3>1
    <3> QED
      BY <3>1, <3>2, <3>3, <1>1, SameInputs DEF Configured
  <2> QED
    BY <1>2, <2>1, <2>2
<1> QED
  BY <1>4, <1>5, <1>6, <1>7 DEF IInv

LEMMA InitStep == IInv /\ init => IInv'
<1> SUFFICES ASSUME IInv, init PROVE IInv'
  OBVIOUS
<1>1. /\ UNCHANGED inputs /\ UNCHANGED <<config, log, tls>>
      /\ pc = "init" /\ pc' = "build" /\ MIN_LEVEL' = to_usize[config.min_level]
  BY DEF init
<1>2. Configured'
  BY <1>1, SameInputs DEF IInv, Configured, Started
<1>3. LogType' /\ TlsSetUp'
  BY <1>1 DEF IInv, LogType, Places, Started, TlsSetUp
<1>4. Level'
  <2>1. config.min_level = LevelOf
    BY <1>1 DEF IInv, Configured
  <2>2. to_usize[LevelOf] \in {0, 1}
    BY DEF to_usize, LevelOf
  <2> QED
    BY <1>1, <2>1, <2>2, SameInputs DEF Level
<1>5. Quiet' /\ FailureReported'
  BY <1>1 DEF IInv, Quiet, FailureReported, is_truthy, Var, inputs
<1> QED
  BY <1>2, <1>3, <1>4, <1>5 DEF IInv

\* A step of a process with its configuration and its level that says nothing
\* but DEBUG, unless it stops, and then an ERROR.
LEMMA StartedStep ==
  ASSUME IInv, pc \in Started \ {"stop"},
         UNCHANGED inputs, UNCHANGED <<config, MIN_LEVEL>>,
         pc' \in Started \cup {"failed"},
         \/ pc' # "stop" /\ (emit("DEBUG") \/ UNCHANGED log)
         \/ pc' = "stop" /\ emit("ERROR"),
         TlsSetUp'
  PROVE  IInv'
<1>1. /\ LogType /\ Quiet /\ MIN_LEVEL = to_usize[LevelOf]
      /\ MIN_LEVEL \in {0, 1}
  BY DEF IInv, Level, Started
<1>2. Configured'
  BY SameInputs DEF IInv, Configured, Started
<1>3. Level'
  BY <1>1, SameInputs DEF Level, Started
<1>4. Cardinality(Errors(log)) = 0
  BY DEF IInv, FailureReported, Errors, Started
<1>5. CASE pc' # "stop" /\ emit("DEBUG")
  <2>1. /\ log' \in Seq({"DEBUG", "ERROR"}) /\ Quiet'
        /\ Cardinality(Errors(log')) = 0
    BY <1>1, <1>4, <1>5, EmitDebug
  <2>2. FailureReported'
    BY <2>1, <1>5 DEF FailureReported, Errors, Started
  <2> QED
    BY <1>2, <1>3, <2>1, <2>2 DEF IInv, LogType, Places
<1>6. CASE pc' # "stop" /\ UNCHANGED log
  <2>1. Quiet'
    BY <1>1, <1>6 DEF Quiet, is_truthy, Var, inputs
  <2>2. FailureReported'
    BY <1>4, <1>6 DEF FailureReported, Errors, Started
  <2> QED
    BY <1>1, <1>2, <1>3, <1>6, <2>1, <2>2 DEF IInv, LogType, Places
<1>7. CASE pc' = "stop" /\ emit("ERROR")
  <2>1. /\ log' \in Seq({"DEBUG", "ERROR"}) /\ Quiet'
        /\ Cardinality(Errors(log')) = 1
    BY <1>1, <1>4, <1>7, EmitError
  <2>2. FailureReported'
    BY <2>1, <1>7 DEF FailureReported, Errors
  <2> QED
    BY <1>2, <1>3, <2>1, <2>2 DEF IInv, LogType, Places
<1> QED
  BY <1>5, <1>6, <1>7

LEMMA BuildStep == IInv /\ build => IInv'
<1> SUFFICES ASSUME IInv, build PROVE IInv'
  OBVIOUS
<1>1. /\ pc = "build" /\ pc' \in {"server", "failed"} /\ emit("DEBUG")
      /\ UNCHANGED inputs /\ UNCHANGED <<config, MIN_LEVEL, tls>>
  BY DEF build
<1>2. TlsSetUp'
  BY <1>1 DEF IInv, TlsSetUp
<1> QED
  BY <1>1, <1>2, StartedStep DEF Started

\* server::build chooses the protocol and sets up TLS, or refuses to.
LEMMA ServerStep == IInv /\ server => IInv'
<1> SUFFICES ASSUME IInv, server PROVE IInv'
  OBVIOUS
<1>1. /\ UNCHANGED inputs /\ UNCHANGED <<config, MIN_LEVEL>>
      /\ pc \in {"server", "tls_failed"}
  BY DEF server
<1>2. /\ tls = <<>> /\ config.certificate = certificate
      /\ config.bind.protocol \in {"tcp", "udp"}
      /\ certificate' = certificate
  BY <1>1, SameInputs DEF IInv, TlsSetUp, Configured, Started
<1>3. CASE ServerFails
  <2>1. TlsSetUp'
    BY <1>3 DEF ServerFails, TlsSetUp
  <2> QED
    BY <1>1, <1>3, <2>1, StartedStep DEF ServerFails, Started
<1>4. CASE config.certificate = <<>> /\ pc' = "bind" /\ UNCHANGED <<log, tls>>
  <2>1. TlsSetUp'
    BY <1>2, <1>4 DEF TlsSetUp
  <2> QED
    BY <1>1, <1>4, <2>1, StartedStep DEF Started
<1>5. CASE config.bind.protocol = "tcp" /\ Tls
  <2>1. emit("DEBUG") /\ pc' \in {"tls_failed", "bind"}
    BY <1>5 DEF Tls
  <2>2. TlsSetUp'
    BY <1>1, <1>2, <1>5 DEF Tls, TlsSetUp
  <2> QED
    BY <1>1, <2>1, <2>2, StartedStep DEF Started
<1> QED
  BY <1>2, <1>3, <1>4, <1>5 DEF server, Udp, Tcp

LEMMA BindStep == IInv /\ bind => IInv'
<1> SUFFICES ASSUME IInv, bind PROVE IInv'
  OBVIOUS
<1>1. /\ UNCHANGED inputs /\ UNCHANGED <<config, MIN_LEVEL, tls>> /\ pc = "bind"
      /\ \/ pc' = "stop" /\ emit("ERROR")
         \/ pc' = "serving" /\ emit("DEBUG")
  BY DEF bind, ServerFails
<1>2. TlsSetUp'
  BY <1>1, SameInputs DEF IInv, TlsSetUp
<1> QED
  BY <1>1, <1>2, StartedStep DEF Started

\* The one error of a run that failed is written by main, that of a server that
\* failed has been written before diagnostics::stop.
LEMMA MainStep == IInv /\ main => IInv'
<1> SUFFICES ASSUME IInv, main PROVE IInv'
  OBVIOUS
<1>1. /\ UNCHANGED inputs /\ UNCHANGED <<config, MIN_LEVEL, tls>> /\ pc' = "exited"
      /\ \/ pc = "failed" /\ emit("ERROR")
         \/ pc = "stop" /\ emit("DEBUG")
  BY DEF main
<1>2. Configured' /\ TlsSetUp'
  BY <1>1 DEF Configured, TlsSetUp, Started
<1>3. LogType /\ Quiet /\ MIN_LEVEL \in {0, 1}
  BY DEF IInv, Level
<1>4. Level'
  BY <1>1, <1>3 DEF Level, Started
<1>5. /\ log' \in Seq({"DEBUG", "ERROR"}) /\ Quiet'
      /\ Cardinality(Errors(log')) = 1
  <2>1. CASE pc = "failed" /\ emit("ERROR")
    <3>1. Cardinality(Errors(log)) = 0
      BY <2>1 DEF IInv, FailureReported, Errors
    <3> QED
      BY <1>1, <1>3, <2>1, <3>1, EmitError
  <2>2. CASE pc = "stop" /\ emit("DEBUG")
    <3>1. Cardinality(Errors(log)) = 1 /\ MIN_LEVEL = to_usize[LevelOf]
      BY <2>2 DEF IInv, FailureReported, Errors, Level, Started
    <3> QED
      BY <1>1, <1>3, <2>2, <3>1, EmitDebug
  <2> QED
    BY <1>1, <2>1, <2>2
<1>6. FailureReported'
  BY <1>1, <1>5 DEF FailureReported, Errors
<1> QED
  BY <1>1, <1>2, <1>4, <1>5, <1>6 DEF IInv, LogType, Places

LEMMA NextIInv == IInv /\ [Next]_vars => IInv'
<1> SUFFICES ASSUME IInv, [Next]_vars PROVE IInv'
  OBVIOUS
<1>1. CASE UNCHANGED vars
  <2>1. LogType' /\ Level' /\ Configured' /\ TlsSetUp'
    <3>1. UNCHANGED inputs
      BY <1>1 DEF vars
    <3> QED
      BY <1>1, <3>1, SameInputs
      DEF vars, IInv, LogType, Level, Configured, TlsSetUp
  <2>2. FailureReported' /\ Quiet'
    BY <1>1
    DEF vars, inputs, IInv, FailureReported, Quiet, is_truthy, Var
  <2> QED
    BY <2>1, <2>2 DEF IInv
<1> QED
  BY <1>1, FromEnvStep, InitStep, BuildStep, ServerStep, BindStep, MainStep
  DEF Next

-----------------------------------------------------------------------------
(* The theorems.                                                           *)

\* The variables the code reads are those that were set for its mode.
LEMMA VarFacts == \A v : Var(v) = Settings[v]
BY DEF Var, Settings

\* Every state of the process up to its select! loop satisfies the inductive
\* invariant: it holds before the environment is read, and every step of main
\* preserves it.
THEOREM Inductive == Spec => []IInv
BY InitIInv, NextIInv, PTL DEF Spec

\* A server with a certificate configured in the variables of its mode serves
\* over TLS with that certificate and its key, and no other serves over TLS.
THEOREM TlsIsAsConfigured == Spec => []TlsAsConfigured
<1>1. IInv => TlsAsConfigured
  <2> SUFFICES ASSUME IInv, pc = "serving" PROVE TlsAsConfigured
    BY DEF TlsAsConfigured
  <2>1. /\ tls = certificate
        /\ certificate # <<>> => config.bind.protocol = "tcp"
        /\ ~EnvFails
    BY DEF IInv, TlsSetUp, Configured, Started
  <2>2. Var("cert") # "invalid"
    BY <2>1 DEF EnvFails
  <2>3. CASE Var("cert") \in {"unset", ""}
    BY <2>1, <2>3, VarFacts DEF certificate, is_present, TlsAsConfigured
  <2>4. CASE Var("cert") \notin {"unset", ""}
    <3>1. is_present("cert") /\ Var("key") # "invalid"
      BY <2>1, <2>2, <2>4 DEF is_present, EnvFails
    <3>2. read_environment("", "cert") = Var("cert")
      BY <2>4 DEF read_environment
    <3>3. certificate =
            <<Var("cert"), IF Var("key") \in {"unset", ""} THEN Var("cert")
                           ELSE Var("key")>>
      BY <3>1, <3>2 DEF certificate, read_environment
    <3>4. certificate # <<>>
      BY <3>3
    <3> QED
      BY <2>1, <2>4, <3>3, <3>4, VarFacts DEF TlsAsConfigured
  <2> QED
    BY <2>3, <2>4
<1> QED
  BY <1>1, Inductive, PTL

\* main and run write exactly one error for a process that does not serve, and
\* none before it stops, at every level and also before there is one.
THEOREM FailureIsReported == Spec => []FailureReported
<1>1. IInv => FailureReported
  BY DEF IInv
<1> QED
  BY <1>1, Inductive, PTL

\* Without diagnostics asked for in the variables of its mode, nothing but
\* errors is written, also before diagnostics::init sets the level.
THEOREM QuietUnlessAsked == Spec => []QuietByDefault
<1>1. IInv => QuietByDefault
  BY VarFacts DEF IInv, Quiet, is_truthy, QuietByDefault
<1> QED
  BY <1>1, Inductive, PTL
=============================================================================
