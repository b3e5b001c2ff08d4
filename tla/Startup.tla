-------------------------------- MODULE Startup --------------------------------
(***************************************************************************)
(* From the environment to a serving socket: Config::from_env of           *)
(* sqelf/src/config.rs, Bind and server::build of server/mod.rs, level and *)
(* emission of diagnostics.rs, and run and main of main.rs up to the       *)
(* select! loop (module Lifecycle).                                        *)
(*                                                                         *)
(* As a Seq app the process reads variables of other names than as a       *)
(* program; the variables of the other mode may be set as well.  The value *)
(* of a variable is "unset", "" (empty), "invalid" (no Unicode) or a text. *)
(***************************************************************************)
EXTENDS Integers, Sequences, FiniteSets, TLC

CONSTANTS
  CertFiles,   \* contents the file of the certificate can have
  KeyFiles     \* contents the file of the private key can have

\* "missing" is no file and "malformed" no PEM; the others hold a certificate,
\* a PKCS8 key or both.
ASSUME FilesAssumption ==
  CertFiles \cup KeyFiles \subseteq {"missing", "malformed", "cert", "key", "both"}

VARIABLES
  seq_app,     \* SEQ_APP_ID is set
  env,         \* mode -> variable -> value
  files,       \* path -> contents
  pc,          \* where main is
  config,      \* the Config read
  MIN_LEVEL,   \* what Level::to_usize gave
  log,         \* the levels of what has been written to stderr
  tls,         \* the paths TLS was set up from, if it was
  exit         \* the exit code

inputs == <<seq_app, env, files>>
vars == <<inputs, pc, config, MIN_LEVEL, log, tls, exit>>

Environment ==
  [address : {"unset", "", "invalid", "tcp://[::]:1", "udp://[::]:1", "[::]:1",
              "tls://[::]:1", "tcp://nowhere"},
   diagnostics : {"unset", "True", "yes", "invalid"},
   cert : {"unset", "", "invalid", "cert.pem"},
   key : {"unset", "", "invalid", "key.pem"}]

\* The variables of the other mode: not set, or set to what would work.
Unset == [address |-> "unset", diagnostics |-> "unset", cert |-> "unset",
          key |-> "unset"]

Foreign == [address |-> "tcp://[::]:1", diagnostics |-> "True",
            cert |-> "other.pem", key |-> "other.pem"]

Init ==
  /\ seq_app \in BOOLEAN
  /\ \E own \in Environment, other \in {Unset, Foreign} :
       env = [app |-> IF seq_app THEN own ELSE other,
              program |-> IF seq_app THEN other ELSE own]
  /\ \E c \in CertFiles, k \in KeyFiles :
       files = ("cert.pem" :> c) @@ ("key.pem" :> k) @@ ("other.pem" :> "both")
  /\ pc = "from_env"
  /\ config = <<>>
  /\ MIN_LEVEL = 0
  /\ log = <<>>
  /\ tls = <<>>
  /\ exit = "none"

-----------------------------------------------------------------------------
(* diagnostics.rs.                                                         *)

to_usize == [DEBUG |-> 0, ERROR |-> 1]

FaultyIncludes(level) == to_usize[level] > MIN_LEVEL

includes(level) == to_usize[level] >= MIN_LEVEL

emit(level) == log' = IF includes(level) THEN Append(log, level) ELSE log

-----------------------------------------------------------------------------
(* config.rs.                                                              *)

FaultyVar(v) == IF env.app[v] # "unset" THEN env.app[v] ELSE env.program[v]

\* The variable that is read in this mode.
Var(v) == env[IF seq_app THEN "app" ELSE "program"][v]

is_present(v) == Var(v) \notin {"unset", "", "invalid"}

is_truthy(v) == Var(v) \in {"True", "true"}

read_environment(into, v) == IF Var(v) \in {"unset", ""} THEN into ELSE Var(v)

from_str(s) ==
  LET scheme == IF Len(s) >= 6 THEN SubSeq(s, 1, 6) ELSE "None"
      rest == SubSeq(s, 7, Len(s))
  IN  CASE scheme = "tcp://" -> [protocol |-> "tcp", addr |-> rest]
        [] scheme = "udp://" -> [protocol |-> "udp", addr |-> rest]
        [] OTHER -> [protocol |-> "udp", addr |-> s]

\* None, or the path of the certificate and that of its key.
certificate ==
  IF ~is_present("cert") THEN <<>>
  ELSE LET path == read_environment("", "cert")
           private_key_path == read_environment("", "key")
       IN  <<path, IF private_key_path = "" THEN path ELSE private_key_path>>

\* The path of the key is read only when there is a certificate.
EnvFails ==
  \/ \E v \in {"address", "diagnostics", "cert"} : Var(v) = "invalid"
  \/ is_present("cert") /\ Var("key") = "invalid"

from_env ==
  /\ pc = "from_env"
  /\ \/ EnvFails /\ pc' = "failed" /\ UNCHANGED config
     \/ /\ ~EnvFails
        /\ pc' = "init"
        /\ config' =
             [bind |-> IF Var("address") \in {"unset", ""}
                       THEN [protocol |-> "udp", addr |-> "0.0.0.0:12201"]
                       ELSE from_str(Var("address")),
              min_level |-> IF is_truthy("diagnostics") THEN "DEBUG" ELSE "ERROR",
              certificate |-> certificate]
  /\ UNCHANGED <<inputs, MIN_LEVEL, log, tls, exit>>

-----------------------------------------------------------------------------
(* main.rs and server/mod.rs.                                              *)

init ==
  /\ pc = "init"
  /\ MIN_LEVEL' = to_usize[config.min_level]
  /\ pc' = "build"
  /\ UNCHANGED <<inputs, config, log, tls, exit>>

\* The address is parsed before anything else.
build ==
  /\ pc = "build"
  /\ emit("DEBUG")
  /\ pc' = IF config.bind.addr \in {"[::]:1", "0.0.0.0:12201"}
           THEN "server" ELSE "failed"
  /\ UNCHANGED <<inputs, config, MIN_LEVEL, tls, exit>>

\* An error of the server is emitted, and run goes on to its end.
ServerFails ==
  /\ emit("ERROR")
  /\ pc' = "stop"
  /\ UNCHANGED tls

FaultyUdp == pc' = "bind" /\ UNCHANGED <<log, tls>>

Udp ==
  IF config.certificate # <<>> THEN ServerFails
  ELSE pc' = "bind" /\ UNCHANGED <<log, tls>>

\* Both files are PEM, and the second has a PKCS8 key.
Loadable ==
  /\ files[config.certificate[1]] \notin {"missing", "malformed"}
  /\ files[config.certificate[2]] \in {"key", "both"}

\* with_single_cert may refuse the key or the certificate.
Tls ==
  /\ emit("DEBUG")
  /\ \/ pc' = "tls_failed" /\ UNCHANGED tls
     \/ Loadable /\ pc' = "bind" /\ tls' = config.certificate

Tcp ==
  IF config.certificate # <<>> THEN Tls
  ELSE pc' = "bind" /\ UNCHANGED <<log, tls>>

server ==
  /\ \/ pc = "server" /\ (IF config.bind.protocol = "udp" THEN Udp ELSE Tcp)
     \/ pc = "tls_failed" /\ ServerFails
  /\ UNCHANGED <<inputs, config, MIN_LEVEL, exit>>

bind ==
  /\ pc = "bind"
  /\ ServerFails \/ (pc' = "serving" /\ emit("DEBUG") /\ UNCHANGED tls)
  /\ UNCHANGED <<inputs, config, MIN_LEVEL, exit>>

\* The end of main: run has returned Err, or Ok after diagnostics::stop.
main ==
  /\ \/ pc = "failed" /\ emit("ERROR") /\ exit' = 1
     \/ pc = "stop" /\ emit("DEBUG") /\ exit' = 0
  /\ pc' = "exited"
  /\ UNCHANGED <<inputs, config, MIN_LEVEL, tls>>

Next == from_env \/ init \/ build \/ server \/ bind \/ main

Spec == Init /\ [][Next]_vars
-----------------------------------------------------------------------------
(* Properties.                                                             *)

\* What was set for the mode the process runs in.
Settings == IF seq_app THEN env.app ELSE env.program

\* A server whose certificate is configured, in the variables of the mode it
\* runs in, serves over TLS with that certificate and its key, the certificate's
\* file holding the key when no other is named; and no other server serves over
\* TLS.  Neither a protocol nor a file that does not fit, nor variables of the
\* other mode, make it fall back to plain text.
TlsAsConfigured ==
  pc = "serving" =>
    IF Settings.cert \in {"unset", ""} THEN tls = <<>>
    ELSE /\ config.bind.protocol = "tcp"
         /\ tls = <<Settings.cert,
                    IF Settings.key \in {"unset", ""} THEN Settings.cert
                    ELSE Settings.key>>

\* A process that does not get to serve says why, once, whatever the level is
\* and also when it fails before diagnostics are initialized.
FailureReported ==
  Cardinality({i \in DOMAIN log : log[i] = "ERROR"}) =
    IF pc \in {"stop", "exited"} THEN 1 ELSE 0

\* Unless diagnostics were asked for in the variables of the mode the process
\* runs in, nothing but errors is ever written, although the level is DEBUG until
\* the configuration is read and the other mode's variables may ask for them.
QuietByDefault ==
  Settings.diagnostics \notin {"True", "true"} => \A i \in DOMAIN log : log[i] = "ERROR"
=============================================================================
