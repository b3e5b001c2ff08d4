SPECIFICATION Spec
CONSTANTS
  CertFiles = {"missing", "malformed", "cert", "both"}
  KeyFiles = {"missing", "malformed", "cert", "key"}
CHECK_DEADLOCK FALSE
INVARIANTS TlsAsConfigured FailureReported QuietByDefault
