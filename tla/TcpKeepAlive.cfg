\* The documented meaning of the keep-alive period.
SPECIFICATION Spec
CONSTANTS
  max_size_bytes = 2
  keep_alive = 2
  MaxLen = 3
CHECK_DEADLOCK FALSE
INVARIANTS MessageWithinKeepAlive
