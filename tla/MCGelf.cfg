\* Three ids, one more than the capacity, and messages of two and three chunks:
\* overflow, expiry and completion of several messages, and messages reopened
\* after each of them.
SPECIFICATION Spec
CONSTANTS
  Ids = {a, b, c}
  EmptyBody = empty
  Bodies = {empty, x}
  MaxByte = 4
  U64Max = 3
  incomplete_capacity = 2
  max_chunks_per_message = 3
  incomplete_timeout_ms = 1
  Time <- MCTime
  MaxOpened = 3
SYMMETRY Symmetry
INVARIANTS TypeOK IndexesAgree CapacityBound StoredIncomplete
PROPERTIES TimeoutFromFirstChunk LeavesForCause NoLateJoin ImplementsReassembly
