\* The datagrams of one message may come twice, all of them in any order or not
\* at all; there is room for both.
SPECIFICATION Spec
CONSTANTS
  Ids = {1, 2}
  Bodies <- MCBodies
  EmptyBody = ""
  MaxByte = 2
  U64Max = 4
  incomplete_capacity = 3
  max_chunks_per_message = 2
  incomplete_timeout_ms = 1
  Time <- MCTimes
  MaxOpened = 4
  Contents <- MCContents
  Undivided <- MCUndivided
  Copies <- MCCopies
INVARIANT ProcessedWasSent
PROPERTIES ImplementsDelivery EveryMessageProcessed
