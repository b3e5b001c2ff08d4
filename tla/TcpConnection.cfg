\* Streams of up to nine bytes in every segmentation; frames may hold two.
SPECIFICATION Spec
CONSTANTS
  max_size_bytes = 2
  keep_alive = 2
  MaxLen = 9
CHECK_DEADLOCK FALSE
INVARIANTS TypeOK ReadHeadSound BufferBound FramingExact ItemWithinKeepAlive
PROPERTIES EventuallyClosed
