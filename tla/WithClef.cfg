\* A capacity of 30 bytes; hosts up to one byte longer.  Two digits for nine,
\* 7 bits for 32; one decimal and two seconds too many.
SPECIFICATION Spec
CONSTANTS
  INLINE_STRING_CAPACITY = 30
  Digits = 2
  Bits = 7
  FormatMax = 1
  SystemMax = 2
  U64Max = 3
  MaxScale = 3
  MaxSeconds = 4
CHECK_DEADLOCK FALSE
INVARIANTS
  ConvertedIffReadable RawPayloadBeside
   
