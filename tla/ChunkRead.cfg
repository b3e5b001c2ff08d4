\* Up to four chunks of up to three bytes, some empty, and buffers smaller than
\* a chunk, as large as one, and larger than one.
SPECIFICATION ReadSpec
CONSTANTS
  MaxChunks = 4
  MaxChunk = 3
  MaxBuf = 4
INVARIANTS ReadsConcatenation ShortOnlyAtEnd
