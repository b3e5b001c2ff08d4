SPECIFICATION Spec
CONSTANT MaxCount = 2
CHECK_DEADLOCK FALSE
INVARIANTS TypeOK NoIncrementLost FinalFlush
PROPERTIES StopsForCause ShutdownCompletes
