SPECIFICATION Spec
CONSTANT MaxFd = 9
CONSTANT Starts <- MCStarts
INVARIANTS Sealed RestoredAfterwards
CHECK_DEADLOCK FALSE
