CONSTANT Streams = {s1}
SPECIFICATION Spec
INVARIANTS NoStreamLeak
CHECK_DEADLOCK FALSE
