SPECIFICATION ChainSpec
CONSTANTS
    Recorder = {a, b}
    MaxEvents = 2
    MaxSecond = 0
CHECK_DEADLOCK FALSE
INVARIANT RecordingSerialized
