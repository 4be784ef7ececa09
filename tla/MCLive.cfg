SPECIFICATION LiveSpec
CONSTANTS
    Channels = {"a"}
    MaxNotify = 1
    MaxBreaks = 1
    MaxChannels = 1
    MaxCuts = 0
    Sessions = {"s", "t"}
    MaxGuards = 1
    MaxStuck = 1
    MayCancel = {"acquire", "release_now"}
    MaxSteps = 5
PROPERTIES
    WorkerAnswers
    HandleKept
    ListenerServed
    LockGranted
    StreamCompletes
CHECK_DEADLOCK FALSE
