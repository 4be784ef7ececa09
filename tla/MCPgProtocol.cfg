SPECIFICATION FairSpec
CONSTANTS
    Dialect = "postgres"
    Statements = {"q1", "q2", "q3"}
    Capacity = 2
    Calls = {"Begin", "Rollback", "Run", "Prepare", "ClearCache"}
    MayFail = {"PARSE", "WRITE"}
    MayCancel = {"Begin", "Rollback", "Run", "Prepare", "ClearCache"}
    Discards = {}
    MaxTx = 1
    MaxDepth = 1
    MaxFrames = 3
    MaxPending = 1
    MaxPrepares = 3
INVARIANTS
    ProtocolInSync
    AnswerIsOwn
PROPERTIES
    NoProtocolError
    CallReturns
CHECK_DEADLOCK FALSE
