SPECIFICATION ServicesSpec
CONSTANTS
    Channels = {"a"}
    MaxNotify = 2
    MaxBreaks = 1
    MaxChannels = 1
    MaxCuts = 1
    Chunks = {"x", "y"}
    MaxQueries = 3
    MaxSent = 2
    MaxReads = 2
    MayFail = {"copy_in", "copy_out", "rows", "data", "not_copy"}
    MayDrop = {"copy_in", "read_from", "copy_out", "call"}
    Sessions = {"s", "t"}
    MaxGuards = 2
    MaxStuck = 1
    MayCancel = {"acquire", "release_now"}
    Plugins = {"mysql_native_password", "caching_sha2_password", "sha256_password", "mysql_clear_password"}
    MaxDdl = 1
    MaxResolves = 3
    Sizes = {1, 2}
    MaxBytes = 4
    InitCap = 3
    Frames <- TheFrames
    MaxSteps = 5
    Programs <- ThePrograms
    RootBlocks <- TheRootBlocks
    MayBeNull <- TheMayBeNull
    Gas = 3000
    Strings = {"one", "two", "late"}
    Pieces <- ThePieces
    Given <- TheArguments
    Capacity = 1
    MaxCalls = 2
    Procs = {"p1", "p2"}
    N = 2
    Sources <- TheSources
    Databases = {"postgres", "mysql", "sqlite"}
    NoTx = {2}
    Ddl = {1}
    Targets <- TheTargets
    IgnoreMissing = {"p2"}
    Retry = TRUE
    MaxOps = 2
    MaxCrashes = 1
    Habits <- TheHabits
    MaxAdds = 3
    MaxSeconds = 1
    MaxCommands = 2
    MaxOutages = 1
    Runners = {"r1", "r2"}
    Paths = {"p", "q"}
    MaxRuns = 3
    MaxCleanups = 1
    Children = {"c1", "c2"}
    Clients = {"k1", "k2"}
    ParentMax = 2
    ChildMax = 1
INVARIANTS NotificationsExact CopyInSync AdvisoryLocksExact LoginsAgree TransportFaithful DescribedFaithfully StatementsOnce MigrationsExact DatabasesReady
PROPERTIES NothingTakenBack
CHECK_DEADLOCK FALSE
