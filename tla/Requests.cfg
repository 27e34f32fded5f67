\* A server's thread and a caller of the compression manager beside each other.
SPECIFICATION FairSpec
CONSTANTS
    t1 = t1  t2 = t2  nav = nav  big = big
    Threads = {t1, t2}
    Tools <- SomeTools
    Questions <- AllQuestions
    Keys <- SomeKeys
    KeyOf <- KeysOf
    Weight <- Weights
    Models = {big}
    Default = big
    SafeBuffer <- Buffers
    None = None
    MaxRows = 2
    MaxCols = 2
    Workbooks <- SomeWorkbooks
    NavIndexes = {nav}
    Values <- SomeValues
    Parts <- SomeParts
    Short = {90}
    Batches <- SomeBatches
    Limits = {14}
    Cleaned <- SomeCleaned
    MaxMemo = 2
INVARIANTS
    TypeOK
    Accurate
    RowsAnswered
    LimitsAgree
    LossAnnounced
    TargetKept
    PriorityKept
PROPERTIES
    Answered
CHECK_DEADLOCK FALSE
