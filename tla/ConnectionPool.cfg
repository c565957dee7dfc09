SPECIFICATION FairSpec
CONSTANTS
    None = None
    photo = photo
    quote = quote
    complete = complete
    start = start
    list = list
    j1 = j1
    j2 = j2
    Handlers <- FiveHandlers
    Reading <- OneReading
    Rereading <- ThreeRereading
    Jobs <- TwoJobs
    JobOf <- ThreeOnOneJob
    PoolSize = 2
INVARIANTS OnlyReadBacksStopThePool
PROPERTIES AnsweredUnlessExhausted
CHECK_DEADLOCK FALSE
