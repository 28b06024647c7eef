SPECIFICATION AsyncSpec
CONSTANTS
    w = w  c1 = c1  o = o
    NoItem = NoItem
    Threads <- MCThreads
    Items <- MCItems
    Capacity = 2
    Worker = w
    Owner = o
    Sinks = 2
    SinkLevel <- MCSinkLevel
    Level = 2
    FlushLevel = 4
    MsgLevels <- MCLevels
    Policies = {"block_retry", "discard_log_msg"}
    Interval = FALSE
    Budget <- MCBudget
    Faults = 1
INVARIANTS NoDataRace NothingLostAtExit
PROPERTIES FlushDelivers ImplementsFifo CallsReturn
CHECK_DEADLOCK FALSE
