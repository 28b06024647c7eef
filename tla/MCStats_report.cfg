SPECIFICATION SSpec
CONSTANTS
    keys = keys  requests = requests
    Names <- MCNames
    EpochNames <- MCEpochNames
    Missing = Missing
    MaxRecords = 3
    SendFaults = TRUE
INVARIANTS CountsConserved NewerWaits
PROPERTIES ReportsOnce CountsArrive
CHECK_DEADLOCK FALSE
