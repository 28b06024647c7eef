SPECIFICATION Spec
CONSTANTS
    Declared <- MCDeclared
    Number <- MCNumber
    BadNumber = BadNumber
    CommandLines <- MCCommandLines
    RestartLines <- MCRestartLines
    LevelWords <- MCLevelWords
    Lost = Lost
    MaxRuns = 3
    MaxWrites = 2
    MaxBackups = 2
    Faults = 2
INVARIANTS ParsedAsMeant RequestsUseLiveDb EpochWindow
PROPERTIES RestoreServesNewest EndsOnceTcpReturns
CHECK_DEADLOCK FALSE
