SPECIFICATION Spec
CONSTANTS
  c1 = c1
  c2 = c2
  n1 = n1
  n2 = n2
  k1 = k1
  k2 = k2
  Callers = {c1, c2}
  Names = {n1, n2}
  Sinks = {k1, k2}
  Helper = Helper
  SinkLists <- MCSinkLists
  Levels = {2, 4}
  Info = 2
  Off = 6
  Formatters = {f1}
  DefaultFormatter = f0
  Handlers = {h1}
  DefaultHandler = h0
  ErrInterval = 1
  MaxRegCalls = 2
  MaxLogs = 2
  SinkFaults = 2
  LastMinute = 2
  MaxSize = 3
  MaxFiles = 2
  MsgSizes = {1, 2, 4}
  Absent = Absent
  MaxMsgs = 4
  FileFaults = 2
  Opens = 2
  DayLength = 4
  RotationTimes = {0, 2, 3, 4}
  LastTime = 16
  DayFaults = 1
  IntBits = 30
  Separator <- MCSeparator
  Patterns <- MCPatterns
  LogMsgs <- MCLogMsgs
  FormatCalls <- MCFormatCalls
  Unspecified = Unspecified
  UIntModulus = 32
SYMMETRY Symmetry
INVARIANTS FilesAreSuffix RotationSafe DailyFileFresh LoggersAgree DeliveredOrHandled LinesAsMeant FormatsAsMeant
CHECK_DEADLOCK FALSE
