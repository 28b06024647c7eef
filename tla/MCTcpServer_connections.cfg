SPECIFICATION Spec
CONSTANTS
  t1 = t1
  t2 = t2
  c1 = c1
  c2 = c2
  NoConn = NoConn
  NoThread = NoThread
  Threads <- MCThreads
  Conns <- MCConns
  cfg_read_timeout = 0
  cfg_write_timeout = 1
  cfg_max_bytes = 0
SYMMETRY Symmetry
INVARIANTS SerialRequest AnswersFinished NoOrphan ClosedNotTracked
CHECK_DEADLOCK FALSE
