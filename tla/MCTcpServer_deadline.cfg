SPECIFICATION Spec
CONSTANTS
  t1 = t1
  t2 = t2
  c1 = c1
  c2 = c2
  NoConn = NoConn
  NoThread = NoThread
  Threads = {t1}
  Conns = {c1}
  cfg_read_timeout = 1
  cfg_write_timeout = 1
  cfg_max_bytes = 1
INVARIANTS ReadTimeoutPerRequest
CHECK_DEADLOCK FALSE
