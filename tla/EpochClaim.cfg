SPECIFICATION ConnSpec
CONSTANTS
  Conns = {c1, c2}
  Servers = {s1, s2}
  NoConn = NoConn
  Faulty = {}
INVARIANT OnlyLatestEpochActs
CHECK_DEADLOCK FALSE
