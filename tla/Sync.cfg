SPECIFICATION Spec
CONSTANTS
  s1 = s1
  s2 = s2
  k1 = k1
  Conns = {c1, c2}
  Servers = {s1, s2}
  NoConn = NoConn
  Calls = {k1}
  CallAt <- AtFirst
  MaxCommits = 2
  MaxRounds = 2
  MaxVersion = 2
  MaxEvents = 1
SYMMETRY SameConns
INVARIANTS TypeOK HubServesTheLatest NobodyIsDeaf EverybodyIsTold
PROPERTIES ActsOnWhatItSaw
CHECK_DEADLOCK FALSE
