SPECIFICATION Spec
CONSTANTS
  Callers = {h1, h2}
  Requests = {"join", "start", "act", "vote"}
  Sockets = {}
  Workers = {w1}
  FailingCalls = {}
  MaxSessions = 3
  MaxVersion = 1
SYMMETRY SameRequests
INVARIANTS TypeOK RoundsAreConsecutive
PROPERTIES AgreementIsFinal
