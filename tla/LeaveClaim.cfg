SPECIFICATION Spec
CONSTANTS
  Callers = {h1, h2}
  Requests = {"join", "leave", "start"}
  Sockets = {}
  Workers = {w1}
  FailingCalls = {}
  MaxSessions = 1
  MaxVersion = 1
INVARIANT LeavingEndsNoRound
