SPECIFICATION Spec
CONSTANTS
  Callers = {h1}
  Requests = {"join", "start", "act", "vote"}
  Sockets = {}
  Workers = {w1}
  FailingCalls = {}
  MaxSessions = 2
  MaxVersion = 2
PROPERTY DenialIsFinal
