SPECIFICATION FairSpec
CONSTANTS
  Callers = {h1}
  Requests = {"join", "leave", "start", "act", "vote", "reset"}
  Sockets = {s1}
  Workers = {w1, w2}
  FailingCalls = {h1, s1, w1}
  MaxSessions = 2
  MaxVersion = 2
INVARIANTS CurrentRoundExists PlayedRoundIsAttended
PROPERTIES RequestsAreAtomic RoomIsReleased
