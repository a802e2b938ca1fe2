SPECIFICATION Spec
CONSTANTS
  Clients = {c1}
  Workers = {w1}
  HeuristicWorkers = {}
  FailingCalls = {}
  a1 = a1
  a2 = a2
  ActionIds <- OwnIds
  Decks <- MostDecks
INVARIANT TimeoutStands
