SPECIFICATION Spec
CONSTANTS
  Clients = {c1}
  Workers = {}
  HeuristicWorkers = {}
  FailingCalls = {}
  a1 = a1
  a2 = a2
  ActionIds <- OwnIds
  Decks <- OneDeck
PROPERTY ResendIsReplayed
