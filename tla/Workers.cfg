SPECIFICATION FairSpec
CONSTANTS
  Clients = {c1}
  Workers = {w1, w2}
  HeuristicWorkers = {w2}
  FailingCalls = {c1, w1}
  a1 = a1
  a2 = a2
  ActionIds <- WorkerIds
  Decks <- WorkerDecks
INVARIANTS TypeOK
PROPERTIES RoundFinishes PlaysAtTheTable
