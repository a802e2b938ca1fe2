SPECIFICATION Spec
CONSTANTS
  Clients = {c1, c2}
  Workers = {w1}
  HeuristicWorkers = {}
  FailingCalls = {c1}
  a1 = a1
  a2 = a2
  ActionIds <- RaceIds
  Decks <- OneDeck
INVARIANTS SnapshotIsConsistent CardsComeFromDeck EveryCommitCounted ResultMatchesTable PhasesAgree OnlyReusedIdsBlock
PROPERTIES VersionNamesState ResultIsFinal ForfeitOnlyWhenOverdue
