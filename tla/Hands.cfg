SPECIFICATION Spec
CONSTANTS
  MaxPlayerCards = 4
  MaxDealerCards = 3
CONSTRAINT Sorted
INVARIANTS OutcomeFollowsStrength HintIsSound HintFollowsUpCard
CHECK_DEADLOCK FALSE
