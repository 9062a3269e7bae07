CONSTANTS
  NoActor = NoActor
  NoSlot = NoSlot
  NoToken = NoToken
  Undecided = Undecided
  Corrupt = Corrupt
  Slots = {s1, s2, s3}
  Actors = {a1, a2}
  MaxGeneration = 2
  MaxTokens = 2
  MaxRestarts = 1
SPECIFICATION FairSpec
INVARIANT Coherent LatestDecisionWins TokenPresentedOnce NothingLeftBehind
PROPERTY RegisterSpec StatesSettle
CHECK_DEADLOCK FALSE
