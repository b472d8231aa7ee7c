SPECIFICATION SelectionSpec
CONSTANTS
  Checks <- TwoIds
  Candidates <- SomeResources
  OnPath <- BelowOne
  Begins <- NamedLike
  Depth = 1
INVARIANTS OrMatchesEither
