SPECIFICATION MCSpec
CONSTANTS
  Clients = {p1, p2}
  Selections = {s1}
  MaxCalls = 3
  Calls = {c1, c2, c3}
  SubscriberIDs = {p1, p2}
  SubscriptionIDs = {u1, u2}
  Checks <- OneOfEach
  Candidates <- SomeResources
  OnPath <- BelowOne
  Begins <- NamedLike
  Depth = 2
  Subscribers = {p1, p2}
  Levels = {"x", "y"}
  Topics <- SomeTopics
  Patterns <- OnePatternOfEach
SYMMETRY Symmetry
INVARIANTS SelectorsCover EventsReachSubscribers ReconnectKeepsSubscriptions RecordsAreWrittenInOrder QuietRecordsMatchMemory LookupFindsEstablished NoFalseMatch  PublishSetIsExact
