SPECIFICATION MCSpec
CONSTANTS
  Resources = {r1, r2, r3}
  n1 = n1
  n2 = n2
  f3 = f3
  Servers = {n1, n2}
  Forwarded = {f1, f2, f3}
  Owner <- MCOwner
  Subscriptions = {s1, s2}
  MaxInbox = 3
INVARIANTS EntryIsSound AnswersComplete CloudSubscriptionsMatch ForwardedEntryWaits RepliesComplete
PROPERTIES EventuallyAnswered ImplementsAnswer DirectCallSettles
\* A forwarded request ends; the tunnel of a server may stay closed.
CHECK_DEADLOCK FALSE
