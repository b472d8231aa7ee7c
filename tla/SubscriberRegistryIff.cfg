SPECIFICATION Spec
CONSTANTS
  Calls = {c1, c2}
  SubscriberIDs = {s1}
  SubscriptionIDs = {u1}
INVARIANT InputsIffLog
