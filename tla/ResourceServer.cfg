SPECIFICATION Spec
CHECK_DEADLOCK FALSE
CONSTANTS
  c1 = c1
  c2 = c2
  Callers = {c1, c2}
  Work <- MCWork
  Wants <- MCWants
  Answers <- MCAnswers
  StripeOf <- MCStripeOf
  RawTTL <- MCRaw
  RawEntries <- MCRaw
  DefaultTTL = 2
  DefaultEntries = 2
  MinTTL = 1
  MaxTTL = 2
  MaxFlight = 1
  Requests <- MCRequests
  Server <- MCServer
  JwksAnswers <- MCJwksAnswers
  MaxKeys = 2
  MaxSize = 5
INVARIANTS PolicyObeyed CountersExact SoundAccept Complete OutageTold NotInterchangeable
PROPERTY ImplementsStore
