SPECIFICATION Spec
CHECK_DEADLOCK FALSE
CONSTANTS
  c1 = c1
  c2 = c2
  k1 = k1
  Callers = {c1, c2}
  Closers = {k1}
  Workloads <- MCWorkloads
  Requests <- MCRequests
  Answers <- MCAnswers
  Retries = 1
  BaseDelay = 1
INVARIANTS AtMostOnce Honest NoOrphan SharedOpen
PROPERTY EveryCallReturns
