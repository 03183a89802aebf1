SPECIFICATION FairSpec
CONSTANTS
  s1 = s1
  s2 = s2
  j1 = j1
  j2 = j2
  g1 = g1
  g2 = g2
  g3 = g3
  c1 = c1
  c2 = c2
  SessionIDs = {s1, s2}
  JobIDs = {j1, j2}
  Senders = {g1, g3}
  Conns = {c1, c2}
  SessionOf <- MCTwoSessions
  JobOf <- MCJobOf
  NoJob = NoJob
  Requests <- SomeRequests
  Nil = Nil
  Stuck = {c2}
  MaxSends = 1
PROPERTIES SendReturns DeadConnForgotten
