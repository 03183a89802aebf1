SPECIFICATION Spec
CONSTANTS
  s1 = s1
  s2 = s2
  j1 = j1
  j2 = j2
  g1 = g1
  g2 = g2
  g3 = g3
  c1 = c1
  c2 = c2
  SessionIDs = {s1}
  JobIDs = {j1, j2}
  Senders = {g1, g2, g3}
  Conns = {c1, c2}
  SessionOf <- MCSessionOf
  JobOf <- MCJobOf
  NoJob = NoJob
  Requests <- AllRequests
  Nil = Nil
  Stuck = {c1, c2}
  MaxSends = 1
SYMMETRY ConnSymmetry
INVARIANT BroadcastReachesAll
