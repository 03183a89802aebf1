SPECIFICATION FairSpec
CONSTANTS
  j1 = j1
  j2 = j2
  j3 = j3
  w1 = w1
  w2 = w2
  w3 = w3
  k1 = k1
  k2 = k2
  JobIDs = {j1, j2, j3}
  Workers = {w1, w2, w3}
  Cap = 1
  Killers = {k1, k2}
  Target <- MCTarget
  Endless = {j1}
  Stuck = {j2}
  NoJob = NoJob
PROPERTY InFlightCompletes
CHECK_DEADLOCK FALSE
