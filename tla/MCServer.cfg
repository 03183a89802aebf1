SPECIFICATION FairSpec
CONSTANTS
  s1 = s1
  s2 = s2
  j1 = j1
  j2 = j2
  j3 = j3
  w1 = w1
  w2 = w2
  c1 = c1
  c2 = c2
  r1 = r1
  SessionIDs = {s1, s2}
  JobIDs = {j1, j2, j3}
  SessionOf <- MCSessionOf
  Endless = {j3}
  Workers = {w1, w2}
  Cap = 1
  Conns = {c1, c2}
  Topic <- MCTopic
  Stuck = {c1}
  Others = {r1}
  NoJob = NoJob
INVARIANTS TypeOK NothingCutOff
PROPERTIES HearsTheEnd ShutdownEnds
CHECK_DEADLOCK FALSE
