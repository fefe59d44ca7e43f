SPECIFICATION FairSpec
CONSTANTS
  main = main  conv = conv  m1 = m1  m2 = m2  g1 = g1  None = None
  Pods = {p1, p2}
  Lanes = {main, conv}
  Turns = {m1, g1}
  Runners = {r1}
  LaneOf <- MCLaneOf
  Adapters = {g1}
  MaxCalls = 2
  MaxFaults = 1
  MaxLapses = 1
INVARIANT TypeOK
INVARIANT TurnRunsOnce
INVARIANT SettledIsTaken
PROPERTY RunnersComeBack
CHECK_DEADLOCK FALSE
