SPECIFICATION BusySpec
CONSTANTS
  a = a  b = b  c = c  d = d  g = g  h = h  w = w  z = z  yes = yes  no = no
  Nodes = {w, b, h, z}
  Pos <- MCPos
  Edges <- ArmEdges
  Always = Always
  Otherwise = Otherwise
  Branches = {b}
  Choices = {yes, no}
  Humans = {h}
  Upstream <- NoGates
  Fallible = {w}
  HasBudget = TRUE
  MaxParallel = 2
  MaxAttempts = 2
  GateRetryMax = 2
  Loops = {1, 2}
  MaxParked = 2
INVARIANT CompletedMeansAllNodes
PROPERTY OrderSpec
