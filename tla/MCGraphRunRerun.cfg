SPECIFICATION Spec
CONSTANTS
  a = a  b = b  c = c  d = d  g = g  h = h  w = w  z = z  yes = yes  no = no
  Nodes = {a, g}
  Pos <- MCPos
  Edges <- ShortGateEdges
  Always = Always
  Otherwise = Otherwise
  Branches = {}
  Choices = {}
  Humans = {}
  Upstream <- GateUpstream
  Fallible = {a, g}
  HasBudget = TRUE
  MaxParallel = 2
  MaxAttempts = 2
  GateRetryMax = 2
  Loops = {1, 2}
  MaxParked = 0
INVARIANT TypeOK
INVARIANT RunningHasLoop
PROPERTY NoStartWhileStopped
