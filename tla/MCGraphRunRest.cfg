SPECIFICATION KeptFairSpec
CONSTANTS
  a = a  b = b  c = c  d = d  g = g  h = h  w = w  z = z  yes = yes  no = no
  Nodes = {a, g, w, b, c, h, z}
  Pos <- MCPos
  Edges <- GatedArmEdges
  Always = Always
  Otherwise = Otherwise
  Branches = {b}
  Choices = {yes, no}
  Humans = {h}
  Upstream <- GateUpstream
  Fallible = {a, g, w, z}
  HasBudget = TRUE
  MaxParallel = 2
  MaxAttempts = 2
  GateRetryMax = 2
  Loops = {1}
  MaxParked = 2
INVARIANT OneBranchTaken
INVARIANT ApprovalRemembered
PROPERTY RunSettles
