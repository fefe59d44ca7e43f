---------------------------- MODULE MCGraphRun ----------------------------
(***************************************************************************)
(* Graphs for TLC, each the smallest with the case a run is about.         *)
(***************************************************************************)
EXTENDS GraphRun

CONSTANTS a, b, c, d, g, h, w, z, yes, no

Edge(m, n, when) == [from |-> m, to |-> n, when |-> when]
Order1 == <<w, a, b, g, c, d, h, z>>
MCPos == [n \in Nodes |-> CHOOSE i \in 1..8 : Order1[i] = n]

NoGates == [n \in {} |-> n]

\* An agent and its gate.
ShortGateEdges == {Edge(a, g, Always)}
GateUpstream == [n \in {g} |-> a]

\* A human node on the only arm of a branch, and an agent beside the branch.
ArmEdges == {Edge(b, h, yes), Edge(w, z, Always), Edge(h, z, Always)}

\* A gate, a branch behind it, and a human node and an agent on one arm.
GatedArmEdges ==
  ShortGateEdges \cup
  {Edge(g, b, Always), Edge(b, h, yes), Edge(h, z, Always), Edge(b, c, Otherwise)}
=============================================================================
