---------------------------- MODULE MCMessageFlow ----------------------------
EXTENDS MessageFlow

CONSTANTS c1, c2

OneChat == {c1}
TwoChats == {c1, c2}
Two == {2, 3}
Three == {2, 3, 4}
=============================================================================
