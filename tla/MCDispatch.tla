----------------------------- MODULE MCDispatch -----------------------------
EXTENDS Dispatch

CONSTANTS main, conv, m1, m2, g1            \* lanes; turns of main and of conv

MCLaneOf == [t \in Turns |-> IF t = g1 THEN conv ELSE main]
=============================================================================
