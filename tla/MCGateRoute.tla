----------------------------- MODULE MCGateRoute ----------------------------
EXTENDS GateRoute, TLC

CONSTANTS r1, r2

MCRemote == {r1, r2}

MCSymmetry == Permutations(MCRemote)
=============================================================================
