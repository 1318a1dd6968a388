----------------------------- MODULE MCRemoteMgr ----------------------------
EXTENDS RemoteMgr

CONSTANTS s1, s2, a1, g1, g2

MCService == {s1, s2}

MCAddr == {a1}

MCRuns == {<<s1, a1>>, <<s2, a1>>}

MCSlot == {g1, g2}
=============================================================================
