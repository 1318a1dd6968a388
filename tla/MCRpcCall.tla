------------------------------ MODULE MCRpcCall -----------------------------
EXTENDS RpcCall

CONSTANTS c1, c2, w1, w2

MCCall == {c1, c2}

MCWorker == {w1, w2}
=============================================================================
