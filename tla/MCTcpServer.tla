----------------------------- MODULE MCTcpServer ----------------------------
EXTENDS TcpServer

CONSTANTS k1, k2

MCConn == {k1, k2}
=============================================================================
