---------------------------- MODULE MCPushService ---------------------------
EXTENDS PushService

CONSTANTS m1, m2

MCMsg == {m1, m2}

MCSafe == {m1}
=============================================================================
