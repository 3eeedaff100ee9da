----------------------------- MODULE MCDaemonLock -----------------------------
EXTENDS DaemonLock

CONSTANTS p1, p2, p3

NoneDenied == {}
ThirdByFirst == {<<p3, p1>>}
Others == {<<p1, p2>>, <<p2, p1>>}

=============================================================================
