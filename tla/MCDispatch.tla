---------------------------- MODULE MCDispatch ----------------------------
EXTENDS Dispatch

CONSTANTS w1, w2

MCWorkers == {w1, w2}

MCPods == <<1, 2>>

=============================================================================
