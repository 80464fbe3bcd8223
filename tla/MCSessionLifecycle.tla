-------------------------- MODULE MCSessionLifecycle --------------------------
EXTENDS SessionLifecycle
CONSTANTS c1, c2, c3, n1, n2
OneNode == [c \in Conn |-> n1]
TwoNodes == [c \in Conn |-> IF c = c2 THEN n2 ELSE n1]
Servers == [c \in Conn |-> "server"]
Clients == [c \in Conn |-> "client"]
=============================================================================
