--------------------------- MODULE MCRelaySession ---------------------------
EXTENDS RelaySession

BothKinds == {"pull", "push"}
Either == BOOLEAN
Never == {FALSE}
=============================================================================
