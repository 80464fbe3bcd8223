--------------------------- MODULE MCRelayDispatch ---------------------------
EXTENDS RelayDispatch, TLC
Symm == Permutations(Node) \cup Permutations(Cfg)
=============================================================================
