-------------------------- MODULE MCMasterElection --------------------------
EXTENDS MasterElection, TLC
Symm == Permutations(Node)
=============================================================================
