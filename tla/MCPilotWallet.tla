---------------------------- MODULE MCPilotWallet ----------------------------
\* Small instances of PilotWallet for TLC.
EXTENDS PilotWalletProperties, TLC

Symmetry == Permutations(Requests)
==============================================================================
