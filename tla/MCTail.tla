------------------------------- MODULE MCTail -------------------------------
EXTENDS Tail
MCModes == {"create", "copytruncate"}
=============================================================================
