----------------------------- MODULE MCTryBuild -----------------------------
EXTENDS TryBuild
=============================================================================
