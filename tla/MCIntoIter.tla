----------------------------- MODULE MCIntoIter -----------------------------
EXTENDS IntoIterDeque
=============================================================================
