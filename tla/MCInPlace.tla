----------------------------- MODULE MCInPlace -----------------------------
EXTENDS InPlace
=============================================================================
