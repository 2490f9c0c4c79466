----------------------------- MODULE MCReadFile -----------------------------
EXTENDS ReadFile
=============================================================================
