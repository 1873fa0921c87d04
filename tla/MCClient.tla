------------------------------ MODULE MCClient ------------------------------
\* The instances of Client that TLC checks.
EXTENDS Client
=============================================================================
