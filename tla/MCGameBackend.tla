--------------------------- MODULE MCGameBackend ---------------------------
\* The instances of GameBackend that TLC checks; the cfg files give the
\* wallets as model values and choose the clients and the budgets of faults.
EXTENDS GameBackend
=============================================================================
