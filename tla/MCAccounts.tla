------------------------------ MODULE MCAccounts ------------------------------
EXTENDS Accounts, TLC
CONSTANTS r1, r2
MCSymmetry == Permutations({r1, r2})
=============================================================================
