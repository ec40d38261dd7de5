--------------------------- MODULE MCCreditLedger ---------------------------
\* Small instances of CreditLedger for TLC.
EXTENDS CreditLedger, TLC

CONSTANTS r1, r2, k1, k2
=============================================================================
