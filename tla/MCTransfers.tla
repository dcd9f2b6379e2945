---------------------------- MODULE MCTransfers -----------------------------
\* The instance of Transfers that TLC checks.
EXTENDS Transfers

=============================================================================
