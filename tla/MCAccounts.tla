------------------------------ MODULE MCAccounts ------------------------------
(* The instance of Accounts that MCAccounts.cfg checks.                        *)
EXTENDS Accounts

\* One amount a charge should refuse, and one it should not.
SignedAmounts == {-1, 1}
=============================================================================
