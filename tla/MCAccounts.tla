----------------------------- MODULE MCAccounts -----------------------------
(* Accounts for two requests about the profile.                             *)
EXTENDS Accounts

CONSTANTS r1, r2

TwoRequests == {r1, r2}
=============================================================================
